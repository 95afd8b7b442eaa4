# Verification of evanciel-quant-mcp

The program trades: strategies are saved as trees of rules, bots evaluate them
on closed bars, and a bot in live mode sends its orders to a broker (Binance,
KIS, Kiwoom, Toss). It is one Node process with one SQLite file. This directory
holds TLA+ models of the parts that can lose money by going wrong in an order
of events nobody tested, the TLC runs that check them, and machine-checked
proofs of what can be shown for every value of the parameters.

All paths are relative to the repository; `runner.ts` is `src/runner/runner.ts`.

## 1. The system

| Component | State it keeps | Operations | Talks to |
|---|---|---|---|
| runner (`runner.ts`, class `Runner`) | a timer per bot, `ticking` (the lock), sweep and backup timers; `bootSeeded`, `lbBooted`, `_protectiveExitAt` in memory | `start`, `stop`, `resumeAll`, `protectiveSweep`, `emergencyStopAll` | store, bots |
| spot bot tick (`tickBot`, `fillOrder`, `resolveUnknownEntry`, `bootSeedLivePosition`, `reconcileProtectiveFills`, `forceReconcileOnUnknown`) | `bots.position_state`, `trades` | one tick per interval | engine, broker, safety, store |
| limit entries (`resolvePendingEntry`, `entry.ts`) | `position_state.pendingEntry` | place, poll, time out, complete at market | broker |
| limit-bracket bot (`limit-bracket.ts`, `tickLimitBracket`) | a `LimitBracketState` in `position_state` | decide on one observation; place, cancel, book | broker, store |
| scanner bot (`tickScannerBot`, `rank.ts`) | a map of positions | rank, sell what dropped out, buy what came in | broker, store |
| protective orders (`protective.ts`, `protective-monitor.ts`) | ids of resting stops in the position | plan, diff, cancel and place; judge a price | broker |
| order safety gates (`brokers/safety.ts`, `core/risk`) | confirmation tokens, audit file; environment variables | `liveGate`, `checkLimits`, `portfolioGate`, `mintToken`, `consumeToken` | store (deployed notional, day's loss) |
| live order handlers (`live-handlers.ts`) | none of their own | preview then confirm: `placeOrder`, `placeProtective`, `cancelProtective` | safety, broker |
| bot handlers (`bot-handlers.ts`) | bot and strategy rows | `createBot`, `startBot`, `stopBot` | runner, store |
| store (`db.ts`) | `bots`, `trades`, `bot_logs`, `composites` | `insertTrade` (idempotent by key), `setBotPositionState`, `liveOpenLedger`, `realizedEquityCurve` | SQLite |
| position arithmetic (`core/position`, `order-sizing.ts`, `sizing.ts`) | none | ladders, shorts, quantities | — |
| broker adapters (`brokers/*.ts`) | token cache, rate spacing, symbol filters | sign, retry, translate | HTTP |
| alerts (`core/alerts`) | debouncer, buffer, Telegram offset | detect, debounce, deliver, confirm a command | HTTP |
| backtest engine (`core/backtest`, `core/strategy`) | none between calls | simulate a strategy over bars | — |
| daemon, dashboard, setup | the switches: `LIVE_TRADING_ENABLED`, `LIVE_TRADING_HALT`, the environments | `haltAll`, `resume`, `/api/live`, the credentials form | safety, runner |
| validation, tool server, market data | caches | parse, dispatch, fetch | — |

How they interact. Each running bot has a timer; its tick takes the bot's entry
in `ticking`, reads its row, awaits the bars, the broker and possibly several
orders, and writes the row back. Beside the tick run, in the same process and on
the same row, the protective sweep (every ten seconds, with the lock only while
it sells), `emergencyStopAll` (with no lock) and the handlers of the tool server.
At each `await` any of them may run, the exchange may execute an order, and the
process may die. Nothing is exchanged but through the row, the trades table and
the exchange, which is why the models put these three in the middle.

What is hard, and the properties that make each component correct:

- **limit-bracket bot**: the listing and the holdings lag behind; the process
  dies between sending an order and saving its id. It must never buy or sell
  twice, book only what was executed, move through its phases in one direction
  and reach its end.
- **spot bot and runner**: the same, with market orders whose outcome is unknown,
  a resident stop that the exchange executes at any moment, and three actors. It
  must not enter twice, hold nothing that no position manages, book only what
  happened, never touch the account for a paper position, and converge.
- **limit entries**: an entry in part executed at the time-out must be completed
  once, and the remainder never ordered while the first order is alive.
- **safety gates and handlers**: what a confirmation confirms must be what is
  ordered, once, within its time; limits must hold for orders checked at the
  same time.
- **scanner**: what is booked and what is held must agree symbol by symbol, the
  slots must be kept, and the portfolio's limits must hold for a tick that opens
  several positions.
- **adapters**: a retried request must not repeat an order, an answer must say
  what happened, and a request must not carry a dead token.
- **backtest engine and position arithmetic**: the same code trades the live
  bots, through the trades of its last bars; its books must be a ledger, its
  average the one the runner derives, its decisions free of later bars, and a
  stop may only tighten.

## 2. Modules

| Module | Code it stands for | Role |
|---|---|---|
| `LimitBracket` | `limit-bracket.ts`, `tickLimitBracket` and its helpers in `runner.ts`, `startBot`/`stopBot` | the bot with broker, operator, crash |
| `BracketContract` | — | what a limit-bracket bot promises, seen from the broker; `LimitBracket` refines it |
| `SpotBot` | `tickBot`, `fillOrder`, the reconciliations, `protectiveSweep`, `emergencyStopAll`, `protective.ts` | one spot bot with three actors, exchange, crash |
| `LimitEntry` | the limit entry's path through `tickBot`, `resolvePendingEntry`, `fillOrder` | an entry by limit order, tick by tick |
| `Scanner` | `tickScannerBot`, `rank.ts`, the portfolio gate in `runner.ts` | one tick over a universe of symbols |
| `OrderDesk` | `safety.ts`, the order handlers of `live-handlers.ts`, the path through `fillOrder`, `/api/live`, the switches | overlapping orders past the gates, limits and tokens |
| `BrokerAdapter` | `base.ts`, `binance.ts`, `kis.ts`, `kiwoom.ts`, `toss.ts` | two calls over one adapter object or two, request by request |
| `Backtest` | `engine.ts`, `short-engine.ts`, `derivePosition` | the three engines, bar by bar |
| `BacktestLedger` | — | what the books of a backtest are: a ledger; `Backtest` refines it |
| `StrategyTree` | conditions, contexts and validation in `core/strategy`, `core/types/strategy.ts` | what a tree of strategies decides on a bar |
| `Ladder`, `Sizing`, `EntryFill`, `KrxTick` | `core/position`, `core/risk`, `execution/entry.ts`, `krx-tick.ts` | pure operators the modules above share |
| `LimitBracket_proofs`, `SpotBot_proofs`, `OrderDesk_proofs`, `LimitEntry_proofs`, `Scanner_proofs`, `BrokerAdapter_proofs`, `BacktestParts_proofs`, `Backtest_proofs` | — | inductive invariants and theorems |
| `MCLimitBracket`, `MCSpotBot`, `MCLimitEntry`, `MCScanner`, `MCOrderDesk`, `MCBrokerAdapter`, `MCBacktest` | — | the instances of the runs: inputs, markets, strategies, budgets of faults |

What composes what: `Scanner` and `Backtest` extend `Sizing`; `Backtest` extends
`StrategyTree` (which extends `Ladder`) and `EntryFill`; `LimitEntry` extends
`EntryFill`, so that the live entry and the simulated one share one translation
of `entry.ts`; `BrokerAdapter` extends `KrxTick`. The bots' modules meet at an
exchange of their own rather than at `BrokerAdapter`: each takes from the adapters
what `AdapterCalls` shows of them, that a call leaves at most one order, that it
ends, and that what it returns is true but for the exceptions `ResultsAreTrue` names.

A definition whose name is another's with a suffix (`CanPlace_NoCap`, `PeakOf_Last`) is
a wrong variant of it that no action uses, kept beside it: a property is worth
its run only if it fails when the variant takes the definition's place.

### LimitBracket

`st` is the persisted `LimitBracketState`, with the figures the decision uses;
`pc` says at which await the running tick is suspended (`idle`, `holdings`,
`order`, `answer`, `cleanup`), and `seen`, `next`, `request` hold what it has
read and is about to save. `Decide(s, o)` is `decideLimitBracket`: one operator per phase,
on an observation `o` built exactly as the tick builds it (the candidate orders
by id, or the single one on that side; the holdings or what the last query gave).
`TickLive`, `Observe`, `OrderAccepted`, `OrderAnswered`, `AnswerLost` are the
pieces of the tick between its awaits; `TickPaper` is the tick of a bot the gate
keeps from the broker; `StopBot`, `StartBot`, `CancelResting` the handlers: a stopped
bot may be started again at any time. The
broker keeps its book and, apart from it, the index it answers from: an answer
may be as old as `OrdersLag` / `HoldingsLag` answers.

The account's owner may rest a buy order of their own at the bot's price
(`EnterByHand`, ids `Strangers`). `Execute` executes it like the bot's, in portions;
`byHand` is what it brought. The bot cannot tell: it adopts such an order when it is the
only candidate (`Mine`), and it sees its execution in the adopted order or in the holdings
(`delta`), books it, and later sells it (section 5). So `NoOverSell`, `FillsAreReal` and
`BracketContract` speak of what the bot *and* the owner bought since the bot began, and of
the holdings of before, which stay untouched; `NoOverBuy` and the sales speak of the bot's
own orders. `BracketContract` lets an account with purchases by hand buy again after it has sold.

Left out: prices (the bot uses only its own two); sales of the owner, which lower the
holdings so that purchases of the bot no longer show and are made again; an order of the
owner's that is larger than the bot's quantity, or a second one beside it; the peak and P&L figures of the
row, the emergency stop's position close, which no limit-bracket state passes through.

### SpotBot

`pos` is `position_state`: nothing, an open position (quantity, channel, level
of its stop, ids resting, failures counted) or the `pendingUnknownEntry` marker.
`act[a]` is where actor `a` — tick, sweep, halt — is suspended, with what it had
read by then; `lock` is `Runner.ticking`. An order passes through `Precheck`
(the lookup by client id, which adopts what the bar has already executed),
`Executed` or `NotExecuted` at the exchange, `Answered` or `AnswerLost`, and
`LookedUp` (the classification of an outcome not seen); `OrderDone` then books
and saves as the caller does, and `GoSync` starts the cancels and placements of
the stop. The client id of an order is its side and its bar, as in the code; a
stop's is its level. `ledger` is what `liveOpenLedger` computes; `bought`, `sold`
are what the exchange really did, and `booked` what the trades say it did.

The bar carries the net position the engine wants: any value the run allows, so
every strategy is covered that the run's sizes can express.

Left out: limit entries (`LimitEntry`), the portfolio gate (`Scanner`), the Korean
brokers' `reconcileLivePosition`, take-profit legs, the peak price (a stop's level
may rise at any tick), clamping of a buy to the balance.

A run bounds faults by `left`: how often each may still happen. It starts as any
member of `Budgets`, so one run covers several scenarios; `Possible` events
(a stop's execution, the sweep's look) are not used up.

### LimitEntry

`saved` is `position_state`: nothing, a paper position, a `pendingEntry` (`Pending`,
with the client id of the candle it was placed in), a `pendingUnknownEntry`
(`Unknown`, with its misses) or an open position. `at` is the await at which the
tick is suspended, `req` the order it is placing, `keys` the idempotency keys
booked. `orders` is the exchange's last entry order of each client id and `held`
what the account holds by them; the bot sees neither but through its calls.

`TickEnters`, `TickAdds`, `TickLooks`, `TickResolvesUnknown` are the four ways a tick
begins: a new entry, an addition to a position (`planPositionDelta`), a look at
the resting order, a look at a marker of unknown outcome. `Precheck`, `NotPlaced`,
`Place`, `Answered` and `Reconciled` are the awaits of `fillOrder`; `Looked`, `Cancel`,
`Requeried` and `Quoted` those of `resolvePendingEntry`, which after the timeout
cancels, looks again and buys the rest at market if the quote is within the cap.
`Execute` and `Lapse` are the exchange's: an order may be executed wholly or in
part, or end, at any of these awaits; `NewBar` turns the candle over there.

Left out: the stop placed after an entry, exits and the second actor (`SpotBot`),
figures of the balance, and the prices of an execution, which no property reads.

### Scanner

`saved` is the map of positions in the row, `work` the tick's copy, `todo` the
orders it still has to place (sales first, then entries in the ranking's order),
`fill` what `fillOrder` has returned and the tick is about to book. `net` and `keys`
are what the booked trades leave, `sent` and `held` what the exchange did. `TickStarts`
ranks, plans and sizes with the data that could be fetched; `Skip` is an order that
needs none; `OnPaper` one the portfolio gate or the live gate keeps from the
exchange, or that belongs to a paper position; `Adopt` the lookup before an order,
`Refused` and `Executed` its outcomes; `Book` books a trade under its key and changes
the copy, and the last one saves the map. `Allows` and `ApplyGate` are
`portfolio.ts` with what the runner feeds it: the *stored* positions of all running
bots. `stuck` and `adrift` are history: what could not be sold when it should have
been, and the symbols of which an execution is known to nobody any more.

Left out: prices within a bar, the scores themselves (a market assigns them), the
settings of several scanners, the correlation's measurement (a constant), and that
`startBot` refuses to start a scanner live (`bot-handlers.ts:97`), for the very lack of a
reconciliation that `stuck` and `adrift` stand for: the module shows what `tickScannerBot`
does when its live gate lets it, as for a live row already running that `resumeAll` takes up.

### OrderDesk

`call[c]` is a handler call suspended at an await — `held`, `listed`, `price`,
`size`, `sellable`, `amount`, `sent`, `cancel` — with the gate's environment and
what it has read; `fill[b]` is a bot's order inside `fillOrder`. `Allowed` is
`liveGate`, `Within` is `checkLimits`, `Terms` what `orderHash` is taken of,
`tokens` the map `TOKENS`. `Present` is the end of every two-step handler: without
a token it mints one, with one it consumes it and sends the order if the token is
good. `Check` runs from the normalisation to `Present` in one step, as no await
lies between, except for a sale at Toss, whose sellable quantity is asked first.
`EnableLive` and `DisableLive` are `/api/live`, `TurnHalt` the daemon's `haltAll`
and `resume`, `TurnEnv` the credentials form. `shown`, `sent` and, in the ledger,
`unseen` are history. The call's token is any that was ever minted, so every way
of presenting one is covered: for other terms, twice, late, after a restart.

Left out: limit orders (they take their own price and the same way from there),
sales for an amount of money, the allow-lists and the portfolio gate, several
currencies (each has its own limits), bots of the Korean brokers and Toss (a
reconciliation books their fills), and that the tool server is a second process
with switches and tokens of its own.

### BrokerAdapter

`setup` is the broker, the environment and whether the two calls share one adapter
object; `call[c]` where a call stands, with its tries, the age of the request under
way and its result; `inst` what an adapter object keeps — the token by its own
record and in truth, who mints one, the cached symbol filters; `net` and `book` the
call's POST and what the exchange made of it. `Call`, `Filters`, `Hash`, `UseToken`,
`JoinMint`, `StartMint`, `Minted`, `MintFails`, `Send`, `Answer`, `TokenRefused` are the steps of a
call between its awaits, for each broker in its order; `Receive` and `Executes` are the
exchange's, and `Tick` lets the ten seconds of a request pass: it ends, whether
the exchange has got it, will get it later, or never. `Retryable`, `Retried` and `Again`
are `withRetry` and what the adapters send through it; `Result` translates an
answer as each adapter does. An answer may be an error in a 200 (`errbody`), an order without its id or
status (`mangled`), a body without the broker's result code (`uncoded`), a success and
nothing else (`bare`), or, at Toss, an account whose buying power failed (`cashless`).

Left out: the cancel by client id (`cancelOrderByClientId`, which reads -2011 as `false`), the quantities' grids of Binance but for the filters' cache, margin and
leverage settings of futures, the spacing of requests (they only wait longer), the
transport's formats and signatures, several symbols.

### Backtest, StrategyTree, Ladder, Sizing, EntryFill

A behaviour draws a setup and a path of bars, and runs the setup's accounts over
it one after the other. `WaitForFill`, `OpenPending`, `StepPlain`, `StepShort`, `StepLadder` and `StepSimple`
are the parts of the engines' loops, one of which handles each bar. What a tree
decides is `Active`, over `StrategyTree`: the conditions (comparisons and crosses of
price, averages, moving averages of a higher timeframe, anchors of the session,
spreads, performance of the child itself, hours, calendar events, regimes), the
nodes (`condition`, `priority`, `weighted`, `none`) with the depth limits of engine
and validator, and rules. `Ladder` holds the position with its partial profits,
additions, trail and stop, and `DerivePosition`, the average the *runner* computes
from trades; `Sizing` the four methods, leverage, and the portfolio's circuit
breakers; `EntryFill` the bar and the price of an entry.

A tree is its nodes: `Nodes` walks it depth by depth as far as the validator does, and
`ResolveActiveStrategy` gives each node what it chooses when the recursion may go so
much deeper; `Accounts` splits weighted roots the same way. Neither needs a recursive
operator, and so the whole of `Backtest` can be reasoned about. `Configured` is what the
schemas and the runner make of a strategy before the engine sees it (`TypedStrategy`,
`TypedNode`, `TypedSizing`, `TypedRisk`); that a seed comes with no ladder is
`runner.ts:1139`, which runs the engine from a seed on the simple path only. Whether a
tree is valid is not assumed but asked by `Init`.

Figures are integers: in the runs prices are multiples of 100 so that every percentage is
whole (the theorems take any price from 100 up), cash is in hundredths, an average is an exact fraction. So the models speak
of the order of steps and of what enters which figure, not of floating-point
rounding. Left out: metrics and significance tests (functions of the finished
result), the indicators but for moving averages (arithmetic over the same bars; a
regime's measurement is the constant `Measure`), the z-score.

### KrxTick

The grid of Korean prices and the rounding to it, the one part of the adapters that
is arithmetic; `BrokerAdapter_proofs` treats every price.

## 3. Runs

| Run | Question | Properties |
|---|---|---|
| `BracketLag` | index lag, and either refusals, lost answers, failing queries and orders that lapse, or an owner who buys at the same price beside a bot whose orders lapse or whose answers get lost | `TypeOK`, `BookKept`, `NoOverBuy`, `NoOverSell`, `FillsAreReal`, `Forward`; implements `BracketContract` |
| `BracketFaults` | two deaths anywhere over two sessions, or a stop and starts at any time after, failing cancels and the gate closing and opening | `NoOverBuy`; `OrdersCapped`: the session's cap exceeded by at most one order per crash |
| `BracketFinishes` | fairness, a crash, lost answers | `Finishes`: done and stopped in the end |
| `SpotEntry` | a bot without a stop: lost requests and answers, failed lookups, refusals, deaths between orders, a closed gate; under fairness | `TypeOK`, `NetWithinSize`, `MarkerResolves`, `ExitHappens`, `Converges` |
| `SpotStops` | a bot with a moving stop executed at any await, beside one of six disturbances; a strategy that scales in while orders are refused or the gate is closed | `NoOrphan`, `BookedIsReal`, `PaperStaysPaper` |
| `SpotExit` | nothing goes wrong, the strategy wants out while the stop rests | **violated**: `ExitHappens` |
| `LimitEntries` | a limit entry executed wholly, in part, late or never, beside three troubles of eight kinds and deaths where the marker can be resumed; under fairness | `TypeOK`, `OneEntry`, `Settled`, `Resolves` |
| `EntryPhantom` | one lost answer while the order rests | **violated**: `BookedIsReal` |
| `Scanners` | three symbols, two slots, three gates, two troubles: data, refusals, parts, lost answers, deaths | `TypeOK`, `BookIsReal`, `SlotsKept`, `HeatBounded` |
| `DeskOrders` | overlapping two-step orders, with expiring tokens and a restart, another environment, the switches, or protective orders and failing queries; two bots ordering beside each other | `TypeOK`, `OrdersWereShown`; `BudgetHolds`: exceeded by at most the orders checked together |
| `AdapterCalls` | two calls of every pair of requests, each broker, one adapter object or two; loss, delay, refusal, odd answers; under fairness | `TypeOK`, `OneOrderPerCall`, `ResultsAreTrue`, `OrdersAsAsked`, `TokenFresh`, `CallsEnd` |
| `Backtests` | twenty-eight strategies over every path of bars of four kinds | `TypeOK`, `AverageIsDerived`, `NoLookAhead`, `StopNeverLoosens`; implements `BacktestLedger` (`KeepsTheLedger`) |

### Bounds, and why they are enough

- *Bracket*. `Qty` is 2 so that partial executions exist, `Baseline` 1 so
  that an over-sale can take what the owner had. `MaxByHand` = 2 lets the owner's purchases
  make up the bot's whole quantity, in one order or two; the owner has one order at a time
  and its id, -1 or -2, is used again once nothing names it. A larger order than the bot's
  is left out: adopted, it says the bot's quantity is bought while the holdings, one
  answer behind, do not show it, which `detectSellFill` takes for a sale. `MaxStops` = 1
  bounds the stops, not the starts. `Debounce` = 3 is the code's
  `LB_FILL_DEBOUNCE`. `BracketLag` takes `Cooldown` = 1 where the code has 3:
  the bot may order sooner, so the run is stricter, and much smaller. `MaxOrders` = 3
  is one more than a clean run needs; the cap of the code (8) is kept where the
  session cap is the question and lowered to 3 elsewhere. The lags are 1 + 1:
  `NoOverBuy` holds as long as their sum stays below `Debounce`. With a crash
  between sending and saving, the sum may be at most 1, and with the gate closed
  in between even a lag of 1 breaks it: the paper tick and a restart each take
  away what the debounce had counted. These are limits of the code's design,
  found by trying the neighbouring values, and the runs stay inside them.
- *Spot*. Three bars are the least in which an entry may be unknown in one,
  retried in the next and sold in a third. `Size` is 1 in `SpotEntry` (a second
  buy is then a violation at once) and 2 in `SpotStops`, where the strategy
  may scale in and out and two levels make the stop move. `ClearMisses` is the code's
  `RECON_CLEAR_MISSES` = 3. `UNKNOWN_MAX_COUNT` is 1 in `SpotEntry`, which the
  environment variable `LIVE_UNKNOWN_MAX_COUNT` allows, and 5, its default, in `SpotStops`.
- The holdings of the owner are 0 in the spot runs; see section 5.
- *Entry*. A wanted quantity of 3 is the least of which a part may be executed
  before the cancel and another after it. A timeout of two candles lets an order be
  seen resting, then time out; four candles let a second entry follow the first.
  The quotes lie within the cap and beyond it. Three troubles are one more than it
  takes to leave an outcome unknown (a request and its reconciliation); `Misses` = 3
  ticks then release the marker, as in the code. `Kinds` and `CrashAt` are those the bot can survive; each
  of the others breaks a property by itself (section 5).
- *Scanner*. With three symbols and two slots one symbol always waits outside, so
  that a slot can be taken twice. `Capital` 8 over two slots buys two units at 2 or
  one at 3, so that sizes change with the price, and one price of 1 makes the
  drawdown that the gate's tiers act on. One other bot holds 4. Two bars with a
  tick repeated in each let a position be opened, kept or sold, and an order
  be repeated in its bar. Of what follows a third bar nothing is shown here; the
  theorems about `Scanner` need no bound.
- *Adapter*. Two calls are what overlaps: on a token, on a cache, at the exchange.
  A request is tried twice (`Attempts`), so a retry follows a failure and exhausts
  the tries. `Ttl` = 3 and `Skew` = 2, in time-outs of ten seconds, stand for a token's
  day and the code's margin of minutes: a token becomes old within a call, and
  the margin covers what a mint and a request take; without the margin
  `TokenFresh` fails.
  The requests lie on both sides of a band of the Korean grid, ask for a share and a
  half where fractions are cut, and for an OCO whose stop limit rounds up to
  its trigger.
- *Backtest*. Paths of five bars hold an entry, an addition, a partial profit, an exit
  and a second entry. The closes are 100, 200 and 300, and one bar dips and
  comes back, so averages, stops and levels are all crossed both ways. Commission and slippage of ten
  percent make a missing commission change a quantity. `MaxDepth` and `MaxNodeDepth`
  are 3 and 6 for the code's 10 and 20, in the same proportion: one tree is
  deeper than the engine follows and accepted by the validator.
- *Desk*. Two calls and two bots are the least that overlap; three calls are a
  preview and two confirmations of it. `TTL` = 1 with two ticks lets a token
  expire both before and after its use. The figures are chosen so that every
  branch of the limits decides: an order may exceed `Cap` or what is left of the
  budget, one sale trips the daily loss, the least notional raises a quantity,
  and the upper price of a protective order is on the wrong side of one of the
  two market prices. With a smaller slack than `(|Bots| - 1) * Cap` the run of
  `BudgetHolds` fails. Each budget of events is one kind of disturbance.

### Fairness

`FairSpec` of `LimitBracket` and `SpotBot` assumes: a started bot's timer fires (`setInterval`);
an await ends, by an answer or by the adapter's time-out, which the code turns
into an exception; bars keep closing; a cancelled or executed order is reported
in the end; the operator opens a closed gate and starts a stopped bot again. All are
weak fairness, and faults are bounded, as a liveness claim about a broker that
never answers would be false. Nothing is assumed about the strategy, about a
stop's being executed or about the sweep's turn.

`LimitEntry` assumes weak fairness of the bot's tick and of the candles, and none of
the exchange: `Resolves` must hold for an order that is never executed.
`BrokerAdapter` assumes weak fairness of each call's own next step, as every await
there ends by its answer or by the ten-second abort of `fetch`; not that the
exchange receives or executes anything, nor that time passes for an idle adapter.

`CHECK_DEADLOCK FALSE` stands in the configurations whose behaviours end: a bot
done and stopped, the last bar of the bound, every call answered, a backtest at its end.

## 4. Proofs

`LimitBracket_proofs` shows, for every quantity, baseline, debounce, cooldown,
cap, lag, bound and set of faults (`BracketAssumption` is the only assumption):

- `BookIsKept`: `Spec => []BookKept` — the persisted figures agree with each
  other and with the phase: nothing sold before something is bought, no more sold
  than bought, no order id left in a phase that has none, the row "open"
  exactly while something is held.
- `StateMovesForward`: `Spec => Forward` — the baseline never changes, a fill
  once recorded is not taken back, a bot that has bought does not buy again, and
  done stays done.

The argument. `BookKept` is not inductive: a tick suspended at its order saves
`next`, decided before the await, over whatever the row is by then. `IInv` adds
(`InFlight`) that `next` is itself coherent and `Onward` from the row: no
other action may move the row meanwhile in a way `next` would take back — and
(`World`) that what the broker shows is of the right type. `Onward` is shown
reflexive and transitive, the decision is shown to keep `Good` and to move
`Onward` phase by phase (`BuyFilledGood` … `DecideResults`), and `StepKept` has
one case per action. `Forward` follows from the same cases.

Its second half is about what the broker sees of the bot:

- `NeverOverBuys`: `Spec => []NoOverBuy`, and `BooksWhatIsReal`:
  `Spec => []FillsAreReal` (what is recorded as bought was executed for the bot or for the
  owner at its price, what is recorded as sold for the bot), under `Watchful`: live trading stays on (no `gate` fault),
  and the two indexes together lag behind by fewer answers than the bot looks before it
  orders again. A bot that loses the id of its order looks `Debounce` times; when
  the process may die between the sending and the saving (`crash_in_order`) only twice:
  in the tick of grace and in the one that orders.
- `NeverOverSells`: `Spec => []NoOverSell`, no more is sold than the bot and the owner
  bought since it began, and `IsABracket`: `Spec => Bracket`, the
  refinement of `BracketContract`, under `Careful`: `Watchful`, and no death
  between an order's sending and its saving. Where the owner does not buy (`byHand` = 0)
  these say it of the bot's own purchases.
- `CapIsKept`: `Spec => []OrdersCapped`, of every environment.
- `BracketTyped`: `Spec => []TypeOK`, of every environment. The types are not inductive: what
  the broker's index shows as held is a natural number only because the resting sales reserve
  no more than the account holds. `TypedInv` says so (`Reserved`), as a sum over the book: an
  order accepted adds to it at most what is left to sell (`Grown`), one executed takes from
  both sides alike (`ExecutedReserves`), one cancelled or lapsed takes from the sum alone
  (`Shrunk`). `TypedInv` was model-checked on the instances of `BracketLag` and
  `BracketFaults` before it was proved.

The hypotheses are no conveniences: section 3 (*Bracket*) and section 5 name what
happens without them, and with the gate turning what is bought on paper is not real.
(`BracketFaults` checks `NoOverBuy` on its instance with the gate, too.) The
invariant of the buying side, `BInv`, ties the broker's indexes to the misses the
state counts: while an order rests that the listing does not show, or an execution is
not recorded that the holdings do not show, the looks counted since are at most what the
indexes may lag behind (`BuySeen`); so `Debounce` looks in vain mean that there is none
(`BuyAsked`). Bought is here `Gained`, by the bot and by hand. `SInv` says the same of the
sale, but counts only the part of it that `Gained` does not make up for (`Oversold`): a
purchase by hand hides a sale, which `detectSellFill` reads off the holdings, and the bot
then sells again, out of what the owner bought. `Covered` is what makes that the worst:
the holdings shown and what has been sold together make up the whole quantity above the baseline.
`Safe`, which joins them with `IInv`, is inductive. `CapInv` counts: the orders of a session are those the
state has counted in it (`Allowed`), the one in flight, and one for each death.

`SpotBot_proofs` is about every size, set of levels, number of bars and of faults of
each kind, with two hypotheses for two kinds of theorem:

- `PaperIsKept`: `NoKillSwitch => (Spec => PaperStaysPaper)`, of bots with and without
  stops, that scale or do not, and under every fault but `halt`: while the
  position was opened on paper, nothing is bought, and nothing is sold but by a stop that
  still rests. The property is about one step; `PaperInv` says what the actors
  suspended at an await may still do: what they have read is the row (`TickHas`,
  `SweepHas`), their order is for the exchange only if that row is not paper
  (`ForExchange`), and the lock admits one of them (`Locked`). The kill switch takes no
  lock, so it is excluded; section 5 has what it does.
- Under `Steady`, for a bot without a stop on an account of its own:
  `SteadyTypesHold` (`TypeOK`), `NeverMoreThanWanted` (`NetWithinSize`), `BooksAreReal`
  (`BookedIsReal`), `NothingUnmanaged` (`NoOrphan`). Any number of requests and answers may
  be lost, orders refused, ticks and restarts come in any order, the gate close and
  open; lookups may fail `ClearMisses` times in all. `SteadyInv` says that position,
  account, client ids and trade keys agree, bar by bar (`BarKept`: an order of a later bar
  is not there yet, one of this bar says what the bar wants and the account holds), and
  in each case of the row: nothing held for an empty or paper one (`FlatKept`); for a marker,
  either nothing was executed, or more lookups must fail to release it than are left
  (`MarkerKept`). Suspended, the tick holds the row and stands at a stage that
  fits it (`TickHolds`, `AtStage`), and only an entry just sent is ahead of the row.

What `Steady` excludes was tried in TLC, each beside the faults it allows: every one of
`partial`, `lag`, `crash_in_order`, `halt`, `scale` and `add` breaks `NetWithinSize` and
`NoOrphan`, as does a fourth failed lookup, or a stop; `halt`, a stop and holdings of
the owner break `BookedIsReal`. So each exclusion is needed by one theorem or another, but
not each by all: `BooksAreReal` may hold with the first three of these faults and with
scaling, and the other two with holdings of the owner, where no
theorem says so. With a stop, `NoOrphan` and `BookedIsReal` hold beside one disturbance
at a time; `SpotStops` checks that. `SteadyInv` itself was model-checked at size 2,
with all the faults it allows, before it was proved.

`OrderDesk_proofs` shows, for every number of calls and bots, every price, limit,
life of a token and budget of events (`DeskAssumption`: the bots of a process are
finitely many and at least one; the first theorem does without it):

- `ConfirmedWasShown`: `Spec => []OrdersWereShown`. The property speaks of what
  was sent; the invariant `DInv` adds what keeps the next confirmation from
  breaking it: every token in the map was shown by this very process, previews
  are numbered without repetition, and no token in the map has set anything off.
  `MintKeeps`, `ConsumeKeeps` and `ConfirmKeeps` are the three things done with
  tokens; `PresentKeeps` joins them as the handlers do.
- `OrderTypes`: `Spec => []TypeOK`, by `DeskTypes`: what is under way is of the type its
  stage says, and a bot that sells holds what it sells.
- `BudgetIsKept`: `Spec => []BudgetHolds`, the total budget is exceeded by at most
  one capped order of every bot but one. `BudgetInv` says it of what is spent and what
  has been let through and is not booked, summed over the bots: an order let through has
  seen every cost but those of the other bots' orders under way. What a sum over a finite
  set is (`SumExists`, `TotalStep`, `TotalAtMost`) is shown by the smallest set for which
  it would fail (`Smallest`), as an induction cannot be cited.

`LimitEntry_proofs` is about every quantity, offset, timeout, cap, set of quotes and
number of candles and of troubles, under `KeepsTrack`: no answer, cancel or second
look is lost and no order ends in part at the exchange, the process dies only
while it looks at its order, cancels it or asks for a price, the portfolio gate lets
an entry through whole, and a timeout is longer than a candle. Section 5 says what
happens otherwise.

- `EntryTypes`: `Spec => []TypeOK`, `EntryIsOne`: `Spec => []OneEntry`, `EntrySettles`:
  `Spec => []Settled`. The invariant `EntryInv` says what the account holds and which
  order may rest, by what is saved between ticks (`Between`) and stage by stage within
  one: while it looks after its order (`Tracked`), enters (`Entering`), adds (`Adding`) or
  buys the rest at market (`FallingBack`). In each, only the order of the marker or
  the one being placed can rest, and what it may still buy with what is held makes up
  what was wanted. `BookedWhole` and `GivenUpLater` are the two ends of an entry;
  one lemma per action follows, and `StepKeeps` joins them.

`Scanner_proofs` is about every finite universe, number of slots, market, gate and
number of troubles of any kind (`ScannerAssumption`):

- `ScannerTypes`: `Spec => []TypeOK`. The proof refused an earlier form, by which the
  booked trades of a symbol never add up to less than nothing: section 5 says why they may.
- `PositionsAreReal`: `Spec => []BookIsReal`. The invariant adds to the types that the
  plan orders a symbol once a side (`Planned`), that a fill to be booked is what the
  exchange executed for the order at the plan's head (`FillIsReal`), and that a
  sale is of what the copy holds (`SaleIsOfPosition`).
- `SlotsAreKept`: `Spec => []SlotsKept`. The invariant `SlotInv` counts within a tick:
  the copy holds no more, but for what is stuck or adrift, than what was held and is
  still ranked plus what has been bought; `TopFits`, that the ranking's top has at
  most `Slots` members, is the pigeonhole principle on ranks.
- `HeatIsBounded`: `Spec => HeatBounded`, for any notionals of the other bots that are
  numbers (`Others`). The invariant `HeatInv` says of a tick that what was held has only
  become less, that what is new was admitted by the gate by itself (`Admitted`), and that
  it was bought after the sales, so that the equity the gate compared with is still that of
  the save; and of the exchange that an order has executed at most what a slot's capital
  buys. The gate's own multiplier has to be clamped as `safety.ts:236` clamps it: with a
  tier that enlarges an entry the theorem is false. A sum over a sequence is shown to be
  the number of members of a set, so many units for each index (`SumIsUnits`); that it does not
  depend on the order, and that less of each part is less in all, then follow from the
  theorems on cardinalities (`NewAside`).

`BrokerAdapter_proofs` is about two calls and every set of requests, tries, life of a
token and margin of at least two time-outs (`Bounds`), with any prices (`Figures`):

- `AdapterTypes`, `OrdersOnce`: `Spec => []OneOrderPerCall`, by `SentOnce`: a POST
  once sent is only waited for or given up, since only readings go through
  `withRetry`, and the exchange makes one order of one POST.
- `TokensLast`: `Spec => []TokenFresh`, by `TokenDated`: the adapter's record is at
  most one time-out later than the exchange's, because a token is dated at its answer;
  the margin exceeds that by the time the request itself may take.
- `ResultsHold`: `Spec => []ResultsAreTrue`, by `RInv`: what has arrived in the exchange's
  books stays there, an order that is over is over for good, and what a call knows of its
  order by its stage is so.
- `OrdersLeaveAsAsked`: `Spec => []OrdersAsAsked`, by `QInv`: the prices of an OCO are
  compared on the grid they leave on, as filters once cached do not change; it
  uses the two theorems about the grid.
- `RoundedOnTick`: a price rounded to the Korean grid lies on the grid of the band it
  then lies in, also when it has moved into the next band; `RoundedIsNear`: it is at
  most half a step of its own band away. (A grid's step divides the next band's limit.)

`Backtest_proofs` is about every set of strategies the schemas accept (`Configured`),
every kind of bar with prices from 100 up, every length of a path, commission and
slippage below 100 % (`BacktestAssumption`):

- `BacktestTyped`: `Spec => []TypeOK`. The proof asks why a position of the ladder and the
  holding never part: an entry that waits is filled only while nothing is held.
- `AverageDerived`: `Spec => []AverageIsDerived`, the quantity and the average the engine
  keeps are those `derivePosition` reads out of its trades, over any number of additions,
  part sales and re-entries.
- `BacktestRefinesLedger`: `Spec => KeepsTheLedger`, the refinement of `BacktestLedger`: every
  step books trades that are paid for, one after the other, by what was held and had.
  The abstract module is instantiated for two accounts; `EveryAccountPays` says the same
  of each account of a split root, however many there are.
- `StopsNeverLoosen`: `Spec => StopNeverLoosens`, for every stop, trail, ladder and price: no bar
  moves the stop of a position it keeps away from the price, long or short, unless it buys more below the
  average. A percentage that is not positive sets no stop (`SetPct`); one of a hundred or more, which no
  schema forbids, sets none either for a long position, whose price would have to be negative, and
  the property leaves that case out. `Follows` is what a tick of the ladder keeps: stop and trail
  as they were, a peak no lower, no profit level given back. That the stop follows from those and the
  average (`LongStopRises`, `ShortStopFalls`) is arithmetic of fractions: a fraction reduced by its
  greatest common divisor keeps its value (`GcdDivides`, `FracSame`), so comparing reduced ones is
  comparing products (`LeqReduced`), and a percentage of a fraction grows with it (`OffRises`).

- `NothingAhead`: `Spec => []NoLookAhead`, for every higher timeframe and trading day, too: the
  book an account has at a bar is what the run over the bars so far leaves, unless an entry is
  pending or was sized out of reach (`StaysOut`; the proof found that case, see section 5). Each
  reader of the bars is shown to return the same for two paths that begin alike (`Begins`): the terms
  (`TermSoFar`), the conditions (`HoldsSoFar`), the choice of the tree (`ActiveSoFar`) and, where it
  fills in time, a limit entry (`FillSoFar`); then each path of the engine (`SimplePathSoFar` and its
  kin), then a bar (`BarSoFar`), which does one of three things: the same on both paths, an entry that
  is to fill later than the known bars end, or an account that stays out. `RunSoFar` goes from bar to bar.
  The inductive invariant is `Replayed`: the books are what `BookAfter` makes of the bars.

They rest on one invariant, `IInv`: the accounts are sound, and each book is good for its
account. `LongBook` says of an account that buys: `derivePosition` of its trades is what it
holds, at its average; an entry that waits is for a whole number the cash can pay; and where a
ladder runs, the position's remainder and average are the book's. `ShortBook` says of one that
sells short that its position is the holding and its trades are no ledger's. `Kept` adds that the trades since a
given book are paid for; it is shown part by part (`Entered`, `SoldOut`, `Flat`, the rules of a bar,
the sales and additions of a ladder), then for each path, then for a bar, and `NextKept` has one
case per action. `IInv` was model-checked on the instance of `Backtests` before it was proved.

`BacktestParts_proofs` says what the parts return for every input: a fold of the community
modules is chosen over all subsets of its indices, so what it does step by step is shown once
(by induction on a *set* of numbers, which needs no operator) and cited for every loop of the
engine; an average is a positive fraction whatever is added at whatever price; a tick of
the ladder takes no more than is held, nor adds more than is left of the maximum; what is
ordered can pay its commission from the equity it was sized from; an entry is filled at a bar
of the path, later than the one that asked for it or at it; the strategy a tree chooses is one of its leaves', or none; a term reads no bar but those so far; and stops rise and fall with what they are computed from.

Of the safety properties, only `NoOrphan` and `BookedIsReal` of `SpotBot`, with stops or a strategy
that scales, are model-checked and not proved.

Beyond the prover lies all liveness (`Finishes`, `MarkerResolves`, `ExitHappens`,
`Converges`, `Resolves`, `CallsEnd`). Induction cannot be cited, as the library's theorems take an
operator; where a proof needs it, it is had from the least member of a set of counterexamples,
numbers or finite sets, that was to be shown empty.

## 5. What the checks show of the code

Two runs end in a violation, each of what the repository says of itself:

1. `SpotExit` — `runner.ts:1251`. The bot's own resident stop reserves what its
   exit is to sell; the exit is refused at every tick. The repository knows of the
   reservation (`runner.ts:1308`) but only for the take-profit leg.
2. `EntryPhantom` — `runner.ts:212`, and the lookup at `:150`. The answer to a limit
   order is lost and the order rests: the reconciliation takes the exchange's
   "open" for filled and books a live position of the whole quantity, with a stop.

The models show more, most of it for constants other than the runs'. For the bots:

- What the owner of the account buys at the bracket's price while it runs is booked as its
  fill, as `executedQty` of an order it adopts (`limit-bracket.ts:83`, `:203`) or as a rise of the holdings
  (`:89`), and sold. The header (`limit-bracket.ts:6`) says the account's net holdings are never used
  directly, to prevent overselling, and `:50` calls `ownHeldDelta` the bot's own holdings, not the net;
  but it is the account's net holdings less the baseline. With `byHand` taken out of
  `NoOverSell`, `FillsAreReal` or `BracketContract`, `BracketLag` ends in a violation.
- The bot's sale is likewise read off the holdings when its order has vanished: a purchase by hand in
  between hides it, and after `Debounce` looks the bot sells the quantity again.

- A death while the first sell of a bracket is placed (`limit-bracket.ts:155`): phase
  `bought` is kept while that order rests, and once it has been executed a second
  sell of the whole quantity goes out without a look at the holdings. (`NoOverSell`
  with `crash_in_order`.)
- The tick in flight places its order after `stopBot` has cancelled what it knew of
  (`bot-handlers.ts:116`): the order outlives the stop.
- What was bought on paper while the gate was closed is sold for real
  (`runner.ts:1551`).
- The boot seed needs a booked buy, and a death before the booking leaves none
  (`runner.ts:469`): the holding is managed by nobody.
- `checkLimits` reads the master switch again (`safety.ts:131`); turned off between an
  order's gate and its limits, it lets the order pass uncapped, and Binance gets it.
- The token cache is per adapter object and `getAdapter` makes one per caller
  (`brokers/index.ts:19`): tokens are minted beside each other, and the
  model grants that a new one leaves the old alive.

For limit entries, each the reason why one kind of trouble is not in `Survivable`,
one stage not in `SafeStages` or one constant is as it is:

- A death between placing the order and saving the marker: the tick after adopts the
  resting order as a position; in the next candle a second order is placed beside it.
- A death between the cancel and the second look, or an order ended in part by
  somebody else: the executed part is forgotten. A failing second look counts as
  nothing executed, and the market order buys that part again.
- A failing cancel at the timeout: the market order is placed beside a live one.
- An entry the portfolio gate has scaled down and that is executed in its own
  candle is found again by the next tick of that candle under another key and
  booked twice; and `planPositionDelta` tops it up to the strategy's quantity in the
  next candle, against the comment at `runner.ts:1222`.
- An order not yet visible to lookups, then an addition in the same candle: bought,
  but not booked, as the key is taken, and bought again in the next candle.
- With `interval_seconds` below the candle's length, `elapsedClosedBars` counts
  several per candle and the timeout comes early.
- After the cap has frozen the completion, the next tick buys the remainder at
  market with no cap, as an addition.

For the scanner, whose map is saved once at the end of a tick (`runner.ts:1447`):

- A death within the tick leaves live positions no tick knows of, or sold ones the map still
  holds: such a one is sold again when the account holds enough by an entry nobody knows of,
  and the booked trades of the symbol then add up to less than nothing.
- An entry of unknown outcome leaves no marker; if the lookup of the same bar does
  not adopt it, it is held and managed by nobody.
- A paper trade takes the idempotency key of its bar: a live execution of the same
  symbol and side in that bar is never booked.
- The portfolio gate reads stored positions, so the entries of one tick do not
  see each other (`HeatBounded` says by how much), against `runner.ts:919-921`.
- A held symbol whose data is missing is neither sold nor counted, and its slot is
  filled again. `emergencyStopAll` skips scanners' maps (`runner.ts:1690`).

For the engine: a limit entry is sized at the price it is to fill at (`engine.ts:866-876` and
`:936-950`), which for a fallback is that of a later bar, and what cannot pay it gets a quantity of
0 and is asked again in the next bar, where a live bot, which both `entry.ts:1-3` and
`strategy.ts:67` hold the engine to be the same as, would have an order resting. (`NoLookAhead`
leaves that case out, by `StaysOut`; the strategy `poor` of `Backtests`
meets it.) A limit entry's window begins with the signal's own bar, so the
"never optimistic" of `entry.ts:4-9` does not hold; a scale-in or pyramid addition
has no cash check; the validator accepts trees of depth 20 of which the engine
follows 10, silently without trades; the engine for shorts passes no context, so
conditions on higher timeframes, second symbols and calendars never hold there; the
cross operators on performance pass the validator and never hold; a weighted root drops
its own stop and target; the claim on a seed's capital (`engine.ts:747-750`) fails
after realised gains.

For the adapters, the first three being what `ResultsAreTrue` excepts: KIS calls every
200 whose `rt_cd` is not `0` a rejection (`kis.ts:481`, `:498`), also one without any on an order
it has taken; Toss calls a cancel done for any 2xx, whatever its body says (`toss.ts:362`);
KIS and Kiwoom read a success without data as an empty account. A 401 on Toss's cancel is
`false` like any 4xx (`:367`), and a failed buying-power query is no cash (`:254`, `:263`; `cashless` in the
model, of which no property speaks). Binance reads an error body in a 200 as no orders or a price of 0; `symbolFilters` caches blank filters for good;
a cancelled order at Toss and an expired-in-match one without a fill at Binance
stay "pending"; KIS returns the quantity asked and not the one it cut, Kiwoom and
Toss the price before rounding; Toss reads the master switch before it awaits its token.

Beyond the runs' bounds the models also fail, at places the code's comments
accept or do not speak of:

- An entry executed in part is topped up in the same bar under the same
  idempotency key: the second buy is real and not booked (`SpotBot`, Size 2,
  `partial`).
- An *addition* of unknown outcome leaves no marker and is bought again in the
  next bar (`runner.ts:1205` requires an empty position).
- An exit executed but not seen is retried and refused; a refusal does not count
  as unknown, so below `UNKNOWN_MAX_COUNT` = 5 the position stays for ever.
- The sweep writes the peak into the row it read before its await
  (`runner.ts:1650`, "경합 무시"): a tick or the kill switch in between is undone.
- `emergencyStopAll` promises to keep out further entries (`runner.ts:1684`) but a
  tick in flight may still buy, or save the row again that the halt has emptied.
- A bot started again while `emergencyStopAll` is between reading its row and selling:
  it exits, the gate closes, it enters on paper — and the emergency's order, decided on
  the live position it had read, then sells what the owner holds (`PaperStaysPaper` with `halt`,
  `gate` and `Baseline` = 2). `PaperIsKept` shows that it takes the kill switch.
- A failed cancel before a partial exit leaves a stop of the old quantity, and
  its id holds the price and not the quantity (`protective.ts:125`).
- The lookup by client id (`runner.ts:141`) adopts every executed order of that
  side and bar. After a partial exit whose stop cannot be placed — the gate
  closes, say — the emergency close of the same bar finds the partial exit's order,
  books a second sale that never happened and drops the position.
- Orders of several bots are checked against the budget before any is booked, so
  the budget itself is exceeded: `BudgetHolds` says by how much. Manual orders
  are never counted in it (`safety.ts:368` reads the bots' trades).
- `checkLimits` holds a bot's *sale* to `LIVE_MAX_NOTIONAL` and to the daily loss
  as well: a position that has outgrown the cap, or any after the circuit has
  tripped, is not sold (`runner.ts:131`).
- HALT stops orders at their gate only, and lives in the daemon's environment: it
  is gone after a restart.
- A fourth failed query releases the marker (by design, comment F9), and holdings
  of the owner are adopted as the outcome of an entry that was not executed.

## 6. Plan

*Done*: the limit-bracket bot with its contract; the spot bot; limit entries; the
scanner with the portfolio gate; the order desk; the adapters with the Korean grid;
the backtest with its ledger, strategy trees, ladders and sizing; proofs of each of them.

Next, in this order:

1. `RemoteControl`: the Telegram loop with its confirmation and offset, beside the
   daemon's switches; the tool server as a second process in `OrderDesk`.
2. `KrReconcile`: `reconcileLivePosition` with its misses and the frozen orders of
   the Korean brokers; the take-profit leg of the resident stop.
3. Several bots in one process: `resumeAll`, two adapters' tokens, a scanner and a
   spot bot on one account.
4. Proofs: `SpotBot` with stops, one disturbance at a time; the exceptions of `KeepsTrack` lifted as the code comes to handle them.

## 7. Not modelled

- *Alerts and remote control*: not yet; they touch no order but through the
  daemon's `haltAll` and `resume`, which `OrderDesk` has.
- *Tool server, dashboard, set-up*: dispatch, pages and forms over the handlers that
  are modelled; of the dashboard the live switch is, of the set-up the environment.
- *Market data*: fetching and caching; the models take any bar, or none.
- *Metrics, significance tests, indicators*: pure floating-point functions of bars or
  of a finished result. They have no states, and their rounding is not TLC's.
- *Backup and migration of the store, the audit file, allow-lists*: I/O, or a set
  membership in front of what is modelled.

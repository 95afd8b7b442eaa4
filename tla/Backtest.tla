------------------------------ MODULE Backtest ------------------------------
(***************************************************************************)
(* The backtest, bar by bar: the engine for trees of strategies with its   *)
(* simple path and its path of ladders, the one for a single strategy, and *)
(* the one for short positions (engine.ts, short-engine.ts).  The runner   *)
(* of the live bots runs the first of them at every tick and trades what   *)
(* its trades leave, so its books are what the account is to become.       *)
(*                                                                         *)
(* A root node of weighted children splits the capital into accounts that  *)
(* are run one after the other.  Cash is in hundredths of the unit of the  *)
(* prices; prices are such that every percentage taken of them is whole.   *)
(***************************************************************************)
EXTENDS StrategyTree, Sizing, EntryFill

CONSTANTS Setups,        \* the strategies and configurations to run, by name
          Kinds,         \* the bars a path is made of, by name
          Length,        \* bars in a path
          Commission, Slippage   \* in percent

VARIABLES path,          \* the bars
          accounts,      \* what is run on them: configurations, one per account
          at,            \* the account and the bar it has got to
          books          \* of each account

vars == <<path, accounts, at, books>>

\* What the schemas and the runner make of a strategy and of its configuration
\* before a backtest sees them; whether a tree is valid is left to Init.
TypedTerm(t) ==
  /\ t.kind \in {"number", "price", "ma", "mtf", "perf", "anchor", "spread"} /\ t.n \in Int
  /\ t.kind = "anchor" => t.ref \in {"dayOpen", "prevClose", "sessionHigh", "sessionLow", "vwapFromOpen"}
TypedCondition(c) ==
  /\ c.type \in {"compare", "regime", "event", "time"}
  /\ c.type = "compare" => TypedTerm(c.left) /\ TypedTerm(c.right)
TypedStrategy(s) ==
  /\ s.sl \in Int /\ s.tp \in Int /\ s.rules \in Seq(Range(s.rules))
  /\ \A k \in DOMAIN s.rules :
       /\ s.rules[k].action \in {"buy", "sell"} /\ s.rules[k].percent \in Int /\ s.rules[k].limit \in BOOLEAN /\ s.rules[k].offset \in Int
       /\ \A j \in 1..Len(s.rules[k].conditions) : TypedCondition(s.rules[k].conditions[j])
TypedNode(n) ==
  /\ n.type \in {"none", "leaf", "condition", "composite"}
  /\ n.type = "leaf" => TypedStrategy(n.strategy)
  /\ n.type = "condition" => TypedCondition(n.condition)
  /\ n.type = "composite" => n.mode \in {"priority", "weighted"} /\ n.weights \in Seq(Int) /\ n.children \in Seq(Range(n.children))
TypedSizing(m) ==
  \/ m.method = "legacy"
  \/ m.method = "vol_target" /\ m.target \in Int /\ m.vol \in Int /\ m.cap \in Int
  \/ m.method = "atr" /\ m.risk \in Int /\ m.atr \in Int /\ m.mult \in Nat \ {0}
  \/ m.method = "kelly" /\ m.win \in Int /\ m.ratio \in Int /\ m.fraction \in Int /\ m.sample \in Int
TypedRisk(r) ==
  /\ r.sl \in Int /\ r.tp \in Int /\ r.trail \in Int /\ r.L.tp \in Seq([pct : Int, sell : Int])
  /\ \A more \in {r.L.si, r.L.py} : more.ladder \in Seq([pct : Int, add : Int]) /\ more.max \in Int

\* The path of ladders is taken as soon as one of the three is configured; only
\* the engine for trees knows them.
Laddered(risk) == risk.L.tp # <<>> \/ risk.L.si.ladder # <<>> \/ risk.L.py.ladder # <<>>
OnLadders(acc) == acc.engine = "trees" /\ Laddered(acc.risk)

Parameters == {"engine", "tree", "capital", "risk", "seed", "gap", "exec", "sizing", "aux", "fetched", "calendars", "funding", "leverage"}
Configured(s) ==
  /\ Parameters \subseteq DOMAIN s
  /\ s.engine \in {"trees", "plain", "short"} /\ (s.engine = "plain" => s.tree.type = "leaf")
  /\ \A n \in Nodes(s.tree) : TypedNode(n)
  /\ s.capital \in Nat /\ s.funding \in Int /\ s.leverage \in Nat \ {0} /\ s.gap \in {"close", "worst"}
  /\ TypedRisk(s.risk) /\ TypedSizing(s.sizing)
  /\ s.exec.offset \in Int /\ s.exec.timeout \in Int /\ s.exec.cap \in Int
  /\ s.seed.qty \in Nat /\ s.seed.price \in Nat /\ (s.seed.qty > 0 => ~Laddered(s.risk))

\* A price is a hundred at least, so that a share of it is something.
Quotes == {p \in Nat : p >= 100}
ASSUME BacktestAssumption ==
  /\ Length \in Nat \ {0} /\ Commission \in Nat /\ Slippage \in 0..99
  /\ MaxDepth \in Nat /\ MaxNodeDepth \in Nat /\ HtfSpan \in Nat \ {0} /\ DayBars \in Nat \ {0}
  /\ \A k \in DOMAIN Kinds : Kinds[k] \in [open : Quotes, high : Quotes, low : Quotes, close : Quotes]
  /\ \A n \in DOMAIN Setups : Configured(Setups[n])

Bars == [i \in 1..Len(path) |-> Kinds[path[i]]]

\* What is handed to the conditions besides the bars; the engine for shorts
\* hands them nothing.
Context(s) ==
  IF s.engine = "short" THEN [aux |-> <<>>, fetched |-> FALSE, calendars |-> <<>>, needs |-> {}]
  ELSE [aux |-> s.aux, fetched |-> s.fetched, calendars |-> s.calendars, needs |-> Needs(s.tree)]

NoPosition == OpenPosition(0, 0, 0, 0)
NoShort == OpenShort(0, 0, 0, 0, 0, 1)
NoPending == [bar |-> 0, price |-> 0, qty |-> 0, sl |-> 0]
NoRisk == [sl |-> Unset, tp |-> Unset, trail |-> 0, L |-> [tp |-> <<>>, si |-> [ladder |-> <<>>, max |-> 1], py |-> [ladder |-> <<>>, max |-> 1]]]
NoSeed == [qty |-> 0, price |-> 0]

---------------------------------------------------------------------------
(* The books.                                                              *)

\* A seed is a position bought before the window, paid for out of the capital.
NewBook(acc) ==
  LET empty == [cash |-> 100 * acc.capital, held |-> 0, avg |-> Price(0), pos |-> NoPosition,
                short |-> NoShort, pending |-> NoPending, trades |-> <<>>]
  IN  IF acc.seed.qty = 0 \/ Laddered(acc.risk) THEN empty
      ELSE [empty EXCEPT !.held = acc.seed.qty, !.avg = Price(acc.seed.price),
                         !.cash = @ - acc.seed.qty * acc.seed.price * (100 + Commission)]

Trade(side, price, qty, i) == [side |-> side, price |-> price, qty |-> qty, bar |-> i]
Bought(b, price, qty, i) ==
  [b EXCEPT !.cash = @ - qty * price * (100 + Commission), !.trades = Append(@, Trade("buy", price, qty, i))]
Sold(b, price, qty, i) ==
  [b EXCEPT !.cash = @ + qty * price * (100 - Commission), !.trades = Append(@, Trade("sell", price, qty, i))]

Over(price) == Percent(price, Slippage)
Under(price) == Percent(price, 0 - Slippage)

Flat_KeepsPosition(b) == [b EXCEPT !.held = 0, !.avg = Price(0)]
Flat(b) == [b EXCEPT !.held = 0, !.avg = Price(0), !.pos = NoPosition]
SoldOut(b, price, i) == Flat(Sold(b, price, b.held, i))
Opened(b, acc, price, qty, sl, i) ==
  [Bought(b, price, qty, i) EXCEPT
     !.held = qty, !.avg = Price(price), !.pending = NoPending,
     !.pos = IF OnLadders(acc) THEN OpenPosition(price, qty, sl, acc.risk.trail) ELSE NoPosition]

\* An entry that fills in a later bar waits for it, out of the market.
Entered(b, acc, fill, qty, sl, i) ==
  IF qty = 0 THEN b
  ELSE IF fill.bar = i THEN Opened(b, acc, fill.price, qty, sl, i)
  ELSE [b EXCEPT !.pending = [bar |-> fill.bar, price |-> fill.price, qty |-> qty, sl |-> sl]]
OpenedPending(b, acc, i) == Opened(b, acc, b.pending.price, b.pending.qty, b.pending.sl, i)

---------------------------------------------------------------------------
(* The engine for trees.                                                   *)

Active(acc, bars, i) == ResolveActiveStrategy(acc.tree, acc.ctx, bars, i)

\* The stop and the target: on the close, or, with worst gaps, the stop on the
\* low, at the stop or at an open already below it.
Gain(b, price, pct) == Rose(b.avg, price, pct)
StopHit(b, acc, bar, sl) ==
  sl > 0 /\ IF acc.gap = "worst" THEN Fell(b.avg, bar.low, sl) ELSE Fell(b.avg, bar.close, sl)
StopPrice(b, acc, bar, sl) ==
  LET stop == Off(b.avg, 0 - sl)
  IN  IF acc.gap = "close" THEN bar.close ELSE IF Leq(Price(bar.open), stop) THEN bar.open ELSE stop[1] \div stop[2]
TargetHit(b, bar, tp) == tp > 0 /\ Gain(b, bar.close, tp)

SimpleRule(b, acc, bars, i, rule) ==
  LET fill == ResolveEntryFill(bars, i, acc.exec, Slippage)
      qty  == OrderQty(acc.sizing, b.cash, fill.price, Commission, rule.percent, 1, 1)
  IN  IF b.pending # NoPending \/ ~RuleFires(rule, acc.ctx, bars, i) THEN b
      ELSE CASE rule.action = "buy" /\ b.held = 0  -> Entered(b, acc, fill, qty, 0, i)
             [] rule.action = "sell" /\ b.held > 0 -> SoldOut(b, Under(bars[i].close), i)
             [] OTHER                              -> b

\* The stop comes before the target.  A bar that reaches either evaluates no rule.
StopsOut(b, acc, bar, sl, tp) == b.held > 0 /\ (StopHit(b, acc, bar, sl) \/ TargetHit(b, bar, tp))
StoppedOut(b, acc, bar, i, sl) == SoldOut(b, IF StopHit(b, acc, bar, sl) THEN StopPrice(b, acc, bar, sl) ELSE bar.close, i)
SimplePath(b, acc, bars, i, active) ==
  LET sl == Or(active.sl, acc.risk.sl)
      tp == Or(active.tp, acc.risk.tp)
  IN  IF StopsOut(b, acc, bars[i], sl, tp) THEN StoppedOut(b, acc, bars[i], i, sl)
      ELSE FoldLeft(LAMBDA acct, rule : SimpleRule(acct, acc, bars, i, rule), b, active.rules)

\* The rules of one side that fire; the first of them to buy is the one taken.
Firing(active, side, acc, bars, i) ==
  {k \in DOMAIN active.rules : active.rules[k].action = side /\ RuleFires(active.rules[k], acc.ctx, bars, i)}

LadderEntry(b, acc, bars, i, rule, sl) ==
  LET fill == ResolveEntryFill(bars, i, acc.exec, Slippage)
      qty  == OrderQty([method |-> "legacy"], b.cash, fill.price, Commission, rule.percent, 1, 1)
  IN  Entered(b, acc, fill, qty, sl, i)

\* What evaluateLadderTick decides is booked at the slipped price.
LadderExits(b, price, i, tick) ==
  LET sold  == FoldLeft(LAMBDA acct, q : Sold(acct, Under(price), q, i), b, tick.exits)
      moved == FoldLeft(LAMBDA acct, q : Bought(acct, Over(price), q, i), sold, tick.adds)
  IN  IF tick.next.left = 0 THEN Flat(moved)
      ELSE [moved EXCEPT !.held = tick.next.left, !.avg = tick.next.avg, !.pos = tick.next]

LadderPath(b, acc, bars, i, active) ==
  LET price == bars[i].close
      buys  == Firing(active, "buy", acc, bars, i)
      sell  == Firing(active, "sell", acc, bars, i) # {}
  IN  CASE b.held > 0  -> LadderExits(b, price, i, EvaluateLadderTick(b.pos, price, acc.risk.L, sell, Over(price)))
        [] b.held <= 0 /\ buys # {} -> LadderEntry(b, acc, bars, i, active.rules[Min(buys)], Or(active.sl, acc.risk.sl))
        [] OTHER       -> b

---------------------------------------------------------------------------
(* The engine for a single strategy: its limit orders fill within the bar, *)
(* and a bar that stops out goes on to the rules.                          *)
RuleFill(rule, bar) ==
  LET target == Percent(bar.close, rule.offset)
      buy    == rule.action = "buy"
  IN  CASE ~rule.limit         -> IF buy THEN Over(bar.close) ELSE Under(bar.close)
        [] rule.limit /\ buy   -> IF bar.low <= target THEN Min({target, bar.high}) ELSE 0
        [] rule.limit /\ ~buy  -> IF bar.high >= target THEN Max({target, bar.low}) ELSE 0

PlainRule(b, acc, bars, i, rule) ==
  LET price == RuleFill(rule, bars[i])
      qty   == OrderQty(acc.sizing, b.cash, price, Commission, rule.percent, 1, 1)
  IN  IF ~RuleFires(rule, acc.ctx, bars, i) \/ price = 0 THEN b
      ELSE CASE rule.action = "buy" /\ b.held = 0 /\ qty > 0 -> Opened(b, acc, price, qty, 0, i)
             [] rule.action = "sell" /\ b.held > 0           -> SoldOut(b, price, i)
             [] OTHER                                        -> b

PlainPath(b, acc, bars, i) ==
  LET strategy == acc.tree.strategy
      out == IF StopsOut(b, acc, bars[i], strategy.sl, strategy.tp) THEN StoppedOut(b, acc, bars[i], i, strategy.sl) ELSE b
  IN  FoldLeft(LAMBDA acct, rule : PlainRule(acct, acc, bars, i, rule), out, strategy.rules)

---------------------------------------------------------------------------
(* The engine for shorts: a sell signal opens, a buy signal covers.  Its   *)
(* cash moves only when the position is covered, by what that made.        *)
Funding(b, acc) == b.short.avg[1] * b.short.qty * acc.funding
ShortNet(b, price, funding) ==
  LET entry == b.short.avg[1]
  IN  100 * (entry - price) * b.short.qty - (entry + price) * b.short.qty * Commission + funding
ShortQty(acc, price) ==
  IF acc.leverage > 1 THEN OrderQty([method |-> "legacy"], 100 * acc.capital, price, Commission, 100, acc.leverage, 20)
  ELSE acc.capital \div price

ShortExit(b, price, i, tick) ==
  IF ~tick.exit THEN [b EXCEPT !.short = tick.next]
  ELSE [b EXCEPT !.cash = @ + ShortNet(b, Over(price), tick.next.funding), !.held = 0, !.short = NoShort,
                 !.trades = Append(@, Trade("buy", Over(price), b.short.qty, i))]
ShortEntry(b, acc, price, qty, i, sell) ==
  IF b.short # NoShort \/ ~sell \/ qty = 0 THEN b
  ELSE [b EXCEPT !.held = 0 - qty, !.trades = Append(@, Trade("sell", price, qty, i)),
                 !.short = OpenShort(price, qty, acc.risk.sl, acc.risk.tp, acc.risk.trail, acc.leverage)]

\* A bar that covers on a stop may open again, never one that covers on a buy.
ShortSignals(b, acc, bars, i, cover, sell) ==
  LET price == bars[i].close
      tick  == EvaluateShortTick(b.short, price, cover, Funding(b, acc))
      after == IF b.short = NoShort THEN b ELSE ShortExit(b, price, i, tick)
  IN  ShortEntry(after, acc, Under(price), ShortQty(acc, Under(price)), i, sell /\ ~cover)
ShortPath(b, acc, bars, i, active) ==
  ShortSignals(b, acc, bars, i, Firing(active, "buy", acc, bars, i) # {}, Firing(active, "sell", acc, bars, i) # {})

---------------------------------------------------------------------------
(* The accounts of a root node, each with its share; the risk of the whole *)
(* and a seed reach an account only when the root is not split.            *)
Splits(s) == s.engine = "trees" /\ s.tree.type = "composite" /\ s.tree.mode = "weighted"
Shares(s) ==
  LET n        == Len(s.tree.children)
      share(k) == ChildCapital(s.capital, s.tree.weights, n, k)
      Child(k) == [s EXCEPT !.tree = s.tree.children[k], !.capital = share(k), !.risk = NoRisk, !.seed = NoSeed]
  IN  FlattenSeq([k \in 1..n |-> IF share(k) = 0 THEN <<>> ELSE <<Child(k)>>])
\* Splitting goes MaxDepth deep; what is to be split there still is not run.
Accounts(s) ==
  LET split[d \in 0..MaxDepth] ==
        IF d = 0 THEN <<s>>
        ELSE FlattenSeq([k \in DOMAIN split[d - 1] |-> IF Splits(split[d - 1][k]) THEN Shares(split[d - 1][k]) ELSE <<split[d - 1][k]>>])
      last == split[MaxDepth]
  IN  FlattenSeq([k \in DOMAIN last |-> IF Splits(last[k]) THEN <<>> ELSE <<last[k]>>])
WithContext(s) == [f \in DOMAIN s \union {"ctx"} |-> IF f = "ctx" THEN Context(s) ELSE s[f]]

\* Which part of the engine a bar of an account goes through.
Part(b, acc, i) ==
  CASE b.pending.bar > i -> "wait"
    [] b.pending.bar = i -> "open"
    [] b.pending.bar < i -> IF acc.engine # "trees" THEN acc.engine ELSE IF Laddered(acc.risk) THEN "ladder" ELSE "simple"

Bar(b, acc, bars, i) ==
  LET part == Part(b, acc, i)
  IN  CASE part = "wait"   -> b
        [] part = "open"   -> OpenedPending(b, acc, i)
        [] part = "plain"  -> PlainPath(b, acc, bars, i)
        [] part = "short"  -> ShortPath(b, acc, bars, i, Active(acc, bars, i))
        [] part = "ladder" -> LadderPath(b, acc, bars, i, Active(acc, bars, i))
        [] part = "simple" -> SimplePath(b, acc, bars, i, Active(acc, bars, i))

Valid(s) == ValidateRootNode(s.tree) /\ ValidLadders(s.risk.L)

Init == /\ \E n \in DOMAIN Setups : Valid(Setups[n]) /\ accounts = Accounts(WithContext(Setups[n]))
        /\ at = [account |-> 1, bar |-> 1]
        /\ books = [k \in 1..Len(accounts) |-> NewBook(accounts[k])]
        /\ path \in [1..Length -> DOMAIN Kinds]

Running == at.account <= Len(books)
\* The book at the account and the bar the run has got to.
Book == books[at.account]
Acct == accounts[at.account]
Step(part, book) ==
  /\ Running
  /\ Part(Book, Acct, at.bar) = part
  /\ books' = [books EXCEPT ![at.account] = book]
  /\ at' = IF at.bar < Length THEN [at EXCEPT !.bar = @ + 1] ELSE [account |-> at.account + 1, bar |-> 1]
  /\ UNCHANGED <<path, accounts>>

WaitForFill == Step("wait", Book)
OpenPending == Step("open", OpenedPending(Book, Acct, at.bar))
StepPlain   == Step("plain", PlainPath(Book, Acct, Bars, at.bar))
StepShort   == Step("short", ShortPath(Book, Acct, Bars, at.bar, Active(Acct, Bars, at.bar)))
StepLadder  == Step("ladder", LadderPath(Book, Acct, Bars, at.bar, Active(Acct, Bars, at.bar)))
StepSimple  == Step("simple", SimplePath(Book, Acct, Bars, at.bar, Active(Acct, Bars, at.bar)))

Next == WaitForFill \/ OpenPending \/ StepPlain \/ StepShort \/ StepLadder \/ StepSimple
Spec == Init /\ [][Next]_vars

---------------------------------------------------------------------------
(* Properties.                                                             *)

\* What the books can hold.
BookOK(b) ==
  /\ b.cash \in Int /\ b.held \in Int /\ b.avg[1] \in Nat /\ b.avg[2] \in Nat \ {0}
  /\ b.pending.bar \in 0..Length /\ b.pending.qty \in Nat
  /\ b.held = 0 \/ b.pending = NoPending
  /\ b.pos # NoPosition => b.pos.left = b.held
  /\ b.short # NoShort => b.short.qty = 0 - b.held
  /\ \A k \in 1..Len(b.trades) : b.trades[k].qty > 0 /\ b.trades[k].price > 0 /\ b.trades[k].bar \in 1..Length
TypeOK ==
  /\ path \in [1..Length -> DOMAIN Kinds]
  /\ at \in [account : 1..(Len(books) + 1), bar : 1..Length]
  /\ \A k \in 1..Len(books) : BookOK(books[k])

\* The books of every account that buys are a ledger: what is held and what
\* the cash has become is what the trades say, and they are paid for.
Idle == [cash |-> 0, held |-> 0, trades |-> <<>>]
Ledgers == {k \in 1..Len(books) : accounts[k].engine # "short"}
LedgerOf(k) == IF k \in Ledgers THEN books[k] ELSE Idle
OnCredit(k) == k \in Ledgers /\ (accounts[k].seed.qty > 0 \/ Laddered(accounts[k].risk))
First == INSTANCE BacktestLedger WITH
  Rate <- Commission, cash <- LedgerOf(1).cash, held <- LedgerOf(1).held, trades <- LedgerOf(1).trades,
  credit <- OnCredit(1)
Second == INSTANCE BacktestLedger WITH
  Rate <- Commission, cash <- LedgerOf(2).cash, held <- LedgerOf(2).held, trades <- LedgerOf(2).trades,
  credit <- OnCredit(2)
KeepsTheLedger == First!Spec /\ Second!Spec

\* The quantity and the average price of the engine are those derivePosition
\* reads out of its trades, after partial exits and additions too: the live
\* books are kept by the one, the stops and targets by the other.
AverageIsDerived ==
  \A k \in Ledgers :
    LET b == books[k]
        d == DerivePosition(b.trades, [qty |-> accounts[k].seed.qty, avg |-> Price(accounts[k].seed.price)])
    IN  d.qty = b.held /\ (b.held > 0 => d.avg = b.avg)

\* The book of an account once the first n of the bars have been run.
BookAfter(acc, bars, n) == FoldLeft(LAMBDA b, i : Bar(b, acc, bars, i), NewBook(acc), [i \in 1..n |-> i])

\* A limit entry is sized at the price it is to fill at, which can be that of a
\* bar after n: what cannot pay that price stays out at bar i as if no rule had
\* bought, and nothing is pending to tell.
StaysOut(acc, bars, i, n) ==
  /\ acc.engine = "trees" /\ ResolveEntryFill(bars, i, acc.exec, Slippage).bar > n
  /\ Firing(Active(acc, bars, i), "buy", acc, bars, i) # {}
  /\ LET b == BookAfter(acc, bars, i) IN b.held = 0 /\ b.pending = NoPending

\* What the account has become by a bar does not depend on the bars that
\* follow: the run over the bars so far, which is what a live bot acts on,
\* leaves the same book, unless an entry is pending or was sized out of reach.
NoLookAhead ==
  LET n == at.bar - 1
  IN  Running /\ n > 0 /\ Book.pending = NoPending /\ (\A i \in 1..n : ~StaysOut(Acct, Bars, i, n)) =>
        BookAfter(Acct, SubSeq(Bars, 1, n), n) = Book

\* While a position is held its stop only moves towards the price: the trail
\* follows the extreme and the first profit lifts it to the entry, and only
\* buying more below the average may lower it.  A stop of a hundred percent or
\* more is no stop of a long position.
LongStop(b) == EffectiveStopLoss(b.pos, b.pos.peak)
ShortStop(b) == EffectiveShortStop(b.short, b.short.trough)
StopTightens(b, c) ==
  /\ b.pos # NoPosition /\ c.pos # NoPosition /\ LongStop(b)[1] > 0 /\ Leq(b.avg, c.avg)
       => Leq(LongStop(b), LongStop(c))
  /\ b.short # NoShort /\ c.short # NoShort /\ c.short.avg = b.short.avg /\ Len(c.trades) = Len(b.trades)
       => Leq(ShortStop(c), ShortStop(b))
StopNeverLoosens == [][\A k \in 1..Len(books) : StopTightens(books[k], books'[k])]_books
=============================================================================

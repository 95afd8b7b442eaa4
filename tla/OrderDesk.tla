----------------------------- MODULE OrderDesk -----------------------------
(***************************************************************************)
(* The way of an order from its request to the exchange, past the gates of *)
(* src/brokers/safety.ts: the two-step orders of live-handlers.ts          *)
(* (place_order, place_protective, cancel_protective), the orders bots     *)
(* send through fillOrder of runner.ts, and the switches that the          *)
(* dashboard, the set-up and the daemon's remote control turn meanwhile.   *)
(* Each call is suspended at its awaits: `at` says which.  Prices and      *)
(* quantities are small integers, a quantity's step is 1.                  *)
(***************************************************************************)
EXTENDS Integers, FiniteSets, FiniteSetsExt

CONSTANTS
  Calls,        \* slots for handler calls that may be under way together
  Bots,         \* live bots, all of one currency
  Brokers,      \* the brokers a behaviour may be about
  MaxQty,       \* the largest quantity asked for
  Prices,       \* the prices the market takes
  TakeProfit,   \* the upper price of a protective order
  StopPrice,    \* its lower price
  MinNotional,  \* what the exchange takes an order for, at least
  Cap,          \* LIVE_MAX_NOTIONAL
  TotalCap,     \* LIVE_MAX_TOTAL_NOTIONAL
  LossLimit,    \* LIVE_DAILY_LOSS_LIMIT
  TTL,          \* the life of a confirmation token
  Budgets       \* how often each event may happen: one of these per behaviour

Events == {"call", "cancel", "order", "price", "fires", "night", "halt",
           "switch", "env", "query", "tick", "crash"}

ASSUME DeskAssumption ==
  /\ IsFiniteSet(Bots) /\ Bots # {}
  /\ Brokers \subseteq {"binance", "toss"} /\ Prices \subseteq Nat \ {0}
  /\ {MaxQty, TakeProfit, StopPrice, Cap, TotalCap, LossLimit} \subseteq Nat \ {0}
  /\ {MinNotional, TTL} \subseteq Nat
  /\ Budgets \subseteq [Events -> Nat]

VARIABLES
  broker,             \* the account's broker
  halt, master, env,  \* LIVE_TRADING_HALT, LIVE_TRADING_ENABLED, BINANCE_ENV / TOSS_ENV
  px, free, ocos,     \* the exchange: price; per environment, what may be sold; OCOs
  ledger, dayPnl,     \* the trades: each bot's open live quantity, cost; the day's result
  clock, life,        \* time; how often the process was started again
  tokens, minted,     \* TOKENS; tokens minted so far
  call, fill,         \* handler calls and fillOrder calls under way
  shown, sent,        \* history: previews shown; orders confirmed
  left                \* events that may still happen

switches == <<halt, master, env>>
exchange == <<px, free, ocos>>
trades == <<ledger, dayPnl>>
safe == <<tokens, minted, shown, sent>>
vars == <<broker, switches, exchange, trades, clock, life, safe, call, fill, left>>

NoToken == 0
Envs == {"testnet", "live"}
Idle == [at |-> "idle"]
Kinds == {"buy", "sell"} \cup (IF broker = "binance" THEN {"oco"} ELSE {"amount"})

Spend(e) == left[e] > 0 /\ left' = [left EXCEPT ![e] = @ - 1]

-----------------------------------------------------------------------------
(* src/brokers/safety.ts *)

\* liveGate: what the switches allow now.
Allowed == ~halt /\ (env = "live" => master)

\* liveDeployedNotional: the cost of what the trades say the bots hold.
Deployed == MapThenSumSet(LAMBDA b : ledger[b].cost, Bots)

\* Mutant: each order is held against the budget alone.
Within_OrderOnly(side, notional) ==
  \/ ~master
  \/ /\ notional <= Cap
     /\ dayPnl > -LossLimit
     /\ side \in {"buy", "amount"} => notional <= TotalCap

\* checkLimits.  Without the master switch everything is within the limits;
\* only a buy is held against the budget.
Within(side, notional) ==
  \/ ~master
  \/ /\ notional <= Cap
     /\ dayPnl > -LossLimit
     /\ side \in {"buy", "amount"} => Deployed + notional <= TotalCap

\* What orderHash is taken of: a token is good for these terms only.
Terms(kind, qty, e) == [kind |-> kind, qty |-> qty, env |-> e]
EnableTerms == Terms("enable", 0, "any")

MintToken(terms) ==
  LET t == [id |-> minted + 1, terms |-> terms, exp |-> clock + TTL, life |-> life]
  IN  /\ tokens' = {u \in tokens : u.exp > clock} \cup {t}
      /\ minted' = minted + 1
      /\ shown' = shown \cup {t}
      /\ UNCHANGED sent

Valid(tok, terms) == \E u \in tokens : u.id = tok /\ u.terms = terms /\ u.exp > clock

\* Mutant: a token lives on until it expires.
ConsumeToken_Reusable(tok) == tokens' = {u \in tokens : u.exp > clock}

\* A token is gone once it was presented, whatever for.
ConsumeToken(tok) == tokens' = {u \in tokens : u.id # tok}

\* History: the confirmation has set something off.
Record(tok, terms, cost) ==
  sent' = sent \cup {[no |-> Cardinality(sent) + 1, tok |-> tok, terms |-> terms,
                      cost |-> cost, at |-> clock, life |-> life]}

\* normalizeQuantity: raised to the least notional the exchange takes.
CeilDiv(n, d) == (n + d - 1) \div d
Normal(qty, price) ==
  IF broker = "binance" /\ price > 0 /\ qty * price < MinNotional
  THEN CeilDiv(MinNotional, price) ELSE qty

-----------------------------------------------------------------------------
(* place_order and place_protective, await by await *)

Go(c, stage) == call' = [call EXCEPT ![c].at = stage]
End(c) == call' = [call EXCEPT ![c] = Idle]
Refuse(c) == End(c) /\ UNCHANGED safe

\* Toss has one host, whatever the environment.
Account(e) == IF broker = "toss" THEN "live" ELSE e

FirstAwait(kind) == CASE kind = "oco" -> "held" [] kind = "amount" -> "amount" [] OTHER -> "price"

\* The call arrives, with or without a token, and passes the gate; a call that
\* does not leaves no trace.
Receive(c) ==
  /\ call[c] = Idle /\ Allowed /\ Spend("call")
  /\ \E kind \in Kinds, qty \in 1..MaxQty, tok \in NoToken..minted :
       call' = [call EXCEPT ![c] = [at |-> FirstAwait(kind), kind |-> kind, qty |-> qty,
                                    tok |-> tok, env |-> env, price |-> 0, held |-> 0]]
  /\ UNCHANGED <<broker, switches, exchange, trades, clock, life, safe, fill>>

Quiet == UNCHANGED <<broker, switches, exchange, trades, clock, life, fill>>

\* The sellable holdings; a failed query counts as none.
HeldSeen(c) ==
  /\ call[c].at = "held"
  /\ IF call[c].qty <= free[call[c].env]
     THEN /\ call' = [call EXCEPT ![c].at = "listed", ![c].held = free[call[c].env]]
          /\ UNCHANGED safe
     ELSE Refuse(c)
  /\ Quiet /\ UNCHANGED left

\* One OCO may rest; when the query fails the call goes on.
OcoSeen(c) ==
  /\ call[c].at = "listed"
  /\ \/ /\ IF \E o \in ocos : o.env = call[c].env THEN Refuse(c) ELSE Go(c, "price") /\ UNCHANGED safe
        /\ UNCHANGED left
     \/ Spend("query") /\ Go(c, "price") /\ UNCHANGED safe
  /\ Quiet

\* The price; a protective order must have it between its two.
PriceSeen(c) ==
  /\ call[c].at = "price"
  /\ IF call[c].kind = "oco" /\ ~(StopPrice < px /\ px < TakeProfit) THEN Refuse(c)
     ELSE call' = [call EXCEPT ![c].at = "size", ![c].price = px] /\ UNCHANGED safe
  /\ Quiet /\ UNCHANGED left

\* Without a price only a market order on the testnet goes on, of notional 0.
PriceFails(c) ==
  /\ call[c].at = "price" /\ Spend("query")
  /\ IF call[c].kind = "oco" \/ call[c].env = "live" THEN Refuse(c)
     ELSE Go(c, "size") /\ UNCHANGED safe
  /\ Quiet

\* assertWriteAllowed: the adapter of Toss looks at the switches once more.
Writable(e) == broker = "toss" => master /\ e = "live"

\* The preview is shown and its token minted; or the token is presented and,
\* if it is good for these terms, the order handed to the adapter.
Present(c, terms, cost) ==
  IF call[c].tok = NoToken
  THEN MintToken(terms) /\ End(c)
  ELSE /\ ConsumeToken(call[c].tok)
       /\ UNCHANGED <<minted, shown>>
       /\ IF Valid(call[c].tok, terms) /\ Writable(terms.env)
          THEN /\ Record(call[c].tok, terms, cost)
               /\ call' = [call EXCEPT ![c].at = "sent", ![c].qty = terms.qty]
          ELSE End(c) /\ UNCHANGED sent

\* The quantity is normalised and held against the limits.  What follows runs
\* without an await, but for a sale at a broker that tells what is sellable.
Check(c) ==
  /\ call[c].at = "size"
  /\ LET x   == call[c]
         eff == Normal(x.qty, IF x.kind = "oco" THEN StopPrice ELSE x.price)
         ok  == IF x.kind = "oco"
                THEN eff <= x.held /\ Within("none", TakeProfit * eff) /\ Within("none", StopPrice * eff)
                ELSE Within(x.kind, x.price * eff)
         cost == (IF x.kind = "oco" THEN TakeProfit ELSE x.price) * eff
         asks == x.kind = "sell" /\ broker = "toss"
     IN  \/ ~ok /\ Refuse(c)
         \/ ok /\ asks /\ Go(c, "sellable") /\ UNCHANGED safe
         \/ ok /\ ~asks /\ Present(c, Terms(x.kind, eff, x.env), cost)
  /\ Quiet /\ UNCHANGED left

SellableSeen(c) ==
  /\ call[c].at = "sellable"
  /\ LET x == call[c]
     IN  IF x.qty <= free[Account(x.env)] THEN Present(c, Terms("sell", x.qty, x.env), x.price * x.qty)
         ELSE Refuse(c)
  /\ Quiet /\ UNCHANGED left

\* An order for an amount of money needs no price.
CheckAmount(c) ==
  /\ call[c].at = "amount"
  /\ LET x == call[c]
     IN  IF Within("amount", x.qty) THEN Present(c, Terms("amount", x.qty, x.env), x.qty)
         ELSE Refuse(c)
  /\ Quiet /\ UNCHANGED left

\* The exchange executes the order, rests the OCO, or refuses what the account
\* does not have; the answer changes nothing but the audit file.
Executed(c) ==
  /\ call[c].at = "sent"
  /\ LET x   == call[c]
         acc == Account(x.env)
         has == x.qty <= free[acc]
     IN  /\ free' = [free EXCEPT ![acc] =
                       CASE x.kind = "buy"    -> @ + x.qty
                         [] x.kind = "amount" -> @ + x.qty \div px
                         [] OTHER             -> IF has THEN @ - x.qty ELSE @]
         /\ ocos' = IF x.kind = "oco" /\ has
                    THEN ocos \cup {[id |-> x.tok, env |-> x.env, qty |-> x.qty]} ELSE ocos
  /\ End(c)
  /\ UNCHANGED <<broker, switches, px, trades, clock, life, safe, fill, left>>

\* cancel_protective: past the gate only.
CancelStarts(c) ==
  /\ call[c] = Idle /\ Allowed /\ Spend("cancel")
  /\ \E o \in ocos : /\ o.env = env
                     /\ call' = [call EXCEPT ![c] = [at |-> "cancel", oco |-> o]]
  /\ Quiet /\ UNCHANGED safe

Cancelled(c) ==
  /\ call[c].at = "cancel"
  /\ LET o == call[c].oco
     IN  IF o \in ocos
         THEN ocos' = ocos \ {o} /\ free' = [free EXCEPT ![o.env] = @ + o.qty]
         ELSE UNCHANGED <<ocos, free>>
  /\ End(c)
  /\ UNCHANGED <<broker, switches, px, trades, clock, life, safe, fill, left>>

-----------------------------------------------------------------------------
(* fillOrder, as the tick of a bot at Binance calls it; the others' fills are  *)
(* booked by their reconciliation                                             *)

\* The bot buys at its bar's price, or sells all that it holds.
BotOrders(b) ==
  /\ broker = "binance" /\ fill[b] = Idle /\ Allowed /\ Spend("order")
  /\ \/ \E qty \in 1..MaxQty :
          fill' = [fill EXCEPT ![b] = [at |-> "size", side |-> "buy", qty |-> qty, price |-> px, env |-> env]]
     \/ /\ ledger[b].qty > 0
        /\ fill' = [fill EXCEPT ![b] = [at |-> "size", side |-> "sell", qty |-> ledger[b].qty,
                                        price |-> px, env |-> env]]
  /\ UNCHANGED <<broker, switches, exchange, trades, clock, life, safe, call>>

BotQuiet == UNCHANGED <<broker, switches, trades, clock, life, safe, call, left>>

\* After the normalisation and the balance: the limits, then the lookup by
\* client id, which finds nothing.  `approved` is what the limits have seen.
BotChecks(b) ==
  /\ fill[b].at = "size"
  /\ LET x  == fill[b]
         nq == Normal(x.qty, x.price)
     IN  fill' = [fill EXCEPT ![b] =
                    IF Within(x.side, x.price * nq)
                    THEN [at |-> "send", side |-> x.side, qty |-> nq, env |-> x.env,
                          approved |-> IF master THEN x.price * nq ELSE 0]
                    ELSE Idle]
  /\ UNCHANGED exchange /\ BotQuiet

\* The market order is executed at the price of the moment, or refused.
BotExecuted(b) ==
  /\ fill[b].at = "send"
  /\ LET x   == fill[b]
         has == x.side = "buy" \/ x.qty <= free[x.env]
     IN  /\ free' = [free EXCEPT ![x.env] =
                       CASE ~has -> @ [] x.side = "buy" -> @ + x.qty [] OTHER -> @ - x.qty]
         /\ fill' = [fill EXCEPT ![b] =
                       IF has THEN [at |-> "answer", side |-> x.side, qty |-> x.qty,
                                    cost |-> px * x.qty, approved |-> x.approved]
                       ELSE Idle]
  /\ UNCHANGED <<px, ocos>> /\ BotQuiet

\* History: what a buy cost beyond what the limits were shown.
Unseen(x) == IF x.cost > x.approved THEN x.cost - x.approved ELSE 0

\* Mutant: a sale raised to the least notional leaves less than nothing.
Booked_NoMin(b) ==
  /\ fill[b].at = "answer"
  /\ LET x == fill[b]
         l == ledger[b]
     IN  /\ ledger' = [ledger EXCEPT ![b] =
                         IF x.side = "sell" THEN [qty |-> l.qty - x.qty, cost |-> 0, unseen |-> 0]
                         ELSE [qty |-> l.qty + x.qty, cost |-> l.cost + x.cost,
                               unseen |-> l.unseen + Unseen(x)]]
         /\ dayPnl' = dayPnl
  /\ fill' = [fill EXCEPT ![b] = Idle]
  /\ UNCHANGED <<broker, switches, exchange, clock, life, safe, call, left>>

\* insertTrade, and with it liveOpenLedger and dailyRealizedLoss.  A sale is of
\* all that is held or, after the normalisation, of more: nothing is left.
Booked(b) ==
  /\ fill[b].at = "answer"
  /\ LET x == fill[b]
         l == ledger[b]
     IN  /\ ledger' = [ledger EXCEPT ![b] =
                         IF x.side = "sell" THEN [qty |-> 0, cost |-> 0, unseen |-> 0]
                         ELSE [qty |-> l.qty + x.qty, cost |-> l.cost + x.cost,
                               unseen |-> l.unseen + Unseen(x)]]
         /\ dayPnl' = IF x.side = "sell"
                      THEN dayPnl + x.cost - (l.cost * x.qty) \div l.qty ELSE dayPnl
  /\ fill' = [fill EXCEPT ![b] = Idle]
  /\ UNCHANGED <<broker, switches, exchange, clock, life, safe, call, left>>

-----------------------------------------------------------------------------
(* Switches, time, exchange, crash *)

\* /api/live: switching on takes a preview and its token as well.
EnableLive(tok) ==
  /\ Spend("switch")
  /\ IF tok = NoToken THEN MintToken(EnableTerms) /\ UNCHANGED master
     ELSE /\ ConsumeToken(tok)
          /\ UNCHANGED <<minted, shown>>
          /\ IF Valid(tok, EnableTerms)
             THEN master' = TRUE /\ Record(tok, EnableTerms, 0)
             ELSE UNCHANGED <<master, sent>>
  /\ UNCHANGED <<broker, halt, env, exchange, trades, clock, life, call, fill>>

DisableLive ==
  /\ master /\ Spend("switch") /\ master' = FALSE
  /\ UNCHANGED <<broker, halt, env, exchange, trades, clock, life, safe, call, fill>>

\* haltAll and resume of the daemon.
TurnHalt ==
  /\ Spend("halt") /\ halt' = ~halt
  /\ UNCHANGED <<broker, master, env, exchange, trades, clock, life, safe, call, fill>>

\* The credentials form stores the other environment.
TurnEnv ==
  /\ Spend("env") /\ env' \in Envs \ {env}
  /\ UNCHANGED <<broker, halt, master, exchange, trades, clock, life, safe, call, fill>>

Tick ==
  /\ Spend("tick") /\ clock' = clock + 1
  /\ UNCHANGED <<broker, switches, exchange, trades, life, safe, call, fill>>

NewDay ==
  /\ Spend("night") /\ dayPnl' = 0
  /\ UNCHANGED <<broker, switches, exchange, ledger, clock, life, safe, call, fill>>

PriceMoves ==
  /\ Spend("price") /\ px' \in Prices \ {px}
  /\ UNCHANGED <<broker, switches, free, ocos, trades, clock, life, safe, call, fill>>

OcoFires ==
  /\ Spend("fires") /\ \E o \in ocos : ocos' = ocos \ {o}
  /\ UNCHANGED <<broker, switches, px, free, trades, clock, life, safe, call, fill>>

\* Tokens, calls and the kill switch are in memory; the master switch is in
\* the credentials file.
Crash ==
  /\ Spend("crash") /\ life' = life + 1
  /\ tokens' = {} /\ halt' = FALSE
  /\ call' = [c \in Calls |-> Idle] /\ fill' = [b \in Bots |-> Idle]
  /\ UNCHANGED <<broker, master, env, exchange, trades, clock, minted, shown, sent>>

Init ==
  /\ broker \in Brokers /\ left \in Budgets
  /\ halt = FALSE /\ master = TRUE /\ env = "live"
  /\ px \in Prices /\ free = [e \in Envs |-> MaxQty] /\ ocos = {}
  /\ ledger = [b \in Bots |-> [qty |-> 0, cost |-> 0, unseen |-> 0]] /\ dayPnl = 0
  /\ clock = 0 /\ life = 0
  /\ tokens = {} /\ minted = 0 /\ shown = {} /\ sent = {}
  /\ call = [c \in Calls |-> Idle] /\ fill = [b \in Bots |-> Idle]

Next ==
  \/ \E c \in Calls : \/ Receive(c) \/ HeldSeen(c) \/ OcoSeen(c) \/ PriceSeen(c) \/ PriceFails(c)
                      \/ Check(c) \/ SellableSeen(c) \/ CheckAmount(c) \/ Executed(c)
                      \/ CancelStarts(c) \/ Cancelled(c)
  \/ \E b \in Bots : BotOrders(b) \/ BotChecks(b) \/ BotExecuted(b) \/ Booked(b)
  \/ \E tok \in NoToken..minted : EnableLive(tok)
  \/ DisableLive \/ TurnHalt \/ TurnEnv \/ Tick \/ NewDay \/ PriceMoves \/ OcoFires \/ Crash

Spec == Init /\ [][Next]_vars

-----------------------------------------------------------------------------
(* Properties *)

TermSet == [kind : Kinds \cup {"enable"}, qty : Nat, env : Envs \cup {"any"}]

\* Every variable has its type; what the trades say a bot holds is never
\* negative, nor what an account may sell.
TypeOK ==
  /\ broker \in Brokers /\ {halt, master} \subseteq BOOLEAN /\ env \in Envs
  /\ px \in Prices /\ free \in [Envs -> Nat]
  /\ \A o \in ocos : o.id \in 1..minted /\ o.env \in Envs /\ o.qty \in Nat \ {0}
  /\ ledger \in [Bots -> [qty : Nat, cost : Nat, unseen : Nat]] /\ dayPnl \in Int
  /\ {clock, life, minted} \subseteq Nat
  /\ tokens \subseteq shown
  /\ shown \subseteq [id : 1..minted, terms : TermSet, exp : Nat, life : Nat]
  /\ sent \subseteq [no : Nat \ {0}, tok : 1..minted, terms : TermSet, cost : Nat, at : Nat, life : Nat]
  /\ \A c \in Calls : call[c] = Idle \/ call[c].at \in
       {"held", "listed", "price", "size", "sellable", "amount", "sent", "cancel"}
  /\ \A b \in Bots : fill[b] = Idle \/ fill[b].at \in {"size", "send", "answer"}
  /\ left \in [Events -> Nat]

\* What a confirmation sets off - an order, an OCO, the master switch - was
\* shown in a preview with the same kind, quantity and environment, less than
\* TTL ago and by this very process; and no preview is confirmed twice, though
\* calls overlap and share the one map of tokens (safety.ts:243-261).
OrdersWereShown ==
  /\ \A s \in sent : \E t \in shown :
       t.id = s.tok /\ t.terms = s.terms /\ t.exp > s.at /\ t.life = s.life
  /\ \A s1, s2 \in sent : s1.tok = s2.tok => s1 = s2

\* The bots together hold no more than the budget, beyond what the orders of
\* the other bots add that were under way at the last check - one at most of
\* each, and of Cap at most - and beyond what no check could see: a worse price
\* at execution, an order checked with the master switch off (safety.ts:159-172).
BudgetHolds ==
  Deployed <= TotalCap + (Cardinality(Bots) - 1) * Cap
              + MapThenSumSet(LAMBDA b : ledger[b].unseen, Bots)

=============================================================================

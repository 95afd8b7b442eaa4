---------------------------- MODULE LimitBracket ----------------------------
(***************************************************************************)
(* The persistent limit-order bot: buy Qty at a fixed price, then sell     *)
(* what was bought at a second fixed price, one order at a time.           *)
(*                                                                         *)
(* core/execution/limit-bracket.ts decides; runner.ts (tickLimitBracket)   *)
(* observes the broker, runs the decision and persists the result.  A tick *)
(* is suspended at three awaits: the order listing, the holdings and the   *)
(* order placement; the broker, the operator and a crash act in between.   *)
(*                                                                         *)
(* The broker answers queries from an index that may lag behind its books. *)
(* Prices are left out: the bot only ever uses its own two prices.  The    *)
(* account's owner may rest buy orders at the same price; the bot takes    *)
(* what they bring for its own.  That the owner sells is left out.         *)
(***************************************************************************)
EXTENDS Integers, FiniteSets, FiniteSetsExt

CONSTANTS
  Qty,          \* node.qty: what the bot is to buy
  HasSell,      \* node.sellPrice is given
  Baseline,     \* what the account holds before the bot starts
  Debounce,     \* LB_FILL_DEBOUNCE
  Cooldown,     \* LB_PLACE_COOLDOWN
  Cap,          \* LB_REORDER_CAP
  OrdersLag,    \* listings in a row the broker may answer from an old index
  HoldingsLag,  \* the same for the holdings
  FaultSets,    \* what the environment may do: subsets of AllFaults
  MaxOrders,    \* bound: orders of the bot the broker accepts
  MaxByHand,    \* bound: what the owner's own orders may bring the account
  MaxSessions,  \* bound: trading sessions
  MaxCrashes,   \* bound: process restarts
  MaxStops      \* bound: operator stops

AllFaults == {"crash", "crash_in_order", "gate", "stranger", "lost_answer",
              "refuse", "expire", "query", "closed", "night", "stop", "cancel"}

ASSUME BracketAssumption ==
  /\ Qty \in Nat \ {0} /\ Baseline \in Nat /\ HasSell \in BOOLEAN
  /\ Debounce \in Nat \ {0} /\ Cooldown \in Nat /\ Cap \in Nat \ {0}
  /\ OrdersLag \in Nat /\ HoldingsLag \in Nat
  /\ FaultSets \subseteq SUBSET AllFaults
  /\ {MaxOrders, MaxByHand, MaxSessions, MaxCrashes, MaxStops} \subseteq Nat

VARIABLES
  st,        \* the persisted LimitBracketState, or NoState
  status,    \* bots.status
  pc,        \* where the running tick is suspended
  clock,     \* session key and market hours the running tick read
  seen,      \* the listing the running tick read
  next,      \* the state the running tick saves when its order is answered
  request,   \* the order the running tick places: side, quantity
  booted,    \* the bot is in lbBooted: it has decided once in this process
  ledger,    \* liveOpenLedger: live buys booked less live sells booked
  cancels,   \* order ids still to cancel by stopBot or by a done bot
  gate,      \* liveAdapterFor finds an adapter: liveGate lets orders through
  session, open,            \* the trading session, and whether it is open
  book,                     \* the broker's live orders at the bot's prices
  bought, sold,             \* what the bot's own orders really executed
  byHand,                   \* what the owner's orders brought the account since
  shown, shownAge,          \* the listing index, and how often it was reused
  shownHeld, heldAge,       \* the holdings index, likewise
  placed,                   \* orders accepted, in all
  inSession,                \* orders accepted in the present session
  crashes, stops,           \* faults so far
  faults                    \* what the environment does, chosen at the start

vars == <<st, status, pc, clock, seen, next, request, booted, ledger, cancels, gate,
          session, open, book, bought, sold, byHand, shown, shownAge, shownHeld, heldAge,
          placed, inSession, crashes, stops, faults>>
brokerVars == <<book, bought, sold, byHand, placed, inSession>>
indexVars == <<shown, shownAge, shownHeld, heldAge>>
worldVars == <<gate, session, open, crashes, stops, faults>>
tickVars == <<pc, clock, seen, next, request>>

None == 0
NoState == [phase |-> "none"]
NoOrder == [id |-> None, side |-> "none", rem |-> 0, exec |-> 0]
Strangers == {-1, -2}   \* ids of the orders the account's owner entered by hand
Phases == {"awaiting_buy", "buy_resting", "bought", "sell_resting", "done"}

Held == Baseline + bought + byHand - sold
OrderIds == {None} \cup Strangers \cup 1..MaxOrders

\* What the account could still sell: a spot broker accepts no more.
Sellable == Held - MapThenSumSet(LAMBDA x : x.rem, {x \in book : x.side = "sell"})
Accepts == request.side = "sell" => request.qty <= Sellable

Larger(a, b) == IF a > b THEN a ELSE b
Clamp(v, lo, hi) == IF v < lo THEN lo ELSE IF v > hi THEN hi ELSE v
\* The miss counters are only compared with Debounce: they saturate there.
Bump(n) == IF n < Debounce THEN n + 1 ELSE n

-----------------------------------------------------------------------------
(* The decision: what one observation makes of the state.                  *)

InitState(baseline) ==
  [phase |-> "awaiting_buy", status |-> "closed", qty |-> 0, live |-> FALSE,
   baseline |-> Larger(0, baseline), filled |-> 0, sold |-> 0,
   entryId |-> None, exitId |-> None, session |-> 0, count |-> 0,
   cooldown |-> 0, buyMisses |-> 0, sellMisses |-> 0, doneMisses |-> 0]

Adopted(known, order) == IF known = None THEN order.id ELSE known
Counted_Anew(s, o) == 0
Counted(s, o) == IF s.session = o.session THEN s.count ELSE 0
Cooled(s) == IF s.cooldown > 0 THEN s.cooldown - 1 ELSE 0

(* Every decision starts so: a new session resets the order count, the     *)
(* cooldown runs down, and a resting order is adopted if none is known.    *)
Entered(s, o) ==
  [s EXCEPT !.count = Counted(s, o), !.session = o.session, !.cooldown = Cooled(s),
            !.entryId = Adopted(s.entryId, o.buy), !.exitId = Adopted(s.exitId, o.sell)]

CanPlace_NoGrace(s, o) == o.open /\ s.cooldown = 0 /\ s.count < Cap
CanPlace_NoCap(s, o) == ~o.grace /\ o.open /\ s.cooldown = 0
CanPlace(s, o) == ~o.grace /\ o.open /\ s.cooldown = 0 /\ s.count < Cap

BuyTotal_GoneIsFilled(s, o) ==
  IF o.paper THEN IF o.crossed THEN Larger(Qty, s.filled) ELSE s.filled
  ELSE IF o.buy # NoOrder THEN Clamp(Larger(s.filled, o.buy.exec), 0, Qty)
  ELSE IF s.entryId # None THEN Qty
  ELSE s.filled

BuyTotal_OrderOnly(s, o) ==
  IF o.paper THEN IF o.crossed THEN Larger(Qty, s.filled) ELSE s.filled
  ELSE IF o.buy # NoOrder THEN Clamp(Larger(s.filled, o.buy.exec), 0, Qty)
  ELSE s.filled

(* detectBuyFill: a resting order speaks for itself, a vanished one counts *)
(* as filled only by what the account holds above the baseline.            *)
BuyTotal(s, o) ==
  IF o.paper THEN IF o.crossed THEN Larger(Qty, s.filled) ELSE s.filled
  ELSE IF o.buy # NoOrder THEN Clamp(Larger(s.filled, o.buy.exec), 0, Qty)
  ELSE IF o.delta > s.filled THEN Clamp(o.delta, 0, Qty)
  ELSE s.filled
BuyMisses(s, o) ==
  IF ~o.paper /\ o.buy = NoOrder /\ o.delta <= s.filled THEN Bump(s.buyMisses) ELSE 0

(* detectSellFill: sold is what is missing from the account.               *)
SellTotal(s, o) ==
  IF o.paper THEN IF o.crossed THEN s.filled ELSE s.sold
  ELSE Clamp(Larger(Larger(s.sold, Clamp(s.filled - o.delta, 0, s.filled)), o.sell.exec),
             0, s.filled)
SellMisses(s, o) == IF ~o.paper /\ o.sell = NoOrder THEN Bump(s.sellMisses) ELSE 0

Buying(s) == s.phase \in {"awaiting_buy", "buy_resting"}

\* Only the first buy order goes out at once; any later order of either side
\* waits until the absence of the previous one was seen Debounce times.
BuyReady_Eager(s, misses) == TRUE
BuyReady(s, misses) == s.phase = "awaiting_buy" \/ misses >= Debounce
SellReady_Eager(misses) == TRUE
SellReady(misses) == misses >= Debounce

StatusFor(held) == IF held > 0 THEN "open" ELSE "closed"

BuyFilled_AnyIsAll(s, o) ==
  LET total == BuyTotal(s, o)
  IN  [s EXCEPT !.filled = total, !.qty = total - s.sold, !.live = ~o.paper,
                !.status = StatusFor(total - s.sold),
                !.buyMisses = 0, !.phase = "bought"]

\* The state after a buy fill has been recorded.
BuyFilled(s, o) ==
  LET total == BuyTotal(s, o)
  IN  [s EXCEPT !.filled = total, !.qty = total - s.sold, !.live = ~o.paper,
                !.status = StatusFor(total - s.sold),
                !.buyMisses = 0,
                !.phase = IF total >= Qty THEN "bought" ELSE "buy_resting"]

SellFilled_NetsBuys(s, o) ==
  LET total == SellTotal(s, o)
  IN  [s EXCEPT !.filled = s.filled - total, !.sold = total, !.qty = s.filled - total,
                !.sellMisses = 0, !.status = StatusFor(s.filled - total)]

SellFilled(s, o) ==
  LET total == SellTotal(s, o)
  IN  [s EXCEPT !.sold = total, !.qty = s.filled - total, !.sellMisses = 0,
                !.status = IF s.filled - total > 0 THEN s.status ELSE "closed"]

\* The state with one more order counted against the session's cap.
Ordered(s, phase) ==
  [s EXCEPT !.phase = phase, !.cooldown = Cooldown, !.count = @ + 1]

-----------------------------------------------------------------------------
(* How a tick ends: save the state, book a fill, or go on to place.        *)

Save(s) == st' = s /\ pc' = "idle" /\ UNCHANGED <<clock, seen, next, request>>

Keep(s) == Save(s) /\ UNCHANGED <<status, ledger, cancels>>

\* A fill is booked with the state in one transaction; only a live one counts
\* in the live ledger.
BookFill(s, o, change) ==
  /\ Save(s)
  /\ ledger' = IF s.live /\ ~o.paper THEN Larger(0, ledger + change) ELSE ledger
  /\ UNCHANGED <<status, cancels>>

\* The sell quantity is capped by the live ledger when that is positive.
Capped(side, qty) == IF side = "sell" /\ ledger > 0 /\ ledger < qty THEN ledger ELSE qty

\* fillOrder: behind a closed gate the state is saved and nothing is sent.
AskFor(s, side, qty) ==
  IF gate
  THEN /\ pc' = "order" /\ next' = s
       /\ request' = [side |-> side, qty |-> Capped(side, qty)]
       /\ UNCHANGED <<st, status, clock, seen, ledger, cancels>>
  ELSE Keep(s)

\* A done bot is saved, its known orders are cancelled, then it is stopped.
Finish(s) ==
  /\ st' = s
  /\ pc' = "cleanup"
  /\ cancels' = cancels \cup IF gate THEN {s.entryId, s.exitId} \ {None} ELSE {}
  /\ UNCHANGED <<status, clock, seen, next, request, ledger>>

BuyFill(s, o) ==
  /\ Buying(s) /\ BuyTotal(s, o) > s.filled
  /\ BookFill(BuyFilled(s, o), o, BuyTotal(s, o) - s.filled)

BuyWait(s, o) ==
  /\ Buying(s) /\ BuyTotal(s, o) = s.filled /\ o.buy # NoOrder
  /\ Keep([s EXCEPT !.buyMisses = 0, !.phase = "buy_resting"])

BuyPlaceOrHold(s, o) ==
  LET misses == BuyMisses(s, o)
      ready  == BuyReady(s, misses)
  IN  /\ Buying(s) /\ BuyTotal(s, o) = s.filled /\ o.buy = NoOrder
      /\ \/ /\ CanPlace(s, o) /\ ready /\ Qty > s.filled
            /\ AskFor(Ordered([s EXCEPT !.buyMisses = 0], "buy_resting"), "buy", Qty - s.filled)
         \/ /\ ~(CanPlace(s, o) /\ ready /\ Qty > s.filled)
            /\ Keep([s EXCEPT !.buyMisses = misses])

\* The code also ends here when nothing is held: BookKept says it is, always.
BoughtStep(s, o) ==
  /\ s.phase = "bought"
  /\ \/ /\ ~HasSell
        /\ Finish([s EXCEPT !.phase = "done", !.status = "closed"])
     \/ /\ HasSell /\ CanPlace(s, o) /\ o.sell = NoOrder
        /\ AskFor(Ordered(s, "sell_resting"), "sell", s.qty)
     \/ /\ HasSell /\ ~(CanPlace(s, o) /\ o.sell = NoOrder)
        /\ Keep(s)

SellFill(s, o) ==
  /\ s.phase = "sell_resting" /\ SellTotal(s, o) > s.sold
  /\ BookFill(SellFilled(s, o), o, s.sold - SellTotal(s, o))

SellOver(s, o) ==
  LET t == [s EXCEPT !.sellMisses = SellMisses(s, o), !.doneMisses = Bump(@)]
  IN  /\ s.phase = "sell_resting" /\ SellTotal(s, o) = s.sold
      /\ s.qty = 0 /\ o.sell = NoOrder
      /\ IF t.doneMisses >= Debounce 
         THEN Finish([t EXCEPT !.phase = "done", !.status = "closed"]) ELSE Keep(t)

SellPlaceOrHold(s, o) ==
  LET t == [s EXCEPT !.sellMisses = SellMisses(s, o), !.doneMisses = 0]
      ready == SellReady(t.sellMisses) /\ CanPlace(s, o) /\ s.qty > 0
  IN  /\ s.phase = "sell_resting" /\ SellTotal(s, o) = s.sold
      /\ ~(s.qty = 0 /\ o.sell = NoOrder)
      /\ \/ /\ o.sell = NoOrder /\ ready
            /\ AskFor(Ordered([t EXCEPT !.sellMisses = 0], "sell_resting"), "sell", s.qty)
         \/ /\ ~(o.sell = NoOrder /\ ready)
            /\ Keep(t)

Done(s, o) == s.phase = "done" /\ Finish(s)

Decide(s, o) ==
  \/ BuyFill(s, o) \/ BuyWait(s, o) \/ BuyPlaceOrHold(s, o)
  \/ BoughtStep(s, o)
  \/ SellFill(s, o) \/ SellOver(s, o) \/ SellPlaceOrHold(s, o)
  \/ Done(s, o)

-----------------------------------------------------------------------------
(* The tick: tickLimitBracket.                                             *)

\* findMyRestingOrder: the known id, else the only candidate on that side.
Candidates(side) == {x \in seen : x.side = side}
Known(side, id) == {x \in Candidates(side) : id # None /\ x.id = id}
Ambiguous(side, id) == Known(side, id) = {} /\ Cardinality(Candidates(side)) > 1
Mine(side, id) ==
  CASE Known(side, id) # {} -> CHOOSE x \in Known(side, id) : TRUE
    [] Known(side, id) = {} /\ Cardinality(Candidates(side)) = 1 ->
         CHOOSE x \in Candidates(side) : TRUE
    [] OTHER -> NoOrder

\* A query is answered from the books, or again from the last index.
ListOrders ==
  \/ shown' = book /\ shownAge' = 0 /\ seen' = book
  \/ shownAge < OrdersLag /\ shownAge' = shownAge + 1 /\ seen' = shown /\ UNCHANGED shown

ListHoldings ==
  \/ shownHeld' = Held /\ heldAge' = 0
  \/ heldAge < HoldingsLag /\ heldAge' = heldAge + 1 /\ UNCHANGED shownHeld

\* The tick starts: it reads the clock and asks for the open orders.
TickLive ==
  /\ status = "running" /\ pc = "idle" /\ gate
  /\ clock' = [session |-> session, open |-> open]
  /\ ListOrders
  /\ pc' = "holdings"
  /\ UNCHANGED <<st, status, next, request, booted, ledger, cancels, shownHeld, heldAge,
                 brokerVars, worldVars>>

\* A query fails: nothing is decided, nothing changes.
QueryFails ==
  /\ "query" \in faults
  /\ pc = "holdings" /\ pc' = "idle"
  /\ UNCHANGED <<st, status, clock, seen, next, request, booted, ledger, cancels,
                 brokerVars, indexVars, worldVars>>

\* The holdings arrive: the state is created if need be, and decided on.
\* (Observation and entered state are bound rather than LET, to be evaluated once.)
Observe ==
  /\ pc = "holdings"
  /\ ListHoldings
  /\ LET s == IF st = NoState THEN InitState(shownHeld') ELSE st
         o == [grace |-> ~booted, open |-> clock.open, session |-> clock.session,
               paper |-> FALSE, crossed |-> FALSE,
               buy |-> Mine("buy", s.entryId),
               sell |-> IF HasSell THEN Mine("sell", s.exitId) ELSE NoOrder,
               delta |-> Larger(0, shownHeld' - s.baseline)]
     IN  IF Ambiguous("buy", s.entryId) \/ (HasSell /\ Ambiguous("sell", s.exitId))
         THEN Keep(s) /\ UNCHANGED booted
         ELSE /\ \E x \in {o} : \E t \in {Entered(s, x)} : Decide(t, x)
              /\ booted' = TRUE
  /\ UNCHANGED <<shown, shownAge, brokerVars, worldVars>>

\* Without an adapter the same tick simulates fills from the last closed bar.
TickPaper ==
  /\ status = "running" /\ pc = "idle" /\ ~gate
  /\ \E crossed \in BOOLEAN :
       LET s == IF st = NoState THEN InitState(0) ELSE st
           o == [grace |-> ~booted, open |-> open, session |-> session,
                 paper |-> TRUE, crossed |-> crossed,
                 buy |-> NoOrder, sell |-> NoOrder, delta |-> 0]
       IN  Decide(Entered(s, o), o)
  /\ booted' = TRUE
  /\ UNCHANGED <<indexVars, brokerVars, worldVars>>

\* The limits or the broker refuse: no order, but the state is saved.
OrderRefused ==
  /\ pc = "order"
  /\ "refuse" \in faults \/ ~Accepts
  /\ Keep(next)
  /\ UNCHANGED <<booted, brokerVars, indexVars, worldVars>>

OrderAccepted ==
  /\ pc = "order" /\ Accepts /\ placed < MaxOrders
  /\ book' = book \cup {[id |-> placed + 1, side |-> request.side, rem |-> request.qty, exec |-> 0]}
  /\ placed' = placed + 1
  /\ inSession' = IF clock.session = session THEN inSession + 1 ELSE inSession
  /\ pc' = "answer"
  /\ UNCHANGED <<st, status, clock, seen, next, request, booted, ledger, cancels,
                 bought, sold, byHand, indexVars, worldVars>>

\* The answer carries the order's id, which the saved state then knows.
OrderAnswered ==
  /\ pc = "answer"
  /\ Keep(IF request.side = "buy" THEN [next EXCEPT !.entryId = placed]
                                  ELSE [next EXCEPT !.exitId = placed])
  /\ UNCHANGED <<booted, brokerVars, indexVars, worldVars>>

\* The answer is lost and the order cannot be looked up: outcome unknown.
AnswerLost ==
  /\ "lost_answer" \in faults
  /\ pc = "answer"
  /\ Keep(next)
  /\ UNCHANGED <<booted, brokerVars, indexVars, worldVars>>

\* The done bot's orders are dealt with: runner.stop.
CleanedUp ==
  /\ pc = "cleanup" /\ cancels = {}
  /\ pc' = "idle" /\ status' = "stopped"
  /\ UNCHANGED <<st, clock, seen, next, request, booted, ledger, cancels,
                 brokerVars, indexVars, worldVars>>

-----------------------------------------------------------------------------
(* The operator, the process and the broker.                               *)

\* stopBot: the timers stop, a running tick does not; known orders go.
StopBot ==
  /\ "stop" \in faults /\ stops < MaxStops
  /\ status' = "stopped" /\ stops' = stops + 1
  /\ cancels' = cancels \cup IF gate /\ st # NoState THEN {st.entryId, st.exitId} \ {None} ELSE {}
  /\ UNCHANGED <<st, tickVars, booted, ledger, brokerVars, indexVars, gate, session, open, crashes, faults>>

\* startBot, at any time after a stop, also while its cancels are still out.
StartBot ==
  /\ status = "stopped" /\ status' = "running"
  /\ UNCHANGED <<st, tickVars, booted, ledger, cancels, brokerVars, indexVars, worldVars>>

\* cancelLimitBracketRestingOrders, one order: a failure is only logged.
CancelResting(id) ==
  /\ id \in cancels
  /\ cancels' = cancels \ {id}
  /\ \/ book' = {x \in book : x.id # id}
     \/ "cancel" \in faults /\ UNCHANGED book
  /\ UNCHANGED <<st, status, tickVars, booted, ledger, bought, sold, byHand, placed, inSession,
                 indexVars, worldVars>>

Crash ==
  /\ crashes < MaxCrashes
  /\ \/ "crash" \in faults /\ pc \notin {"order", "answer"}
     \/ "crash_in_order" \in faults
  /\ crashes' = crashes + 1
  /\ pc' = "idle" /\ booted' = FALSE /\ cancels' = {}
  /\ UNCHANGED <<st, status, clock, seen, next, request, ledger, brokerVars, indexVars,
                 gate, session, open, stops, faults>>

\* An order executes in portions: the bot's own, or one of the owner's.
Execute(x) ==
  /\ \E n \in 1..x.rem :
       /\ book' = (book \ {x}) \cup
            (IF n = x.rem THEN {} ELSE {[x EXCEPT !.rem = @ - n, !.exec = @ + n]})
       /\ \/ /\ x.id \in Strangers
             /\ byHand' = byHand + n /\ UNCHANGED <<bought, sold>>
          \/ /\ x.id \notin Strangers /\ x.side = "buy"
             /\ bought' = bought + n /\ UNCHANGED <<sold, byHand>>
          \/ /\ x.id \notin Strangers /\ x.side = "sell"
             /\ sold' = sold + n /\ UNCHANGED <<bought, byHand>>
  /\ UNCHANGED <<st, status, tickVars, booted, ledger, cancels, placed, inSession,
                 indexVars, worldVars>>

\* A day order lapses, or somebody cancels it by hand at the broker.
Expire(x) ==
  /\ "expire" \in faults \/ x.id \in Strangers
  /\ book' = book \ {x}
  /\ UNCHANGED <<st, status, tickVars, booted, ledger, cancels, bought, sold, byHand, placed,
                 inSession, indexVars, worldVars>>

\* The ids anybody still knows: an order of the owner's gets another one.
KnownIds ==
  {x.id : x \in book \cup shown \cup seen} \cup cancels
  \cup UNION {{s.entryId, s.exitId} : s \in {st, next} \ {NoState}}

\* The account's owner rests an order of their own at the bot's buy price: one
\* at a time, and none above Qty.
EnterByHand ==
  /\ "stranger" \in faults
  /\ \A x \in book : x.id \notin Strangers
  /\ \E id \in Strangers \ KnownIds, n \in 1..Qty :
       /\ byHand + n <= MaxByHand
       /\ book' = book \cup {[id |-> id, side |-> "buy", rem |-> n, exec |-> 0]}
  /\ UNCHANGED <<st, status, tickVars, booted, ledger, cancels, bought, sold, byHand, placed,
                 inSession, indexVars, worldVars>>

MarketTurns ==
  /\ "closed" \in faults
  /\ open' = ~open
  /\ UNCHANGED <<st, status, tickVars, booted, ledger, cancels, brokerVars, indexVars,
                 gate, session, crashes, stops, faults>>

NewSession ==
  /\ "night" \in faults /\ session < MaxSessions
  /\ session' = session + 1 /\ inSession' = 0
  /\ UNCHANGED <<st, status, tickVars, booted, ledger, cancels, book, bought, sold, byHand, placed,
                 indexVars, gate, open, crashes, stops, faults>>

\* HALT, the master switch or the credentials change.
GateTurns ==
  /\ "gate" \in faults
  /\ gate' = ~gate
  /\ UNCHANGED <<st, status, tickVars, booted, ledger, cancels, brokerVars, indexVars,
                 session, open, crashes, stops, faults>>

Init ==
  /\ st = NoState /\ status = "running" /\ pc = "idle"
  /\ clock = [session |-> 1, open |-> TRUE] /\ seen = {}
  /\ next = NoState /\ request = [side |-> "buy", qty |-> 0]
  /\ booted = FALSE /\ ledger = 0 /\ cancels = {}
  /\ faults \in FaultSets
  /\ gate \in (IF "gate" \in faults THEN BOOLEAN ELSE {TRUE})
  /\ session = 1 /\ open = TRUE
  /\ book = {} /\ bought = 0 /\ sold = 0 /\ byHand = 0
  /\ shown = {} /\ shownAge = 0 /\ shownHeld = Baseline /\ heldAge = 0
  /\ placed = 0 /\ inSession = 0 /\ crashes = 0 /\ stops = 0

Bot == TickLive \/ QueryFails \/ Observe \/ TickPaper \/ OrderRefused \/ OrderAccepted
       \/ OrderAnswered \/ AnswerLost \/ CleanedUp

Next ==
  \/ Bot
  \/ StopBot \/ StartBot \/ \E id \in cancels : CancelResting(id)
  \/ Crash
  \/ \E x \in book : Execute(x) \/ Expire(x)
  \/ EnterByHand \/ MarketTurns \/ NewSession \/ GateTurns

Spec == Init /\ [][Next]_vars

\* The bot is scheduled by a timer, the broker answers, and in the end it
\* executes an order that rests and cancels one that it was asked to.
Fairness ==
  /\ WF_vars(TickLive) /\ WF_vars(Observe) /\ WF_vars(OrderAccepted)
  /\ WF_vars(OrderAnswered) /\ WF_vars(CleanedUp)
  /\ WF_vars(\E id \in cancels : CancelResting(id))
  /\ WF_vars(\E x \in book : Execute(x))

FairSpec == Spec /\ Fairness

-----------------------------------------------------------------------------
(* What the bot promises.                                                  *)

OrderSet == [id : OrderIds, side : {"none", "buy", "sell"}, rem : 0..Qty, exec : 0..Qty]
StateSet ==
  [phase : Phases, status : {"open", "closed"}, qty : 0..Qty, live : BOOLEAN,
   baseline : Nat, filled : 0..Qty, sold : 0..Qty, entryId : OrderIds, exitId : OrderIds,
   session : Nat, count : 0..Cap, cooldown : 0..Cooldown,
   buyMisses : 0..Debounce, sellMisses : 0..Debounce, doneMisses : 0..Debounce]

\* Every variable has its type; the counters of the state keep within the
\* limits the decision compares them with (limit-bracket.ts, LB_ constants).
TypeOK ==
  /\ st \in StateSet \cup {NoState} /\ next \in StateSet \cup {NoState}
  /\ status \in {"running", "stopped"}
  /\ pc \in {"idle", "holdings", "order", "answer", "cleanup"}
  /\ clock \in [session : Nat, open : BOOLEAN]
  /\ {seen, shown, book} \subseteq SUBSET OrderSet
  /\ request \in [side : {"buy", "sell"}, qty : 0..Qty]
  /\ {booted, gate, open} \subseteq BOOLEAN
  /\ cancels \subseteq OrderIds
  /\ {ledger, session, bought, sold, byHand, shownAge, shownHeld, heldAge,
       placed, inSession, crashes, stops} \subseteq Nat
  /\ faults \in FaultSets

\* The persisted figures agree with each other whatever was observed: what
\* is sold was bought before, qty is the difference, the phase tells what
\* may have happened, and the bot looks open to emergencyStopAll and
\* exposuresOf exactly while it holds something it still manages.
Coherent(s) ==
  /\ s.sold <= s.filled /\ s.qty = s.filled - s.sold
  /\ Buying(s) => s.filled < Qty /\ s.sold = 0
  /\ s.phase = "bought" => s.filled = Qty /\ s.sold = 0
  /\ s.phase = "sell_resting" => s.filled = Qty
  /\ s.phase # "done" => (s.status = "open" <=> s.qty > 0)
  /\ s.phase = "done" => s.status = "closed" /\ (HasSell => s.qty = 0)
BookKept == st # NoState => Coherent(st)

OwnLive(side) == {x \in book : x.side = side /\ x.id \notin Strangers}

\* The bot never has two buy orders at the broker, and what it has bought
\* with what still rests never exceeds the quantity it was given: no double
\* buy while the broker's index lags (kr#2 in limit-bracket.ts).
NoOverBuy == /\ Cardinality(OwnLive("buy")) <= 1
             /\ bought <= Qty
             /\ \A x \in OwnLive("buy") : bought + x.rem <= Qty

\* Nor does it ever sell more than was bought since it began, by its orders or
\* by the owner's: the holdings the account had before stay untouched (kr#1).
\* What the owner buys at the bot's price is not safe from it.
NoOverSell == /\ Cardinality(OwnLive("sell")) <= 1
              /\ sold <= bought + byHand
              /\ \A x \in OwnLive("sell") : sold + x.rem <= bought + byHand

\* The state never claims a fill the broker has not executed, for the bot or,
\* at its price, for the owner, so the trades booked from it are real (no
\* vanished order is taken for a fill); a sale it claims is always its own.
FillsAreReal == st # NoState => st.filled <= bought + byHand /\ st.sold <= sold

\* In one trading session the broker sees at most Cap orders of the bot; a
\* restart between sending and saving may cost one more each (safety#5).
OrdersCapped == inSession <= Cap + crashes

\* The state only moves forward: the baseline stays what the first tick saw,
\* no recorded fill is taken back, the selling side never buys again.
Forward ==
  [][st # NoState => /\ st'.baseline = st.baseline
                     /\ st'.filled >= st.filled /\ st'.sold >= st.sold
                     /\ ~Buying(st) => ~Buying(st')
                     /\ st.phase = "done" => st'.phase = "done"]_st

\* Seen from the broker, the bot is a bracket: all of Qty is bought before
\* anything is sold, and no more is sold than that; what the owner buys by hand
\* it may count and sell as its own.
Contract == INSTANCE BracketContract
              WITH Qty <- Qty, bought <- bought, sold <- sold, byHand <- byHand
Bracket == Contract!Spec

\* A bot whose orders are executed when they rest comes to its end.
Finishes == <>(st # NoState /\ st.phase = "done" /\ status = "stopped")
=============================================================================

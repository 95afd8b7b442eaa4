----------------------------- MODULE LimitEntry -----------------------------
(***************************************************************************)
(* A spot bot's entry by limit order at Binance (runner.ts:90-225, 712-795 *)
(* and 1163-1246): tick by tick, from the signal over the marker that      *)
(* tracks the resting order to its execution, or its timeout, cancel and   *)
(* the market order for what is left.  Every await of the code is a step   *)
(* boundary: the order may be executed, lapse, or the bar turn over there. *)
(*                                                                         *)
(* Kinds names what may go wrong, Trouble how often in all: "request" and  *)
(* "answer" lose an order before and after it reaches the exchange,        *)
(* "refused" refuses it, "precheck", "look", "requery", "reconcile",       *)
(* "quote" and "cancel" fail that call, "lag" hides a new order from the   *)
(* lookups of its bar, "lapse" ends an order at the exchange untouched and *)
(* "lapsepart" one executed in part.  CrashAt are the stages of a tick in  *)
(* which the process may die.                                              *)
(***************************************************************************)
EXTENDS EntryFill

CONSTANTS Wanted,    \* the quantity the strategy wants (planPositionDelta)
          Grants,    \* what the portfolio gate may let through of an entry
          Timeout,   \* the entry's timeout, in bars of interval_seconds
          PerBar,    \* bars of interval_seconds in one candle
          Cap,       \* the cap on the slippage of the market order, percent
          Close, Offset,  \* the signal's close, and the limit's offset below it
          Quotes,    \* what the market may cost when the timeout has passed
          Bars,      \* bound: the last candle
          Kinds, Trouble, CrashAt

ASSUME EntryAssumption ==
  /\ Wanted \in Nat \ {0} /\ Grants \subseteq 1..Wanted
  /\ Timeout \in Nat /\ PerBar \in Nat \ {0} /\ Bars \in Nat /\ Trouble \in Nat

VARIABLES saved,   \* position_state: nothing, a marker, or a position
          keys,    \* the idempotency keys booked
          at,      \* the stage of the tick in progress
          now,     \* the last candle that tick has seen
          req,     \* the order it is placing
          orders,  \* exchange: the last entry order of each client id
          held,    \* exchange: what the account holds by this bot's orders
          bar,     \* the last closed candle
          left     \* how often something may still go wrong

vars == <<saved, keys, at, now, req, orders, held, bar, left>>
exchange == <<orders, held, bar>>

Limit == ComputeLimitPrice(Close, Offset)
Misses == 3

Flat            == [kind |-> "flat"]
Paper           == [kind |-> "paper"]
Position(q)     == [kind |-> "open", qty |-> q]
Pending(cid, q) == [kind |-> "limit", cid |-> cid, qty |-> q, placed |-> cid]
Unknown(q, m)   == [kind |-> "unknown", qty |-> q, misses |-> m]
QtyOf(state)    == IF state.kind = "open" THEN state.qty ELSE 0
IsMarker(state) == state.kind \in {"limit", "unknown"}

NoOrder   == [status |-> "none", qty |-> 0, done |-> 0, seen |-> TRUE]
NoRequest == [why |-> "none", type |-> "none", qty |-> 0]

Init == /\ saved = Flat /\ keys = {} /\ at = "idle" /\ now = 0 /\ req = NoRequest
        /\ orders = [b \in 0..Bars |-> NoOrder] /\ held = 0 /\ bar = 0 /\ left = Trouble

\* Whether a call of this kind goes wrong, and what that leaves of Trouble.
Trips(kind)  == {FALSE} \cup (IF kind \in Kinds /\ left > 0 THEN {TRUE} ELSE {})
Spend(trips) == left' = IF trips THEN left - 1 ELSE left

-----------------------------------------------------------------------------
(* The book.                                                               *)

EndTick == at' = "idle" /\ req' = NoRequest
Leave(state) == saved' = state /\ EndTick

\* A position of qty, once per key.
BookFill(qty, sfx) ==
  IF <<now, sfx>> \in keys THEN UNCHANGED <<saved, keys>>
  ELSE saved' = Position(qty) /\ keys' = keys \cup {<<now, sfx>>}

\* The tick books the strategy's own quantity, unless the gate has cut the order
\* or only a part of it was executed.
Reached(qty) ==
  IF QtyOf(saved) + req.qty < Wanted \/ qty < req.qty THEN QtyOf(saved) + qty ELSE Wanted

\* A market fallback that came to nothing leaves what was executed of the limit.
Dropped == saved' = (IF saved.kind = "open" THEN saved ELSE Flat) /\ UNCHANGED keys

\* fillOrder says the order did not go out: a new entry is taken on paper, an
\* addition is left alone, a fallback dropped.
Blocked ==
  /\ CASE req.why = "entry" -> saved' = Paper /\ keys' = keys \cup {<<now, "buy">>}
       [] req.why = "add" -> UNCHANGED <<saved, keys>>
       [] req.why = "fallback" -> Dropped
  /\ EndTick

\* ... that it cannot tell.
OutcomeUnknown ==
  /\ CASE req.why = "entry" -> saved' = Unknown(req.qty, 0) /\ UNCHANGED keys
       [] req.why = "add" -> UNCHANGED <<saved, keys>>
       [] req.why = "fallback" -> Dropped
  /\ EndTick

\* ... that it was executed for qty.
Filled(qty) ==
  /\ IF req.why = "fallback" THEN BookFill(QtyOf(saved) + qty, "limitfallback")
                             ELSE BookFill(Reached(qty), "buy")
  /\ EndTick

-----------------------------------------------------------------------------
(* The exchange.                                                           *)

\* What a lookup by client id says: its verdict and the executed quantity.
Seen(cid) == IF orders[cid].seen THEN orders[cid] ELSE NoOrder
Verdict(cid) ==
  CASE Seen(cid).status = "none"    -> "not_placed"
    [] Seen(cid).status = "resting" -> "open"
    [] Seen(cid).status = "filled"  -> "filled"
    [] Seen(cid).status = "gone"    -> "rejected"

\* A market order is executed whole, a limit rests or is executed at once.
Accept(done, seen) ==
  /\ orders' = [orders EXCEPT ![now] =
       [status |-> IF done = req.qty THEN "filled" ELSE "resting",
        qty |-> req.qty, done |-> done, seen |-> seen]]
  /\ held' = held + done

Execute(b) ==
  /\ orders[b].status = "resting"
  /\ orders' = [orders EXCEPT ![b].done = @ + 1,
                              ![b].status = IF orders[b].done + 1 = orders[b].qty THEN "filled" ELSE @]
  /\ held' = held + 1
  /\ UNCHANGED <<saved, keys, at, now, req, bar, left>>

Lapse(b) ==
  /\ orders[b].status = "resting"
  /\ TRUE \in Trips(IF orders[b].done = 0 THEN "lapse" ELSE "lapsepart")
  /\ orders' = [orders EXCEPT ![b].status = "gone"]
  /\ Spend(TRUE)
  /\ UNCHANGED <<saved, keys, at, now, req, held, bar>>

\* A tick takes less than a candle; a new order is indexed when one has closed.
NewBar ==
  /\ bar < Bars /\ (at # "idle" => bar = now)
  /\ bar' = bar + 1
  /\ orders' = [b \in 0..Bars |-> [orders[b] EXCEPT !.seen = TRUE]]
  /\ UNCHANGED <<saved, keys, at, now, req, held, left>>

-----------------------------------------------------------------------------
(* The tick, when no marker waits: the order for what is missing.          *)

Ask(why, type, qty) ==
  /\ req' = [why |-> why, type |-> type, qty |-> qty]
  /\ at' = "precheck"

\* A new entry is a limit order; the strategy may want it or not.  Entries whose
\* timeout would lie beyond the last candle are left out.
TickEnters ==
  /\ at = "idle" /\ saved.kind = "flat"
  /\ bar + Timeout <= Bars
  /\ now' = bar
  /\ \E qty \in Grants : Ask("entry", "limit", qty)
  /\ UNCHANGED <<saved, keys, exchange, left>>

\* A position smaller than the strategy's is topped up at the market.
TickAdds ==
  /\ at = "idle" /\ QtyOf(saved) \in 1..(Wanted - 1)
  /\ now' = bar
  /\ Ask("add", "market", Wanted - QtyOf(saved))
  /\ UNCHANGED <<saved, keys, exchange, left>>

\* An order of this client id that is open or filled is adopted for what it has
\* executed, or for the quantity asked if that is nothing.
Adopted(cid) == Filled(IF Seen(cid).done > 0 THEN Seen(cid).done ELSE req.qty)

Precheck ==
  /\ at = "precheck"
  /\ \E fails \in Trips("precheck") :
       /\ Spend(fails)
       /\ IF ~fails /\ Verdict(now) \in {"filled", "open"}
          THEN Adopted(now)
          ELSE at' = "place" /\ UNCHANGED <<saved, keys, req>>
  /\ UNCHANGED <<now, exchange>>

\* Lost or refused, the order never rests.
NotPlaced ==
  /\ at = "place"
  /\ \/ TRUE \in Trips("request") /\ at' = "reconcile" /\ UNCHANGED <<saved, keys, req>>
     \/ TRUE \in Trips("refused") /\ Blocked
  /\ Spend(TRUE)
  /\ UNCHANGED <<now, exchange>>

Place ==
  /\ at = "place"
  /\ \E lags \in Trips("lag") :
       /\ Spend(lags)
       /\ \E done \in IF req.type = "market" THEN {req.qty} ELSE {0, req.qty} : Accept(done, ~lags)
  /\ at' = "answer"
  /\ UNCHANGED <<saved, keys, now, req, bar>>

\* The answer is of the moment the order was accepted: a limit executed at once
\* is booked as it is, any other becomes the marker.
Answered ==
  /\ at = "answer"
  /\ \E lost \in Trips("answer") :
       /\ Spend(lost)
       /\ CASE lost -> at' = "reconcile" /\ UNCHANGED <<saved, keys, req>>
            [] ~lost /\ orders[now].status = "filled" -> Filled(orders[now].done)
            [] OTHER -> Leave(Pending(now, req.qty)) /\ UNCHANGED keys
  /\ UNCHANGED <<now, exchange>>

\* After a failure fillOrder looks the order up: an open one counts as bought.
Reconciled ==
  /\ at = "reconcile"
  /\ \E fails \in Trips("reconcile") :
       /\ Spend(fails)
       /\ CASE fails -> OutcomeUnknown
            [] ~fails /\ Verdict(now) \in {"filled", "open"} -> Adopted(now)
            [] OTHER -> Blocked
  /\ UNCHANGED <<now, exchange>>

-----------------------------------------------------------------------------
(* The tick, when a marker waits.                                          *)

TickLooks ==
  /\ at = "idle" /\ saved.kind = "limit"
  /\ at' = "look" /\ now' = bar
  /\ UNCHANGED <<saved, keys, req, exchange, left>>

\* Too early to give up: the marker is saved as it is.
Waited_Restarted == [saved EXCEPT !.placed = now]
Waited == saved

\* Only what the exchange calls ended is released; an order the lookup does not
\* know yet is waited for like one that rests.
Released_Unseen == {"rejected", "not_placed"}
Released == {"rejected"}

\* resolvePendingEntry up to its timeout.
Looked ==
  /\ at = "look"
  /\ \E fails \in Trips("look") :
       /\ Spend(fails)
       /\ CASE fails -> Leave(saved) /\ UNCHANGED keys
            [] ~fails /\ Verdict(saved.cid) = "filled" -> BookFill(Seen(saved.cid).done, "limitfill") /\ EndTick
            [] ~fails /\ Verdict(saved.cid) \in Released -> Leave(Flat) /\ UNCHANGED keys
            [] OTHER -> /\ UNCHANGED keys
                        /\ IF PerBar * ElapsedClosedBars(saved.placed, now) < Timeout
                           THEN Leave(Waited)
                           ELSE at' = "cancel" /\ UNCHANGED <<saved, req>>
  /\ UNCHANGED <<now, exchange>>

Cancel ==
  /\ at = "cancel"
  /\ \E fails \in Trips("cancel") :
       /\ Spend(fails)
       /\ orders' = [orders EXCEPT ![saved.cid].status = IF @ = "resting" /\ ~fails THEN "gone" ELSE @]
  /\ at' = "requery"
  /\ UNCHANGED <<saved, keys, now, req, held, bar>>

\* What is left of an order executed in part.
Remaining_Whole(qty, executed) == IF executed < qty THEN qty ELSE 0
Remaining(qty, executed) == IF executed < qty THEN qty - executed ELSE 0

\* What was executed meanwhile is booked, the rest goes on to the market.
Requeried ==
  /\ at = "requery"
  /\ \E fails \in Trips("requery") :
       LET executed == IF fails THEN 0 ELSE Seen(saved.cid).done
           rest     == Remaining(saved.qty, executed)
       IN  /\ Spend(fails)
           /\ IF executed > 0 THEN saved' = Position(executed) /\ keys' = keys \cup {<<now, "limitpartial">>}
              ELSE UNCHANGED <<saved, keys>>
           /\ IF rest > 0
              THEN at' = "quote" /\ req' = [why |-> "fallback", type |-> "market", qty |-> rest]
              ELSE EndTick
  /\ UNCHANGED <<now, exchange>>

\* No quote counts as an infinite one.
Quoted ==
  /\ at = "quote"
  /\ \E fails \in Trips("quote"), quote \in Quotes :
       /\ Spend(fails)
       /\ IF ~fails /\ SlippageWithinCap(Limit, quote, Cap)
          THEN at' = "precheck" /\ UNCHANGED <<saved, keys, req>>
          ELSE Dropped /\ EndTick
  /\ UNCHANGED <<now, exchange>>

\* resolveUnknownEntry: adopt what is held, or release the marker when nothing
\* has been held for Misses ticks.
Missed_OneMore(state) == IF state.misses >= Misses THEN Flat ELSE [state EXCEPT !.misses = @ + 1]
Missed(state) == IF state.misses + 1 >= Misses THEN Flat ELSE [state EXCEPT !.misses = @ + 1]
TickResolvesUnknown ==
  /\ at = "idle" /\ saved.kind = "unknown"
  /\ saved' = IF held > 0 THEN Position(Bounded(held, 1, saved.qty)) ELSE Missed(saved)
  /\ UNCHANGED <<keys, at, now, req, exchange, left>>

\* What was saved survives the process, the tick in progress does not.
Crash ==
  /\ at \in CrashAt /\ left > 0
  /\ left' = left - 1
  /\ EndTick
  /\ UNCHANGED <<saved, keys, now, exchange>>

-----------------------------------------------------------------------------
Tick == \/ TickEnters \/ TickAdds \/ TickLooks \/ TickResolvesUnknown
        \/ Precheck \/ NotPlaced \/ Place \/ Answered \/ Reconciled
        \/ Looked \/ Cancel \/ Requeried \/ Quoted

Next == Tick \/ NewBar \/ Crash \/ \E b \in 0..Bars : Execute(b) \/ Lapse(b)

\* The runner's interval ticks for ever and candles keep closing.  Nothing makes
\* the exchange execute an order.
Spec == Init /\ [][Next]_vars /\ WF_vars(Tick) /\ WF_vars(NewBar)

-----------------------------------------------------------------------------
States == {Flat, Paper} \cup [kind : {"open"}, qty : 1..Wanted]
  \cup [kind : {"limit"}, cid : 0..Bars, qty : 1..Wanted, placed : 0..Bars]
  \cup [kind : {"unknown"}, qty : 1..Wanted, misses : 0..(Misses - 1)]
Stages == {"idle", "precheck", "place", "answer", "reconcile", "look", "cancel", "requery", "quote"}
Requests == [why : {"entry", "add", "fallback"}, type : {"limit", "market"}, qty : 1..Wanted]
Orders == [status : {"none", "resting", "filled", "gone"}, qty : 0..Wanted, done : 0..Wanted, seen : BOOLEAN]

\* The states a run can be in: what is saved never exceeds what was wanted, a
\* marker of unknown outcome waits for fewer than three misses.
TypeOK ==
  /\ saved \in States
  /\ keys \subseteq (0..Bars) \X {"buy", "limitfill", "limitpartial", "limitfallback"}
  /\ at \in Stages /\ now \in 0..Bars /\ bar \in 0..Bars /\ now <= bar
  /\ req \in Requests \cup {NoRequest}
  /\ orders \in [0..Bars -> Orders]
  /\ held \in Nat /\ left \in 0..Trouble

RestingAt(b) == IF orders[b].status = "resting" THEN orders[b].qty - orders[b].done ELSE 0

\* One order works at a time, and what the account holds and it may still buy never
\* exceed the quantity wanted: a timeout that finds the order executed, wholly or
\* in part, before its cancel or after, does not buy that part again
\* (runner.ts:789-794).
Resting(b) == orders[b].status = "resting"
OneEntry ==
  /\ \A b, c \in 0..Bars : Resting(b) /\ Resting(c) => b = c
  /\ \A b \in 0..Bars : held + RestingAt(b) <= Wanted

\* Between ticks, with no marker, the position is what the account holds, and
\* no order of the bot works at the exchange that nothing would ever look at
\* (resolvePendingEntry's purpose, runner.ts:783-784: no ghost order).
Settled == at = "idle" /\ ~IsMarker(saved) =>
  QtyOf(saved) = held /\ \A b \in 0..Bars : ~Resting(b)

\* A position is never larger than what was bought: PaperPosition.pendingEntry
\* calls a resting entry "no position (unfilled)" (runner.ts:291-292).
BookedIsReal == QtyOf(saved) <= held

\* A bot does not wait for an entry for ever: an order that is neither executed
\* nor ended is given up, whatever failed on the way (runner.ts:785-794).
Resolves == IsMarker(saved) ~> ~IsMarker(saved)
=============================================================================

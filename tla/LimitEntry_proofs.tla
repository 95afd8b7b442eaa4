------------------------- MODULE LimitEntry_proofs -------------------------
(***************************************************************************)
(* What holds of a limit entry for every quantity, timeout, price, number  *)
(* of candles and number of faults, provided that the bot does not lose    *)
(* track of its order: no answer to an order that was placed is lost, no   *)
(* cancel and no second look fails, the exchange ends no order executed in *)
(* part, the process does not die between placing and saving or between    *)
(* cancel and second look, the gate grants an entry whole, and an order is *)
(* known to the lookups before its timeout.                                *)
(***************************************************************************)
EXTENDS LimitEntry, TLAPS

KeepsTrack ==
  /\ Kinds \cap {"answer", "cancel", "requery", "lapsepart"} = {}
  /\ CrashAt \subseteq {"look", "cancel", "quote"}
  /\ Grants \subseteq {Wanted}
  /\ Timeout > PerBar

-----------------------------------------------------------------------------
(* The inductive invariant.                                                *)

Quiet(b) == orders[b].status \in {"none", "gone"}
AllQuiet == \A b \in 0..Bars : Quiet(b)
OthersQuiet(b) == \A c \in 0..Bars \ {b} : Quiet(c)

\* An order is executed in part while it rests, whole when it is filled; none
\* has the id of a bar no tick has seen; one not indexed is of the last two bars.
OrdersOK ==
  \A b \in 0..Bars :
    /\ orders[b].status = "none" => orders[b].done = 0
    /\ orders[b].status = "resting" => orders[b].done < orders[b].qty
    /\ orders[b].status = "filled" => orders[b].done = orders[b].qty
    /\ b > now => orders[b].status = "none"
    /\ ~orders[b].seen => b + 1 >= bar

\* No key is taken before the position it stands for is booked; a position that
\* is not whole is the part the limit order executed.
KeysOK ==
  /\ saved.kind \in {"flat", "limit", "unknown"} => keys = {}
  /\ saved.kind = "open" /\ saved.qty < Wanted => \A k \in keys : k[2] = "limitpartial"

\* What a tick in progress works on.
Waiting == {"idle", "look", "cancel", "requery"}
Staged ==
  /\ at \in Waiting => req = NoRequest
  /\ at \in {"look", "cancel", "requery"} => saved.kind = "limit"
  /\ at \notin Waiting => req # NoRequest
  /\ at = "quote" => req.why = "fallback"
  /\ at # "idle" => bar <= now + 1

\* Between ticks, without a limit order: the account is what is saved.
Between ==
  at = "idle" =>
    /\ saved.kind \in {"flat", "paper", "unknown"} => held = 0 /\ AllQuiet
    /\ saved.kind = "open" => held = saved.qty /\ (\A b \in 0..Bars : ~Resting(b))
    /\ saved.kind = "open" /\ saved.qty < Wanted => AllQuiet

\* A marker names the one order that works, and the account is what that has
\* executed.
Marks == saved.qty = Wanted /\ saved.placed = saved.cid /\ orders[saved.cid].qty = Wanted
         /\ \A b \in 0..Bars : b > saved.cid /\ b # now => orders[b].status = "none"
Tracked ==
  saved.kind = "limit" /\ at \in Waiting =>
    /\ Marks /\ saved.cid <= now
    /\ saved.cid < now => orders[now].status = "none"
    /\ orders[saved.cid].status # "none" /\ OthersQuiet(saved.cid)
    /\ held = orders[saved.cid].done
    /\ orders[saved.cid].status = "gone" /\ at # "requery" => orders[saved.cid].done = 0
    /\ at \in {"cancel", "requery"} => saved.cid < now /\ orders[saved.cid].seen
    /\ at = "requery" => ~Resting(saved.cid)

\* Until it is placed, an order asks for what is missing; then it works alone.
Asking == held = QtyOf(saved) /\ AllQuiet
Entering ==
  req.why = "entry" =>
    /\ saved.kind = "flat" /\ req.type = "limit" /\ req.qty = Wanted
    /\ at # "answer" => Asking
    /\ at = "answer" => /\ orders[now].status # "none" /\ orders[now].qty = Wanted /\ OthersQuiet(now)
                        /\ held = orders[now].done
                        /\ orders[now].status = "gone" => orders[now].done = 0

Completed == held = Wanted /\ OthersQuiet(now) /\ orders[now].status = "filled" /\ orders[now].done = req.qty
Adding ==
  req.why = "add" =>
    /\ saved.kind = "open" /\ saved.qty < Wanted /\ req.type = "market" /\ req.qty = Wanted - saved.qty
    /\ at # "answer" => Asking
    /\ at = "answer" => Completed

FallingBack ==
  req.why = "fallback" =>
    /\ saved.kind \in {"limit", "open"} /\ QtyOf(saved) < Wanted
    /\ req.type = "market" /\ req.qty = Wanted - QtyOf(saved)
    /\ saved.kind = "limit" => /\ Marks /\ saved.cid < now
                               /\ orders[saved.cid].status = "gone" /\ orders[saved.cid].done = 0
    /\ at # "answer" => Asking /\ orders[now].status = "none"
    /\ at = "answer" => Completed

EntryInv == TypeOK /\ OrdersOK /\ KeysOK /\ Staged /\ Between /\ Tracked /\ Entering /\ Adding /\ FallingBack

-----------------------------------------------------------------------------
(* What is saved.                                                          *)

LEMMA StatesMade ==
  ASSUME EntryAssumption
  PROVE /\ Flat \in States /\ Paper \in States
        /\ \A q \in 1..Wanted : Position(q) \in States /\ Unknown(q, 0) \in States
        /\ \A q \in 1..Wanted, cid \in 0..Bars : Pending(cid, q) \in States
BY DEF EntryAssumption, States, Flat, Paper, Position, Unknown, Pending, Misses

LEMMA SavedIs ==
  ASSUME saved \in States
  PROVE \/ saved = Flat /\ saved.kind = "flat"
        \/ saved = Paper /\ saved.kind = "paper"
        \/ saved.kind = "open" /\ saved.qty \in 1..Wanted /\ saved = Position(saved.qty)
        \/ saved.kind = "limit" /\ saved.qty \in 1..Wanted /\ saved.cid \in 0..Bars /\ saved.placed \in 0..Bars
        \/ saved.kind = "unknown" /\ saved.qty \in 1..Wanted /\ saved.misses \in 0..(Misses - 1)
BY DEF States, Flat, Paper, Position

LEMMA Starts == ASSUME EntryAssumption, Init PROVE EntryInv
<1>1. TypeOK
  BY StatesMade DEF Init, TypeOK, EntryAssumption, Stages, Orders, NoOrder, Flat
<1> QED
  BY <1>1 DEF EntryAssumption, Init, EntryInv, OrdersOK, KeysOK, Staged, Waiting, Between, Tracked, Entering,
     Adding, FallingBack, AllQuiet, Quiet, NoOrder, NoRequest, Flat

Hyps == EntryAssumption /\ KeepsTrack /\ EntryInv

LEMMA EntersKeeps == ASSUME Hyps, TickEnters PROVE EntryInv'
<1> USE DEF Hyps, exchange
<1>1. PICK qty \in Grants : Ask("entry", "limit", qty)
  BY DEF TickEnters
<1>2. qty = Wanted /\ Wanted \in 1..Wanted /\ bar \in 0..Bars /\ now <= bar
  BY DEF KeepsTrack, EntryAssumption, EntryInv, TypeOK
<1>3. req' = [why |-> "entry", type |-> "limit", qty |-> Wanted] /\ at' = "precheck" /\ now' = bar
  BY <1>1, <1>2 DEF Ask, TickEnters
<1>4. saved' = saved /\ keys' = keys /\ orders' = orders /\ held' = held /\ bar' = bar /\ left' = left
  BY DEF TickEnters
<1>5. saved.kind = "flat" /\ held = 0 /\ AllQuiet /\ at = "idle"
  BY DEF TickEnters, EntryInv, Between
<1>6. TypeOK'
  BY <1>2, <1>3, <1>4 DEF EntryInv, TypeOK, Stages, Requests
<1>7. OrdersOK' /\ KeysOK'
  BY <1>2, <1>3, <1>4, <1>5 DEF EntryInv, OrdersOK, KeysOK, TypeOK
<1>8. Staged' /\ Between' /\ Tracked' /\ Adding' /\ FallingBack'
  BY <1>2, <1>3, <1>4, <1>5 DEF Staged, Between, Tracked, Adding, FallingBack, Waiting, NoRequest
<1>9. Entering'
  BY <1>3, <1>4, <1>5 DEF Entering, Asking, AllQuiet, Quiet, QtyOf
<1> QED
  BY <1>6, <1>7, <1>8, <1>9 DEF EntryInv
LEMMA AddsKeeps == ASSUME Hyps, TickAdds PROVE EntryInv'
<1> USE DEF Hyps, exchange
<1>1. /\ req' = [why |-> "add", type |-> "market", qty |-> Wanted - saved.qty] /\ at' = "precheck" /\ now' = bar
      /\ at = "idle" /\ saved.kind = "open" /\ saved.qty < Wanted
  BY DEF TickAdds, Ask, QtyOf, EntryAssumption
<1>2. Wanted - saved.qty \in 1..Wanted /\ bar \in 0..Bars /\ now <= bar /\ QtyOf(saved) = saved.qty
  BY <1>1, SavedIs DEF EntryAssumption, EntryInv, TypeOK, Flat, Paper, QtyOf
<1>3. saved' = saved /\ keys' = keys /\ orders' = orders /\ held' = held /\ bar' = bar /\ left' = left
  BY DEF TickAdds
<1>4. held = saved.qty /\ AllQuiet
  BY <1>1 DEF EntryInv, Between
<1>5. TypeOK'
  BY <1>1, <1>2, <1>3 DEF EntryInv, TypeOK, Stages, Requests
<1>6. OrdersOK' /\ KeysOK'
  BY <1>1, <1>2, <1>3 DEF EntryInv, OrdersOK, KeysOK, TypeOK
<1>7. Staged' /\ Between' /\ Tracked' /\ Entering' /\ FallingBack'
  BY <1>1, <1>2, <1>3 DEF Staged, Between, Tracked, Entering, FallingBack, Waiting, NoRequest
<1>8. Adding'
  BY <1>1, <1>2, <1>3, <1>4 DEF Adding, Asking, AllQuiet, Quiet, QtyOf
<1> QED
  BY <1>5, <1>6, <1>7, <1>8 DEF EntryInv

LEMMA LooksKeeps == ASSUME Hyps, TickLooks PROVE EntryInv'
<1> USE DEF Hyps, exchange
<1>1. /\ at = "idle" /\ saved.kind = "limit" /\ at' = "look" /\ now' = bar
      /\ saved' = saved /\ keys' = keys /\ req' = req /\ orders' = orders /\ held' = held /\ bar' = bar /\ left' = left
  BY DEF TickLooks
<1>2. saved.cid \in 0..Bars /\ bar \in 0..Bars /\ now \in 0..Bars /\ now <= bar /\ req = NoRequest
  BY <1>1, SavedIs DEF EntryInv, TypeOK, Flat, Paper, Staged, Waiting
<1>3. TypeOK' /\ KeysOK'
  BY <1>1, <1>2 DEF EntryInv, TypeOK, KeysOK, Stages
<1>4. OrdersOK'
  BY <1>1, <1>2 DEF EntryInv, OrdersOK
<1>5. Staged' /\ Between' /\ Entering' /\ Adding' /\ FallingBack'
  BY <1>1, <1>2 DEF Staged, Between, Entering, Adding, FallingBack, Waiting, NoRequest
<1>6. Tracked'
  BY <1>1, <1>2 DEF EntryInv, Tracked, Marks, OrdersOK, OthersQuiet, Quiet, Waiting, Resting
<1> QED
  BY <1>3, <1>4, <1>5, <1>6 DEF EntryInv

\* The account holds nothing, so the marker of unknown outcome is kept or dropped.
LEMMA UnknownKeeps == ASSUME Hyps, TickResolvesUnknown PROVE EntryInv'
<1> USE DEF Hyps, exchange
<1>1. /\ at = "idle" /\ saved.kind = "unknown"
      /\ at' = at /\ now' = now /\ keys' = keys /\ req' = req
      /\ orders' = orders /\ held' = held /\ bar' = bar /\ left' = left
  BY DEF TickResolvesUnknown
<1>2. held = 0 /\ AllQuiet /\ saved.misses \in 0..2 /\ req = NoRequest /\ keys = {}
  BY <1>1, SavedIs DEF EntryInv, TypeOK, Between, Flat, Paper, Misses, Staged, Waiting, KeysOK
<1>3. saved' = Missed(saved)
  BY <1>2 DEF TickResolvesUnknown
<1>4. saved' \in States /\ saved'.kind \in {"flat", "unknown"}
  <2>1. CASE saved.misses + 1 >= Misses
    BY <2>1, <1>3, StatesMade DEF Missed, Flat
  <2>2. CASE saved.misses + 1 < Misses
    <3>1. saved' = [saved EXCEPT !.misses = @ + 1]
      BY <2>2, <1>2, <1>3 DEF Missed, Misses
    <3>2. saved \in [kind : {"unknown"}, qty : 1..Wanted, misses : 0..(Misses - 1)]
      BY <1>1 DEF EntryInv, TypeOK, States, Flat, Paper
    <3>3. saved.misses + 1 \in 0..(Misses - 1)
      BY <2>2, <1>2 DEF Misses
    <3> QED
      BY <3>1, <3>2, <3>3 DEF States
  <2> QED
    BY <2>1, <2>2, <1>2 DEF Misses
<1>5. TypeOK' /\ OrdersOK' /\ KeysOK' /\ Staged'
  BY <1>1, <1>2, <1>4 DEF EntryInv, TypeOK, OrdersOK, KeysOK, Staged, Waiting
<1>6. Between' /\ Tracked' /\ Entering' /\ Adding' /\ FallingBack'
  BY <1>1, <1>2, <1>4 DEF Between, AllQuiet, Quiet, Tracked, Entering, Adding, FallingBack, NoRequest
<1> QED
  BY <1>5, <1>6 DEF EntryInv
-----------------------------------------------------------------------------
(* The order that is asked for.                                            *)

\* While an order is asked for and not placed, nothing works at the exchange.
LEMMA AsksAlone ==
  ASSUME Hyps, at \in {"quote", "precheck", "place", "reconcile"}
  PROVE /\ req \in Requests /\ req.why \in {"entry", "add", "fallback"}
        /\ held = QtyOf(saved) /\ AllQuiet
        /\ Verdict(now) \in {"not_placed", "rejected"}
<1>1. req \in Requests /\ req.why \in {"entry", "add", "fallback"}
  BY DEF Hyps, EntryInv, TypeOK, Staged, Waiting, Requests
<1>2. held = QtyOf(saved) /\ AllQuiet
  BY <1>1 DEF Hyps, EntryInv, Entering, Adding, FallingBack, Asking
<1>3. Seen(now).status \in {"none", "gone"}
  BY <1>2 DEF Hyps, EntryInv, TypeOK, AllQuiet, Quiet, Seen, NoOrder
<1> QED
  BY <1>1, <1>2, <1>3 DEF Verdict

\* The tick ends without an order: the account is what is saved.
LEMMA EndsQuietly ==
  ASSUME Hyps, AllQuiet, EndTick, UNCHANGED <<now, orders, held, bar>>, left' \in 0..Trouble,
         saved' \in States, saved'.kind # "limit", held = QtyOf(saved'),
         keys' \subseteq (0..Bars) \X {"buy", "limitfill", "limitpartial", "limitfallback"},
         KeysOK'
  PROVE EntryInv'
<1> USE DEF Hyps
<1>1. at' = "idle" /\ req' = NoRequest
  BY DEF EndTick
<1>2. TypeOK'
  BY <1>1 DEF EntryInv, TypeOK, Stages
<1>3. OrdersOK' /\ Staged' /\ Tracked' /\ Entering' /\ Adding' /\ FallingBack'
  BY <1>1 DEF EntryInv, OrdersOK, Staged, Waiting, Tracked, Entering, Adding, FallingBack, NoRequest
<1>4. Between'
  BY <1>1 DEF Between, AllQuiet, Quiet, QtyOf, Resting
<1> QED
  BY <1>2, <1>3, <1>4 DEF EntryInv

LEMMA DroppedQuietly ==
  ASSUME Hyps, at \in {"quote", "place", "reconcile"}, req.why = "fallback",
         Dropped, EndTick, UNCHANGED <<now, orders, held, bar>>, left' \in 0..Trouble
  PROVE EntryInv'
<1>1. held = QtyOf(saved) /\ AllQuiet
  BY AsksAlone
<1>2. saved \in States /\ keys' = keys /\ saved.kind \in {"limit", "open"}
  BY DEF Hyps, EntryInv, TypeOK, Dropped, FallingBack
<1>3. CASE saved.kind = "open"
  <2>1. saved' = saved
    BY <1>3 DEF Dropped
  <2>2. KeysOK'
    BY <1>2, <2>1 DEF Hyps, EntryInv, KeysOK
  <2> QED
    BY <1>1, <1>2, <1>3, <2>1, <2>2, EndsQuietly DEF Hyps, EntryInv, TypeOK
<1>4. CASE saved.kind = "limit"
  <2>1. saved' = Flat /\ Flat \in States /\ held = QtyOf(Flat) /\ Flat.kind = "flat"
    BY <1>1, <1>4, StatesMade DEF Dropped, Hyps, QtyOf, Flat
  <2>2. KeysOK'
    BY <1>2, <1>4, <2>1 DEF Hyps, EntryInv, KeysOK
  <2> QED
    BY <1>1, <1>2, <2>1, <2>2, EndsQuietly DEF Hyps, EntryInv, TypeOK
<1> QED
  BY <1>2, <1>3, <1>4

LEMMA BlockedQuietly ==
  ASSUME Hyps, at \in {"place", "reconcile"},
         Blocked, UNCHANGED <<now, orders, held, bar>>, left' \in 0..Trouble
  PROVE EntryInv'
<1>1. held = QtyOf(saved) /\ AllQuiet /\ req.why \in {"entry", "add", "fallback"} /\ EndTick
  BY AsksAlone DEF Blocked
<1>2. CASE req.why = "entry"
  <2>1. saved.kind = "flat" /\ keys = {}
    BY <1>2 DEF Hyps, EntryInv, Entering, KeysOK
  <2>2. saved' = Paper /\ keys' = keys \cup {<<now, "buy">>} /\ Paper \in States
    BY <1>2, StatesMade DEF Blocked, Hyps
  <2>3. held = QtyOf(Paper) /\ Paper.kind = "paper" /\ now \in 0..Bars
    BY <1>1, <2>1 DEF QtyOf, Paper, Hyps, EntryInv, TypeOK
  <2>4. KeysOK'
    BY <2>2, <2>3 DEF KeysOK
  <2> QED
    BY <1>1, <2>1, <2>2, <2>3, <2>4, EndsQuietly
<1>3. CASE req.why = "add"
  <2>1. saved' = saved /\ keys' = keys
    BY <1>3 DEF Blocked
  <2>2. saved.kind = "open" /\ saved \in States /\ KeysOK'
    BY <1>3, <2>1 DEF Hyps, EntryInv, TypeOK, Adding, KeysOK
  <2> QED
    BY <1>1, <2>1, <2>2, EndsQuietly DEF Hyps, EntryInv, TypeOK
<1>4. CASE req.why = "fallback"
  BY <1>1, <1>4, DroppedQuietly DEF Blocked
<1> QED
  BY <1>1, <1>2, <1>3, <1>4

\* Only an order that was never placed is looked up in vain: nothing was bought.
LEMMA UnknownQuietly ==
  ASSUME Hyps, at = "reconcile",
         OutcomeUnknown, UNCHANGED <<now, orders, held, bar>>, left' \in 0..Trouble
  PROVE EntryInv'
<1>1. /\ held = QtyOf(saved) /\ AllQuiet /\ req.why \in {"entry", "add", "fallback"} /\ EndTick
      /\ req.qty \in 1..Wanted
  BY AsksAlone DEF OutcomeUnknown, Requests
<1>2. CASE req.why = "entry"
  <2>1. saved.kind = "flat" /\ keys = {}
    BY <1>2 DEF Hyps, EntryInv, Entering, KeysOK
  <2>2. saved' = Unknown(req.qty, 0) /\ keys' = keys /\ Unknown(req.qty, 0) \in States
    BY <1>1, <1>2, StatesMade DEF OutcomeUnknown, Hyps
  <2>3. held = QtyOf(saved') /\ saved'.kind = "unknown"
    BY <1>1, <2>1, <2>2 DEF QtyOf, Unknown
  <2>4. KeysOK'
    BY <2>1, <2>2, <2>3 DEF KeysOK
  <2> QED
    BY <1>1, <2>1, <2>2, <2>3, <2>4, EndsQuietly
<1>3. CASE req.why = "add"
  <2>1. saved' = saved /\ keys' = keys
    BY <1>3 DEF OutcomeUnknown
  <2>2. saved.kind = "open" /\ saved \in States /\ KeysOK'
    BY <1>3, <2>1 DEF Hyps, EntryInv, TypeOK, Adding, KeysOK
  <2> QED
    BY <1>1, <2>1, <2>2, EndsQuietly DEF Hyps, EntryInv, TypeOK
<1>4. CASE req.why = "fallback"
  BY <1>1, <1>4, DroppedQuietly DEF OutcomeUnknown
<1> QED
  BY <1>1, <1>2, <1>3, <1>4

\* A position that is whole is booked: the account holds it, nothing rests.
LEMMA BookedWhole ==
  ASSUME Hyps, NEW sfx \in {"buy", "limitfill", "limitfallback"}, <<now, sfx>> \notin keys,
         BookFill(Wanted, sfx), EndTick, held = Wanted, \A b \in 0..Bars : ~Resting(b),
         UNCHANGED <<now, orders, held, bar>>, left' \in 0..Trouble
  PROVE EntryInv'
<1> USE DEF Hyps
<1>1. at' = "idle" /\ req' = NoRequest /\ saved' = Position(Wanted) /\ keys' = keys \cup {<<now, sfx>>}
  BY DEF EndTick, BookFill
<1>2. saved'.kind = "open" /\ saved'.qty = Wanted /\ saved' \in States
  BY <1>1, StatesMade DEF Position, EntryAssumption
<1>3. TypeOK'
  BY <1>1, <1>2 DEF EntryInv, TypeOK, Stages
<1>4. OrdersOK' /\ Staged' /\ Tracked' /\ Entering' /\ Adding' /\ FallingBack'
  BY <1>1, <1>2 DEF EntryInv, OrdersOK, Staged, Waiting, Tracked, Entering, Adding, FallingBack, NoRequest
<1>5. KeysOK' /\ Between'
  BY <1>1, <1>2 DEF KeysOK, Between, Resting, EntryAssumption
<1> QED
  BY <1>3, <1>4, <1>5 DEF EntryInv
\* What may go wrong is used up, and what is not among Kinds does not.
LEMMA LeftAfter ==
  ASSUME Hyps, NEW kind, NEW t \in Trips(kind), Spend(t)
  PROVE left' \in 0..Trouble /\ (kind \notin Kinds => t = FALSE)
<1>1. t = FALSE \/ (t = TRUE /\ kind \in Kinds /\ left > 0)
  BY Zenon DEF Trips
<1>2. left \in 0..Trouble /\ Trouble \in Nat
  BY DEF Hyps, EntryInv, TypeOK, EntryAssumption
<1>3. CASE t = FALSE
  BY <1>2, <1>3 DEF Spend
<1>4. CASE t = TRUE /\ kind \in Kinds /\ left > 0
  <2>1. left' = left - 1
    BY <1>4, Zenon DEF Spend
  <2> QED
    BY <1>2, <1>4, <2>1
<1> QED
  BY <1>1, <1>3, <1>4

LEMMA PrecheckKeeps == ASSUME Hyps, Precheck PROVE EntryInv'
<1> USE DEF Hyps
<1>1. at = "precheck" /\ UNCHANGED <<now, orders, held, bar>>
  BY DEF Precheck, exchange
<1>2. /\ req \in Requests /\ req.why \in {"entry", "add", "fallback"} /\ held = QtyOf(saved) /\ AllQuiet
      /\ Verdict(now) \in {"not_placed", "rejected"}
  BY <1>1, AsksAlone
<1>3. /\ at' = "place" /\ UNCHANGED <<saved, keys, req>> /\ left' \in 0..Trouble
  <2>1. PICK fails \in Trips("precheck") :
          /\ Spend(fails)
          /\ IF ~fails /\ Verdict(now) \in {"filled", "open"}
             THEN Adopted(now)
             ELSE at' = "place" /\ UNCHANGED <<saved, keys, req>>
    BY DEF Precheck
  <2>2. left' \in 0..Trouble
    BY <2>1, LeftAfter
  <2> QED
    BY <1>2, <2>1, <2>2
<1>4. TypeOK' /\ OrdersOK' /\ KeysOK' /\ Staged'
  BY <1>1, <1>2, <1>3 DEF EntryInv, TypeOK, OrdersOK, KeysOK, Staged, Waiting, Stages
<1>5. Between' /\ Tracked'
  BY <1>1, <1>2, <1>3 DEF Between, Tracked, Waiting
<1>6. Entering' /\ Adding' /\ FallingBack'
  BY <1>1, <1>2, <1>3 DEF EntryInv, Entering, Adding, FallingBack, Asking, AllQuiet, Quiet, QtyOf, Marks
<1> QED
  BY <1>4, <1>5, <1>6 DEF EntryInv

LEMMA NotPlacedKeeps == ASSUME Hyps, NotPlaced PROVE EntryInv'
<1> USE DEF Hyps
<1>1. at = "place" /\ UNCHANGED <<now, orders, held, bar>>
  BY DEF NotPlaced, exchange
<1>2. req.why \in {"entry", "add", "fallback"} /\ held = QtyOf(saved) /\ AllQuiet
  BY <1>1, AsksAlone
<1>3. left' \in 0..Trouble
  BY LeftAfter DEF NotPlaced
<1>4. CASE at' = "reconcile" /\ UNCHANGED <<saved, keys, req>>
  <2>1. TypeOK' /\ OrdersOK' /\ KeysOK' /\ Staged'
    BY <1>1, <1>3, <1>4 DEF EntryInv, TypeOK, OrdersOK, KeysOK, Staged, Waiting, Stages
  <2>2. Between' /\ Tracked'
    BY <1>4 DEF Between, Tracked, Waiting
  <2>3. Entering' /\ Adding' /\ FallingBack'
    BY <1>1, <1>2, <1>4 DEF EntryInv, Entering, Adding, FallingBack, Asking, AllQuiet, Quiet, QtyOf, Marks
  <2> QED
    BY <2>1, <2>2, <2>3 DEF EntryInv
<1>5. CASE Blocked
  BY <1>1, <1>3, <1>5, BlockedQuietly
<1> QED
  BY <1>4, <1>5 DEF NotPlaced

LEMMA PlaceKeeps == ASSUME Hyps, Place PROVE EntryInv'
<1> USE DEF Hyps
<1>1. at = "place" /\ at' = "answer" /\ UNCHANGED <<saved, keys, now, req, bar>>
  BY DEF Place
<1>2. req \in Requests /\ req.why \in {"entry", "add", "fallback"} /\ held = QtyOf(saved) /\ AllQuiet
  BY <1>1, AsksAlone
<1>3. PICK lags \in Trips("lag"), done \in IF req.type = "market" THEN {req.qty} ELSE {0, req.qty} :
        Spend(lags) /\ Accept(done, ~lags)
  BY DEF Place
<1>4. /\ req.qty \in 1..Wanted /\ done \in {0, req.qty} /\ (req.type = "market" => done = req.qty)
      /\ lags \in BOOLEAN /\ left' \in 0..Trouble
      /\ now \in 0..Bars /\ bar \in 0..Bars /\ orders \in [0..Bars -> Orders] /\ held \in Nat
  BY <1>2, <1>3, LeftAfter DEF Requests, Trips, EntryInv, TypeOK
<1> DEFINE new == [status |-> IF done = req.qty THEN "filled" ELSE "resting",
                   qty |-> req.qty, done |-> done, seen |-> ~lags]
<1>5. orders' = [orders EXCEPT ![now] = new] /\ held' = held + done
  BY <1>3 DEF Accept
<1>6. /\ new \in Orders /\ new.qty = req.qty /\ new.done = done /\ (done = req.qty => new.status = "filled")
      /\ (done # req.qty => new.status = "resting")
  BY <1>4 DEF Orders, EntryAssumption
<1> HIDE DEF new
<1>7. orders'[now] = new /\ \A b \in 0..Bars \ {now} : orders'[b] = orders[b]
  BY <1>4, <1>5
<1>8. TypeOK'
  BY <1>1, <1>4, <1>5, <1>6 DEF EntryInv, TypeOK, Stages
<1>9. OrdersOK'
  <2> SUFFICES ASSUME NEW b \in 0..Bars
               PROVE /\ orders'[b].status = "none" => orders'[b].done = 0
                     /\ orders'[b].status = "resting" => orders'[b].done < orders'[b].qty
                     /\ orders'[b].status = "filled" => orders'[b].done = orders'[b].qty
                     /\ b > now => orders'[b].status = "none"
                     /\ ~orders'[b].seen => b + 1 >= bar
    BY <1>1 DEF OrdersOK
  <2>1. CASE b = now
    BY <2>1, <1>1, <1>4, <1>6, <1>7 DEF EntryInv, Staged
  <2>2. CASE b # now
    BY <2>2, <1>7 DEF EntryInv, OrdersOK
  <2> QED
    BY <2>1, <2>2
<1>10. KeysOK' /\ Staged' /\ Between' /\ Tracked'
  BY <1>1 DEF EntryInv, KeysOK, Staged, Between, Tracked, Waiting
<1>11. \A b \in 0..Bars \ {now} : Quiet(b)'
  BY <1>2, <1>7 DEF AllQuiet, Quiet
<1>12. Entering'
  BY <1>1, <1>2, <1>4, <1>5, <1>6, <1>7, <1>11 DEF EntryInv, Entering, OthersQuiet, QtyOf
<1>13. Adding'
  BY SMTT(20), <1>1, <1>2, <1>4, <1>5, <1>6, <1>7, <1>11 DEF EntryInv, Adding, OthersQuiet, Completed, QtyOf, EntryAssumption
<1>14. FallingBack'
  <2>1. req.why = "fallback" => held' = Wanted
    BY <1>2, <1>4, <1>5 DEF EntryInv, FallingBack, EntryAssumption
  <2>2. ASSUME req.why = "fallback", saved.kind = "limit"
        PROVE Marks' /\ orders'[saved.cid] = orders[saved.cid]
    <3>1. saved.cid \in 0..Bars /\ saved.cid # now /\ Marks
      BY <2>2, SavedIs, <1>4 DEF EntryInv, TypeOK, FallingBack, Flat, Paper
    <3> QED
      BY <3>1, <1>1, <1>7 DEF Marks
  <2> QED
    BY <1>1, <1>2, <1>4, <1>6, <1>7, <1>11, <2>1, <2>2 DEF EntryInv, FallingBack, OthersQuiet, Completed, QtyOf
<1> QED
  BY <1>8, <1>9, <1>10, <1>12, <1>13, <1>14 DEF EntryInv
\* The order placed is alone at the exchange; executed, it completes the position.
LEMMA AnsweredKeeps == ASSUME Hyps, Answered PROVE EntryInv'
<1> USE DEF Hyps
<1>1. at = "answer" /\ UNCHANGED <<now, orders, held, bar>>
  BY DEF Answered, exchange
<1>2. PICK lost \in Trips("answer") :
        /\ Spend(lost)
        /\ CASE lost -> at' = "reconcile" /\ UNCHANGED <<saved, keys, req>>
             [] ~lost /\ orders[now].status = "filled" -> Filled(orders[now].done)
             [] OTHER -> Leave(Pending(now, req.qty)) /\ UNCHANGED keys
  BY DEF Answered
<1>3. lost = FALSE /\ left' \in 0..Trouble
  BY <1>2, LeftAfter DEF KeepsTrack
<1>4. /\ now \in 0..Bars /\ orders[now] \in Orders /\ saved \in States /\ Wanted \in Nat \ {0}
      /\ keys \subseteq (0..Bars) \X {"buy", "limitfill", "limitpartial", "limitfallback"}
      /\ req \in Requests /\ req.why \in {"entry", "add", "fallback"}
  BY <1>1 DEF EntryInv, TypeOK, EntryAssumption, Staged, Waiting, Requests
<1>5. CASE orders[now].status = "filled"
  <2>1. Filled(orders[now].done)
    BY <1>2, <1>3, <1>5
  <2>2. /\ held = Wanted /\ orders[now].done = req.qty /\ OthersQuiet(now)
        /\ req.qty = Wanted - QtyOf(saved) /\ saved.kind \in {"flat", "open", "limit"}
        /\ saved.kind = "open" => saved.qty < Wanted
        /\ saved.kind = "flat" \/ req.why # "entry"
    BY <1>1, <1>4, <1>5 DEF EntryInv, Entering, Adding, FallingBack, Completed, OrdersOK, QtyOf, Orders
  <2>3. \A b \in 0..Bars : ~Resting(b)
    BY <1>5, <2>2 DEF OthersQuiet, Quiet, Resting
  <2>4. <<now, "buy">> \notin keys /\ <<now, "limitfallback">> \notin keys
    BY <2>2 DEF EntryInv, KeysOK
  <2>5. QtyOf(saved) \in 0..Wanted
    BY <1>4, SavedIs DEF QtyOf, Flat, Paper
  <2>6. QtyOf(saved) + orders[now].done = Wanted /\ Reached(orders[now].done) = Wanted
    BY <2>2, <2>5, <1>4 DEF Reached
  <2>7. EndTick /\ (BookFill(Wanted, "buy") \/ BookFill(Wanted, "limitfallback"))
    BY <2>1, <2>6 DEF Filled
  <2> QED
    BY <1>1, <1>3, <2>2, <2>3, <2>4, <2>7, BookedWhole
<1>6. CASE orders[now].status # "filled"
  <2>1. Leave(Pending(now, req.qty)) /\ keys' = keys
    BY <1>2, <1>3, <1>6
  <2>2. req.why = "entry" /\ saved.kind = "flat" /\ req.qty = Wanted
    BY <1>1, <1>4, <1>6 DEF EntryInv, Entering, Adding, FallingBack, Completed
  <2>3. saved' = Pending(now, Wanted) /\ at' = "idle" /\ req' = NoRequest
    BY <2>1, <2>2 DEF Leave, EndTick
  <2>4. /\ saved'.kind = "limit" /\ saved'.qty = Wanted /\ saved'.cid = now /\ saved'.placed = now
        /\ saved' \in States
    BY <2>3, <1>4, StatesMade DEF Pending
  <2>5. TypeOK' /\ OrdersOK' /\ KeysOK' /\ Staged'
    BY <1>1, <1>3, <2>1, <2>2, <2>3, <2>4 DEF EntryInv, TypeOK, OrdersOK, KeysOK, Staged, Waiting, Stages
  <2>6. Between' /\ Entering' /\ Adding' /\ FallingBack'
    BY <2>3, <2>4 DEF Between, Entering, Adding, FallingBack, NoRequest
  <2>7. Tracked'
    <3>1. /\ orders[now].status # "none" /\ orders[now].qty = Wanted /\ OthersQuiet(now) /\ held = orders[now].done
          /\ orders[now].status = "gone" => orders[now].done = 0
      BY <1>1, <2>2 DEF EntryInv, Entering
    <3>2. \A b \in 0..Bars : b > now => orders[b].status = "none"
      BY DEF EntryInv, OrdersOK
    <3> QED
      BY <1>1, <1>4, <2>3, <2>4, <3>1, <3>2 DEF Tracked, Marks, OthersQuiet, Quiet, Resting, Waiting
  <2> QED
    BY <2>5, <2>6, <2>7 DEF EntryInv
<1> QED
  BY <1>5, <1>6

LEMMA ReconciledKeeps == ASSUME Hyps, Reconciled PROVE EntryInv'
<1>1. at = "reconcile" /\ UNCHANGED <<now, orders, held, bar>>
  BY DEF Reconciled, exchange
<1>2. PICK fails \in Trips("reconcile") :
        /\ Spend(fails)
        /\ CASE fails -> OutcomeUnknown
             [] ~fails /\ Verdict(now) \in {"filled", "open"} -> Adopted(now)
             [] OTHER -> Blocked
  BY DEF Reconciled
<1>3. Verdict(now) \in {"not_placed", "rejected"} /\ left' \in 0..Trouble
  BY <1>1, <1>2, AsksAlone, LeftAfter
<1>4. OutcomeUnknown \/ Blocked
  BY <1>2, <1>3
<1> QED
  BY <1>1, <1>3, <1>4, UnknownQuietly, BlockedQuietly

LEMMA QuotedKeeps == ASSUME Hyps, Quoted PROVE EntryInv'
<1> USE DEF Hyps
<1>1. at = "quote" /\ UNCHANGED <<now, orders, held, bar>>
  BY DEF Quoted, exchange
<1>2. PICK fails \in Trips("quote"), quote \in Quotes :
        /\ Spend(fails)
        /\ IF ~fails /\ SlippageWithinCap(Limit, quote, Cap)
           THEN at' = "precheck" /\ UNCHANGED <<saved, keys, req>>
           ELSE Dropped /\ EndTick
  BY DEF Quoted
<1>3. left' \in 0..Trouble /\ req.why = "fallback"
  BY <1>1, <1>2, LeftAfter DEF EntryInv, Staged
<1>4. CASE at' = "precheck" /\ UNCHANGED <<saved, keys, req>>
  <2>1. TypeOK' /\ OrdersOK' /\ KeysOK' /\ Staged'
    BY <1>1, <1>3, <1>4 DEF EntryInv, TypeOK, OrdersOK, KeysOK, Staged, Waiting, Stages
  <2>2. Between' /\ Tracked' /\ Entering' /\ Adding'
    BY <1>3, <1>4 DEF Between, Tracked, Waiting, Entering, Adding
  <2>3. FallingBack'
    BY <1>1, <1>3, <1>4 DEF EntryInv, FallingBack, Asking, AllQuiet, Quiet, QtyOf, Marks
  <2> QED
    BY <2>1, <2>2, <2>3 DEF EntryInv
<1>5. CASE Dropped /\ EndTick
  BY <1>1, <1>3, <1>5, DroppedQuietly
<1> QED
  BY <1>2, <1>4, <1>5

-----------------------------------------------------------------------------
(* The order that waits.                                                   *)

LEMMA CancelKeeps == ASSUME Hyps, Cancel PROVE EntryInv'
<1> USE DEF Hyps
<1>1. at = "cancel" /\ at' = "requery" /\ UNCHANGED <<saved, keys, now, req, held, bar>>
  BY DEF Cancel
<1>2. PICK fails \in Trips("cancel") :
        /\ Spend(fails)
        /\ orders' = [orders EXCEPT ![saved.cid].status = IF @ = "resting" /\ ~fails THEN "gone" ELSE @]
  BY DEF Cancel
<1>3. fails = FALSE /\ left' \in 0..Trouble
  BY <1>2, LeftAfter DEF KeepsTrack
<1>4. saved.kind = "limit" /\ saved.cid \in 0..Bars /\ orders \in [0..Bars -> Orders] /\ req = NoRequest
  BY <1>1, SavedIs DEF EntryInv, TypeOK, Staged, Waiting, Flat, Paper
<1> DEFINE st == IF orders[saved.cid].status = "resting" THEN "gone" ELSE orders[saved.cid].status
<1>5. orders' = [orders EXCEPT ![saved.cid].status = st]
  BY <1>2, <1>3
<1>6. st \in {"none", "filled", "gone"} /\ (st = "none" => orders[saved.cid].status = "none")
      /\ (st = "filled" => orders[saved.cid].status = "filled")
  BY <1>4 DEF Orders
<1> HIDE DEF st
<1>7. /\ orders'[saved.cid].status = st /\ orders'[saved.cid].qty = orders[saved.cid].qty
      /\ orders'[saved.cid].done = orders[saved.cid].done /\ orders'[saved.cid].seen = orders[saved.cid].seen
      /\ \A b \in 0..Bars \ {saved.cid} : orders'[b] = orders[b]
      /\ orders' \in [0..Bars -> Orders]
  BY <1>4, <1>5, <1>6 DEF Orders
<1>8. TypeOK' /\ KeysOK' /\ Staged'
  BY <1>1, <1>3, <1>4, <1>7 DEF EntryInv, TypeOK, KeysOK, Staged, Waiting, Stages
<1>9. /\ Marks /\ saved.cid < now /\ orders[saved.cid].seen /\ orders[now].status = "none"
      /\ orders[saved.cid].status # "none" /\ OthersQuiet(saved.cid) /\ held = orders[saved.cid].done
      /\ now \in 0..Bars
  BY <1>1, <1>4 DEF EntryInv, TypeOK, Tracked, Waiting
<1>10. OrdersOK'
  <2> SUFFICES ASSUME NEW b \in 0..Bars
               PROVE /\ orders'[b].status = "none" => orders'[b].done = 0
                     /\ orders'[b].status = "resting" => orders'[b].done < orders'[b].qty
                     /\ orders'[b].status = "filled" => orders'[b].done = orders'[b].qty
                     /\ b > now => orders'[b].status = "none"
                     /\ ~orders'[b].seen => b + 1 >= bar
    BY <1>1 DEF OrdersOK
  <2>1. CASE b = saved.cid
    BY <2>1, <1>4, <1>6, <1>7, <1>9 DEF EntryInv, OrdersOK
  <2>2. CASE b # saved.cid
    BY <2>2, <1>7 DEF EntryInv, OrdersOK
  <2> QED
    BY <2>1, <2>2
<1>11. Between' /\ Entering' /\ Adding' /\ FallingBack'
  BY <1>1, <1>4 DEF Between, Entering, Adding, FallingBack, NoRequest
<1>12. Tracked'
  BY <1>1, <1>4, <1>6, <1>7, <1>9 DEF Tracked, Marks, OthersQuiet, Quiet, Resting, Waiting
<1> QED
  BY <1>8, <1>10, <1>11, <1>12 DEF EntryInv
\* An order is given up two candles after it was placed, or later.
LEMMA GivenUpLater ==
  ASSUME EntryAssumption, Timeout > PerBar, NEW a \in Nat, NEW b \in Nat,
         ~(PerBar * ElapsedClosedBars(a, b) < Timeout)
  PROVE a + 1 < b
<1>1. PerBar \in Nat \ {0} /\ Timeout \in Nat /\ PerBar * 0 = 0 /\ PerBar * 1 = PerBar
  BY DEF EntryAssumption
<1>2. CASE b <= a
  BY <1>1, <1>2 DEF ElapsedClosedBars
<1>3. CASE b = a + 1
  <2>1. ElapsedClosedBars(a, b) = 1
    BY <1>3 DEF ElapsedClosedBars
  <2> QED
    BY <1>1, <2>1
<1> QED
  BY <1>2, <1>3

LEMMA LookedKeeps == ASSUME Hyps, Looked PROVE EntryInv'
<1> USE DEF Hyps
<1>1. at = "look" /\ UNCHANGED <<now, orders, held, bar>>
  BY DEF Looked, exchange
<1>2. PICK fails \in Trips("look") :
        /\ Spend(fails)
        /\ CASE fails -> Leave(saved) /\ UNCHANGED keys
             [] ~fails /\ Verdict(saved.cid) = "filled" -> BookFill(Seen(saved.cid).done, "limitfill") /\ EndTick
             [] ~fails /\ Verdict(saved.cid) \in Released -> Leave(Flat) /\ UNCHANGED keys
             [] OTHER -> /\ UNCHANGED keys
                         /\ IF PerBar * ElapsedClosedBars(saved.placed, now) < Timeout
                            THEN Leave(Waited)
                            ELSE at' = "cancel" /\ UNCHANGED <<saved, req>>
  BY DEF Looked
<1>3. left' \in 0..Trouble /\ fails \in BOOLEAN
  BY <1>2, LeftAfter DEF Trips
<1>4. /\ saved.kind = "limit" /\ saved.cid \in 0..Bars /\ orders \in [0..Bars -> Orders] /\ req = NoRequest
      /\ saved \in States /\ now \in 0..Bars /\ bar \in 0..Bars /\ now <= bar /\ keys = {}
      /\ Wanted \in Nat \ {0}
  BY <1>1, SavedIs DEF EntryInv, TypeOK, Staged, Waiting, Flat, Paper, KeysOK, EntryAssumption
<1>5. /\ Marks /\ saved.cid <= now /\ (saved.cid < now => orders[now].status = "none")
      /\ orders[saved.cid].status # "none" /\ OthersQuiet(saved.cid) /\ held = orders[saved.cid].done
      /\ orders[saved.cid].status = "gone" => orders[saved.cid].done = 0
  BY <1>1, <1>4 DEF EntryInv, Tracked, Waiting
<1>6. \/ Leave(saved) /\ keys' = keys
      \/ Verdict(saved.cid) = "filled" /\ BookFill(Seen(saved.cid).done, "limitfill") /\ EndTick
      \/ Verdict(saved.cid) \in Released /\ Leave(Flat) /\ keys' = keys
      \/ /\ ~(PerBar * ElapsedClosedBars(saved.placed, now) < Timeout)
         /\ at' = "cancel" /\ UNCHANGED <<saved, req, keys>>
  BY <1>2, <1>3 DEF Waited
<1>7. CASE Leave(saved) /\ keys' = keys
  <2>1. saved' = saved /\ at' = "idle" /\ req' = req
    BY <1>4, <1>7 DEF Leave, EndTick
  <2>2. TypeOK' /\ OrdersOK' /\ KeysOK' /\ Staged'
    BY <1>1, <1>3, <1>4, <1>7, <2>1 DEF EntryInv, TypeOK, OrdersOK, KeysOK, Staged, Waiting, Stages
  <2>3. Between' /\ Entering' /\ Adding' /\ FallingBack'
    BY <1>4, <2>1 DEF Between, Entering, Adding, FallingBack, NoRequest
  <2>4. Tracked'
    BY <1>1, <1>5, <2>1 DEF Tracked, Marks, OthersQuiet, Quiet, Waiting
  <2> QED
    BY <2>2, <2>3, <2>4 DEF EntryInv
<1>8. CASE Verdict(saved.cid) = "filled" /\ BookFill(Seen(saved.cid).done, "limitfill") /\ EndTick
  <2>1. orders[saved.cid].status = "filled" /\ Seen(saved.cid) = orders[saved.cid]
    <3>1. CASE Seen(saved.cid) = NoOrder
      <4>1. Verdict(saved.cid) = "not_placed"
        BY <3>1 DEF Verdict, NoOrder
      <4> QED
        BY <4>1, <1>8
    <3>2. CASE Seen(saved.cid) = orders[saved.cid]
      <4>1. orders[saved.cid].status \in {"none", "resting", "filled", "gone"}
        BY <1>4 DEF Orders
      <4> QED
        BY <3>2, <4>1, <1>8 DEF Verdict
    <3> QED
      BY <3>1, <3>2 DEF Seen
  <2>2. Seen(saved.cid).done = Wanted /\ held = Wanted
    BY <1>4, <1>5, <2>1 DEF EntryInv, OrdersOK, Marks
  <2>3. \A b \in 0..Bars : ~Resting(b)
    BY <1>5, <2>1 DEF OthersQuiet, Quiet, Resting
  <2> QED
    BY <1>1, <1>3, <1>4, <1>8, <2>2, <2>3, BookedWhole
<1>9. CASE Verdict(saved.cid) \in Released /\ Leave(Flat) /\ keys' = keys
  <2>1. Seen(saved.cid).status \in {"none", "resting", "filled", "gone"}
    BY <1>4 DEF Seen, NoOrder, Orders
  <2>2. Seen(saved.cid).status = "gone"
    BY <1>9, <2>1 DEF Verdict, Released
  <2>3. orders[saved.cid].status = "gone"
    BY <2>2 DEF Seen, NoOrder
  <2>4. AllQuiet /\ held = 0
    BY <1>5, <2>3 DEF OthersQuiet, AllQuiet, Quiet
  <2>5. saved' = Flat /\ EndTick /\ Flat \in States /\ Flat.kind = "flat" /\ held = QtyOf(Flat)
    BY <1>9, <2>4, StatesMade DEF Leave, Flat, QtyOf
  <2>6. KeysOK'
    BY <1>4, <1>9, <2>5 DEF KeysOK
  <2> QED
    BY <1>1, <1>3, <1>4, <1>9, <2>4, <2>5, <2>6, EndsQuietly
<1>10. CASE /\ ~(PerBar * ElapsedClosedBars(saved.placed, now) < Timeout)
            /\ at' = "cancel" /\ UNCHANGED <<saved, req, keys>>
  <2>1. saved.cid + 1 < now
    BY <1>4, <1>5, <1>10, GivenUpLater DEF Marks, KeepsTrack
  <2>2. orders[saved.cid].seen
    BY <1>4, <2>1 DEF EntryInv, OrdersOK, Orders
  <2>3. TypeOK' /\ OrdersOK' /\ KeysOK' /\ Staged'
    BY <1>1, <1>3, <1>4, <1>10 DEF EntryInv, TypeOK, OrdersOK, KeysOK, Staged, Waiting, Stages
  <2>4. Between' /\ Entering' /\ Adding' /\ FallingBack'
    BY <1>4, <1>10 DEF Between, Entering, Adding, FallingBack, NoRequest
  <2>5. Tracked'
    BY <1>1, <1>4, <1>5, <1>10, <2>1, <2>2 DEF Tracked, Marks, OthersQuiet, Quiet, Waiting
  <2> QED
    BY <2>3, <2>4, <2>5 DEF EntryInv
<1> QED
  BY <1>6, <1>7, <1>8, <1>9, <1>10

\* What the order has executed is booked; the market order asks for the rest.
LEMMA RequeriedKeeps == ASSUME Hyps, Requeried PROVE EntryInv'
<1> USE DEF Hyps
<1>1. at = "requery" /\ UNCHANGED <<now, orders, held, bar>>
  BY DEF Requeried, exchange
<1>2. /\ saved.kind = "limit" /\ saved.cid \in 0..Bars /\ orders \in [0..Bars -> Orders] /\ req = NoRequest
      /\ saved \in States /\ now \in 0..Bars /\ keys = {} /\ Wanted \in Nat \ {0} /\ bar <= now + 1
  BY <1>1, SavedIs DEF EntryInv, TypeOK, Staged, Waiting, Flat, Paper, KeysOK, EntryAssumption
<1>3. /\ Marks /\ saved.cid < now /\ orders[now].status = "none" /\ orders[saved.cid].seen
      /\ orders[saved.cid].status # "none" /\ OthersQuiet(saved.cid) /\ held = orders[saved.cid].done
      /\ ~Resting(saved.cid)
  BY <1>1, <1>2 DEF EntryInv, Tracked, Waiting
<1>4. /\ held \in 0..Wanted /\ orders[saved.cid].status \in {"filled", "gone"} /\ saved.qty = Wanted
      /\ orders[saved.cid].status = "filled" => held = Wanted
  BY <1>2, <1>3 DEF EntryInv, OrdersOK, Marks, Orders, Resting
<1>5. PICK fails \in Trips("requery") :
        LET executed == IF fails THEN 0 ELSE Seen(saved.cid).done
            rest     == Remaining(saved.qty, executed)
        IN  /\ Spend(fails)
            /\ IF executed > 0 THEN saved' = Position(executed) /\ keys' = keys \cup {<<now, "limitpartial">>}
               ELSE UNCHANGED <<saved, keys>>
            /\ IF rest > 0
               THEN at' = "quote" /\ req' = [why |-> "fallback", type |-> "market", qty |-> rest]
               ELSE EndTick
  BY DEF Requeried
<1>6. fails = FALSE /\ left' \in 0..Trouble
  BY <1>5, LeftAfter DEF KeepsTrack
<1>7. (IF fails THEN 0 ELSE Seen(saved.cid).done) = held
  BY <1>3, <1>6 DEF Seen
<1>8. Remaining(saved.qty, held) = Wanted - held
  BY <1>4 DEF Remaining
<1>9. /\ IF held > 0 THEN saved' = Position(held) /\ keys' = keys \cup {<<now, "limitpartial">>}
         ELSE UNCHANGED <<saved, keys>>
      /\ IF Wanted - held > 0
         THEN at' = "quote" /\ req' = [why |-> "fallback", type |-> "market", qty |-> Wanted - held]
         ELSE EndTick
  BY <1>5, <1>7, <1>8
<1>10. CASE held = Wanted
  <2>1. /\ saved' = Position(Wanted) /\ keys' = keys \cup {<<now, "limitpartial">>} /\ at' = "idle" /\ req' = NoRequest
    BY <1>2, <1>9, <1>10 DEF EndTick
  <2>2. saved'.kind = "open" /\ saved'.qty = Wanted /\ saved' \in States
    BY <1>2, <2>1, StatesMade DEF Position
  <2>3. \A b \in 0..Bars : ~Resting(b)
    BY <1>3 DEF OthersQuiet, Quiet, Resting
  <2>4. TypeOK' /\ OrdersOK' /\ KeysOK' /\ Staged'
    BY <1>1, <1>2, <1>6, <2>1, <2>2 DEF EntryInv, TypeOK, OrdersOK, KeysOK, Staged, Waiting, Stages
  <2>5. Between' /\ Tracked' /\ Entering' /\ Adding' /\ FallingBack'
    BY <1>1, <1>2, <1>10, <2>1, <2>2, <2>3 DEF Between, Resting, Tracked, Entering, Adding, FallingBack, NoRequest
  <2> QED
    BY <2>4, <2>5 DEF EntryInv
<1>11. CASE held < Wanted
  <2>1. /\ at' = "quote" /\ req' = [why |-> "fallback", type |-> "market", qty |-> Wanted - held]
        /\ Wanted - held \in 1..Wanted
    BY <1>2, <1>4, <1>9, <1>11
  <2>2. AllQuiet /\ orders[saved.cid].status = "gone"
    BY <1>3, <1>4, <1>11 DEF AllQuiet, OthersQuiet, Quiet
  <2>3. \/ held > 0 /\ saved' = Position(held) /\ saved'.kind = "open" /\ saved'.qty = held /\ keys' = {<<now, "limitpartial">>}
        \/ held = 0 /\ saved' = saved /\ keys' = keys
    BY <1>2, <1>4, <1>9 DEF Position
  <2>4. saved' \in States /\ QtyOf(saved') = held /\ saved'.kind \in {"open", "limit"}
    BY <1>2, <1>4, <2>3, StatesMade DEF QtyOf
  <2>5. TypeOK'
    BY <1>1, <1>2, <1>6, <2>1, <2>3, <2>4 DEF EntryInv, TypeOK, Stages, Requests
  <2>6. OrdersOK' /\ KeysOK' /\ Staged'
    BY <1>1, <1>2, <2>1, <2>3 DEF EntryInv, OrdersOK, KeysOK, Staged, Waiting, NoRequest
  <2>7. Between' /\ Tracked' /\ Entering' /\ Adding'
    BY <2>1 DEF Between, Tracked, Waiting, Entering, Adding
  <2>8. FallingBack'
    BY <1>1, <1>2, <1>3, <1>11, <2>1, <2>2, <2>3, <2>4 DEF FallingBack, Asking, AllQuiet, Quiet, Marks, QtyOf
  <2> QED
    BY <2>5, <2>6, <2>7, <2>8 DEF EntryInv
<1> QED
  BY <1>4, <1>10, <1>11
-----------------------------------------------------------------------------
(* The world.                                                              *)

LEMMA NewBarKeeps == ASSUME Hyps, NewBar PROVE EntryInv'
<1> USE DEF Hyps
<1>1. /\ bar < Bars /\ (at # "idle" => bar = now) /\ bar' = bar + 1
      /\ orders' = [b \in 0..Bars |-> [orders[b] EXCEPT !.seen = TRUE]]
      /\ UNCHANGED <<saved, keys, at, now, req, held, left>>
  BY DEF NewBar
<1>2. orders \in [0..Bars -> Orders] /\ bar \in 0..Bars /\ now \in 0..Bars /\ now <= bar /\ Bars \in Nat
  BY DEF EntryInv, TypeOK, EntryAssumption
<1>3. \A b \in 0..Bars : /\ orders'[b].status = orders[b].status /\ orders'[b].qty = orders[b].qty
                         /\ orders'[b].done = orders[b].done /\ orders'[b].seen = TRUE
                         /\ orders'[b] \in Orders
  BY <1>1, <1>2 DEF Orders
<1>4. TypeOK'
  BY <1>1, <1>2, <1>3 DEF EntryInv, TypeOK
<1>5. OrdersOK' /\ KeysOK' /\ Staged'
  BY <1>1, <1>2, <1>3 DEF EntryInv, OrdersOK, KeysOK, Staged, Waiting
<1>6. Between'
  BY <1>1, <1>2, <1>3 DEF EntryInv, Between, AllQuiet, Quiet, Resting
<1>7. saved.kind = "limit" => saved.cid \in 0..Bars
  BY SavedIs DEF EntryInv, TypeOK, Flat, Paper
<1>8. /\ saved.kind = "limit" /\ Marks => Marks'
      /\ AllQuiet => AllQuiet'
      /\ \A b \in 0..Bars : OthersQuiet(b) => (\A c \in 0..Bars \ {b} : orders'[c].status \in {"none", "gone"})
  <2>1. saved.kind = "limit" /\ Marks => Marks'
    <3> SUFFICES ASSUME saved.kind = "limit", Marks
                 PROVE /\ saved.qty = Wanted /\ saved.placed = saved.cid /\ orders'[saved.cid].qty = Wanted
                       /\ \A b \in 0..Bars : b > saved.cid /\ b # now => orders'[b].status = "none"
      BY <1>1 DEF Marks
    <3>1. orders'[saved.cid].qty = Wanted
      BY <1>3, <1>7 DEF Marks
    <3>2. \A b \in 0..Bars : b > saved.cid /\ b # now => orders'[b].status = "none"
      BY <1>3 DEF Marks
    <3> QED
      BY <3>1, <3>2 DEF Marks
  <2>2. AllQuiet => AllQuiet'
    BY <1>3 DEF AllQuiet, Quiet
  <2>3. \A b \in 0..Bars : OthersQuiet(b) => (\A c \in 0..Bars \ {b} : orders'[c].status \in {"none", "gone"})
    BY <1>3 DEF OthersQuiet, Quiet
  <2> QED
    BY <2>1, <2>2, <2>3
<1>9. Tracked'
  <2> SUFFICES ASSUME saved.kind = "limit", at \in Waiting
               PROVE  /\ Marks' /\ saved.cid <= now /\ (saved.cid < now => orders'[now].status = "none")
                      /\ orders'[saved.cid].status # "none" /\ held = orders'[saved.cid].done
                      /\ \A c \in 0..Bars \ {saved.cid} : orders'[c].status \in {"none", "gone"}
                      /\ orders'[saved.cid].status = "gone" /\ at # "requery" => orders'[saved.cid].done = 0
                      /\ at \in {"cancel", "requery"} => saved.cid < now /\ orders'[saved.cid].seen
                      /\ at = "requery" => orders'[saved.cid].status # "resting"
    BY <1>1 DEF Tracked, OthersQuiet, Quiet, Resting, Waiting
  <2> QED
    BY <1>2, <1>3, <1>7, <1>8 DEF EntryInv, Tracked, Resting
<1>10. Entering'
  BY <1>1, <1>2, <1>3, <1>8 DEF EntryInv, Entering, Asking, OthersQuiet, Quiet, QtyOf
<1>11. now \in 0..Bars /\ Completed => held = Wanted /\ orders'[now].status = "filled" /\ orders'[now].done = req.qty
                      /\ \A c \in 0..Bars \ {now} : orders'[c].status \in {"none", "gone"}
  BY <1>3, <1>8 DEF Completed
<1>12. Adding'
  BY <1>1, <1>2, <1>8, <1>11 DEF EntryInv, Adding, Asking, Completed, OthersQuiet, Quiet, QtyOf
<1>13. FallingBack'
  BY <1>1, <1>2, <1>3, <1>7, <1>8, <1>11 DEF EntryInv, FallingBack, Asking, Completed, OthersQuiet, Quiet, QtyOf
<1> QED
  BY <1>4, <1>5, <1>6, <1>9, <1>10, <1>12, <1>13 DEF EntryInv

LEMMA CrashKeeps == ASSUME Hyps, Crash PROVE EntryInv'
<1> USE DEF Hyps
<1>1. /\ at \in {"look", "cancel", "quote"} /\ left > 0 /\ left' = left - 1 /\ at' = "idle" /\ req' = NoRequest
      /\ UNCHANGED <<saved, keys, now, orders, held, bar>>
  BY DEF Crash, EndTick, KeepsTrack, exchange
<1>2. left' \in 0..Trouble
  BY <1>1 DEF EntryInv, TypeOK, EntryAssumption
<1>3. TypeOK' /\ OrdersOK' /\ KeysOK' /\ Staged' /\ Entering' /\ Adding' /\ FallingBack'
  BY <1>1, <1>2 DEF EntryInv, TypeOK, OrdersOK, KeysOK, Staged, Stages, Waiting, Entering, Adding, FallingBack, NoRequest
<1>4. CASE at \in {"look", "cancel"}
  <2>1. saved.kind = "limit"
    BY <1>4 DEF EntryInv, Staged
  <2>2. Between' /\ Tracked'
    BY <1>1, <1>4, <2>1 DEF EntryInv, Between, Tracked, Marks, OthersQuiet, Quiet, Waiting
  <2> QED
    BY <1>3, <2>2 DEF EntryInv
<1>5. CASE at = "quote"
  <2>1. held = QtyOf(saved) /\ AllQuiet /\ req.why = "fallback"
    BY <1>5, AsksAlone DEF EntryInv, Staged
  <2>2. /\ saved.kind \in {"limit", "open"} /\ orders[now].status = "none"
        /\ saved.kind = "limit" => /\ Marks /\ saved.cid < now
                                   /\ orders[saved.cid].status = "gone" /\ orders[saved.cid].done = 0
    BY <1>5, <2>1 DEF EntryInv, FallingBack
  <2>3. Between'
    BY <1>1, <2>1, <2>2 DEF Between, AllQuiet, Quiet, Resting, QtyOf
  <2>4. now \in 0..Bars /\ (saved.kind = "limit" => saved.cid \in 0..Bars)
    BY SavedIs DEF EntryInv, TypeOK, Flat, Paper
  <2>5. Tracked'
    BY <1>1, <2>1, <2>2, <2>4 DEF Tracked, Marks, AllQuiet, OthersQuiet, Quiet, QtyOf
  <2> QED
    BY <1>3, <2>3, <2>5 DEF EntryInv
<1> QED
  BY <1>1, <1>4, <1>5

\* The one order that can rest is the marker's, or the one a tick has just placed.
LEMMA RestsAlone ==
  ASSUME Hyps, NEW b \in 0..Bars, Resting(b)
  PROVE /\ OthersQuiet(b) /\ orders[b].qty = Wanted /\ held = orders[b].done
        /\ \/ saved.kind = "limit" /\ at \in {"idle", "look", "cancel"} /\ b = saved.cid /\ req = NoRequest
           \/ saved.kind = "flat" /\ at = "answer" /\ b = now /\ req.why = "entry"
<1> USE DEF Hyps
<1>1. /\ saved.kind \in {"flat", "paper", "open", "limit", "unknown"} /\ at \in Stages
      /\ saved.kind = "limit" => saved.cid \in 0..Bars
  BY SavedIs DEF EntryInv, TypeOK, Flat, Paper
<1>2. ~AllQuiet
  BY DEF AllQuiet, Quiet, Resting
<1>3. CASE at \in Waiting
  <2>1. saved.kind = "limit"
    BY <1>1, <1>2, <1>3 DEF EntryInv, Between, Staged, Waiting
  <2>2. Marks /\ OthersQuiet(saved.cid) /\ held = orders[saved.cid].done /\ (at = "requery" => ~Resting(saved.cid))
    BY <1>3, <2>1 DEF EntryInv, Tracked
  <2>3. b = saved.cid
    BY <2>2 DEF OthersQuiet, Quiet, Resting
  <2> QED
    BY <1>3, <2>1, <2>2, <2>3 DEF Marks, EntryInv, Staged, Waiting
<1>4. CASE at \notin Waiting
  <2>1. at = "answer"
    BY <1>1, <1>2, <1>4, AsksAlone DEF Stages, Waiting
  <2>2. req.why \in {"entry", "add", "fallback"}
    BY <1>4 DEF EntryInv, TypeOK, Staged, Requests
  <2>3. OthersQuiet(now) /\ (req.why # "entry" => orders[now].status = "filled")
    BY <2>1, <2>2 DEF EntryInv, Entering, Adding, FallingBack, Completed
  <2>4. b = now /\ req.why = "entry"
    BY <2>3 DEF OthersQuiet, Quiet, Resting
  <2> QED
    BY <2>1, <2>3, <2>4 DEF EntryInv, Entering
<1> QED
  BY <1>3, <1>4

\* What becomes of an order that rests: a part of it is executed, or it ends
\* untouched.  new is what the exchange then has of it.
LEMMA RestingMoves ==
  ASSUME Hyps, NEW b \in 0..Bars, Resting(b), NEW new \in Orders,
         orders' = [orders EXCEPT ![b] = new],
         new.status \in {"resting", "filled", "gone"}, new.qty = Wanted, new.seen = orders[b].seen,
         new.status = "resting" => new.done < Wanted,
         new.status = "filled" => new.done = Wanted,
         new.status = "gone" => new.done = 0,
         held' = new.done, UNCHANGED <<saved, keys, at, now, req, bar>>, left' \in 0..Trouble
  PROVE EntryInv'
<1> USE DEF Hyps
<1>1. /\ OthersQuiet(b)
      /\ \/ saved.kind = "limit" /\ at \in {"idle", "look", "cancel"} /\ b = saved.cid /\ req = NoRequest
         \/ saved.kind = "flat" /\ at = "answer" /\ b = now /\ req.why = "entry"
  BY RestsAlone
<1>2. /\ orders \in [0..Bars -> Orders] /\ orders' \in [0..Bars -> Orders]
      /\ orders'[b] = new /\ \A c \in 0..Bars \ {b} : orders'[c] = orders[c]
  BY DEF EntryInv, TypeOK
<1>3. TypeOK' /\ KeysOK' /\ Staged'
  BY <1>2 DEF EntryInv, TypeOK, KeysOK, Staged, Waiting, Orders
<1>4. OrdersOK'
  <2> SUFFICES ASSUME NEW c \in 0..Bars
               PROVE /\ orders'[c].status = "none" => orders'[c].done = 0
                     /\ orders'[c].status = "resting" => orders'[c].done < orders'[c].qty
                     /\ orders'[c].status = "filled" => orders'[c].done = orders'[c].qty
                     /\ c > now => orders'[c].status = "none"
                     /\ ~orders'[c].seen => c + 1 >= bar
    BY DEF OrdersOK
  <2>1. CASE c = b
    BY <2>1, <1>2 DEF EntryInv, OrdersOK, Resting
  <2>2. CASE c # b
    BY <2>2, <1>2 DEF EntryInv, OrdersOK
  <2> QED
    BY <2>1, <2>2
<1>5. OthersQuiet(b)'
  BY <1>1, <1>2 DEF OthersQuiet, Quiet
<1>6. CASE saved.kind = "limit" /\ at \in {"idle", "look", "cancel"} /\ b = saved.cid /\ req = NoRequest
  <2>1. Between' /\ Entering' /\ Adding' /\ FallingBack'
    BY <1>6 DEF Between, Entering, Adding, FallingBack, NoRequest
  <2>2. /\ Marks /\ saved.cid <= now /\ (saved.cid < now => orders[now].status = "none")
        /\ at = "cancel" => saved.cid < now /\ orders[saved.cid].seen
        /\ now \in 0..Bars
    BY <1>6 DEF EntryInv, TypeOK, Tracked, Waiting
  <2>3. Marks' /\ (saved.cid < now => orders'[now].status = "none")
    BY <1>2, <1>6, <2>2 DEF Marks
  <2>4. Tracked'
    BY <1>2, <1>5, <1>6, <2>2, <2>3 DEF Tracked
  <2> QED
    BY <1>3, <1>4, <2>1, <2>4 DEF EntryInv
<1>7. CASE saved.kind = "flat" /\ at = "answer" /\ b = now /\ req.why = "entry"
  <2>1. Between' /\ Tracked' /\ Adding' /\ FallingBack'
    BY <1>7 DEF Between, Tracked, Adding, FallingBack
  <2>2. Entering'
    BY <1>2, <1>5, <1>7 DEF EntryInv, Entering
  <2> QED
    BY <1>3, <1>4, <2>1, <2>2 DEF EntryInv
<1> QED
  BY <1>1, <1>6, <1>7

LEMMA ExecuteKeeps == ASSUME Hyps, NEW b \in 0..Bars, Execute(b) PROVE EntryInv'
<1> USE DEF Hyps
<1> DEFINE last == orders[b].done + 1 = orders[b].qty
           new == [orders[b] EXCEPT !.done = orders[b].done + 1, !.status = IF last THEN "filled" ELSE orders[b].status]
<1>1. /\ Resting(b) /\ held' = held + 1 /\ UNCHANGED <<saved, keys, at, now, req, bar, left>>
      /\ orders' = [orders EXCEPT ![b] = new]
  BY DEF Execute, Resting, EntryInv, TypeOK, Orders
<1>2. orders[b] \in Orders /\ orders[b].qty = Wanted /\ held = orders[b].done /\ orders[b].done < Wanted
      /\ orders[b].done \in Nat /\ Wanted \in Nat /\ left \in 0..Trouble /\ orders[b].status = "resting"
  BY <1>1, RestsAlone DEF EntryInv, TypeOK, Orders, OrdersOK, EntryAssumption, Resting
<1>3. /\ new.done = orders[b].done + 1 /\ new.qty = Wanted /\ new.seen = orders[b].seen
      /\ new.status = (IF last THEN "filled" ELSE "resting") /\ new \in Orders
  <2>1. orders[b].done + 1 \in 0..Wanted
    BY <1>2
  <2> QED
    BY <1>2, <2>1 DEF Orders
<1> HIDE DEF new
<1>4. /\ new.status \in {"resting", "filled", "gone"} /\ held' = new.done
      /\ new.status = "resting" => new.done < Wanted
      /\ new.status = "filled" => new.done = Wanted
      /\ new.status # "gone"
  BY <1>1, <1>2, <1>3
<1> QED
  BY <1>1, <1>2, <1>3, <1>4, RestingMoves

LEMMA LapseKeeps == ASSUME Hyps, NEW b \in 0..Bars, Lapse(b) PROVE EntryInv'
<1> USE DEF Hyps
<1>1. /\ Resting(b) /\ UNCHANGED <<saved, keys, at, now, req, held, bar>>
      /\ TRUE \in Trips(IF orders[b].done = 0 THEN "lapse" ELSE "lapsepart") /\ Spend(TRUE)
      /\ orders' = [orders EXCEPT ![b] = [orders[b] EXCEPT !.status = "gone"]]
  BY DEF Lapse, Resting, EntryInv, TypeOK, Orders
<1>2. left' \in 0..Trouble /\ (IF orders[b].done = 0 THEN "lapse" ELSE "lapsepart") \in Kinds
  BY <1>1, LeftAfter
<1>3. orders[b].done = 0
  BY <1>2 DEF KeepsTrack
<1>4. orders[b] \in Orders /\ orders[b].qty = Wanted /\ held = orders[b].done
  BY <1>1, RestsAlone DEF EntryInv, TypeOK
<1> DEFINE new == [orders[b] EXCEPT !.status = "gone"]
<1>5. /\ new.status = "gone" /\ new.done = 0 /\ new.qty = Wanted /\ new.seen = orders[b].seen /\ new \in Orders
  BY <1>3, <1>4 DEF Orders
<1>6. orders' = [orders EXCEPT ![b] = new] /\ held' = new.done
  BY <1>1, <1>3, <1>4, <1>5
<1> HIDE DEF new
<1> QED
  BY <1>1, <1>2, <1>5, <1>6, RestingMoves

-----------------------------------------------------------------------------
(* The theorems.                                                           *)

LEMMA StutterKeeps == ASSUME Hyps, UNCHANGED vars PROVE EntryInv'
<1>1. UNCHANGED <<saved, keys, at, now, req, orders, held, bar, left>>
  BY DEF vars
<1>2. TypeOK' /\ OrdersOK' /\ KeysOK' /\ Staged'
  BY <1>1 DEF Hyps, EntryInv, TypeOK, OrdersOK, KeysOK, Staged
<1>3. Between' /\ Tracked' /\ Entering' /\ Adding' /\ FallingBack'
  BY <1>1 DEF Hyps, EntryInv, Between, Tracked, Entering, Adding, FallingBack, Marks, Completed, Asking, AllQuiet,
     OthersQuiet, Quiet, Resting, QtyOf
<1> QED
  BY <1>2, <1>3 DEF EntryInv

LEMMA StepKeeps == ASSUME EntryAssumption, KeepsTrack, EntryInv, [Next]_vars PROVE EntryInv'
<1>1. Hyps
  BY DEF Hyps
<1>2. CASE UNCHANGED vars
  BY <1>1, <1>2, StutterKeeps
<1>3. CASE TickEnters \/ TickAdds \/ TickLooks \/ TickResolvesUnknown
  BY <1>1, <1>3, EntersKeeps, AddsKeeps, LooksKeeps, UnknownKeeps
<1>4. CASE Precheck \/ NotPlaced \/ Place \/ Answered \/ Reconciled
  BY <1>1, <1>4, PrecheckKeeps, NotPlacedKeeps, PlaceKeeps, AnsweredKeeps, ReconciledKeeps
<1>5. CASE Looked \/ Cancel \/ Requeried \/ Quoted
  BY <1>1, <1>5, LookedKeeps, CancelKeeps, RequeriedKeeps, QuotedKeeps
<1>6. CASE NewBar \/ Crash
  BY <1>1, <1>6, NewBarKeeps, CrashKeeps
<1>7. CASE \E b \in 0..Bars : Execute(b) \/ Lapse(b)
  BY <1>1, <1>7, ExecuteKeeps, LapseKeeps
<1> QED
  BY <1>2, <1>3, <1>4, <1>5, <1>6, <1>7 DEF Next, Tick

LEMMA EntryInvariant == ASSUME KeepsTrack PROVE Spec => []EntryInv
<1>1. Init => EntryInv
  BY EntryAssumption, Starts
<1>2. EntryInv /\ [Next]_vars => EntryInv'
  BY EntryAssumption, StepKeeps
<1> QED
  BY <1>1, <1>2, PTL DEF Spec

\* At every moment the state is of its type, for every quantity, candle and fault
\* the assumption allows (position_state, runner.ts:283-299).
THEOREM EntryTypes == ASSUME KeepsTrack PROVE Spec => []TypeOK
<1>1. EntryInv => TypeOK
  BY DEF EntryInv
<1> QED
  BY <1>1, EntryInvariant, PTL

LEMMA NeverTooMuch == ASSUME Hyps PROVE held \in 0..Wanted
<1> USE DEF Hyps
<1>1. /\ saved.kind \in {"flat", "paper", "open", "limit", "unknown"} /\ at \in Stages
      /\ saved.kind = "limit" => saved.cid \in 0..Bars
      /\ QtyOf(saved) \in 0..Wanted /\ (saved.kind = "open" => saved.qty \in 1..Wanted)
      /\ now \in 0..Bars /\ Wanted \in Nat \ {0}
      /\ \A b \in 0..Bars : orders[b].done \in 0..Wanted
  BY SavedIs DEF EntryInv, TypeOK, Flat, Paper, QtyOf, Orders, EntryAssumption
<1>2. CASE at \in Waiting /\ saved.kind = "limit"
  BY <1>1, <1>2 DEF EntryInv, Tracked
<1>3. CASE at \in Waiting /\ saved.kind # "limit"
  BY <1>1, <1>3 DEF EntryInv, Staged, Between, Waiting
<1>4. CASE at \notin Waiting /\ at # "answer"
  BY <1>1, <1>4, AsksAlone DEF Stages, Waiting
<1>5. CASE at = "answer"
  <2>1. req.why \in {"entry", "add", "fallback"}
    BY <1>5 DEF EntryInv, TypeOK, Staged, Waiting, Requests
  <2> QED
    BY <1>1, <1>5, <2>1 DEF EntryInv, Entering, Adding, FallingBack, Completed
<1> QED
  BY <1>2, <1>3, <1>4, <1>5

\* At every moment at most one order of the bot rests, and what the account holds
\* and may still buy is at most what the strategy wanted: no part of an entry is
\* bought twice, whatever happens between look, cancel and second look
\* (runner.ts:785-794).
THEOREM EntryIsOne == ASSUME KeepsTrack PROVE Spec => []OneEntry
<1>1. ASSUME EntryInv PROVE OneEntry
  <2>1. Hyps
    BY <1>1, EntryAssumption DEF Hyps
  <2>2. ASSUME NEW b \in 0..Bars, NEW c \in 0..Bars, Resting(b), Resting(c) PROVE b = c
    BY <2>1, <2>2, RestsAlone DEF OthersQuiet, Quiet, Resting
  <2>3. ASSUME NEW b \in 0..Bars PROVE held + RestingAt(b) <= Wanted
    <3>1. CASE Resting(b)
      <4>1. orders[b].qty = Wanted /\ held = orders[b].done /\ Wanted \in Nat /\ held \in Nat
        BY <2>1, <3>1, RestsAlone, EntryAssumption DEF EntryAssumption, Hyps, EntryInv, TypeOK
      <4> QED
        BY <3>1, <4>1 DEF RestingAt, Resting
    <3>2. CASE ~Resting(b)
      BY <2>1, <3>2, NeverTooMuch, EntryAssumption DEF RestingAt, Resting, EntryAssumption
    <3> QED
      BY <3>1, <3>2
  <2> QED
    BY <2>2, <2>3 DEF OneEntry
<1> QED
  BY <1>1, EntryInvariant, PTL

\* Between ticks, when no marker waits, the position is exactly what the account
\* holds and no order works that nothing would look at (runner.ts:783-794).
THEOREM EntrySettles == ASSUME KeepsTrack PROVE Spec => []Settled
<1>1. ASSUME EntryInv PROVE Settled
  <2>1. saved.kind \in {"flat", "paper", "open", "limit", "unknown"}
    BY <1>1, SavedIs DEF EntryInv, TypeOK, Flat, Paper
  <2>2. AllQuiet => \A b \in 0..Bars : ~Resting(b)
    BY DEF AllQuiet, Quiet, Resting
  <2> QED
    BY <1>1, <2>1, <2>2 DEF EntryInv, Between, Settled, QtyOf, IsMarker
<1> QED
  BY <1>1, EntryInvariant, PTL
=============================================================================

--------------------------- MODULE SpotBot_proofs ---------------------------
(***************************************************************************)
(* What is shown of the spot bot for every value of the constants: that    *)
(* nothing is traded for a position opened on paper, as long as the kill   *)
(* switch is not used; and, for a bot without a stop whose orders are      *)
(* executed whole or not at all, that it never holds more than it wants,   *)
(* books only what happened, and leaves nothing that no position manages.  *)
(***************************************************************************)
EXTENDS SpotBot, TLAPS, FiniteSetTheorems, WellFoundedInduction

-----------------------------------------------------------------------------
(* A position opened on paper.                                             *)

\* The kill switch is not used: it takes no lock, and sells what it has read.
NoKillSwitch == \A B \in Budgets : B["halt"] = 0

IsPaper(c) == IsOpen(c) /\ ~c.live

\* What is a record with the fields F, whatever it holds in them.
IsRecord(r, F) == r = [x \in F |-> r[x]]
PositionFields == {"kind", "qty", "live", "level", "stops", "naked", "misses", "unknown"}
MarkerFields == {"kind", "want", "bar", "misses"}
RecordFields == {"at", "cur", "bar", "want", "side", "qty", "chan", "kind", "got",
                 "ids", "cancel", "place", "failed", "filled"}

IsPosition(c) ==
  \/ c = NoPos
  \/ c.kind = "marker" /\ IsRecord(c, MarkerFields)
  \/ c.kind = "open" /\ IsRecord(c, PositionFields) /\ c.live \in BOOLEAN

Ordered == {"precheck", "send", "answer", "lookup"}
TickStages == {"bars", "unknown", "seed", "force", "stops", "drop", "sync"} \cup Ordered

\* The tick's order is never one for a paper position.
ForExchange(r) ==
  \/ r.kind = "entry" /\ ~IsPaper(r.cur)
  \/ r.kind \in {"exit", "close"} /\ IsLive(r.cur)

\* What the tick read is still so, as far as a paper position is concerned.
TickHas(p, r) ==
  /\ IsRecord(r, RecordFields) /\ r.at \in TickStages
  /\ IsPosition(r.cur)
  /\ IsPaper(p) => IsPaper(r.cur)
  /\ r.at \in Ordered => ForExchange(r)
  /\ r.at \in {"stops", "drop"} => IsLive(r.cur)
  /\ r.at = "unknown" => r.cur.kind = "marker"

\* The sweep may keep a live position that is gone, but sells the one there is.
SweepHas(p, s) ==
  /\ s.at \in {"price"} \cup Ordered /\ IsPosition(s.cur) /\ IsLive(s.cur)
  /\ s.at \in Ordered => IsRecord(s, RecordFields) /\ s.kind = "protect" /\ IsLive(p)

NoKill == IsRecord(left, AllFaults) /\ left["halt"] = 0
StopsKept == IsRecord(stop, Levels) /\ \A l \in Levels : IsRecord(stop[l], {"state", "qty"})
World == NoKill /\ StopsKept /\ IsRecord(act, Actors) /\ act["halt"] = Idle

Locked ==
  /\ lock \in {"free", "tick", "sweep"}
  /\ lock = "tick" <=> act["tick"].at # "idle"
  /\ lock = "sweep" <=> act["sweep"].at \in Ordered

PaperInv ==
  /\ World /\ Locked /\ IsPosition(pos)
  /\ act["tick"].at # "idle" => TickHas(pos, act["tick"])
  /\ act["sweep"].at # "idle" => SweepHas(pos, act["sweep"])

-----------------------------------------------------------------------------
(* Records and positions.                                                  *)

LEMMA IdleIs == Idle.at = "idle" /\ "idle" \notin TickStages \cup {"price"}
  BY DEF Idle, TickStages, Ordered

LEMMA RecordIs ==
  ASSUME NEW c, NEW b, NEW w
  PROVE  LET r == Record(c, b, w)
         IN  IsRecord(r, RecordFields) /\ r.at = "bars" /\ r.cur = c /\ r.bar = b /\ r.want = w
  BY DEF Record, IsRecord, RecordFields

LEMMA PositionKinds ==
  ASSUME NEW c, IsPosition(c)
  PROVE  /\ c.kind \in {"none", "marker", "open"}
         /\ c = NoPos <=> c.kind = "none"
         /\ IsOpen(c) <=> c.kind = "open"
         /\ IsOpen(c) => c.live \in BOOLEAN /\ IsRecord(c, PositionFields)
         /\ IsOpen(c) => (IsPaper(c) <=> ~IsLive(c))
  BY DEF IsPosition, NoPos, IsOpen, IsPaper, IsLive

LEMMA OpenIs ==
  ASSUME NEW q, NEW live \in BOOLEAN, NEW l, NEW s, NEW n
  PROVE  LET c == Open(q, live, l, s, n)
         IN  IsPosition(c) /\ IsOpen(c) /\ c.live = live /\ c.qty = q
  BY DEF Open, IsPosition, IsOpen, IsRecord, PositionFields

LEMMA MarkerIs ==
  ASSUME NEW q, NEW at, NEW m
  PROVE  IsPosition(Marker(q, at, m)) /\ ~IsOpen(Marker(q, at, m)) /\ Marker(q, at, m).kind = "marker"
  BY DEF Marker, IsPosition, IsOpen, IsRecord, MarkerFields

LEMMA NoPosIs == IsPosition(NoPos) /\ ~IsOpen(NoPos) /\ ~IsPaper(NoPos)
  BY DEF NoPos, IsPosition, IsOpen, IsPaper

\* What is noted in a position does not change what it is.
LEMMA PositionChanges ==
  ASSUME NEW c, IsPosition(c), NEW x \in {"qty", "level", "stops", "naked", "misses", "unknown"}, NEW v
  PROVE  LET d == [c EXCEPT ![x] = v]
         IN  /\ IsPosition(d) /\ d.kind = c.kind
             /\ IsOpen(c) => IsOpen(d) /\ d.live = c.live
<1> DEFINE d == [c EXCEPT ![x] = v]
<1>1. CASE c = NoPos
  <2>1. d = c
    BY <1>1 DEF NoPos
  <2> QED BY <2>1
<1>2. CASE c.kind = "marker" /\ IsRecord(c, MarkerFields)
  <2>1. d = [y \in MarkerFields |-> d[y]] /\ d.kind = c.kind
    BY <1>2 DEF IsRecord, MarkerFields
  <2> QED BY <1>2, <2>1 DEF IsPosition, IsRecord, IsOpen
<1>3. CASE c.kind = "open" /\ IsRecord(c, PositionFields) /\ c.live \in BOOLEAN
  <2>1. d = [y \in PositionFields |-> d[y]] /\ d.kind = c.kind /\ d.live = c.live
    BY <1>3 DEF IsRecord, PositionFields
  <2> QED BY <1>3, <2>1 DEF IsPosition, IsRecord, IsOpen
<1> QED BY <1>1, <1>2, <1>3 DEF IsPosition
-----------------------------------------------------------------------------
(* What the tick does with a position and a record that agree.             *)

\* The tick ends, or is suspended with a record that still holds.
TickMoves ==
  /\ IsPosition(pos')
  /\ \/ act' = [act EXCEPT !["tick"] = Idle] /\ lock' = "free"
     \/ \E r : TickHas(pos', r) /\ act' = [act EXCEPT !["tick"] = r] /\ lock' = "tick"

LEMMA TickEnds == ASSUME IsPosition(pos'), End("tick") PROVE TickMoves
  BY DEF End, TickMoves

LEMMA TickSuspends ==
  ASSUME IsPosition(pos'), NEW r, TickHas(pos', r), Suspend("tick", r)
  PROVE  TickMoves
  BY DEF Suspend, TickMoves

LEMMA SyncedIs ==
  ASSUME NEW r, IsRecord(r, RecordFields), NEW c, NEW ids, NEW live
  PROVE  LET s == Synced(r, c, ids, live)
         IN  /\ IsRecord(s, RecordFields) /\ s.cur = c /\ s.kind = r.kind
             /\ s.at \in {r.at, "sync"}
             /\ HasWork(s) => s.at = "sync"
<1> DEFINE s == [r EXCEPT !.cur = c, !.ids = ids, !.failed = FALSE, !.cancel = {}, !.place = FALSE]
<1> DEFINE t == [s EXCEPT !.failed = IsOpen(c)]
<1> DEFINE u == [s EXCEPT !.at = "sync", !.cancel = ids \ Desired(c), !.place = Desired(c) \ ids # {}]
<1>1. IsRecord(s, RecordFields) /\ s.cur = c /\ s.kind = r.kind /\ s.at = r.at /\ s.cancel = {} /\ s.place = FALSE
  BY DEF IsRecord, RecordFields
<1> HIDE DEF s
<1>2. IsRecord(t, RecordFields) /\ t.cur = c /\ t.kind = r.kind /\ t.at = r.at /\ t.cancel = {} /\ t.place = FALSE
  BY <1>1 DEF IsRecord, RecordFields
<1>3. IsRecord(u, RecordFields) /\ u.cur = c /\ u.kind = r.kind /\ u.at = "sync"
  BY <1>1 DEF IsRecord, RecordFields
<1> HIDE DEF t, u
<1>4. Synced(r, c, ids, live) \in {s, t, u}
  BY DEF Synced, s, t, u
<1> QED BY <1>1, <1>2, <1>3, <1>4 DEF HasWork

LEMMA AfterSyncIs ==
  ASSUME NEW r, IsPosition(r.cur)
  PROVE  /\ IsPosition(AfterSync(r))
         /\ IsOpen(AfterSync(r)) => IsOpen(r.cur)
         /\ IsOpen(r.cur) => IsOpen(AfterSync(r)) /\ AfterSync(r).live = r.cur.live
<1>1. CASE r.cur = NoPos
  BY <1>1, NoPosIs DEF AfterSync
<1>2. CASE r.cur # NoPos
  <2> DEFINE c == r.cur
  <2> DEFINE d == [c EXCEPT !.stops = r.ids]
  <2> DEFINE e == [d EXCEPT !.naked = HasStop /\ r.failed]
  <2>1. IsPosition(d) /\ d.kind = c.kind /\ (IsOpen(c) => IsOpen(d) /\ d.live = c.live)
    BY PositionChanges
  <2>2. IsPosition(e) /\ e.kind = d.kind /\ (IsOpen(d) => IsOpen(e) /\ e.live = d.live)
    <3> HIDE DEF d
    <3> QED BY <2>1, PositionChanges
  <2>3. AfterSync(r) = e
    BY <1>2 DEF AfterSync
  <2> QED BY <2>1, <2>2, <2>3 DEF IsOpen
<1> QED BY <1>1, <1>2

LEMMA GoSyncMoves ==
  ASSUME NEW p, IsPosition(p), NEW r, IsRecord(r, RecordFields), NEW c, IsPosition(c), NEW ids, NEW live,
         IsPaper(p) => IsPaper(c), GoSync(p, "tick", r, c, ids, live)
  PROVE  TickMoves
<1> DEFINE s == Synced(r, c, ids, live)
<1>1. IsRecord(s, RecordFields) /\ s.cur = c /\ (HasWork(s) => s.at = "sync")
  BY SyncedIs
<1> HIDE DEF s
<1>2. CASE HasWork(s)
  <2>1. pos' = p /\ Suspend("tick", s)
    BY <1>2 DEF GoSync, s
  <2>2. TickHas(pos', s)
    BY <1>1, <1>2, <2>1 DEF TickHas, TickStages, Ordered
  <2> QED BY <2>1, <2>2, TickSuspends
<1>3. CASE ~HasWork(s)
  <2>1. pos' \in {p, AfterSync(s)} /\ End("tick")
    BY <1>3 DEF GoSync, SaveAndEnd, s
  <2>2. IsPosition(AfterSync(s))
    BY <1>1, AfterSyncIs
  <2> QED BY <2>1, <2>2, TickEnds
<1> QED BY <1>2, <1>3

\* An order the tick may settle or start.
TickAsks(p, r) ==
  /\ IsRecord(r, RecordFields) /\ IsPosition(p) /\ IsPosition(r.cur)
  /\ IsPaper(p) => IsPaper(r.cur)
  /\ r.kind = "entry" \/ (r.kind \in {"exit", "close"} /\ IsOpen(r.cur))

LEMMA EntryDoneMoves ==
  ASSUME NEW p, NEW r, TickAsks(p, r), NEW f, f.live \in BOOLEAN, EntryDone(p, "tick", r, f)
  PROVE  TickMoves
<1> DEFINE c == r.cur
           qty == IF f.live /\ f.got < r.qty THEN QtyOf(c) + f.got ELSE r.want
           live == IF IsOpen(c) THEN c.live ELSE f.live
<1>1. IsPosition(p) /\ IsPosition(c) /\ IsRecord(r, RecordFields) /\ (IsPaper(p) => IsPaper(c))
  BY DEF TickAsks
<1>2. live \in BOOLEAN
  BY <1>1, PositionKinds
<1>3. CASE pos' = Marker(r.qty, r.bar, 0) /\ End("tick")
  BY <1>3, MarkerIs, TickEnds
<1>4. CASE pos' \in {c, p} /\ End("tick")
  BY <1>1, <1>4, TickEnds
<1>5. ASSUME NEW level, LET n == Open(qty, live, level, StopsOf(c), IsOpen(c) /\ c.naked)
                        IN  GoSync(n, "tick", r, n, StopsOf(c), live)
      PROVE  TickMoves
  <2> DEFINE n == Open(qty, live, level, StopsOf(c), IsOpen(c) /\ c.naked)
  <2>1. IsPosition(n)
    BY <1>2, OpenIs
  <2>2. GoSync(n, "tick", r, n, StopsOf(c), live)
    BY <1>5
  <2> HIDE DEF n, live
  <2> QED BY <1>1, <2>1, <2>2, GoSyncMoves
<1>6. \/ pos' = Marker(r.qty, r.bar, 0) /\ End("tick")
      \/ pos' \in {c, p} /\ End("tick")
      \/ \E level \in IF live THEN Levels ELSE {Min(Levels)} :
           LET n == Open(qty, live, level, StopsOf(c), IsOpen(c) /\ c.naked)
           IN  GoSync(n, "tick", r, n, StopsOf(c), live)
  BY DEF EntryDone
<1> QED BY <1>3, <1>4, <1>5, <1>6

LEMMA ExitDoneMoves ==
  ASSUME NEW p, NEW r, TickAsks(p, r), NEW f, ExitDone(p, "tick", r, f)
  PROVE  TickMoves
<1> DEFINE c == r.cur
           rest == IF f.live /\ f.got < r.qty THEN Larger(0, c.qty - f.got) ELSE r.want
           counted == [c EXCEPT !.unknown = Least(MaxUnknown, @ + 1)]
<1>1. IsPosition(p) /\ IsPosition(c) /\ IsRecord(r, RecordFields) /\ (IsPaper(p) => IsPaper(c))
  BY DEF TickAsks
<1>2. r.kind = "exit" /\ IsOpen(c) /\ c.live \in BOOLEAN
  BY PositionKinds DEF TickAsks, ExitDone
<1>3. IsPosition(counted)
  BY <1>1, PositionChanges
<1>4. CASE pos' \in {counted, c, p} /\ End("tick")
  BY <1>1, <1>3, <1>4, TickEnds
<1>5. ASSUME NEW level, LET n == IF rest = 0 THEN NoPos ELSE Open(rest, c.live, level, c.stops, c.naked)
                        IN  GoSync(n, "tick", r, n, c.stops, c.live)
      PROVE  TickMoves
  <2> DEFINE n == IF rest = 0 THEN NoPos ELSE Open(rest, c.live, level, c.stops, c.naked)
  <2>1. IsPosition(n)
    BY <1>2, OpenIs, NoPosIs
  <2>2. GoSync(n, "tick", r, n, c.stops, c.live)
    BY <1>5
  <2> HIDE DEF n
  <2> QED BY <1>1, <2>1, <2>2, GoSyncMoves
<1>6. \/ pos' \in {counted, c, p} /\ End("tick")
      \/ \E level \in Risen(c) :
           LET n == IF rest = 0 THEN NoPos ELSE Open(rest, c.live, level, c.stops, c.naked)
           IN  GoSync(n, "tick", r, n, c.stops, c.live)
  BY DEF ExitDone
<1> QED BY <1>4, <1>5, <1>6

LEMMA CloseDoneMoves ==
  ASSUME NEW p, NEW r, TickAsks(p, r), NEW f, CloseDone(p, "tick", r, f)
  PROVE  TickMoves
<1>1. IsPosition(p) /\ IsPosition(r.cur) /\ IsRecord(r, RecordFields)
  BY DEF TickAsks
<1>2. CASE pos' = r.cur /\ End("tick")
  BY <1>1, <1>2, TickEnds
<1>3. CASE GoSync(NoPos, "tick", r, NoPos, r.cur.stops, TRUE)
  BY <1>1, <1>3, NoPosIs, GoSyncMoves
<1>4. "tick" # "halt"
  OBVIOUS
<1> QED BY <1>2, <1>3, <1>4 DEF CloseDone

LEMMA OrderDoneMoves ==
  ASSUME NEW p, NEW r, TickAsks(p, r), NEW f, f.live \in BOOLEAN, OrderDone(p, "tick", r, f)
  PROVE  TickMoves
<1>1. ~ProtectDone(p, "tick", r, f)
  BY DEF TickAsks, ProtectDone
<1> QED BY <1>1, EntryDoneMoves, ExitDoneMoves, CloseDoneMoves DEF OrderDone

LEMMA OutcomesLive ==
  /\ \A n : Filled(n).live \in BOOLEAN /\ OnPaper(n).live \in BOOLEAN
  /\ Frozen.live \in BOOLEAN /\ OutcomeUnknown.live \in BOOLEAN
  /\ \A r : Blocked(r).live \in BOOLEAN
  BY DEF Filled, OnPaper, Frozen, OutcomeUnknown, Blocked

LEMMA StartOrderMoves ==
  ASSUME NEW p, NEW r, TickAsks(p, r), r.chan = Channel(r.cur), StartOrder(p, "tick", r)
  PROVE  TickMoves
<1>1. CASE OrderDone(p, "tick", r, OnPaper(r.qty)) \/ OrderDone(p, "tick", r, Blocked(r))
  BY <1>1, OutcomesLive, OrderDoneMoves
<1>2. CASE r.chan # "paper" /\ pos' = p /\ Suspend("tick", [r EXCEPT !.at = "precheck"])
  <2> DEFINE s == [r EXCEPT !.at = "precheck"]
  <2>1. IsRecord(s, RecordFields) /\ s.at = "precheck" /\ s.cur = r.cur /\ s.kind = r.kind
    BY DEF TickAsks, IsRecord, RecordFields
  <2> HIDE DEF s
  <2>2. ~IsPaper(r.cur)
    BY <1>2 DEF Channel, IsPaper
  <2>3. ForExchange(s)
    BY <2>1, <2>2 DEF ForExchange, TickAsks, IsPaper, IsLive
  <2>4. TickHas(pos', s)
    BY <1>2, <2>1, <2>3 DEF TickHas, TickStages, Ordered, TickAsks
  <2>5. Suspend("tick", s) /\ IsPosition(pos')
    BY <1>2 DEF s, TickAsks
  <2> QED BY <2>4, <2>5, TickSuspends
<1>3. "tick" # "halt"
  OBVIOUS
<1> QED BY <1>1, <1>2, <1>3 DEF StartOrder

\* What the stages of the tick begin with.
Agrees(p, r, c) ==
  /\ IsPosition(p) /\ IsRecord(r, RecordFields) /\ IsPosition(c)
  /\ IsPaper(p) => IsPaper(c)

LEMMA HoldMoves ==
  ASSUME NEW p, NEW r, NEW c, Agrees(p, r, c), Hold(p, r, c)
  PROVE  TickMoves
<1>1. ASSUME NEW level, IsOpen(c),
             GoSync(p, "tick", [r EXCEPT !.kind = "hold"], [c EXCEPT !.level = level], c.stops, c.live)
      PROVE  TickMoves
  <2> DEFINE s == [r EXCEPT !.kind = "hold"]
             d == [c EXCEPT !.level = level]
  <2>1. IsRecord(s, RecordFields)
    BY DEF Agrees, IsRecord, RecordFields
  <2>2. IsPosition(d) /\ IsOpen(d) /\ d.live = c.live
    BY <1>1, PositionChanges DEF Agrees
  <2>3. GoSync(p, "tick", s, d, c.stops, c.live)
    BY <1>1
  <2>4. IsPosition(p) /\ (IsPaper(p) => IsPaper(c))
    BY DEF Agrees
  <2> HIDE DEF s, d
  <2>5. IsPaper(p) => IsPaper(d)
    BY <2>2, <2>4 DEF IsPaper
  <2> QED BY <2>1, <2>2, <2>3, <2>4, <2>5, GoSyncMoves
<1>2. CASE pos' = c /\ End("tick")
  BY <1>2, TickEnds DEF Agrees
<1> QED BY <1>1, <1>2 DEF Hold

LEMMA DecideMoves ==
  ASSUME NEW p, NEW r, NEW c, Agrees(p, r, c), Decide(p, r, c)
  PROVE  TickMoves
<1> DEFINE s == [r EXCEPT !.cur = c, !.chan = Channel(c)]
           q == QtyOf(c)
<1>1. IsRecord(s, RecordFields) /\ s.cur = c /\ s.chan = Channel(c)
  BY DEF Agrees, IsRecord, RecordFields
<1>2. Agrees(p, s, c)
  BY <1>1 DEF Agrees
<1> DEFINE Order(side, qty, kind) == [s EXCEPT !.side = side, !.qty = qty, !.kind = kind]
<1>3. ASSUME NEW side, NEW qty, NEW kind, StartOrder(p, "tick", Order(side, qty, kind)),
             kind = "entry" \/ (kind \in {"exit", "close"} /\ IsOpen(c))
      PROVE  TickMoves
  <2> DEFINE o == Order(side, qty, kind)
  <2> HIDE DEF s
  <2>1. IsRecord(o, RecordFields) /\ o.cur = c /\ o.chan = Channel(o.cur) /\ o.kind = kind
    BY <1>1 DEF IsRecord, RecordFields
  <2>2. StartOrder(p, "tick", o)
    BY <1>3
  <2> HIDE DEF o
  <2>3. TickAsks(p, o)
    BY <1>2, <1>3, <2>1 DEF TickAsks, Agrees
  <2> QED BY <2>1, <2>2, <2>3, StartOrderMoves
<1>4. \/ IsLive(c) /\ StartOrder(p, "tick", Order("sell", q, "close"))
      \/ Hold(p, s, c)
      \/ StartOrder(p, "tick", Order("buy", r.want - q, "entry"))
      \/ r.want \in 0..(q - 1) /\ StartOrder(p, "tick", Order("sell", q - r.want, "exit"))
  <2>1. s.want = r.want
    BY DEF Agrees, IsRecord, RecordFields
  <2> QED BY <2>1 DEF Decide
<1>5. ASSUME r.want \in 0..(q - 1) PROVE IsOpen(c)
  <2>1. ~IsOpen(c) => q = 0
    BY DEF QtyOf
  <2>2. 0..(0 - 1) = {}
    OBVIOUS
  <2> QED BY <1>5, <2>1, <2>2
<1>6. CASE Hold(p, s, c)
  <2> HIDE DEF s
  <2> QED BY <1>2, <1>6, HoldMoves
<1>7. CASE IsLive(c) /\ StartOrder(p, "tick", Order("sell", q, "close"))
  <2> HIDE DEF q, Order
  <2> QED BY <1>3, <1>7 DEF IsLive
<1>8. CASE StartOrder(p, "tick", Order("buy", r.want - q, "entry"))
  <2> HIDE DEF q, Order
  <2> QED BY <1>3, <1>8
<1>9. CASE r.want \in 0..(q - 1) /\ StartOrder(p, "tick", Order("sell", q - r.want, "exit"))
  <2> HIDE DEF q, Order
  <2> QED BY <1>3, <1>5, <1>9
<1> HIDE DEF s, q, Order
<1> QED BY <1>4, <1>6, <1>7, <1>8, <1>9

\* The stages that wait hold the record they wait with.
LEMMA StageSuspends ==
  ASSUME NEW p, NEW r, NEW c, Agrees(p, r, c), NEW stage,
         \/ stage \in {"bars", "seed", "force", "sync"}
         \/ stage = "stops" /\ IsLive(c)
         \/ stage = "unknown" /\ c.kind = "marker",
         pos' = p, Suspend("tick", [r EXCEPT !.at = stage, !.cur = c])
  PROVE  TickMoves
<1> DEFINE s == [r EXCEPT !.at = stage, !.cur = c]
<1>1. IsRecord(s, RecordFields) /\ s.at = stage /\ s.cur = c
  BY DEF Agrees, IsRecord, RecordFields
<1> HIDE DEF s
<1>2. TickHas(p, s)
  BY <1>1 DEF TickHas, TickStages, Ordered, Agrees
<1>3. Suspend("tick", s) /\ IsPosition(pos')
  BY DEF s, Agrees
<1> QED BY <1>2, <1>3, TickSuspends

LEMMA GoStopsMoves ==
  ASSUME NEW p, NEW r, NEW c, Agrees(p, r, c), GoStops(p, r, c)
  PROVE  TickMoves
<1>1. CASE IsLive(c) /\ pos' = p /\ Suspend("tick", [r EXCEPT !.at = "stops", !.cur = c])
  BY <1>1, StageSuspends
<1>2. CASE Decide(p, r, c)
  BY <1>2, DecideMoves
<1> QED BY <1>1, <1>2 DEF GoStops

LEMMA GoForceMoves ==
  ASSUME NEW p, NEW r, NEW c, Agrees(p, r, c), GoForce(p, r, c)
  PROVE  TickMoves
<1>1. CASE pos' = p /\ Suspend("tick", [r EXCEPT !.at = "force", !.cur = c])
  BY <1>1, StageSuspends
<1>2. CASE GoStops(p, r, c)
  BY <1>2, GoStopsMoves
<1> QED BY <1>1, <1>2 DEF GoForce

LEMMA GoSeedMoves ==
  ASSUME NEW p, NEW r, NEW c, Agrees(p, r, c), GoSeed(p, r, c)
  PROVE  TickMoves
<1>1. CASE pos' = p /\ Suspend("tick", [r EXCEPT !.at = "seed", !.cur = c])
  BY <1>1, StageSuspends
<1>2. CASE GoForce(p, r, c)
  BY <1>2, GoForceMoves
<1> QED BY <1>1, <1>2 DEF GoSeed

-----------------------------------------------------------------------------
(* What the actors' steps keep.                                            *)

\* Whatever goes wrong, or nothing.
AnyTrouble == NoTrouble \/ \E f \in AllFaults : Trouble(f)

LEMMA TroubleKeeps == ASSUME NoKill, AnyTrouble PROVE NoKill'
<1>1. CASE NoTrouble
  BY <1>1 DEF NoTrouble, NoKill
<1>2. ASSUME NEW f \in AllFaults, Trouble(f) PROVE NoKill'
  <2>1. f # "halt" /\ left' = [left EXCEPT ![f] = @ - 1]
    BY <1>2 DEF Trouble, NoKill
  <2>2. "halt" \in AllFaults
    BY DEF AllFaults
  <2> QED BY <2>1, <2>2 DEF NoKill, IsRecord
<1> QED BY <1>1, <1>2 DEF AnyTrouble

LEMMA Faults ==
  {"lost", "query", "lag", "refuse", "partial", "cancel", "crash", "crash_in_order",
   "trigger", "gate", "sweep", "halt", "scale", "add"} \subseteq AllFaults
  BY DEF AllFaults

\* Tick and sweep are not both at work.
LEMMA OneAtWork ==
  ASSUME PaperInv
  PROVE  /\ act["tick"].at # "idle" => act["sweep"].at \notin Ordered /\ lock = "tick"
         /\ act["sweep"].at \in Ordered => act["tick"].at = "idle" /\ lock = "sweep"
         /\ act["halt"].at = "idle"
         /\ "idle" \notin Ordered /\ "sync" \notin Ordered /\ "drop" \notin Ordered /\ "price" \notin Ordered
  BY IdleIs DEF PaperInv, Locked, World, Ordered

LEMMA TickMovesKeep ==
  ASSUME PaperInv, TickMoves, NoKill', StopsKept', act["sweep"].at \notin Ordered
  PROVE  PaperInv'
<1>1. IsRecord(act, Actors) /\ act["halt"] = Idle /\ {"tick", "sweep", "halt"} = Actors
  BY DEF PaperInv, World, Actors
<1>2. ASSUME NEW r, act' = [act EXCEPT !["tick"] = r]
      PROVE  IsRecord(act', Actors) /\ act'["tick"] = r /\ act'["halt"] = Idle /\ act'["sweep"] = act["sweep"]
  BY <1>1, <1>2 DEF IsRecord
<1>3. act["sweep"].at # "idle" => SweepHas(pos', act["sweep"])
  BY DEF PaperInv, SweepHas
<1>4. CASE act' = [act EXCEPT !["tick"] = Idle] /\ lock' = "free"
  <2>1. World'
    BY <1>2, <1>4 DEF World
  <2>2. Locked'
    BY <1>2, <1>4, IdleIs DEF Locked, World
  <2> QED BY <1>2, <1>3, <1>4, <2>1, <2>2, IdleIs DEF PaperInv, TickMoves
<1>5. ASSUME NEW r, TickHas(pos', r), act' = [act EXCEPT !["tick"] = r], lock' = "tick"
      PROVE  PaperInv'
  <2>1. World'
    BY <1>2, <1>5 DEF World
  <2>2. r.at # "idle"
    BY <1>5, IdleIs DEF TickHas
  <2>3. Locked'
    BY <1>2, <1>5, <2>2 DEF Locked
  <2> QED BY <1>2, <1>3, <1>5, <2>1, <2>3 DEF PaperInv, TickMoves
<1> QED BY <1>4, <1>5 DEF TickMoves

\* The sweep asks on, or has done what it began.
LEMMA SweepMovesKeep ==
  ASSUME PaperInv, NoKill', StopsKept', act["tick"].at = "idle", IsPosition(pos'),
         \/ act' = [act EXCEPT !["sweep"] = Idle] /\ lock' = "free"
         \/ \E s : SweepHas(pos', s) /\ s.at \in Ordered /\ act' = [act EXCEPT !["sweep"] = s] /\ lock' = "sweep"
  PROVE  PaperInv'
<1>1. IsRecord(act, Actors) /\ act["halt"] = Idle /\ {"tick", "sweep", "halt"} = Actors
  BY DEF PaperInv, World, Actors
<1>2. ASSUME NEW r, act' = [act EXCEPT !["sweep"] = r]
      PROVE  IsRecord(act', Actors) /\ act'["sweep"] = r /\ act'["halt"] = Idle /\ act'["tick"] = act["tick"]
  BY <1>1, <1>2 DEF IsRecord
<1>4. CASE act' = [act EXCEPT !["sweep"] = Idle] /\ lock' = "free"
  <2>1. World'
    BY <1>2, <1>4 DEF World
  <2>2. Locked'
    BY <1>2, <1>4, IdleIs DEF Locked, Ordered
  <2> QED BY <1>2, <1>4, <2>1, <2>2, IdleIs DEF PaperInv
<1>5. ASSUME NEW s, SweepHas(pos', s), s.at \in Ordered, act' = [act EXCEPT !["sweep"] = s], lock' = "sweep"
      PROVE  PaperInv'
  <2>1. World'
    BY <1>2, <1>5 DEF World
  <2>2. Locked'
    BY <1>2, <1>5 DEF Locked
  <2> QED BY <1>2, <1>5, <2>1, <2>2 DEF PaperInv
<1> QED BY <1>4, <1>5

\* What an order's outcome does.
LEMMA SettleKeeps ==
  ASSUME PaperInv, NEW a \in Actors, act[a].at \in Ordered, NEW f, f.live \in BOOLEAN,
         OrderDone(pos, a, act[a], f), NoKill', stop' = stop
  PROVE  PaperInv'
<1>1. StopsKept'
  BY DEF PaperInv, World, StopsKept
<1>2. CASE a = "tick"
  <2>1. TickHas(pos, act["tick"]) /\ IsPosition(pos)
    BY <1>2, OneAtWork DEF PaperInv
  <2>2. TickAsks(pos, act["tick"])
    BY <1>2, <2>1 DEF TickAsks, TickHas, ForExchange, IsLive
  <2>3. TickMoves
    BY <1>2, <2>2, OrderDoneMoves
  <2> QED BY <1>1, <1>2, <2>3, OneAtWork, TickMovesKeep
<1>3. CASE a = "sweep"
  <2> DEFINE s == act["sweep"]
  <2>1. SweepHas(pos, s) /\ s.kind = "protect" /\ IsPosition(pos)
    BY <1>3, OneAtWork DEF PaperInv, SweepHas
  <2>2. ProtectDone(pos, "sweep", s, f)
    BY <1>3, <2>1 DEF OrderDone, EntryDone, ExitDone, CloseDone
  <2> DEFINE c == s.cur
             d == [c EXCEPT !.qty = @ - Least(f.got, c.qty)]
  <2>3. IsPosition(d)
    BY <2>1, PositionChanges DEF SweepHas
  <2> HIDE DEF s
  <2>4. pos' \in {pos, NoPos, d} /\ End("sweep")
    BY <2>2 DEF ProtectDone
  <2>5. act' = [act EXCEPT !["sweep"] = Idle] /\ lock' = "free"
    BY <2>4 DEF End
  <2>6. IsPosition(pos')
    BY <2>1, <2>3, <2>4, NoPosIs
  <2> QED BY <1>1, <1>3, <2>5, <2>6, OneAtWork, SweepMovesKeep
<1>4. a # "halt"
  BY OneAtWork
<1> QED BY <1>2, <1>3, <1>4 DEF Actors

\* An order that goes on, whatever it has noted of its outcome.
LEMMA AskKeeps ==
  ASSUME PaperInv, NEW a \in Actors, act[a].at \in Ordered, NEW r, IsRecord(r, RecordFields),
         r.at \in Ordered, r.cur = act[a].cur, r.kind = act[a].kind,
         Suspend(a, r), pos' = pos, NoKill', stop' = stop
  PROVE  PaperInv'
<1>1. StopsKept'
  BY DEF PaperInv, World, StopsKept
<1>2. CASE a = "tick"
  <2>1. TickHas(pos, act["tick"]) /\ IsPosition(pos)
    BY <1>2, OneAtWork DEF PaperInv
  <2>2. TickHas(pos', r)
    BY <1>2, <2>1 DEF TickHas, TickStages, Ordered, ForExchange
  <2>3. TickMoves
    BY <1>2, <2>1, <2>2, TickSuspends
  <2> QED BY <1>1, <1>2, <2>3, OneAtWork, TickMovesKeep
<1>3. CASE a = "sweep"
  <2>1. SweepHas(pos, act["sweep"]) /\ IsPosition(pos)
    BY <1>3, OneAtWork DEF PaperInv
  <2>2. SweepHas(pos', r) /\ IsPosition(pos')
    BY <1>3, <2>1 DEF SweepHas
  <2>3. act' = [act EXCEPT !["sweep"] = r] /\ lock' = "sweep"
    BY <1>3 DEF Suspend
  <2> QED BY <1>1, <1>3, <2>2, <2>3, OneAtWork, SweepMovesKeep
<1>4. a # "halt"
  BY OneAtWork
<1> QED BY <1>2, <1>3, <1>4 DEF Actors

-----------------------------------------------------------------------------
(* One lemma per action.                                                   *)

LEMMA AskedRecord ==
  ASSUME PaperInv, NEW a \in Actors, act[a].at \in Ordered \cup {"sync", "drop"}
  PROVE  IsRecord(act[a], RecordFields) /\ a # "halt"
<1>1. act[a].at # "idle" /\ a # "halt"
  BY OneAtWork DEF Ordered
<1>2. a = "sweep" => act[a].at \in Ordered
  BY <1>1 DEF PaperInv, SweepHas, Ordered
<1> QED BY <1>1, <1>2 DEF PaperInv, TickHas, SweepHas, Actors

LEMMA SettleActionKeeps ==
  ASSUME PaperInv, NEW a \in Actors, act[a].at \in Ordered, AnyTrouble, NEW f, f.live \in BOOLEAN, Settle(a, f)
  PROVE  PaperInv'
<1>1. NoKill'
  BY TroubleKeeps DEF PaperInv, World
<1>2. OrderDone(pos, a, act[a], f) /\ stop' = stop
  BY DEF Settle, exchangeVars
<1> QED BY <1>1, <1>2, SettleKeeps

LEMMA ProceedKeeps ==
  ASSUME PaperInv, NEW a \in Actors, act[a].at \in Ordered, AnyTrouble, NEW stage \in Ordered, Proceed(a, stage)
  PROVE  PaperInv'
<1> DEFINE r == [act[a] EXCEPT !.at = stage]
<1>1. NoKill'
  BY TroubleKeeps DEF PaperInv, World
<1>2. IsRecord(act[a], RecordFields)
  BY AskedRecord
<1>3. IsRecord(r, RecordFields) /\ r.at = stage /\ r.cur = act[a].cur /\ r.kind = act[a].kind
  BY <1>2 DEF IsRecord, RecordFields
<1>4. Suspend(a, r) /\ pos' = pos /\ stop' = stop
  BY DEF Proceed, storeVars, exchangeVars
<1> HIDE DEF r
<1> QED BY <1>1, <1>3, <1>4, AskKeeps

LEMMA OrderActionsKeep ==
  ASSUME PaperInv, NEW a \in Actors, Precheck(a) \/ NotExecuted(a) \/ Answered(a) \/ AnswerLost(a) \/ LookedUp(a)
  PROVE  PaperInv'
<1>1. act[a].at \in Ordered
  BY DEF Precheck, NotExecuted, Answered, AnswerLost, LookedUp, Ordered
<1>2. AnyTrouble
  BY Faults DEF Precheck, NotExecuted, Answered, AnswerLost, LookedUp, AnyTrouble
<1>3. "send" \in Ordered /\ "lookup" \in Ordered
  BY DEF Ordered
<1>4. CASE Precheck(a)
  <2>1. Settle(a, Filled(Found(a).exec)) \/ Proceed(a, "send")
    BY <1>4 DEF Precheck
  <2> QED BY <1>1, <1>2, <1>3, <2>1, OutcomesLive, SettleActionKeeps, ProceedKeeps
<1>5. CASE NotExecuted(a)
  <2>1. Proceed(a, "lookup")
    BY <1>5 DEF NotExecuted
  <2> QED BY <1>1, <1>2, <1>3, <2>1, ProceedKeeps
<1>6. CASE Answered(a)
  <2>1. Settle(a, Filled(act[a].got))
    BY <1>6 DEF Answered
  <2> QED BY <1>1, <1>2, <2>1, OutcomesLive, SettleActionKeeps
<1>7. CASE AnswerLost(a)
  <2>1. Proceed(a, "lookup")
    BY <1>7 DEF AnswerLost
  <2> QED BY <1>1, <1>2, <1>3, <2>1, ProceedKeeps
<1>8. CASE LookedUp(a)
  <2>1. Settle(a, Filled(Found(a).exec)) \/ Settle(a, Blocked(act[a])) \/ Settle(a, OutcomeUnknown)
    BY <1>8 DEF LookedUp
  <2> QED BY <1>1, <1>2, <2>1, OutcomesLive, SettleActionKeeps
<1> QED BY <1>4, <1>5, <1>6, <1>7, <1>8

LEMMA ExecutedKeeps ==
  ASSUME PaperInv, NEW a \in Actors, Executed(a)
  PROVE  PaperInv'
<1>1. act[a].at \in Ordered
  BY DEF Executed, Ordered
<1>2. PICK n : /\ NoTrouble \/ Trouble("partial")
               /\ Suspend(a, [act[a] EXCEPT !.at = "answer", !.got = n])
  BY DEF Executed
<1>3. pos' = pos /\ stop' = stop
  BY DEF Executed, storeVars
<1> DEFINE r == [act[a] EXCEPT !.at = "answer", !.got = n]
<1>4. NoKill'
  BY <1>2, Faults, TroubleKeeps DEF PaperInv, World, AnyTrouble
<1>5. IsRecord(act[a], RecordFields)
  BY <1>1, AskedRecord
<1>6. IsRecord(r, RecordFields) /\ r.at = "answer" /\ r.cur = act[a].cur /\ r.kind = act[a].kind
  BY <1>5 DEF IsRecord, RecordFields
<1>7. Suspend(a, r)
  BY <1>2
<1>8. "answer" \in Ordered
  BY DEF Ordered
<1> HIDE DEF r
<1> QED BY <1>1, <1>3, <1>4, <1>6, <1>7, <1>8, AskKeeps

\* The stages of the tick that are not an order's.
LEMMA AtWork ==
  ASSUME PaperInv, act["tick"].at # "idle"
  PROVE  /\ TickHas(pos, act["tick"]) /\ IsPosition(pos) /\ act["sweep"].at \notin Ordered
         /\ Agrees(pos, act["tick"], act["tick"].cur)
  BY OneAtWork DEF PaperInv, Agrees, TickHas

LEMMA TickActionKeeps ==
  ASSUME PaperInv, act["tick"].at # "idle", TickMoves, AnyTrouble, stop' = stop
  PROVE  PaperInv'
<1>1. NoKill'
  BY TroubleKeeps DEF PaperInv, World
<1>2. StopsKept'
  BY DEF PaperInv, World, StopsKept
<1> QED BY <1>1, <1>2, AtWork, TickMovesKeep

LEMMA StopRequestsKeep ==
  ASSUME PaperInv, NEW a \in Actors, NEW r, IsRecord(r, RecordFields),
         act[a].at \in {"sync", "drop"}, r.at = act[a].at, r.cur = act[a].cur,
         Suspend(a, r), pos' = pos, NoKill', StopsKept'
  PROVE  PaperInv'
<1>1. a = "tick"
  <2>1. act["sweep"].at \notin {"sync", "drop"}
    BY DEF PaperInv, SweepHas, Ordered
  <2> QED BY <2>1, AskedRecord DEF Actors
<1>2. act["tick"].at # "idle"
  BY <1>1
<1>3. TickHas(pos', r) /\ IsPosition(pos')
  BY <1>1, <1>2, AtWork DEF TickHas, Ordered
<1>4. TickMoves
  BY <1>1, <1>3, TickSuspends
<1> QED BY <1>2, <1>4, AtWork, TickMovesKeep

LEMMA StopSetKeeps ==
  ASSUME StopsKept, NEW l \in Levels, NEW q,
         stop' \in {stop, [stop EXCEPT ![l].state = "cancelled"], [stop EXCEPT ![l].state = "filled"],
                    [stop EXCEPT ![l] = [state |-> "resting", qty |-> q]]}
  PROVE  StopsKept'
<1>1. CASE stop' = stop
  BY <1>1 DEF StopsKept
<1>2. ASSUME NEW v, stop' = [stop EXCEPT ![l].state = v] PROVE StopsKept'
  <2> DEFINE x == [stop[l] EXCEPT !.state = v]
  <2>1. IsRecord(x, {"state", "qty"})
    BY DEF StopsKept, IsRecord
  <2>2. stop' = [stop EXCEPT ![l] = x]
    BY <1>2
  <2> HIDE DEF x
  <2> QED BY <2>1, <2>2 DEF StopsKept, IsRecord
<1>3. CASE stop' = [stop EXCEPT ![l] = [state |-> "resting", qty |-> q]]
  <2> DEFINE x == [state |-> "resting", qty |-> q]
  <2>1. IsRecord(x, {"state", "qty"})
    BY DEF IsRecord
  <2>2. stop' = [stop EXCEPT ![l] = x]
    BY <1>3
  <2> HIDE DEF x
  <2> QED BY <2>1, <2>2 DEF StopsKept, IsRecord
<1> QED BY <1>1, <1>2, <1>3

LEMMA CancelStopKeeps ==
  ASSUME PaperInv, NEW a \in Actors, NEW l \in Levels, CancelStop(a, l)
  PROVE  PaperInv'
<1> DEFINE c == [act[a] EXCEPT !.cancel = @ \ {l}]
           d == [c EXCEPT !.ids = @ \ {l}]
           e == [c EXCEPT !.ids = @ \cup {l}]
           g == [c EXCEPT !.ids = @]
<1>1. act[a].at \in {"sync", "drop"} /\ pos' = pos
  BY DEF CancelStop, storeVars
<1>2. IsRecord(act[a], RecordFields)
  BY <1>1, AskedRecord
<1>3. IsRecord(c, RecordFields) /\ c.at = act[a].at /\ c.cur = act[a].cur
  BY <1>2 DEF IsRecord, RecordFields
<1>4. \/ /\ NoTrouble /\ stop' = [stop EXCEPT ![l].state = "cancelled"]
         /\ Suspend(a, [c EXCEPT !.ids = IF act[a].at = "sync" THEN @ \ {l} ELSE @])
      \/ (NoTrouble \/ Trouble("cancel")) /\ stop' = stop /\ Suspend(a, e)
  BY DEF CancelStop
<1> HIDE DEF c
<1>5. /\ IsRecord(d, RecordFields) /\ d.at = c.at /\ d.cur = c.cur
      /\ IsRecord(e, RecordFields) /\ e.at = c.at /\ e.cur = c.cur
      /\ IsRecord(g, RecordFields) /\ g.at = c.at /\ g.cur = c.cur
  BY <1>3 DEF IsRecord, RecordFields
<1>6. Suspend(a, d) \/ Suspend(a, e) \/ Suspend(a, g)
  BY <1>4
<1>7. NoKill'
  BY <1>4, Faults, TroubleKeeps DEF PaperInv, World, AnyTrouble
<1>8. StopsKept'
  BY <1>4, StopSetKeeps DEF PaperInv, World
<1> HIDE DEF d, e, g
<1> QED BY <1>1, <1>3, <1>5, <1>6, <1>7, <1>8, StopRequestsKeep

LEMMA PlaceStopKeeps ==
  ASSUME PaperInv, NEW a \in Actors, PlaceStop(a)
  PROVE  PaperInv'
<1> DEFINE r == act[a]
           l == r.cur.level
           placed == [stop EXCEPT ![l] = [state |-> "resting", qty |-> r.cur.qty]]
           d == [r EXCEPT !.place = FALSE, !.ids = @ \cup {l}]
           e == [r EXCEPT !.place = FALSE, !.failed = TRUE]
<1>1. r.at = "sync" /\ pos' = pos
  BY DEF PlaceStop, storeVars
<1>2. IsRecord(r, RecordFields)
  BY <1>1, AskedRecord
<1>3. /\ IsRecord(d, RecordFields) /\ d.at = r.at /\ d.cur = r.cur
      /\ IsRecord(e, RecordFields) /\ e.at = r.at /\ e.cur = r.cur
  BY <1>2 DEF IsRecord, RecordFields
<1>4. /\ NoTrouble \/ Trouble("refuse") \/ Trouble("lost")
      /\ stop' \in {stop, placed}
      /\ Suspend(a, d) \/ Suspend(a, e)
  BY DEF PlaceStop
<1>5. NoKill'
  BY <1>4, Faults, TroubleKeeps DEF PaperInv, World, AnyTrouble
<1>6. StopsKept'
  <2>1. CASE l \in Levels
    <3>1. StopsKept
      BY DEF PaperInv, World
    <3>2. PICK k \in Levels : k = l
      BY <2>1
    <3>3. stop' \in {stop, [stop EXCEPT ![k] = [state |-> "resting", qty |-> r.cur.qty]]}
      BY <1>4, <3>2
    <3> QED BY <3>1, <3>3, StopSetKeeps
  <2>2. CASE l \notin Levels
    <3>1. placed = stop
      BY <2>2 DEF PaperInv, World, StopsKept, IsRecord
    <3> QED BY <1>4, <3>1 DEF PaperInv, World, StopsKept
  <2> QED BY <2>1, <2>2
<1> HIDE DEF d, e
<1> QED BY <1>1, <1>3, <1>4, <1>5, <1>6, StopRequestsKeep

LEMMA SyncDoneKeeps ==
  ASSUME PaperInv, NEW a \in Actors, SyncDone(a)
  PROVE  PaperInv'
<1> DEFINE r == act[a]
           n == AfterSync(r)
<1>1. r.at = "sync" /\ NoTrouble /\ stop' = stop
  BY DEF SyncDone, exchangeVars
<1>2. a = "tick"
  BY <1>1, AskedRecord DEF Actors, PaperInv, SweepHas, Ordered
<1>3. TickHas(pos, r) /\ IsPosition(pos) /\ r.at # "idle"
  BY <1>1, <1>2, AtWork
<1>4. IsPosition(n)
  BY <1>3, AfterSyncIs DEF TickHas
<1>5. \/ GoSeed(n, r, n)
      \/ pos' \in {pos, n} /\ End(a)
  BY DEF SyncDone, SaveAndEnd
<1>6. ASSUME GoSeed(n, r, n) PROVE TickMoves
  <2> HIDE DEF r, n
  <2>1. Agrees(n, r, n)
    BY <1>3, <1>4 DEF Agrees, TickHas
  <2> QED BY <1>6, <2>1, GoSeedMoves
<1>7. ASSUME pos' \in {pos, n}, End(a) PROVE TickMoves
  BY <1>2, <1>3, <1>4, <1>7, TickEnds
<1>8. AnyTrouble
  BY <1>1 DEF AnyTrouble
<1>9. act["tick"].at # "idle"
  BY <1>2, <1>3
<1>10. stop' = stop
  BY <1>1
<1> HIDE DEF r, n
<1>11. TickMoves
  BY <1>5, <1>6, <1>7
<1> QED BY <1>8, <1>9, <1>10, <1>11, TickActionKeeps

LEMMA TickStartsKeeps ==
  ASSUME PaperInv, TickStarts
  PROVE  PaperInv'
<1> DEFINE r == Record(pos, 0, 0)
<1>1. IsRecord(r, RecordFields) /\ r.at = "bars" /\ r.cur = pos
  BY RecordIs
<1>2. Suspend("tick", r) /\ lock = "free" /\ pos' = pos /\ stop' = stop /\ left' = left
  BY DEF TickStarts, storeVars, exchangeVars
<1> HIDE DEF r
<1>3. TickHas(pos', r) /\ IsPosition(pos')
  BY <1>1, <1>2 DEF TickHas, TickStages, Ordered, PaperInv
<1>4. TickMoves
  BY <1>2, <1>3, TickSuspends
<1>5. NoKill' /\ StopsKept' /\ act["sweep"].at \notin Ordered
  BY <1>2 DEF PaperInv, World, NoKill, StopsKept, Locked
<1> QED BY <1>4, <1>5, TickMovesKeep

LEMMA BarsFailKeeps ==
  ASSUME PaperInv, BarsFail
  PROVE  PaperInv'
<1>1. act["tick"].at # "idle" /\ AnyTrouble /\ stop' = stop
  BY Faults DEF BarsFail, TickAt, T, AnyTrouble, exchangeVars
<1>2. pos' \in {pos, act["tick"].cur} /\ End("tick")
  BY DEF BarsFail, T
<1>3. IsPosition(pos')
  BY <1>1, <1>2, AtWork DEF TickHas
<1> QED BY <1>1, <1>2, <1>3, TickEnds, TickActionKeeps

LEMMA BarsArriveKeeps ==
  ASSUME PaperInv, BarsArrive
  PROVE  PaperInv'
<1> DEFINE t == act["tick"]
           r == [t EXCEPT !.bar = bar, !.want = want]
<1>1. t.at # "idle" /\ AnyTrouble /\ stop' = stop
  BY DEF BarsArrive, TickAt, T, AnyTrouble, exchangeVars
<1>2. Agrees(pos, t, t.cur)
  BY <1>1, AtWork
<1>3. IsRecord(r, RecordFields) /\ r.cur = t.cur
  BY <1>2 DEF Agrees, IsRecord, RecordFields
<1>4. \/ pos' = t.cur /\ End("tick")
      \/ pos' = pos /\ t.cur.kind = "marker" /\ Suspend("tick", [r EXCEPT !.at = "unknown"])
      \/ GoSeed(pos, r, t.cur)
  BY DEF BarsArrive, T, storeVars
<1>5. ASSUME pos' = t.cur, End("tick") PROVE TickMoves
  BY <1>2, <1>5, TickEnds DEF Agrees
<1>6. ASSUME GoSeed(pos, r, t.cur) PROVE TickMoves
  <2>1. Agrees(pos, r, t.cur)
    BY <1>2, <1>3 DEF Agrees
  <2> HIDE DEF r, t
  <2> QED BY <1>6, <2>1, GoSeedMoves
<1>7. ASSUME pos' = pos, t.cur.kind = "marker", Suspend("tick", [r EXCEPT !.at = "unknown"])
      PROVE  TickMoves
  <2> DEFINE s == [r EXCEPT !.at = "unknown"]
  <2> HIDE DEF r
  <2>1. IsRecord(s, RecordFields) /\ s.at = "unknown" /\ s.cur = t.cur
    BY <1>3 DEF IsRecord, RecordFields
  <2>2. Suspend("tick", s)
    BY <1>7
  <2> HIDE DEF s
  <2>3. TickHas(pos', s) /\ IsPosition(pos')
    BY <1>2, <1>7, <2>1 DEF TickHas, TickStages, Ordered, Agrees
  <2> QED BY <2>2, <2>3, TickSuspends
<1> HIDE DEF r
<1> QED BY <1>1, <1>4, <1>5, <1>6, <1>7, TickActionKeeps

LEMMA MissedMoves ==
  ASSUME NEW m, IsPosition(m), m.kind = "marker", IsRecord(act["tick"], RecordFields), Missed(m)
  PROVE  TickMoves
<1> DEFINE d == [m EXCEPT !.misses = @ + 1]
<1>1. CASE GoSeed(NoPos, act["tick"], NoPos)
  <2>1. Agrees(NoPos, act["tick"], NoPos)
    BY NoPosIs DEF Agrees
  <2> QED BY <1>1, <2>1, GoSeedMoves
<1>2. CASE pos' = d /\ End("tick")
  <2>1. IsPosition(d)
    BY PositionChanges
  <2> QED BY <1>2, <2>1, TickEnds
<1> QED BY <1>1, <1>2 DEF Missed, T

LEMMA AdoptMoves ==
  ASSUME NEW m, IsRecord(act["tick"], RecordFields), Adopt(m)
  PROVE  TickMoves
<1> DEFINE t == act["tick"]
<1>1. ASSUME NEW n, NEW level, LET c == Open(n, TRUE, level, {}, FALSE)
                                   s == Synced([t EXCEPT !.kind = "adopt"], c, {}, TRUE)
                               IN  pos' = c /\ Suspend("tick", [s EXCEPT !.at = "sync"])
      PROVE  TickMoves
  <2> DEFINE c == Open(n, TRUE, level, {}, FALSE)
             u == [t EXCEPT !.kind = "adopt"]
             s == Synced(u, c, {}, TRUE)
             v == [s EXCEPT !.at = "sync"]
  <2>1. IsPosition(c)
    BY OpenIs
  <2>2. IsRecord(u, RecordFields)
    BY DEF IsRecord, RecordFields
  <2>3. pos' = c /\ Suspend("tick", v)
    BY <1>1
  <2> HIDE DEF c, u
  <2>4. IsRecord(s, RecordFields) /\ s.cur = c
    <3>1. \A live : IsRecord(Synced(u, c, {}, live), RecordFields) /\ Synced(u, c, {}, live).cur = c
      BY <2>2, SyncedIs
    <3> QED BY <3>1
  <2> HIDE DEF s
  <2>5. IsRecord(v, RecordFields) /\ v.at = "sync" /\ v.cur = c
    BY <2>4 DEF IsRecord, RecordFields
  <2> HIDE DEF v
  <2>6. TickHas(pos', v) /\ IsPosition(pos')
    BY <2>1, <2>3, <2>5 DEF TickHas, TickStages, Ordered
  <2> QED BY <2>3, <2>6, TickSuspends
<1>2. ASSUME NEW c, IsPosition(c), GoSeed(c, t, c) PROVE TickMoves
  <2>1. Agrees(c, t, c)
    BY <1>2 DEF Agrees
  <2> QED BY <1>2, <2>1, GoSeedMoves
<1>3. \/ \E level \in Levels : LET c == Open(Least(Held, m.want), TRUE, level, {}, FALSE)
                                   s == Synced([t EXCEPT !.kind = "adopt"], c, {}, TRUE)
                               IN  pos' = c /\ Suspend("tick", [s EXCEPT !.at = "sync"])
      \/ \E level \in Levels : LET c == Open(ledger, TRUE, level, {}, FALSE) IN GoSeed(c, t, c)
      \/ GoSeed(NoPos, t, NoPos)
  BY DEF Adopt, T
<1>4. ASSUME NEW level, LET c == Open(ledger, TRUE, level, {}, FALSE) IN GoSeed(c, t, c)
      PROVE  TickMoves
  <2> DEFINE c == Open(ledger, TRUE, level, {}, FALSE)
  <2>1. IsPosition(c)
    BY OpenIs
  <2>2. GoSeed(c, t, c)
    BY <1>4
  <2> HIDE DEF c, t
  <2> QED BY <1>2, <2>1, <2>2
<1>5. CASE GoSeed(NoPos, t, NoPos)
  <2> HIDE DEF t
  <2> QED BY <1>2, <1>5, NoPosIs
<1> QED BY <1>1, <1>3, <1>4, <1>5

LEMMA UnknownResolvedKeeps ==
  ASSUME PaperInv, UnknownResolved
  PROVE  PaperInv'
<1> DEFINE t == act["tick"]
<1>1. t.at = "unknown" /\ t.at # "idle" /\ AnyTrouble /\ stop' = stop
  BY Faults DEF UnknownResolved, TickAt, T, AnyTrouble, exchangeVars
<1>2. IsRecord(t, RecordFields) /\ IsPosition(t.cur) /\ t.cur.kind = "marker"
  BY <1>1, AtWork DEF TickHas
<1>3. Missed(t.cur) \/ Adopt(t.cur)
  BY DEF UnknownResolved, T
<1>4. TickMoves
  BY <1>2, <1>3, MissedMoves, AdoptMoves
<1> QED BY <1>1, <1>4, TickActionKeeps

LEMMA SeededKeeps ==
  ASSUME PaperInv, Seeded
  PROVE  PaperInv'
<1> DEFINE t == act["tick"]
<1>1. t.at # "idle" /\ AnyTrouble /\ stop' = stop
  BY Faults DEF Seeded, TickAt, T, AnyTrouble, exchangeVars
<1>2. Agrees(pos, t, t.cur)
  BY <1>1, AtWork
<1>3. ASSUME GoForce(pos, t, t.cur) PROVE TickMoves
  BY <1>2, <1>3, GoForceMoves
<1>4. ASSUME NEW level, LET c == Open(Least(Held, ledger), TRUE, level, {}, FALSE) IN GoForce(c, t, c)
      PROVE  TickMoves
  <2> DEFINE c == Open(Least(Held, ledger), TRUE, level, {}, FALSE)
  <2>1. IsPosition(c)
    BY OpenIs
  <2>2. Agrees(c, t, c)
    BY <1>2, <2>1 DEF Agrees
  <2>3. GoForce(c, t, c)
    BY <1>4
  <2> HIDE DEF c, t
  <2> QED BY <2>2, <2>3, GoForceMoves
<1>5. \/ GoForce(pos, t, t.cur)
      \/ \E level \in Levels : LET c == Open(Least(Held, ledger), TRUE, level, {}, FALSE) IN GoForce(c, t, c)
  BY DEF Seeded, T
<1>6. TickMoves
  BY <1>3, <1>4, <1>5
<1> QED BY <1>1, <1>6, TickActionKeeps

LEMMA ReconciledIs ==
  ASSUME NEW c, IsPosition(c)
  PROVE  IsPosition(Reconciled(c))
<1> DEFINE d == [c EXCEPT !.unknown = 0]
           e == Open(Least(Held, Larger(c.qty, ledger)), TRUE, c.level, c.stops, c.naked)
           m == [c EXCEPT !.misses = @ + 1]
<1>1. IsPosition(d) /\ IsPosition(m)
  BY PositionChanges
<1>2. IsPosition(e)
  BY OpenIs
<1>3. Reconciled(c) \in {d, e, m, NoPos}
  BY DEF Reconciled
<1> HIDE DEF d, e, m
<1> QED BY <1>1, <1>2, <1>3, NoPosIs

LEMMA ForcedKeeps ==
  ASSUME PaperInv, Forced
  PROVE  PaperInv'
<1> DEFINE t == act["tick"]
           c == Reconciled(t.cur)
<1>1. t.at # "idle" /\ AnyTrouble /\ stop' = stop
  BY Faults DEF Forced, TickAt, T, AnyTrouble, exchangeVars
<1>2. Agrees(pos, t, t.cur)
  BY <1>1, AtWork
<1>3. Agrees(c, t, c)
  BY <1>2, ReconciledIs DEF Agrees
<1>4. GoStops(pos, t, t.cur) \/ GoStops(c, t, c)
  BY DEF Forced, T
<1> HIDE DEF c
<1>5. TickMoves
  BY <1>2, <1>3, <1>4, GoStopsMoves
<1> QED BY <1>1, <1>5, TickActionKeeps

LEMMA BookFillsMoves ==
  ASSUME NEW r, Agrees(pos, r, r.cur), BookFills(r)
  PROVE  TickMoves
<1> DEFINE c == r.cur
           n == Least(c.qty, MapThenSumSet(LAMBDA l : stop[l].qty, r.filled))
           d == [c EXCEPT !.qty = @ - n]
           e == [d EXCEPT !.stops = r.ids]
<1>1. IsPosition(d)
  BY PositionChanges DEF Agrees
<1>2. IsPosition(e)
  <2> HIDE DEF d
  <2> QED BY <1>1, PositionChanges
<1>3. \/ pos' \in {NoPos, e} /\ End("tick")
      \/ Decide(pos, r, c)
  <2> HIDE DEF n
  <2> QED BY DEF BookFills, n
<1> HIDE DEF n, d, e
<1>4. ASSUME pos' \in {NoPos, e}, End("tick") PROVE TickMoves
  BY <1>2, <1>4, NoPosIs, TickEnds
<1>5. ASSUME Decide(pos, r, c) PROVE TickMoves
  BY <1>5, DecideMoves
<1> QED BY <1>3, <1>4, <1>5

LEMMA StopsSeenKeeps ==
  ASSUME PaperInv, StopsSeen
  PROVE  PaperInv'
<1> DEFINE t == act["tick"]
<1>1. t.at = "stops" /\ t.at # "idle" /\ stop' = stop
  BY DEF StopsSeen, TickAt, T, exchangeVars
<1>2. Agrees(pos, t, t.cur) /\ IsLive(t.cur)
  BY <1>1, AtWork DEF TickHas
<1> DEFINE Done(dark) == {l \in t.cur.stops \ dark : stop[l].state = "filled"}
           R(dark) == [t EXCEPT !.filled = Done(dark), !.ids = dark, !.cancel = t.cur.stops \ (dark \cup Done(dark))]
<1>3. PICK dark : /\ NoTrouble \/ Trouble("query")
                  /\ \/ Decide(pos, t, t.cur)
                     \/ BookFills(R(dark))
                     \/ Suspend("tick", [R(dark) EXCEPT !.at = "drop"]) /\ pos' = pos
  BY DEF StopsSeen, T, storeVars
<1> DEFINE r == R(dark)
<1>4. IsRecord(r, RecordFields) /\ r.cur = t.cur
  BY <1>2 DEF IsRecord, RecordFields, Agrees
<1> HIDE DEF R, t
<1>5. ASSUME Decide(pos, t, t.cur) PROVE TickMoves
  BY <1>2, <1>5, DecideMoves
<1>6. ASSUME BookFills(r) PROVE TickMoves
  <2>1. Agrees(pos, r, r.cur)
    BY <1>2, <1>4 DEF Agrees
  <2> QED BY <1>6, <2>1, BookFillsMoves
<1>7. ASSUME Suspend("tick", [r EXCEPT !.at = "drop"]), pos' = pos PROVE TickMoves
  <2> DEFINE s == [r EXCEPT !.at = "drop"]
  <2>1. IsRecord(s, RecordFields) /\ s.at = "drop" /\ s.cur = t.cur
    BY <1>4 DEF IsRecord, RecordFields
  <2>2. Suspend("tick", s)
    BY <1>7
  <2> HIDE DEF s
  <2>3. TickHas(pos', s) /\ IsPosition(pos')
    BY <1>2, <1>7, <2>1 DEF TickHas, TickStages, Ordered, Agrees
  <2> QED BY <2>2, <2>3, TickSuspends
<1>8. TickMoves
  BY <1>3, <1>5, <1>6, <1>7
<1>9. AnyTrouble
  BY <1>3, Faults DEF AnyTrouble
<1>10. act["tick"].at # "idle"
  BY <1>1 DEF t
<1> QED BY <1>1, <1>8, <1>9, <1>10, TickActionKeeps

LEMMA StopsBookedKeeps ==
  ASSUME PaperInv, StopsBooked
  PROVE  PaperInv'
<1> DEFINE t == act["tick"]
<1>1. t.at # "idle" /\ AnyTrouble /\ stop' = stop
  BY DEF StopsBooked, TickAt, T, AnyTrouble, exchangeVars
<1>2. Agrees(pos, t, t.cur)
  BY <1>1, AtWork
<1>3. BookFills(t)
  BY DEF StopsBooked, T
<1>4. TickMoves
  BY <1>2, <1>3, BookFillsMoves
<1> QED BY <1>1, <1>4, TickActionKeeps

\* The sweep has looked, or gives up looking: nobody's lock changes hands.
LEMMA SweepWaits ==
  ASSUME PaperInv, act["sweep"].at \notin Ordered, NEW s, s.at \notin Ordered,
         s.at # "idle" => SweepHas(pos', s), act' = [act EXCEPT !["sweep"] = s],
         IsPosition(pos'), IsPaper(pos') => IsPaper(pos), lock' = lock, NoKill', StopsKept'
  PROVE  PaperInv'
<1>1. IsRecord(act, Actors) /\ act["halt"] = Idle /\ {"tick", "sweep", "halt"} = Actors
  BY DEF PaperInv, World, Actors
<1>2. IsRecord(act', Actors) /\ act'["sweep"] = s /\ act'["halt"] = Idle /\ act'["tick"] = act["tick"]
  BY <1>1 DEF IsRecord
<1>3. World' /\ Locked'
  BY <1>1, <1>2 DEF PaperInv, World, Locked
<1>4. act["tick"].at # "idle" => TickHas(pos', act["tick"])
  BY DEF PaperInv, TickHas
<1> QED BY <1>2, <1>3, <1>4 DEF PaperInv

LEMMA SweepLooksKeeps ==
  ASSUME PaperInv, SweepLooks
  PROVE  PaperInv'
<1> DEFINE s == [at |-> "price", cur |-> pos]
<1>1. /\ act["sweep"].at = "idle" /\ IsLive(pos) /\ left' = left /\ stop' = stop /\ lock' = lock /\ pos' = pos
      /\ act' = [act EXCEPT !["sweep"] = s]
  BY DEF SweepLooks, Possible, NoTrouble, storeVars, exchangeVars
<1>2. s.at = "price" /\ s.cur = pos
  OBVIOUS
<1> HIDE DEF s
<1>3. SweepHas(pos', s) /\ IsPosition(pos')
  BY <1>1, <1>2 DEF SweepHas, PaperInv, Ordered
<1>4. NoKill' /\ StopsKept'
  BY <1>1 DEF PaperInv, World, NoKill, StopsKept
<1>5. "idle" \notin Ordered /\ "price" \notin Ordered
  BY DEF Ordered
<1> QED BY <1>1, <1>2, <1>3, <1>4, <1>5, SweepWaits

LEMMA SweepPassesKeeps ==
  ASSUME PaperInv, SweepPasses
  PROVE  PaperInv'
<1>1. /\ act["sweep"].at = "price" /\ left' = left /\ stop' = stop /\ lock' = lock
      /\ pos' \in {pos, act["sweep"].cur} /\ act' = [act EXCEPT !["sweep"] = Idle]
  BY DEF SweepPasses, exchangeVars
<1>2. SweepHas(pos, act["sweep"]) /\ IsPosition(pos)
  BY <1>1 DEF PaperInv
<1>3. IsPosition(pos') /\ (IsPaper(pos') => IsPaper(pos))
  BY <1>1, <1>2 DEF SweepHas, IsPaper, IsLive
<1>4. NoKill' /\ StopsKept'
  BY <1>1 DEF PaperInv, World, NoKill, StopsKept
<1>5. "idle" \notin Ordered /\ "price" \notin Ordered /\ Idle.at = "idle"
  BY DEF Ordered, Idle
<1> QED BY <1>1, <1>3, <1>4, <1>5, SweepWaits

LEMMA SweepSellsKeeps ==
  ASSUME PaperInv, SweepSells
  PROVE  PaperInv'
<1> DEFINE r == [Record(pos, bar, 0) EXCEPT !.side = "sell", !.qty = pos.qty, !.chan = "live", !.kind = "protect"]
           s == [r EXCEPT !.at = "precheck"]
<1>1. act["sweep"].at = "price" /\ lock = "free" /\ IsLive(pos) /\ left' = left /\ stop' = stop
  BY DEF SweepSells, exchangeVars
<1>2. StartOrder(pos, "sweep", r)
  BY DEF SweepSells
<1>3. IsRecord(r, RecordFields) /\ r.cur = pos /\ r.kind = "protect" /\ r.chan = "live"
  BY DEF Record, IsRecord, RecordFields
<1>4. act["tick"].at = "idle" /\ IsPosition(pos) /\ NoKill' /\ StopsKept'
  BY <1>1 DEF PaperInv, Locked, World, NoKill, StopsKept
<1> HIDE DEF r
<1>5. \/ OrderDone(pos, "sweep", r, Blocked(r))
      \/ pos' = pos /\ Suspend("sweep", s)
  BY <1>2, <1>3 DEF StartOrder
<1>6. ASSUME pos' = pos, Suspend("sweep", s)
      PROVE  PaperInv'
  <2>1. IsRecord(s, RecordFields) /\ s.at = "precheck" /\ s.cur = pos /\ s.kind = "protect"
    BY <1>3 DEF IsRecord, RecordFields
  <2> HIDE DEF s
  <2>2. SweepHas(pos', s) /\ s.at \in Ordered
    BY <1>1, <1>4, <1>6, <2>1 DEF SweepHas, Ordered
  <2>3. act' = [act EXCEPT !["sweep"] = s] /\ lock' = "sweep"
    BY <1>6 DEF Suspend
  <2> QED BY <1>4, <1>6, <2>2, <2>3, SweepMovesKeep
<1>7. ASSUME OrderDone(pos, "sweep", r, Blocked(r))
      PROVE  PaperInv'
  <2> DEFINE f == Blocked(r)
             d == [pos EXCEPT !.qty = @ - Least(f.got, pos.qty)]
  <2>1. ProtectDone(pos, "sweep", r, f)
    BY <1>3, <1>7 DEF OrderDone, EntryDone, ExitDone, CloseDone
  <2>2. IsPosition(d)
    BY <1>4, PositionChanges
  <2> HIDE DEF f
  <2>3. pos' \in {pos, NoPos, d} /\ End("sweep")
    BY <1>3, <2>1 DEF ProtectDone
  <2>4. act' = [act EXCEPT !["sweep"] = Idle] /\ lock' = "free"
    BY <2>3 DEF End
  <2> HIDE DEF d
  <2> QED BY <1>4, <2>2, <2>3, <2>4, NoPosIs, SweepMovesKeep
<1> QED BY <1>5, <1>6, <1>7

LEMMA CrashKeeps ==
  ASSUME PaperInv, Crash
  PROVE  PaperInv'
<1>1. /\ act' = [a \in Actors |-> Idle] /\ lock' = "free" /\ pos' = pos /\ stop' = stop
      /\ AnyTrouble
  BY Faults DEF Crash, storeVars, exchangeVars, AnyTrouble
<1>2. NoKill' /\ StopsKept'
  BY <1>1, TroubleKeeps DEF PaperInv, World, StopsKept
<1>3. IsRecord(act', Actors) /\ act'["halt"] = Idle /\ act'["tick"] = Idle /\ act'["sweep"] = Idle
  BY <1>1 DEF IsRecord, Actors
<1>4. World' /\ Locked'
  BY <1>1, <1>2, <1>3, IdleIs DEF World, Locked, Ordered
<1> QED BY <1>1, <1>3, <1>4, IdleIs DEF PaperInv

LEMMA RestKeeps ==
  ASSUME PaperInv, NoKill', StopsKept', UNCHANGED <<pos, act, lock>>
  PROVE  PaperInv'
  BY DEF PaperInv, World, Locked, TickHas, SweepHas

LEMMA TriggerKeeps ==
  ASSUME PaperInv, NEW l \in Levels, Trigger(l)
  PROVE  PaperInv'
<1>1. stop' = [stop EXCEPT ![l].state = "filled"] /\ left' = left /\ UNCHANGED <<pos, act, lock>>
  BY DEF Trigger, Possible, NoTrouble, storeVars
<1>2. StopsKept'
  BY <1>1, StopSetKeeps DEF PaperInv, World
<1>3. NoKill'
  BY <1>1 DEF PaperInv, World, NoKill
<1> QED BY <1>1, <1>2, <1>3, RestKeeps

\* The kill switch is never pressed.
LEMMA NoHalt == PaperInv => ~HaltStarts /\ ~HaltSells
<1>1. PaperInv => left["halt"] = 0 /\ act["halt"].at = "idle"
  BY IdleIs DEF PaperInv, World, NoKill
<1> QED BY <1>1 DEF HaltStarts, HaltSells, Trouble

LEMMA PaperStart == ASSUME NoKillSwitch, Init PROVE PaperInv
<1>1. NoKill
  <2>1. left \in Budgets /\ left \in [AllFaults -> Nat]
    BY SpotAssumption DEF Init
  <2>2. left["halt"] = 0
    BY <2>1 DEF NoKillSwitch
  <2>3. left = [f \in AllFaults |-> left[f]]
    BY <2>1
  <2> QED BY <2>2, <2>3 DEF NoKill, IsRecord
<1>2. StopsKept
  BY DEF Init, StopsKept, IsRecord, NoStop
<1>3. IsRecord(act, Actors) /\ act["halt"] = Idle /\ act["tick"] = Idle /\ act["sweep"] = Idle
  BY DEF Init, IsRecord, Actors
<1> QED BY <1>1, <1>2, <1>3, IdleIs, NoPosIs DEF Init, PaperInv, World, Locked, Ordered

\* Every step keeps the agreement of the row, the tick's copy and the locks.
LEMMA PaperStep == ASSUME PaperInv, [Next]_vars PROVE PaperInv'
<1>1. CASE Tick
  BY <1>1, TickStartsKeeps, BarsFailKeeps, BarsArriveKeeps, UnknownResolvedKeeps, SeededKeeps, ForcedKeeps,
     StopsSeenKeeps, StopsBookedKeeps DEF Tick
<1>2. ASSUME NEW a \in Actors, Ask(a) PROVE PaperInv'
  BY <1>2, OrderActionsKeep, ExecutedKeeps, PlaceStopKeeps, SyncDoneKeeps, CancelStopKeeps DEF Ask
<1>3. CASE SweepLooks \/ SweepPasses \/ SweepSells \/ Crash
  BY <1>3, SweepLooksKeeps, SweepPassesKeeps, SweepSellsKeeps, CrashKeeps
<1>4. CASE StartBot \/ NewBar \/ SuppressionEnds \/ GateCloses \/ GateOpens
  <2>1. UNCHANGED <<pos, act, lock, stop>>
    BY <1>4 DEF StartBot, NewBar, SuppressionEnds, GateCloses, GateOpens, storeVars, exchangeVars
  <2>2. AnyTrouble
    BY <1>4, Faults DEF StartBot, NewBar, SuppressionEnds, GateCloses, GateOpens, AnyTrouble, NoTrouble
  <2>3. NoKill' /\ StopsKept'
    BY <2>1, <2>2, TroubleKeeps DEF PaperInv, World, StopsKept
  <2> QED BY <2>1, <2>3, RestKeeps
<1>5. CASE UNCHANGED vars
  <2>1. UNCHANGED <<pos, act, lock, stop, left>>
    BY <1>5 DEF vars, storeVars, exchangeVars
  <2>2. NoKill' /\ StopsKept'
    BY <2>1 DEF PaperInv, World, NoKill, StopsKept
  <2> QED BY <2>1, <2>2, RestKeeps
<1>6. ASSUME NEW l \in Levels, Trigger(l) PROVE PaperInv'
  BY <1>6, TriggerKeeps
<1> QED BY <1>1, <1>2, <1>3, <1>4, <1>5, <1>6, NoHalt DEF Next

\* No step that buys or sells finds a paper position in the row.
LEMMA PaperAsks ==
  ASSUME PaperInv, NEW a \in Actors, Executed(a)
  PROVE  ~IsPaper(pos)
<1>1. act[a].at \in Ordered /\ act[a].at # "idle"
  BY DEF Executed, Ordered
<1>2. a # "halt"
  BY <1>1, OneAtWork
<1>3. CASE a = "tick"
  BY <1>1, <1>3 DEF PaperInv, TickHas, ForExchange, IsPaper, IsLive
<1>4. CASE a = "sweep"
  BY <1>1, <1>4 DEF PaperInv, SweepHas, IsPaper, IsLive
<1> QED BY <1>2, <1>3, <1>4 DEF Actors

LEMMA TradesLeave ==
  ASSUME [Next]_vars, <<bought, sold>>' # <<bought, sold>>
  PROVE  (\E a \in Actors : Executed(a)) \/ (\E l \in Levels : Trigger(l))
<1>1. CASE Tick
  BY <1>1 DEF Tick, TickStarts, BarsFail, BarsArrive, UnknownResolved, Seeded, Forced, StopsSeen, StopsBooked, exchangeVars
<1>2. ASSUME NEW a \in Actors, Ask(a), ~Executed(a) PROVE UNCHANGED <<bought, sold>>
  BY <1>2 DEF Ask, Precheck, NotExecuted, Answered, AnswerLost, LookedUp, PlaceStop, SyncDone, CancelStop,
              Settle, Proceed, exchangeVars
<1>3. CASE SweepLooks \/ SweepPasses \/ SweepSells \/ HaltStarts \/ HaltSells \/ Crash
  BY <1>3 DEF SweepLooks, SweepPasses, SweepSells, HaltStarts, HaltSells, Crash, exchangeVars
<1>4. CASE StartBot \/ NewBar \/ SuppressionEnds \/ GateCloses \/ GateOpens
  BY <1>4 DEF StartBot, NewBar, SuppressionEnds, GateCloses, GateOpens, exchangeVars
<1>5. CASE UNCHANGED vars
  BY <1>5 DEF vars, exchangeVars
<1> QED BY <1>1, <1>2, <1>3, <1>4, <1>5 DEF Next

LEMMA PaperStepStays ==
  ASSUME PaperInv, [Next]_vars
  PROVE  IsOpen(pos) /\ ~pos.live => bought' = bought /\ (sold' # sold => stop' # stop)
<1>1. ASSUME IsPaper(pos), <<bought, sold>>' # <<bought, sold>>
      PROVE  bought' = bought /\ stop' # stop
  <2>1. PICK l \in Levels : Trigger(l)
    BY <1>1, TradesLeave, PaperAsks
  <2>2. stop[l].state = "resting" /\ stop' = [stop EXCEPT ![l].state = "filled"] /\ bought' = bought
    BY <2>1 DEF Trigger, Resting
  <2>3. stop'[l].state = "filled"
    BY <2>2 DEF PaperInv, World, StopsKept, IsRecord
  <2> QED BY <2>2, <2>3
<1> QED BY <1>1 DEF IsPaper

\* While the position is one opened on paper, no order of the bot's reaches
\* the exchange, whatever goes wrong and however its strategy scales
\* (fillOrder, P0-1), unless the kill switch is used.
THEOREM PaperIsKept == NoKillSwitch => (Spec => PaperStaysPaper)
<1>1. NoKillSwitch /\ Init => PaperInv
  BY PaperStart
<1>2. PaperInv /\ [Next]_vars => PaperInv'
  BY PaperStep
<1>3. PaperInv /\ [Next]_vars => [IsOpen(pos) /\ ~pos.live => bought' = bought /\ (sold' # sold => stop' # stop)]_vars
  BY PaperStepStays
<1>4. NoKillSwitch /\ Spec => [][IsOpen(pos) /\ ~pos.live => bought' = bought /\ (sold' # sold => stop' # stop)]_vars
  BY <1>1, <1>2, <1>3, PTL DEF Spec
<1> QED BY <1>4 DEF PaperStaysPaper

-----------------------------------------------------------------------------
(* The bot without a stop.                                                 *)

\* What never happens: an order executed in part, an index that lags behind, a
\* death between an order and its answer, the kill switch, a strategy that
\* scales; and fewer lookups fail than would release the marker of an entry.
Never == {"partial", "lag", "crash_in_order", "halt", "scale", "add"}
Steady ==
  /\ ~HasStop /\ Baseline = 0
  /\ \A B \in Budgets : B["query"] <= ClearMisses /\ \A f \in Never : B[f] = 0

Net == bought - sold

LivePositions ==
  [kind : {"open"}, qty : {Size}, live : {TRUE}, level : Levels, stops : {{}},
   naked : {FALSE}, misses : 0..ClearMisses, unknown : 0..MaxUnknown]
PaperPositions ==
  [kind : {"open"}, qty : {Size}, live : {FALSE}, level : Levels, stops : {{}},
   naked : {FALSE}, misses : {0}, unknown : {0}]
Markers ==
  [kind : {"marker"}, want : {Size}, bar : 1..MaxBars, misses : 0..ClearMisses]
Flat == {NoPos} \cup PaperPositions
SteadyPositions == Flat \cup LivePositions \cup Markers

Sides == {"buy", "sell"}
BarOrder == [qty |-> Size, exec |-> Size]
WholeWants == {Silent, 0, Size}

\* A bot that has nothing, or has it on paper, has nothing at the exchange and
\* has booked no purchase it has not sold; unless its order has just been sent.
FlatKept(b, sent) ==
  /\ booked.buy <= sold
  /\ Net = 0 \/ (sent /\ order[<<"buy", b>>] # NoOrder)

\* An entry not resolved was executed or was not, and is not booked; while it
\* may have been, more lookups must fail than can.
MarkerKept(m, b) ==
  /\ booked.buy <= sold /\ m.bar <= b /\ <<"unkadopt", m.bar>> \notin trades
  /\ \/ Net = 0
     \/ order[<<"buy", m.bar>>] # NoOrder /\ m.misses + 1 + left["query"] <= ClearMisses

\* What the orders of the bar b, in which w is wanted, and their keys say.
BarKept(c, b, w) ==
  /\ \A s \in Sides : \A x \in 1..MaxBars :
       x > b => order[<<s, x>>] = NoOrder /\ <<s, x>> \notin trades
  /\ order[<<"buy", b>>] # NoOrder => w = Size /\ Net = Size
  /\ order[<<"sell", b>>] # NoOrder => w = 0 /\ Net = 0
  /\ <<"buy", b>> \in trades => w = Size /\ (order[<<"buy", b>>] # NoOrder \/ c \in PaperPositions)
  /\ <<"sell", b>> \notin trades => booked.sell + order[<<"sell", b>>].exec <= sold
  /\ \A x \in 1..MaxBars : <<"unkadopt", x>> \in trades => order[<<"buy", x>>] # NoOrder

\* The position c, the account and the books agree.
Standing(c, b, w, sent) ==
  /\ BarKept(c, b, w)
  /\ Net \in {0, Size} /\ booked.buy <= bought /\ booked.sell <= sold
  /\ c \in Flat => FlatKept(b, sent)
  /\ c \in Markers => MarkerKept(c, b)

\* Between two ticks they agree as of the bar last decided on.
Kept(c) ==
  \E b \in 1..MaxBars : \E w \in WholeWants :
    b <= bar /\ (b = bar => w = want) /\ Standing(c, b, w, FALSE)

TickRecords ==
  [at : {"bars", "unknown", "seed", "force", "sync"} \cup Ordered, cur : SteadyPositions,
   bar : 0..MaxBars, want : WholeWants, side : Sides \cup {"none"},
   qty : {0, Size}, chan : {"new", "live", "paper"},
   kind : {"none", "hold", "entry", "exit", "adopt"}, got : {0, Size}, ids : {{}},
   cancel : {{}}, place : {FALSE}, failed : BOOLEAN, filled : {{}}]

Late(r) == 1 <= r.bar /\ r.bar <= bar /\ (r.bar = bar => r.want = want)

Entering(r) ==
  /\ r.kind = "entry" /\ r.cur = NoPos /\ r.chan = "new" /\ r.side = "buy"
  /\ r.want = Size /\ r.qty = Size
  /\ <<"buy", r.bar>> \notin trades /\ <<"unkadopt", r.bar>> \notin trades
Leaving(r) ==
  /\ r.kind = "exit" /\ r.cur \in LivePositions /\ r.chan = "live" /\ r.side = "sell"
  /\ r.want = 0 /\ r.qty = Size

AtStage(r) ==
  /\ r.at = "unknown" => r.cur \in Markers
  /\ r.at = "seed" => r.cur = NoPos
  /\ r.at \in {"force", "sync"} => r.cur \in LivePositions
  /\ r.at = "sync" => r.kind = "adopt"
  /\ r.at \in Ordered => Entering(r) \/ Leaving(r)
  /\ r.at = "answer" => r.got = Size /\ order[<<r.side, r.bar>>] = BarOrder

Sent(r) == r.at \in {"answer", "lookup"} /\ r.kind = "entry"

Luck ==
  /\ left \in [AllFaults -> Nat] /\ left["query"] <= ClearMisses
  /\ \A f \in Never : left[f] = 0
Books ==
  /\ pos \in SteadyPositions /\ ledger \in Nat /\ booked \in [buy : Nat, sell : Nat]
  /\ seeded \in BOOLEAN /\ suppressed \in BOOLEAN
Outside ==
  /\ running \in BOOLEAN /\ gate \in BOOLEAN /\ bar \in 1..MaxBars /\ want \in WholeWants
  /\ order \in [Sides \X (1..MaxBars) -> {NoOrder, BarOrder}]
  /\ stop = [l \in Levels |-> NoStop] /\ bought \in Nat /\ sold \in Nat
OneActor ==
  /\ IsRecord(act, Actors) /\ act["halt"] = Idle /\ act["sweep"] = Idle
  /\ lock = IF act["tick"].at = "idle" THEN "free" ELSE "tick"
TickHolds(p, r) ==
  /\ r \in TickRecords /\ r.cur = p /\ AtStage(r)
  /\ r.at = "bars" => Kept(p)
  /\ r.at # "bars" => Late(r) /\ Standing(p, r.bar, r.want, Sent(r))

SteadyInv ==
  /\ Luck /\ Books /\ Outside /\ OneActor
  /\ act["tick"].at = "idle" => Kept(pos)
  /\ act["tick"].at # "idle" => TickHolds(pos, act["tick"])

LEMMA SizeIs == Size \in Nat /\ Size > 0 /\ MaxBars \in Nat /\ MaxBars > 0 /\ ClearMisses \in Nat /\ ClearMisses > 0
                /\ MaxUnknown \in Nat /\ MaxUnknown > 0 /\ Levels # {} /\ Silent = -1
  BY SpotAssumption DEF Silent

LEMMA KindsApart ==
  /\ \A c \in LivePositions : /\ c.kind = "open" /\ c.live = TRUE /\ c.qty = Size /\ c.stops = {} /\ c.naked = FALSE
                               /\ c.level \in Levels /\ c.misses \in 0..ClearMisses /\ c.unknown \in 0..MaxUnknown
  /\ \A c \in PaperPositions : /\ c.kind = "open" /\ c.live = FALSE /\ c.qty = Size /\ c.stops = {} /\ c.naked = FALSE
                                /\ c.level \in Levels /\ c.misses = 0 /\ c.unknown = 0
  /\ \A m \in Markers : /\ m.kind = "marker" /\ m.want = Size /\ m.bar \in 1..MaxBars
                         /\ m.misses \in 0..ClearMisses
  /\ NoPos.kind = "none"
<1>1. \A c \in LivePositions : /\ c.kind = "open" /\ c.live = TRUE /\ c.qty = Size /\ c.stops = {} /\ c.naked = FALSE
                               /\ c.level \in Levels /\ c.misses \in 0..ClearMisses /\ c.unknown \in 0..MaxUnknown
  BY DEF LivePositions
<1>2. \A c \in PaperPositions : /\ c.kind = "open" /\ c.live = FALSE /\ c.qty = Size /\ c.stops = {} /\ c.naked = FALSE
                                /\ c.level \in Levels /\ c.misses = 0 /\ c.unknown = 0
  BY DEF PaperPositions
<1>3. \A m \in Markers : /\ m.kind = "marker" /\ m.want = Size /\ m.bar \in 1..MaxBars
                         /\ m.misses \in 0..ClearMisses
  BY DEF Markers
<1> QED BY <1>1, <1>2, <1>3 DEF NoPos

LEMMA SetsApart ==
  /\ \A c \in LivePositions : c \notin PaperPositions /\ c \notin Flat /\ c \notin Markers /\ c # NoPos /\ c \in SteadyPositions
  /\ \A c \in PaperPositions : c \notin LivePositions /\ c \in Flat /\ c \notin Markers /\ c # NoPos /\ c \in SteadyPositions
  /\ \A c \in Markers : c \notin LivePositions /\ c \notin Flat /\ c \notin PaperPositions /\ c # NoPos /\ c \in SteadyPositions
  /\ NoPos \notin LivePositions /\ NoPos \in Flat /\ NoPos \notin PaperPositions /\ NoPos \notin Markers /\ NoPos \in SteadyPositions
  BY KindsApart DEF Flat, SteadyPositions

LEMMA LiveIs ==
  ASSUME NEW c \in LivePositions
  PROVE  IsOpen(c) /\ IsLive(c) /\ QtyOf(c) = Size /\ Channel(c) = "live"
<1>1. c.kind = "open" /\ c.live = TRUE /\ c.qty = Size
  BY KindsApart
<1> QED BY <1>1 DEF IsOpen, IsLive, QtyOf, Channel

LEMMA PaperIs ==
  ASSUME NEW c \in PaperPositions
  PROVE  IsOpen(c) /\ ~IsLive(c) /\ QtyOf(c) = Size /\ Channel(c) = "paper"
<1>1. c.kind = "open" /\ c.live = FALSE /\ c.qty = Size
  BY KindsApart
<1> QED BY <1>1 DEF IsOpen, IsLive, QtyOf, Channel

LEMMA NothingIs == ~IsOpen(NoPos) /\ ~IsLive(NoPos) /\ QtyOf(NoPos) = 0 /\ Channel(NoPos) = "new"
  BY KindsApart DEF IsOpen, IsLive, QtyOf, Channel

LEMMA MadeOpen ==
  ASSUME NEW level \in Levels
  PROVE  /\ Open(Size, TRUE, level, {}, FALSE) \in LivePositions
         /\ Open(Size, FALSE, level, {}, FALSE) \in PaperPositions
  BY SizeIs DEF Open, LivePositions, PaperPositions

LEMMA MadeMarker == ASSUME NEW b \in 1..MaxBars PROVE Marker(Size, b, 0) \in Markers
  BY SizeIs DEF Marker, Markers

LEMMA PaperChanges ==
  ASSUME NEW c \in PaperPositions, NEW level \in Levels
  PROVE  [c EXCEPT !.level = level] \in PaperPositions
  BY DEF PaperPositions

LEMMA MarkChanges ==
  ASSUME NEW m \in Markers, NEW n \in 0..ClearMisses
  PROVE  LET k == [m EXCEPT !.misses = n] IN k \in Markers /\ k.misses = n /\ k.bar = m.bar
  BY DEF Markers

LEMMA OrderIs ==
  /\ NoOrder # BarOrder /\ NoOrder.exec = 0 /\ BarOrder.exec = Size
  /\ Whole(BarOrder) /\ ~Whole(NoOrder)
  BY SizeIs DEF NoOrder, BarOrder, Whole

-----------------------------------------------------------------------------
(* Without a stop there is nothing to place or cancel.                     *)

\* Nothing the sync is about is the order's.
SameOrder(x, r) ==
  /\ x.bar = r.bar /\ x.want = r.want /\ x.side = r.side /\ x.qty = r.qty /\ x.chan = r.chan
  /\ x.got = r.got /\ x.filled = r.filled

LEMMA NoStopToPlace ==
  ASSUME ~HasStop, NEW r, IsRecord(r, RecordFields), NEW c, NEW live
  PROVE  LET s == Synced(r, c, {}, live)
         IN  /\ s.ids = {} /\ s.cancel = {} /\ s.place \in {FALSE} /\ s.failed \in BOOLEAN
             /\ SameOrder(s, r) /\ ~HasWork(s)
<1> DEFINE s == [r EXCEPT !.cur = c, !.ids = {}, !.failed = FALSE, !.cancel = {}, !.place = FALSE]
<1> DEFINE t == [s EXCEPT !.failed = IsOpen(c)]
<1> DEFINE u == [s EXCEPT !.at = "sync", !.cancel = {} \ Desired(c), !.place = Desired(c) \ {} # {}]
<1> DEFINE Kept1(x) == /\ IsRecord(x, RecordFields) /\ x.cur = c /\ x.kind = r.kind
                       /\ x.ids = {} /\ x.cancel = {} /\ x.place \in {FALSE} /\ x.failed \in BOOLEAN
                       /\ SameOrder(x, r)
<1>1. Desired(c) = {}
  BY DEF Desired
<1>2. Kept1(s)
  BY DEF IsRecord, RecordFields, SameOrder
<1> HIDE DEF s
<1>3. Kept1(t)
  <2>1. IsOpen(c) \in BOOLEAN
    BY DEF IsOpen
  <2> QED BY <1>2, <2>1 DEF IsRecord, RecordFields, SameOrder
<1>4. Kept1(u)
  <2>1. {} \ Desired(c) = {} /\ (Desired(c) \ {} # {}) = FALSE
    BY <1>1
  <2>2. u = [s EXCEPT !.at = "sync", !.cancel = {}, !.place = FALSE]
    BY <2>1
  <2> HIDE DEF u
  <2> QED BY <1>2, <2>2 DEF IsRecord, RecordFields, SameOrder
<1> HIDE DEF t, u
<1>5. Synced(r, c, {}, live) \in {s, t, u}
  BY DEF Synced, s, t, u
<1>6. \A x : Kept1(x) => ~HasWork(x)
  BY DEF HasWork
<1> QED BY <1>2, <1>3, <1>4, <1>5, <1>6

\* So the position is saved as it is.
LEMMA SavedAsIs ==
  ASSUME ~HasStop, NEW r, IsRecord(r, RecordFields), r.kind # "close",
         NEW c \in Flat \cup LivePositions, NEW p, NEW live, GoSync(p, "tick", r, c, {}, live)
  PROVE  pos' = c /\ End("tick")
<1> DEFINE s == Synced(r, c, {}, live)
<1>1. s.cur = c /\ s.kind = r.kind /\ s.ids = {} /\ ~HasWork(s)
  <2>1. s.cur = c /\ s.kind = r.kind
    BY SyncedIs
  <2>2. s.ids = {} /\ ~HasWork(s)
    BY NoStopToPlace
  <2> QED BY <2>1, <2>2
<1>2. SaveAndEnd(p, "tick", s)
  BY <1>1 DEF GoSync
<1> HIDE DEF s
<1>3. AfterSync(s) = c
  <2>1. CASE c = NoPos
    BY <1>1, <2>1 DEF AfterSync
  <2>2. CASE c # NoPos
    <3>1. c \in LivePositions \cup PaperPositions
      BY <2>2 DEF Flat
    <3>2. c.stops = {} /\ c.naked = FALSE /\ c = [c EXCEPT !.stops = {}, !.naked = FALSE]
      BY <3>1 DEF LivePositions, PaperPositions
    <3>3. AfterSync(s) = [c EXCEPT !.stops = {}, !.naked = HasStop /\ s.failed]
      BY <1>1, <2>2 DEF AfterSync
    <3>4. (HasStop /\ s.failed) = FALSE
      OBVIOUS
    <3> QED BY <3>2, <3>3, <3>4
  <2> QED BY <2>1, <2>2
<1> QED BY <1>1, <1>2, <1>3 DEF SaveAndEnd

-----------------------------------------------------------------------------
(* What agrees goes on agreeing.                                           *)

\* A step of the bot's own, which the market and the exchange do not notice.
Around ==
  /\ ~HasStop /\ Luck /\ Books /\ Outside /\ Luck' /\ left'["query"] <= left["query"]
  /\ UNCHANGED <<bar, want, order, stop, bought, sold>>

LEMMA Figures ==
  ASSUME Luck, Books, Outside
  PROVE  /\ booked.buy \in Nat /\ booked.sell \in Nat /\ bought \in Nat /\ sold \in Nat /\ ledger \in Nat
         /\ Net \in Int /\ left["query"] \in Nat /\ bar \in 1..MaxBars
         /\ \A s \in Sides : \A x \in 1..MaxBars : order[<<s, x>>] \in {NoOrder, BarOrder}
  BY DEF Luck, Books, Outside, AllFaults, Net

LEMMA BookedIs ==
  ASSUME Books, NEW key, NEW side \in Sides, NEW qty \in Nat, NEW live \in BOOLEAN, Book(key, side, qty, live)
  PROVE  /\ trades' = trades \cup {key} /\ ledger' \in Nat /\ booked' \in [buy : Nat, sell : Nat]
         /\ live /\ side = "buy" => booked'.buy = booked.buy + qty /\ booked'.sell = booked.sell
         /\ live /\ side = "sell" => booked'.sell = booked.sell + qty /\ booked'.buy = booked.buy
         /\ ~live => booked' = booked
<1>1. trades' = trades \cup {key} /\ ledger \in Nat /\ booked \in [buy : Nat, sell : Nat]
  BY DEF Book, Books
<1>2. CASE ~live
  BY <1>1, <1>2 DEF Book
<1>3. CASE live /\ side = "buy"
  <2>1. ledger' = ledger + qty /\ booked' = [booked EXCEPT !.buy = @ + qty]
    BY <1>3 DEF Book
  <2>2. booked' \in [buy : Nat, sell : Nat] /\ booked'.buy = booked.buy + qty /\ booked'.sell = booked.sell
    BY <1>1, <2>1
  <2>3. ledger' \in Nat
    BY <1>1, <2>1
  <2> QED BY <1>1, <1>3, <2>2, <2>3
<1>4. CASE live /\ side = "sell"
  <2>1. ledger' = Larger(0, ledger - qty) /\ booked' = [booked EXCEPT !.sell = @ + qty]
    BY <1>4 DEF Book
  <2>2. booked' \in [buy : Nat, sell : Nat] /\ booked'.sell = booked.sell + qty /\ booked'.buy = booked.buy
    BY <1>1, <2>1
  <2>3. ledger' \in Nat
    BY <1>1, <2>1 DEF Larger
  <2> QED BY <1>1, <1>4, <2>2, <2>3
<1> QED BY <1>2, <1>3, <1>4 DEF Sides

\* Neither the market nor the bot's own memory matters to it.
LEMMA StandingLater ==
  ASSUME Luck, Luck', left'["query"] <= left["query"], UNCHANGED <<order, bought, sold, trades, booked>>,
         NEW c \in SteadyPositions, NEW b, NEW w, NEW sent, Standing(c, b, w, sent)
  PROVE  Standing(c, b, w, sent)'
<1>1. UNCHANGED <<order, bought, sold, trades, booked>> /\ Net' = Net
  BY DEF Net
<1>2. BarKept(c, b, w)'
  BY <1>1 DEF Standing, BarKept
<1>3. c \in Flat => FlatKept(b, sent)'
  BY <1>1 DEF Standing, FlatKept
<1>4. c \in Markers => MarkerKept(c, b)'
  <2>1. ASSUME c \in Markers, c.misses + 1 + left["query"] <= ClearMisses
        PROVE  c.misses + 1 + left'["query"] <= ClearMisses
    <3>1. left["query"] \in Nat /\ left'["query"] \in Nat /\ left'["query"] <= left["query"]
      BY DEF Luck, AllFaults
    <3>2. c.misses \in Nat
      BY <2>1, KindsApart, SizeIs
    <3> QED BY <2>1, <3>1, <3>2, SizeIs
  <2> QED BY <1>1, <2>1 DEF Standing, MarkerKept
<1> QED BY <1>1, <1>2, <1>3, <1>4 DEF Standing

LEMMA StandingStays ==
  ASSUME Around, UNCHANGED <<trades, booked>>, NEW c \in SteadyPositions, NEW b, NEW w, NEW sent, Standing(c, b, w, sent)
  PROVE  Standing(c, b, w, sent)'
  BY StandingLater DEF Around

\* A later bar begins without orders and keys.
LEMMA NextBar ==
  ASSUME Luck, Books, Outside, NEW c \in SteadyPositions, NEW b \in 1..MaxBars, NEW w,
         NEW d \in 1..MaxBars, b < d, NEW v, Standing(c, b, w, FALSE)
  PROVE  Standing(c, d, v, FALSE)
<1>1. \A s \in Sides : order[<<s, d>>] = NoOrder /\ <<s, d>> \notin trades
  BY DEF Standing, BarKept
<1>2. \A s \in Sides : \A x \in 1..MaxBars : x > d => order[<<s, x>>] = NoOrder /\ <<s, x>> \notin trades
  BY DEF Standing, BarKept
<1>3. "buy" \in Sides /\ "sell" \in Sides
  BY DEF Sides
<1>4. booked.sell + order[<<"sell", d>>].exec <= sold
  <2>1. order[<<"sell", d>>].exec = 0
    BY <1>1, <1>3, OrderIs
  <2> QED BY <2>1, Figures DEF Standing
<1>5. BarKept(c, d, v)
  BY <1>1, <1>2, <1>3, <1>4 DEF Standing, BarKept
<1>6. c \in Flat => FlatKept(d, FALSE)
  BY DEF Standing, FlatKept
<1>7. c \in Markers => MarkerKept(c, d)
  <2>1. ASSUME c \in Markers, c.bar <= b PROVE c.bar <= d
    BY <2>1, KindsApart
  <2> QED BY <2>1 DEF Standing, MarkerKept
<1> QED BY <1>5, <1>6, <1>7 DEF Standing

\* What is noted in an open position changes nothing else.
LEMMA OpenSwap ==
  ASSUME NEW c, NEW d, (c \in LivePositions /\ d \in LivePositions) \/ (c \in PaperPositions /\ d \in PaperPositions),
         NEW b, NEW w, Standing(c, b, w, FALSE)
  PROVE  Standing(d, b, w, FALSE)
<1>1. (c \in PaperPositions <=> d \in PaperPositions) /\ (d \in Flat => c \in Flat) /\ d \notin Markers
  BY SetsApart
<1> QED BY <1>1 DEF Standing, BarKept

\* A live position or a marker nothing is held for may be forgotten.
LEMMA NothingHeld ==
  ASSUME Luck, Books, Outside, NEW c \in LivePositions \cup Markers, Net = 0, NEW b, NEW w, Standing(c, b, w, FALSE)
  PROVE  Standing(NoPos, b, w, FALSE)
<1>1. c \notin PaperPositions /\ NoPos \notin Markers
  BY SetsApart
<1>2. booked.buy <= sold
  BY Figures DEF Standing, Net
<1> QED BY <1>1, <1>2 DEF Standing, BarKept, FlatKept

LEMMA EntryBookedLive ==
  ASSUME Around, NEW b \in 1..MaxBars, Standing(NoPos, b, Size, TRUE), order[<<"buy", b>>] # NoOrder,
         NEW c \in LivePositions, Book(<<"buy", b>>, "buy", Size, TRUE)
  PROVE  Standing(c, b, Size, FALSE)'
<1>1. /\ trades' = trades \cup {<<"buy", b>>} /\ booked'.buy = booked.buy + Size /\ booked'.sell = booked.sell
  BY BookedIs, SizeIs DEF Sides, Around
<1>2. UNCHANGED <<order, bought, sold>> /\ Net' = Net
  BY DEF Around, Net
<1>3. Net = Size /\ booked.buy <= sold
  BY SetsApart DEF Standing, BarKept, FlatKept
<1>4. booked'.buy <= bought
  BY <1>1, <1>3, Figures, SizeIs DEF Around, Net
<1>5. BarKept(c, b, Size)'
  <2>1. \A s \in Sides : \A x \in 1..MaxBars : x > b => order'[<<s, x>>] = NoOrder /\ <<s, x>> \notin trades'
    BY <1>1, <1>2 DEF Standing, BarKept
  <2>2. <<"sell", b>> \notin trades' => booked'.sell + order'[<<"sell", b>>].exec <= sold'
    BY <1>1, <1>2 DEF Standing, BarKept
  <2>3. \A x \in 1..MaxBars : <<"unkadopt", x>> \in trades' => order'[<<"buy", x>>] # NoOrder
    BY <1>1, <1>2 DEF Standing, BarKept
  <2>4. order'[<<"sell", b>>] = NoOrder
    BY <1>2, <1>3, SizeIs DEF Standing, BarKept
  <2> QED BY <1>2, <1>3, <2>1, <2>2, <2>3, <2>4 DEF BarKept
<1>6. c \notin Flat /\ c \notin Markers
  BY SetsApart
<1> QED BY <1>1, <1>2, <1>3, <1>4, <1>5, <1>6 DEF Standing

LEMMA EntryBookedPaper ==
  ASSUME Around, NEW b \in 1..MaxBars, NEW sent, Standing(NoPos, b, Size, sent), Net = 0,
         NEW c \in PaperPositions, Book(<<"buy", b>>, "buy", Size, FALSE)
  PROVE  Standing(c, b, Size, FALSE)'
<1>1. trades' = trades \cup {<<"buy", b>>} /\ booked' = booked
  BY BookedIs, SizeIs DEF Sides, Around
<1>2. UNCHANGED <<order, bought, sold>> /\ Net' = Net
  BY DEF Around, Net
<1>3. booked.buy <= sold
  BY SetsApart DEF Standing, FlatKept
<1>4. BarKept(c, b, Size)'
  <2>1. \A s \in Sides : \A x \in 1..MaxBars : x > b => order'[<<s, x>>] = NoOrder /\ <<s, x>> \notin trades'
    BY <1>1, <1>2 DEF Standing, BarKept
  <2>2. <<"sell", b>> \notin trades' => booked'.sell + order'[<<"sell", b>>].exec <= sold'
    BY <1>1, <1>2 DEF Standing, BarKept
  <2>3. \A x \in 1..MaxBars : <<"unkadopt", x>> \in trades' => order'[<<"buy", x>>] # NoOrder
    BY <1>1, <1>2 DEF Standing, BarKept
  <2>4. order'[<<"buy", b>>] # NoOrder => Net' = Size
    BY <1>2 DEF Standing, BarKept
  <2>5. order'[<<"sell", b>>] # NoOrder => Size = 0 /\ Net' = 0
    BY <1>2 DEF Standing, BarKept
  <2> QED BY <2>1, <2>2, <2>3, <2>4, <2>5 DEF BarKept
<1>5. c \notin Markers
  BY SetsApart
<1>6. FlatKept(b, FALSE)'
  BY <1>1, <1>2, <1>3 DEF FlatKept
<1> QED BY <1>1, <1>2, <1>4, <1>5, <1>6 DEF Standing

LEMMA MarkerLeft ==
  ASSUME Around, NEW b \in 1..MaxBars, NEW sent, Standing(NoPos, b, Size, sent), <<"unkadopt", b>> \notin trades,
         UNCHANGED <<trades, booked>>, left["query"] > 0, left'["query"] = left["query"] - 1,
         <<"buy", b>> \notin trades, NEW m \in Markers, m.bar = b, m.misses = 0
  PROVE  Standing(m, b, Size, FALSE)'
<1>1. UNCHANGED <<order, bought, sold, trades, booked>> /\ Net' = Net
  BY DEF Around, Net
<1>2. FlatKept(b, sent) /\ m \notin Flat
  BY SetsApart DEF Standing
<1>3. m.misses + 1 + left'["query"] <= ClearMisses
  BY Figures, SizeIs DEF Around, Luck
<1>4. BarKept(m, b, Size)'
  BY <1>1 DEF Standing, BarKept
<1>5. MarkerKept(m, b)'
  BY <1>1, <1>2, <1>3 DEF MarkerKept, FlatKept
<1> QED BY <1>1, <1>2, <1>4, <1>5 DEF Standing

LEMMA ExitBooked ==
  ASSUME Around, NEW b \in 1..MaxBars, NEW c \in LivePositions, Standing(c, b, 0, FALSE),
         order[<<"sell", b>>] # NoOrder, <<"sell", b>> \notin trades, Book(<<"sell", b>>, "sell", Size, TRUE)
  PROVE  Standing(NoPos, b, 0, FALSE)'
<1>1. /\ trades' = trades \cup {<<"sell", b>>} /\ booked'.sell = booked.sell + Size /\ booked'.buy = booked.buy
  BY BookedIs, SizeIs DEF Sides, Around
<1>2. UNCHANGED <<order, bought, sold>> /\ Net' = Net
  BY DEF Around, Net
<1>3. Net = 0 /\ booked.sell + order[<<"sell", b>>].exec <= sold
  BY DEF Standing, BarKept
<1>4. order[<<"sell", b>>].exec = Size
  BY Figures, OrderIs DEF Around, Sides
<1>5. booked'.sell <= sold
  BY <1>1, <1>3, <1>4
<1>6. booked.buy <= sold
  BY <1>3, Figures DEF Standing, Net, Around
<1>7. BarKept(NoPos, b, 0)'
  <2>1. \A s \in Sides : \A x \in 1..MaxBars : x > b => order'[<<s, x>>] = NoOrder /\ <<s, x>> \notin trades'
    BY <1>1, <1>2 DEF Standing, BarKept
  <2>2. <<"buy", b>> \notin trades'
    BY <1>1, SizeIs DEF Standing, BarKept
  <2>3. \A x \in 1..MaxBars : <<"unkadopt", x>> \in trades' => order'[<<"buy", x>>] # NoOrder
    BY <1>1, <1>2 DEF Standing, BarKept
  <2>4. order'[<<"buy", b>>] = NoOrder
    BY <1>2, <1>3, SizeIs DEF Standing, BarKept
  <2>5. <<"sell", b>> \in trades'
    BY <1>1
  <2> QED BY <1>2, <1>3, <2>1, <2>2, <2>3, <2>4, <2>5 DEF BarKept
<1>8. NoPos \notin Markers
  BY SetsApart
<1>9. FlatKept(b, FALSE)'
  BY <1>1, <1>2, <1>3, <1>6 DEF FlatKept
<1>10. Net' \in {0, Size} /\ booked'.buy <= bought' /\ booked'.sell <= sold'
  BY <1>1, <1>2, <1>5 DEF Standing
<1> QED BY <1>7, <1>8, <1>9, <1>10 DEF Standing

LEMMA PaperExit ==
  ASSUME Around, NEW b \in 1..MaxBars, NEW c \in PaperPositions, Standing(c, b, 0, FALSE),
         Book(<<"sell", b>>, "sell", Size, FALSE)
  PROVE  Standing(NoPos, b, 0, FALSE)'
<1>1. trades' = trades \cup {<<"sell", b>>} /\ booked' = booked
  BY BookedIs, SizeIs DEF Sides, Around
<1>2. UNCHANGED <<order, bought, sold>> /\ Net' = Net
  BY DEF Around, Net
<1>3. Net = 0 /\ booked.buy <= sold
  BY SetsApart DEF Standing, FlatKept
<1>4. BarKept(NoPos, b, 0)'
  <2>1. \A s \in Sides : \A x \in 1..MaxBars : x > b => order'[<<s, x>>] = NoOrder /\ <<s, x>> \notin trades'
    BY <1>1, <1>2 DEF Standing, BarKept
  <2>2. <<"buy", b>> \notin trades'
    BY <1>1, SizeIs DEF Standing, BarKept
  <2>3. \A x \in 1..MaxBars : <<"unkadopt", x>> \in trades' => order'[<<"buy", x>>] # NoOrder
    BY <1>1, <1>2 DEF Standing, BarKept
  <2>4. order'[<<"buy", b>>] = NoOrder
    BY <1>2, <1>3, SizeIs DEF Standing, BarKept
  <2>5. <<"sell", b>> \in trades'
    BY <1>1
  <2> QED BY <1>2, <1>3, <2>1, <2>2, <2>3, <2>4, <2>5 DEF BarKept
<1>5. NoPos \notin Markers
  BY SetsApart
<1>6. FlatKept(b, FALSE)'
  BY <1>1, <1>2, <1>3 DEF FlatKept
<1>7. Net' \in {0, Size} /\ booked'.buy <= bought' /\ booked'.sell <= sold'
  BY <1>1, <1>2 DEF Standing
<1> QED BY <1>4, <1>5, <1>6, <1>7 DEF Standing

LEMMA MarkerAdopted ==
  ASSUME Around, NEW m \in Markers, NEW b, NEW w, Standing(m, b, w, FALSE), Net # 0,
         Book(<<"unkadopt", m.bar>>, "buy", Size, TRUE), NEW c \in LivePositions
  PROVE  Standing(c, b, w, FALSE)'
<1>1. /\ trades' = trades \cup {<<"unkadopt", m.bar>>} /\ booked'.buy = booked.buy + Size /\ booked'.sell = booked.sell
  BY BookedIs, SizeIs DEF Sides, Around
<1>2. UNCHANGED <<order, bought, sold>> /\ Net' = Net
  BY DEF Around, Net
<1>3. Net = Size /\ booked.buy <= sold /\ order[<<"buy", m.bar>>] # NoOrder
  BY DEF Standing, MarkerKept
<1>4. booked'.buy <= bought
  BY <1>1, <1>3, Figures, SizeIs DEF Around, Net
<1>5. BarKept(c, b, w)'
  <2>1. \A s \in Sides : \A x \in 1..MaxBars : x > b => order'[<<s, x>>] = NoOrder /\ <<s, x>> \notin trades'
    BY <1>1, <1>2 DEF Standing, BarKept, Sides
  <2>2. <<"buy", b>> \in trades' => <<"buy", b>> \in trades
    BY <1>1
  <2>3. <<"sell", b>> \notin trades' => <<"sell", b>> \notin trades
    BY <1>1
  <2>4. \A x \in 1..MaxBars : <<"unkadopt", x>> \in trades' => order'[<<"buy", x>>] # NoOrder
    BY <1>1, <1>2, <1>3 DEF Standing, BarKept
  <2>5. m \notin PaperPositions
    BY SetsApart
  <2> QED BY <1>1, <1>2, <1>3, <2>1, <2>2, <2>3, <2>4, <2>5 DEF Standing, BarKept
<1>6. c \notin Flat /\ c \notin Markers
  BY SetsApart
<1>7. Net' \in {0, Size} /\ booked'.buy <= bought' /\ booked'.sell <= sold'
  BY <1>1, <1>2, <1>3, <1>4 DEF Standing
<1> QED BY <1>5, <1>6, <1>7 DEF Standing

LEMMA MarkerMissed ==
  ASSUME Around, UNCHANGED <<trades, booked>>, NEW m \in Markers, NEW k \in Markers, k.bar = m.bar,
         k.misses = m.misses + 1, NEW b, NEW w, Standing(m, b, w, FALSE),
         Net = 0 \/ (left["query"] > 0 /\ left'["query"] = left["query"] - 1)
  PROVE  Standing(k, b, w, FALSE)'
<1>1. UNCHANGED <<order, bought, sold, trades, booked>> /\ Net' = Net
  BY DEF Around, Net
<1>2. m \notin PaperPositions /\ k \notin Flat
  BY SetsApart
<1>3. BarKept(k, b, w)'
  BY <1>1, <1>2 DEF Standing, BarKept
<1>4. ASSUME left["query"] > 0, left'["query"] = left["query"] - 1, m.misses + 1 + left["query"] <= ClearMisses
      PROVE  k.misses + 1 + left'["query"] <= ClearMisses
  <2>1. m.misses \in Nat /\ left["query"] \in Nat
    BY KindsApart, SizeIs, Figures DEF Around
  <2> QED BY <1>4, <2>1, SizeIs
<1>5. MarkerKept(k, b)'
  BY <1>1, <1>4 DEF Standing, MarkerKept
<1> QED BY <1>1, <1>2, <1>3, <1>5 DEF Standing

-----------------------------------------------------------------------------
(* What an order's outcome does to the row.                                *)

\* Paper positions are given the least level.
LEMMA LeastLevel == Min(Levels) \in Levels
<1>1. PICK n \in Levels : n \in Nat
  BY SpotAssumption
<1> DEFINE F == {0..x : x \in {y \in Levels : y <= n}}
<1>2. IsFiniteSet(0..n)
  BY <1>1, FS_Interval
<1>3. F \subseteq FiniteSubsetsOf(0..n)
  <2>1. F \subseteq SUBSET (0..n)
    BY <1>1, SpotAssumption
  <2> QED BY <1>2, <2>1, FS_Subset DEF FiniteSubsetsOf
<1>4. IsWellFoundedOn(StrictSubsetOrdering(0..n), FiniteSubsetsOf(0..n))
  BY <1>2, FS_StrictSubsetOrderingWellFounded
<1>5. F # {}
  BY <1>1
<1>6. PICK V \in F : \A U \in F : <<U, V>> \notin StrictSubsetOrdering(0..n)
  <2> HIDE DEF F
  <2> QED BY <1>3, <1>4, <1>5, WFMin
<1>7. PICK x \in Levels : x <= n /\ V = 0..x
  BY <1>6
<1>8. \A y \in Levels : x <= y
  <2> SUFFICES ASSUME NEW y \in Levels, y < x PROVE FALSE
    BY <1>7, SpotAssumption
  <2>1. x \in Nat /\ y \in Nat /\ y <= n
    BY <1>1, <1>7, SpotAssumption
  <2>2. 0..y \in F /\ 0..y \subseteq V /\ V \subseteq 0..n
    BY <1>1, <1>7, <2>1
  <2>3. x \in V /\ x \notin 0..y
    BY <1>7, <2>1
  <2> QED BY <1>6, <2>2, <2>3 DEF StrictSubsetOrdering
<1> QED BY <1>7, <1>8 DEF Min

BooksOf == pos \in SteadyPositions /\ ledger \in Nat /\ booked \in [buy : Nat, sell : Nat]

\* The tick ends with a row that is kept, or waits with a record that holds.
SteadyMoves ==
  /\ BooksOf' /\ suppressed' = suppressed
  /\ \/ act' = [act EXCEPT !["tick"] = Idle] /\ lock' = "free" /\ Kept(pos)'
     \/ \E r : TickHolds(pos, r)' /\ act' = [act EXCEPT !["tick"] = r] /\ lock' = "tick"

LEMMA SteadyEnds ==
  ASSUME Around, BooksOf', suppressed' = suppressed, NEW r \in TickRecords, Late(r),
         Standing(pos, r.bar, r.want, FALSE)', End("tick")
  PROVE  SteadyMoves
<1>1. act' = [act EXCEPT !["tick"] = Idle] /\ lock' = "free"
  BY DEF End
<1>2. r.bar \in 1..MaxBars /\ r.bar <= bar' /\ (r.bar = bar' => r.want = want') /\ r.want \in WholeWants
  <2>1. r.bar \in 0..MaxBars /\ r.want \in WholeWants
    BY DEF TickRecords
  <2>2. 1 <= r.bar /\ r.bar <= bar /\ (r.bar = bar => r.want = want) /\ bar' = bar /\ want' = want
    BY DEF Late, Around
  <2> QED BY <2>1, <2>2, SizeIs
<1>3. Kept(pos)'
  BY <1>2 DEF Kept
<1> QED BY <1>1, <1>3 DEF SteadyMoves

LEMMA BooksStay ==
  ASSUME Books, Unbooked, NEW c \in SteadyPositions, pos' = c
  PROVE  BooksOf' /\ UNCHANGED <<trades, booked>>
  BY DEF Books, Unbooked, BooksOf

LEMMA BooksBook ==
  ASSUME Books, NEW key, NEW side \in Sides, NEW qty \in Nat, NEW live \in BOOLEAN, Book(key, side, qty, live),
         NEW c \in SteadyPositions, pos' = c
  PROVE  BooksOf'
  BY BookedIs DEF BooksOf

LEMMA SteadyRecord ==
  ASSUME NEW r \in TickRecords
  PROVE  /\ IsRecord(r, RecordFields) /\ r.bar \in 0..MaxBars /\ r.want \in WholeWants /\ r.cur \in SteadyPositions
         /\ r.kind # "close" /\ r.kind # "protect" /\ r.ids = {} /\ r.cancel = {} /\ r.filled = {}
  BY DEF TickRecords, IsRecord, RecordFields

LEMMA LateBar == ASSUME Outside, NEW r \in TickRecords, Late(r) PROVE r.bar \in 1..MaxBars
<1>1. r.bar \in 0..MaxBars /\ 1 <= r.bar
  BY DEF Late, TickRecords
<1> QED BY <1>1, SizeIs

\* An entry's fill is booked and the position is opened, live or on paper.
LEMMA EntryOpens ==
  ASSUME Around, NEW p, NEW r \in TickRecords, Entering(r), NEW live \in BOOLEAN, NEW f,
         f = IF live THEN Filled(Size) ELSE OnPaper(Size), EntryDone(p, "tick", r, f)
  PROVE  /\ Book(<<"buy", r.bar>>, "buy", Size, live) /\ End("tick")
         /\ pos' \in (IF live THEN LivePositions ELSE PaperPositions)
<1>1. f.failed = FALSE /\ f.got = Size /\ f.live = live
  BY DEF Filled, OnPaper
<1>2. r.cur = NoPos /\ r.qty = Size /\ r.want = Size /\ <<"buy", r.bar>> \notin trades
  BY DEF Entering
<1>3. IsRecord(r, RecordFields) /\ r.kind # "close" /\ ~HasStop /\ ~IsOpen(NoPos) /\ StopsOf(NoPos) = {}
  BY SteadyRecord, NothingIs DEF Around, StopsOf
<1>4. (IsOpen(NoPos) /\ NoPos.naked) = FALSE
  BY <1>3
<1>5. ~(f.live /\ f.got < r.qty)
  BY <1>1, <1>2, SizeIs
<1>6. /\ Book(<<"buy", r.bar>>, "buy", Size, live)
      /\ \E level \in IF live THEN Levels ELSE {Min(Levels)} :
           GoSync(Open(Size, live, level, {}, FALSE), "tick", r, Open(Size, live, level, {}, FALSE), {}, live)
  BY <1>1, <1>2, <1>3, <1>4, <1>5 DEF EntryDone
<1>7. PICK level \in Levels :
        GoSync(Open(Size, live, level, {}, FALSE), "tick", r, Open(Size, live, level, {}, FALSE), {}, live)
  BY <1>6, LeastLevel
<1>8. Open(Size, live, level, {}, FALSE) \in (IF live THEN LivePositions ELSE PaperPositions)
  <2>1. CASE live = TRUE
    BY <2>1, MadeOpen
  <2>2. CASE live = FALSE
    BY <2>2, MadeOpen
  <2> QED BY <2>1, <2>2
<1>9. Open(Size, live, level, {}, FALSE) \in Flat \cup LivePositions
  BY <1>8, SetsApart
<1>10. pos' = Open(Size, live, level, {}, FALSE) /\ End("tick")
  BY <1>3, <1>7, <1>9, SavedAsIs
<1> QED BY <1>6, <1>8, <1>10

LEMMA EntryLive ==
  ASSUME Around, NEW p, NEW r \in TickRecords, Late(r), Entering(r), Standing(NoPos, r.bar, Size, TRUE),
         order[<<"buy", r.bar>>] # NoOrder, EntryDone(p, "tick", r, Filled(Size)), suppressed' = suppressed
  PROVE  SteadyMoves
<1>1. Book(<<"buy", r.bar>>, "buy", Size, TRUE) /\ End("tick") /\ pos' \in LivePositions
  <2>1. \A live \in BOOLEAN : \A f : f = (IF live THEN Filled(Size) ELSE OnPaper(Size)) /\ EntryDone(p, "tick", r, f)
          => /\ Book(<<"buy", r.bar>>, "buy", Size, live) /\ End("tick")
             /\ pos' \in (IF live THEN LivePositions ELSE PaperPositions)
    BY EntryOpens
  <2> QED BY <2>1
<1>2. r.bar \in 1..MaxBars /\ r.want = Size
  BY LateBar DEF Around, Entering
<1>3. Standing(pos, r.bar, Size, FALSE)'
  BY <1>1, <1>2, EntryBookedLive
<1>4. BooksOf'
  BY <1>1, BooksBook, SetsApart, SizeIs DEF Around, Sides
<1>5. Standing(pos, r.bar, r.want, FALSE)'
  BY <1>2, <1>3
<1> QED BY <1>1, <1>4, <1>5, SteadyEnds

LEMMA EntryPaper ==
  ASSUME Around, NEW p, NEW r \in TickRecords, Late(r), Entering(r), NEW sent, Standing(NoPos, r.bar, Size, sent),
         Net = 0, EntryDone(p, "tick", r, OnPaper(Size)), suppressed' = suppressed
  PROVE  SteadyMoves
<1>1. Book(<<"buy", r.bar>>, "buy", Size, FALSE) /\ End("tick") /\ pos' \in PaperPositions
  <2>1. \A live \in BOOLEAN : \A f : f = (IF live THEN Filled(Size) ELSE OnPaper(Size)) /\ EntryDone(p, "tick", r, f)
          => /\ Book(<<"buy", r.bar>>, "buy", Size, live) /\ End("tick")
             /\ pos' \in (IF live THEN LivePositions ELSE PaperPositions)
    BY EntryOpens
  <2> QED BY <2>1
<1>2. r.bar \in 1..MaxBars /\ r.want = Size
  BY LateBar DEF Around, Entering
<1>3. Standing(pos, r.bar, Size, FALSE)'
  BY <1>1, <1>2, EntryBookedPaper
<1>4. BooksOf'
  BY <1>1, BooksBook, SetsApart, SizeIs DEF Around, Sides
<1>5. Standing(pos, r.bar, r.want, FALSE)'
  BY <1>2, <1>3
<1> QED BY <1>1, <1>4, <1>5, SteadyEnds

LEMMA EntryUnknown ==
  ASSUME Around, NEW p, NEW r \in TickRecords, Late(r), Entering(r), NEW sent, Standing(NoPos, r.bar, Size, sent),
         left["query"] > 0, left'["query"] = left["query"] - 1,
         EntryDone(p, "tick", r, OutcomeUnknown), suppressed' = suppressed
  PROVE  SteadyMoves
<1>1. OutcomeUnknown.failed /\ OutcomeUnknown.unknown /\ ~IsOpen(NoPos)
  BY NothingIs DEF OutcomeUnknown, Frozen
<1>2. r.cur = NoPos /\ r.qty = Size /\ r.want = Size /\ <<"buy", r.bar>> \notin trades /\ <<"unkadopt", r.bar>> \notin trades
  BY DEF Entering
<1>3. pos' = Marker(Size, r.bar, 0) /\ End("tick") /\ Unbooked
  BY <1>1, <1>2 DEF EntryDone
<1>4. r.bar \in 1..MaxBars
  BY LateBar DEF Around
<1>5. pos' \in Markers /\ pos'.bar = r.bar /\ pos'.misses = 0
  BY <1>3, <1>4, MadeMarker DEF Marker
<1>6. BooksOf' /\ UNCHANGED <<trades, booked>>
  BY <1>3, <1>5, BooksStay, SetsApart DEF Around
<1>7. Standing(pos, r.bar, Size, FALSE)'
  BY <1>2, <1>4, <1>5, <1>6, MarkerLeft
<1>8. Standing(pos, r.bar, r.want, FALSE)'
  BY <1>2, <1>7
<1> QED BY <1>3, <1>6, <1>8, SteadyEnds

LEMMA ExitLive ==
  ASSUME Around, NEW r \in TickRecords, Late(r), Leaving(r), Standing(r.cur, r.bar, 0, FALSE),
         order[<<"sell", r.bar>>] # NoOrder, ExitDone(r.cur, "tick", r, Filled(Size)), suppressed' = suppressed
  PROVE  SteadyMoves
<1>1. Filled(Size).failed = FALSE /\ Filled(Size).got = Size /\ Filled(Size).live = TRUE
  BY DEF Filled
<1>2. r.cur \in LivePositions /\ r.qty = Size /\ r.want = 0 /\ r.bar \in 1..MaxBars
  BY LateBar DEF Leaving, Around
<1>3. r.cur.stops = {} /\ r.cur.live = TRUE /\ r.cur \in SteadyPositions
  BY <1>2, KindsApart, SetsApart
<1>4. CASE <<"sell", r.bar>> \in trades
  <2>1. pos' = r.cur /\ End("tick") /\ Unbooked
    BY <1>1, <1>4 DEF ExitDone
  <2>2. BooksOf' /\ UNCHANGED <<trades, booked>>
    BY <1>3, <2>1, BooksStay DEF Around
  <2>3. Standing(r.cur, r.bar, 0, FALSE)'
    BY <1>3, <2>2, StandingStays
  <2>4. Standing(pos, r.bar, r.want, FALSE)'
    BY <1>2, <2>1, <2>3
  <2> QED BY <2>1, <2>2, <2>4, SteadyEnds
<1>5. CASE <<"sell", r.bar>> \notin trades
  <2>1. ~(Filled(Size).live /\ Filled(Size).got < r.qty)
    BY <1>1, <1>2, SizeIs
  <2>2. /\ Book(<<"sell", r.bar>>, "sell", Size, TRUE)
        /\ \E level \in Risen(r.cur) : GoSync(NoPos, "tick", r, NoPos, {}, TRUE)
    BY <1>1, <1>2, <1>3, <1>5, <2>1 DEF ExitDone
  <2>3. pos' = NoPos /\ End("tick")
    BY <2>2, SavedAsIs, SteadyRecord, SetsApart DEF Around
  <2>4. Standing(NoPos, r.bar, 0, FALSE)'
    BY <1>2, <1>5, <2>2, ExitBooked
  <2>5. BooksOf'
    BY <2>2, <2>3, BooksBook, SetsApart, SizeIs DEF Around, Sides
  <2>6. Standing(pos, r.bar, r.want, FALSE)'
    BY <1>2, <2>3, <2>4
  <2> QED BY <2>3, <2>5, <2>6, SteadyEnds
<1> QED BY <1>4, <1>5

\* An exit that is refused, or of unknown outcome, leaves the position.
LEMMA ExitFails ==
  ASSUME Around, NEW r \in TickRecords, Late(r), Leaving(r), Standing(r.cur, r.bar, 0, FALSE),
         NEW f \in {Frozen, OutcomeUnknown}, ExitDone(r.cur, "tick", r, f), suppressed' = suppressed
  PROVE  SteadyMoves
<1>1. f.failed
  BY DEF Frozen, OutcomeUnknown
<1>2. r.cur \in LivePositions /\ r.want = 0
  BY DEF Leaving
<1>3. r.cur \in SteadyPositions
  BY <1>2, SetsApart
<1>4. /\ pos' = IF f.unknown THEN [r.cur EXCEPT !.unknown = Least(MaxUnknown, @ + 1)] ELSE r.cur
      /\ End("tick") /\ Unbooked
  BY <1>1 DEF ExitDone
<1>5. pos' \in LivePositions
  <2>1. r.cur.unknown \in 0..MaxUnknown
    BY <1>2, KindsApart
  <2>2. Least(MaxUnknown, r.cur.unknown + 1) \in 0..MaxUnknown
    BY <2>1, SizeIs DEF Least
  <2>3. \A u \in 0..MaxUnknown : [r.cur EXCEPT !.unknown = u] \in LivePositions
    BY <1>2 DEF LivePositions
  <2>4. [r.cur EXCEPT !.unknown = Least(MaxUnknown, @ + 1)] = [r.cur EXCEPT !.unknown = Least(MaxUnknown, r.cur.unknown + 1)]
    OBVIOUS
  <2> QED BY <1>2, <1>4, <2>2, <2>3, <2>4
<1>6. BooksOf' /\ UNCHANGED <<trades, booked>>
  BY <1>4, <1>5, BooksStay, SetsApart DEF Around
<1>7. Standing(pos', r.bar, 0, FALSE)
  BY <1>2, <1>5, OpenSwap
<1>8. \A c \in SteadyPositions : Standing(c, r.bar, 0, FALSE) => Standing(c, r.bar, 0, FALSE)'
  BY <1>6, StandingStays
<1>9. Standing(pos, r.bar, r.want, FALSE)'
  <2>1. PICK c \in LivePositions : c = pos'
    BY <1>5
  <2>2. Standing(c, r.bar, 0, FALSE)
    BY <1>7, <2>1
  <2>3. Standing(c, r.bar, 0, FALSE)'
    BY <1>8, <2>2, SetsApart
  <2> QED BY <1>2, <2>1, <2>3
<1> QED BY <1>4, <1>6, <1>9, SteadyEnds

LEMMA ExitPaper ==
  ASSUME Around, NEW r \in TickRecords, Late(r), r.kind = "exit", NEW c \in PaperPositions, r.cur = c, r.qty = Size,
         r.want = 0, Standing(c, r.bar, 0, FALSE), ExitDone(c, "tick", r, OnPaper(Size)), suppressed' = suppressed
  PROVE  SteadyMoves
<1>1. OnPaper(Size).failed = FALSE /\ OnPaper(Size).got = Size /\ OnPaper(Size).live = FALSE
  BY DEF OnPaper
<1>2. r.bar \in 1..MaxBars
  BY LateBar DEF Around
<1>3. c.stops = {} /\ c.live = FALSE /\ c \in SteadyPositions
  BY KindsApart, SetsApart
<1>4. CASE <<"sell", r.bar>> \in trades
  <2>1. pos' = c /\ End("tick") /\ Unbooked
    BY <1>1, <1>4 DEF ExitDone
  <2>2. BooksOf' /\ UNCHANGED <<trades, booked>>
    BY <1>3, <2>1, BooksStay DEF Around
  <2>3. Standing(c, r.bar, 0, FALSE)'
    BY <1>3, <2>2, StandingStays
  <2>4. Standing(pos, r.bar, r.want, FALSE)'
    BY <2>1, <2>3
  <2> QED BY <2>1, <2>2, <2>4, SteadyEnds
<1>5. CASE <<"sell", r.bar>> \notin trades
  <2>2. /\ Book(<<"sell", r.bar>>, "sell", Size, FALSE)
        /\ \E level \in Risen(r.cur) : GoSync(NoPos, "tick", r, NoPos, {}, FALSE)
    BY <1>1, <1>3, <1>5 DEF ExitDone
  <2>3. pos' = NoPos /\ End("tick")
    BY <2>2, SavedAsIs, SteadyRecord, SetsApart DEF Around
  <2>4. Standing(NoPos, r.bar, 0, FALSE)'
    BY <1>2, <1>5, <2>2, PaperExit
  <2>5. BooksOf'
    BY <2>2, <2>3, BooksBook, SetsApart, SizeIs DEF Around, Sides
  <2>6. Standing(pos, r.bar, r.want, FALSE)'
    BY <2>3, <2>4
  <2> QED BY <2>3, <2>5, <2>6, SteadyEnds
<1> QED BY <1>4, <1>5

LEMMA OrderDoneIs ==
  ASSUME NEW p, NEW r, NEW f, r.kind \in {"entry", "exit"}, OrderDone(p, "tick", r, f)
  PROVE  /\ suppressed' = suppressed
         /\ r.kind = "entry" => EntryDone(p, "tick", r, f)
         /\ r.kind = "exit" => ExitDone(p, "tick", r, f)
<1>1. /\ EntryDone(p, "tick", r, f) => r.kind = "entry"
      /\ ExitDone(p, "tick", r, f) => r.kind = "exit"
      /\ ~CloseDone(p, "tick", r, f) /\ ~ProtectDone(p, "tick", r, f)
  <2>1. EntryDone(p, "tick", r, f) => r.kind = "entry"
    BY DEF EntryDone
  <2>2. ExitDone(p, "tick", r, f) => r.kind = "exit"
    BY DEF ExitDone
  <2>3. ~CloseDone(p, "tick", r, f)
    BY DEF CloseDone
  <2>4. ~ProtectDone(p, "tick", r, f)
    BY DEF ProtectDone
  <2> QED BY <2>1, <2>2, <2>3, <2>4
<1> QED BY <1>1 DEF OrderDone

-----------------------------------------------------------------------------
(* The tick's stages.                                                      *)

\* What the tick goes on with: a position that is in the store, and a record of
\* the bar that is being decided on.
Ready(p, r, c) ==
  /\ p = c /\ c \in Flat \cup LivePositions
  /\ r \in TickRecords /\ Late(r) /\ Standing(c, r.bar, r.want, FALSE)

LEMMA SteadySuspends ==
  ASSUME Around, Unbooked, suppressed' = suppressed, NEW c \in SteadyPositions, pos' = c,
         NEW r \in TickRecords, r.cur = c, AtStage(r)', Late(r), r.at # "bars",
         Standing(c, r.bar, r.want, Sent(r)), Suspend("tick", r)
  PROVE  SteadyMoves
<1>1. act' = [act EXCEPT !["tick"] = r] /\ lock' = "tick"
  BY DEF Suspend
<1>2. BooksOf' /\ UNCHANGED <<trades, booked>>
  BY BooksStay DEF Around
<1>3. Standing(c, r.bar, r.want, Sent(r))'
  BY <1>2, StandingStays
<1>4. Late(r)'
  BY DEF Late, Around
<1>5. TickHolds(pos, r)'
  BY <1>3, <1>4 DEF TickHolds
<1> QED BY <1>1, <1>2, <1>5 DEF SteadyMoves

LEMMA StandingAny ==
  ASSUME NEW c, NEW b, NEW w, NEW sent, Standing(c, b, w, FALSE)
  PROVE  Standing(c, b, w, sent)
  BY DEF Standing, FlatKept

\* The record of what the tick does with the position c.
LEMMA TickRecordChanges ==
  ASSUME NEW r \in TickRecords, NEW c \in SteadyPositions, NEW chan \in {"new", "live", "paper"}
  PROVE  LET s == [r EXCEPT !.cur = c, !.chan = chan]
         IN  s \in TickRecords /\ s.cur = c /\ s.chan = chan /\ s.bar = r.bar /\ s.want = r.want
  BY DEF TickRecords

LEMMA TickOrders ==
  ASSUME NEW r \in TickRecords, NEW side \in Sides, NEW kind \in {"entry", "exit"}
  PROVE  LET s == [r EXCEPT !.side = side, !.qty = Size, !.kind = kind]
         IN  /\ s \in TickRecords /\ s.cur = r.cur /\ s.chan = r.chan /\ s.bar = r.bar /\ s.want = r.want
             /\ s.side = side /\ s.qty = Size /\ s.kind = kind
  BY DEF TickRecords

LEMMA TickStaged ==
  ASSUME NEW r \in TickRecords, NEW stage \in {"unknown", "seed", "force", "sync"} \cup Ordered
  PROVE  LET s == [r EXCEPT !.at = stage]
         IN  /\ s \in TickRecords /\ s.at = stage /\ s.cur = r.cur /\ s.chan = r.chan /\ s.bar = r.bar /\ s.want = r.want
             /\ s.side = r.side /\ s.qty = r.qty /\ s.kind = r.kind /\ s.got = r.got
  BY DEF TickRecords

LEMMA HoldSteady ==
  ASSUME Around, NEW p, NEW r \in TickRecords, NEW c, Ready(p, r, c), Hold(p, r, c)
  PROVE  SteadyMoves
<1>1. r.bar \in 1..MaxBars /\ Late(r) /\ Standing(c, r.bar, r.want, FALSE) /\ c \in SteadyPositions
  <2>1. c \in SteadyPositions
    BY DEF Ready, SteadyPositions
  <2> QED BY <2>1, LateBar DEF Around, Ready
<1>2. CASE ~IsOpen(c)
  <2>1. pos' = c /\ End("tick") /\ Unbooked /\ suppressed' = suppressed
    BY <1>2 DEF Hold
  <2>2. BooksOf' /\ UNCHANGED <<trades, booked>>
    BY <1>1, <2>1, BooksStay DEF Around
  <2>3. Standing(c, r.bar, r.want, FALSE)'
    BY <1>1, <2>2, StandingStays
  <2>4. Standing(pos, r.bar, r.want, FALSE)'
    BY <2>1, <2>3
  <2> QED BY <1>1, <2>1, <2>2, <2>4, SteadyEnds
<1>3. CASE IsOpen(c)
  <2>1. c \in LivePositions \cup PaperPositions
    BY <1>3, NothingIs DEF Ready, Flat
  <2>2. c.stops = {}
    BY <2>1, KindsApart
  <2>3. PICK level \in Risen(c) : GoSync(p, "tick", [r EXCEPT !.kind = "hold"], [c EXCEPT !.level = level], {}, c.live)
    BY <1>3, <2>2 DEF Hold
  <2>4. level \in Levels
    BY DEF Risen
  <2> DEFINE d == [c EXCEPT !.level = level]
  <2>5. \/ c \in LivePositions /\ d \in LivePositions
        \/ c \in PaperPositions /\ d \in PaperPositions
    <3>1. CASE c \in LivePositions
      <4>1. d \in LivePositions
        BY <3>1, <2>4, SizeIs DEF LivePositions
      <4> QED BY <3>1, <4>1
    <3>2. CASE c \in PaperPositions
      BY <3>2, <2>4, PaperChanges
    <3> QED BY <2>1, <3>1, <3>2
  <2>6. IsRecord([r EXCEPT !.kind = "hold"], RecordFields) /\ [r EXCEPT !.kind = "hold"].kind = "hold"
    BY SteadyRecord DEF IsRecord, RecordFields
  <2> HIDE DEF d
  <2>7. d \in SteadyPositions /\ d \in Flat \cup LivePositions
    BY <2>5, SetsApart
  <2>8. pos' = d /\ End("tick")
    <3>1. GoSync(p, "tick", [r EXCEPT !.kind = "hold"], d, {}, c.live)
      BY <2>3 DEF d
    <3>2. \A s : \A live : IsRecord(s, RecordFields) /\ s.kind = "hold" /\ GoSync(p, "tick", s, d, {}, live) => pos' = d /\ End("tick")
      BY <2>7, SavedAsIs DEF Around
    <3> QED BY <2>6, <3>1, <3>2
  <2>9. Unbooked /\ suppressed' = suppressed
    BY DEF Hold
  <2>10. BooksOf' /\ UNCHANGED <<trades, booked>>
    BY <2>7, <2>8, <2>9, BooksStay DEF Around
  <2>11. Standing(d, r.bar, r.want, FALSE)
    BY <1>1, <2>5, OpenSwap
  <2>12. Standing(d, r.bar, r.want, FALSE)'
    BY <2>7, <2>10, <2>11, StandingStays
  <2>13. Standing(pos, r.bar, r.want, FALSE)'
    BY <2>8, <2>12
  <2> QED BY <1>1, <2>8, <2>9, <2>10, <2>13, SteadyEnds
<1> QED BY <1>2, <1>3

\* An order the tick starts, behind an open gate or a closed one.
LEMMA EnterSteady ==
  ASSUME Around, NEW r \in TickRecords, Late(r), Entering(r), Standing(NoPos, r.bar, Size, FALSE),
         StartOrder(NoPos, "tick", r)
  PROVE  SteadyMoves
<1>1. r.kind = "entry" /\ r.cur = NoPos /\ r.chan = "new" /\ r.qty = Size /\ r.want = Size
  BY DEF Entering
<1>2. Net = 0
  BY SetsApart DEF Standing, FlatKept
<1>3. CASE ~gate /\ OrderDone(NoPos, "tick", r, Blocked(r))
  <2>1. Blocked(r) = OnPaper(Size)
    BY <1>1 DEF Blocked
  <2>2. EntryDone(NoPos, "tick", r, OnPaper(Size)) /\ suppressed' = suppressed
    BY <1>1, <1>3, <2>1, OrderDoneIs
  <2> QED BY <1>2, <2>2, EntryPaper
<1>4. CASE /\ pos' = NoPos /\ Unbooked /\ UNCHANGED suppressed
           /\ Suspend("tick", [r EXCEPT !.at = "precheck"])
  <2> DEFINE s == [r EXCEPT !.at = "precheck"]
  <2>1. /\ s \in TickRecords /\ s.at = "precheck" /\ s.cur = r.cur /\ s.chan = r.chan /\ s.bar = r.bar /\ s.want = r.want
        /\ s.side = r.side /\ s.qty = r.qty /\ s.kind = r.kind
    BY TickStaged DEF Ordered
  <2>2. Suspend("tick", s)
    BY <1>4
  <2> HIDE DEF s
  <2>3. Entering(s)'
    BY <1>4, <2>1 DEF Entering, Unbooked
  <2>4. AtStage(s)'
    BY <2>1, <2>3 DEF AtStage
  <2>5. Late(s)
    BY <2>1 DEF Late
  <2>6. Standing(NoPos, s.bar, s.want, Sent(s))
    BY <1>1, <2>1, StandingAny
  <2> QED BY <1>1, <1>4, <2>1, <2>2, <2>4, <2>5, <2>6, SteadySuspends, SetsApart
<1> QED BY <1>1, <1>3, <1>4 DEF StartOrder

LEMMA LeaveSteady ==
  ASSUME Around, NEW r \in TickRecords, Late(r), Leaving(r), Standing(r.cur, r.bar, 0, FALSE),
         StartOrder(r.cur, "tick", r)
  PROVE  SteadyMoves
<1>1. r.kind = "exit" /\ r.cur \in LivePositions /\ r.chan = "live" /\ r.qty = Size /\ r.want = 0
  BY DEF Leaving
<1>3. CASE ~gate /\ OrderDone(r.cur, "tick", r, Blocked(r))
  <2>1. Blocked(r) = Frozen
    BY <1>1 DEF Blocked
  <2>2. ExitDone(r.cur, "tick", r, Frozen) /\ suppressed' = suppressed
    BY <1>1, <1>3, <2>1, OrderDoneIs
  <2> QED BY <2>2, ExitFails
<1>4. CASE /\ pos' = r.cur /\ Unbooked /\ UNCHANGED suppressed
           /\ Suspend("tick", [r EXCEPT !.at = "precheck"])
  <2> DEFINE s == [r EXCEPT !.at = "precheck"]
  <2>1. /\ s \in TickRecords /\ s.at = "precheck" /\ s.cur = r.cur /\ s.chan = r.chan /\ s.bar = r.bar /\ s.want = r.want
        /\ s.side = r.side /\ s.qty = r.qty /\ s.kind = r.kind
    BY TickStaged DEF Ordered
  <2>2. Suspend("tick", s)
    BY <1>4
  <2> HIDE DEF s
  <2>3. Leaving(s)'
    BY <2>1 DEF Leaving
  <2>4. AtStage(s)'
    BY <2>1, <2>3 DEF AtStage
  <2>5. Late(s)
    BY <2>1 DEF Late
  <2>6. Standing(r.cur, s.bar, s.want, Sent(s))
    BY <1>1, <2>1, StandingAny
  <2> QED BY <1>1, <1>4, <2>1, <2>2, <2>4, <2>5, <2>6, SteadySuspends, SetsApart
<1> QED BY <1>1, <1>3, <1>4 DEF StartOrder

LEMMA LeavePaper ==
  ASSUME Around, NEW r \in TickRecords, Late(r), r.kind = "exit", NEW c \in PaperPositions, r.cur = c, r.qty = Size,
         r.want = 0, r.chan = "paper", Standing(c, r.bar, 0, FALSE), StartOrder(c, "tick", r)
  PROVE  SteadyMoves
<1>1. OrderDone(c, "tick", r, OnPaper(Size))
  BY DEF StartOrder
<1>2. ExitDone(c, "tick", r, OnPaper(Size)) /\ suppressed' = suppressed
  BY <1>1, OrderDoneIs
<1> QED BY <1>2, ExitPaper

LEMMA DecideSteady ==
  ASSUME Around, NEW p, NEW r \in TickRecords, NEW c, Ready(p, r, c), Decide(p, r, c)
  PROVE  SteadyMoves
<1> DEFINE s == [r EXCEPT !.cur = c, !.chan = Channel(c)]
<1>1. r.bar \in 1..MaxBars /\ Late(r) /\ Standing(c, r.bar, r.want, FALSE) /\ p = c /\ r.want \in WholeWants
  BY LateBar, SteadyRecord DEF Around, Ready
<1>2. c = NoPos \/ c \in LivePositions \/ c \in PaperPositions
  BY DEF Ready, Flat
<1>3. ~(IsLive(c) /\ c.naked)
  BY <1>2, KindsApart, NothingIs
<1>4. s \in TickRecords /\ s.cur = c /\ s.chan = Channel(c) /\ s.bar = r.bar /\ s.want = r.want
  <2>1. Channel(c) \in {"new", "live", "paper"} /\ c \in SteadyPositions
    BY <1>2, SetsApart DEF Channel
  <2>2. \A chan \in {"new", "live", "paper"} :
          LET t == [r EXCEPT !.cur = c, !.chan = chan]
          IN  t \in TickRecords /\ t.cur = c /\ t.chan = chan /\ t.bar = r.bar /\ t.want = r.want
    BY ZenonT(40), <2>1, TickRecordChanges
  <2> QED BY <2>1, <2>2, Zenon
<1>5. Ready(p, s, c) /\ Late(s)
  BY <1>1, <1>4 DEF Ready, Late
<1>6. CASE Hold(p, s, c)
  BY <1>4, <1>5, <1>6, HoldSteady
<1>7. CASE r.want > QtyOf(c) /\ StartOrder(p, "tick", [s EXCEPT !.side = "buy", !.qty = r.want - QtyOf(c), !.kind = "entry"])
  <2>1. c = NoPos /\ QtyOf(c) = 0 /\ r.want = Size
    <3>1. QtyOf(c) \in {0, Size} /\ (QtyOf(c) = 0 => c = NoPos)
      BY <1>2, LiveIs, PaperIs, NothingIs, SizeIs
    <3> QED BY <1>1, <1>7, <3>1, SizeIs, NothingIs DEF WholeWants
  <2> DEFINE t == [s EXCEPT !.side = "buy", !.qty = Size, !.kind = "entry"]
  <2>2. /\ t \in TickRecords /\ t.cur = s.cur /\ t.chan = s.chan /\ t.bar = s.bar /\ t.want = s.want
        /\ t.side = "buy" /\ t.qty = Size /\ t.kind = "entry"
    <3> HIDE DEF s
    <3> QED BY <1>4, TickOrders DEF Sides
  <2>3. StartOrder(NoPos, "tick", t)
    <3>1. r.want - QtyOf(c) = Size
      BY <2>1, SizeIs
    <3> QED BY <1>1, <1>7, <2>1, <3>1
  <2> HIDE DEF t, s
  <2>4. order[<<"buy", r.bar>>] = NoOrder
    BY <1>1, <2>1, SetsApart, SizeIs DEF Standing, BarKept, FlatKept
  <2>5. <<"buy", r.bar>> \notin trades /\ <<"unkadopt", r.bar>> \notin trades
    BY <1>1, <2>1, <2>4, SetsApart DEF Standing, BarKept
  <2>6. Entering(t)
    BY <1>4, <2>1, <2>2, <2>5, NothingIs DEF Entering
  <2>7. Late(t) /\ Standing(NoPos, t.bar, Size, FALSE)
    BY <1>1, <1>4, <2>1, <2>2 DEF Late
  <2> QED BY <2>2, <2>3, <2>6, <2>7, EnterSteady
<1>8. CASE r.want \in 0..(QtyOf(c) - 1)
            /\ StartOrder(p, "tick", [s EXCEPT !.side = "sell", !.qty = QtyOf(c) - r.want, !.kind = "exit"])
  <2>1. c \in LivePositions \cup PaperPositions /\ QtyOf(c) = Size /\ r.want = 0
    <3>1. QtyOf(c) \in {0, Size} /\ (QtyOf(c) = Size => c # NoPos)
      BY <1>2, LiveIs, PaperIs, NothingIs, SizeIs
    <3>2. QtyOf(c) = Size
      BY <1>8, <3>1, SizeIs
    <3> QED BY <1>1, <1>2, <1>8, <3>1, <3>2, SizeIs DEF WholeWants
  <2> DEFINE t == [s EXCEPT !.side = "sell", !.qty = Size, !.kind = "exit"]
  <2>2. /\ t \in TickRecords /\ t.cur = s.cur /\ t.chan = s.chan /\ t.bar = s.bar /\ t.want = s.want
        /\ t.side = "sell" /\ t.qty = Size /\ t.kind = "exit"
    <3> HIDE DEF s
    <3> QED BY <1>4, TickOrders DEF Sides
  <2>3. StartOrder(c, "tick", t)
    <3>1. QtyOf(c) - r.want = Size
      BY <2>1, SizeIs
    <3> QED BY <1>1, <1>8, <3>1
  <2> HIDE DEF t, s
  <2>4. Late(t) /\ Standing(c, t.bar, 0, FALSE) /\ t.want = 0 /\ t.cur = c
    BY <1>1, <1>4, <2>1, <2>2 DEF Late
  <2>5. CASE c \in LivePositions
    <3>1. Leaving(t)
      BY <1>4, <2>1, <2>2, <2>5, LiveIs DEF Leaving
    <3> QED BY <2>2, <2>3, <2>4, <3>1, LeaveSteady
  <2>6. CASE c \in PaperPositions
    <3>1. t.chan = "paper"
      BY <1>4, <2>2, <2>6, PaperIs
    <3> QED BY <2>2, <2>3, <2>4, <2>6, <3>1, LeavePaper
  <2> QED BY <2>1, <2>5, <2>6
<1> QED
  <2> HIDE DEF s
  <2>1. \/ Hold(p, s, c)
        \/ r.want > QtyOf(c) /\ StartOrder(p, "tick", [s EXCEPT !.side = "buy", !.qty = r.want - QtyOf(c), !.kind = "entry"])
        \/ r.want \in 0..(QtyOf(c) - 1)
            /\ StartOrder(p, "tick", [s EXCEPT !.side = "sell", !.qty = QtyOf(c) - r.want, !.kind = "exit"])
    BY <1>3 DEF Decide, s
  <2> QED BY <1>6, <1>7, <1>8, <2>1

LEMMA StopsSteady ==
  ASSUME Around, NEW p, NEW r \in TickRecords, NEW c, Ready(p, r, c), GoStops(p, r, c)
  PROVE  SteadyMoves
<1>1. ~(IsLive(c) /\ c.stops # {})
  BY KindsApart, NothingIs DEF Ready, Flat
<1>2. Decide(p, r, c)
  BY <1>1 DEF GoStops
<1> QED BY <1>2, DecideSteady

LEMMA WaitSteady ==
  ASSUME Around, Unbooked, suppressed' = suppressed, NEW r \in TickRecords, NEW stage \in {"seed", "force"},
         NEW c, Ready(c, r, c), stage = "seed" => c = NoPos, stage = "force" => c \in LivePositions,
         pos' = c, Suspend("tick", [r EXCEPT !.at = stage, !.cur = c])
  PROVE  SteadyMoves
<1>1. c \in SteadyPositions
  BY DEF Ready, SteadyPositions
<1> DEFINE s == [r EXCEPT !.at = stage, !.cur = c]
<1>2. s \in TickRecords /\ s.at = stage /\ s.cur = c /\ s.bar = r.bar /\ s.want = r.want
  BY <1>1 DEF TickRecords
<1>3. Suspend("tick", s)
  OBVIOUS
<1> HIDE DEF s
<1>4. AtStage(s)'
  <2>1. s.at \notin Ordered /\ s.at # "unknown" /\ s.at # "sync" /\ s.at # "answer" /\ s.at # "bars"
    BY <1>2 DEF Ordered
  <2> QED BY <1>2, <2>1 DEF AtStage
<1>5. Late(s) /\ Standing(c, s.bar, s.want, Sent(s)) /\ s.at # "bars"
  <2>1. Standing(c, r.bar, r.want, FALSE) /\ Late(r)
    BY DEF Ready
  <2> QED BY <1>2, <2>1, StandingAny DEF Late
<1> QED BY <1>1, <1>2, <1>3, <1>4, <1>5, SteadySuspends

LEMMA ForceSteady ==
  ASSUME Around, NEW p, NEW r \in TickRecords, NEW c, Ready(p, r, c), GoForce(p, r, c)
  PROVE  SteadyMoves
<1>1. p = c /\ Ready(c, r, c)
  BY DEF Ready
<1>2. CASE pos' = p /\ Suspend("tick", [r EXCEPT !.at = "force", !.cur = c]) /\ Unbooked /\ UNCHANGED suppressed
           /\ IsOpen(c) /\ c.unknown >= MaxUnknown
  <2>1. c \in LivePositions
    <3>1. ASSUME c \in PaperPositions PROVE FALSE
      BY <1>2, <3>1, KindsApart, SizeIs
    <3>2. c # NoPos
      BY <1>2, NothingIs
    <3> QED BY <3>1, <3>2 DEF Ready, Flat
  <2> QED BY <1>1, <1>2, <2>1, WaitSteady
<1>3. CASE GoStops(p, r, c)
  BY <1>3, StopsSteady
<1> QED BY <1>2, <1>3 DEF GoForce

LEMMA SeedSteady ==
  ASSUME Around, NEW p, NEW r \in TickRecords, NEW c, Ready(p, r, c), GoSeed(p, r, c)
  PROVE  SteadyMoves /\ seeded' \in BOOLEAN
<1>1. p = c /\ Ready(c, r, c)
  BY DEF Ready
<1>2. CASE pos' = p /\ Suspend("tick", [r EXCEPT !.at = "seed", !.cur = c]) /\ Unbooked /\ UNCHANGED suppressed
           /\ ~IsOpen(c)
  <2>1. c = NoPos
    BY <1>2, LiveIs, PaperIs DEF Ready, Flat
  <2> QED BY <1>1, <1>2, <2>1, WaitSteady DEF GoSeed
<1>3. CASE GoForce(p, r, c)
  BY <1>3, ForceSteady DEF GoSeed
<1> QED BY <1>2, <1>3 DEF GoSeed

-----------------------------------------------------------------------------
(* Every action of the steady bot keeps the invariant.                     *)

LEMMA TroubleLuck ==
  ASSUME Luck
  PROVE  /\ NoTrouble => Luck' /\ left'["query"] <= left["query"]
         /\ \A f \in AllFaults : Trouble(f) => Luck' /\ left'["query"] <= left["query"] /\ f \notin Never
         /\ Trouble("query") => left["query"] > 0 /\ left'["query"] = left["query"] - 1
<1>1. left \in [AllFaults -> Nat] /\ left["query"] <= ClearMisses /\ "query" \in AllFaults
  BY DEF Luck, AllFaults
<1>2. NoTrouble => Luck' /\ left'["query"] <= left["query"]
  <2>1. ASSUME NoTrouble PROVE left' = left
    BY <2>1 DEF NoTrouble
  <2>2. left["query"] <= left["query"]
    BY <1>1
  <2> QED BY <2>1, <2>2 DEF Luck
<1>3. ASSUME NEW f \in AllFaults, Trouble(f)
      PROVE  Luck' /\ left'["query"] <= left["query"] /\ f \notin Never
  <2>1. left[f] > 0 /\ left' = [left EXCEPT ![f] = left[f] - 1]
    BY <1>3 DEF Trouble
  <2>2. f \notin Never
    <3>1. ASSUME f \in Never PROVE FALSE
      <4>1. left[f] = 0
        BY <3>1 DEF Luck
      <4> QED BY <2>1, <4>1
    <3> QED BY <3>1
  <2>3. left' \in [AllFaults -> Nat] /\ left'["query"] <= left["query"]
    BY <1>1, <2>1
  <2>4. left'["query"] <= ClearMisses
    <3>1. left["query"] \in Nat /\ left'["query"] \in Nat
      BY <1>1, <2>3
    <3> QED BY <1>1, <2>3, <3>1, SizeIs
  <2>5. \A g \in Never : left'[g] = 0
    <3>1. \A g \in Never : g # f /\ g \in AllFaults /\ left[g] = 0
      BY <2>2 DEF Luck, Never, AllFaults
    <3> QED BY <1>1, <2>1, <3>1
  <2> QED BY <2>2, <2>3, <2>4, <2>5 DEF Luck
<1>4. Trouble("query") => left["query"] > 0 /\ left'["query"] = left["query"] - 1
  BY <1>1 DEF Trouble
<1> QED BY <1>2, <1>3, <1>4

LEMMA FaultNames ==
  /\ {"lost", "query", "refuse", "cancel", "crash", "trigger", "gate", "sweep"} \subseteq AllFaults
  /\ {"lag", "partial", "crash_in_order", "halt", "scale", "add"} \subseteq AllFaults
  BY DEF AllFaults

\* Of the faults there are, these do not happen.
LEMMA NeverHappens ==
  ASSUME Luck
  PROVE  /\ ~Trouble("lag") /\ ~Trouble("partial") /\ ~Trouble("crash_in_order") /\ ~Trouble("halt")
         /\ left["scale"] = 0 /\ left["add"] = 0
<1>1. \A f \in Never : left[f] = 0
  BY DEF Luck
<1>2. \A f \in Never : ~Trouble(f)
  <2>1. \A f \in Never : ~(left[f] > 0)
    BY <1>1
  <2> QED BY <2>1 DEF Trouble
<1> QED BY <1>1, <1>2 DEF Never

\* Luck holds on, whatever happens.
SteadyTrouble == Luck' /\ left'["query"] <= left["query"]

LEMMA SteadyAround ==
  ASSUME Steady, SteadyInv, SteadyTrouble, UNCHANGED <<running, gate, marketVars, exchangeVars>>
  PROVE  Around /\ Outside'
<1>1. UNCHANGED <<bar, want, order, stop, bought, sold, running, gate>>
  BY DEF marketVars, exchangeVars
<1>2. Around
  BY <1>1 DEF Around, SteadyTrouble, SteadyInv, Steady
<1>3. Outside'
  BY <1>1 DEF SteadyInv, Outside
<1> QED BY <1>2, <1>3

LEMMA TicksAt == ASSUME NEW r \in TickRecords PROVE r.at # "idle"
  BY DEF TickRecords, Ordered

LEMMA SteadyMovesKeep ==
  ASSUME SteadyInv, SteadyMoves, SteadyTrouble, Outside', seeded' \in BOOLEAN
  PROVE  SteadyInv'
<1>1. Luck' /\ Outside'
  BY DEF SteadyTrouble
<1>2. Books'
  BY DEF SteadyMoves, BooksOf, Books, SteadyInv
<1>3. IsRecord(act, Actors) /\ act["halt"] = Idle /\ act["sweep"] = Idle /\ Actors = {"tick", "sweep", "halt"}
  BY DEF SteadyInv, OneActor, Actors
<1>4. ASSUME NEW r, act' = [act EXCEPT !["tick"] = r]
      PROVE  IsRecord(act', Actors) /\ act'["halt"] = Idle /\ act'["sweep"] = Idle /\ act'["tick"] = r
  BY <1>3, <1>4 DEF IsRecord
<1>5. CASE act' = [act EXCEPT !["tick"] = Idle] /\ lock' = "free" /\ Kept(pos)'
  <2>1. IsRecord(act', Actors) /\ act'["halt"] = Idle /\ act'["sweep"] = Idle /\ act'["tick"] = Idle
    BY <1>4, <1>5
  <2>2. OneActor'
    BY <1>5, <2>1, IdleIs DEF OneActor, IsRecord
  <2> QED BY <1>1, <1>2, <1>5, <2>1, <2>2, IdleIs DEF SteadyInv
<1>6. ASSUME NEW r, TickHolds(pos, r)', act' = [act EXCEPT !["tick"] = r], lock' = "tick"
      PROVE  SteadyInv'
  <2>1. IsRecord(act', Actors) /\ act'["halt"] = Idle /\ act'["sweep"] = Idle /\ act'["tick"] = r
    BY <1>4, <1>6
  <2>2. r.at # "idle"
    BY <1>6, TicksAt DEF TickHolds
  <2>3. OneActor'
    BY <1>6, <2>1, <2>2 DEF OneActor, IsRecord
  <2>4. TickHolds(pos, act["tick"])'
    BY <1>6, <2>1
  <2> QED BY <1>1, <1>2, <2>1, <2>2, <2>3, <2>4 DEF SteadyInv
<1> QED BY <1>5, <1>6 DEF SteadyMoves

LEMMA InTick ==
  ASSUME SteadyInv, act["tick"].at # "idle"
  PROVE  /\ T \in TickRecords /\ T.cur = pos /\ AtStage(T) /\ pos \in SteadyPositions
         /\ T.at = "bars" => Kept(pos)
         /\ T.at # "bars" => Late(T) /\ Standing(pos, T.bar, T.want, Sent(T))
  BY DEF SteadyInv, TickHolds, T, Books

LEMMA NoStopNoSale == ASSUME SteadyInv PROVE Resting = {}
<1>1. \A l \in Levels : stop[l].state = "none"
  BY DEF SteadyInv, Outside, NoStop
<1> QED BY <1>1 DEF Resting

-----------------------------------------------------------------------------

LEMMA BarsRecord ==
  ASSUME NEW c \in SteadyPositions
  PROVE  LET r == Record(c, 0, 0) IN r \in TickRecords /\ r.cur = c /\ r.at = "bars"
  BY SizeIs DEF Record, TickRecords, WholeWants

LEMMA TickStartsSteady == ASSUME Steady, SteadyInv, TickStarts PROVE SteadyInv'
<1>1. SteadyTrouble
  BY TroubleLuck DEF TickStarts, SteadyTrouble, NoTrouble, SteadyInv
<1>2. Around /\ Outside'
  BY <1>1, SteadyAround DEF TickStarts
<1>3. PICK r \in TickRecords : r.cur = pos /\ r.at = "bars" /\ r = Record(pos, 0, 0)
  BY BarsRecord DEF SteadyInv, Books
<1>4. act' = [act EXCEPT !["tick"] = r] /\ lock' = "tick"
  BY <1>3 DEF TickStarts, Suspend
<1>5. UNCHANGED <<pos, trades, ledger, booked, seeded, suppressed>>
  BY DEF TickStarts, storeVars
<1>6. BooksOf' /\ suppressed' = suppressed /\ seeded' \in BOOLEAN
  BY <1>5 DEF SteadyInv, Books, BooksOf
<1>7. AtStage(r)'
  BY <1>3 DEF AtStage, Ordered
<1>8. Kept(pos)'
  <2>1. Kept(pos)
    BY DEF SteadyInv, TickStarts, TickAt, T
  <2>2. PICK b \in 1..MaxBars, w \in WholeWants : b <= bar /\ (b = bar => w = want) /\ Standing(pos, b, w, FALSE)
    BY <2>1 DEF Kept
  <2>3. PICK c \in SteadyPositions : c = pos
    BY DEF SteadyInv, Books
  <2>4. Standing(c, b, w, FALSE)
    BY <2>2, <2>3
  <2>5. Standing(c, b, w, FALSE)'
    BY <1>2, <1>5, <2>4, StandingStays
  <2>6. Standing(pos, b, w, FALSE)' /\ bar' = bar /\ want' = want
    BY <1>2, <1>5, <2>3, <2>5 DEF Around
  <2> QED BY <2>2, <2>6 DEF Kept
<1>9. TickHolds(pos, r)'
  BY <1>3, <1>5, <1>7, <1>8 DEF TickHolds
<1>10. SteadyMoves
  BY <1>4, <1>6, <1>9 DEF SteadyMoves
<1> QED BY <1>1, <1>2, <1>6, <1>10, SteadyMovesKeep

LEMMA KeptStays ==
  ASSUME SteadyInv, Around, Unbooked, pos' = pos, Kept(pos)
  PROVE  Kept(pos)'
<1>1. PICK b \in 1..MaxBars, w \in WholeWants : b <= bar /\ (b = bar => w = want) /\ Standing(pos, b, w, FALSE)
  BY DEF Kept
<1>2. PICK c \in SteadyPositions : c = pos
  BY DEF SteadyInv, Books
<1>3. Standing(c, b, w, FALSE)
  BY <1>1, <1>2
<1>4. UNCHANGED <<trades, booked>>
  BY DEF Unbooked
<1>5. Standing(c, b, w, FALSE)'
  BY <1>3, <1>4, StandingStays
<1>6. Standing(pos, b, w, FALSE)' /\ bar' = bar /\ want' = want
  BY <1>2, <1>5 DEF Around
<1> QED BY <1>1, <1>6 DEF Kept

\* What was kept agrees as of the present bar.
LEMMA KeptNow ==
  ASSUME SteadyInv, Kept(pos)
  PROVE  Standing(pos, bar, want, FALSE)
<1>1. PICK b \in 1..MaxBars, w \in WholeWants : b <= bar /\ (b = bar => w = want) /\ Standing(pos, b, w, FALSE)
  BY DEF Kept
<1>2. Luck /\ Books /\ Outside /\ bar \in 1..MaxBars /\ pos \in SteadyPositions
  BY DEF SteadyInv, Outside, Books
<1>3. CASE b = bar
  BY <1>1, <1>3
<1>4. CASE b < bar
  BY <1>1, <1>2, <1>4, NextBar
<1>5. b = bar \/ b < bar
  BY <1>1, <1>2, SizeIs
<1> QED BY <1>3, <1>4, <1>5

LEMMA EndsAsWas ==
  ASSUME Steady, SteadyInv, SteadyTrouble, Around, Outside', Unbooked, pos' = pos, Kept(pos), End("tick"),
         UNCHANGED <<seeded, suppressed>>
  PROVE  SteadyInv'
<1>1. Kept(pos)'
  BY KeptStays
<1>2. BooksOf' /\ seeded' \in BOOLEAN
  BY DEF SteadyInv, Books, BooksOf, Unbooked
<1>3. SteadyMoves
  BY <1>1, <1>2 DEF SteadyMoves, End
<1> QED BY <1>2, <1>3, SteadyMovesKeep

LEMMA BarsFailSteady == ASSUME Steady, SteadyInv, BarsFail PROVE SteadyInv'
<1>1. SteadyTrouble
  BY TroubleLuck, FaultNames DEF BarsFail, SteadyTrouble, SteadyInv
<1>2. Around /\ Outside'
  BY <1>1, SteadyAround DEF BarsFail
<1>3. T.cur = pos /\ Kept(pos)
  BY InTick DEF BarsFail, TickAt, T
<1> QED BY <1>1, <1>2, <1>3, EndsAsWas DEF BarsFail

LEMMA BarsArriveSteady == ASSUME Steady, SteadyInv, BarsArrive PROVE SteadyInv'
<1>1. SteadyTrouble
  BY TroubleLuck DEF BarsArrive, SteadyTrouble, SteadyInv
<1>2. Around /\ Outside'
  BY <1>1, SteadyAround DEF BarsArrive
<1>3. T \in TickRecords /\ T.cur = pos /\ Kept(pos) /\ pos \in SteadyPositions
  BY InTick DEF BarsArrive, TickAt, T
<1>4. bar \in 1..MaxBars /\ want \in WholeWants
  BY DEF SteadyInv, Outside
<1>5. PICK t \in TickRecords, c \in SteadyPositions, b \in 1..MaxBars, w \in WholeWants :
        t = T /\ c = pos /\ b = bar /\ w = want
  BY <1>3, <1>4
<1> DEFINE r == [t EXCEPT !.bar = b, !.want = w]
<1>6. r \in TickRecords /\ r.cur = c /\ r.bar = b /\ r.want = w
  <2>1. r \in TickRecords /\ r.cur = t.cur /\ r.bar = b /\ r.want = w
    <3>1. b \in 0..MaxBars
      BY SizeIs
    <3> QED BY <3>1 DEF TickRecords
  <2>2. t.cur = c
    BY <1>3, <1>5
  <2> QED BY <2>1, <2>2
<1>7. r = [T EXCEPT !.bar = bar, !.want = want]
  BY <1>5
<1> HIDE DEF r
<1>8. Standing(c, r.bar, r.want, FALSE) /\ Late(r)
  <2>1. Standing(c, b, w, FALSE)
    BY <1>3, <1>5, KeptNow
  <2>2. 1 <= b /\ b <= b
    BY SizeIs
  <2> QED BY <1>5, <1>6, <2>1, <2>2 DEF Late
<1>9. CASE pos' = pos /\ End("tick") /\ Unbooked /\ UNCHANGED <<suppressed, seeded>>
  BY <1>1, <1>2, <1>3, <1>9, EndsAsWas
<1>10. CASE c.kind = "marker" /\ Suspend("tick", [r EXCEPT !.at = "unknown"]) /\ UNCHANGED <<storeVars, suppressed, seeded>>
  <2> DEFINE u == [r EXCEPT !.at = "unknown"]
  <2>1. u \in TickRecords /\ u.at = "unknown" /\ u.cur = r.cur /\ u.bar = r.bar /\ u.want = r.want
    BY <1>6, TickStaged
  <2>2. Suspend("tick", u)
    BY <1>10
  <2> HIDE DEF u
  <2>3. c \in Markers
    BY <1>10, KindsApart DEF SteadyPositions, Flat
  <2>4. AtStage(u)'
    BY <1>6, <2>1, <2>3 DEF AtStage, Ordered
  <2>5. Late(u) /\ Standing(c, u.bar, u.want, Sent(u)) /\ u.cur = c
    BY <1>6, <1>8, <2>1, StandingAny DEF Late
  <2>6. Unbooked /\ suppressed' = suppressed /\ pos' = c /\ seeded' \in BOOLEAN
    BY <1>5, <1>10 DEF storeVars, Unbooked, SteadyInv, Books
  <2>7. SteadyMoves
    BY <1>2, <2>1, <2>2, <2>4, <2>5, <2>6, SteadySuspends
  <2> QED BY <1>1, <1>2, <2>6, <2>7, SteadyMovesKeep
<1>11. CASE c.kind # "marker" /\ GoSeed(c, r, c)
  <2>1. c \in Flat \cup LivePositions
    BY <1>11, KindsApart DEF SteadyPositions
  <2>2. Ready(c, r, c)
    BY <1>6, <1>8, <2>1 DEF Ready
  <2>3. SteadyMoves /\ seeded' \in BOOLEAN
    BY <1>2, <1>6, <1>11, <2>2, SeedSteady
  <2> QED BY <1>1, <1>2, <2>3, SteadyMovesKeep
<1> QED BY <1>3, <1>5, <1>7, <1>9, <1>10, <1>11 DEF BarsArrive

LEMMA HeldIs == ASSUME Steady, SteadyInv PROVE Held = Net /\ Net \in Int
<1>1. bought \in Nat /\ sold \in Nat /\ Baseline = 0
  BY DEF SteadyInv, Outside, Steady
<1> QED BY <1>1 DEF Held, Net

\* Until its order is sent the tick has what agrees.
LEMMA Resumes ==
  ASSUME SteadyInv, T.at \in {"unknown", "seed", "force", "sync", "precheck", "send"}
  PROVE  \E r \in TickRecords, c \in SteadyPositions :
           /\ r = T /\ r.cur = c /\ c = pos /\ AtStage(r) /\ Late(r) /\ r.bar \in 1..MaxBars
           /\ Standing(c, r.bar, r.want, FALSE)
<1>1. /\ T \in TickRecords /\ T.cur = pos /\ AtStage(T) /\ pos \in SteadyPositions
      /\ Late(T) /\ Standing(pos, T.bar, T.want, Sent(T))
  BY InTick DEF T
<1>2. ~Sent(T)
  BY DEF Sent
<1>3. Standing(pos, T.bar, T.want, FALSE)
  BY <1>1, <1>2 DEF Standing, FlatKept
<1>4. T.bar \in 1..MaxBars
  BY <1>1, LateBar DEF SteadyInv
<1> QED BY <1>1, <1>3, <1>4

\* v is the tick t once it has adopted the position c.
HasAdopted(v, t, c) ==
  /\ v = [Synced([t EXCEPT !.kind = "adopt"], c, {}, TRUE) EXCEPT !.at = "sync"]
  /\ v.at = "sync" /\ v.kind = "adopt" /\ v.cur = c /\ v.bar = t.bar /\ v.want = t.want

LEMMA AdoptedRecord ==
  ASSUME ~HasStop, NEW t \in TickRecords, NEW c \in LivePositions
  PROVE  \E v \in TickRecords : HasAdopted(v, t, c)
<1> DEFINE u == [t EXCEPT !.kind = "adopt"]
<1> DEFINE s == Synced(u, c, {}, TRUE)
<1> DEFINE v == [s EXCEPT !.at = "sync"]
<1>1. u \in TickRecords /\ u.kind = "adopt" /\ u.bar = t.bar /\ u.want = t.want
  BY DEF TickRecords
<1> HIDE DEF u
<1>2. IsRecord(u, RecordFields)
  BY <1>1, SteadyRecord
<1>3. IsRecord(s, RecordFields) /\ s.cur = c /\ s.kind = u.kind
  <2>1. \A live : LET x == Synced(u, c, {}, live) IN IsRecord(x, RecordFields) /\ x.cur = c /\ x.kind = u.kind
    BY <1>2, SyncedIs
  <2> QED BY <2>1
<1>4. /\ s.ids = {} /\ s.cancel = {} /\ s.place \in {FALSE} /\ s.failed \in BOOLEAN
      /\ s.bar = u.bar /\ s.want = u.want /\ s.side = u.side /\ s.qty = u.qty /\ s.chan = u.chan
      /\ s.got = u.got /\ s.filled = u.filled
  <2>1. s.ids = {} /\ s.cancel = {}
    BY <1>2, NoStopToPlace
  <2>2. s.place \in {FALSE} /\ s.failed \in BOOLEAN
    BY <1>2, NoStopToPlace
  <2>3. SameOrder(s, u)
    BY <1>2, NoStopToPlace
  <2> QED BY <2>1, <2>2, <2>3 DEF SameOrder
<1> HIDE DEF s
<1>5. IsRecord(v, RecordFields) /\ v.at = "sync" /\ v.cur = s.cur /\ v.kind = s.kind
  BY <1>3 DEF IsRecord, RecordFields
<1>6. v.ids = s.ids /\ v.cancel = s.cancel /\ v.place = s.place /\ v.failed = s.failed /\ v.filled = s.filled
  BY <1>3 DEF IsRecord, RecordFields
<1>7. v.bar = s.bar /\ v.want = s.want /\ v.side = s.side /\ v.qty = s.qty /\ v.chan = s.chan /\ v.got = s.got
  BY <1>3 DEF IsRecord, RecordFields
<1> HIDE DEF v
<1>8. u.bar \in 0..MaxBars /\ u.want \in WholeWants /\ u.side \in Sides \cup {"none"} /\ u.qty \in {0, Size}
      /\ u.chan \in {"new", "live", "paper"} /\ u.got \in {0, Size} /\ u.filled \in {{}}
  BY <1>1 DEF TickRecords
<1>9. c \in SteadyPositions
  BY SetsApart
<1>10. v \in TickRecords
  <2>1. v = [x \in RecordFields |-> v[x]]
    BY <1>5 DEF IsRecord
  <2>2. v.at \in {"bars", "unknown", "seed", "force", "sync"} \cup Ordered /\ v.cur \in SteadyPositions
        /\ v.kind \in {"none", "hold", "entry", "exit", "adopt"}
    BY <1>1, <1>3, <1>5, <1>9
  <2>3. v.bar \in 0..MaxBars /\ v.want \in WholeWants /\ v.side \in Sides \cup {"none"} /\ v.qty \in {0, Size}
      /\ v.chan \in {"new", "live", "paper"} /\ v.got \in {0, Size} /\ v.filled \in {{}}
    BY <1>4, <1>6, <1>7, <1>8
  <2>4. v.ids \in {{}} /\ v.cancel \in {{}} /\ v.place \in {FALSE} /\ v.failed \in BOOLEAN
    BY <1>4, <1>6
  <2> QED BY <2>1, <2>2, <2>3, <2>4 DEF TickRecords, RecordFields
<1>11. v.kind = "adopt" /\ v.cur = c /\ v.bar = t.bar /\ v.want = t.want
  BY <1>1, <1>3, <1>4, <1>5, <1>7
<1>12. v = [Synced([t EXCEPT !.kind = "adopt"], c, {}, TRUE) EXCEPT !.at = "sync"]
  BY DEF u, s, v
<1> QED BY <1>5, <1>10, <1>11, <1>12 DEF HasAdopted

\* A marker nothing is held for is released; any other is kept for longer.
LEMMA MissedSteady ==
  ASSUME Steady, SteadyInv, Around, NEW r \in TickRecords, r = T, Late(r), r.bar \in 1..MaxBars,
         NEW m \in Markers, Standing(m, r.bar, r.want, FALSE), Missed(m),
         Net = 0 \/ (left["query"] > 0 /\ left'["query"] = left["query"] - 1)
  PROVE  SteadyMoves /\ seeded' \in BOOLEAN
<1>1. m.misses \in Nat /\ m.misses <= ClearMisses
  BY KindsApart, SizeIs
<1>2. CASE m.misses + 1 >= ClearMisses /\ GoSeed(NoPos, T, NoPos)
  <2>1. Net = 0
    <3>1. Net = 0 \/ m.misses + 1 + left["query"] <= ClearMisses
      BY DEF Standing, MarkerKept
    <3>2. left["query"] \in Nat
      BY Figures DEF SteadyInv
    <3> QED BY <1>1, <1>2, <3>1, <3>2, SizeIs
  <2>2. Standing(NoPos, r.bar, r.want, FALSE)
    BY <2>1, NothingHeld DEF SteadyInv
  <2>3. Ready(NoPos, r, NoPos) /\ GoSeed(NoPos, r, NoPos)
    BY <1>2, <2>2, SetsApart DEF Ready
  <2> QED BY <2>3, SeedSteady
<1>3. CASE /\ ~(m.misses + 1 >= ClearMisses)
           /\ pos' = [m EXCEPT !.misses = @ + 1] /\ End("tick") /\ Unbooked
           /\ UNCHANGED <<suppressed, seeded>>
  <2>1. m.misses + 1 \in 0..ClearMisses
    BY <1>1, <1>3, SizeIs
  <2> DEFINE k == [m EXCEPT !.misses = m.misses + 1]
  <2>2. k \in Markers /\ k.misses = m.misses + 1 /\ k.bar = m.bar
    BY <2>1, MarkChanges
  <2>3. pos' = k
    BY <1>3
  <2> HIDE DEF k
  <2>4. BooksOf' /\ UNCHANGED <<trades, booked>>
    BY <1>3, <2>2, <2>3, BooksStay, SetsApart DEF SteadyInv
  <2>5. Standing(k, r.bar, r.want, FALSE)'
    BY <2>2, <2>4, MarkerMissed
  <2>6. Standing(pos, r.bar, r.want, FALSE)'
    BY <2>3, <2>5
  <2>7. SteadyMoves
    BY <1>3, <2>4, <2>6, SteadyEnds
  <2> QED BY <1>3, <2>7 DEF SteadyInv, Books
<1> QED BY <1>2, <1>3 DEF Missed

LEMMA AdoptSteady ==
  ASSUME Steady, SteadyInv, Around, NEW r \in TickRecords, r = T, Late(r), r.bar \in 1..MaxBars,
         NEW m \in Markers, Standing(m, r.bar, r.want, FALSE), Net # 0, Adopt(m)
  PROVE  SteadyMoves /\ seeded' \in BOOLEAN
<1>1. <<"unkadopt", m.bar>> \notin trades
  BY DEF Standing, MarkerKept
<1>2. Least(Held, m.want) = Size
  <2>1. m.want = Size /\ Net = Size
    BY KindsApart DEF Standing
  <2> QED BY <2>1, HeldIs, SizeIs DEF Least
<1>3. /\ Book(<<"unkadopt", m.bar>>, "buy", Size, TRUE) /\ UNCHANGED <<suppressed, seeded>>
      /\ \E level \in Levels :
           LET c == Open(Size, TRUE, level, {}, FALSE)
           IN  pos' = c /\ Suspend("tick", [Synced([T EXCEPT !.kind = "adopt"], c, {}, TRUE) EXCEPT !.at = "sync"])
  BY <1>1, <1>2 DEF Adopt
<1>4. PICK level \in Levels :
        LET c == Open(Size, TRUE, level, {}, FALSE)
        IN  pos' = c /\ Suspend("tick", [Synced([r EXCEPT !.kind = "adopt"], c, {}, TRUE) EXCEPT !.at = "sync"])
  BY <1>3
<1> DEFINE c == Open(Size, TRUE, level, {}, FALSE)
<1>5. c \in LivePositions
  BY MadeOpen
<1>6. pos' = c /\ Suspend("tick", [Synced([r EXCEPT !.kind = "adopt"], c, {}, TRUE) EXCEPT !.at = "sync"])
  BY <1>4
<1> HIDE DEF c
<1>6a. PICK v \in TickRecords : HasAdopted(v, r, c)
  <2>1. ~HasStop
    BY DEF Steady
  <2> QED BY <1>5, <2>1, AdoptedRecord
<1>7. /\ v = [Synced([r EXCEPT !.kind = "adopt"], c, {}, TRUE) EXCEPT !.at = "sync"]
      /\ v.at = "sync" /\ v.kind = "adopt" /\ v.cur = c /\ v.bar = r.bar /\ v.want = r.want
  BY <1>6a DEF HasAdopted
<1>8. act' = [act EXCEPT !["tick"] = v] /\ lock' = "tick"
  BY <1>6, <1>7 DEF Suspend
<1>9. BooksOf'
  BY <1>3, <1>5, <1>6, BooksBook, SetsApart, SizeIs DEF SteadyInv, Sides
<1>10. Standing(c, r.bar, r.want, FALSE)'
  BY <1>3, <1>5, MarkerAdopted
<1>11. Standing(pos, v.bar, v.want, FALSE)'
  BY <1>6, <1>7, <1>10
<1>12. Standing(pos, v.bar, v.want, Sent(v))'
  BY <1>11 DEF Standing, FlatKept
<1>13. AtStage(v)' /\ Late(v)'
  <2>1. v.at \notin Ordered /\ v.at # "unknown" /\ v.at # "seed" /\ v.at # "answer"
    BY <1>7 DEF Ordered
  <2>2. Late(v)'
    BY <1>7 DEF Late, Around
  <2> QED BY <1>5, <1>7, <2>1, <2>2 DEF AtStage
<1>14. TickHolds(pos, v)'
  BY <1>6, <1>7, <1>12, <1>13 DEF TickHolds
<1>15. suppressed' = suppressed /\ seeded' \in BOOLEAN
  BY <1>3 DEF SteadyInv, Books
<1> QED BY <1>8, <1>9, <1>14, <1>15 DEF SteadyMoves

LEMMA UnknownResolvedSteady == ASSUME Steady, SteadyInv, UnknownResolved PROVE SteadyInv'
<1>1. SteadyTrouble
  BY TroubleLuck, FaultNames DEF UnknownResolved, SteadyTrouble, SteadyInv
<1>2. Around /\ Outside'
  BY <1>1, SteadyAround DEF UnknownResolved
<1>3. T.at = "unknown"
  BY DEF UnknownResolved, TickAt
<1>4. PICK r \in TickRecords, m \in SteadyPositions :
        /\ r = T /\ r.cur = m /\ m = pos /\ AtStage(r) /\ Late(r) /\ r.bar \in 1..MaxBars
        /\ Standing(m, r.bar, r.want, FALSE)
  BY <1>3, Resumes
<1>5. m \in Markers
  BY <1>3, <1>4 DEF AtStage
<1>6. \/ Missed(m) /\ (Net = 0 \/ (left["query"] > 0 /\ left'["query"] = left["query"] - 1))
      \/ Adopt(m) /\ Net # 0
  <2>1. T.cur = m
    BY <1>4
  <2>2. CASE Trouble("query") /\ Missed(T.cur)
    BY <2>1, <2>2, TroubleLuck DEF SteadyInv
  <2>3. CASE Held = 0 /\ Missed(T.cur)
    BY <2>1, <2>3, HeldIs
  <2>4. CASE Held > 0 /\ Adopt(T.cur)
    BY <2>1, <2>4, HeldIs
  <2> QED BY <2>2, <2>3, <2>4 DEF UnknownResolved
<1>7. SteadyMoves /\ seeded' \in BOOLEAN
  BY <1>2, <1>4, <1>5, <1>6, MissedSteady, AdoptSteady
<1> QED BY <1>1, <1>2, <1>7, SteadyMovesKeep

LEMMA SeededSteady == ASSUME Steady, SteadyInv, Seeded PROVE SteadyInv'
<1>1. SteadyTrouble
  BY TroubleLuck, FaultNames DEF Seeded, SteadyTrouble, SteadyInv
<1>2. Around /\ Outside'
  BY <1>1, SteadyAround DEF Seeded
<1>3. T.at = "seed"
  BY DEF Seeded, TickAt
<1>4. PICK r \in TickRecords, c \in SteadyPositions :
        /\ r = T /\ r.cur = c /\ c = pos /\ AtStage(r) /\ Late(r) /\ r.bar \in 1..MaxBars
        /\ Standing(c, r.bar, r.want, FALSE)
  BY <1>3, Resumes
<1>5. c = NoPos
  BY <1>3, <1>4 DEF AtStage
<1>6. Held = 0
  BY <1>4, <1>5, SetsApart, HeldIs DEF Standing, FlatKept
<1>7. GoForce(c, r, c)
  <2>1. ~(Held > 0)
    BY <1>6
  <2> QED BY <1>4, <2>1 DEF Seeded
<1>8. Ready(c, r, c)
  BY <1>4, <1>5, SetsApart DEF Ready
<1>9. SteadyMoves
  BY <1>2, <1>7, <1>8, ForceSteady
<1>10. seeded' \in BOOLEAN
  BY DEF Seeded, SteadyInv, Books
<1> QED BY <1>1, <1>2, <1>9, <1>10, SteadyMovesKeep

\* Nothing, or all of it, is held: a live position is confirmed, missed once
\* more, or at last forgotten.
LEMMA ReconciledSteady ==
  ASSUME Steady, SteadyInv, NEW c \in LivePositions, NEW b, NEW w, Standing(c, b, w, FALSE)
  PROVE  Reconciled(c) \in Flat \cup LivePositions /\ Standing(Reconciled(c), b, w, FALSE)
<1>1. c.qty = Size /\ c.live = TRUE /\ c.misses \in 0..ClearMisses
  BY KindsApart
<1>2. Held = Net /\ Net \in {0, Size}
  BY HeldIs DEF Standing
<1>3. CASE Net = Size
  <2>1. Reconciled(c) = [c EXCEPT !.unknown = 0]
    BY <1>1, <1>2, <1>3 DEF Reconciled
  <2>2. [c EXCEPT !.unknown = 0] \in LivePositions
    <3>1. 0 \in 0..MaxUnknown
      BY SizeIs
    <3> QED BY <3>1 DEF LivePositions
  <2> QED BY <2>1, <2>2, OpenSwap
<1>4. CASE Net = 0
  <2>1. Reconciled(c) = IF c.misses + 1 >= ClearMisses THEN NoPos ELSE [c EXCEPT !.misses = @ + 1]
    BY <1>1, <1>2, <1>4, SizeIs DEF Reconciled
  <2>2. CASE c.misses + 1 >= ClearMisses
    <3>1. Standing(NoPos, b, w, FALSE)
      BY <1>4, NothingHeld DEF SteadyInv
    <3> QED BY <2>1, <2>2, <3>1, SetsApart
  <2>3. CASE ~(c.misses + 1 >= ClearMisses)
    <3>1. c.misses + 1 \in 0..ClearMisses
      BY <1>1, <2>3, SizeIs
    <3>2. [c EXCEPT !.misses = c.misses + 1] \in LivePositions
      BY <3>1 DEF LivePositions
    <3>3. Reconciled(c) = [c EXCEPT !.misses = c.misses + 1]
      BY <2>1, <2>3
    <3> QED BY <3>2, <3>3, OpenSwap
  <2> QED BY <2>2, <2>3
<1> QED BY <1>2, <1>3, <1>4

LEMMA ForcedSteady == ASSUME Steady, SteadyInv, Forced PROVE SteadyInv'
<1>1. SteadyTrouble
  BY TroubleLuck, FaultNames DEF Forced, SteadyTrouble, SteadyInv
<1>2. Around /\ Outside'
  BY <1>1, SteadyAround DEF Forced
<1>3. T.at = "force"
  BY DEF Forced, TickAt
<1>4. PICK r \in TickRecords, c \in SteadyPositions :
        /\ r = T /\ r.cur = c /\ c = pos /\ AtStage(r) /\ Late(r) /\ r.bar \in 1..MaxBars
        /\ Standing(c, r.bar, r.want, FALSE)
  BY <1>3, Resumes
<1>5. c \in LivePositions
  BY <1>3, <1>4 DEF AtStage
<1>6. ASSUME GoStops(pos, T, T.cur) PROVE SteadyMoves
  <2>1. Ready(c, r, c)
    BY <1>4, <1>5 DEF Ready
  <2> QED BY <1>2, <1>4, <1>6, <2>1, StopsSteady
<1>7. ASSUME GoStops(Reconciled(T.cur), T, Reconciled(T.cur)) PROVE SteadyMoves
  <2>1. PICK d \in Flat \cup LivePositions : d = Reconciled(c) /\ Standing(d, r.bar, r.want, FALSE)
    BY <1>4, <1>5, ReconciledSteady
  <2>2. Ready(d, r, d)
    BY <1>4, <2>1 DEF Ready
  <2>3. GoStops(d, r, d)
    BY <1>4, <1>7, <2>1
  <2> QED BY <1>2, <2>2, <2>3, StopsSteady
<1>8. SteadyMoves
  BY <1>6, <1>7 DEF Forced
<1>9. seeded' \in BOOLEAN
  BY DEF Forced, SteadyInv, Books
<1> QED BY <1>1, <1>2, <1>8, <1>9, SteadyMovesKeep

LEMMA SyncDoneSteady == ASSUME Steady, SteadyInv, SyncDone("tick") PROVE SteadyInv'
<1>1. SteadyTrouble
  BY TroubleLuck DEF SyncDone, SteadyTrouble, SteadyInv
<1>2. Around /\ Outside'
  BY <1>1, SteadyAround DEF SyncDone
<1>3. T.at = "sync"
  BY DEF SyncDone, T
<1>4. PICK r \in TickRecords, c \in SteadyPositions :
        /\ r = T /\ r.cur = c /\ c = pos /\ AtStage(r) /\ Late(r) /\ r.bar \in 1..MaxBars
        /\ Standing(c, r.bar, r.want, FALSE)
  BY <1>3, Resumes
<1>5. c \in LivePositions /\ r.kind = "adopt"
  BY <1>3, <1>4 DEF AtStage
<1>6. AfterSync(r) = c
  <2>1. c # NoPos /\ r.ids = {} /\ r.cur = c
    BY <1>4, <1>5, SetsApart, SteadyRecord
  <2>2. c.stops = {} /\ c.naked = FALSE /\ c = [c EXCEPT !.stops = {}, !.naked = FALSE]
    BY <1>5 DEF LivePositions
  <2>3. AfterSync(r) = [c EXCEPT !.stops = {}, !.naked = HasStop /\ r.failed]
    BY <2>1 DEF AfterSync
  <2>4. (HasStop /\ r.failed) = FALSE
    BY DEF Steady
  <2> QED BY <2>2, <2>3, <2>4
<1>7. GoSeed(c, r, c)
  <2>1. act["tick"] = r
    BY <1>4 DEF T
  <2> QED BY <1>5, <1>6, <2>1 DEF SyncDone
<1>8. Ready(c, r, c)
  BY <1>4, <1>5 DEF Ready
<1>9. SteadyMoves /\ seeded' \in BOOLEAN
  BY <1>2, <1>7, <1>8, SeedSteady
<1> QED BY <1>1, <1>2, <1>9, SteadyMovesKeep

-----------------------------------------------------------------------------
(* The tick's order.                                                       *)

\* An order that is under way: an entry from nothing, or a whole exit.
Asking(r, c) ==
  /\ r \in TickRecords /\ r.cur = c /\ r.at \in Ordered /\ Late(r) /\ r.bar \in 1..MaxBars
  /\ \/ /\ Entering(r) /\ c = NoPos
        /\ Standing(NoPos, r.bar, Size, TRUE) /\ Standing(NoPos, r.bar, Size, Sent(r))
     \/ Leaving(r) /\ c \in LivePositions /\ Standing(c, r.bar, 0, FALSE)

LEMMA Asked ==
  ASSUME SteadyInv, T.at \in Ordered
  PROVE  \E r \in TickRecords, c \in SteadyPositions :
           r = T /\ c = pos /\ AtStage(r) /\ Asking(r, c)
<1>1. T.at # "idle" /\ T.at # "bars"
  BY DEF Ordered
<1>2. /\ T \in TickRecords /\ T.cur = pos /\ AtStage(T) /\ pos \in SteadyPositions
      /\ Late(T) /\ Standing(pos, T.bar, T.want, Sent(T))
  BY <1>1, InTick DEF T
<1>3. PICK r \in TickRecords, c \in SteadyPositions : r = T /\ c = pos
  BY <1>2
<1>4. r.cur = c /\ AtStage(r) /\ Late(r) /\ Standing(c, r.bar, r.want, Sent(r)) /\ r.at \in Ordered
  BY <1>2, <1>3
<1>5. r.bar \in 1..MaxBars
  BY <1>4, LateBar DEF SteadyInv
<1>6. CASE Entering(r)
  <2>1. c = NoPos /\ r.want = Size
    BY <1>4, <1>6 DEF Entering
  <2>2. Standing(NoPos, r.bar, Size, Sent(r))
    BY <1>4, <2>1
  <2>3. Standing(NoPos, r.bar, Size, TRUE)
    BY <2>2 DEF Standing, FlatKept
  <2> QED BY <1>3, <1>4, <1>5, <1>6, <2>1, <2>2, <2>3 DEF Asking
<1>7. CASE Leaving(r)
  <2>1. c \in LivePositions /\ r.want = 0
    BY <1>4, <1>7 DEF Leaving
  <2>2. Standing(c, r.bar, 0, Sent(r)) /\ c \notin Flat
    BY <1>4, <2>1, SetsApart
  <2>3. Standing(c, r.bar, 0, FALSE)
    BY <2>2 DEF Standing
  <2> QED BY <1>3, <1>4, <1>5, <1>7, <2>1, <2>3 DEF Asking
<1> QED BY <1>4, <1>6, <1>7 DEF AtStage

LEMMA AskingSides ==
  ASSUME NEW r, NEW c, Asking(r, c)
  PROVE  /\ r.kind \in {"entry", "exit"} /\ r.side \in Sides
         /\ r.kind = "entry" => Entering(r) /\ r.side = "buy" /\ r.chan = "new" /\ c = NoPos
         /\ r.kind = "exit" => Leaving(r) /\ r.side = "sell" /\ r.chan = "live" /\ c \in LivePositions
  BY DEF Asking, Entering, Leaving, Sides

LEMMA FilledSteady ==
  ASSUME Around, NEW r, NEW c, Asking(r, c), order[<<r.side, r.bar>>] # NoOrder,
         OrderDone(c, "tick", r, Filled(Size))
  PROVE  SteadyMoves
<1>1. r.kind \in {"entry", "exit"} /\ r \in TickRecords /\ Late(r) /\ r.cur = c
  BY AskingSides DEF Asking
<1>2. CASE r.kind = "entry"
  <2>1. EntryDone(c, "tick", r, Filled(Size)) /\ suppressed' = suppressed
    BY <1>1, <1>2, OrderDoneIs
  <2>2. Entering(r) /\ Standing(NoPos, r.bar, Size, TRUE) /\ order[<<"buy", r.bar>>] # NoOrder
    BY <1>2, AskingSides DEF Asking, Entering, Leaving
  <2> QED BY <1>1, <2>1, <2>2, EntryLive
<1>3. CASE r.kind = "exit"
  <2>1. ExitDone(c, "tick", r, Filled(Size)) /\ suppressed' = suppressed
    BY <1>1, <1>3, OrderDoneIs
  <2>2. Leaving(r) /\ Standing(c, r.bar, 0, FALSE) /\ order[<<"sell", r.bar>>] # NoOrder
    BY <1>3, AskingSides DEF Asking, Entering, Leaving
  <2> QED BY <1>1, <2>1, <2>2, ExitLive
<1> QED BY <1>1, <1>2, <1>3

LEMMA BlockedSteady ==
  ASSUME Around, NEW r, NEW c, Asking(r, c), order[<<r.side, r.bar>>] = NoOrder,
         OrderDone(c, "tick", r, Blocked(r))
  PROVE  SteadyMoves
<1>1. r.kind \in {"entry", "exit"} /\ r \in TickRecords /\ Late(r) /\ r.cur = c
  BY AskingSides DEF Asking
<1>2. CASE r.kind = "entry"
  <2>1. Entering(r) /\ Standing(NoPos, r.bar, Size, TRUE) /\ order[<<"buy", r.bar>>] = NoOrder
    BY <1>2, AskingSides DEF Asking, Entering, Leaving
  <2>2. Net = 0
    BY <2>1, SetsApart DEF Standing, FlatKept
  <2>3. Blocked(r) = OnPaper(Size)
    BY <2>1 DEF Blocked, Entering
  <2>4. EntryDone(c, "tick", r, OnPaper(Size)) /\ suppressed' = suppressed
    BY <1>1, <1>2, <2>3, OrderDoneIs
  <2> QED BY <1>1, <2>1, <2>2, <2>4, EntryPaper
<1>3. CASE r.kind = "exit"
  <2>1. Leaving(r) /\ Standing(c, r.bar, 0, FALSE)
    BY <1>3, AskingSides DEF Asking, Entering, Leaving
  <2>2. Blocked(r) = Frozen
    BY <2>1 DEF Blocked, Leaving
  <2>3. ExitDone(c, "tick", r, Frozen) /\ suppressed' = suppressed
    BY <1>1, <1>3, <2>2, OrderDoneIs
  <2> QED BY <1>1, <2>1, <2>3, ExitFails
<1> QED BY <1>1, <1>2, <1>3

LEMMA UnknownSteady ==
  ASSUME Around, NEW r, NEW c, Asking(r, c), left["query"] > 0, left'["query"] = left["query"] - 1,
         OrderDone(c, "tick", r, OutcomeUnknown)
  PROVE  SteadyMoves
<1>1. r.kind \in {"entry", "exit"} /\ r \in TickRecords /\ Late(r) /\ r.cur = c
  BY AskingSides DEF Asking
<1>2. CASE r.kind = "entry"
  <2>1. Entering(r) /\ Standing(NoPos, r.bar, Size, TRUE)
    BY <1>2, AskingSides DEF Asking, Entering, Leaving
  <2>2. EntryDone(c, "tick", r, OutcomeUnknown) /\ suppressed' = suppressed
    BY <1>1, <1>2, OrderDoneIs
  <2> QED BY <1>1, <2>1, <2>2, EntryUnknown
<1>3. CASE r.kind = "exit"
  <2>1. Leaving(r) /\ Standing(c, r.bar, 0, FALSE)
    BY <1>3, AskingSides DEF Asking, Entering, Leaving
  <2>2. ExitDone(c, "tick", r, OutcomeUnknown) /\ suppressed' = suppressed
    BY <1>1, <1>3, OrderDoneIs
  <2> QED BY <1>1, <2>1, <2>2, ExitFails
<1> QED BY <1>1, <1>2, <1>3

\* The order goes on to its next request.
LEMMA ProceedSteady ==
  ASSUME Steady, SteadyInv, SteadyTrouble, NEW r \in TickRecords, NEW c \in SteadyPositions, r = T, c = pos,
         Asking(r, c), NEW stage \in {"send", "lookup"}, stage = "send" => r.at = "precheck", Proceed("tick", stage)
  PROVE  SteadyInv'
<1>1. Around /\ Outside'
  BY SteadyAround DEF Proceed
<1>2. stage \in Ordered /\ stage # "bars" /\ stage # "answer" /\ stage # "unknown" /\ stage # "seed" /\ stage # "force"
      /\ stage # "sync"
  BY DEF Ordered
<1> DEFINE s == [r EXCEPT !.at = stage]
<1>3. /\ s \in TickRecords /\ s.at = stage /\ s.cur = r.cur /\ s.chan = r.chan /\ s.bar = r.bar /\ s.want = r.want
      /\ s.side = r.side /\ s.qty = r.qty /\ s.kind = r.kind
  BY <1>2, TickStaged
<1>4. Suspend("tick", s)
  BY DEF Proceed, T
<1> HIDE DEF s
<1>5. Unbooked /\ suppressed' = suppressed /\ pos' = c /\ seeded' \in BOOLEAN
  BY DEF Proceed, storeVars, Unbooked, SteadyInv, Books
<1>6. Entering(s)' \/ Leaving(s)'
  <2>1. Entering(r) => Entering(s)'
    BY <1>3, <1>5 DEF Entering, Unbooked
  <2>2. Leaving(r) => Leaving(s)'
    BY <1>3 DEF Leaving
  <2> QED BY <2>1, <2>2 DEF Asking
<1>7. AtStage(s)'
  BY <1>2, <1>3, <1>6 DEF AtStage
<1>8. s.cur = c /\ Late(s)
  BY <1>3 DEF Asking, Late
<1>9. Standing(c, s.bar, s.want, Sent(s))
  <2>1. CASE Leaving(r)
    BY <1>3, <2>1, StandingAny, SetsApart DEF Asking, Leaving, Entering
  <2>2. CASE Entering(r)
    <3>1. c = NoPos /\ s.want = Size /\ s.bar = r.bar /\ s.kind = "entry" /\ c \in Flat
      BY <1>3, <2>2, SetsApart DEF Asking, Entering, Leaving
    <3>2. Standing(NoPos, r.bar, Size, TRUE) /\ Standing(NoPos, r.bar, Size, Sent(r))
      BY <2>2, <3>1, SetsApart DEF Asking, Leaving
    <3>3. Sent(r) => Sent(s)
      BY <1>3, <3>1 DEF Sent
    <3> QED BY <3>1, <3>2, <3>3 DEF Standing, FlatKept
  <2> QED BY <2>1, <2>2 DEF Asking
<1>10. SteadyMoves
  BY <1>1, <1>2, <1>3, <1>4, <1>5, <1>7, <1>8, <1>9, SteadySuspends
<1> QED BY <1>1, <1>5, <1>10, SteadyMovesKeep

LEMMA SettleSteady ==
  ASSUME Steady, SteadyInv, SteadyTrouble, NEW f, Settle("tick", f), Around => SteadyMoves
  PROVE  SteadyInv'
<1>1. Around /\ Outside'
  BY SteadyAround DEF Settle
<1>2. seeded' \in BOOLEAN
  BY DEF Settle, SteadyInv, Books
<1> QED BY <1>1, <1>2, SteadyMovesKeep

\* What the exchange has under the order's client id is nothing or the whole.
LEMMA FoundIs ==
  ASSUME SteadyInv, NEW r, r = T, NEW c, Asking(r, c)
  PROVE  /\ Found("tick") = order[<<r.side, r.bar>>]
         /\ Whole(Found("tick")) => order[<<r.side, r.bar>>] # NoOrder /\ Found("tick").exec = Size
         /\ ~Whole(Found("tick")) => order[<<r.side, r.bar>>] = NoOrder
<1>1. Found("tick") = order[<<r.side, r.bar>>]
  BY DEF Found, Cid, T
<1>2. r.side \in Sides /\ r.bar \in 1..MaxBars
  BY AskingSides DEF Asking
<1>3. order[<<r.side, r.bar>>] \in {NoOrder, BarOrder}
  BY <1>2, Figures DEF SteadyInv
<1> QED BY <1>1, <1>3, OrderIs

LEMMA PrecheckSteady == ASSUME Steady, SteadyInv, Precheck("tick") PROVE SteadyInv'
<1>1. SteadyTrouble
  BY TroubleLuck, FaultNames DEF Precheck, SteadyTrouble, SteadyInv
<1>2. T.at = "precheck" /\ T.at \in Ordered
  BY DEF Precheck, T, Ordered
<1>3. PICK r \in TickRecords, c \in SteadyPositions : r = T /\ c = pos /\ AtStage(r) /\ Asking(r, c)
  BY <1>2, Asked
<1>4. CASE Whole(Found("tick")) /\ Settle("tick", Filled(Found("tick").exec))
  <2>1. order[<<r.side, r.bar>>] # NoOrder /\ Settle("tick", Filled(Size))
    BY <1>3, <1>4, FoundIs
  <2>2. OrderDone(c, "tick", r, Filled(Size))
    BY <1>3, <2>1 DEF Settle, T
  <2>3. Around => SteadyMoves
    BY <1>3, <2>1, <2>2, FilledSteady
  <2> QED BY <1>1, <2>1, <2>3, SettleSteady
<1>5. CASE Proceed("tick", "send")
  BY <1>1, <1>2, <1>3, <1>5, ProceedSteady
<1> QED BY <1>4, <1>5 DEF Precheck

LEMMA NotExecutedSteady == ASSUME Steady, SteadyInv, NotExecuted("tick") PROVE SteadyInv'
<1>1. SteadyTrouble
  BY TroubleLuck, FaultNames DEF NotExecuted, SteadyTrouble, SteadyInv
<1>2. T.at \in Ordered
  BY DEF NotExecuted, T, Ordered
<1>3. PICK r \in TickRecords, c \in SteadyPositions : r = T /\ c = pos /\ AtStage(r) /\ Asking(r, c)
  BY <1>2, Asked
<1> QED BY <1>1, <1>3, ProceedSteady DEF NotExecuted

LEMMA AnswerLostSteady == ASSUME Steady, SteadyInv, AnswerLost("tick") PROVE SteadyInv'
<1>1. SteadyTrouble
  BY TroubleLuck, FaultNames DEF AnswerLost, SteadyTrouble, SteadyInv
<1>2. T.at \in Ordered
  BY DEF AnswerLost, T, Ordered
<1>3. PICK r \in TickRecords, c \in SteadyPositions : r = T /\ c = pos /\ AtStage(r) /\ Asking(r, c)
  BY <1>2, Asked
<1> QED BY <1>1, <1>3, ProceedSteady DEF AnswerLost

LEMMA AnsweredSteady == ASSUME Steady, SteadyInv, Answered("tick") PROVE SteadyInv'
<1>1. SteadyTrouble
  BY TroubleLuck DEF Answered, SteadyTrouble, SteadyInv
<1>2. T.at = "answer" /\ T.at \in Ordered
  BY DEF Answered, T, Ordered
<1>3. PICK r \in TickRecords, c \in SteadyPositions : r = T /\ c = pos /\ AtStage(r) /\ Asking(r, c)
  BY <1>2, Asked
<1>4. r.got = Size /\ order[<<r.side, r.bar>>] # NoOrder
  BY <1>2, <1>3, OrderIs DEF AtStage
<1>5. Settle("tick", Filled(Size)) /\ OrderDone(c, "tick", r, Filled(Size))
  BY <1>3, <1>4 DEF Answered, Settle, T
<1>6. Around => SteadyMoves
  BY <1>3, <1>4, <1>5, FilledSteady
<1> QED BY <1>1, <1>5, <1>6, SettleSteady

LEMMA LookedUpSteady == ASSUME Steady, SteadyInv, LookedUp("tick") PROVE SteadyInv'
<1>1. SteadyTrouble
  BY TroubleLuck, FaultNames DEF LookedUp, SteadyTrouble, SteadyInv
<1>2. T.at \in Ordered
  BY DEF LookedUp, T, Ordered
<1>3. PICK r \in TickRecords, c \in SteadyPositions : r = T /\ c = pos /\ AtStage(r) /\ Asking(r, c)
  BY <1>2, Asked
<1>4. CASE Whole(Found("tick")) /\ Settle("tick", Filled(Found("tick").exec))
  <2>1. order[<<r.side, r.bar>>] # NoOrder /\ Settle("tick", Filled(Size))
    BY <1>3, <1>4, FoundIs
  <2>2. OrderDone(c, "tick", r, Filled(Size))
    BY <1>3, <2>1 DEF Settle, T
  <2>3. Around => SteadyMoves
    BY <1>3, <2>1, <2>2, FilledSteady
  <2> QED BY <1>1, <2>1, <2>3, SettleSteady
<1>5. CASE ~Whole(Found("tick")) /\ Settle("tick", Blocked(act["tick"]))
  <2>1. order[<<r.side, r.bar>>] = NoOrder
    BY <1>3, <1>5, FoundIs
  <2>2. OrderDone(c, "tick", r, Blocked(r))
    BY <1>3, <1>5 DEF Settle, T
  <2>3. Around => SteadyMoves
    BY <1>3, <2>1, <2>2, BlockedSteady
  <2> QED BY <1>1, <1>5, <2>3, SettleSteady
<1>6. CASE Trouble("query") /\ Settle("tick", OutcomeUnknown)
  <2>1. left["query"] > 0 /\ left'["query"] = left["query"] - 1
    BY <1>6, TroubleLuck DEF SteadyInv
  <2>2. OrderDone(c, "tick", r, OutcomeUnknown)
    BY <1>3, <1>6 DEF Settle, T
  <2>3. Around => SteadyMoves
    BY <1>3, <2>1, <2>2, UnknownSteady
  <2> QED BY <1>1, <1>6, <2>3, SettleSteady
<1>7. ~Trouble("lag")
  BY NeverHappens DEF SteadyInv
<1> QED BY <1>4, <1>5, <1>6, <1>7 DEF LookedUp

\* The library adds up by a function on the subsets; nothing rests, so there is
\* nothing to add.
Reserves(g) ==
  g = [s \in SUBSET {} |-> IF s = {} THEN 0
                           ELSE stop[CHOOSE x \in s : TRUE].qty + g[s \ {CHOOSE x \in s : TRUE}]]

LEMMA NothingReserved == MapThenSumSet(LAMBDA l : stop[l].qty, {}) = 0
<1> DEFINE none == [s \in SUBSET {} |-> 0]
<1>1. Reserves(none)
  <2>1. \A s \in SUBSET {} : s = {}
    OBVIOUS
  <2> QED BY <2>1 DEF Reserves
<1>2. \A g : Reserves(g) => g[{}] = 0
  BY DEF Reserves
<1> HIDE DEF none
<1>3. MapThenSumSet(LAMBDA l : stop[l].qty, {}) = (CHOOSE g : Reserves(g))[{}]
  BY DEF MapThenSumSet, MapThenFoldSet, Reserves
<1>4. Reserves(CHOOSE g : Reserves(g))
  BY <1>1
<1> QED BY <1>2, <1>3, <1>4

LEMMA SellableIs == ASSUME Steady, SteadyInv PROVE Sellable = Net
<1>1. Resting = {} /\ Held = Net /\ Net \in Int
  BY NoStopNoSale, HeldIs
<1>2. Sellable = Held - MapThenSumSet(LAMBDA l : stop[l].qty, {})
  BY <1>1 DEF Sellable
<1> QED BY <1>1, <1>2, NothingReserved

\* The exchange executes what is asked, and notes it under the client id.
Bought(b) ==
  /\ order' = [order EXCEPT ![<<"buy", b>>] = BarOrder] /\ bought' = bought + Size /\ sold' = sold
  /\ UNCHANGED <<trades, booked, left>>
SoldAll(b) ==
  /\ order' = [order EXCEPT ![<<"sell", b>>] = BarOrder] /\ sold' = sold + Size /\ bought' = bought
  /\ UNCHANGED <<trades, booked, left>>

LEMMA OrderChanges ==
  ASSUME Outside, NEW side \in Sides, NEW b \in 1..MaxBars,
         order' = [order EXCEPT ![<<side, b>>] = BarOrder]
  PROVE  /\ order' \in [Sides \X (1..MaxBars) -> {NoOrder, BarOrder}] /\ order'[<<side, b>>] = BarOrder
         /\ \A s \in Sides : \A x \in 1..MaxBars : <<s, x>> # <<side, b>> => order'[<<s, x>>] = order[<<s, x>>]
  BY DEF Outside

LEMMA BoughtStands ==
  ASSUME Luck, Books, Outside, NEW b \in 1..MaxBars, Standing(NoPos, b, Size, FALSE), <<"buy", b>> \notin trades, Bought(b)
  PROVE  Standing(NoPos, b, Size, TRUE)'
<1>1. Net = 0 /\ booked.buy <= sold /\ BarKept(NoPos, b, Size)
  BY SetsApart DEF Standing, FlatKept
<1>2. /\ order'[<<"buy", b>>] = BarOrder /\ order'[<<"buy", b>>] # NoOrder
      /\ \A s \in Sides : \A x \in 1..MaxBars : <<s, x>> # <<"buy", b>> => order'[<<s, x>>] = order[<<s, x>>]
  BY OrderChanges, OrderIs DEF Bought, Sides
<1>3. Net' = Size
  BY <1>1, Figures, SizeIs DEF Bought, Net
<1>4. UNCHANGED <<trades, booked, sold>>
  BY DEF Bought
<1>5. order'[<<"sell", b>>] = NoOrder /\ order[<<"sell", b>>] = NoOrder
  <2>1. order[<<"sell", b>>] = NoOrder
    BY <1>1, SizeIs DEF BarKept
  <2>2. order'[<<"sell", b>>] = order[<<"sell", b>>]
    BY <1>2 DEF Sides
  <2> QED BY <2>1, <2>2
<1>6. BarKept(NoPos, b, Size)'
  <2>1. \A s \in Sides : \A x \in 1..MaxBars : x > b => order'[<<s, x>>] = NoOrder /\ <<s, x>> \notin trades'
    <3>1. ASSUME NEW s \in Sides, NEW x \in 1..MaxBars, x > b
          PROVE  order'[<<s, x>>] = NoOrder /\ <<s, x>> \notin trades'
      <4>1. <<s, x>> # <<"buy", b>>
        BY <3>1, SizeIs
      <4> QED BY <1>1, <1>2, <1>4, <3>1, <4>1 DEF BarKept
    <3> QED BY <3>1
  <2>2. <<"sell", b>> \notin trades' => booked'.sell + order'[<<"sell", b>>].exec <= sold'
    BY <1>1, <1>4, <1>5 DEF BarKept
  <2>3. \A x \in 1..MaxBars : <<"unkadopt", x>> \in trades' => order'[<<"buy", x>>] # NoOrder
    <3>1. ASSUME NEW x \in 1..MaxBars, <<"unkadopt", x>> \in trades' PROVE order'[<<"buy", x>>] # NoOrder
      <4>1. CASE x = b
        BY <1>2, <4>1
      <4>2. CASE x # b
        <5>1. <<"buy", x>> # <<"buy", b>>
          BY <4>2
        <5> QED BY <1>1, <1>2, <1>4, <3>1, <5>1 DEF BarKept, Sides
      <4> QED BY <4>1, <4>2
    <3> QED BY <3>1
  <2>4. <<"buy", b>> \notin trades'
    BY <1>4
  <2> QED BY <1>3, <1>5, <2>1, <2>2, <2>3, <2>4 DEF BarKept
<1>7. booked'.buy <= bought' /\ booked'.sell <= sold'
  BY <1>1, <1>4, Figures, SizeIs DEF Standing, Bought, Net
<1>8. FlatKept(b, TRUE)'
  BY <1>1, <1>2, <1>4 DEF FlatKept
<1>9. NoPos \notin Markers
  BY SetsApart
<1> QED BY <1>3, <1>6, <1>7, <1>8, <1>9 DEF Standing

LEMMA SoldStands ==
  ASSUME Luck, Books, Outside, NEW b \in 1..MaxBars, NEW c \in LivePositions, Standing(c, b, 0, FALSE), Net = Size, SoldAll(b)
  PROVE  Standing(c, b, 0, FALSE)'
<1>1. BarKept(c, b, 0) /\ booked.buy <= bought /\ booked.sell <= sold
  BY DEF Standing
<1>2. /\ order'[<<"sell", b>>] = BarOrder /\ order'[<<"sell", b>>].exec = Size
      /\ \A s \in Sides : \A x \in 1..MaxBars : <<s, x>> # <<"sell", b>> => order'[<<s, x>>] = order[<<s, x>>]
  BY OrderChanges, OrderIs DEF SoldAll, Sides
<1>3. Net' = 0
  BY Figures, SizeIs DEF SoldAll, Net
<1>4. UNCHANGED <<trades, booked, bought>> /\ sold' = sold + Size
  BY DEF SoldAll
<1>5. \A x \in 1..MaxBars : order'[<<"buy", x>>] = order[<<"buy", x>>]
  <2>1. \A x \in 1..MaxBars : <<"buy", x>> # <<"sell", b>>
    OBVIOUS
  <2> QED BY <1>2, <2>1 DEF Sides
<1>6. BarKept(c, b, 0)'
  <2>1. \A s \in Sides : \A x \in 1..MaxBars : x > b => order'[<<s, x>>] = NoOrder /\ <<s, x>> \notin trades'
    <3>1. ASSUME NEW s \in Sides, NEW x \in 1..MaxBars, x > b
          PROVE  order'[<<s, x>>] = NoOrder /\ <<s, x>> \notin trades'
      <4>1. <<s, x>> # <<"sell", b>>
        BY <3>1, SizeIs
      <4> QED BY <1>1, <1>2, <1>4, <3>1, <4>1 DEF BarKept
    <3> QED BY <3>1
  <2>2. booked'.sell + order'[<<"sell", b>>].exec <= sold'
    BY <1>1, <1>2, <1>4, Figures, SizeIs
  <2>3. \A x \in 1..MaxBars : <<"unkadopt", x>> \in trades' => order'[<<"buy", x>>] # NoOrder
    BY <1>1, <1>4, <1>5 DEF BarKept
  <2>4. order'[<<"buy", b>>] = NoOrder
    BY <1>1, <1>5, SizeIs DEF BarKept
  <2>5. <<"buy", b>> \notin trades'
    BY <1>1, <1>4, SizeIs DEF BarKept
  <2> QED BY <1>3, <2>1, <2>2, <2>3, <2>4, <2>5 DEF BarKept
<1>7. booked'.buy <= bought' /\ booked'.sell <= sold'
  BY <1>1, <1>4, Figures, SizeIs
<1>8. c \notin Flat /\ c \notin Markers
  BY SetsApart
<1> QED BY <1>3, <1>6, <1>7, <1>8 DEF Standing

LEMMA TickAnswered ==
  ASSUME NEW r \in TickRecords
  PROVE  LET s == [r EXCEPT !.at = "answer", !.got = Size]
         IN  /\ s \in TickRecords /\ s.at = "answer" /\ s.got = Size /\ s.cur = r.cur /\ s.chan = r.chan /\ s.bar = r.bar
             /\ s.want = r.want /\ s.side = r.side /\ s.qty = r.qty /\ s.kind = r.kind
  BY DEF TickRecords, Ordered

\* In one order, the whole of it: what is left of the fault "partial" is nothing.
LEMMA ExecutesAll ==
  ASSUME Steady, SteadyInv, NEW r, r = T, NEW c, Asking(r, c), Executed("tick")
  PROVE  /\ r.side = "buy" => Bought(r.bar)
         /\ r.side = "sell" => SoldAll(r.bar) /\ Net = Size
         /\ Suspend("tick", [r EXCEPT !.at = "answer", !.got = Size])
<1>1. act["tick"] = r /\ r.qty = Size /\ Cid(r) = <<r.side, r.bar>>
  BY DEF T, Asking, Entering, Leaving, Cid
<1>2. PICK n \in 1..r.qty :
        /\ IF n = r.qty THEN NoTrouble ELSE Trouble("partial")
        /\ order' = [order EXCEPT ![Cid(r)] = [qty |-> r.qty, exec |-> n]]
        /\ IF r.side = "buy" THEN bought' = bought + n /\ UNCHANGED sold
                             ELSE sold' = sold + n /\ UNCHANGED bought
        /\ Suspend("tick", [r EXCEPT !.at = "answer", !.got = n])
  BY <1>1 DEF Executed
<1>3. n = Size /\ NoTrouble
  BY <1>1, <1>2, NeverHappens DEF SteadyInv
<1>4. order' = [order EXCEPT ![<<r.side, r.bar>>] = BarOrder] /\ UNCHANGED <<trades, booked, left>>
  BY <1>1, <1>2, <1>3 DEF BarOrder, Executed, storeVars, NoTrouble
<1>5. r.side = "buy" => Bought(r.bar)
  BY <1>2, <1>3, <1>4 DEF Bought
<1>6. r.side = "sell" => SoldAll(r.bar)
  <2>1. "sell" # "buy"
    OBVIOUS
  <2> QED BY <1>2, <1>3, <1>4, <2>1 DEF SoldAll
<1>7. r.side = "sell" => Net = Size
  <2>1. ASSUME r.side = "sell" PROVE Net = Size
    <3>1. Size <= Net
      BY <1>1, <2>1, SellableIs DEF Executed
    <3>2. Net \in {0, Size}
      BY <2>1 DEF Asking, Entering, Standing
    <3> QED BY <3>1, <3>2, SizeIs
  <2> QED BY <2>1
<1> QED BY <1>2, <1>3, <1>5, <1>6, <1>7

LEMMA ExecutedSteady == ASSUME Steady, SteadyInv, Executed("tick") PROVE SteadyInv'
<1>1. T.at = "send" /\ T.at \in Ordered
  BY DEF Executed, T, Ordered
<1>2. PICK r \in TickRecords, c \in SteadyPositions : r = T /\ c = pos /\ AtStage(r) /\ Asking(r, c)
  BY <1>1, Asked
<1>3. /\ r.side = "buy" => Bought(r.bar)
      /\ r.side = "sell" => SoldAll(r.bar) /\ Net = Size
      /\ Suspend("tick", [r EXCEPT !.at = "answer", !.got = Size])
  BY <1>2, ExecutesAll
<1>4. UNCHANGED <<pos, trades, ledger, booked, running, seeded, suppressed, gate, bar, want, stop>>
  BY DEF Executed, storeVars, marketVars
<1> DEFINE s == [r EXCEPT !.at = "answer", !.got = Size]
<1>5. /\ s \in TickRecords /\ s.at = "answer" /\ s.got = Size /\ s.cur = r.cur /\ s.chan = r.chan /\ s.bar = r.bar
      /\ s.want = r.want /\ s.side = r.side /\ s.qty = r.qty /\ s.kind = r.kind
  BY TickAnswered
<1>6. act' = [act EXCEPT !["tick"] = s] /\ lock' = "tick"
  BY <1>3 DEF Suspend
<1> HIDE DEF s
<1>7. r.side \in Sides /\ r.bar \in 1..MaxBars /\ r.cur = c /\ Late(r)
  BY <1>2, AskingSides DEF Asking
<1>8. Luck /\ Books /\ Outside
  BY DEF SteadyInv
<1>9. left' = left /\ order' = [order EXCEPT ![<<r.side, r.bar>>] = BarOrder]
  BY <1>3, <1>7 DEF Bought, SoldAll, Sides
<1>10. order' \in [Sides \X (1..MaxBars) -> {NoOrder, BarOrder}] /\ order'[<<r.side, r.bar>>] = BarOrder
  BY <1>7, <1>8, <1>9, OrderChanges
<1>11. bought' \in Nat /\ sold' \in Nat
  BY <1>3, <1>7, <1>8, SizeIs DEF Bought, SoldAll, Outside, Sides
<1>12. Outside'
  BY <1>4, <1>8, <1>10, <1>11 DEF Outside
<1>13. SteadyTrouble
  BY <1>8, <1>9, TroubleLuck DEF SteadyTrouble, NoTrouble
<1>14. BooksOf' /\ suppressed' = suppressed /\ seeded' \in BOOLEAN /\ pos' = c
  BY <1>2, <1>4, <1>8 DEF Books, BooksOf
<1>15. Standing(c, s.bar, s.want, Sent(s))'
  <2>1. CASE Entering(r)
    <3>1. r.side = "buy" /\ c = NoPos /\ r.want = Size /\ <<"buy", r.bar>> \notin trades /\ r.kind = "entry"
      BY <1>7, <2>1 DEF Entering
    <3>2. Standing(NoPos, r.bar, Size, Sent(r)) /\ ~Sent(r)
      BY <1>1, <1>2, <3>1 DEF Asking, Leaving, Sent
    <3>3. Standing(NoPos, r.bar, Size, FALSE)
      BY <3>2 DEF Standing, FlatKept
    <3>4. Standing(NoPos, r.bar, Size, TRUE)'
      BY <1>3, <1>7, <1>8, <3>1, <3>3, BoughtStands
    <3>5. Sent(s)
      BY <1>5, <3>1 DEF Sent
    <3>6. Standing(c, s.bar, s.want, TRUE)'
      BY <1>5, <3>1, <3>4
    <3> QED BY <3>5, <3>6 DEF Standing, FlatKept
  <2>2. CASE Leaving(r)
    <3>1. r.side = "sell" /\ c \in LivePositions /\ r.want = 0
      BY <1>7, <2>2 DEF Leaving
    <3>2. Standing(c, r.bar, 0, FALSE)
      BY <1>2, <3>1 DEF Asking, Entering
    <3>3. Standing(c, r.bar, 0, FALSE)'
      BY <1>3, <1>7, <1>8, <3>1, <3>2, SoldStands
    <3>4. Standing(c, s.bar, s.want, FALSE)'
      BY <1>5, <3>1, <3>3
    <3> QED BY <3>4 DEF Standing, FlatKept
  <2> QED BY <1>2, <2>1, <2>2 DEF Asking
<1>16. Late(s)' /\ s.cur = c
  BY <1>4, <1>5, <1>7 DEF Late
<1>17. AtStage(s)'
  <2>1. Entering(r) => Entering(s)'
    BY <1>4, <1>5 DEF Entering
  <2>2. Leaving(r) => Leaving(s)'
    BY <1>5 DEF Leaving
  <2>3. Entering(s)' \/ Leaving(s)'
    BY <1>2, <2>1, <2>2 DEF Asking
  <2> QED BY <1>5, <1>10, <2>3 DEF AtStage
<1>18. TickHolds(pos, s)'
  BY <1>5, <1>14, <1>15, <1>16, <1>17 DEF TickHolds
<1>19. SteadyMoves
  BY <1>6, <1>14, <1>18 DEF SteadyMoves
<1> QED BY <1>12, <1>13, <1>14, <1>19, SteadyMovesKeep

-----------------------------------------------------------------------------
(* The process, the market, the operator.                                  *)

\* Unless an order is under way, what is in the store is kept.
LEMMA KeptUnlessOrdering ==
  ASSUME SteadyInv, ~Ordering("tick")
  PROVE  Kept(pos)
<1>1. CASE act["tick"].at \in {"idle", "bars"}
  BY <1>1, InTick DEF SteadyInv, T
<1>2. CASE act["tick"].at \notin {"idle", "bars"}
  <2>1. T \in TickRecords
    BY <1>2, InTick
  <2>2. T.at \in {"unknown", "seed", "force", "sync", "precheck", "send"}
    BY <1>2, <2>1 DEF TickRecords, Ordered, Ordering, T
  <2>3. PICK r \in TickRecords, c \in SteadyPositions :
          /\ r = T /\ r.cur = c /\ c = pos /\ AtStage(r) /\ Late(r) /\ r.bar \in 1..MaxBars
          /\ Standing(c, r.bar, r.want, FALSE)
    BY <2>2, Resumes
  <2>4. r.want \in WholeWants /\ r.bar <= bar /\ (r.bar = bar => r.want = want) /\ Standing(pos, r.bar, r.want, FALSE)
    BY <2>3, SteadyRecord DEF Late
  <2> QED BY <2>3, <2>4 DEF Kept
<1> QED BY <1>1, <1>2

LEMMA CrashSteady == ASSUME Steady, SteadyInv, Crash PROVE SteadyInv'
<1>1. SteadyTrouble /\ ~Ordering("tick")
  BY TroubleLuck, FaultNames, NeverHappens DEF Crash, SteadyTrouble, SteadyInv, Actors
<1>2. Around /\ Outside'
  BY <1>1, SteadyAround DEF Crash
<1>3. Unbooked /\ pos' = pos
  BY DEF Crash, storeVars, Unbooked
<1>4. Kept(pos)'
  BY <1>1, <1>2, <1>3, KeptUnlessOrdering, KeptStays
<1>5. act' = [a \in Actors |-> Idle] /\ lock' = "free" /\ seeded' = FALSE /\ suppressed' = FALSE
  BY DEF Crash
<1>6. act'["tick"] = Idle /\ act'["sweep"] = Idle /\ act'["halt"] = Idle /\ IsRecord(act', Actors)
  BY <1>5 DEF Actors, IsRecord
<1>7. OneActor'
  BY <1>5, <1>6, IdleIs DEF OneActor, IsRecord
<1>8. Books'
  BY <1>3, <1>5 DEF SteadyInv, Books, Unbooked
<1> QED BY <1>1, <1>2, <1>4, <1>6, <1>7, <1>8, IdleIs DEF SteadyInv, SteadyTrouble

\* What happens outside the bot is no concern of what agrees.
LEMMA OutsideSteady ==
  ASSUME Steady, SteadyInv, SteadyTrouble, Outside', UNCHANGED <<pos, trades, ledger, booked, act, lock, seeded>>,
         UNCHANGED <<order, bought, sold>>, suppressed' \in BOOLEAN, bar <= bar', bar' = bar => want' = want
  PROVE  SteadyInv'
<1>1. Luck /\ Luck' /\ left'["query"] <= left["query"]
  BY DEF SteadyInv, SteadyTrouble
<1>2. Books' /\ OneActor'
  BY DEF SteadyInv, Books, OneActor, IsRecord
<1>3. bar \in Nat /\ bar' \in Nat
  BY SizeIs DEF SteadyInv, Outside
<1>4. PICK c \in SteadyPositions : c = pos
  BY DEF SteadyInv, Books
<1>5. \A b, w, sent : Standing(c, b, w, sent) => Standing(c, b, w, sent)'
  BY <1>1, StandingLater
<1>6. ASSUME Kept(pos) PROVE Kept(pos)'
  <2>1. PICK b \in 1..MaxBars, w \in WholeWants : b <= bar /\ (b = bar => w = want) /\ Standing(pos, b, w, FALSE)
    BY <1>6 DEF Kept
  <2>2. b <= bar' /\ (b = bar' => w = want')
    BY <1>3, <2>1, SizeIs
  <2>3. Standing(c, b, w, FALSE)'
    BY <1>4, <1>5, <2>1
  <2>4. Standing(pos, b, w, FALSE)'
    BY <1>4, <2>3
  <2> QED BY <2>2, <2>4 DEF Kept
<1>7. CASE act["tick"].at = "idle"
  <2>1. act'["tick"].at = "idle" /\ Kept(pos)'
    BY <1>6, <1>7 DEF SteadyInv
  <2> QED BY <1>1, <1>2, <2>1 DEF SteadyInv
<1>8. CASE act["tick"].at # "idle"
  <2>1. PICK r \in TickRecords : r = T /\ r.cur = c /\ AtStage(r)
    BY <1>4, <1>8, InTick
  <2>2. act'["tick"] = r /\ r.at # "idle"
    BY <1>8, <2>1 DEF T
  <2>3. AtStage(r)'
    <3>1. Entering(r) => Entering(r)'
      BY DEF Entering
    <3>2. Leaving(r) => Leaving(r)'
      BY DEF Leaving
    <3> QED BY <2>1, <3>1, <3>2 DEF AtStage
  <2>4. CASE r.at = "bars"
    <3>1. Kept(pos)'
      BY <1>6, <1>8, <2>1, <2>4, InTick
    <3>2. TickHolds(pos, r)'
      BY <1>4, <2>1, <2>3, <2>4, <3>1 DEF TickHolds
    <3>3. TickHolds(pos, act["tick"])'
      BY <2>2, <3>2
    <3> QED BY <1>1, <1>2, <2>2, <3>3 DEF SteadyInv
  <2>5. CASE r.at # "bars"
    <3>1. Late(r) /\ Standing(c, r.bar, r.want, Sent(r))
      BY <1>4, <1>8, <2>1, <2>5, InTick
    <3>2. Late(r)'
      <4>1. r.bar \in 0..MaxBars
        BY <2>1 DEF TickRecords
      <4> QED BY <1>3, <3>1, <4>1, SizeIs DEF Late
    <3>3. Standing(c, r.bar, r.want, Sent(r))'
      BY <1>5, <3>1
    <3>4. TickHolds(pos, r)'
      BY <1>4, <2>1, <2>3, <2>5, <3>2, <3>3 DEF TickHolds
    <3>5. TickHolds(pos, act["tick"])'
      BY <2>2, <3>4
    <3> QED BY <1>1, <1>2, <2>2, <3>5 DEF SteadyInv
  <2> QED BY <2>4, <2>5
<1> QED BY <1>7, <1>8

LEMMA SwitchesSteady ==
  ASSUME Steady, SteadyInv, StartBot \/ SuppressionEnds \/ GateCloses \/ GateOpens
  PROVE  SteadyInv'
<1>1. SteadyTrouble
  <2>1. NoTrouble \/ Trouble("gate")
    BY DEF StartBot, SuppressionEnds, GateCloses, GateOpens, NoTrouble
  <2> QED BY <2>1, TroubleLuck, FaultNames DEF SteadyTrouble, SteadyInv
<1>2. UNCHANGED <<pos, trades, ledger, booked, act, lock, seeded, bar, want, order, stop, bought, sold>>
  BY DEF StartBot, SuppressionEnds, GateCloses, GateOpens, storeVars, marketVars, exchangeVars
<1>3. running' \in BOOLEAN /\ gate' \in BOOLEAN /\ suppressed' \in BOOLEAN
  BY DEF StartBot, SuppressionEnds, GateCloses, GateOpens, SteadyInv, Outside, Books
<1>4. Outside'
  BY <1>2, <1>3 DEF SteadyInv, Outside
<1>5. bar <= bar'
  BY <1>2, SizeIs DEF SteadyInv, Outside
<1> QED BY <1>1, <1>2, <1>3, <1>4, <1>5, OutsideSteady

\* Without a strategy that scales, a new bar wants nothing, or all, or no trade.
LEMMA WantedWhole == ASSUME Luck, NEW last PROVE Wanted(last) \subseteq WholeWants
<1>1. left["scale"] = 0 /\ left["add"] = 0
  BY NeverHappens
<1> QED BY <1>1 DEF Wanted, WholeWants

LEMMA NewBarSteady == ASSUME Steady, SteadyInv, NewBar PROVE SteadyInv'
<1>1. UNCHANGED <<pos, trades, ledger, booked, running, act, lock, seeded, suppressed, gate, order, stop, bought, sold, left>>
  BY DEF NewBar, storeVars, exchangeVars
<1>2. SteadyTrouble
  BY <1>1, TroubleLuck DEF SteadyTrouble, NoTrouble, SteadyInv
<1>3. bar \in 1..MaxBars /\ bar < MaxBars /\ bar' = bar + 1
  BY DEF NewBar, SteadyInv, Outside
<1>4. bar' \in 1..MaxBars /\ bar <= bar' /\ bar' # bar
  BY <1>3, SizeIs
<1>5. want' \in WholeWants
  BY WantedWhole DEF NewBar, SteadyInv
<1>6. Outside'
  BY <1>1, <1>4, <1>5 DEF SteadyInv, Outside
<1>7. suppressed' \in BOOLEAN
  BY <1>1 DEF SteadyInv, Books
<1> QED BY <1>1, <1>2, <1>4, <1>6, <1>7, OutsideSteady

\* Sweep, kill switch and stops have no part in it.
LEMMA NoOthers ==
  ASSUME Steady, SteadyInv
  PROVE  /\ ~SweepLooks /\ ~SweepPasses /\ ~SweepSells /\ ~HaltStarts /\ ~HaltSells
         /\ ~StopsSeen /\ ~StopsBooked /\ \A l \in Levels : ~Trigger(l)
<1>1. act["sweep"].at = "idle" /\ act["halt"].at = "idle"
  BY IdleIs DEF SteadyInv, OneActor
<1>2. ~SweepLooks
  BY DEF SweepLooks, Steady
<1>3. ~SweepPasses /\ ~SweepSells /\ ~HaltSells
  BY <1>1 DEF SweepPasses, SweepSells, HaltSells
<1>4. ~HaltStarts
  BY NeverHappens DEF HaltStarts, SteadyInv
<1>5. T.at \notin {"stops", "drop"}
  <2>1. ASSUME act["tick"].at # "idle" PROVE T.at \notin {"stops", "drop"}
    <3>1. T \in TickRecords
      BY <2>1, InTick
    <3> QED BY <3>1 DEF TickRecords, Ordered
  <2> QED BY <2>1 DEF T
<1>6. ~StopsSeen /\ ~StopsBooked
  BY <1>5 DEF StopsSeen, StopsBooked, TickAt
<1>7. \A l \in Levels : ~Trigger(l)
  BY NoStopNoSale DEF Trigger
<1> QED BY <1>2, <1>3, <1>4, <1>6, <1>7

LEMMA AskSteady == ASSUME Steady, SteadyInv, NEW a \in Actors, Ask(a) PROVE SteadyInv'
<1>1. act[a].at # "idle"
  BY DEF Ask, Precheck, Executed, NotExecuted, Answered, AnswerLost, LookedUp, PlaceStop, SyncDone, CancelStop
<1>2. a = "tick"
  BY <1>1, IdleIs DEF SteadyInv, OneActor, Actors
<1>3. act["tick"] \in TickRecords
  BY <1>1, <1>2, InTick DEF T
<1>4. ~PlaceStop("tick") /\ \A l \in Levels : ~CancelStop("tick", l)
  <2>1. act["tick"].place \in {FALSE} /\ act["tick"].cancel = {}
    BY <1>3 DEF TickRecords
  <2> QED BY <2>1 DEF PlaceStop, CancelStop
<1>5. CASE Precheck("tick")
  BY <1>5, PrecheckSteady
<1>6. CASE Executed("tick")
  BY <1>6, ExecutedSteady
<1>7. CASE NotExecuted("tick")
  BY <1>7, NotExecutedSteady
<1>8. CASE Answered("tick")
  BY <1>8, AnsweredSteady
<1>9. CASE AnswerLost("tick")
  BY <1>9, AnswerLostSteady
<1>10. CASE LookedUp("tick")
  BY <1>10, LookedUpSteady
<1>11. CASE SyncDone("tick")
  BY <1>11, SyncDoneSteady
<1> QED BY <1>2, <1>4, <1>5, <1>6, <1>7, <1>8, <1>9, <1>10, <1>11 DEF Ask

LEMMA SteadyStep == ASSUME Steady, SteadyInv, [Next]_vars PROVE SteadyInv'
<1>1. CASE Tick
  <2>1. TickStarts \/ BarsFail \/ BarsArrive \/ UnknownResolved \/ Seeded \/ Forced
    BY <1>1, NoOthers DEF Tick
  <2> QED BY <2>1, TickStartsSteady, BarsFailSteady, BarsArriveSteady, UnknownResolvedSteady, SeededSteady, ForcedSteady
<1>2. CASE \E a \in Actors : Ask(a)
  BY <1>2, AskSteady
<1>3. CASE StartBot \/ SuppressionEnds \/ GateCloses \/ GateOpens
  BY <1>3, SwitchesSteady
<1>4. CASE NewBar
  BY <1>4, NewBarSteady
<1>5. CASE Crash
  BY <1>5, CrashSteady
<1>6. CASE UNCHANGED vars
  <2>1. UNCHANGED <<pos, trades, ledger, booked, running, act, lock, seeded, suppressed, gate, bar, want,
                    order, stop, bought, sold, left>>
    BY <1>6 DEF vars, storeVars, marketVars, exchangeVars
  <2>2. SteadyTrouble /\ Outside' /\ suppressed' \in BOOLEAN /\ bar <= bar'
    <3>1. SteadyTrouble
      BY <2>1, TroubleLuck DEF SteadyTrouble, NoTrouble, SteadyInv
    <3>2. Outside' /\ suppressed' \in BOOLEAN
      BY <2>1 DEF SteadyInv, Outside, Books
    <3>3. bar <= bar'
      BY <2>1, SizeIs DEF SteadyInv, Outside
    <3> QED BY <3>1, <3>2, <3>3
  <2> QED BY <2>1, <2>2, OutsideSteady
<1> QED BY <1>1, <1>2, <1>3, <1>4, <1>5, <1>6, NoOthers DEF Next

LEMMA SteadyStart == ASSUME Steady, Init PROVE SteadyInv
<1>1. left \in Budgets /\ Budgets \subseteq [AllFaults -> Nat]
  BY SpotAssumption DEF Init
<1>2. Luck
  BY <1>1 DEF Luck, Steady
<1>3. Books
  BY SetsApart DEF Init, Books
<1>4. want \in WholeWants
  BY <1>2, WantedWhole DEF Init
<1>5. bought = 0 /\ sold = 0 /\ bar = 1 /\ bar \in 1..MaxBars /\ trades = {} /\ booked.buy = 0 /\ booked.sell = 0 /\ pos = NoPos
  BY SizeIs DEF Init
<1>6. /\ order \in [Sides \X (1..MaxBars) -> {NoOrder, BarOrder}]
      /\ \A s \in Sides : \A x \in 1..MaxBars : order[<<s, x>>] = NoOrder
  BY DEF Init, Sides
<1>7. Outside
  BY <1>4, <1>5, <1>6 DEF Init, Outside
<1>8. OneActor /\ act["tick"].at = "idle"
  <2>1. act = [a \in Actors |-> Idle] /\ lock = "free"
    BY DEF Init
  <2>2. act["tick"] = Idle /\ act["sweep"] = Idle /\ act["halt"] = Idle /\ IsRecord(act, Actors)
    BY <2>1 DEF Actors, IsRecord
  <2> QED BY <2>1, <2>2, IdleIs DEF OneActor
<1>9. Standing(NoPos, 1, want, FALSE)
  <2>1. Net = 0
    BY <1>5 DEF Net
  <2>2. order[<<"buy", 1>>] = NoOrder /\ order[<<"sell", 1>>] = NoOrder
    BY <1>5, <1>6 DEF Sides
  <2>3. BarKept(NoPos, 1, want)
    BY <1>5, <1>6, <2>2, OrderIs DEF BarKept
  <2>4. FlatKept(1, FALSE)
    BY <1>5, <2>1 DEF FlatKept
  <2>5. Net \in {0, Size} /\ booked.buy <= bought /\ booked.sell <= sold
    BY <1>5, <2>1
  <2>6. NoPos \notin Markers
    BY SetsApart
  <2> QED BY <2>3, <2>4, <2>5, <2>6 DEF Standing
<1>10. Kept(pos)
  <2>1. 1 \in 1..MaxBars /\ 1 <= bar /\ (1 = bar => want = want)
    BY <1>5
  <2> QED BY <1>4, <1>5, <1>9, <2>1 DEF Kept
<1> QED BY <1>2, <1>3, <1>7, <1>8, <1>10 DEF SteadyInv

-----------------------------------------------------------------------------
(* What the steady bot promises.                                           *)

LEMMA SteadyBooks ==
  ASSUME SteadyInv
  PROVE  Net \in {0, Size} /\ booked.buy <= bought /\ booked.sell <= sold
<1>1. CASE act["tick"].at \in {"idle", "bars"}
  <2>1. Kept(pos)
    BY <1>1, InTick DEF SteadyInv, T
  <2> QED BY <2>1 DEF Kept, Standing
<1>2. CASE act["tick"].at \notin {"idle", "bars"}
  BY <1>2, InTick DEF Standing, T
<1> QED BY <1>1, <1>2

LEMMA SteadyTypes == ASSUME SteadyInv PROVE TypeOK
<1>1. SteadyPositions \subseteq Positions
  <2>1. ASSUME NEW c \in LivePositions \cup PaperPositions PROVE c \in Positions
    <3>1. Size \in 1..Size /\ 0 \in 0..ClearMisses /\ 0 \in 0..MaxUnknown
      BY SizeIs
    <3>2. CASE c \in LivePositions
      BY <3>1, <3>2 DEF LivePositions, Positions
    <3>3. CASE c \in PaperPositions
      BY <3>1, <3>3 DEF PaperPositions, Positions
    <3> QED BY <2>1, <3>2, <3>3
  <2>2. ASSUME NEW m \in Markers PROVE m \in Positions
    <3>1. Size \in 1..Size
      BY SizeIs
    <3> QED BY <3>1 DEF Markers, Positions
  <2>3. NoPos \in Positions
    BY DEF Positions
  <2> QED BY <2>1, <2>2, <2>3 DEF SteadyPositions, Flat
<1>2. pos \in Positions
  BY <1>1 DEF SteadyInv, Books
<1>3. ledger \in Nat /\ booked \in [buy : Nat, sell : Nat]
  BY DEF SteadyInv, Books
<1>4. {running, seeded, suppressed, gate} \subseteq BOOLEAN
  BY DEF SteadyInv, Books, Outside
<1>5. lock \in {"free", "tick", "sweep"}
  BY DEF SteadyInv, OneActor
<1>6. bar \in 1..MaxBars /\ want \in Wants
  <2>1. bar \in 1..MaxBars /\ want \in WholeWants
    BY DEF SteadyInv, Outside
  <2>2. WholeWants \subseteq Wants
    BY SizeIs DEF WholeWants, Wants
  <2> QED BY <2>1, <2>2
<1>7. \A l \in Levels : stop[l].state \in {"none", "resting", "cancelled", "filled"}
  BY DEF SteadyInv, Outside, NoStop
<1>8. bought \in Nat /\ sold \in Nat /\ left \in [AllFaults -> Nat]
  BY DEF SteadyInv, Outside, Luck
<1> QED BY <1>2, <1>3, <1>4, <1>5, <1>6, <1>7, <1>8 DEF TypeOK

LEMMA SteadyManaged == ASSUME SteadyInv PROVE NoOrphan
<1>1. SUFFICES ASSUME lock = "free"
               PROVE  bought - sold <= LiveQty \/ pos.kind = "marker"
  BY DEF NoOrphan
<1>2. act["tick"].at = "idle"
  BY <1>1 DEF SteadyInv, OneActor
<1>3. Kept(pos) /\ pos \in SteadyPositions
  BY <1>2 DEF SteadyInv, Books
<1>4. PICK b \in 1..MaxBars, w \in WholeWants : Standing(pos, b, w, FALSE)
  BY <1>3 DEF Kept
<1>5. CASE pos \in Markers
  BY <1>5, KindsApart
<1>6. CASE pos \in LivePositions
  <2>1. LiveQty = Size
    <3>1. IsLive(pos) /\ pos.qty = Size
      BY <1>6, LiveIs, KindsApart
    <3> QED BY <3>1 DEF LiveQty
  <2>2. Net \in {0, Size}
    BY <1>4 DEF Standing
  <2> QED BY <2>1, <2>2, SizeIs DEF Net
<1>7. CASE pos \in Flat
  <2>1. LiveQty = 0
    <3>1. ~IsLive(pos)
      BY <1>7, PaperIs, NothingIs DEF Flat
    <3> QED BY <3>1 DEF LiveQty
  <2>2. Net = 0
    BY <1>4, <1>7 DEF Standing, FlatKept
  <2> QED BY <2>1, <2>2 DEF Net
<1> QED BY <1>3, <1>5, <1>6, <1>7 DEF SteadyPositions

LEMMA SteadyAlways == Steady => (Spec => []SteadyInv)
<1>1. Steady /\ Init => Steady /\ SteadyInv
  BY SteadyStart
<1>2. Steady /\ SteadyInv /\ [Next]_vars => (Steady /\ SteadyInv)'
  <2>1. Steady => Steady'
    BY DEF Steady
  <2> QED BY <2>1, SteadyStep
<1> QED BY <1>1, <1>2, PTL DEF Spec

\* The types of the model, TypeOK, of every steady bot.
THEOREM SteadyTypesHold == Steady => (Spec => []TypeOK)
BY SteadyAlways, SteadyTypes, PTL

\* The bot never owns more than the strategy wants, whatever answers are lost,
\* lookups fail (fewer than release a marker) and restarts come between.
THEOREM NeverMoreThanWanted == Steady => (Spec => []NetWithinSize)
<1>1. SteadyInv => NetWithinSize
  BY SteadyBooks, SizeIs DEF NetWithinSize, Net
<1> QED BY <1>1, SteadyAlways, PTL

\* Nothing is booked that the exchange did not do.
THEOREM BooksAreReal == Steady => (Spec => []BookedIsReal)
<1>1. SteadyInv => BookedIsReal
  BY SteadyBooks DEF BookedIsReal
<1> QED BY <1>1, SteadyAlways, PTL

\* Nothing the bot bought is left that neither its position nor its marker
\* stands for.
THEOREM NothingUnmanaged == Steady => (Spec => []NoOrphan)
<1>1. SteadyInv => NoOrphan
  BY SteadyManaged
<1> QED BY <1>1, SteadyAlways, PTL

=============================================================================

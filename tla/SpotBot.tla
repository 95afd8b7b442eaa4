------------------------------- MODULE SpotBot -------------------------------
(***************************************************************************)
(* One live strategy bot on a spot exchange that can look orders up by     *)
(* client id (Binance): runner.ts, tickBot and what it calls.              *)
(*                                                                         *)
(* Three actors share the bot's row in the store, its trades and the       *)
(* exchange: the tick on its timer, the protective sweep, and the          *)
(* emergency stop.  Each is suspended wherever its code awaits, and the    *)
(* exchange, the other actors and a crash act in between.                  *)
(*                                                                         *)
(* A bar carries the net position the strategy engine wants at its close.  *)
(* Prices are left out but for the level a stop is placed at, which is its *)
(* client id.  Entries are market orders; take-profit legs are left out.   *)
(***************************************************************************)
EXTENDS Integers, FiniteSets, FiniteSetsExt

CONSTANTS
  Size,         \* the largest position the strategy ever wants
  HasStop,      \* stopLossPercent or trailingStopPercent is set
  Levels,       \* the levels stops are placed at (their client ids)
  Baseline,     \* what the account holds beside the bot
  ClearMisses,  \* RECON_CLEAR_MISSES
  MaxUnknown,   \* UNKNOWN_MAX_COUNT
  Budgets,      \* bound: the ways of choosing how often each fault happens
  MaxBars       \* bound: bars

AllFaults == {"lost", "query", "lag", "refuse", "partial", "cancel",
              "crash", "crash_in_order", "trigger", "gate", "sweep", "halt",
              "scale", "add"}

ASSUME SpotAssumption ==
  /\ Size \in Nat \ {0} /\ HasStop \in BOOLEAN /\ Baseline \in Nat
  /\ Levels # {} /\ Levels \subseteq Nat
  /\ ClearMisses \in Nat \ {0} /\ MaxUnknown \in Nat \ {0}
  /\ Budgets \subseteq [AllFaults -> Nat] /\ MaxBars \in Nat \ {0}

VARIABLES
  pos,         \* the persisted position_state
  trades,      \* the idempotency keys in the trades table
  ledger,      \* liveOpenLedger: live buys booked less live sells booked
  running,     \* bots.status, and so the timer
  act,         \* where each actor is suspended, and with what
  lock,        \* who holds the bot in Runner.ticking
  seeded,      \* the bot is in bootSeeded: looked for its position once
  suppressed,  \* _protectiveExitAt is recent: the sweep has closed the position
  gate,        \* liveGate lets orders through
  bar, want,   \* the last closed bar, and the net position wanted there
  order,       \* the exchange's latest order under each client id
  stop,        \* the exchange's stop order at each level
  bought, sold,       \* what the bot's orders really executed
  booked,      \* what the live trades booked say was executed
  left         \* how often each fault may still happen

storeVars == <<pos, trades, ledger, booked>>
marketVars == <<bar, want>>
exchangeVars == <<order, stop, bought, sold>>
vars == <<storeVars, running, act, lock, seeded, suppressed, gate, marketVars,
          exchangeVars, left>>

Actors == {"tick", "sweep", "halt"}
Silent == -1       \* the engine made no trade in its window
Wants == {Silent} \cup 0..Size

NoPos == [kind |-> "none"]
Open(qty, live, level, stops, naked) ==
  [kind |-> "open", qty |-> qty, live |-> live, level |-> level, stops |-> stops,
   naked |-> naked, misses |-> 0, unknown |-> 0]
\* pendingUnknownEntry: an entry whose outcome is not known yet.
Marker(qty, at, misses) ==
  [kind |-> "marker", want |-> qty, bar |-> at, misses |-> misses]

IsOpen(c) == c.kind = "open"
IsLive(c) == IsOpen(c) /\ c.live
QtyOf(c) == IF IsOpen(c) THEN c.qty ELSE 0
StopsOf(c) == IF IsOpen(c) THEN c.stops ELSE {}

Least(a, b) == IF a < b THEN a ELSE b
Larger(a, b) == IF a > b THEN a ELSE b

NoOrder == [qty |-> 0, exec |-> 0]
NoStop == [state |-> "none", qty |-> 0]
Idle == [at |-> "idle"]

Held == Baseline + bought - sold
Resting == {l \in Levels : stop[l].state = "resting"}
\* A resting stop reserves what it is to sell.
Sellable == Held - MapThenSumSet(LAMBDA l : stop[l].qty, Resting)

Trouble(fault) ==
  /\ left[fault] > 0
  /\ left' = [left EXCEPT ![fault] = @ - 1]
NoTrouble == UNCHANGED left
\* What may happen at all may happen at any time.
Possible(event) == left[event] > 0 /\ NoTrouble

-----------------------------------------------------------------------------
(* Suspending, ending, booking.                                            *)

\* The tick and the sweep hold the lock while they work; the stop takes none.
Suspend(a, r) ==
  /\ act' = [act EXCEPT ![a] = r]
  /\ lock' = IF a = "halt" THEN lock ELSE a
End(a) ==
  /\ act' = [act EXCEPT ![a] = Idle]
  /\ lock' = IF a = "halt" THEN lock ELSE "free"

Unbooked == UNCHANGED <<trades, ledger, booked>>

\* insertTrade; a paper trade does not count in the live ledger.
Book(key, side, qty, live) ==
  /\ trades' = trades \cup {key}
  /\ IF ~live THEN UNCHANGED <<ledger, booked>>
     ELSE IF side = "buy"
     THEN ledger' = ledger + qty /\ booked' = [booked EXCEPT !.buy = @ + qty]
     ELSE ledger' = Larger(0, ledger - qty) /\ booked' = [booked EXCEPT !.sell = @ + qty]

(* One tick's record: what it read (cur, bar, want), the order it is about *)
(* (side, qty, chan, kind), the stops it is changing.  chan is posLive: a  *)
(* "live" position, a "paper" one, or "new" when there is none yet.        *)
Record(c, b, w) ==
  [at |-> "bars", cur |-> c, bar |-> b, want |-> w, side |-> "none", qty |-> 0,
   chan |-> "new", kind |-> "none", got |-> 0, ids |-> {}, cancel |-> {},
   place |-> FALSE, failed |-> FALSE, filled |-> {}]

Channel(c) == IF ~IsOpen(c) THEN "new" ELSE IF c.live THEN "live" ELSE "paper"

-----------------------------------------------------------------------------
(* The resident stop: syncBotProtective, and what its callers save.        *)

\* What is saved when the stops are in place.  Only a stop that could not be
\* placed makes the position naked (nextProtFails).
AfterSync(r) ==
  IF r.cur = NoPos THEN NoPos
  ELSE [r.cur EXCEPT !.stops = r.ids, !.naked = HasStop /\ r.failed]

Desired(c) == IF IsOpen(c) /\ HasStop THEN {c.level} ELSE {}

(* The sync of position c, whose stops were ids, on channel live.          *)
Synced(r, c, ids, live) ==
  LET s == [r EXCEPT !.cur = c, !.ids = ids, !.failed = FALSE,
                     !.cancel = {}, !.place = FALSE]
  IN  IF ~live THEN s
      ELSE IF ~gate THEN [s EXCEPT !.failed = IsOpen(c)]
      ELSE [s EXCEPT !.at = "sync", !.cancel = ids \ Desired(c),
                     !.place = Desired(c) \ ids # {}]
\* A trailing stop follows the price up.
Risen(c) == {l \in Levels : l = c.level \/ (c.live /\ l > c.level)}
HasWork(s) == s.cancel # {} \/ s.place

\* p is what the store holds by now.  After an emergency the position is
\* gone already, and nothing more is saved.
SaveAndEnd(p, a, s) ==
  /\ pos' = IF s.kind = "close" THEN p ELSE AfterSync(s)
  /\ End(a)

GoSync(p, a, r, c, ids, live) ==
  LET s == Synced(r, c, ids, live)
  IN  IF HasWork(s) THEN pos' = p /\ Suspend(a, s) ELSE SaveAndEnd(p, a, s)

-----------------------------------------------------------------------------
(* An order's outcome: live, failed (frozen) or, for an entry, on paper.   *)

Filled(n) == [live |-> TRUE, failed |-> FALSE, unknown |-> FALSE, got |-> n]
OnPaper(n) == [live |-> FALSE, failed |-> FALSE, unknown |-> FALSE, got |-> n]
Frozen == [live |-> FALSE, failed |-> TRUE, unknown |-> FALSE, got |-> 0]
OutcomeUnknown == [Frozen EXCEPT !.unknown = TRUE]
\* As wrong: a live position is closed on paper when its exit is refused.
Blocked_Paper(r) == OnPaper(r.qty)
\* blocked: an entry falls back to paper, a live position freezes.
Blocked(r) == IF r.chan = "live" THEN Frozen ELSE OnPaper(r.qty)

\* As wrong: an entry of unknown outcome leaves no marker.
EntryDone_NoMarker(p, a, r, f) ==
  LET key == <<"buy", r.bar>>
  IN  /\ r.kind = "entry"
      /\ \/ f.failed /\ pos' = r.cur /\ End(a) /\ Unbooked
         \/ ~f.failed /\ key \in trades /\ pos' = p /\ End(a) /\ Unbooked
         \/ /\ ~f.failed /\ key \notin trades
            /\ Book(key, "buy", f.got, f.live)
            /\ \E level \in Levels :
                 LET n == Open(f.got, f.live, level, {}, FALSE)
                 IN  GoSync(n, a, r, n, {}, f.live)

\* What an entry or an addition makes of its fill.
EntryDone(p, a, r, f) ==
  LET c == r.cur
      qty == IF f.live /\ f.got < r.qty THEN QtyOf(c) + f.got ELSE r.want
      live == IF IsOpen(c) THEN c.live ELSE f.live
      key == <<"buy", r.bar>>
  IN  /\ r.kind = "entry"
      /\ \/ /\ f.failed /\ f.unknown /\ ~IsOpen(c)
            /\ pos' = Marker(r.qty, r.bar, 0) /\ End(a) /\ Unbooked
         \/ /\ f.failed /\ ~(f.unknown /\ ~IsOpen(c))
            /\ pos' = c /\ End(a) /\ Unbooked
         \/ /\ ~f.failed /\ key \in trades
            /\ pos' = p /\ End(a) /\ Unbooked
         \/ /\ ~f.failed /\ key \notin trades
            /\ Book(key, "buy", f.got, f.live)
            /\ \E level \in IF live THEN Levels ELSE {Min(Levels)} :
                 LET n == Open(qty, live, level, StopsOf(c), IsOpen(c) /\ c.naked)
                 IN  GoSync(n, a, r, n, StopsOf(c), live)

\* What a partial or full exit makes of its fill.
ExitDone(p, a, r, f) ==
  LET c == r.cur
      rest == IF f.live /\ f.got < r.qty THEN Larger(0, c.qty - f.got) ELSE r.want
      key == <<"sell", r.bar>>
  IN  /\ r.kind = "exit"
      /\ \/ /\ f.failed
            /\ pos' = IF f.unknown THEN [c EXCEPT !.unknown = Least(MaxUnknown, @ + 1)] ELSE c
            /\ End(a) /\ Unbooked
         \/ /\ ~f.failed /\ key \in trades
            /\ pos' = p /\ End(a) /\ Unbooked
         \/ /\ ~f.failed /\ key \notin trades
            /\ Book(key, "sell", f.got, f.live)
            /\ \E level \in Risen(c) :
                 LET n == IF rest = 0 THEN NoPos
                          ELSE Open(rest, c.live, level, c.stops, c.naked)
                 IN  GoSync(n, a, r, n, c.stops, c.live)

\* Closing a naked position, or every position on the kill switch: the row is
\* cleared whatever was filled, and the stops are cancelled afterwards.
CloseDone(p, a, r, f) ==
  LET c == r.cur
      key == IF a = "halt" THEN <<"halt", r.bar>> ELSE <<"ec", r.bar>>
  IN  /\ r.kind = "close"
      /\ \/ /\ f.failed
            /\ pos' = (IF a = "halt" THEN p ELSE c) /\ End(a) /\ Unbooked
         \/ /\ ~f.failed
            /\ IF a = "tick" /\ key \in trades THEN Unbooked
               ELSE Book(key, "sell", IF a = "halt" THEN f.got ELSE c.qty, f.live)
            /\ GoSync(NoPos, a, r, NoPos, c.stops, TRUE)

\* protectiveLiquidate.
ProtectDone(p, a, r, f) ==
  LET c == r.cur
      sale == Least(f.got, c.qty)
      key == <<"protectmon", r.bar>>
  IN  /\ r.kind = "protect"
      /\ \/ ~f.live /\ pos' = p /\ End(a) /\ Unbooked /\ UNCHANGED suppressed
         \/ /\ f.live /\ key \in trades
            /\ pos' = p /\ End(a) /\ Unbooked /\ UNCHANGED suppressed
         \/ /\ f.live /\ key \notin trades
            /\ Book(key, "sell", sale, TRUE)
            /\ pos' = IF sale = c.qty THEN NoPos ELSE [c EXCEPT !.qty = @ - sale]
            /\ suppressed' = TRUE
            /\ End(a)

OrderDone(p, a, r, f) ==
  \/ EntryDone(p, a, r, f) /\ UNCHANGED suppressed
  \/ ExitDone(p, a, r, f) /\ UNCHANGED suppressed
  \/ CloseDone(p, a, r, f) /\ UNCHANGED suppressed
  \/ ProtectDone(p, a, r, f)

\* As wrong: a paper position's orders go to the exchange as well.
StartOrder_NoPaper(p, a, r) ==
  \/ ~gate /\ OrderDone(p, a, r, Blocked(r))
  \/ /\ gate /\ pos' = p /\ Unbooked /\ UNCHANGED suppressed
     /\ Suspend(a, [r EXCEPT !.at = IF a = "halt" THEN "send" ELSE "precheck"])

\* fillOrder, as far as its first await: a paper position never reaches the
\* exchange, and nothing does behind a closed gate.  The kill switch's order
\* has no bar and so looks for no earlier one.
StartOrder(p, a, r) ==
  \/ r.chan = "paper" /\ OrderDone(p, a, r, OnPaper(r.qty))
  \/ r.chan # "paper" /\ ~gate /\ OrderDone(p, a, r, Blocked(r))
  \/ /\ r.chan # "paper" /\ gate
     /\ pos' = p /\ Unbooked /\ UNCHANGED suppressed
     /\ Suspend(a, [r EXCEPT !.at = IF a = "halt" THEN "send" ELSE "precheck"])

-----------------------------------------------------------------------------
(* The tick after its data have arrived, each stage as far as its await.   *)

Hold(p, r, c) ==
  /\ Unbooked /\ UNCHANGED suppressed
  /\ IF IsOpen(c)
     THEN \E level \in Risen(c) :
            GoSync(p, "tick", [r EXCEPT !.kind = "hold"], [c EXCEPT !.level = level],
                   c.stops, c.live)
     ELSE pos' = c /\ End("tick")

\* Emergency first; then the position follows what the engine wants.
Decide(p, r, c) ==
  LET s == [r EXCEPT !.cur = c, !.chan = Channel(c)]
      q == QtyOf(c)
  IN  \/ /\ IsLive(c) /\ c.naked
         /\ StartOrder(p, "tick", [s EXCEPT !.side = "sell", !.qty = q, !.kind = "close"])
      \/ /\ ~(IsLive(c) /\ c.naked)
         /\ \/ r.want \in {q, Silent} /\ Hold(p, s, c)
            \/ /\ r.want > q
               /\ StartOrder(p, "tick", [s EXCEPT !.side = "buy", !.qty = r.want - q,
                                                  !.kind = "entry"])
            \/ /\ r.want \in 0..(q - 1)
               /\ StartOrder(p, "tick", [s EXCEPT !.side = "sell", !.qty = q - r.want,
                                                  !.kind = "exit"])

\* reconcileProtectiveFills asks for every stop the position knows.
GoStops(p, r, c) ==
  IF IsLive(c) /\ c.stops # {} /\ gate
  THEN pos' = p /\ Suspend("tick", [r EXCEPT !.at = "stops", !.cur = c])
       /\ Unbooked /\ UNCHANGED suppressed
  ELSE Decide(p, r, c)

\* As wrong: unknown exits are counted and nothing comes of it.
GoForce_Never(p, r, c) == GoStops(p, r, c)

\* forceReconcileOnUnknown, when enough exits have ended unknown.
GoForce(p, r, c) ==
  IF IsOpen(c) /\ c.unknown >= MaxUnknown /\ gate
  THEN pos' = p /\ Suspend("tick", [r EXCEPT !.at = "force", !.cur = c])
       /\ Unbooked /\ UNCHANGED suppressed
  ELSE GoStops(p, r, c)

\* bootSeedLivePosition: once per process, and only for a ledger that is open.
GoSeed(p, r, c) ==
  /\ seeded' = TRUE
  /\ IF ~seeded /\ ~IsOpen(c) /\ ledger > 0
     THEN pos' = p /\ Suspend("tick", [r EXCEPT !.at = "seed", !.cur = c])
          /\ Unbooked /\ UNCHANGED suppressed
     ELSE GoForce(p, r, c)

-----------------------------------------------------------------------------
(* The tick: tickBot, from await to await.                                 *)

T == act["tick"]
TickAt(stage) == T.at = stage

\* Runner.start's run: skipped while the bot is locked.  The row is read here.
TickStarts ==
  /\ running /\ TickAt("idle") /\ lock = "free"
  /\ Suspend("tick", Record(pos, 0, 0))
  /\ UNCHANGED <<storeVars, running, seeded, suppressed, gate, marketVars, exchangeVars, left>>

\* No bars: the tick ends in an exception; too few or broken bars: it saves
\* the position it began with.
BarsFail ==
  /\ TickAt("bars") /\ Trouble("query")
  /\ pos' \in {pos, T.cur} /\ Unbooked /\ End("tick")
  /\ UNCHANGED <<running, seeded, suppressed, gate, marketVars, exchangeVars>>

\* The engine has been run on the bars.
BarsArrive ==
  /\ TickAt("bars")
  /\ LET c == T.cur
         r == [T EXCEPT !.bar = bar, !.want = want]
     IN  IF suppressed /\ want > 0 /\ QtyOf(c) = 0
         THEN pos' = c /\ End("tick") /\ Unbooked /\ UNCHANGED <<suppressed, seeded>>
         ELSE IF c.kind = "marker" /\ ~gate
         THEN pos' = c /\ End("tick") /\ Unbooked /\ UNCHANGED <<suppressed, seeded>>
         ELSE IF c.kind = "marker"
         THEN Suspend("tick", [r EXCEPT !.at = "unknown"])
              /\ UNCHANGED <<storeVars, suppressed, seeded>>
         ELSE GoSeed(pos, r, c)
  /\ NoTrouble
  /\ UNCHANGED <<running, gate, marketVars, exchangeVars>>

\* As wrong: the misses are counted and never acted on, or not counted, or the
\* first one releases the marker.
Missed_Counts(m) ==
  pos' = [m EXCEPT !.misses = @ + 1] /\ End("tick") /\ Unbooked
    /\ UNCHANGED <<suppressed, seeded>>
Missed_NotCounted(m) ==
  pos' = m /\ End("tick") /\ Unbooked /\ UNCHANGED <<suppressed, seeded>>
Missed_AtOnce(m) == GoSeed(NoPos, T, NoPos)

\* The marker stays until the position was missing, or the query failed,
\* ClearMisses times.
Missed(m) ==
  IF m.misses + 1 >= ClearMisses
  THEN GoSeed(NoPos, T, NoPos)
  ELSE pos' = [m EXCEPT !.misses = @ + 1] /\ End("tick") /\ Unbooked
       /\ UNCHANGED <<suppressed, seeded>>

\* resolveUnknownEntry: what the account holds, up to what the entry was for,
\* is taken for its outcome.
Adopt(m) ==
  LET n == Least(Held, m.want)
      key == <<"unkadopt", m.bar>>
  IN  \/ /\ key \notin trades
         /\ Book(key, "buy", n, TRUE)
         /\ \E level \in Levels :
              LET c == Open(n, TRUE, level, {}, FALSE)
                  s == Synced([T EXCEPT !.kind = "adopt"], c, {}, TRUE)
              IN  pos' = c /\ Suspend("tick", [s EXCEPT !.at = "sync"])
         /\ UNCHANGED <<suppressed, seeded>>
      \/ /\ key \in trades
         /\ IF ledger > 0
            THEN \E level \in Levels :
                   LET c == Open(ledger, TRUE, level, {}, FALSE) IN GoSeed(c, T, c)
            ELSE GoSeed(NoPos, T, NoPos)

UnknownResolved ==
  /\ TickAt("unknown")
  /\ \/ Trouble("query") /\ Missed(T.cur)
     \/ NoTrouble /\ Held = 0 /\ Missed(T.cur)
     \/ NoTrouble /\ Held > 0 /\ Adopt(T.cur)
  /\ UNCHANGED <<running, gate, marketVars, exchangeVars>>

\* bootSeedLivePosition: no more is adopted than the ledger has open.
Seeded ==
  /\ TickAt("seed")
  /\ \/ Trouble("query") /\ GoForce(pos, T, T.cur)
     \/ NoTrouble /\ Held = 0 /\ GoForce(pos, T, T.cur)
     \/ /\ NoTrouble /\ Held > 0
        /\ \E level \in Levels :
             LET c == Open(Least(Held, ledger), TRUE, level, {}, FALSE) IN GoForce(c, T, c)
  /\ UNCHANGED <<running, seeded, gate, marketVars, exchangeVars>>

\* What forceReconcileOnUnknown makes of the account's holdings.
Reconciled(c) ==
  IF Held = c.qty THEN [c EXCEPT !.unknown = 0]
  ELSE IF Held > 0
  THEN Open(Least(Held, Larger(c.qty, ledger)), TRUE, c.level, c.stops, c.naked)
  ELSE IF ~c.live THEN [c EXCEPT !.unknown = 0]
  ELSE IF c.misses + 1 >= ClearMisses THEN NoPos
  ELSE [c EXCEPT !.misses = @ + 1]

Forced ==
  /\ TickAt("force")
  /\ \/ Trouble("query") /\ GoStops(pos, T, T.cur)
     \/ NoTrouble /\ LET c == Reconciled(T.cur) IN GoStops(c, T, c)
  /\ UNCHANGED <<running, seeded, gate, marketVars, exchangeVars>>

\* Fills of resident stops are booked once each, under the stops' ids.
BookFills(r) ==
  LET c == r.cur
      n == Least(c.qty, MapThenSumSet(LAMBDA l : stop[l].qty, r.filled))
      key == <<"prot", r.filled>>
  IN  \/ /\ key \notin trades
         /\ Book(key, "sell", n, TRUE)
         /\ pos' = IF n = c.qty THEN NoPos ELSE [c EXCEPT !.qty = @ - n, !.stops = r.ids]
         /\ End("tick") /\ UNCHANGED suppressed
      \/ key \in trades /\ Decide(pos, r, c)

\* As wrong: a stop that no longer rests is taken for executed.
StopsSeen_GoneIsFilled ==
  /\ TickAt("stops")
  /\ LET done == {l \in T.cur.stops : stop[l].state # "resting"}
     IN  IF done = {} THEN Decide(pos, T, T.cur)
         ELSE BookFills([T EXCEPT !.filled = done, !.ids = {}])
  /\ NoTrouble
  /\ UNCHANGED <<running, seeded, gate, marketVars, exchangeVars>>

\* The stops' orders are looked up; a failed query leaves its stop known.
StopsSeen ==
  /\ TickAt("stops")
  /\ \E dark \in {{}} \cup {{l} : l \in T.cur.stops} :
       LET done == {l \in T.cur.stops \ dark : stop[l].state = "filled"}
           r == [T EXCEPT !.filled = done, !.ids = dark,
                          !.cancel = T.cur.stops \ (dark \cup done)]
       IN  /\ IF dark = {} THEN NoTrouble ELSE Trouble("query")
           /\ IF done = {} THEN Decide(pos, T, T.cur)
              ELSE IF r.cancel = {} THEN BookFills(r)
              ELSE Suspend("tick", [r EXCEPT !.at = "drop"])
                   /\ UNCHANGED <<storeVars, suppressed>>
  /\ UNCHANGED <<running, seeded, gate, marketVars, exchangeVars>>

StopsBooked ==
  /\ TickAt("drop") /\ T.cancel = {}
  /\ BookFills(T)
  /\ NoTrouble
  /\ UNCHANGED <<running, seeded, gate, marketVars, exchangeVars>>

-----------------------------------------------------------------------------
(* An actor's order: fillOrder, from await to await.                       *)

Settle(a, f) ==
  /\ OrderDone(pos, a, act[a], f)
  /\ UNCHANGED <<running, seeded, gate, marketVars, exchangeVars>>
Proceed(a, stage) ==
  /\ Suspend(a, [act[a] EXCEPT !.at = stage])
  /\ UNCHANGED <<storeVars, running, seeded, suppressed, gate, marketVars, exchangeVars>>

\* The tick's client id is its bar and side; the others' ids never recur.
Cid(r) == <<r.side, r.bar>>
Found(a) == IF a = "tick" THEN order[Cid(act[a])] ELSE [qty |-> act[a].qty, exec |-> act[a].got]
Whole(o) == o.exec > 0 /\ o.exec = o.qty

\* An order of this bar that was filled is adopted instead of ordering again.
Precheck(a) ==
  /\ act[a].at = "precheck"
  /\ \/ NoTrouble /\ Whole(Found(a)) /\ Settle(a, Filled(Found(a).exec))
     \/ NoTrouble /\ ~Whole(Found(a)) /\ Proceed(a, "send")
     \/ (Trouble("query") \/ (Whole(Found(a)) /\ Trouble("lag"))) /\ Proceed(a, "send")

\* The exchange executes the order, in part if it runs out of offers.
Executed(a) ==
  LET r == act[a]
  IN  /\ r.at = "send"
      /\ r.side = "sell" => r.qty <= Sellable
      /\ \E n \in 1..r.qty :
           /\ IF n = r.qty THEN NoTrouble ELSE Trouble("partial")
           /\ order' = IF a = "tick" THEN [order EXCEPT ![Cid(r)] = [qty |-> r.qty, exec |-> n]]
                       ELSE order
           /\ IF r.side = "buy" THEN bought' = bought + n /\ UNCHANGED sold
                                ELSE sold' = sold + n /\ UNCHANGED bought
           /\ Suspend(a, [r EXCEPT !.at = "answer", !.got = n])
  /\ UNCHANGED <<storeVars, running, seeded, suppressed, gate, marketVars, stop>>

\* The exchange refuses the order, or the request never reaches it.
NotExecuted(a) ==
  /\ act[a].at = "send"
  /\ \/ NoTrouble /\ act[a].side = "sell" /\ act[a].qty > Sellable
     \/ Trouble("refuse") \/ Trouble("lost")
  /\ Proceed(a, "lookup")

Answered(a) == act[a].at = "answer" /\ NoTrouble /\ Settle(a, Filled(act[a].got))
AnswerLost(a) == act[a].at = "answer" /\ Trouble("lost") /\ Proceed(a, "lookup")

\* After a failure the order is looked up.  One that was executed in part
\* has expired and reads as rejected; one not indexed yet, as never placed.
LookedUp(a) ==
  /\ act[a].at = "lookup"
  /\ \/ NoTrouble /\ Whole(Found(a)) /\ Settle(a, Filled(Found(a).exec))
     \/ NoTrouble /\ ~Whole(Found(a)) /\ Settle(a, Blocked(act[a]))
     \/ Whole(Found(a)) /\ Trouble("lag") /\ Settle(a, Blocked(act[a]))
     \/ Trouble("query") /\ Settle(a, OutcomeUnknown)

-----------------------------------------------------------------------------
(* An actor's stops: syncProtective, request by request.                   *)

\* One stop is cancelled; one that is not resting, or not reached, stays known.
CancelStop(a, l) ==
  LET r == act[a]
      c == [r EXCEPT !.cancel = @ \ {l}]
  IN  /\ r.at \in {"sync", "drop"} /\ l \in r.cancel
      /\ \/ /\ NoTrouble /\ stop[l].state = "resting"
            /\ stop' = [stop EXCEPT ![l].state = "cancelled"]
            /\ Suspend(a, [c EXCEPT !.ids = IF r.at = "sync" THEN @ \ {l} ELSE @])
         \/ /\ (stop[l].state # "resting" /\ NoTrouble) \/ Trouble("cancel")
            /\ UNCHANGED stop
            /\ Suspend(a, [c EXCEPT !.ids = @ \cup {l}])
      /\ UNCHANGED <<storeVars, running, seeded, suppressed, gate, marketVars, order, bought, sold>>

PlaceStop(a) ==
  LET r == act[a]
      l == r.cur.level
      q == r.cur.qty
      accepted == q <= Sellable /\ stop[l].state # "resting"
  IN  /\ r.at = "sync" /\ r.cancel = {} /\ r.place
      /\ \/ /\ NoTrouble /\ accepted
            /\ stop' = [stop EXCEPT ![l] = [state |-> "resting", qty |-> q]]
            /\ Suspend(a, [r EXCEPT !.place = FALSE, !.ids = @ \cup {l}])
         \/ /\ (~accepted /\ NoTrouble) \/ Trouble("refuse") \/ Trouble("lost")
            /\ UNCHANGED stop
            /\ Suspend(a, [r EXCEPT !.place = FALSE, !.failed = TRUE])
         \/ /\ accepted /\ Trouble("lost")
            /\ stop' = [stop EXCEPT ![l] = [state |-> "resting", qty |-> q]]
            /\ Suspend(a, [r EXCEPT !.place = FALSE, !.failed = TRUE])
      /\ UNCHANGED <<storeVars, running, seeded, suppressed, gate, marketVars, order, bought, sold>>

\* The last answer is in: the position is saved, and an adopted one goes on
\* through the rest of the tick.
SyncDone(a) ==
  LET r == act[a]
      n == AfterSync(r)
  IN  /\ r.at = "sync" /\ r.cancel = {} /\ ~r.place
      /\ IF r.kind = "adopt" THEN GoSeed(n, r, n)
         ELSE SaveAndEnd(pos, a, r) /\ Unbooked /\ UNCHANGED <<suppressed, seeded>>
      /\ NoTrouble
      /\ UNCHANGED <<running, gate, marketVars, exchangeVars>>

-----------------------------------------------------------------------------
(* The sweep and the emergency stop.                                       *)

\* protectiveSweep looks after a live position without a resident stop.
SweepLooks ==
  /\ Possible("sweep") /\ running /\ HasStop /\ gate
  /\ act["sweep"].at = "idle" /\ lock = "free"
  /\ IsLive(pos) /\ pos.stops = {}
  /\ act' = [act EXCEPT !["sweep"] = [at |-> "price", cur |-> pos]]
  /\ UNCHANGED <<storeVars, running, lock, seeded, suppressed, gate, marketVars, exchangeVars>>

\* The price is no reason to sell; a new high is noted in the position read
\* before, whatever has become of it.
SweepPasses ==
  /\ act["sweep"].at = "price"
  /\ pos' \in {pos, act["sweep"].cur}
  /\ act' = [act EXCEPT !["sweep"] = Idle]
  /\ UNCHANGED <<trades, ledger, booked, running, lock, seeded, suppressed, gate,
                 marketVars, exchangeVars, left>>

\* The price is: unless a tick has begun, the position is read again and sold.
SweepSells ==
  /\ act["sweep"].at = "price" /\ lock = "free"
  /\ IsLive(pos) /\ pos.stops = {}
  /\ StartOrder(pos, "sweep", [Record(pos, bar, 0) EXCEPT
       !.side = "sell", !.qty = pos.qty, !.chan = "live", !.kind = "protect"])
  /\ UNCHANGED <<running, seeded, gate, marketVars, exchangeVars, left>>

\* emergencyStopAll with closePositions: it works on the row it read first.
HaltStarts ==
  /\ Trouble("halt") /\ running /\ act["halt"].at = "idle"
  /\ running' = FALSE
  /\ act' = [act EXCEPT !["halt"] = IF IsLive(pos) /\ gate THEN [at |-> "price", cur |-> pos]
                                    ELSE Idle]
  /\ UNCHANGED <<storeVars, lock, seeded, suppressed, gate, marketVars, exchangeVars>>

HaltSells ==
  /\ act["halt"].at = "price"
  /\ \/ LET c == act["halt"].cur
        IN  NoTrouble /\ StartOrder(c, "halt", [Record(c, bar, 0) EXCEPT
              !.side = "sell", !.qty = c.qty, !.chan = "live", !.kind = "close"])
     \/ Trouble("query") /\ End("halt") /\ UNCHANGED <<storeVars, suppressed>>
  /\ UNCHANGED <<running, seeded, gate, marketVars, exchangeVars>>

StartBot ==
  /\ ~running
  /\ running' = TRUE
  /\ UNCHANGED <<storeVars, act, lock, seeded, suppressed, gate, marketVars,
                 exchangeVars, left>>

-----------------------------------------------------------------------------
(* The market, the operator's switches, the process.                       *)

\* Only some strategies scale in and out, and some only in.
Wanted(last) ==
  {w \in Wants : \/ w \in {Silent, 0, Size} \/ left["scale"] > 0
                 \/ left["add"] > 0 /\ 0 <= last /\ last <= w}

NewBar ==
  /\ bar < MaxBars
  /\ bar' = bar + 1 /\ want' \in Wanted(want)
  /\ UNCHANGED <<storeVars, running, act, lock, seeded, suppressed, gate, exchangeVars, left>>

SuppressionEnds ==
  /\ suppressed /\ suppressed' = FALSE
  /\ UNCHANGED <<storeVars, running, act, lock, seeded, gate, marketVars, exchangeVars, left>>

GateCloses ==
  /\ gate /\ Trouble("gate") /\ gate' = FALSE
  /\ UNCHANGED <<storeVars, running, act, lock, seeded, suppressed, marketVars, exchangeVars>>
GateOpens ==
  /\ ~gate /\ NoTrouble /\ gate' = TRUE
  /\ UNCHANGED <<storeVars, running, act, lock, seeded, suppressed, marketVars, exchangeVars>>

Trigger(l) ==
  /\ Possible("trigger") /\ l \in Resting
  /\ stop' = [stop EXCEPT ![l].state = "filled"] /\ sold' = sold + stop[l].qty
  /\ UNCHANGED <<storeVars, running, act, lock, seeded, suppressed, gate, marketVars,
                 order, bought>>

Ordering(a) == act[a].at \in {"send", "answer", "lookup"}
Crash ==
  /\ \/ Trouble("crash") /\ \A a \in Actors : ~Ordering(a)
     \/ Trouble("crash_in_order")
  /\ act' = [a \in Actors |-> Idle] /\ lock' = "free"
  /\ seeded' = FALSE /\ suppressed' = FALSE
  /\ UNCHANGED <<storeVars, running, gate, marketVars, exchangeVars>>

Init ==
  /\ left \in Budgets
  /\ pos = NoPos /\ trades = {} /\ ledger = 0 /\ booked = [buy |-> 0, sell |-> 0]
  /\ running = TRUE /\ act = [a \in Actors |-> Idle] /\ lock = "free"
  /\ seeded = FALSE /\ suppressed = FALSE /\ gate = TRUE
  /\ bar = 1 /\ want \in Wanted(0)
  /\ order = [c \in {"buy", "sell"} \X (1..MaxBars) |-> NoOrder]
  /\ stop = [l \in Levels |-> NoStop]
  /\ bought = 0 /\ sold = 0

Tick ==
  \/ TickStarts \/ BarsFail \/ BarsArrive \/ UnknownResolved \/ Seeded \/ Forced
  \/ StopsSeen \/ StopsBooked
Ask(a) ==
  \/ Precheck(a) \/ Executed(a) \/ NotExecuted(a) \/ Answered(a) \/ AnswerLost(a)
  \/ LookedUp(a) \/ PlaceStop(a) \/ SyncDone(a)
  \/ \E l \in Levels : CancelStop(a, l)

Next ==
  \/ Tick
  \/ \E a \in Actors : Ask(a)
  \/ SweepLooks \/ SweepPasses \/ SweepSells
  \/ HaltStarts \/ HaltSells \/ StartBot
  \/ NewBar \/ SuppressionEnds \/ GateCloses \/ GateOpens \/ Crash
  \/ \E l \in Levels : Trigger(l)

Spec == Init /\ [][Next]_vars

\* The timer fires, answers arrive or time out, bars keep coming, and the
\* operator opens the gate and starts the bot again.
FairSpec ==
  /\ Spec
  /\ WF_vars(Tick) /\ \A a \in Actors : WF_vars(Ask(a))
  /\ WF_vars(SweepPasses \/ SweepSells) /\ WF_vars(HaltSells)
  /\ WF_vars(StartBot) /\ WF_vars(GateOpens)
  /\ WF_vars(NewBar) /\ WF_vars(SuppressionEnds)

-----------------------------------------------------------------------------
(* What the bot promises.                                                  *)

Positions ==
  {NoPos}
  \cup [kind : {"open"}, qty : 1..Size, live : BOOLEAN, level : Levels,
        stops : SUBSET Levels, naked : BOOLEAN, misses : 0..ClearMisses,
        unknown : 0..MaxUnknown]
  \cup [kind : {"marker"}, want : 1..Size, bar : 1..MaxBars, misses : 0..ClearMisses]

TypeOK ==
  /\ pos \in Positions
  /\ ledger \in Nat /\ booked \in [buy : Nat, sell : Nat]
  /\ {running, seeded, suppressed, gate} \subseteq BOOLEAN
  /\ lock \in {"free", "tick", "sweep"}
  /\ bar \in 1..MaxBars /\ want \in Wants
  /\ \A l \in Levels : stop[l].state \in {"none", "resting", "cancelled", "filled"}
  /\ bought \in Nat /\ sold \in Nat
  /\ left \in [AllFaults -> Nat]

\* What the live trades say was executed really was: nothing is booked that
\* the exchange did not do (fillOrder, P0-1 and P0-4).
BookedIsReal == booked.buy <= bought /\ booked.sell <= sold

\* The bot never owns more than the strategy ever wants: no answer lost, no
\* restart and no lookup that fails makes it enter twice (client ids, the
\* pendingUnknownEntry marker, bootSeed).
NetWithinSize == bought - sold <= Size

LiveQty == IF IsLive(pos) THEN pos.qty ELSE 0

\* When no actor is at work, what the bot's orders left in the account is in
\* its live position, or an unknown outcome is on record and will be resolved:
\* there is no holding that nothing manages.
NoOrphan ==
  seeded /\ lock = "free" /\ act["halt"].at = "idle" =>
    \/ bought - sold <= LiveQty
    \/ pos.kind = "marker"
    \/ IsOpen(pos) /\ pos.unknown > 0

\* While the position is one opened on paper, nothing is bought or sold for
\* it at the exchange, whoever acts (fillOrder, P0-1); only a stop that still
\* rests there may be executed.
PaperStaysPaper ==
  [][IsOpen(pos) /\ ~pos.live => bought' = bought /\ (sold' # sold => stop' # stop)]_vars

\* An entry whose outcome is unknown is resolved in the end.
MarkerResolves == pos.kind = "marker" ~> pos.kind # "marker"

\* When the strategy wants out, the position is closed or the strategy changes
\* its mind.
ExitHappens == want = 0 ~> ~IsOpen(pos) \/ want # 0

\* Again and again the live position is what the bot's orders really left.
Converges == []<>(bought - sold = LiveQty)
=============================================================================

--------------------------- MODULE BacktestLedger ---------------------------
(***************************************************************************)
(* What a backtest promises of its books, whatever strategy it runs: the   *)
(* trades only grow, the cash and the holding are what they leave, nothing *)
(* is sold that is not held, and without credit nothing is bought that the *)
(* cash does not pay for, its commission included.  Cash is in hundredths. *)
(***************************************************************************)
EXTENDS Integers, Sequences, SequencesExt

CONSTANT Rate            \* the commission, in percent

VARIABLES cash, held, trades,
          credit         \* the books opened with a position, or may add to one

vars == <<cash, held, trades, credit>>

Cost(t)     == t.qty * t.price * (100 + Rate)
Proceeds(t) == t.qty * t.price * (100 - Rate)

Settle(acc, t) ==
  IF t.side = "buy"
  THEN [acc EXCEPT !.cash = @ - Cost(t), !.held = @ + t.qty, !.ok = @ /\ (credit \/ Cost(t) <= acc.cash)]
  ELSE [acc EXCEPT !.cash = @ + Proceeds(t), !.held = @ - t.qty, !.ok = @ /\ t.qty <= acc.held]

Init == /\ trades = <<>>
        /\ credit \in BOOLEAN
        /\ cash \in Int /\ held \in Nat
        /\ credit \/ held = 0

\* The trades of one bar.
Book == /\ trades # trades' /\ IsPrefix(trades, trades')
        /\ LET new   == SubSeq(trades', Len(trades) + 1, Len(trades'))
               after == FoldLeft(Settle, [cash |-> cash, held |-> held, ok |-> TRUE], new)
           IN  after.ok /\ cash' = after.cash /\ held' = after.held
        /\ UNCHANGED credit

Spec == Init /\ [][Book]_vars
=============================================================================

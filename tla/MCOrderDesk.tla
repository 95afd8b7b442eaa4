---------------------------- MODULE MCOrderDesk ----------------------------
(***************************************************************************)
(* Small instances of OrderDesk: how much of what happens in each of them. *)
(***************************************************************************)
EXTENDS OrderDesk, TLC

Calm == [e \in Events |-> 0]

\* Previews and confirmations beside one kind of disturbance at a time: tokens
\* that expire and a restart; another environment; the switches; protective
\* orders that are cancelled or fire, with queries that fail and a price that
\* moves.  And two bots that trade beside each other while the price moves,
\* the day ends or the master switch is turned.
DeskScenarios ==
  LET Calling == [Calm EXCEPT !["call"] = 3]
      Trading == [Calm EXCEPT !["order"] = 4]
  IN  {[Calling EXCEPT !["tick"] = 2, !["crash"] = 1],
       [Calling EXCEPT !["env"] = 2],
       [Calling EXCEPT !["call"] = 2, !["switch"] = 3, !["halt"] = 1],
       [Calling EXCEPT !["switch"] = 1],
       [Calling EXCEPT !["cancel"] = 1, !["fires"] = 1, !["query"] = 1, !["price"] = 1],
       [Trading EXCEPT !["price"] = 1, !["night"] = 1],
       [Trading EXCEPT !["switch"] = 3]}

Alike == Permutations(Calls) \cup Permutations(Bots)
=============================================================================

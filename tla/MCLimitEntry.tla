---------------------------- MODULE MCLimitEntry ----------------------------
(***************************************************************************)
(* LimitEntry with a limit one percent under a close of 1000, a cap of one *)
(* percent, and a market that is within the cap or beyond it.              *)
(***************************************************************************)
EXTENDS LimitEntry

MCQuotes == {999, 1010}
MCOffset == -1

\* What may go wrong without the bot losing track of its entry ...
Survivable == {"request", "refused", "precheck", "look", "reconcile", "quote", "lag", "lapse"}
\* ... where in a tick it may die, ...
SafeStages == {"look", "cancel", "quote"}
\* ... and the loss of an answer alone.
LostAnswer == {"answer"}
=============================================================================

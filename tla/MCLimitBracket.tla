--------------------------- MODULE MCLimitBracket ---------------------------
(***************************************************************************)
(* The environments the limit-bracket bot is checked in.  Each is a set of *)
(* fault sets, one of which is drawn in the initial state: it goes into    *)
(* the constant FaultSets of one or more configurations.                   *)
(***************************************************************************)
EXTENDS LimitBracket

\* The broker refuses, loses answers, lets orders lapse, fails queries, and the
\* market closes and opens; or
\* the account's owner rests and executes orders of their own, beside a bot
\* whose orders lapse, or beside one to which answers get lost.
LossyBroker ==
  {{"expire", "refuse", "query", "lost_answer", "closed"},
   {"expire", "stranger"}, {"lost_answer", "stranger"}}

\* Either the process dies anywhere, also while its order is being placed, and
\* a new session begins; or
\* the operator stops and starts the bot, a cancel may fail, and live trading
\* is switched on and off.
DeathOrOperator ==
  {{"expire", "crash_in_order", "night"}, {"stop", "cancel", "gate"}}

\* An order's answer may be lost and the process may die between ticks.
Hiccups == {{"lost_answer", "crash"}}
=============================================================================

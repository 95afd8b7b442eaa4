----------------------------- MODULE MCSpotBot -----------------------------
(***************************************************************************)
(* Small instances of SpotBot: what goes wrong in each of them.            *)
(***************************************************************************)
EXTENDS SpotBot

Calm == [f \in AllFaults |-> 0]
Once(faults) == [f \in AllFaults |-> IF f \in faults THEN 1 ELSE 0]

\* Requests and answers are lost, lookups fail, orders are refused, the
\* process dies between two orders, trading is switched off for a while.  A
\* fourth failed lookup would be the entry's own and three of the position,
\* and those release the marker.
EntryTroubles ==
  {[Once({"refuse", "crash", "gate"}) EXCEPT !["lost"] = 2, !["query"] = 3]}

\* Stops are executed at any time, beside one kind of disturbance at a time:
\* a strategy that scales in and out, the kill switch, the sweep with a crash,
\* a refused or a lost request, trading switched off.  And, with the stops at
\* rest, a strategy that scales in while orders are refused or trading is
\* switched off.
StopTroubles ==
  {Once({"trigger"} \cup others) : others \in
    {{"scale"}, {"halt", "cancel"}, {"sweep", "cancel", "crash"}, {"refuse"},
     {"lost"}, {"gate"}}}
  \cup {Once({"add", "refuse"}), Once({"add", "gate"})}

\* Nothing goes wrong.
NoTroubles == {Calm}

=============================================================================

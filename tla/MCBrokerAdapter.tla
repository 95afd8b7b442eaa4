--------------------------- MODULE MCBrokerAdapter ---------------------------
(* Instances of BrokerAdapter for TLC.                                          *)
EXTENDS BrokerAdapter
CONSTANTS c1, c2
MCCalls == {c1, c2}
Order(type, kr, amount, price, half) ==
  [op |-> "place", type |-> type, kr |-> kr, amount |-> amount, price |-> price, half |-> half]
\* Prices on both sides of a band of the grid; one share and a half; an OCO whose stop
\* limit rounds up to its trigger.
MCRequests ==
  { Order("market", TRUE, FALSE, 0, 3), Order("limit", TRUE, FALSE, 4998, 2), Order("limit", FALSE, FALSE, 1999, 3),
    Order("stop", TRUE, FALSE, 3, 2), Order("market", FALSE, TRUE, 0, 2), Order("limit", TRUE, TRUE, 19996, 2),
    [op |-> "oco", tp |-> 9, sl |-> 4], [op |-> "oco", tp |-> 5, sl |-> 5],
    [op |-> "cancel"], [op |-> "order"], [op |-> "balance"], [op |-> "open"],
    [op |-> "openOco"], [op |-> "candles"] }
MCCompanions == { Order("market", TRUE, FALSE, 0, 3), [op |-> "order"], [op |-> "oco", tp |-> 9, sl |-> 4] }
MCRequestsOf == [c \in MCCalls |-> IF c = c1 THEN MCRequests ELSE MCCompanions]
==============================================================================

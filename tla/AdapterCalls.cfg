SPECIFICATION Spec
CONSTANTS
  c1 = c1
  c2 = c2
  Calls <- MCCalls
  Requests <- MCRequestsOf
  Brokers = {"spot", "futures", "kis", "kiwoom", "toss"}
  Attempts = 2
  Skew = 2
  Ttl = 3
  TickSize = 2
INVARIANTS
  TypeOK
  OneOrderPerCall
  ResultsAreTrue
  OrdersAsAsked
  TokenFresh
PROPERTY CallsEnd
CHECK_DEADLOCK FALSE

SPECIFICATION Spec
CONSTANTS
  Qty = 2
  HasSell = TRUE
  Baseline = 1
  Debounce = 3
  Cooldown = 1
  Cap = 3
  OrdersLag = 1
  HoldingsLag = 1
  FaultSets <- LossyBroker
  MaxOrders = 3
  MaxByHand = 2
  MaxSessions = 1
  MaxCrashes = 0
  MaxStops = 0
INVARIANTS
  TypeOK
  BookKept
  NoOverBuy
  NoOverSell
  FillsAreReal
PROPERTIES
  Forward
  Bracket
CHECK_DEADLOCK FALSE

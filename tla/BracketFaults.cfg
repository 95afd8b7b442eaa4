SPECIFICATION Spec
CONSTANTS
  Qty = 2
  HasSell = TRUE
  Baseline = 1
  Debounce = 3
  Cooldown = 3
  Cap = 2
  OrdersLag = 1
  HoldingsLag = 0
  FaultSets <- DeathOrOperator
  MaxOrders = 4
  MaxByHand = 0
  MaxSessions = 2
  MaxCrashes = 2
  MaxStops = 1
INVARIANTS
  NoOverBuy
  OrdersCapped
CHECK_DEADLOCK FALSE

SPECIFICATION FairSpec
CONSTANTS
  Qty = 2
  HasSell = TRUE
  Baseline = 1
  Debounce = 3
  Cooldown = 3
  Cap = 8
  OrdersLag = 1
  HoldingsLag = 1
  FaultSets <- Hiccups
  MaxOrders = 3
  MaxByHand = 0
  MaxSessions = 1
  MaxCrashes = 1
  MaxStops = 0
PROPERTIES
  Finishes
CHECK_DEADLOCK FALSE

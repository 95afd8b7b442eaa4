SPECIFICATION Spec
CONSTANTS
  c1 = c1
  c2 = c2
  b1 = b1
  b2 = b2
  Calls = {c1, c2}
  Bots = {b1, b2}
  Brokers = {"binance", "toss"}
  MaxQty = 2
  Prices = {3, 4}
  TakeProfit = 4
  StopPrice = 2
  MinNotional = 4
  Cap = 8
  TotalCap = 12
  LossLimit = 1
  TTL = 1
  Budgets <- DeskScenarios
SYMMETRY Alike
INVARIANTS
  TypeOK
  OrdersWereShown
  BudgetHolds
CHECK_DEADLOCK FALSE

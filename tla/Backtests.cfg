CONSTANTS
  MaxDepth = 3
  MaxNodeDepth = 6
  HtfSpan = 2
  DayBars = 3
  Measure <- MCMeasure
  Setups <- MCSetups
  Kinds <- MCKinds
  Length = 5
  Commission = 10
  Slippage = 10
SPECIFICATION Spec
CHECK_DEADLOCK FALSE
INVARIANTS TypeOK AverageIsDerived NoLookAhead
PROPERTIES KeepsTheLedger StopNeverLoosens

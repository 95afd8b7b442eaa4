SPECIFICATION Spec
CONSTANTS
  Wanted = 3
  Grants = {3}
  Timeout = 2
  PerBar = 1
  Cap = 1
  Close = 1000
  Offset <- MCOffset
  Quotes <- MCQuotes
  Bars = 4
  Kinds <- Survivable
  Trouble = 3
  CrashAt <- SafeStages
CHECK_DEADLOCK FALSE
INVARIANTS TypeOK OneEntry Settled
PROPERTIES Resolves

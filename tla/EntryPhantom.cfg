SPECIFICATION Spec
CONSTANTS
  Wanted = 2
  Grants = {2}
  Timeout = 2
  PerBar = 1
  Cap = 1
  Close = 1000
  Offset <- MCOffset
  Quotes <- MCQuotes
  Bars = 4
  Kinds <- LostAnswer
  Trouble = 1
  CrashAt = {}
CHECK_DEADLOCK FALSE
INVARIANT BookedIsReal

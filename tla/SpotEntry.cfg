SPECIFICATION FairSpec
CONSTANTS
  Size = 1
  HasStop = FALSE
  Levels = {1}
  Baseline = 0
  ClearMisses = 3
  MaxUnknown = 1
  Budgets <- EntryTroubles
  MaxBars = 3
INVARIANTS
  TypeOK
  NetWithinSize
PROPERTIES
  MarkerResolves
  ExitHappens
  Converges

SPECIFICATION FairSpec
CONSTANTS
  Size = 1
  HasStop = TRUE
  Levels = {1}
  Baseline = 0
  ClearMisses = 3
  MaxUnknown = 5
  Budgets <- NoTroubles
  MaxBars = 2
PROPERTIES
  ExitHappens

SPECIFICATION Spec
CONSTANTS
  Size = 2
  HasStop = TRUE
  Levels = {1, 2}
  Baseline = 0
  ClearMisses = 3
  MaxUnknown = 5
  Budgets <- StopTroubles
  MaxBars = 3
INVARIANTS
  NoOrphan
  BookedIsReal
PROPERTIES
  PaperStaysPaper

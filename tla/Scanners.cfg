SPECIFICATION Spec
CONSTANTS
  Symbols <- MCSymbols
  Top = 2
  Order = "desc"
  Capital = 8
  Others <- MCOthers
  OthersCapital = 8
  Gates <- MCGates
  Markets <- MCMarkets
  Bars = 2
  Kinds <- Anything
  Trouble = 2
CHECK_DEADLOCK FALSE
INVARIANTS TypeOK BookIsReal SlotsKept
PROPERTIES HeatBounded

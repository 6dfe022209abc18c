SPECIFICATION ProcessFairSpec
CONSTANTS
  NumStreams = 2
  NumLines = 2
  Ordered = FALSE
  MaxStops = 0
  MaxPanics = 0
  MaxLosses = 1
PROPERTY ComesBack
CHECK_DEADLOCK FALSE

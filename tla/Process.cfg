SPECIFICATION ProcessFairSpec
CONSTANTS
  NumStreams = 2
  NumLines = 2
  Ordered = TRUE
  MaxStops = 1
  MaxPanics = 2
  MaxLosses = 1
INVARIANT ProcessTypeOK
PROPERTIES ImplementsPromise ComesBack
CHECK_DEADLOCK FALSE

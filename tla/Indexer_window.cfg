SPECIFICATION IndexerSpec
CONSTANTS
  NumFiles = 3
  MaxLines = 2
  PathOrder <- MCPathOrder
  RawIsCanonical = TRUE
  LineCap = 2
  NotifyCap = 3
  NewDirs = {}
  MaxErrors = 0
  MaxPrunes = 0
  MaxRows = 2
  MaxCrashes = 1
  CalmStart = FALSE
INVARIANT NoGap
CHECK_DEADLOCK FALSE

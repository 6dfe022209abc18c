SPECIFICATION IndexerFairSpec
CONSTANTS
  NumFiles = 3
  MaxLines = 2
  PathOrder <- MCPathOrder
  RawIsCanonical = TRUE
  LineCap = 2
  NotifyCap = 3
  NewDirs = {}
  MaxErrors = 0
  MaxPrunes = 0
  MaxRows = 2
  MaxCrashes = 1
  CalmStart = TRUE
INVARIANTS NoGap
PROPERTIES ResumesFromCheckpoint EventuallyStored
CHECK_DEADLOCK FALSE

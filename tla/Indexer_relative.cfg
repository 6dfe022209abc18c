SPECIFICATION IndexerSpec
CONSTANTS
  NumFiles = 3
  MaxLines = 2
  PathOrder <- MCPathOrder
  RawIsCanonical = FALSE
  LineCap = 2
  NotifyCap = 3
  NewDirs = {}
  MaxErrors = 0
  MaxPrunes = 0
  MaxRows = 2
  MaxCrashes = 1
  CalmStart = TRUE
PROPERTIES ResumesFromCheckpoint
CHECK_DEADLOCK FALSE

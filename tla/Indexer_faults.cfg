SPECIFICATION IndexerSpec
CONSTANTS
  NumFiles = 2
  MaxLines = 2
  PathOrder <- MCPathOrder
  RawIsCanonical = TRUE
  LineCap = 2
  NotifyCap = 1
  NewDirs = {2}
  MaxErrors = 1
  MaxPrunes = 1
  MaxRows = 2
  MaxCrashes = 2
  CalmStart = FALSE
INVARIANTS IndexerTypeOK FileCovered NoLostWakeup
PROPERTIES SentOnce
CHECK_DEADLOCK FALSE

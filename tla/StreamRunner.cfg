SPECIFICATION FairSpec
CONSTANTS
  NumLines = 5
  Bad = {2, 5}
  NumTables = 2
  RowsIn <- MCRowsIn
  LineCap = 2
  MaxRows = 2
  MaxDeaths = 1
  MaxCrashes = 2
INVARIANTS TypeOK CheckpointCovered DoneMeansStored BufferBounded
PROPERTIES ReplayAboveCheckpoint ImplementsAtLeastOnce EventuallyCheckpointed OneShotEnds
CHECK_DEADLOCK FALSE

SPECIFICATION FairSpec
CONSTANTS
  NumLines = 4
  NumDays = 3
  BlockDay <- MCBlockDay
  KeyOf <- MCKeyOf
  ByCreation = TRUE
  MaxRestarts = 2
INVARIANTS CopiesMeet
CHECK_DEADLOCK FALSE

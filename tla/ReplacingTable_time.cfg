SPECIFICATION FairSpec
CONSTANTS
  NumLines = 4
  NumDays = 3
  BlockDay <- MCBlockDay
  KeyOf <- MCKeyOf
  ByCreation = FALSE
  MaxRestarts = 2
PROPERTIES DuplicatesGoAway
CHECK_DEADLOCK FALSE

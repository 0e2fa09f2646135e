SPECIFICATION FairSpec
CONSTANTS
  Size = 4
  FdLimit = 16
  Capacity = 1
  MaxLines = 3
  Lines <- LargeLines
PROPERTIES EveryLineCompletes
CHECK_DEADLOCK FALSE

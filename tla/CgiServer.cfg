SPECIFICATION Spec
CONSTANTS
  NSessions = 2
  Files <- MCFiles
  Outputs <- MCOutputs
  BufferSize = 2
  Room = 3
INVARIANTS ColumnsReadLikeTerminals
PROPERTY EverySessionEnds
CHECK_DEADLOCK FALSE

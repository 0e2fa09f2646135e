SPECIFICATION Spec
CONSTANTS
  NSessions = 2
  File <- MCFile
  Outputs <- MCOutputs
INVARIANTS NothingLost OneCommandPerPrompt
PROPERTIES EverySessionEnds
CHECK_DEADLOCK FALSE

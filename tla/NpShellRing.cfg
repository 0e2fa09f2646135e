SPECIFICATION Spec
CONSTANTS
  Size = 3
  FdLimit = 16
  Capacity = 1
  MaxLines = 6
  Lines <- RingLines
INVARIANTS NumberedPipeAlways

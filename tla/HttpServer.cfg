SPECIFICATION Spec
CONSTANTS
  c1 = c1
  c2 = c2
  c3 = c3
  Clients = {c1, c2, c3}
  Requests <- MCRequests
  Closers = {c3}
  Resetters = {c2}
  MaxProcs = 3
INVARIANTS RightAnswer OnlyResetsStop
PROPERTY EveryRequestEnds
CHECK_DEADLOCK FALSE

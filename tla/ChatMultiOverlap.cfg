SPECIFICATION Spec
CONSTANTS
  Clients = {c1, c2, c3}
  MaxUsers = 3
  Nobody = Nobody
  Commands <- MultiCommands
  Overlap = TRUE
  MaxCommands = 3
  MaxHangups = 0
SYMMETRY Processes
INVARIANTS SlotsDistinct
CHECK_DEADLOCK FALSE

SPECIFICATION Spec
CONSTANTS
  Clients = {c1, c2, c3}
  MaxUsers = 3
  Nobody = Nobody
  Commands <- MultiCommands
  Overlap = FALSE
  MaxCommands = 3
  MaxHangups = 1
SYMMETRY Processes
INVARIANTS SlotsDistinct NoStrandedMessage FifosOfUsers DrainEnds
PROPERTIES ShownToAddressee KillsItselfOnlyDuringLogin
CHECK_DEADLOCK FALSE

SPECIFICATION Spec
CONSTANTS
  c1 = c1
  c2 = c2
  c3 = c3
  Clients = {c1, c2, c3}
  MaxUsers = 3
  Names = {alice}
  LongNames = {}
  NoName = NoName
  Nobody = Nobody
  Paths = {binpath, usrbin, sbin}
  BinPath = binpath
  Lines <- PipeLines
  Leavers = {}
  MaxAhead = 1
  MaxLines = 4
  alice = alice
  longname = longname
  usrbin = usrbin
  sbin = sbin
PROPERTIES PipesComeFromSender
CHECK_DEADLOCK FALSE

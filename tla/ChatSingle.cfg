SPECIFICATION Spec
CONSTANTS
  c1 = c1
  c2 = c2
  c3 = c3
  Clients = {c1, c2, c3}
  MaxUsers = 3
  Names = {alice}
  LongNames = {longname}
  NoName = NoName
  Nobody = Nobody
  Paths = {binpath, usrbin, sbin}
  BinPath = binpath
  Lines <- ChatLines
  Leavers = {c3}
  MaxAhead = 2
  MaxLines = 3
  alice = alice
  longname = longname
  usrbin = usrbin
  sbin = sbin
INVARIANTS TypeOK TablesAgree PipesReachReceiver LinesRunAsTyped
PROPERTIES ImplementsDirectory OwnPath EverySocketServed
CHECK_DEADLOCK FALSE

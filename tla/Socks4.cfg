SPECIFICATION Spec
CONSTANTS
  c1 = c1
  c2 = c2
  Clients = {c1, c2}
  None = None
  Granted = Granted
  Rejected = Rejected
  Rest = Rest
  Requests <- MCRequests
  Conf <- MCConf
  Dns <- MCDns
  Reachable <- MCReachable
  Capacity = 1
  MaxProcs = 1
INVARIANTS FirewallObeyed RepliesTell RelayedInOrder
PROPERTIES EveryRequestAnswered DataArrives
CHECK_DEADLOCK FALSE

SPECIFICATION Spec
CONSTANTS
  p1 = p1
  p2 = p2
  c1 = c1
  Procs <- MCTwo
  Clients <- MCClients
  None = None
  Cli = Cli
  MaxFaults = 1
INVARIANTS SocketLeadsToOwner ExecutionsBounded
PROPERTIES CallsReturn LostSocketReleasesStore
CHECK_DEADLOCK FALSE

SPECIFICATION RuntimeSpec
CONSTANTS
  p1 = p1
  p2 = p2
  a1 = a1
  a2 = a2
  s1 = s1
  s2 = s2
  Pids <- MCPids
  Programs <- MCPrograms
  Socks <- MCSocks
  Policies <- MCPolicies
  Running <- MCRunning
  Holding <- MCHolding
  None = None
  Ticker = Ticker
  Handler = Handler
  MaxMoves = 1
  MaxInodes = 1
  MaxChanges = 2
  MaxApplies = 1
  MaxFailures = 1
INVARIANTS
  Inv
PROPERTIES
  GroupsSettle

SPECIFICATION EnginesSpec
CONSTANTS
  p1 = p1
  p2 = p2
  None = None
  Builds = {"linux", "windows"}
  Pids <- TwoPids
  Ports = {"free", "service"}
  Service = "service"
  MaxLaunches = 4
  MaxFaults = 2
CHECK_DEADLOCK FALSE
INVARIANTS
  Inv
PROPERTIES
  QuitEnds

SPECIFICATION Spec
CONSTANTS
  p = p
  q = q
  t1 = t1
  u1 = u1
  Apps <- MCApps
  Tcp <- MCTcp
  Udp <- MCUdp
  Home <- MCHome
  None = None
  Calendar <- LeapDays
  MaxConns = 2
  MaxFlows = 1
  MaxApps = 2
  UsageDays = 2
  UsageRows = 1
  KeepDays = 0
  ResetDay = 1
  DataLimit = 10
  CheckEvery = 1
  SaveEvery = 2
  Packet = 9
  MaxBytes = 18
  MaxStrange = 1
CHECK_DEADLOCK FALSE
INVARIANTS
  Inv
  TotalsComplete
  AppsOnce
PROPERTIES
  RecentKept
  LimitTold

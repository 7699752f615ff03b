SPECIFICATION Spec
CONSTANTS
  allow = allow
  guard = guard
  Rules <- MCRules
  Lines <- MCLines
  Name <- MCName
  Guards <- MCGuards
  None = None
  Ticker = Ticker
  Handler = Handler
  QueueCap = 2
  RingCap = 2
  DrainCap = 2
  MaxNames = 1
  MaxPackets = 2
  MaxApplies = 2
  MaxReadings = 2
CHECK_DEADLOCK FALSE
INVARIANTS
  Inv
  Accounted

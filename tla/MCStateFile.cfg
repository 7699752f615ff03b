SPECIFICATION Spec
CONSTANTS
  h1 = h1
  h2 = h2
  None = None
  Handlers <- MCHandlers
  Builtins <- OneBuiltin
  Names <- MCNames
  Actions <- MCActions
  Postures = {"on", "off"}
  Words = {"allow", "block"}
  AppNames = {"app"}
  Macs = {"d1", "d2"}
  MaxRules = 2
  MaxDevices = 2
  MaxChanges = 2
  MaxFaults = 1
SYMMETRY HandlerSymmetry
CHECK_DEADLOCK FALSE
INVARIANTS
  Inv
  Durable
  OldOrNew
  DecisionsKept
  EntryShown

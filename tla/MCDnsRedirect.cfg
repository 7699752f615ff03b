SPECIFICATION Spec
CONSTANTS
  MaxCrashes = 2
  MaxLaunches = 3
INVARIANTS
  Recoverable
  Restored
  NamesResolve

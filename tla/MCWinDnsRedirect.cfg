SPECIFICATION AdaptersSpec
CONSTANTS
  a1 = a1
  a2 = a2
  Adapters <- MCAdapters
  None = None
  MaxAdapters = 2
  MaxLaunches = 3
SYMMETRY Symmetry
INVARIANTS
  Recoverable
  Restored

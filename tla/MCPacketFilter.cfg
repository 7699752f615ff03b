SPECIFICATION Spec
CONSTANTS
  a1 = a1
  self = self
  peer = peer
  doh = doh
  winDoh = winDoh
  here = here
  any = any
  Apps <- OneApp
  Self = self
  Remotes <- Addresses
  Here = here
  NftResolvers <- LinuxList
  WfpResolvers <- WinList
  Any = any
  Packets <- SomePackets
  MaxRules = 2
  RuleMenu <- Menu
  RuleBound = 2
INVARIANTS
  SameDecision
  WfpUnambiguous
  BlockedStaysBlocked
  GuardHolds
PROPERTIES
  Tightens

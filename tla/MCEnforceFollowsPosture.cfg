SPECIFICATION Spec
CONSTANTS
  a1 = a1
  r1 = r1
  h1 = h1
  h2 = h2
  main = main
  none = none
  Apps <- OneApp
  Rules <- OneRule
  Handlers <- TwoHandlers
  Main = main
  NoThread = none
  InitConfigs <- EitherStart
  Patches <- SomePatches
  MaxRequests = 2
INVARIANTS
  EnforceFollowsPosture

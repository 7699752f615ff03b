SPECIFICATION Spec
CONSTANTS
  site = site
  ads = ads
  top = top
  topDot = topDot
  adsWild = adsWild
  bad = bad
  h1 = h1
  h2 = h2
  Domains <- SomeDomains
  Texts <- SomeTexts
  Bad = bad
  Norm <- SomeNorm
  Suffixes <- SomeSuffixes
  Hash <- SomeHash
  FirstCap = 2
  Imports <- SomeImports
  Handlers <- TwoHandlers
  NoFile = nofile
  MaxCalls = 4
SYMMETRY HandlerSymmetry
INVARIANTS
  Inv
  BlocksListed
  FileWhole

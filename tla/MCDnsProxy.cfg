SPECIFICATION Spec
CONSTANTS
  q1 = q1
  q2 = q2
  q3 = q3
  nobody = nobody
  s1 = s1
  s2 = s2
  Queries <- ThreeQueries
  Servers <- TwoServers
  UpLists <- Lists
  SLOTS = 2
  TAGS = 2
  Nobody = nobody
  RETRY = 0
  GIVE_UP = 2
  MaxStops = 1
  MaxMoves = 1
CONSTRAINT InTurn
INVARIANTS
  AnswersMatch
  AnsweredOnce
PROPERTIES
  FailsLate
  QueryEnds

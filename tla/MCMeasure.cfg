CONSTANTS
  N = 4
  C = 2
  Turns <- MCTurns
  Arrival <- MCArrival
  R = 3
  NoTime = NoTime
  Offsets <- MCOffsets
  MaxTime = 4
  Interval = 2
  Limit = 1
  MaxWatch = 7
SPECIFICATION FairSpec
INVARIANTS
  Inv
  LoadIsRight
  StallsBounded
PROPERTIES
  ReplaysSessions
  RunEnds
  EverySessionArrives

SPECIFICATION Spec
CONSTANTS
  K = 4
  Turns = 2
  MinRate = 30
  Start = 64
  MaxIters = 6
  Tol = 10
  Cells <- MCCells
  Steps = 2
  Attempts = 2
  TopStep = 8
  MaxLen = 60
  KvTokens = 100
  C = 2
  N = 5
  DeadlineS = 5
  Handover = 1
  MinWindow = 2
  Horizon = 6
  PlayTurns = 2
  BinS = 2
  Block = 2
  MaxLines = 3
  MaxTokens = 2
  MaxPlanned = 1
  MaxTicks = 1
  Pools <- MCPools
  MinTurns = 2
  MaxTurns = 3
  Followed = 2
  PlansSent = 2
  MaxPlays = 3
  MaxSource = 3
  MaxDrawn = 5
  LastStamp = 2
INVARIANT StopsAtMismatch

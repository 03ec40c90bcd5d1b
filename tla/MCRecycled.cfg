CONSTANTS
  N = 2
  C = 2
  SessionTurns <- MCSessionTurns
  Streak = 3
  MaxPlays = 5
SPECIFICATION HistorySpec
INVARIANTS
  Inv
  EveryPlayWhole
PROPERTIES
  ReplaysSessions
  AbortsOnStreak
  AbortEndsRun

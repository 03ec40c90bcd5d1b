CONSTANTS
  N = 5
  C = 2
  Turns <- MCTurns
  Due <- MCDue
SPECIFICATION FairSpec
INVARIANTS
  Inv
  AgentExclusive
  PopNeverFails
  IdentityHolds
  AdmittedInOrder
  FirstAdmissionsAreFirstPlays
PROPERTIES
  ReplaysSessions
  RunEnds

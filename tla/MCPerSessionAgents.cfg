CONSTANTS
  N = 4
  C = 3
  Turns <- MCTurns
  Due <- MCStagger
SPECIFICATION Spec
PROPERTY EarlyAgentGoesFirst

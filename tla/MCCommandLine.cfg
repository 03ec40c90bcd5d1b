SPECIFICATION Spec
CONSTANTS
  MaxAsks = 3
  MaxFacts = 3
  MaxLines = 4
  MaxReturned = 3
  MaxPos = 2
  MaxPasses = 2
  Profilers = {1, 2}
  MaxPoints = 3
  MaxRuns = 2
  MaxExports = 2
  MinSamples = 1
  Nominal = 2
  Worlds = {1, 2, 3, 4}
  Units = 3
  MaxRows = 3
  MaxFaults = 2
INVARIANTS
  
  ProfileIsWhole
  ComparisonIsFair
  WrittenIsServed
  RemovedOncePulled
  GridIsSound
  RanksAgree
PROPERTIES
  RunFilesStand
  

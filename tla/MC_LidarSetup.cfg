CONSTANTS
  NULL = NULL
  h1 = h1
  h2 = h2
  dataType = dataType
  blindSpot = blindSpot
  Handles <- MCHandles
  Options <- MCOptions
  Files <- MCFiles
  MaxSource = 1
  MaxRounds = 2
SPECIFICATION FairSpec
INVARIANTS EntryIsInForce SettledMeansApplied
PROPERTY EventuallySampling
CHECK_DEADLOCK FALSE

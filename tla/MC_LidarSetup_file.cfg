CONSTANTS
  NULL = NULL
  h1 = h1
  h2 = h2
  dataType = dataType
  blindSpot = blindSpot
  Handles <- MCHandles
  Options <- MCOptions
  Files <- DocumentedFiles
  MaxSource = 1
  MaxRounds = 2
SPECIFICATION Spec
INVARIANT FileIsSent
CHECK_DEADLOCK FALSE

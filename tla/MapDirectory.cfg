CONSTANTS
  NoFile = NoFile
  HalfWritten = HalfWritten
  Empty = Empty
  WindowSize = 3
  Stride = 2
  MaxPoses = 3
  MaxRuns = 2
  MaxLoaded = 6
  MaxRequests = 2
SPECIFICATION AllSpec
INVARIANTS PairsMatch RefinedTogether ValidMeansLocalized
PROPERTY RelocalizationEnds
CHECK_DEADLOCK FALSE

CONSTANTS
  NoFile = NoFile
  HalfWritten = HalfWritten
  WindowSize = 3
  Stride = 2
  MaxPoses = 3
  MaxRuns = 2
  MaxLoaded = 6
SPECIFICATION Spec
INVARIANT PosesToOptimize
CHECK_DEADLOCK FALSE

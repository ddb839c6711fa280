CONSTANTS
  MaxTime = 7
  MaxScans = 3
  LidarSteps = {3, 4}
  ImuSteps = {1}
  LidarJumps <- MC_LidarJumps
  ImuJumps <- MC_ImuJumps
  Durations = {2}
  InitCount = 1
SPECIFICATION Spec
INVARIANT BuffersMatch
CHECK_DEADLOCK FALSE

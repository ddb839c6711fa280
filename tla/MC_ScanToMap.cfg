CONSTANTS
  Lidars = {l1, l2}
  TicksPerMs = 2
  Interval = 5
  TimeMod = 64
  ClockOffset = 4
  MaxTick = 8
  MaxBacklog = 1
  MaxLost = 1
  MaxChanges = 1
  NoLidar = NoLidar
  NoTime = NoTime
  MaxTime = 18
  MaxScans = 5
  LidarSteps = {3, 4}
  ImuSteps = {1}
  LidarJumps <- MC_LidarJumps
  ImuJumps <- MC_ImuJumps
  Durations = {2, 3}
  InitCount = 2
  RawScans <- MCScans
  RawSettings <- MCSettings
  N_SCANS = 2
  group_size = 2
  FullTurn = 4
  NULL = NULL
  Axes = {1, 2}
  cube_len = 10
  DET_RANGE = 2
  MaxStep = 1
  Reach = 4
  Positions = {0, 1}
  Drifts = {0, 1}
  KeyPoseDelta = 0
  MinPoses = 3
  SearchRadius = 1
  LoopTime = 1
  MinDetect = 2
  MaxStamp = 5
  MaxBuffer = 2
  MaxPoses = 5
SYMMETRY Symmetry
SPECIFICATION StagesSpec
INVARIANTS EveryPointOnce SyncedFramesRegular  ScanHasItsTime PackageComplete RegisteredOnce TimesFollowRotation FeaturesRight LoopsApart GraphComplete
PROPERTIES SamplesContiguous MapIsLocal
CHECK_DEADLOCK FALSE

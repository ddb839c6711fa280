CONSTANTS
  Config <- MC_Config
  MaxAttempts = 2
  MaxCandidates = 2
  MaxChannel = 2
  MaxRestarts = 1
  Waypoints = 2
  MaxAlignments = 3
SPECIFICATION CarSpec
INVARIANTS DrivenOnlyConfigured LossIsReported PatrolOnce
PROPERTIES SilenceStops ExitStops PatrolStarts
CHECK_DEADLOCK FALSE

CONSTANTS
  Waypoints = 1
  MaxAlignments = 1
SPECIFICATION Spec
INVARIANT WaitFailureReported
CHECK_DEADLOCK FALSE

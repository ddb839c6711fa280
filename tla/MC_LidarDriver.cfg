CONSTANTS
  f1 = f1
  f2 = f2
  f3 = f3
  NoFrame = NoFrame
  Frames = {f1, f2, f3}
  QueueSize = 2
  IdxMod = 8
  Reorder = FALSE
  NoLidar = NoLidar
  LidarCount = 2
  MaxQueue = 2
SPECIFICATION DriverSpec
INVARIANTS IndicesInStep SlotExclusive AtMostOneWakeup NoLostWakeup
PROPERTIES RefinesFifo FullQueueDrains ExitCompletes

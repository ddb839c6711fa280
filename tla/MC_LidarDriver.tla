---------------------------- MODULE MC_LidarDriver ----------------------------
(* The way of a frame to its publisher: the queue of a lidar access by access *)
(* (LidarQueue), and the threads that go by what all queues hold              *)
(* (FrameDelivery), each by itself.  Three frames that can be told apart, a   *)
(* queue of two, indices that wrap after four laps of it.                     *)
EXTENDS LidarQueue

CONSTANTS f1, f2, f3, LidarCount, MaxQueue, NoLidar

VARIABLES
  part,     \* which of the two; never changes
  stream, late_stores, queued, buffered, connect_state, count, producer, target,
  poller, visiting, node, owed

Delivery == INSTANCE FrameDelivery

ASSUME DriverAssumption == Delivery!DeliveryAssumption

deliveryVars == <<stream, late_stores, queued, buffered, connect_state, count, producer, target,
                  poller, visiting, node, owed>>
allVars == <<part, vars, deliveryVars>>

DriverInit == Init /\ Delivery!Init /\ part \in {"queue", "delivery"}

DriverNext == \/ part = "queue" /\ Next /\ UNCHANGED <<part, deliveryVars>>
              \/ part = "delivery" /\ Delivery!Next /\ UNCHANGED <<part, vars>>

\* The fairness of FrameDelivery.
Threads(A) == part = "delivery" /\ A /\ UNCHANGED <<part, vars>>
DriverFairness ==
  /\ WF_allVars(Threads(Delivery!Sensor)) /\ WF_allVars(Threads(Delivery!Producing))
  /\ WF_allVars(Threads(Delivery!Drain)) /\ WF_allVars(Threads(Delivery!Polling))
  /\ WF_allVars(Threads(Delivery!Destructor))

DriverSpec == DriverInit /\ [][DriverNext]_allVars /\ DriverFairness

\* The properties of FrameDelivery; those of LidarQueue go by their names.
AtMostOneWakeup == Delivery!AtMostOneWakeup
NoLostWakeup    == Delivery!NoLostWakeup
FullQueueDrains == Delivery!FullQueueDrains
ExitCompletes   == Delivery!ExitCompletes
===============================================================================

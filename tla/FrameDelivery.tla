---------------------------- MODULE FrameDelivery ----------------------------
(***************************************************************************)
(* From Lds::PushLidarData / Lds::StorageImuData to the poll thread that   *)
(* publishes: the per-lidar queues, the semaphore the threads share, the   *)
(* connect state the SDK callbacks set, and the shutdown of the node.      *)
(*                                                                         *)
(* The driver has this machine twice: stream = "pointcloud" is the one     *)
(* over LidarDataQueue (bounded, see LidarQueue), stream = "imu" the one   *)
(* over LidarImuDataQueue (a locked list without a bound: MaxQueue then    *)
(* stands for that many samples or more).  Frames are counted only: their  *)
(* order is what LidarQueue is about.                                      *)
(*                                                                         *)
(* Semaphore::GetCount and the queue indices are read without a lock.      *)
(* With late_stores the producer's new wr_idx may stay invisible to the    *)
(* poll thread until the producer next synchronises or it drains by        *)
(* itself, which every multi-core processor allows.  The IMU list is       *)
(* locked, so its pushes are visible at once.                              *)
(***************************************************************************)
EXTENDS Integers, FiniteSets

CONSTANTS
  LidarCount,   (* lidar_count_: the poll thread visits 0 .. LidarCount - 1 *)
  MaxQueue,     (* frames a queue holds                                     *)
  NoLidar

DeliveryAssumption ==
  /\ LidarCount \in Nat \ {0}
  /\ MaxQueue \in Nat \ {0}
  /\ NoLidar \notin 0 .. LidarCount - 1

Lidars == 0 .. LidarCount - 1

VARIABLES
  stream,         (* which of the two machines this is; never changes        *)
  late_stores,    (* may wr_idx become visible late? never changes           *)
  queued,         (* frames in each queue, as the producer knows it          *)
  buffered,       (* the lidar whose last wr_idx store is not yet visible    *)
  connect_state,  (* "off" until every option is acknowledged                *)
  count,          (* Semaphore::count_                                       *)
  producer,       (* where PushLidarData is                                  *)
  target,         (* the lidar it is pushing for                             *)
  poller,         (* where the poll thread is                                *)
  visiting,       (* the lidar DistributePointCloudData has reached          *)
  node,           (* how far ~DriverNode has come; carries request_exit_     *)
  owed            (* lidars with an unread frame offered while they sampled  *)

config == <<stream, late_stores>>
producerVars == <<producer, target>>
pollerVars == <<poller, visiting>>
vars == <<config, queued, buffered, connect_state, count, producerVars, pollerVars, node, owed>>

IsRequestExit == node # "running"
ExitSignalled == node \in {"signalled", "joined"}

(* The queue as the poll thread sees it. *)
Visible(l) == queued[l] - (IF buffered = l THEN 1 ELSE 0)

Init ==
  /\ stream \in {"pointcloud", "imu"}
  /\ late_stores \in BOOLEAN /\ (late_stores => stream = "pointcloud")
  /\ queued = [l \in Lidars |-> 0]
  /\ buffered = NoLidar
  /\ connect_state = [l \in Lidars |-> "off"]
  /\ count = 0
  /\ producer = "idle" /\ target = NoLidar
  /\ poller = "top" /\ visiting = 0
  /\ node = "running"
  /\ owed = {}

-------------------------------------------------------------------------------
(* The producer: PubHandler's thread, or the SDK thread for IMU samples. *)

Owe(l) == owed' = IF connect_state[l] = "sampling" THEN owed \cup {l} ELSE owed

(* PushLidarData with room in the queue, or StorageImuData. *)
Push(l) ==
  /\ producer = "idle"
  /\ \/ /\ queued[l] < MaxQueue
        /\ queued' = [queued EXCEPT ![l] = @ + 1]
     \/ stream = "imu" /\ queued[l] = MaxQueue /\ UNCHANGED queued
  /\ \/ buffered' = NoLidar
     \/ late_stores /\ buffered' = l
  /\ producer' = "pushed" /\ target' = l
  /\ Owe(l)
  /\ UNCHANGED <<config, connect_state, count, pollerVars, node>>

(* Mutant: the frame a full queue refuses wakes nobody. *)
PushFull_noWake(l) ==
  /\ stream = "pointcloud"
  /\ producer = "idle"
  /\ queued[l] = MaxQueue
  /\ Owe(l)
  /\ UNCHANGED <<config, queued, buffered, connect_state, count, producerVars, pollerVars, node>>

(* PushLidarData with a full queue: the frame is dropped, the thread woken. *)
PushFull(l) ==
  /\ stream = "pointcloud"
  /\ producer = "idle"
  /\ queued[l] = MaxQueue
  /\ producer' = "getcount" /\ target' = l
  /\ Owe(l)
  /\ UNCHANGED <<config, queued, buffered, connect_state, count, pollerVars, node>>

(* Mutant: the poll thread is woken for a full queue only. *)
CheckNotEmpty_full ==
  /\ producer = "pushed"
  /\ producer' = IF queued[target] < MaxQueue THEN "idle" ELSE "getcount"
  /\ UNCHANGED <<config, queued, buffered, connect_state, count, target, pollerVars, node, owed>>

(* if (!QueueIsEmpty(queue)): the poll thread may have been faster. *)
CheckNotEmpty ==
  /\ producer = "pushed"
  /\ producer' = IF queued[target] = 0 THEN "idle" ELSE "getcount"
  /\ UNCHANGED <<config, queued, buffered, connect_state, count, target, pollerVars, node, owed>>

(* Mutant: every push signals. *)
GetCount_always ==
  /\ producer = "getcount"
  /\ producer' = "signal"
  /\ UNCHANGED <<config, queued, buffered, connect_state, count, target, pollerVars, node, owed>>

(* if (pcd_semaphore_.GetCount() <= 0), without the semaphore's mutex *)
GetCount ==
  /\ producer = "getcount"
  /\ producer' = IF count <= 0 THEN "signal" ELSE "idle"
  /\ UNCHANGED <<config, queued, buffered, connect_state, count, target, pollerVars, node, owed>>

Signal ==
  /\ producer = "signal"
  /\ count' = count + 1
  /\ buffered' = NoLidar
  /\ producer' = "idle"
  /\ UNCHANGED <<config, queued, connect_state, target, pollerVars, node, owed>>

(* The processor writes the buffered store back. *)
Drain ==
  /\ buffered # NoLidar
  /\ buffered' = NoLidar
  /\ UNCHANGED <<config, queued, connect_state, count, producerVars, pollerVars, node, owed>>

-------------------------------------------------------------------------------
(* The poll thread: PointCloudDataPollThread / ImuDataPollThread. *)

(* Distribute...: if (lds_->IsRequestExit()) return; *)
PollTop ==
  /\ poller = "top"
  /\ poller' = IF IsRequestExit THEN "test" ELSE "wait"
  /\ UNCHANGED <<config, queued, buffered, connect_state, count, producerVars, visiting, node, owed>>

Wait ==
  /\ poller = "wait"
  /\ count > 0
  /\ count' = count - 1
  /\ poller' = "poll" /\ visiting' = 0
  /\ UNCHANGED <<config, queued, buffered, connect_state, producerVars, node, owed>>

NextLidar ==
  IF visiting = LidarCount - 1
  THEN poller' = "test" /\ visiting' = 0
  ELSE poller' = "poll" /\ visiting' = visiting + 1

(* A lidar that is not sampling is skipped; so is an empty queue, and every *)
(* queue once exit is requested.                                            *)
SkipLidar ==
  /\ poller = "poll"
  /\ \/ connect_state[visiting] # "sampling"
     \/ IsRequestExit
     \/ Visible(visiting) = 0
  /\ NextLidar
  /\ UNCHANGED <<config, queued, buffered, connect_state, count, producerVars, node, owed>>

EnterLidar ==
  /\ poller = "poll"
  /\ connect_state[visiting] = "sampling"
  /\ ~IsRequestExit
  /\ Visible(visiting) > 0
  /\ poller' = "publish"
  /\ UNCHANGED <<config, queued, buffered, connect_state, count, producerVars, visiting, node, owed>>

(* One frame is popped and published.  PublishPointcloud2 and its siblings  *)
(* loop until the queue is empty without looking at request_exit_;          *)
(* PublishImuData takes one sample and returns to the loop that does.       *)
Publish ==
  /\ poller = "publish"
  /\ Visible(visiting) > 0
  /\ \/ queued' = [queued EXCEPT ![visiting] = @ - 1]
     \/ stream = "imu" /\ queued[visiting] = MaxQueue /\ UNCHANGED queued
  /\ owed' = IF queued'[visiting] = 0 THEN owed \ {visiting} ELSE owed
  /\ poller' = IF stream = "imu" THEN "poll" ELSE "publish"
  /\ UNCHANGED <<config, buffered, connect_state, count, producerVars, visiting, node>>

QueueEmptied ==
  /\ poller = "publish"
  /\ Visible(visiting) = 0
  /\ poller' = "poll"
  /\ UNCHANGED <<config, queued, buffered, connect_state, count, producerVars, visiting, node, owed>>

(* while (future_.wait_for(0) == timeout) *)
TestExit ==
  /\ poller = "test"
  /\ poller' = IF ExitSignalled THEN "done" ELSE "top"
  /\ UNCHANGED <<config, queued, buffered, connect_state, count, producerVars, visiting, node, owed>>

-------------------------------------------------------------------------------
(* The other threads. *)

(* The last outstanding option of the lidar was acknowledged. *)
StartSampling(l) ==
  /\ connect_state[l] # "sampling"
  /\ connect_state' = [connect_state EXCEPT ![l] = "sampling"]
  /\ UNCHANGED <<config, queued, buffered, count, producerVars, pollerVars, node, owed>>

(* ~DriverNode: RequestExit, set_value, join *)
RequestExit ==
  /\ node = "running"
  /\ node' = "requested"
  /\ UNCHANGED <<config, queued, buffered, connect_state, count, producerVars, pollerVars, owed>>

SetExitSignal ==
  /\ node = "requested"
  /\ node' = "signalled"
  /\ UNCHANGED <<config, queued, buffered, connect_state, count, producerVars, pollerVars, owed>>

Join ==
  /\ node = "signalled"
  /\ poller = "done"
  /\ node' = "joined"
  /\ UNCHANGED <<config, queued, buffered, connect_state, count, producerVars, pollerVars, owed>>

Sensor == \E l \in Lidars : Push(l) \/ PushFull(l)
Producing == CheckNotEmpty \/ GetCount \/ Signal
Polling == PollTop \/ Wait \/ SkipLidar \/ EnterLidar \/ Publish \/ QueueEmptied \/ TestExit
Destructor == SetExitSignal \/ Join

Next ==
  \/ Sensor \/ Producing \/ Drain
  \/ Polling
  \/ RequestExit \/ Destructor
  \/ \E l \in Lidars : StartSampling(l)

Spec == Init /\ [][Next]_vars

(* Threads run, the sensors keep sending, and buffered stores drain. *)
Fairness ==
  /\ WF_vars(Sensor) /\ WF_vars(Producing) /\ WF_vars(Drain)
  /\ WF_vars(Polling)
  /\ WF_vars(Destructor)

FairSpec == Spec /\ Fairness

-------------------------------------------------------------------------------
TypeOK ==
  /\ stream \in {"pointcloud", "imu"} /\ late_stores \in BOOLEAN
  /\ queued \in [Lidars -> 0 .. MaxQueue]
  /\ buffered \in Lidars \cup {NoLidar}
  /\ connect_state \in [Lidars -> {"off", "sampling"}]
  /\ count \in Nat
  /\ producer \in {"idle", "pushed", "getcount", "signal"}
  /\ target \in Lidars \cup {NoLidar}
  /\ poller \in {"top", "wait", "poll", "publish", "test", "done"}
  /\ visiting \in Lidars
  /\ node \in {"running", "requested", "signalled", "joined"}
  /\ owed \subseteq Lidars

(* The unlocked GetCount never lets wake-ups pile up: there is at most one  *)
(* outstanding, so a drained queue costs the poll thread one idle round.    *)
AtMostOneWakeup == count + (IF producer = "signal" THEN 1 ELSE 0) <= 1

(* When stores are seen in order, the poll thread never sleeps on a frame   *)
(* that was offered while its lidar was sampling: either a wake-up is       *)
(* there or the producer is about to give one.                              *)
NoLostWakeup ==
  ~late_stores /\ poller = "wait" /\ count = 0 /\ producer = "idle" => owed = {}

(* Publishing keeps up with the sensors: a frame is published in far less   *)
(* than the 10 ms between two frames at the highest publish_freq, so no      *)
(* round of the poll thread goes on for ever.  The inner loops have no other *)
(* way out: they do not look at request_exit_.                               *)
RoundsEnd == []<>(poller \notin {"poll", "publish"})

(* Even with late stores a full queue is emptied again: the frame refused   *)
(* by the full queue wakes the poll thread.                                 *)
FullQueueDrains ==
  RoundsEnd =>
    \A l \in Lidars :
      connect_state[l] = "sampling" /\ queued[l] = MaxQueue
        ~> (queued[l] < MaxQueue \/ IsRequestExit)

(* While the sensors keep sending, destroying the node ends the thread:     *)
(* the next frame wakes it, and it then sees the exit signal.               *)
ExitCompletes == RoundsEnd => (node = "requested" ~> node = "joined")

-------------------------------------------------------------------------------
(* The inductive invariant behind NoLostWakeup: every owed frame is accounted *)
(* for by a wake-up given, one being given, or the round under way.           *)
Accounted(l) ==
  \/ count > 0
  \/ producer = "signal"
  \/ producer \in {"pushed", "getcount"} /\ target = l
  \/ poller \in {"poll", "publish"} /\ visiting <= l
  \/ IsRequestExit /\ poller # "wait"

WakeupInv ==
  /\ TypeOK
  /\ producer # "idle" => target \in Lidars
  /\ ~late_stores => buffered = NoLidar
  /\ ~late_stores => \A l \in owed :
       /\ queued[l] > 0
       /\ connect_state[l] = "sampling"
       /\ Accounted(l)
===============================================================================

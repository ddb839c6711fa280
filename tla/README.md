# Formal model of the car_ws robot workspace

car_ws is the ROS 2 workspace of a small car: a Livox lidar driver, FAST-LIO odometry,
pose-graph and map refinement, an ICP localiser, a waypoint patrol, and the node that drives
the chassis over an RPMsg channel to a real-time core. There is no test suite; the
specifications here were written from the source.

All paths below are relative to the repository root, and `livox/` stands for
`src/car_driver/livox_ros_driver2/src/`.

## 1. Inventory

| Component | State it keeps | Operations | Interacts with |
|---|---|---|---|
| Ring queue (`livox/comm/ldq.*`) | slots, `rd_idx`, `wr_idx` | push, pop, full/empty tests | one producer and one consumer thread, no lock |
| Frame delivery (`livox/lds.cpp`, `lddc.cpp`, `comm/semaphore.*`, `driver_node.cpp`) | queues per lidar, semaphore count, `request_exit_` | `PushLidarData`, `StorageImuData`, `Distribute*Data`, `~DriverNode` | SDK threads, poll threads, destructor |
| Configuration handshake (`livox/call_back/*`, `lds_lidar.cpp`, `comm/cache_index.cpp`) | `set_bits`, `connect_state`, handle table | `LidarInfoChangeCallback`, `Set*Callback` | Livox SDK (asynchronous commands with time-outs) |
| Configuration file (`livox/parse_cfg_file/*`, `lds_lidar.cpp`) | the device table it fills | parse, convert to the device's bytes, enter lidars | handshake |
| Frame assembly (`livox/comm/pub_handler.*`) | raw packet queue, points and lidars per lidar, time of the last publication | `OnLivoxLidarPointCloudCallback`, `RawDataProcess`, `CheckTimer` | SDK thread, `PubHandler` thread |
| Chassis (`src/car_driver/chassis_driver`) | `ready_`, last command and its time | timers `controlLoop`, `statusLoop`, `cmdVelCallback`, `transactExpect` | the real-time core, over a file descriptor: one reply line per command |
| FAST-LIO front end (`src/car_slam/fast_lio/src/laserMapping.cpp`, `IMU_Processing.hpp`) | lidar, time and IMU buffers, `lidar_pushed` | sensor callbacks, `sync_packages`, the timer that consumes a package | driver topics |
| Preprocessing (`fast_lio/src/preprocess.cpp`) | the lines and clouds of one scan | a handler per kind of lidar, `give_feature` | driver topics; the front end |
| Point map (`fast_lio/include/ikd-Tree`) | k-d tree with lazy marks; the subtree being rebuilt, the log of operations, three mutexes and a counter | build, add, delete, search; the rebuild thread | front end, OpenMP search threads |
| Local map (`laserMapping.cpp`) | the box of the map around the lidar | `lasermap_fov_segment` | point map |
| Pose graph (`src/car_slam/pgo`) | `cloud_buffer`, `last_message_time`, `m_key_poses`, `m_cache_pairs`, `m_history_pairs`, graph, offset | `syncCB`, `timerCB`, `saveMapsCB` | FAST-LIO topics; the map directory |
| Map refinement (`src/car_slam/hba`) | poses and clouds of a loaded map, `m_do_optimize`, the windows of each level | `refineMapCB`, `savePosesCB`, `mainCB` | the map directory written by the pose graph, another process |
| Localiser (`src/car_slam/localizer`) | loaded map, initial guess, offset, `localize_success` | `syncCB`, `timerCB`, `relocCB`, `relocCheckCB` | FAST-LIO topics, services; the map file |
| ICP registration (`src/car_slam/icp_registration`) | map, last cloud, `is_ready_`, map-to-odom transform | startup timer, `initialPose`, TF thread | patrol, navigation |
| Patrol (`src/car_slam/nav2_patrol_pkg`) | `goal_sent_` flag, waypoint list; per waypoint the outcome of an action | localisation callback, goal response, result, `processAtWaypoint` | ICP registration, Nav2 |
| Launch files, scripts, tools | - | start the above | not modelled |

What is hard to get right, and hard to test, is the concurrency of the driver (SDK threads, a
frame-assembling thread and two poll threads share queues without locks), the protocols with
devices that answer late, twice or not at all (Livox SDK, RPMsg), the buffers that pair two
sensor streams by time stamp, and the point map, which a second thread rebuilds while it is changed and searched.

What makes each of them correct:

- ring queue: frames leave in the order they came, none is torn, lost or delivered twice, also when the
  32-bit indices wrap;
- frame delivery: no offered frame is slept on, a full queue is emptied again, the node can be destroyed;
- configuration: the device table holds what the file says last of each lidar; a lidar samples only with its options
  acknowledged, and in the end it does;
- frame assembly: every point goes into one frame, frames are as long as the interval says;
- chassis: the core is not driven before it is configured and started, a lost link is reported, the car stops when steering
  falls silent or the node ends;
- FAST-LIO front end: a scan meets its own time stamp and exactly its IMU samples, and is registered at
  most once, in order;
- preprocessing: points get the times they were measured at, features stand for the planes they were found in, and which lines
  are read beyond their end;
- point map: it holds the points added and not deleted, whatever is still marked, logged or being rebuilt; searches find
  what is nearest; no guarded search is in a tree that is deleted; a rebuild ends;
- local map: it holds what is around the lidar, and nothing the lidar can see is deleted;
- pose graph: the optimiser is given every pose, odometry step and loop once, loops are really loops;
- map refinement: a cloud meets its own pose, whatever state the directory is in; factors join poses that exist;
- localiser: "valid" means an alignment in the map of the last request, and such an answer comes in the end;
- registration and patrol: the transform that is broadcast follows the localisation, and in the end a goal is sent, once, of a
  robot that was localised.

## 2. Modules

One module per component; a constant is a parameter of the code (queue size, window size, number of
attempts) or a bound that is named as one in its comment. Definitions have the source's names where there
is one. Definitions with a suffix (`QueueIsFull_offByOne`) that are marked "Mutant" are variants with a
plausible bug, used to see that a property fails when the code is wrong; nothing else uses them.

| Module | Models | State and code | Actions and code |
|---|---|---|---|
| `BoundedFifo` | what the ring promises: a bounded FIFO that refuses when full | `queue` | `Push`, `Refuse`, `Pop` |
| `LidarQueue` | `comm/ldq.cpp` and its use in `Lds::PushLidarData`, one step per access to shared memory | `rd_idx`, `wr_idx`, `storage_packet`; the locals of a push and of a pop in progress | `PushBegin`, `PushRefused`, `PushStore`, `PushPublish`; `PopBegin`, `QueuePrePop`, `QueuePopUpdate`, `PopReturns` |
| `FrameDelivery` | semaphore, poll thread and `~DriverNode`; the point-cloud machine or the IMU machine, by the value of `stream` | `count`, `connect_state`, `queued`; program counters `producer`, `poller`, `visiting`; `node` for the destructor | `Push`..`Signal` are `PushLidarData` and `StorageImuData` line by line, `PollTop`..`TestExit` the poll loop, `RequestExit`, `SetExitSignal`, `Join` the destructor |
| `LidarConfig` | `ParseCfgFile`, `LivoxLidarConfigParser`, `LdsLidar::InitLivoxLidar` | none: operators on a document | used by `LidarSetup!Init` and by its properties `EntryIsInForce`, `FileIsSent` |
| `LidarSetup` | `LivoxLidarCallback` and the device behind the SDK | `set_bits`, `connect_state`, `registered` (device table), `commands` (asynchronous calls outstanding); `applied`, `normal` belong to the device | `InfoChangeKnown/Unknown`; `Acknowledged`, `TimedOut`, `Refused` are the outcomes in the `Set...Callback`s; `CarryOut`, `Restart` are the device |
| `FrameAssembly` (`FrameInit`, `FrameNext`, `FrameSpec`, since it runs beside others) | `PubHandler`, `LidarPubHandler` | `raw_packet_queue`, `points_clouds`, `points`, `is_timestamp_sync`, `last_pub_time` | `Packet` (SDK thread), `Process` and `CheckTimer...` (processing thread), `Uninit`; `Tick`, `ClockChanges` are the environment |
| `ChassisLink` | `ChassisNode`, the RPMsg endpoint, the real-time core | `ready` (`ready_`), the transaction under way (`request`, `step`, `tries`, `candidates`), lines in both directions; `applied`, `speed` belong to the core | `CmdVel`, `Bootstrap`, `Control`, `StatusLoop`, `Destroy` start the callbacks; `WriteCommand`, `WriteFails`, `ReadReply`, `ReadTimesOut` are `transactExpect`; `Execute`, `Refuse`, `CoreRestarts`, `CmdExpires` are the environment |
| `FastLioSync` | the sensor callbacks, `sync_packages`, `ImuProcess::Process`, the timer of `laserMapping.cpp` | the three buffers, `lidar_pushed`, `Measures` (`lidar`, `lidar_beg_time`, `imu`), `init_iter_num`, `feats_undistort` | `LidarCallback`, `ImuCallback`, `TimerCallback` |
| `Preprocess` | `preprocess.cpp` | `scan`, `pl_surf`, `pl_buff`; `types` is `give_feature` at work on a line | `Filter`, `Sort` are `process`; `GiveFeature`..`Output` are the loops of `give_feature`, an iteration each |
| `IkdTree` | the tree as one thread sees it | `tree`, a record per node with the fields of `KD_TREE_NODE` | one per operation of the interface, the recursive functions of the code as recursive operators |
| `PointMap` | what FAST-LIO expects of its map: points, changed by one caller when nobody reads, and read by many | `points`, `reading` | `Add`, `Delete`, `Begin`, `End`; `Lose` is an operation that was logged too late, or done to a tree that had left its place |
| `IkdRebuild` | `multi_thread_rebuild` against main thread and searches | `Rebuild_Ptr`, `rebuild_flag`, `Rebuild_Logger`, the mutexes, `search_mutex_counter`; trees as bags of points, `freed` | `Main...`: the main thread; `Search...`: a thread of `h_share_model`; `Rebuild...`: the rebuild thread |
| `LocalMap` | `lasermap_fov_segment` | `pos_LiD`, `LocalMap_Points`, the points in the map | `Scan` |
| `PoseGraph` | `PGONode`, `SimplePGO` | as in the code; `isam2` is what the optimiser was given | `SyncCB`, `TimerNoKeyPose`, `TimerKeyPose` (the last one is `addKeyPose`, `searchForLoopPairs`, `smoothAndUpdate` in a row, as `timerCB` calls them) |
| `MapRefinement` | `saveMapsCB` and `HBANode`, two processes that share a directory | `patches`, `poses_txt`, `map_pcd` are the files; `m_poses`, `m_clouds`, `m_do_optimize` are HBA's | `SaveMaps` and the steps `RemovePatches`..`SaveMap`; `RefineMap`, `MainCB`, `SavePoses`; `PgoRestarts` kills the writer anywhere |
| `Localizer` | `LocalizerNode`, `ICPLocalizer` | `service_received`, `localize_success`, `initial_guess`, `last_offset`, the map loaded | one per callback and outcome |
| `MapDirectory` | `MapRefinement` and `Localizer` over one directory | `reader`: which of the two is started | those of both |
| `PatrolMission` | `IcpNode` (two threads), `PatrolSender`, `WaitAtWaypoint` composed over the topic and the transform they share | `is_ready`, `map_to_odom`, `tf`, `goal_sent`, and where each of them is | one per callback or thread step; `Nav2...` and the wait server are the environment |
| `SequenceSelection` | loops that go through a sequence and pass over elements, as a function of the sequence and a set | none: the operator `Select` | used by `LidarConfig`, `Preprocess` and `PoseGraph`, and in the proofs of `FrameAssembly` |
| `LidarDriver_proofs`, `LidarSetup_proofs`, `FrameAssembly_proofs`, `ChassisLink_proofs`, `ScanToMap_proofs`, `MapDirectory_proofs`, `IkdRebuild_proofs`, `SequenceSelection_proofs` | theorems, see section 6 | | |

The modules of the driver compose by their interfaces: `FrameAssembly` produces the frames, `LidarQueue` is
the queue they go through (one producer, one consumer), and `FrameDelivery` uses the queue as a counter, which
is what `RefinesFifo` and `IndicesInStep` justify: its `queued` is `QueueUsedSize`. `LidarSetup` sets the
`connect_state` that `FrameDelivery` reads, as `StartSampling`. `PoseGraph` and `MapRefinement` share
the key poses: of these `MapRefinement` needs the number only. `PatrolMission` composes three nodes, `MapDirectory` the
writer of the map directory with each of its two readers. `IkdRebuild` implements `PointMap` and uses of `IkdTree` that a tree is the bag of its
valid points, which `BoxesAgree` justifies, and an addition with downsampling is in it a box search, a deletion and an
addition, as `AddDownsampled` is; `LocalMap` deletes boxes from that map.

`MC_LidarDriver`, `MC_Car`, `MC_ScanToMap` and `MC_PointMap` check several modules in one run without composing them (`MC_ScanToMap` five: frames,
preprocessing, buffers, local map, graph): a variable `part`, which
never changes, says which of them runs, and the others keep their initial state. What a module takes from a neighbour
is any value in it. `MC_LidarSetup` and `MC_FastLioSync` only give constants their values.

### Atomicity

An action is as much of the code as no other thread or process can see the middle of. Nodes that are spun by
one thread (`ChassisNode`, `PGONode`, `HBANode`, `LocalizerNode`, `PatrolSender`, FAST-LIO) have one action per callback,
except where a callback waits for somebody else (`transactExpect`, `send_goal`) or writes files another process
reads. The driver's threads share memory without locks: there an action is one access to shared memory.
The ikd-Tree has mutexes: there an action is what happens under one, or one access to shared memory outside of
them. Callbacks of the Livox SDK hold `config_mutex_` while they change bits, so each is one action.

### Memory order

`rd_idx` and `wr_idx` are `volatile`, which orders nothing between processors. Both consequences are
modelled. In `LidarQueue`, `Reorder` lets the slot and the index of one operation take effect in either order;
the theorem `IndicesStayInStep` holds for both values, `SlotsExclusive` and `RingIsFifo` for `Reorder = FALSE`
only, which is what the x86-64 and the usual compiler give and what an ARM processor does not promise. In
`FrameDelivery`, `late_stores` keeps the new `wr_idx` in a store buffer: the poll thread may then consume the
wake-up, find the queue empty and go to sleep on a frame. `NoLostWakeup` is therefore stated for stores in
order; that the next frame repairs the loss is in `FullQueueDrains`, which is checked for both.

## 3. Runs

| Run | Checks | Distinct states |
|---|---|---|
| `lidar_driver` | the queue: two slots, indices modulo 8, three frames, so that it is full and empty at every position and the indices wrap repeatedly; no two threads are ever in one slot, indices stay in step, and it implements `BoundedFifo`. The delivery: two lidars, queues of two, both streams, stores in order and late; one wake-up outstanding at most, none lost, a full queue drains, the destructor returns | 94 465 |
| `setup` | two lidars, one place in the device table, two options, eight files (none, wrong type, empty, an entry without options, with some, with a value that does not fit, two entries for a lidar and one without address, two lidars), each lidar announced twice, with a restart in between: published with its entry in force, and in the end | 87 359 |
| `car` | the link: one configuration command and START, two PING attempts, two lines in each direction, two replies looked at, one restart of the core. The mission: two waypoints, three localisations, Nav2 coming up at any time; the patrol starts, and once | 135 402 |
| `scan_to_map` | frames: two lidars, synchronised or not, one change of clock, one packet lost per lidar, two packets to the millisecond, an interval of two and a half milliseconds, of which the code keeps two for its grid, two frames and more long. Preprocessing: scans of two points with all that filters look at, of four points with all turns of two lines, of eight points near or not for the features. Buffers: five scans, steady clocks (3 or 4 apart, samples 1 apart, scans 2 or 3 long) and clocks that jump both ways. Local map: two axes, a box five times the range, every way of the lidar. Graph: five key poses, two positions, two drifts, any order of time stamps, garbage in `last_message_time` | 2 663 087 |
| `refine` | three key poses, two runs of the writer, maps loaded again up to six poses (two levels of windows), every intermediate state of the directory; two requests to the localiser, in each of these states | 1 138 291 |
| `point_map` | the tree: a cloud of four points on a grid of three by two, every sequence of three operations, a subtree of more than four nodes rebuilt when out of balance. The rebuild: two points, three operations of the main thread, two searches at a time, rebuilds of the root and of the son, pointers that are read before the trees are exchanged and used after it; the whole implements `PointMap` | 175 514 |
| `setup_file`, `lio_loopback`, `patrol_wait`, `refine_empty`, `ikd_log`, `ikd_marks` | one property each that a README, a comment, a message or an assertion of the code states and the code does not keep: section 5 | - |

What each property says is in the comment above it. The least obvious ones:

- `SettledMeansApplied` (`LidarSetup`) relates the driver's bits to the device's own options: late answers
  of the time before a restart clear bits set after it, so a lidar may be sampling with options it has forgotten,
  but not once the commands of the new round are through.
- `ExitStops` (`ChassisLink`) holds with any number of replies lost: it rests on the order of the lines
  in the endpoint, not on an answer.
- `SyncedFramesRegular` (`FrameAssembly`) is about four roundings at once (interval to milliseconds, millisecond of the time stamp,
  multiple of the interval, tolerance of one millisecond): none of them may skip the end of a frame or repeat it. The code keeps
  the interval twice, with its fraction of a millisecond for the length of a frame and without it for the grid frames end on
  (`Interval`, `IntervalMs`), so frames are as long as a step of the grid: 33 ms at 30 Hz.
- `UnsyncedFramesCut` (`FrameAssembly`) compares the points of one lidar's frame with those left in another one's cloud: the
  processing thread may be behind, and one lidar's packet closes the frame of all.
- `DrivenOnlyConfigured` (`ChassisLink`) takes START for a part of the configuration like any other; only the STOP of the
  destructor takes it back, and the speed the core had may outlast it.
- `RegisteredOnce` and `PackageComplete` (`FastLioSync`) hold on steady clocks; that no `front()` of an empty deque
  is read holds on clocks that jump, too: TLC would stop at it.
- `EntryIsInForce` (`LidarSetup`) goes from the file to what the device acknowledged, over everything the driver does between. It
  speaks of the bytes the parser keeps; that these are the numbers in the file is `FileIsSent`, which fails (section 5).
- `BoxesAgree` (`IkdTree`) compares a tree full of marks that were not passed down with the plain bag of points; it
  is what the lazy scheme promises. `CountersRight` says that the counters come out right once the marks are passed down.
- `NearestAgree` compares the pruned search and its heap with sorting all distances.
- `RebuildInvisible` (`IkdRebuild`) holds at every step of the rebuild thread, not only between rebuilds, but for the
  operations of `ikd_log` and what is done, as in `ikd_marks`, to the tree that has just been exchanged.
- `RefinesMap` (`IkdRebuild`) maps what the main thread and the searches have before them, in whichever tree they are, to one
  set of points that does not change while somebody reads it; no step of the rebuild thread is a step of `PointMap`, but for `Lose`.
- `SearchedTreesLive` rests on the counter that goes to -1; it is stated for guarded searches (`exposed` is
  FALSE), from when they enter a tree to when they leave it. Not guarded are a box search of a root that is being rebuilt and a
  search that enters with the pointer from before the exchange; and the ranges of a son are read before it is entered, by
  every nearest search (section 5).
- `TimesFollowRotation` (`Preprocess`) compares times unwrapped from directions with how far the lidar had
  turned, which the program does not know.
- `MapIsLocal` (`LocalMap`) holds whichever way the lidar goes, along several axes at once too.
- `ValidMeansLocalized` (`MapDirectory`) holds while the map file is being written, or half-written for good.
- `LoopsApart` and `GraphComplete` (`PoseGraph`) relate three members (`m_cache_pairs`,
  `m_history_pairs`, the graph) over several timer callbacks.
- `PairsMatch` (`MapRefinement`) holds in every state a killed `PGONode` can leave behind, because a patch is
  written before its line and the lines are removed before new patches are written.
- `StaysInside` (`Preprocess`; with `PlanesRepresented` it is the property `FeaturesRight` of the run) says which lines make `give_feature` leave its arrays: those of which nothing is in view, and those
  whose last point is. A last point inside the blind range is a sentinel for every group, which nothing in the code mentions.
- `PatrolOnce` (`PatrolMission`) relates five flags of two nodes: the message that sets the goal off may be older than a
  localisation that has begun again, and the flag against sending twice is taken back when connecting fails.
- `PatrolStarts` (`PatrolMission`): the flag and the transform are sent by one thread but set by another, so
  a goal may be sent before the localised transform is broadcast; in the end there are both.

### Why the bounds are enough

Two lidars are the least at which one can be served while the other waits, and nothing in the code compares
more than two. A queue of two has a state that is neither empty nor full. `IdxMod = 8` makes each index wrap
several times within the state space, in every combination with the queue's fill. A configuration command
before START shows each of the two failing while the other one succeeds. The real `MaxCandidates` is 4, `MaxChannel` is the endpoint's
buffer: a stale reply has to be readable, skipped, and too much, which two of each give; with so short
a channel `drainReplies` always empties it (the limit of 32 reads is in the model). Loops need `MinPoses`
key poses: 10 in the code, 3 in the run, with five poses for a second loop after the first. Six poses in
windows of three with stride two are the least with a second level whose last window is short. The theorems of
section 6 need none of these bounds.

An interval of five ticks of half a millisecond is the shortest with a grid of more than one millisecond and a fraction that
is dropped; ticks 0 to 8 hold two frames, and of the first one the other packet of the
millisecond it ends in, which may not end another.

Two points and two searches are the least at which a deletion can take a part of the map and one search can leave while
another one stays. Three operations are a deletion that marks, one that comes upon the mark, and one after a rebuild.

`CHECK_DEADLOCK FALSE` is in the configurations of systems that stop: bounded sensors (`scan_to_map`), a
directory nobody writes any more (`refine`), a mission that ends or a node that is destroyed (`car`), a lidar that
samples (`setup`). The driver's threads never stop by themselves, and the threads of the point map must not, so `lidar_driver`
and `point_map` check deadlock; in the latter the end of the process, and leaving the single-threaded tree alone, are steps.

## 4. Fairness

- `lidar_driver`, the delivery: weak fairness of the producer, the poll thread, the store buffer and the destructor (threads run), and
  of the sensors (a lidar sends all the time). Leaving the inner publishing loop needs that publishing is faster
  than the sensor, stated as the premise `RoundsEnd` of the two liveness properties. Silent sensors make
  `~DriverNode` wait for ever: that is the code, and listed as a hazard.
- `setup`: the device carries commands out, and a command that is sent again and again is acknowledged
  in the end (strong fairness), since the SDK answers and does not time out for ever; the discovery message of a lidar
  that is on is delivered.
- `car`, the link: the executor runs timers that keep coming due (strong fairness of `Bootstrap` and `Control`, which the
  other callbacks disable for a while), a transaction ends because the number of reads is bounded, and the core works off
  its lines. `SilenceStops` also assumes that the link works in the end (`LinkWorks`); `ExitStops` does not.
- `car`, the mission: the broadcasting thread, the sender's callbacks and the last step of a successful localisation.
  Nothing is assumed of Nav2, of the sensors or of the operator; `PatrolStarts` has its premise in the formula.

- `refine`: scans reach the localiser (weak fairness of `SyncCB`), and among the alignments tried again and again one
  succeeds (strong fairness of `AlignmentSucceeds`): the robot is, or comes back to, where the guess says. Nothing is assumed of
  PGONode, of HBANode, or of the requests.
- `point_map`: the three kinds of threads run (weak fairness of each). That the main thread calls another operation is
  not assumed; it calls finitely many (`MaxOps`), without which a main thread that logs faster than the rebuild
  thread replays could keep it busy for ever.

The other runs check safety only.

## 5. Disagreements found

- **`setup_file`** (`parse_livox_lidar_cfg.cpp:88`): options are sent to "set the lidar according to the user-defined config"
  (`livox_lidar_callback.cpp:54`), and the README of the driver allows blind distances of 50 to 200 cm
  (`src/car_driver/livox_ros_driver2/README.md:200`). They are cast to `int8_t`: from 128 on a negative number is sent, -56 for 200.
- **`lio_loopback`** (`laserMapping.cpp:301`): "lidar loop back, clear buffer" clears `lidar_buffer` but not
  `time_buffer`. From then on every scan is processed with the begin time of an older one.
- **`patrol_wait`** (`ArrivalAction.cpp:97`): a wait that is aborted or cancelled completes its future; the result code
  is not read, and the plugin reports success although its log message for the failing case names exactly this.
- **`refine_empty`** (`hba_node.cpp:130`): `refine_map` answers "load poses success!" for an empty
  `poses.txt`, and the timer calls `optimize()` on no poses, which `hba.cpp:147` asserts never to happen. A save
  without patches into a directory with patches leaves such a file, and so does a save that is cut off.
- **`ikd_log`** (`ikd_Tree.cpp:352`): `rebuild_flag` is lowered after `working_flag_mutex` is released. A main thread that waited
  for the mutex logs its operation for a rebuild that is over; the next rebuild finds the log not empty, prints "ERROR!!!"
  as for something that cannot be, and replays the operation a second time.
- **`ikd_marks`** (`ikd_Tree.cpp:1370`, `:1413`): operations during a rebuild are to be made up for ("Rebuild and update missed
  operations", `:279`), but `Push_Down` compares a son with `*Rebuild_Ptr` by two reads without a mutex. If the trees are exchanged between
  them, the mark goes, unlogged, to the tree that has left its place, and the points that it deleted are found again.

Behaviour that no text of the repository contradicts, but that modelling or the models show:

- FAST-LIO: with gaps between the IMU samples a package can be without one, and the cloud of the scan before is then
  registered again under the new time (`IMU_Processing.hpp:344`).
- Chassis: the late `OK` of an abandoned SET completes a newer transaction (`chassis_node.cpp:379`), because a reply
  is tied to its command by a substring only.
- Lidar options: one refused with a status other than time-out leaves its lidar silent for good; an entry of
  the file with an address and nothing else leaves it silent too, because the work mode is set after the last option.
- Lidars of no file: the second time one is announced, after a restart, it has a place in the device table, with zeros for
  options, and zeros are sent to it (`livox_lidar_callback.cpp:43-57`). `FileIsSent` forbids this too; the run shows the blind distance.
- Configuration file: an option of 255 becomes -1, "not given" (`parse_livox_lidar_cfg.cpp:78`, `:83`, `:88`).
- Map refinement: a second `refine_map` appends to the first map.
- Localiser: the result of reading the map is not looked at (`icp_localizer.cpp:19`): a half-written file is answered with
  success and never localised in. The guess of a request is tried again, unchanged, while the robot moves: the statement
  that would drop it is a comment (`localizer_node.cpp:128`). `localize_success` stays true when later
  alignments fail. `map_cloud` shows the new map while the transform still is of the old one.
- Point map, rebuild: a box search does not ask whether the root itself is being rebuilt (`ikd_Tree.cpp:1246`), and the addition
  with downsampling does one, so it can walk nodes that are deleted under it. A nearest search follows the pointers to both
  sons for their ranges (`:1097-1098`) before it asks whether one of them is being rebuilt and before it is counted; when the
  trees are exchanged in between, it reads deleted nodes. The tests of `*Rebuild_Ptr` against a son
  read two pointers that are exchanged one after the other; between them an old tree can be entered, or changed. A subtree all
  of whose points are deleted before it is copied gives an empty tree whose counters are read (`:332`). All of these are in
  the model: `exposed` and `Torn` for the searches and the changes, `push_test` for `Push_Down`, `ranges` for the reads before
  the test, `RebuildCrashes` for the last; `SearchedTreesLive` is stated for guarded searches, `RebuildInvisible` and
  `RefinesMap` up to what is logged too late or done to the tree just exchanged, and `RebuildEnds` counts a crash as an end.
- Point map, unused operations: `Add_Point_Boxes` restores points outside of its box, and hides restored ones behind ranges
  that are too small; `Delete_Points` may look on the wrong side for a point that shares a coordinate with its father.
- Preprocessing: in `avia_handler` the blind range is tested with the last of three alternatives only; the surface rest at the
  end of a line is dropped; `disA` is set twice and `disB` never (`preprocess.cpp:14-15`); points that jitter backwards
  gain a turn; ring numbers are used without a test (`:525`), a line of near points only runs off its end
  (`:602`), and so does a plane that ends with the line (`:632`).
- Local map: with `cube_side_length` at most three times `det_range`, as in `config/avia.yaml` (1000 and 450), the lidar is always
  too near to a side, and the box jumps to and fro. `LocalMapAssumption` excludes it; the files the car uses have 1000 and 100.

## 6. Proofs

TLAPS proves the theorems below for every value of the constants that the named assumptions of the modules allow
(`SizeAssumption`, `FrameAssumption`, `DeliveryAssumption`, `SetupAssumption`, `AssemblyAssumption`, `LinkAssumption`,
`SyncAssumption`, `PreprocessAssumption`, `LocalMapAssumption`, `GraphAssumption`, `RebuildAssumption`, `RefinementAssumption`, `LocalizerAssumption`). TLC evaluates
them with the values of the runs. One hypothesis more, `SamplesOften`, is that of three theorems about FAST-LIO; it is explained there.

| Theorem | States |
|---|---|
| `LidarDriver_proofs!TypeCorrect` | `Spec => []TypeOK` |
| `LidarDriver_proofs!IndicesStayInStep` | `Spec => []IndicesInStep`, for both access orders |
| `LidarDriver_proofs!SlotsExclusive` | `~Reorder` implies `Spec => []SlotExclusive` |
| `LidarDriver_proofs!RingIsFifo` | `~Reorder` implies `Spec => Fifo!Spec`: the ring refines the bounded FIFO |
| `LidarDriver_proofs!OneWakeup` | `Delivery!Spec => []AtMostOneWakeup`, for both memory orders |
| `LidarDriver_proofs!WakeupsSuffice` | `Delivery!Spec => []NoLostWakeup` |
| `LidarDriver_proofs!DeliveryTypes` | `Delivery!Spec => []Delivery!TypeOK`: in particular no queue holds more than its size |
| `LidarSetup_proofs!SetupSafe` | `Spec => []SetupInv`: the types, the table, and of every lidar what is sent, carried out and acknowledged |
| `LidarSetup_proofs!PublishedAsConfigured` | `Spec => []EntryIsInForce`: published only with the options of the last entry acknowledged, as the bytes the parser keeps, for every configuration file |
| `LidarSetup_proofs!SettledIsApplied` | `Spec => []SettledMeansApplied` |
| `FrameAssembly_proofs!PointsPublishedOnce` | `FrameSpec => []EveryPointOnce` |
| `FrameAssembly_proofs!FramesCutTogether` | `FrameSpec => []UnsyncedFramesCut`, for any backlog, loss and number of lidars |
| `FrameAssembly_proofs!SyncedFrames` | `FrameSpec => []SyncedFramesRegular`, for any interval, a whole number of milliseconds or not |
| `ChassisLink_proofs!LinkSafe` | `Spec => [](TypeOK /\ RequestInv)` |
| `ChassisLink_proofs!ConfiguredBeforeDriven` | `Spec => []DrivenOnlyConfigured`, START included, for any list of configuration commands |
| `ChassisLink_proofs!LossReported` | `Spec => []LossIsReported` |
| `ChassisLink_proofs!OnePatrol` | `Patrol!Spec => []PatrolOnce`, for any number of waypoints and localisations |
| `ScanToMap_proofs!ScansKeepTheirTime` | `Spec => []ScanHasItsTime` |
| `ScanToMap_proofs!PackagesAreComplete` | `SamplesOften` implies `Spec => []PackageComplete` |
| `ScanToMap_proofs!ScansRegisteredOnce` | `SamplesOften` implies `Spec => []RegisteredOnce` |
| `ScanToMap_proofs!SamplesCarryOn` | `SamplesOften` and samples one apart imply `Spec => SamplesContiguous` |
| `ScanToMap_proofs!MapStaysLocal` | `LocalMap!Spec => MapIsLocal`, for any number of axes |
| `ScanToMap_proofs!LoopsKeepApart` | `Graph!Spec => []LoopsApart` |
| `ScanToMap_proofs!GraphIsComplete` | `Graph!Spec => []GraphComplete` |
| `ScanToMap_proofs!TimesFollow` | `Pre!Spec => []TimesFollowRotation`, for every scan and number of lines |
| `ScanToMap_proofs!FeaturesAreRight` | `Pre!Spec => []FeaturesRight`: `PlanesRepresented` and `StaysInside`, whatever the tests of planes and edges say |
| `MapDirectory_proofs!LoadedPairsMatch` | `Spec => []PairsMatch`, for any number of runs and kills of the writer |
| `MapDirectory_proofs!RefinementHangsTogether` | `Spec => []RefinedTogether`, for any number of poses, window and stride |
| `MapDirectory_proofs!DirectoryRefined` | `AllSpec => Spec`: with the localiser beside it, the directory still is that of the writer and HBA |
| `MapDirectory_proofs!ValidIsLocalized` | `AllSpec => []ValidMeansLocalized` |
| `IkdRebuild_proofs!SearchedLive` | `Spec => []SearchedTreesLive`: guarded searches, for any number of them, points and operations |
| `IkdRebuild_proofs!NeverSeen` | `Spec => []RebuildInvisible`, at every step of the rebuild thread, up to what is logged too late or done to the tree just exchanged |
| `IkdRebuild_proofs!MapRefined` | `Spec => RefinesMap`: the trees and their rebuild thread implement the set of points of `PointMap`, as guarded searches see it |

*The ring.* `IndicesInStep` says that `wr_idx - rd_idx` modulo the width is at most the queue size. It
is not inductive alone, because a push that has passed the test for "full" will add one without looking again:
`IndexInv` adds types and the fact that a slot computed at the start of an operation still is the current one (only
its own thread moves its index). The lemmas `DivMod`, `ModDistinct`, `ModShift` carry the arithmetic: entries less than the queue size
apart are in different slots, and wrapping by a multiple of the size moves no slot, which is why
`IdxMod % QueueSize = 0` is assumed (`2^32` and a power of two). `DataInv` adds, for accesses in order, that
each unread slot holds a frame and that a pop between its two accesses has copied the oldest one. Under it a
push maps to `Push` at the moment the index is published, a pop to `Pop` when `rd_idx` moves, a refused push to `Refuse`, and every
other step to a stutter.

*The wake-ups.* The producer reads `count_` without the mutex, so "count is zero" may be old when it
signals. `WakeupCount` (the count is zero whenever the producer is about to signal, because nobody else raises it) is enough for
`AtMostOneWakeup`. `NoLostWakeup` needs `WakeupInv`: each frame a sampling lidar has
been offered is accounted for by a wake-up that is there or about to be given, by a producer that has yet to look, by the round
under way when it has not passed that lidar, or by the exit flag. Each disjunct is handed over to another one by some step, and the
proof has one step per action that shows which.

*The handshake.* `SetupInv` has the types, `TableInv` (the device table is the one the file gives, and a lidar of the file it
had no room for will never get a place) and one `LidarInv` per lidar: what is not acknowledged is marked in `set_bits`, a sampling lidar has all its options
acknowledged, and, if none was refused, each option is in force or its command of this announcement is still to be carried
out (`OnItsWay`). Commands of the time before a restart are told apart by their round. Since a step concerns one lidar,
`Elsewhere` disposes of all the others. That the table holds the *last* entry of each lidar that got a place is `TablesHold`,
an induction over the entries of the file in which an entry may find the table full; with `SentInv` (a lidar is sent, and
acknowledges, no option that the table does not configure for it) it is what `EntryIsInForce` needs.

*The frames.* `EveryPointOnce` follows from `OnceInv`: of each lidar the published points, those of its cloud and those queued, one behind
the other, are `1 .. n`. The queue is shared by all lidars, so "those queued" is a selection (`Select`), and what a packet
of one lidar does to the selection of another is `SelectAppend` and `SelectTail`. `UnsyncedFramesCut` is a part of
`CutInv`: without synchronised clocks the points of the queue are in the order of their time stamps, none is older than one in a
cloud (`CutPacket`, `CutProcess`), and a frame takes all clouds (`CutCheck`), so what it leaves is not older than what it takes.
`SyncedFramesRegular` needs `SyncInv`: with
synchronised clocks and no packet lost, each point bears the time of its number (`StampedAll`), the last frame
ended where one may and of the points since then only one that has just arrived may end the next (`Framed`), and the flag that
decides how frames end is up while there is anything to decide (`FlagInv`). The roundings are `Lengths` (the grid is at most the interval and
less than a millisecond shorter), `EndsAt` and `NextEnd`: from an end on, the next packet at which the test of the code
succeeds is the one a step of the grid later, although the test compares with the interval less its tolerance.

*The chassis link.* `RequestInv` says which command may be under way in which state of the node, and with which
counts. `DrivenInv` is what `DrivenOnlyConfigured` lacks to be inductive: as long as the core has not restarted, a configuration command
whose reply is on its way is in force, a node that is ready has had the replies to all of them (or, while it configures, to those
before the one under way), and a speed is on its way, or driven at, only after that. START is in force in the
sense of `InForce`: carried out and not taken back, which only the STOP of a node that leaves does, with no speed behind it
(`StopInv`, `StopStep`, `InForceStays`). The replies matter because an old one may complete a
newer transaction. A transaction ends in success or failure and starts the next one or none; `GoesOn` collects what follows
once, for the replies, the time-outs and the failing writes. `ReportInv` ties the last report to the command under way.

*The mission.* `PatrolOnce` needs to know where a goal can come from. `ReadyInv`: whoever says "ready", the flag, the message under way, the
localiser about to say it, or the sender that has heard it, says so after a localisation, and the transform never goes back
to the initial one. `SentInv`: `goal_sent_` is up from the message that sets the goal off until connecting fails, there is no goal
before it, and no second connection after it.

*FAST-LIO's buffers.* `ScanHasItsTime` needs no more than steady clocks: `ScanInv` says that the two buffers hold the newest scans, in order,
each with its own stamp, and that a scan that waits for its samples is the one at their head. The other three properties are false when the lidar can
overtake its samples: a package may then be without one, and the cloud of the scan before is registered again. What the sensors must
keep for it not to happen is `SamplesOften`: from the end of a scan to that of the next takes longer than from sample to sample, as it
does when scans are the driver's frames of 100 ms (`publish_freq` is 10 in `msg_MID360_launch.py`) and the IMU, as any that odometry is
made with, samples many times in a scan; the values of the run satisfy it. Under it `EarlyInv` is inductive: the next sample, in the buffer or
to come, is older than the next end of a scan, so that a package always takes one.

*The preprocessing.* The directions of two points of a line determine how far it turned between them up to whole turns; `TurnFound` is the arithmetic by
which the code finds how many, given the time of the last point. What the loop knows of a line after each point is `LineKnown`, an
induction over the scan: the direction of the line's first point, and a last time that is right as long as no gap hides a turn.
`Clockwise`, in the assumption, takes nothing from the scans that may arrive: it relates `turned`, which the program does not have,
to the directions it has. `PlanesRepresented` has two halves. `PutOut` is an induction over a line: after each point the groups put out so far and the run at work cover
each plane point behind `head` once (`Grouped`), and the run is shorter than `point_filter_num`. `FeatureInv` says why no point in the blind
range is in a group: at every step of `give_feature` a point that has the type of a plane is beyond it (`Working`), which for `FindPlanes` is
`JudgedInView`, a fact about where `plane_judge` stops. A line that made the code read beyond its end (`Outside`) stays there.
`StaysInside` comes from the same lemma about the steps (`WorkStep`): `OverrunInView` shows that a plane judged to go on behind the line
has all points of the line from its second group on in it, the last one included.

*The local map.* `MapIsLocal` is about one scan; that it holds of every scan rests on `LocalMapInv`: between scans the lidar is
farther than `DET_RANGE` from every side of the box. `ShiftKeeps` shows that a scan preserves this along each axis: the lidar
comes half a range nearer at most, the box moves by half a range at least (`MovDist`) and by less than would bring the other
side into sight, which is where `cube_len > 3 * DET_RANGE` is needed. `SlabsAreFar` then places each point of the old box
in the new one or in a slab out of sight.

*The pose graph.* `LoopsApart` needs that key poses are in the order of their times, whatever garbage `last_message_time` starts with (`OrderInv`),
and so are the messages in the buffer, and that loops are between key poses there are (`LoopsInv`);
ISAM2 may move every pose, but not its time (`EstimatesKeepTimes`). `GraphComplete` is inductive with these: `NewFactors`
says what each kind of factor looks like after the factors of one callback are appended to those given before.

*The map directory.* `PairsMatch` holds in every state a killed writer leaves behind, by `FilesInv`: each line of `poses.txt` is of the run
that wrote the patch of its number, if that patch is there (`Agree`), which the order of the writer's steps keeps, with `SaveInv` for what is true at each of them.
`RefinedTogether` is arithmetic over the levels of windows: `WindowsCover` (the windows of a level cover its poses), `StartsCount`,
`SizesValues`, `DistancesValues` (what the levels have, by induction), `HierarchyInside` (no level reaches beyond the last pose) and `FactorsJoin`. `LocalizedInv`
says of the localiser's guess and offset which request and which map they come from while its two flags are set; it does not depend
on the state of the directory, which is why a file that is being written cannot break it. `DirectoryRefined` is what carries the theorems about `Spec` over to `AllSpec`.

*The rebuild.* `SearchedTreesLive` is `LiveInv`: which mutexes the rebuild thread holds, what `Rebuild_Ptr` and `rebuild_flag`
are, follows from where it is (`PointerInv`); `search_mutex_counter` is the number of searches that count themselves, or -1 and
there are none (`CounterInv`), which is why waiting for 0 before setting it is enough; a freed tree is older than the one that is
being replaced (`TreesInv`); a search that holds a pointer it has read, or its ranges, past an exchange is past the only one
there is while it searches (`SearchInv`); and a guarded walk of the main thread is in the tree there is, because it holds `search_flag_mutex`
or because nothing was being rebuilt when it began, in which case nothing is until it ends (`WalkInv`; only the main thread asks
for rebuilds). `RebuildInvisible` needs `InvisibleInv`: with the operations logged so far, the new tree becomes what it is to
replace (`ReplayInv`). `Replays` says so with a function from the places of the log to bags, since a fold over the log would need
an induction for every step; the log grows at one end (`ReplaysLogged`) and is worked off at the other (`ReplaysRun`), and
each operation of the main thread, at the root or below, either is logged or finds no copy (`PlaceInv`: what the thread saw of
`Rebuild_Ptr` is still true, or the pointer has become NULL since; without a mutex it works where nothing is rebuilt, or right after an
exchange). Which of these a test of two pointers ends in is `SonTested`; a change made to the tree that has been exchanged sets
`stale`, of which nothing more is claimed.

*The map as one.* `MapRefined` maps `points` to what the caller finds (`Visible`) and `reading` to what each guarded search has before it
(`Finds`): all of `Visible` from the root, the tree's own bag in a tree that has left its place, and an empty thing in one that is freed.
`LiveInv` excludes the last one, `InvisibleInv` says that the rebuild changes nothing in `Visible`. New is `GuardInv`: a box search on
its guarded way is below a root that has passed its marks on and is not being rebuilt itself;
so what it walks is what the caller finds, from the beginning (`FoundFacts`) to the end, whatever is exchanged meanwhile. The
operations of the main thread are `Add` and `Delete` at a moment when nobody has anything before him (`Alone`, `MapChanges`), searches
`Begin` and `End` (`MapReads`), an operation that is logged too late or done to the tree just exchanged is `Lose`
(`MapLoses`), and every other step stutters (`MapStays`); a lemma for
each of the three kinds of threads goes through its steps (`MainMaps`, `SearcherMaps`, `RebuilderMaps`).

*Sequences.* The library states induction and recursion for an operator, which the provers cannot be given. `SequenceSelection_proofs`
states them for sets and functions: `Induction` (a set with 0 and with each number the next), `Recursion` (a function
given by a first value and a step exists), `Division`; and what `Select` returns for the empty sequence, after `Append`, and of a tail.
Recursive definitions that are proved about are recursive functions for that reason (`Kept`, `Tables`, `Levels`, `Known`, `Outputs`).

## 7. Model-checked only, and not modelled

Model-checked, not proved: all liveness (`FullQueueDrains`, `ExitCompletes`, `EventuallySampling`, `SilenceStops`,
`ExitStops`, `PatrolStarts`, `RelocalizationEnds`, `RebuildEnds`), which is out of the
prover's reach; the properties of `IkdTree` (`BoxesAgree`, `NearestAgree`, `CountersRight`, `CellKeepsNearest`), whose
operators are recursive over trees, as is the code.

Abstracted in the modules: point coordinates (small grids, or what the tests of the code tell apart), velocities (zero or not),
poses (places on a line and a drift, or where they come from), the results of ICP, of the Kalman filter, of ISAM2 and of the
bundle adjustment (any outcome that the code's tests tell apart), message construction, logging, markers. Removing a
directory is one step. Of the trees in `IkdRebuild` the points are kept: the counters along the path from a rebuilt
subtree to the root are not, nor the updates of the ancestors' counters by the rebuild thread (`ikd_Tree.cpp:336-346`) and by
`Update` and `Criterion_Check` of the main thread after its unlock (`:842`, `:1050`, `:1347`, `:1611`): the state `criterion`
keeps the tree they look at, and any outcome of them is possible. `Rebuild_Ptr` is tested and then dereferenced (`:1103`); as the
package is built with optimisation (`fast_lio/CMakeLists.txt`), this is one load. A box search of a root that is being
rebuilt may pass marks on; this changes nothing of what is found and is left out.

Not modelled:

- the Kalman filter and its measurement model, HBA's local bundle adjustment, the candidate poses of the ICP
  registration: real-valued arithmetic that TLC cannot evaluate, without state of its own beyond an estimate;
- which points of a scan go into the map (`map_incremental`): any choice in `LocalMap` and `IkdTree`;
- extrinsic parameters of the lidars, IMU packets in the frame assembly: passed through;
- `Points_deleted` of the ikd-Tree: its only reader throws it away (`laserMapping.cpp:228`);
- the message format in which `PublishPclMsg` returns without taking a frame from the queue (ROS 2, `lddc.cpp:207-217`), so that the loop
  around it (`:122-133`) never ends: `Publish` always takes one;
- what a process does after `ikd_Tree.cpp:332` read a null pointer: in `RebuildCrashes` it ends. A build that drops this load, whose
  value is not needed, goes on with an empty tree and a log that was not worked off;
- files written in part: a patch (`pgo_node.cpp:272`) is there or not, and a line of `poses.txt` (`hba_node.cpp:25` reads it) is whole;
  the map file of the localiser may be half-written;
- launch files, scripts, plots, third-party and vendored code.

## 8. Plan

Written in this order: the ring with its abstract FIFO and proofs; delivery and wake-ups; configuration handshake; chassis link;
FAST-LIO synchronisation; patrol; frame assembly; pose graph; map directory and refinement; localiser; configuration file;
point map and its rebuild; preprocessing; local map; the abstract map. What could follow:

- an abstract request-reply link, implemented by `ChassisLink` up to stale replies; that a reply need not be that of its
  command limits what such a specification can promise, and what the car needs of it is in `DrivenOnlyConfigured` and `LossIsReported`;
- `IkdTree` with its nodes in a table instead of in each other, so that its operations become recursive functions and can be proved about.

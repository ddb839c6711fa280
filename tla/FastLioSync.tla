----------------------------- MODULE FastLioSync -----------------------------
(***************************************************************************)
(* The front end of FAST-LIO (laserMapping.cpp, IMU_Processing.hpp): the   *)
(* callbacks that buffer scans and IMU samples, sync_packages, which pairs *)
(* a scan with the samples of its duration, and the timer callback that    *)
(* initialises the IMU, builds the map and registers scans.                *)
(*                                                                         *)
(* rclcpp::spin runs one callback at a time, so each is one action; what   *)
(* varies is how the two sensors' messages arrive.  A scan is identified   *)
(* by its number, an IMU sample by its time stamp.  Time stamps are        *)
(* naturals.  The time synchronisation options, off by default, are not    *)
(* modelled, nor is what the filter computes.                              *)
(***************************************************************************)
EXTENDS Integers, Sequences

CONSTANTS
  MaxTime,      (* bound: last time stamp                                   *)
  MaxScans,     (* bound: number of scans                                   *)
  LidarSteps,   (* time from one scan to the next, on steady clocks         *)
  ImuSteps,     (* time from one IMU sample to the next, likewise           *)
  LidarJumps,   (* the same on clocks that jump: negative is backwards      *)
  ImuJumps,
  Durations,    (* what a scan's last point, or the mean, gives as length   *)
  InitCount     (* MAX_INI_COUNT                                            *)

ASSUME SyncAssumption ==
  /\ MaxTime \in Nat /\ MaxScans \in Nat /\ InitCount \in Nat
  /\ LidarSteps \subseteq Nat /\ ImuSteps \subseteq Nat /\ Durations \subseteq Nat
  /\ LidarJumps \subseteq Int /\ ImuJumps \subseteq Int

VARIABLES
  steady,                (* do the sensors' clocks keep going? never changes *)
  lidar_buffer,          (* scan numbers                                    *)
  time_buffer,           (* their begin times                               *)
  imu_buffer,            (* time stamps of the samples                      *)
  last_timestamp_lidar, last_timestamp_imu,
  lidar_pushed,          (* has Measures the scan at the head?              *)
  lidar_end_time,
  lidar, lidar_beg_time, imu,      (* Measures                              *)
  flg_first_scan,        (* is the next package the first?                  *)
  init_iter_num,         (* samples seen by IMU_init, 0 once it is done     *)
  feats_undistort,       (* the scan the cloud of that name comes from      *)
  map_built,             (* is there a kd-tree?                             *)
  registered,            (* scans registered so far, with the time of each  *)
  stamps                 (* history: begin time of every scan received      *)

buffers == <<lidar_buffer, time_buffer, imu_buffer, last_timestamp_lidar, last_timestamp_imu>>
measures == <<lidar_pushed, lidar_end_time, lidar, lidar_beg_time, imu>>
mapping == <<flg_first_scan, init_iter_num, feats_undistort, map_built, registered>>
vars == <<steady, buffers, measures, mapping, stamps>>

NoScan == 0
Scans == 1 .. MaxScans

Init ==
  /\ steady \in BOOLEAN
  /\ lidar_buffer = <<>> /\ time_buffer = <<>> /\ imu_buffer = <<>>
  /\ last_timestamp_lidar = 0 /\ last_timestamp_imu = 0
  /\ lidar_pushed = FALSE /\ lidar_end_time = 0
  /\ lidar = NoScan /\ lidar_beg_time = 0 /\ imu = <<>>
  /\ flg_first_scan = TRUE /\ init_iter_num = 1
  /\ feats_undistort = NoScan /\ map_built = FALSE
  /\ registered = <<>>
  /\ stamps = <<>>

-------------------------------------------------------------------------------
(* livox_pcl_cbk and standard_pcl_cbk.  A step back in time clears          *)
(* lidar_buffer, and nothing else.                                          *)
LidarCallback(cur_time) ==
  /\ Len(stamps) < MaxScans
  /\ LET loop_back == stamps # <<>> /\ cur_time < last_timestamp_lidar
     IN lidar_buffer' = Append(IF loop_back THEN <<>> ELSE lidar_buffer, Len(stamps) + 1)
  /\ time_buffer' = Append(time_buffer, cur_time)
  /\ last_timestamp_lidar' = cur_time
  /\ stamps' = Append(stamps, cur_time)
  /\ UNCHANGED <<imu_buffer, last_timestamp_imu, measures, mapping>>

ImuCallback(timestamp) ==
  /\ imu_buffer' = Append(IF timestamp < last_timestamp_imu THEN <<>> ELSE imu_buffer, timestamp)
  /\ last_timestamp_imu' = timestamp
  /\ UNCHANGED <<lidar_buffer, time_buffer, last_timestamp_lidar, measures, mapping, stamps>>

-------------------------------------------------------------------------------
(* sync_packages *)

(* Mutant: it gets the newest scan. *)
TakeScan_newest(d) ==
  IF lidar_pushed
  THEN UNCHANGED <<lidar, lidar_beg_time, lidar_end_time>>
  ELSE /\ lidar' = lidar_buffer[Len(lidar_buffer)]
       /\ lidar_beg_time' = time_buffer[Len(time_buffer)]
       /\ lidar_end_time' = lidar_beg_time' + d

(* if (!lidar_pushed): Measures gets the oldest scan and its time span. *)
TakeScan(d) ==
  IF lidar_pushed
  THEN UNCHANGED <<lidar, lidar_beg_time, lidar_end_time>>
  ELSE /\ lidar' = Head(lidar_buffer)
       /\ lidar_beg_time' = Head(time_buffer)
       /\ lidar_end_time' = Head(time_buffer) + d

(* Mutant: samples are taken up to the first beyond the end, included. *)
Taken_oneMore(end) ==
  CHOOSE n \in 0 .. Len(imu_buffer) :
    /\ \A i \in 1 .. n - 1 : imu_buffer[i] <= end
    /\ n = Len(imu_buffer) \/ (n > 0 /\ imu_buffer[n] > end)

(* How many samples the while loop takes: all those up to the end of the    *)
(* scan.  (The buffer is sorted; of samples that bear the end's own stamp   *)
(* only the first is taken, and none if it is the oldest sample.)           *)
Taken(end) ==
  CHOOSE n \in 0 .. Len(imu_buffer) :
    /\ \A i \in 1 .. n : imu_buffer[i] <= end /\ (i < n => imu_buffer[i] < end)
    /\ n > 0 => imu_buffer[1] < end
    /\ \/ n = Len(imu_buffer)
       \/ n = 0 /\ imu_buffer[1] >= end
       \/ n > 0 /\ (imu_buffer[n] = end \/ imu_buffer[n + 1] > end)

(* Mutant: the first sample of the next scan is lost. *)
PopSamples_skip(n) ==
  /\ imu' = SubSeq(imu_buffer, 1, n)
  /\ imu_buffer' = SubSeq(imu_buffer, n + 2, Len(imu_buffer))

PopSamples(n) ==
  /\ imu' = SubSeq(imu_buffer, 1, n)
  /\ imu_buffer' = SubSeq(imu_buffer, n + 1, Len(imu_buffer))

(* Mutant: lidar_pushed is not reset. *)
PopScan_keepsPushed ==
  /\ lidar_buffer' = Tail(lidar_buffer)
  /\ time_buffer' = Tail(time_buffer)
  /\ lidar_pushed' = TRUE

PopScan ==
  /\ lidar_buffer' = Tail(lidar_buffer)
  /\ time_buffer' = Tail(time_buffer)
  /\ lidar_pushed' = FALSE

(* No package: a buffer is empty, or the samples do not reach the scan's    *)
(* end yet, in which case Measures keeps the scan.                          *)
SyncWaits(d) ==
  /\ lidar_buffer # <<>> /\ imu_buffer # <<>>
  /\ ~lidar_pushed
  /\ TakeScan(d)
  /\ last_timestamp_imu < lidar_end_time'
  /\ lidar_pushed' = TRUE
  /\ UNCHANGED <<buffers, imu, mapping, stamps>>

SyncPackages(d) ==
  /\ lidar_buffer # <<>> /\ imu_buffer # <<>>
  /\ TakeScan(d)
  /\ last_timestamp_imu >= lidar_end_time'
  /\ PopSamples(Taken(lidar_end_time'))
  /\ PopScan
  /\ UNCHANGED <<last_timestamp_lidar, last_timestamp_imu, stamps>>

-------------------------------------------------------------------------------
(* The rest of timer_callback, for the package just made. *)

FirstScan ==
  /\ flg_first_scan
  /\ flg_first_scan' = FALSE
  /\ UNCHANGED <<init_iter_num, feats_undistort, map_built, registered>>

(* feats_undistort holds points: they are the map or are registered in it. *)
UseCloud ==
  IF map_built
  THEN /\ registered' = Append(registered, [scan |-> feats_undistort', beg |-> lidar_beg_time'])
       /\ UNCHANGED map_built
  ELSE map_built' = TRUE /\ UNCHANGED registered

(* Process without samples returns at once; the cloud stays the old one. *)
NoSamples ==
  /\ ~flg_first_scan /\ imu' = <<>>
  /\ UNCHANGED <<flg_first_scan, init_iter_num, feats_undistort>>
  /\ IF feats_undistort = NoScan THEN UNCHANGED <<map_built, registered>> ELSE UseCloud

(* IMU_init, until it has seen more than MAX_INI_COUNT samples; the cloud   *)
(* is still empty, so the scan is skipped.                                  *)
InitImu ==
  /\ ~flg_first_scan /\ imu' # <<>>
  /\ init_iter_num # 0
  /\ init_iter_num' = IF init_iter_num + Len(imu') > InitCount THEN 0
                      ELSE init_iter_num + Len(imu')
  /\ UNCHANGED <<flg_first_scan, feats_undistort, map_built, registered>>

(* UndistortPcl; afterwards the cloud may be empty, or have too few points  *)
(* to build the map or to be registered.                                    *)
Undistort ==
  /\ ~flg_first_scan /\ imu' # <<>>
  /\ init_iter_num = 0
  /\ \/ feats_undistort' = lidar' /\ (UseCloud \/ UNCHANGED <<map_built, registered>>)
     \/ feats_undistort' = NoScan /\ UNCHANGED <<map_built, registered>>
  /\ UNCHANGED <<flg_first_scan, init_iter_num>>

TimerCallback(d) ==
  \/ SyncWaits(d)
  \/ SyncPackages(d) /\ (FirstScan \/ NoSamples \/ InitImu \/ Undistort)

Next ==
  /\ \/ \E dt \in IF steady THEN LidarSteps ELSE LidarJumps :
          last_timestamp_lidar + dt \in 0 .. MaxTime /\ LidarCallback(last_timestamp_lidar + dt)
     \/ \E dt \in IF steady THEN ImuSteps ELSE ImuJumps :
          last_timestamp_imu + dt \in 0 .. MaxTime /\ ImuCallback(last_timestamp_imu + dt)
     \/ \E d \in Durations : TimerCallback(d)
  /\ UNCHANGED steady

Spec == Init /\ [][Next]_vars

-------------------------------------------------------------------------------
TypeOK ==
  /\ steady \in BOOLEAN
  /\ lidar_buffer \in Seq(Scans) /\ time_buffer \in Seq(0 .. MaxTime)
  /\ imu_buffer \in Seq(0 .. MaxTime)
  /\ last_timestamp_lidar \in 0 .. MaxTime /\ last_timestamp_imu \in 0 .. MaxTime
  /\ lidar_pushed \in BOOLEAN /\ lidar_end_time \in Nat
  /\ lidar \in Scans \cup {NoScan} /\ lidar_beg_time \in 0 .. MaxTime
  /\ imu \in Seq(0 .. MaxTime)
  /\ flg_first_scan \in BOOLEAN /\ init_iter_num \in 0 .. InitCount + 1
  /\ feats_undistort \in Scans \cup {NoScan} /\ map_built \in BOOLEAN
  /\ registered \in Seq([scan : Scans, beg : 0 .. MaxTime])
  /\ stamps \in Seq(0 .. MaxTime)

(* Every scan is processed under its own begin time, with the wait for its  *)
(* IMU samples in between, as long as the sensors' clocks are steady.       *)
ScanHasItsTime ==
  steady =>
    /\ lidar # NoScan => lidar_beg_time = stamps[lidar]
    /\ lidar_pushed => lidar_buffer # <<>> /\ Head(lidar_buffer) = lidar

(* "lidar loop back, clear buffer": what is left to be processed after a    *)
(* step back in time are the scans that came since, each with its own time. *)
BuffersMatch ==
  [i \in DOMAIN lidar_buffer |-> stamps[lidar_buffer[i]]] = time_buffer

(* The samples of a package end with its scan: those of later scans stay in *)
(* the buffer, and none of an earlier time is left behind to them.          *)
PackageComplete ==
  steady /\ ~lidar_pushed /\ lidar # NoScan =>
    /\ \A i \in DOMAIN imu : imu[i] <= lidar_end_time
    /\ \A i \in DOMAIN imu_buffer : imu_buffer[i] > lidar_end_time

(* Packages carry on where the last one ended, so that the filter is given  *)
(* every sample once (with a sample at each time stamp).                    *)
SamplesContiguous ==
  [][steady /\ imu' # imu /\ imu # <<>> /\ imu' # <<>> => Head(imu') = imu[Len(imu)] + 1]_vars

(* A scan is registered at most once, after those before it, and under the  *)
(* time it was taken at.                                                    *)
RegisteredOnce ==
  steady => \A i \in DOMAIN registered :
    /\ registered[i].beg = stamps[registered[i].scan]
    /\ \A j \in 1 .. i - 1 : registered[j].scan < registered[i].scan
===============================================================================

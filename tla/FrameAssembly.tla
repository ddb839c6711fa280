---------------------------- MODULE FrameAssembly ----------------------------
(***************************************************************************)
(* PubHandler and LidarPubHandler: packets of the Livox SDK become frames. *)
(* The SDK's thread queues packets, a thread of PubHandler appends their   *)
(* points to the cloud of their lidar and, after each packet, decides      *)
(* whether a frame is due: by the time stamps of the lidar, if its clock   *)
(* is synchronised (PTP, GPS), else by the clock of the host.              *)
(*                                                                         *)
(* is_timestamp_sync_ is one flag for all lidars, set by whichever packet  *)
(* arrived last, so it may say something else of the packet that is        *)
(* processed.  A packet is one point here, of which its number and its     *)
(* time stamp matter.  Time is counted in ticks, some to the millisecond.  *)
(***************************************************************************)
EXTENDS SequenceSelection, FiniteSetsExt

CONSTANTS
  Lidars,
  TicksPerMs,    (* most packets a lidar sends in a millisecond            *)
  Interval,      (* publish_interval_, any number of ticks                 *)
  TimeMod,       (* 2^64 in the code: time stamps are uint64_t             *)
  ClockOffset,   (* between a synchronised clock and the host's            *)
  MaxTick,       (* bound: the host's clock                                *)
  MaxBacklog,    (* bound: length of raw_packet_queue_                     *)
  MaxLost,       (* bound: packets lost                                    *)
  MaxChanges,    (* bound: clocks found or lost                            *)
  NoLidar, NoTime

ASSUME AssemblyAssumption ==
  /\ IsFiniteSet(Lidars) /\ NoLidar \notin Lidars
  /\ TicksPerMs \in Nat \ {0}
  /\ Interval \in Nat /\ Interval >= 2 * TicksPerMs
  /\ ClockOffset \in Nat /\ MaxTick \in Nat \ {0} /\ MaxBacklog \in Nat \ {0}
  /\ MaxLost \in Nat /\ MaxChanges \in Nat
  /\ TimeMod \in Nat /\ TimeMod > MaxTick + ClockOffset
  /\ NoTime \notin Nat

(* publish_interval_ms_ drops what the interval has over whole              *)
(* milliseconds (30 Hz: 33 of 33.3), publish_interval_tolerance_ does not.  *)
IntervalMs == Interval \div TicksPerMs
(* Mutant: without the deviation of one millisecond that is tolerated. *)
Tolerance_none == Interval
Tolerance == Interval - TicksPerMs

Stamps == 0 .. MaxTick + ClockOffset
Point == [nr : 1 .. MaxTick + 1, offset_time : Stamps]

VARIABLES
  now,                 (* the host's clock                                 *)
  synchronised,        (* lidars whose clock is synchronised               *)
  sent,                (* lidars that have sent a packet in this tick      *)
  received,            (* packets received, per lidar                      *)
  raw_packet_queue,    (* packets: a lidar and its point                   *)
  is_timestamp_sync,
  is_quit,
  checking,            (* lidar whose packet was processed, before CheckTimer *)
  points_clouds,       (* per lidar, in its LidarPubHandler                *)
  points,              (* per lidar, the frame it was last published in    *)
  last_pub_time,       (* NoTime until CheckTimer has set it               *)
  published,           (* history: points published so far, per lidar      *)
  frame_count,         (* history: frames it took, 2 or more as 2          *)
  lost,                (* history: ticks a lidar sent nothing in           *)
  changes              (* history: clocks found or lost                    *)

sdkVars == <<now, synchronised, sent, received, is_timestamp_sync>>
handlerVars == <<points_clouds, points, last_pub_time, published, frame_count>>
frameVars == <<sdkVars, raw_packet_queue, is_quit, checking, handlerVars, lost, changes>>

FrameInit ==
  /\ now = 1 /\ sent = {}
  /\ synchronised \in {{}, Lidars} \cup {{l} : l \in Lidars}
  /\ received = [l \in Lidars |-> 0]
  /\ raw_packet_queue = <<>> /\ is_timestamp_sync = FALSE /\ is_quit = FALSE
  /\ checking = NoLidar
  /\ points_clouds = [l \in Lidars |-> <<>>] /\ points = [l \in Lidars |-> <<>>]
  /\ last_pub_time = NoTime
  /\ published = [l \in Lidars |-> <<>>] /\ frame_count = [l \in Lidars |-> 0]
  /\ lost = [l \in Lidars |-> 0] /\ changes = 0

-------------------------------------------------------------------------------
(* The SDK's thread. *)

(* GetEthPacketTimestamp *)
TimeStamp(l) == IF l \in synchronised THEN now + ClockOffset ELSE now

(* OnLivoxLidarPointCloudCallback; Uninit removes the observer first. *)
Packet(l) ==
  /\ ~is_quit
  /\ l \notin sent
  /\ Len(raw_packet_queue) < MaxBacklog
  /\ sent' = sent \cup {l}
  /\ received' = [received EXCEPT ![l] = @ + 1]
  /\ is_timestamp_sync' = (l \in synchronised)
  /\ raw_packet_queue' = Append(raw_packet_queue,
       [lidar |-> l, point |-> [nr |-> received'[l], offset_time |-> TimeStamp(l)]])
  /\ UNCHANGED <<now, synchronised, is_quit, checking, handlerVars, lost, changes>>

(* Time passes.  A lidar that has not sent has lost a packet, or is off. *)
Tick ==
  /\ ~is_quit
  /\ now < MaxTick
  /\ now' = now + 1
  /\ sent' = {}
  /\ lost' = [l \in Lidars |-> IF l \in sent THEN lost[l] ELSE lost[l] + 1]
  /\ MapThenSumSet(LAMBDA l : lost'[l], Lidars) <= MaxLost
  /\ UNCHANGED <<synchronised, received, raw_packet_queue, is_timestamp_sync, is_quit,
                 checking, handlerVars, changes>>

(* A lidar finds, or loses, its source of time. *)
ClockChanges(l) ==
  /\ ~is_quit
  /\ changes < MaxChanges
  /\ changes' = changes + 1
  /\ synchronised' = (synchronised \cup {l}) \ (synchronised \cap {l})
  /\ UNCHANGED <<now, sent, received, raw_packet_queue, is_timestamp_sync, is_quit,
                 checking, handlerVars, lost>>

-------------------------------------------------------------------------------
(* PubHandler's thread. *)

(* RawDataProcess and PointCloudProcess *)
Process ==
  /\ checking = NoLidar
  /\ ~is_quit
  /\ raw_packet_queue # <<>>
  /\ LET packet == Head(raw_packet_queue)
     IN /\ points_clouds' = [points_clouds EXCEPT ![packet.lidar] = Append(@, packet.point)]
        /\ checking' = packet.lidar
  /\ raw_packet_queue' = Tail(raw_packet_queue)
  /\ UNCHANGED <<sdkVars, is_quit, points, last_pub_time, published, frame_count,
                 lost, changes>>

(* Mutant: points_ is not cleared before it is swapped in. *)
TakeClouds_uncleared(ls) ==
  /\ points' = [l \in Lidars |-> IF l \in ls THEN points_clouds[l] ELSE points[l]]
  /\ points_clouds' = [l \in Lidars |-> IF l \in ls THEN points[l] ELSE points_clouds[l]]

(* points_[id].clear() and GetLidarPointClouds: two vectors are swapped. *)
TakeClouds(ls) ==
  /\ points' = [l \in Lidars |-> IF l \in ls THEN points_clouds[l] ELSE points[l]]
  /\ points_clouds' = [l \in Lidars |-> IF l \in ls THEN <<>> ELSE points_clouds[l]]

(* PublishPointCloud: the frame has the lidars of ls that have points. *)
Publish(ls) ==
  /\ TakeClouds(ls)
  /\ published' = [l \in Lidars |->
       IF l \in ls THEN published[l] \o [i \in DOMAIN points'[l] |-> points'[l][i].nr]
       ELSE published[l]]
  /\ frame_count' = [l \in Lidars |->
       IF l \in ls /\ points_clouds[l] # <<>> /\ frame_count[l] < 2
       THEN frame_count[l] + 1 ELSE frame_count[l]]

BaseTime(l) == points_clouds[l][1].offset_time
RecentTime(l) == points_clouds[l][Len(points_clouds[l])].offset_time

(* Is the last point of the lidar in a millisecond in which frames end, and *)
(* the first far enough back?  The difference is taken in uint64_t.         *)
FrameDue(l) ==
  LET recent_time_ms == RecentTime(l) \div TicksPerMs
  IN /\ recent_time_ms % IntervalMs = 0 /\ recent_time_ms # 0
     /\ (RecentTime(l) - BaseTime(l)) % TimeMod >= Tolerance

CheckTimerSynced ==
  /\ checking # NoLidar
  /\ is_timestamp_sync
  /\ IF FrameDue(checking)
     THEN Publish({checking})
     ELSE UNCHANGED <<points_clouds, points, published, frame_count>>
  /\ checking' = NoLidar
  /\ UNCHANGED <<sdkVars, raw_packet_queue, is_quit, last_pub_time, lost, changes>>

(* Mutant: only the lidar at hand goes into the frame. *)
InFrame_one == {checking}
(* for (auto &process_handler : lidar_process_handlers_) *)
InFrame == Lidars

(* The grid of publication times does not drift with late packets. *)
NextPubTime == last_pub_time + Interval

CheckTimerUnsynced ==
  /\ checking # NoLidar
  /\ ~is_timestamp_sync
  /\ \/ /\ last_pub_time = NoTime
        /\ last_pub_time' = now
        /\ UNCHANGED <<points_clouds, points, published, frame_count>>
     \/ /\ last_pub_time # NoTime /\ now - last_pub_time < Interval
        /\ UNCHANGED handlerVars
     \/ /\ last_pub_time # NoTime /\ now - last_pub_time >= Interval
        /\ last_pub_time' = NextPubTime
        /\ Publish(InFrame)
  /\ checking' = NoLidar
  /\ UNCHANGED <<sdkVars, raw_packet_queue, is_quit, lost, changes>>

(* Uninit: the observer is removed and RequestExit called; the thread ends  *)
(* at the head of its loop, within 500 ms, and leaves the queue as it is.   *)
Uninit ==
  /\ ~is_quit
  /\ is_quit' = TRUE
  /\ UNCHANGED <<sdkVars, raw_packet_queue, checking, handlerVars, lost, changes>>

FrameNext ==
  \/ \E l \in Lidars : Packet(l) \/ ClockChanges(l)
  \/ Tick
  \/ Process \/ CheckTimerSynced \/ CheckTimerUnsynced
  \/ Uninit

FrameSpec == FrameInit /\ [][FrameNext]_frameVars

-------------------------------------------------------------------------------
FrameTypeOK ==
  /\ now \in 1 .. MaxTick
  /\ synchronised \subseteq Lidars /\ sent \subseteq Lidars
  /\ lost \in [Lidars -> 0 .. MaxLost] /\ changes \in 0 .. MaxChanges
  /\ received \in [Lidars -> 0 .. MaxTick]
  /\ raw_packet_queue \in Seq([lidar : Lidars, point : Point])
  /\ Len(raw_packet_queue) <= MaxBacklog
  /\ is_timestamp_sync \in BOOLEAN /\ is_quit \in BOOLEAN
  /\ checking \in Lidars \cup {NoLidar}
  /\ points_clouds \in [Lidars -> Seq(Point)] /\ points \in [Lidars -> Seq(Point)]
  /\ last_pub_time \in 1 .. now \cup {NoTime}
  /\ published \in [Lidars -> Seq(1 .. MaxTick)]
  /\ frame_count \in [Lidars -> 0 .. 2]

(* Every point received is published once and in order, still in its        *)
(* lidar's cloud or still in a queued packet, however the clocks, and with  *)
(* them the two branches of CheckTimer, change.                             *)
EveryPointOnce ==
  \A l \in Lidars :
    LET queued == Select(raw_packet_queue, [lidar : {l}, point : Point])
    IN published[l]
         \o [i \in DOMAIN points_clouds[l] |-> points_clouds[l][i].nr]
         \o [i \in DOMAIN queued |-> queued[i].point.nr]
       = [i \in 1 .. received[l] |-> i]

NeverUnsynced == synchronised = Lidars /\ changes = 0
NeverSynced == synchronised = {} /\ changes = 0

(* Synchronised frames end in milliseconds that are multiples of            *)
(* publish_interval_ms_, so that they come somewhat faster than             *)
(* publish_freq if that is no divisor of 1000.                              *)
Grid == IntervalMs * TicksPerMs

(* With synchronised clocks, a lidar none of whose packets is lost gives a  *)
(* frame in every step of that grid: each but the first, which starts       *)
(* anywhere, has the packets of one step and no more, and of no less than   *)
(* the interval but a millisecond.  The end of one is not missed, and the   *)
(* other packets of the millisecond it ends in make no frame of theirs,     *)
(* whatever fraction of a millisecond the grid drops of the interval.       *)
SyncedFramesRegular ==
  NeverUnsynced => \A l \in Lidars : lost[l] = 0 =>
    /\ frame_count[l] = 2 => Len(points[l]) > Tolerance /\ Len(points[l]) <= Grid
    /\ Len(points_clouds[l]) < 2 * Grid

(* Without synchronised clocks a frame cuts the clouds of all lidars at     *)
(* once: whichever lidar's packet closed it, and however far the processing *)
(* thread is behind, no lidar is left with a point, for a later frame, that *)
(* is older than one of another lidar in the frame.                         *)
UnsyncedFramesCut ==
  NeverSynced => \A l, g \in Lidars :
    \A i \in DOMAIN points[g], j \in DOMAIN points_clouds[l] :
      points[g][i].offset_time <= points_clouds[l][j].offset_time
===============================================================================

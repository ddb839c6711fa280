------------------------------- MODULE PoseGraph -------------------------------
(***************************************************************************)
(* PGONode and SimplePGO: scans with their odometry become key poses, the  *)
(* last key pose is matched with old ones nearby, and gtsam's ISAM2, which *)
(* is external, estimates all of them.  The offset between odometry and    *)
(* map is broadcast as the map-to-odom transform.                          *)
(*                                                                         *)
(* The node is one thread (rclcpp::spin): syncCB and timerCB run one after *)
(* the other.  A pose is a position on a line; a key pose keeps that of    *)
(* the odometry and the difference of its estimate from it, its drift.     *)
(* saveMapsCB is in MapRefinement, with the files it writes.               *)
(***************************************************************************)
EXTENDS SequenceSelection

CONSTANTS
  Positions,     (* what the odometry may say                             *)
  Drifts,        (* what the estimates may differ from it                 *)
  KeyPoseDelta,  (* key_pose_delta_trans, key_pose_delta_deg              *)
  MinPoses,      (* 10 in the code: with fewer, no loop is searched for   *)
  SearchRadius,  (* loop_search_radius                                    *)
  LoopTime,      (* loop_time_tresh                                       *)
  MinDetect,     (* min_loop_detect_duration                              *)
  MaxTime,       (* bound: time stamps                                    *)
  MaxBuffer,     (* bound: length of cloud_buffer                         *)
  MaxPoses       (* bound: key poses                                      *)

GraphAssumption ==
  /\ Positions \subseteq Int /\ Drifts \subseteq Int /\ 0 \in Drifts
  /\ KeyPoseDelta \in Nat /\ SearchRadius \in Nat
  /\ LoopTime \in Nat /\ MinDetect \in Nat
  /\ MinPoses \in Nat /\ MinPoses > 1
  /\ MaxTime \in Nat /\ MaxBuffer \in Nat /\ MaxPoses \in Nat

Times == 0 .. MaxTime
Keys == 0 .. MaxPoses - 1
CloudWithPose == [second : Times, pose : Positions]
KeyPoseWithCloud == [time : Times, local : Positions, drift : Drifts]
LoopPair == [target : Keys, source : Keys]
Factor == [kind : {"prior", "odometry", "loop"}, from : Keys, to : Keys]

VARIABLES
  last_message_time, cloud_buffer,
  m_key_poses,       (* key k is the one at place k + 1                     *)
  m_cache_pairs,     (* loops the graph does not have yet                   *)
  m_history_pairs,   (* all loops                                           *)
  m_initial_values,  (* keys ISAM2 has no value for yet                     *)
  m_graph,           (* factors ISAM2 does not have yet                     *)
  isam2,             (* the keys and the factors it was given, in order     *)
  m_offset           (* m_r_offset, m_t_offset                              *)

graphVars == <<m_key_poses, m_cache_pairs, m_history_pairs, m_initial_values, m_graph,
               isam2, m_offset>>
vars == <<last_message_time, cloud_buffer, graphVars>>

(* Constructor.  Nothing sets last_message_time before syncCB reads it: it *)
(* may be anything.                                                        *)
Init ==
  /\ last_message_time \in Times
  /\ cloud_buffer = <<>>
  /\ m_key_poses = <<>> /\ m_cache_pairs = <<>> /\ m_history_pairs = <<>>
  /\ m_initial_values = <<>> /\ m_graph = <<>>
  /\ isam2 = [keys |-> <<>>, factors |-> <<>>]
  /\ m_offset = 0

Back(seq) == seq[Len(seq)]
Distance(a, b) == IF a > b THEN a - b ELSE b - a

(* A message older than the one before it is dropped. *)
SyncCB(cp) ==
  /\ Len(cloud_buffer) < MaxBuffer
  /\ cp.second >= last_message_time
  /\ last_message_time' = cp.second
  /\ cloud_buffer' = Append(cloud_buffer, cp)
  /\ UNCHANGED graphVars

-------------------------------------------------------------------------------
(* timerCB takes the oldest message and throws the others away. *)

IsKeyPose(cp) ==
  m_key_poses # <<>> => Distance(cp.pose, Back(m_key_poses).local) > KeyPoseDelta

(* One that is no key pose only has the offset broadcast once more. *)
TimerNoKeyPose ==
  /\ cloud_buffer # <<>>
  /\ ~IsKeyPose(Head(cloud_buffer))
  /\ cloud_buffer' = <<>>
  /\ UNCHANGED <<last_message_time, graphVars>>

(* addKeyPose: where the offset puts the pose, and what holds it there. *)
NewKeyPose(cp) == [time |-> cp.second, local |-> cp.pose, drift |-> m_offset]
NewFactor(idx) ==
  IF idx = 0 THEN [kind |-> "prior", from |-> 0, to |-> 0]
  ELSE [kind |-> "odometry", from |-> idx - 1, to |-> idx]

(* Mutant: the pause is counted from the target of the last loop. *)
PauseIsOver_target(key_poses) ==
  MinDetect > 0 /\ m_history_pairs # <<>> =>
    Back(key_poses).time - key_poses[Back(m_history_pairs).target + 1].time >= MinDetect

(* From one loop to the next some time must pass. *)
PauseIsOver(key_poses) ==
  MinDetect > 0 /\ m_history_pairs # <<>> =>
    Back(key_poses).time - key_poses[Back(m_history_pairs).source + 1].time >= MinDetect

(* The radius search sorts by distance: the target is the nearest of the   *)
(* poses that are old enough.                                              *)
Targets(key_poses) ==
  LET last == Back(key_poses)
      Far(k) == Distance(key_poses[k + 1].local + key_poses[k + 1].drift,
                         last.local + last.drift)
      near == {k \in 0 .. Len(key_poses) - 2 :
                 /\ Far(k) <= SearchRadius
                 /\ Distance(last.time, key_poses[k + 1].time) > LoopTime}
  IN {k \in near : \A other \in near : Far(k) <= Far(other)}

(* searchForLoopPairs: what it may add to the cache; ICP may accept the     *)
(* match or not.                                                            *)
FoundPairs(key_poses) ==
  {<<>>} \cup
  IF Len(key_poses) >= MinPoses /\ PauseIsOver(key_poses)
  THEN {<<[target |-> k, source |-> Len(key_poses) - 1]>> : k \in Targets(key_poses)}
  ELSE {}

LoopFactors(pairs) ==
  [i \in DOMAIN pairs |-> [kind |-> "loop", from |-> pairs[i].target, to |-> pairs[i].source]]

(* ISAM2.  Odometry alone is fitted exactly, so that the poses stay where   *)
(* they are.  A loop may move all but the first, which the prior holds.     *)
Estimates(key_poses, has_loop) ==
  LET drifts == [DOMAIN key_poses -> Drifts]
      Moved(drift) == [i \in DOMAIN key_poses |-> [key_poses[i] EXCEPT !.drift = drift[i]]]
  IN IF has_loop THEN {Moved(drift) : drift \in {d \in drifts : d[1] = key_poses[1].drift}}
     ELSE {key_poses}

(* Mutant: the loops stay in the cache. *)
CacheAfter_kept(pairs) == pairs
(* std::vector<LoopPair>().swap(m_cache_pairs) *)
CacheAfter(pairs) == <<>>

OffsetOf(key_pose) == key_pose.drift

(* addKeyPose, searchForLoopPairs, smoothAndUpdate *)
TimerKeyPose ==
  /\ cloud_buffer # <<>>
  /\ IsKeyPose(Head(cloud_buffer))
  /\ Len(m_key_poses) < MaxPoses
  /\ LET idx == Len(m_key_poses)
         key_poses == Append(m_key_poses, NewKeyPose(Head(cloud_buffer)))
     IN \E found \in FoundPairs(key_poses) :
          LET pairs == m_cache_pairs \o found
          IN /\ m_history_pairs' = m_history_pairs \o found
             /\ m_cache_pairs' = CacheAfter(pairs)
             /\ isam2' = [keys    |-> isam2.keys \o Append(m_initial_values, idx),
                          factors |-> isam2.factors
                                        \o Append(m_graph, NewFactor(idx)) \o LoopFactors(pairs)]
             /\ m_key_poses' \in Estimates(key_poses, pairs # <<>>)
  /\ m_offset' = OffsetOf(Back(m_key_poses'))
  /\ m_initial_values' = <<>> /\ m_graph' = <<>>
  /\ cloud_buffer' = <<>>
  /\ UNCHANGED last_message_time

Next ==
  \/ \E cp \in CloudWithPose : SyncCB(cp)
  \/ TimerNoKeyPose
  \/ TimerKeyPose

Spec == Init /\ [][Next]_vars

-------------------------------------------------------------------------------
TypeOK ==
  /\ last_message_time \in Times
  /\ cloud_buffer \in Seq(CloudWithPose) /\ Len(cloud_buffer) <= MaxBuffer
  /\ m_key_poses \in Seq(KeyPoseWithCloud) /\ Len(m_key_poses) <= MaxPoses
  /\ m_cache_pairs \in Seq(LoopPair) /\ m_history_pairs \in Seq(LoopPair)
  /\ m_initial_values \in Seq(Keys) /\ m_graph \in Seq(Factor)
  /\ isam2.keys \in Seq(Keys) /\ isam2.factors \in Seq(Factor)
  /\ m_offset \in Drifts

(* Every loop leads from a pose back to one that is really older, found     *)
(* when there were enough poses, and loops do not follow each other too     *)
(* fast: whatever order the messages came in, which of them were thrown     *)
(* away, and where the graph has moved the poses since.                     *)
LoopsApart ==
  LET Time(k) == m_key_poses[k + 1].time
  IN /\ \A i \in DOMAIN m_history_pairs :
          LET pair == m_history_pairs[i]
          IN /\ pair.target < pair.source /\ pair.source + 1 >= MinPoses
             /\ Time(pair.source) - Time(pair.target) > LoopTime
     /\ \A i, j \in DOMAIN m_history_pairs :
          i < j => Time(m_history_pairs[j].source) - Time(m_history_pairs[i].source) >= MinDetect

(* ISAM2 has a value for every key pose, once (it throws when given a key   *)
(* again, and when asked for one it has not), the odometry between each and *)
(* the next, and every loop, once: one given twice would weigh twice.       *)
GraphComplete ==
  LET OfKind(kinds) == Select(isam2.factors, [kind : kinds, from : Keys, to : Keys])
  IN /\ isam2.keys = [i \in DOMAIN m_key_poses |-> i - 1]
     /\ OfKind({"prior", "odometry"}) = [i \in DOMAIN m_key_poses |-> NewFactor(i - 1)]
     /\ OfKind({"loop"}) = LoopFactors(m_history_pairs)
===============================================================================

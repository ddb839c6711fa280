---------------------------- MODULE PatrolMission ----------------------------
(***************************************************************************)
(* From localisation to patrol: IcpNode (a callback thread that localises  *)
(* and a thread that broadcasts), PatrolSender, which waits for the node   *)
(* to be ready and then sends its waypoints once, and WaitAtWaypoint, the  *)
(* plugin Nav2 runs at every waypoint.  Nav2's follow_waypoints and wait   *)
(* servers are external, and so is TF.                                     *)
(***************************************************************************)
EXTENDS Integers

CONSTANTS
  Waypoints,       (* how many waypoints the parameters give              *)
  MaxAlignments    (* bound: how often performLocalization runs           *)

PatrolAssumption == Waypoints \in Nat /\ MaxAlignments \in Nat \ {0}

VARIABLES
  cloud,           (* has cloud_in_ points?                               *)
  is_ready,
  map_to_odom,     (* "initial" or "localized"                            *)
  aligner,         (* where performLocalization is, "idle" if not running *)
  alignments,      (* how often it has started                            *)
  broadcaster,     (* next step of the tf_publisher_thread_               *)
  tf,              (* the map-to-odom transform last broadcast            *)
  ready_msg,       (* /localization_ready not yet taken, "none" if taken  *)
  goal_sent,       (* PatrolSender::goal_sent_                            *)
  sender,          (* "spinning", "connecting" or "down"                  *)
  goals,           (* goals sent to follow_waypoints                      *)
  nav2,            (* is Nav2 up?                                         *)
  mission,         (* the goal in Nav2                                    *)
  waypoint,        (* waypoints reached so far                            *)
  plugin,          (* where processAtWaypoint is, "idle" if not running   *)
  wait_result,     (* how the wait action ended, "none" if it has not     *)
  processed        (* what processAtWaypoint returned last                *)

icpVars == <<cloud, is_ready, map_to_odom, aligner, alignments>>
tfVars == <<broadcaster, tf>>
senderVars == <<goal_sent, sender, goals>>
navVars == <<mission, waypoint, plugin, wait_result, processed>>
vars == <<icpVars, tfVars, ready_msg, senderVars, nav2, navVars>>

Init ==
  /\ cloud = FALSE /\ is_ready = FALSE /\ map_to_odom = "initial"
  /\ aligner = "idle" /\ alignments = 0
  /\ broadcaster = "tf" /\ tf = "none"
  /\ ready_msg = "none"
  /\ goal_sent = FALSE /\ sender = "spinning" /\ goals = 0
  /\ nav2 = FALSE
  /\ mission = "none" /\ waypoint = 0
  /\ plugin = "idle" /\ wait_result = "none" /\ processed = "none"

-------------------------------------------------------------------------------
(* IcpNode.  Its callbacks run one at a time, so no cloud arrives while     *)
(* performLocalization does.                                                *)

(* pointcloudCallback *)
Cloud(points) ==
  /\ aligner = "idle"
  /\ cloud' = points
  /\ UNCHANGED <<is_ready, map_to_odom, aligner, alignments, tfVars, ready_msg,
                 senderVars, nav2, navVars>>

(* startupTimerCallback or initialPoseCallback *)
StartLocalization ==
  /\ aligner = "idle"
  /\ alignments < MaxAlignments
  /\ alignments' = alignments + 1
  /\ is_ready' = FALSE
  /\ aligner' = IF cloud THEN "align" ELSE "idle"
  /\ UNCHANGED <<cloud, map_to_odom, tfVars, ready_msg, senderVars, nav2, navVars>>

(* multiAlignSync does not converge or the laser-to-odom lookup fails. *)
AlignmentFails ==
  /\ aligner = "align"
  /\ aligner' = "idle"
  /\ UNCHANGED <<cloud, is_ready, map_to_odom, alignments, tfVars, ready_msg,
                 senderVars, nav2, navVars>>

UpdateTransform ==
  /\ aligner = "align"
  /\ map_to_odom' = "localized"
  /\ aligner' = "ready"
  /\ UNCHANGED <<cloud, is_ready, alignments, tfVars, ready_msg, senderVars, nav2, navVars>>

SetReady ==
  /\ aligner = "ready"
  /\ is_ready' = TRUE
  /\ aligner' = "idle"
  /\ UNCHANGED <<cloud, map_to_odom, alignments, tfVars, ready_msg, senderVars, nav2, navVars>>

(* Mutant: the transform is broadcast as it was when the thread started. *)
BroadcastTf_static ==
  /\ broadcaster = "tf"
  /\ tf' = IF tf = "none" THEN map_to_odom ELSE tf
  /\ broadcaster' = "ready"
  /\ UNCHANGED <<icpVars, ready_msg, senderVars, nav2, navVars>>

(* The broadcasting thread: the transform under mutex_, then the flag.  The *)
(* reader's queue holds one message.                                        *)
BroadcastTf ==
  /\ broadcaster = "tf"
  /\ tf' = map_to_odom
  /\ broadcaster' = "ready"
  /\ UNCHANGED <<icpVars, ready_msg, senderVars, nav2, navVars>>

PublishReady ==
  /\ broadcaster = "ready"
  /\ ready_msg' = IF is_ready THEN "true" ELSE "false"
  /\ broadcaster' = "tf"
  /\ UNCHANGED <<icpVars, tf, senderVars, nav2, navVars>>

-------------------------------------------------------------------------------
(* PatrolSender.  send_goal blocks its only thread for up to five seconds.  *)

(* Mutant: what set the goal off is not marked as answered.                 *)
LocalizationCallback_unmarked ==
  /\ sender = "spinning"
  /\ ready_msg # "none"
  /\ ready_msg' = "none"
  /\ sender' = IF goal_sent \/ ready_msg = "false" THEN sender
               ELSE IF Waypoints = 0 THEN "down" ELSE "connecting"
  /\ UNCHANGED <<icpVars, tfVars, goal_sent, goals, nav2, navVars>>

(* localization_callback, up to wait_for_action_server *)
LocalizationCallback ==
  /\ sender = "spinning"
  /\ ready_msg # "none"
  /\ ready_msg' = "none"
  /\ IF goal_sent \/ ready_msg = "false"
     THEN UNCHANGED <<goal_sent, sender>>
     ELSE /\ goal_sent' = TRUE
          /\ sender' = IF Waypoints = 0 THEN "down" ELSE "connecting"
  /\ UNCHANGED <<icpVars, tfVars, goals, nav2, navVars>>

SendGoal ==
  /\ sender = "connecting" /\ nav2
  /\ goals' = goals + 1
  /\ sender' = "spinning"
  /\ mission' = "pending"
  /\ UNCHANGED <<icpVars, tfVars, ready_msg, goal_sent, nav2,
                 waypoint, plugin, wait_result, processed>>

(* Mutant: a failed connection is not tried again. *)
ConnectTimesOut_final ==
  /\ sender = "connecting" /\ ~nav2
  /\ sender' = "spinning"
  /\ UNCHANGED <<icpVars, tfVars, ready_msg, goal_sent, goals, nav2, navVars>>

ConnectTimesOut ==
  /\ sender = "connecting" /\ ~nav2
  /\ goal_sent' = FALSE
  /\ sender' = "spinning"
  /\ UNCHANGED <<icpVars, tfVars, ready_msg, goals, nav2, navVars>>

(* goal_response_callback with a refusal, or result_callback: the sender's  *)
(* rclcpp::shutdown.                                                        *)
SenderEnds ==
  /\ sender = "spinning"
  /\ mission \in {"rejected", "succeeded", "aborted"}
  /\ sender' = "down"
  /\ UNCHANGED <<icpVars, tfVars, ready_msg, goal_sent, goals, nav2, navVars>>

-------------------------------------------------------------------------------
(* Nav2, external: it comes up, takes the goal or not, and drives.          *)

Nav2Starts ==
  /\ ~nav2
  /\ nav2' = TRUE
  /\ UNCHANGED <<icpVars, tfVars, ready_msg, senderVars, navVars>>

DecideGoal ==
  /\ mission = "pending"
  /\ mission' \in {"active", "rejected"}
  /\ UNCHANGED <<icpVars, tfVars, ready_msg, senderVars, nav2,
                 waypoint, plugin, wait_result, processed>>

ReachWaypoint ==
  /\ mission = "active" /\ plugin = "idle"
  /\ waypoint < Waypoints
  /\ waypoint' = waypoint + 1
  /\ plugin' = "asking" /\ wait_result' = "none" /\ processed' = "none"
  /\ UNCHANGED <<icpVars, tfVars, ready_msg, senderVars, nav2, mission>>

EndMission ==
  /\ mission = "active" /\ plugin = "idle"
  /\ \/ mission' = "aborted"
     \/ waypoint = Waypoints /\ mission' = "succeeded"
  /\ UNCHANGED <<icpVars, tfVars, ready_msg, senderVars, nav2,
                 waypoint, plugin, wait_result, processed>>

(* The wait server ends the action in any of the ways actions end in. *)
WaitEnds ==
  /\ plugin = "waiting" /\ wait_result = "none"
  /\ wait_result' \in {"succeeded", "aborted", "canceled"}
  /\ UNCHANGED <<icpVars, tfVars, ready_msg, senderVars, nav2, mission, waypoint, plugin, processed>>

-------------------------------------------------------------------------------
(* WaitAtWaypoint::processAtWaypoint *)

(* The wait server is not there, sending fails, or the goal is refused. *)
AskFails ==
  /\ plugin = "asking"
  /\ plugin' = "idle" /\ processed' = "false"
  /\ UNCHANGED <<icpVars, tfVars, ready_msg, senderVars, nav2, mission, waypoint, wait_result>>

AskAccepted ==
  /\ plugin = "asking"
  /\ plugin' = "waiting"
  /\ UNCHANGED <<icpVars, tfVars, ready_msg, senderVars, nav2, mission, waypoint,
                 wait_result, processed>>

(* The future of the result is complete, with whatever result code ...      *)
WaitCompletes ==
  /\ plugin = "waiting" /\ wait_result # "none"
  /\ plugin' = "idle" /\ processed' = "true"
  /\ UNCHANGED <<icpVars, tfVars, ready_msg, senderVars, nav2, mission, waypoint, wait_result>>

(* ... or spinning for it is interrupted. *)
WaitInterrupted ==
  /\ plugin = "waiting" /\ wait_result = "none"
  /\ plugin' = "idle" /\ processed' = "false"
  /\ UNCHANGED <<icpVars, tfVars, ready_msg, senderVars, nav2, mission, waypoint, wait_result>>

Icp ==
  \/ \E points \in BOOLEAN : Cloud(points)
  \/ StartLocalization \/ AlignmentFails \/ UpdateTransform \/ SetReady
Broadcaster == BroadcastTf \/ PublishReady
Sender == LocalizationCallback \/ SendGoal \/ ConnectTimesOut \/ SenderEnds
Nav2 == Nav2Starts \/ DecideGoal \/ ReachWaypoint \/ EndMission \/ WaitEnds
Plugin == AskFails \/ AskAccepted \/ WaitCompletes \/ WaitInterrupted

Next == Icp \/ Broadcaster \/ Sender \/ Nav2 \/ Plugin

Spec == Init /\ [][Next]_vars

(* The broadcasting thread runs at its rate, the sender's executor serves   *)
(* its callbacks; sensors, operator and Nav2 owe nothing.                   *)
Fairness == WF_vars(Broadcaster) /\ WF_vars(Sender) /\ WF_vars(SetReady)

FairSpec == Spec /\ Fairness

-------------------------------------------------------------------------------
TypeOK ==
  /\ cloud \in BOOLEAN /\ is_ready \in BOOLEAN /\ map_to_odom \in {"initial", "localized"}
  /\ aligner \in {"idle", "align", "ready"} /\ alignments \in 0 .. MaxAlignments
  /\ broadcaster \in {"tf", "ready"} /\ tf \in {"none", "initial", "localized"}
  /\ ready_msg \in {"none", "true", "false"}
  /\ goal_sent \in BOOLEAN /\ sender \in {"spinning", "connecting", "down"}
  /\ goals \in 0 .. 1 /\ nav2 \in BOOLEAN
  /\ mission \in {"none", "pending", "active", "rejected", "succeeded", "aborted"}
  /\ waypoint \in 0 .. Waypoints
  /\ plugin \in {"idle", "asking", "waiting"}
  /\ wait_result \in {"none", "succeeded", "aborted", "canceled"}
  /\ processed \in {"none", "true", "false"}

(* A patrol is sent once at most, however many messages say that the robot  *)
(* is ready and however often connecting failed before, and only when a     *)
(* localisation has succeeded, also if the message that set it off is old.  *)
PatrolOnce ==
  /\ goals <= 1 /\ (goals = 1 => map_to_odom = "localized")
  /\ mission = "none" <=> goals = 0

(* Once the robot stays localised and Nav2 is up, the patrol starts, also   *)
(* if earlier attempts to reach Nav2 timed out; and though the goal may be  *)
(* sent before the localised transform has been broadcast (the flag may be  *)
(* published between the two), that follows and is not taken back.          *)
PatrolStarts ==
  (Waypoints > 0 /\ <>[](is_ready /\ nav2)) => <>[](goals > 0 /\ tf = "localized")

(* "The wait failed half-way or was cancelled" is what the plugin logs      *)
(* before it returns false: true should mean that the wait succeeded.       *)
WaitFailureReported == processed = "true" => wait_result = "succeeded"
===============================================================================

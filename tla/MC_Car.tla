-------------------------------- MODULE MC_Car --------------------------------
(* What moves the car: the mission PatrolSender gives to Nav2 and the link    *)
(* over which ChassisNode gives the core its speeds, each by itself; the      *)
(* speeds, which Nav2 makes, ChassisLink takes as any.  One command           *)
(* configures the core and one starts it.                                     *)
EXTENDS ChassisLink

CONSTANTS Waypoints, MaxAlignments

VARIABLES
  part,     \* which of the two; never changes
  cloud, is_ready, map_to_odom, aligner, alignments, broadcaster, tf, ready_msg,
  goal_sent, sender, goals, nav2, mission, waypoint, plugin, wait_result, processed

Patrol == INSTANCE PatrolMission

ASSUME PatrolAssumption == Patrol!PatrolAssumption

patrolVars == <<cloud, is_ready, map_to_odom, aligner, alignments, broadcaster, tf, ready_msg,
                goal_sent, sender, goals, nav2, mission, waypoint, plugin, wait_result, processed>>

MC_Config == <<"MODE", "START">>

Link(A) == part = "link" /\ A
Mission(A) == part = "mission" /\ A

CarInit == Init /\ Patrol!Init /\ part \in {"link", "mission"}

CarNext == \/ Link(Next) /\ UNCHANGED <<part, patrolVars>>
           \/ Mission(Patrol!Next) /\ UNCHANGED <<part, vars>>

\* The fairness of ChassisLink and of PatrolMission.
CarFairness ==
  /\ SF_vars(Link(Bootstrap)) /\ SF_vars(Link(Control))
  /\ WF_vars(Link(Transaction)) /\ WF_vars(Link(Execute))
  /\ WF_patrolVars(Mission(Patrol!Broadcaster)) /\ WF_patrolVars(Mission(Patrol!Sender))
  /\ WF_patrolVars(Mission(Patrol!SetReady))

CarSpec == CarInit /\ [][CarNext]_<<part, vars, patrolVars>> /\ CarFairness

\* The properties of PatrolMission; those of ChassisLink go by their names.
PatrolOnce   == Patrol!PatrolOnce
PatrolStarts == Patrol!PatrolStarts
===============================================================================

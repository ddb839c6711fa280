------------------------------- MODULE Localizer -------------------------------
(***************************************************************************)
(* LocalizerNode: a request loads a map file and gives a first guess, the  *)
(* timer aligns the last scan against that map, and what the robot's pose  *)
(* in the map is follows from the offset of the last alignment that        *)
(* succeeded.  One thread runs all its callbacks.                          *)
(*                                                                         *)
(* Of a pose the model keeps where it comes from: the request whose guess  *)
(* it goes back to, over any number of alignments, and the map it was      *)
(* found in.  ICP is external: against a map with points it converges or   *)
(* does not.                                                               *)
(***************************************************************************)
EXTENDS Integers

CONSTANTS
  MaxRequests,    (* bound: requests that are accepted                     *)
  NoFile, HalfWritten,
  Empty           (* a map without points, which is no value of map_pcd    *)

LocalizerAssumption == MaxRequests \in Nat \ {0}

VARIABLES
  map_pcd,             (* the file: NoFile, HalfWritten or the map in it   *)
  message_received, service_received, localize_success,
  target,              (* m_refine_tgt and m_rough_tgt                     *)
  initial_guess,
  last_offset,         (* map_localmap                                     *)
  broadcast,           (* the transform sent last                          *)
  requests             (* for the properties: requests accepted so far     *)

Identity == [request |-> 0, map |-> Empty]

Init ==
  /\ message_received = FALSE /\ service_received = FALSE /\ localize_success = FALSE
  /\ target = Empty
  /\ initial_guess = 0
  /\ last_offset = Identity /\ broadcast = Identity
  /\ requests = 0

(* syncCB: the scan, its pose and its time are replaced together. *)
SyncCB ==
  /\ message_received' = TRUE
  /\ UNCHANGED <<map_pcd, service_received, localize_success, target, initial_guess,
                 last_offset, broadcast, requests>>

(* What a reader makes of the file.  The result of reader.read is not looked *)
(* at: a file that cannot be read yet gives a map without points.            *)
LoadMap == IF map_pcd = HalfWritten THEN Empty ELSE map_pcd

(* Mutant: the answer of the last localisation is left standing. *)
RelocCB_keeps ==
  /\ map_pcd # NoFile
  /\ requests < MaxRequests
  /\ target' = LoadMap
  /\ requests' = requests + 1
  /\ initial_guess' = requests'
  /\ service_received' = TRUE
  /\ UNCHANGED <<map_pcd, message_received, localize_success, last_offset, broadcast>>

(* relocCB; without the file nothing changes. *)
RelocCB ==
  /\ map_pcd # NoFile
  /\ requests < MaxRequests
  /\ target' = LoadMap
  /\ requests' = requests + 1
  /\ initial_guess' = requests'
  /\ service_received' = TRUE /\ localize_success' = FALSE
  /\ UNCHANGED <<map_pcd, message_received, last_offset, broadcast>>

(* relocCheckCB: code 1 asks for nothing but an answer. *)
Valid(code) == code = 1 \/ localize_success

(* timerCB before the next update is due *)
TimerBroadcasts ==
  /\ message_received
  /\ broadcast' = last_offset
  /\ UNCHANGED <<map_pcd, message_received, service_received, localize_success, target,
                 initial_guess, last_offset, requests>>

(* Where an alignment starts from: the guess of the request for as long as   *)
(* that has not succeeded, however far the robot has moved since, and then   *)
(* the pose that the last offset gives.                                      *)
Guess == IF service_received THEN initial_guess ELSE last_offset.request

(* align against no points fails. *)
MayConverge == target # Empty

AlignmentFails ==
  /\ message_received
  /\ broadcast' = last_offset
  /\ UNCHANGED <<map_pcd, message_received, service_received, localize_success, target,
                 initial_guess, last_offset, requests>>

(* Mutant: the guess is used once only (the statement is there, as a comment). *)
AlignmentSucceeds_once ==
  /\ message_received
  /\ MayConverge
  /\ last_offset' = [request |-> Guess, map |-> target]
  /\ broadcast' = last_offset'
  /\ service_received' = FALSE
  /\ UNCHANGED <<map_pcd, message_received, localize_success, target, initial_guess, requests>>

AlignmentSucceeds ==
  /\ message_received
  /\ MayConverge
  /\ last_offset' = [request |-> Guess, map |-> target]
  /\ broadcast' = last_offset'
  /\ IF ~localize_success /\ service_received
     THEN localize_success' = TRUE /\ service_received' = FALSE
     ELSE UNCHANGED <<localize_success, service_received>>
  /\ UNCHANGED <<map_pcd, message_received, target, initial_guess, requests>>

Callback == SyncCB \/ RelocCB \/ TimerBroadcasts \/ AlignmentFails \/ AlignmentSucceeds
===============================================================================

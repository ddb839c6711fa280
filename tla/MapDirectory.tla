----------------------------- MODULE MapDirectory -----------------------------
(***************************************************************************)
(* Who reads what saveMapsCB writes: HBANode or LocalizerNode, whichever   *)
(* of the two launch files was started beside PGONode.  The localiser is   *)
(* given the map.pcd of the directory.                                     *)
(***************************************************************************)
EXTENDS MapRefinement

CONSTANTS MaxRequests, Empty

VARIABLES
  reader,     (* never changes *)
  message_received, service_received, localize_success, target,
  initial_guess, last_offset, broadcast, requests

Localizer == INSTANCE Localizer

ASSUME LocalizerAssumption == Localizer!LocalizerAssumption

localizerVars == <<message_received, service_received, localize_success, target,
                   initial_guess, last_offset, broadcast, requests>>
allVars == <<vars, localizerVars, reader>>

AllInit == Init /\ Localizer!Init /\ reader \in {"HBANode", "LocalizerNode"}

PgoNode ==
  /\ \/ NewKeyPose \/ PgoRestarts
     \/ \E with_patches \in BOOLEAN : SaveMaps(with_patches)
     \/ Saving
  /\ UNCHANGED <<localizerVars, reader>>

HbaNode ==
  /\ reader = "HBANode"
  /\ RefineMap \/ MainCB \/ SavePoses
  /\ UNCHANGED <<localizerVars, reader>>

OnlyLocalizer == reader = "LocalizerNode" /\ UNCHANGED <<pgoVars, patches, poses_txt, hbaVars, reader>>

LocalizerNode == OnlyLocalizer /\ Localizer!Callback

(* Scans keep coming, and a scan that matches the map is among them: the    *)
(* robot is, or comes back to, where the guess says it is.                  *)
Fairness ==
  /\ WF_allVars(OnlyLocalizer /\ Localizer!SyncCB)
  /\ SF_allVars(OnlyLocalizer /\ Localizer!AlignmentSucceeds)

AllSpec == AllInit /\ [][PgoNode \/ HbaNode \/ LocalizerNode]_allVars /\ Fairness

-------------------------------------------------------------------------------
(* relocalize_check answers "valid" only on an alignment that goes back to  *)
(* the guess of the latest request, in the map that request has loaded, and *)
(* the transform being sent is of that alignment; however often the map is  *)
(* saved, or its writer killed, in between, and whatever alignments failed. *)
ValidMeansLocalized ==
  Localizer!Valid(0) =>
    /\ broadcast = [request |-> requests, map |-> target]
    /\ target # Empty

(* A request that has loaded a map with points ends in "valid", over any    *)
(* number of alignments that fail, unless a later one loads a map without.  *)
RelocalizationEnds ==
  service_received /\ target # Empty ~> Localizer!Valid(0) \/ target = Empty
===============================================================================

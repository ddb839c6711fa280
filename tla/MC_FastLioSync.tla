---------------------------- MODULE MC_FastLioSync ----------------------------
(* A configuration file cannot write a negative step. *)
EXTENDS FastLioSync
MC_LidarJumps == {-3, 2}
MC_ImuJumps == {-2, 3}
===============================================================================

----------------------------- MODULE MapRefinement -----------------------------
(***************************************************************************)
(* The map directory: PGONode's saveMapsCB writes it file by file, HBANode *)
(* loads and refines it.  They are two processes, so HBANode may find a    *)
(* map half written, or left half written by a node that was killed.       *)
(*                                                                         *)
(* A key pose is known by its number and by the run of PGONode it belongs  *)
(* to; its patch, the cloud, by the same two.  Of the optimisation the     *)
(* model has the hierarchy: which poses are joined by factors.  What one   *)
(* handler of HBANode reads is read at once.                               *)
(***************************************************************************)
EXTENDS SequenceSelection, FiniteSets

CONSTANTS
  WindowSize, Stride,   (* window_size, stride                              *)
  MaxPoses,             (* bound: key poses of one run of PGONode           *)
  MaxRuns,              (* bound: runs of PGONode                           *)
  MaxLoaded,            (* bound: poses HBANode has loaded                  *)
  NoFile, HalfWritten

(* Windows overlap, and a single pose does not make m_levels negative. *)
ASSUME RefinementAssumption ==
  /\ Stride \in Nat /\ Stride > 1
  /\ WindowSize \in Nat /\ WindowSize > Stride
  /\ WindowSize ^ 3 < 3 * (Stride ^ 3 - Stride) * Stride ^ 2
  /\ MaxPoses \in Nat \ {0} /\ MaxRuns \in Nat \ {0} /\ MaxLoaded \in Nat \ {0}

Runs == 1 .. MaxRuns
Pose == [patch : 0 .. MaxPoses - 1, run : Runs]

VARIABLES
  run, key_poses,       (* this run of PGONode and how many poses it has    *)
  save,                 (* where saveMapsCB is, "idle" if it is not running *)
  save_patches, i,      (* its request and its loop                         *)
  patches,              (* the directory: the run each patch is of          *)
  poses_txt, map_pcd,
  hba,                  (* is HBANode up?                                   *)
  m_poses, m_clouds, m_do_optimize,
  factors,              (* of the last optimisation                         *)
  refined_txt           (* lines of the file written by savePosesCB         *)

pgoVars == <<run, key_poses, save, save_patches, i>>
fileVars == <<patches, poses_txt, map_pcd>>
hbaVars == <<hba, m_poses, m_clouds, m_do_optimize, factors, refined_txt>>
vars == <<pgoVars, fileVars, hbaVars>>

Init ==
  /\ run = 1 /\ key_poses = 0 /\ save = "idle" /\ save_patches = FALSE /\ i = 0
  /\ patches = NoFile /\ poses_txt = NoFile /\ map_pcd = NoFile
  /\ hba = "up" /\ m_poses = <<>> /\ m_clouds = <<>> /\ m_do_optimize = FALSE
  /\ factors = {} /\ refined_txt = NoFile

-------------------------------------------------------------------------------
(* PGONode.  It is one thread: no key pose is added while it saves. *)

NewKeyPose ==
  /\ save = "idle"
  /\ key_poses < MaxPoses
  /\ key_poses' = key_poses + 1
  /\ UNCHANGED <<run, save, save_patches, i, fileVars, hbaVars>>

(* Killed, at any point, and started again. *)
PgoRestarts ==
  /\ run < MaxRuns
  /\ run' = run + 1
  /\ key_poses' = 0 /\ save' = "idle" /\ save_patches' = FALSE /\ i' = 0
  /\ UNCHANGED <<fileVars, hbaVars>>

(* saveMapsCB, into the one directory *)
SaveMaps(with_patches) ==
  /\ save = "idle"
  /\ key_poses > 0
  /\ save_patches' = with_patches /\ i' = 0
  /\ save' = IF with_patches THEN "remove_patches" ELSE "open_poses"
  /\ UNCHANGED <<run, key_poses, fileVars, hbaVars>>

SaveStep(step, next) == save = step /\ save' = next

RemovePatches ==
  /\ SaveStep("remove_patches", "create_patches")
  /\ patches' = NoFile
  /\ UNCHANGED <<run, key_poses, save_patches, i, poses_txt, map_pcd, hbaVars>>

CreatePatches ==
  /\ SaveStep("create_patches", "remove_poses")
  /\ patches' = <<>>
  /\ UNCHANGED <<run, key_poses, save_patches, i, poses_txt, map_pcd, hbaVars>>

RemovePoses ==
  /\ SaveStep("remove_poses", "open_poses")
  /\ poses_txt' = NoFile
  /\ UNCHANGED <<run, key_poses, save_patches, i, patches, map_pcd, hbaVars>>

(* std::ofstream txt_file(poses_txt_path), whether lines will follow or not *)
OpenPoses ==
  /\ SaveStep("open_poses", IF save_patches THEN "patch" ELSE "map")
  /\ poses_txt' = <<>>
  /\ UNCHANGED <<run, key_poses, save_patches, i, patches, map_pcd, hbaVars>>

SavePatch ==
  /\ SaveStep("patch", "line")
  /\ patches' = [k \in DOMAIN patches \cup {i} |-> IF k = i THEN run ELSE patches[k]]
  /\ UNCHANGED <<run, key_poses, save_patches, i, poses_txt, map_pcd, hbaVars>>

SaveLine ==
  /\ SaveStep("line", IF i + 1 < key_poses THEN "patch" ELSE "map")
  /\ poses_txt' = Append(poses_txt, [patch |-> i, run |-> run])
  /\ i' = i + 1
  /\ UNCHANGED <<run, key_poses, save_patches, patches, map_pcd, hbaVars>>

(* savePCDFileBinary truncates the file, then writes it. *)
OpenMap ==
  /\ SaveStep("map", "write_map")
  /\ map_pcd' = HalfWritten
  /\ UNCHANGED <<run, key_poses, save_patches, i, patches, poses_txt, hbaVars>>

SaveMap ==
  /\ SaveStep("write_map", "idle")
  /\ map_pcd' = [run |-> run, poses |-> key_poses]
  /\ save_patches' = FALSE /\ i' = 0
  /\ UNCHANGED <<run, key_poses, patches, poses_txt, hbaVars>>

Saving ==
  \/ RemovePatches \/ CreatePatches \/ RemovePoses \/ OpenPoses
  \/ SavePatch \/ SaveLine \/ OpenMap \/ SaveMap

-------------------------------------------------------------------------------
(* HBANode.  m_service_mutex makes its handlers exclude each other. *)

(* Mutant: the pose is taken before its patch is looked for. *)
Loadable_all == poses_txt
(* A line whose patch is not there is skipped. *)
HasPatch == {pose \in Pose : pose.patch \in DOMAIN patches}
Loadable == Select(poses_txt, HasPatch)

(* The clouds are those of the patches with the numbers in the lines. *)
Clouds ==
  LET present == Select(poses_txt, HasPatch)
  IN [k \in DOMAIN present |-> [present[k] EXCEPT !.run = patches[present[k].patch]]]

(* refineMapCB.  What was loaded before stays. *)
RefineMap ==
  /\ hba = "up"
  /\ patches # NoFile /\ poses_txt # NoFile
  /\ Len(m_poses) + Len(poses_txt) <= MaxLoaded
  /\ m_poses' = m_poses \o Loadable
  /\ m_clouds' = m_clouds \o Clouds
  /\ m_do_optimize' = TRUE
  /\ UNCHANGED <<pgoVars, fileVars, hba, factors, refined_txt>>

(* calcLevels, for n > 0: 0.5 * log(3 n^2 (s^3 - s) / w^3) / log(s), cut off *)
Levels(n) ==
  LET Reaches(l) == Stride ^ (2 * l) * WindowSize ^ 3 <= 3 * n ^ 2 * (Stride ^ 3 - Stride)
  IN Cardinality({l \in 1 .. n : Reaches(l)})

(* Mutant: only windows that are full. *)
WindowStarts_full(size) ==
  {k \in 0 .. size - 1 : k % Stride = 0 /\ k + WindowSize <= size}

(* constructHierarchy: where the windows over so many clouds start.  The    *)
(* first one that reaches beyond the last cloud is the last one.            *)
WindowStarts(size) ==
  {k \in 0 .. size - 1 :
     k % Stride = 0 /\ (k >= Stride => k - Stride + WindowSize <= size)}

(* updateCloudsAndPose: the clouds of a level are the windows of the one    *)
(* below it.                                                                *)
Sizes(n) ==
  LET size[l \in 0 .. Levels(n)] ==
        IF l = 0 THEN n ELSE Cardinality(WindowStarts(size[l - 1]))
  IN size

(* How many poses apart the clouds of a level are: pow(stride, level). *)
Distances(n) ==
  LET distance[l \in 0 .. Levels(n)] == IF l = 0 THEN 1 ELSE distance[l - 1] * Stride
  IN distance

(* Neighbours in a window. *)
Neighbours(size) ==
  {k \in 0 .. size - 2 : \E start \in WindowStarts(size) : start <= k /\ k + 1 < start + WindowSize}

(* getAllFactors, as numbers of poses *)
AllFactors(n) ==
  UNION {
    LET Scaled(k) == k * Distances(n)[level]
    IN {<<Scaled(k), Scaled(k + 1)>> : k \in Neighbours(Sizes(n)[level])}
    : level \in 0 .. Levels(n) - 1}

(* mainCB.  Without poses the logarithm in calcLevels is that of zero, and  *)
(* as many levels as the conversion makes of it are too many to allocate.   *)
MainCB ==
  /\ hba = "up"
  /\ m_do_optimize
  /\ IF m_poses = <<>>
     THEN hba' = "down" /\ UNCHANGED <<m_do_optimize, factors>>
     ELSE /\ factors' = AllFactors(Len(m_poses))
          /\ m_do_optimize' = FALSE
          /\ UNCHANGED hba
  /\ UNCHANGED <<pgoVars, fileVars, m_poses, m_clouds, refined_txt>>

(* savePosesCB: another file, whose lines do not name the patches *)
SavePoses ==
  /\ hba = "up"
  /\ m_poses # <<>>
  /\ refined_txt' = Len(m_poses)
  /\ UNCHANGED <<pgoVars, fileVars, hba, m_poses, m_clouds, m_do_optimize, factors>>

Next ==
  \/ NewKeyPose \/ PgoRestarts
  \/ \E with_patches \in BOOLEAN : SaveMaps(with_patches)
  \/ Saving
  \/ RefineMap \/ MainCB \/ SavePoses

Spec == Init /\ [][Next]_vars

-------------------------------------------------------------------------------
TypeOK ==
  /\ run \in Runs /\ key_poses \in 0 .. MaxPoses
  /\ save \in {"idle", "remove_patches", "create_patches", "remove_poses", "open_poses",
               "patch", "line", "map", "write_map"}
  /\ save_patches \in BOOLEAN /\ i \in 0 .. MaxPoses
  /\ patches # NoFile =>
       DOMAIN patches \subseteq 0 .. MaxPoses - 1 /\ \A k \in DOMAIN patches : patches[k] \in Runs
  /\ poses_txt # NoFile => poses_txt \in Seq(Pose)
  /\ map_pcd \in {NoFile, HalfWritten} \cup [run : Runs, poses : 1 .. MaxPoses]
  /\ hba \in {"up", "down"} /\ m_do_optimize \in BOOLEAN
  /\ m_poses \in Seq(Pose) /\ m_clouds \in Seq(Pose)
  /\ factors \subseteq (0 .. MaxLoaded - 1) \X (0 .. MaxLoaded - 1)
  /\ refined_txt # NoFile => refined_txt \in 1 .. MaxLoaded

(* A cloud HBANode has loaded is that of the pose at the same place, of the *)
(* same run, although the two come from different files that may be in the  *)
(* middle of being written, left there by a killed node, or of which one    *)
(* was written again without the other.                                     *)
PairsMatch == m_clouds = m_poses

(* What is refined hangs together: the factors of all levels join poses     *)
(* that exist (the optimiser throws otherwise), and once there is a level   *)
(* at all each pose is joined to the next, the last ones too, for which no  *)
(* full window was left.                                                    *)
RefinedTogether ==
  LET n == Len(m_poses)
  IN hba = "up" /\ ~m_do_optimize =>
       /\ factors \subseteq (0 .. n - 1) \X (0 .. n - 1)
       /\ n > 0 /\ Levels(n) > 0 => \A k \in 0 .. n - 2 : <<k, k + 1>> \in factors

(* hba.cpp asserts m_poses.size() > 0 in calcLevels: nobody asks it to      *)
(* optimise an empty map.                                                   *)
PosesToOptimize == hba = "up"
===============================================================================

-------------------------- MODULE MapDirectory_proofs --------------------------
(***************************************************************************)
(* Proofs about the map directory and its two readers: for any number of   *)
(* key poses, of runs of PGONode, of requests, and for every window size   *)
(* and stride of the refinement.                                           *)
(***************************************************************************)
EXTENDS MapDirectory, SequenceSelection_proofs, FiniteSetTheorems

(* The states of the directory patches/, when it is there. *)
PatchFiles == UNION {[D -> Runs] : D \in SUBSET (0 .. MaxPoses - 1)}

(* A patch that is written is added to those that are there. *)
LEMMA PatchAdded ==
  ASSUME NEW f \in PatchFiles, NEW k \in 0 .. MaxPoses - 1, NEW r \in Runs
  PROVE  [q \in DOMAIN f \cup {k} |-> IF q = k THEN r ELSE f[q]] \in PatchFiles
<1> DEFINE g == [q \in DOMAIN f \cup {k} |-> IF q = k THEN r ELSE f[q]]
<1>1. PICK D \in SUBSET (0 .. MaxPoses - 1) : f \in [D -> Runs]  BY DEF PatchFiles
<1>2. g \in [D \cup {k} -> Runs]  BY <1>1
<1>3. D \cup {k} \in SUBSET (0 .. MaxPoses - 1)  OBVIOUS
<1> HIDE DEF g
<1>4. g \in PatchFiles  BY <1>2, <1>3 DEF PatchFiles
<1>5. QED  BY <1>4 DEF g

(* An empty directory has no patches.                                       *)
LEMMA NoPatches == << >> \in PatchFiles /\ DOMAIN << >> = {}
<1>1. << >> \in [{} -> Runs] /\ {} \in SUBSET (0 .. MaxPoses - 1)  OBVIOUS
<1>2. QED  BY <1>1 DEF PatchFiles

(* A line of poses.txt and the patch with its number, if it is there, are   *)
(* of the same run.                                                         *)
Agree(lines, f) ==
  \A k \in 1 .. Len(lines) : lines[k].patch \in DOMAIN f => f[lines[k].patch] = lines[k].run

(* Where saveMapsCB is, in terms of what it has written.  The order of its  *)
(* steps is why the files agree: the old patches go before the first new    *)
(* one, the old lines too, and a patch is there before its line.            *)
BeforeLoop == {"remove_patches", "create_patches", "remove_poses", "open_poses"}
PatchesOnly == {"remove_patches", "create_patches", "remove_poses"}
HasPatches == save \in {"remove_poses", "open_poses", "patch", "line"} /\ save_patches

SaveInv ==
  /\ run \in Runs /\ key_poses \in 0 .. MaxPoses /\ i \in 0 .. MaxPoses
  /\ save \in PatchesOnly \cup {"patch", "line"} => save_patches
  /\ save \in BeforeLoop => i = 0 /\ key_poses > 0
  /\ save \in {"patch", "line"} =>
       /\ i < key_poses
       /\ poses_txt \in Seq(Pose)
       /\ \A k \in 1 .. Len(poses_txt) : poses_txt[k].patch < i /\ poses_txt[k].run = run
  /\ save \in {"patch", "line"} => Agree(poses_txt, patches)
  /\ save = "line" => i \in DOMAIN patches /\ patches[i] = run
  /\ HasPatches => patches \in PatchFiles

FilesInv ==
  /\ patches # NoFile => patches \in PatchFiles
  /\ poses_txt # NoFile => poses_txt \in Seq(Pose)
  /\ patches # NoFile /\ poses_txt # NoFile => Agree(poses_txt, patches)

LoadedInv == m_poses \in Seq(Pose) /\ m_clouds = m_poses

DirectoryInv == SaveInv /\ FilesInv /\ LoadedInv

(* There is no file, and nothing loaded, at the start.                      *)
LEMMA DirectoryInit == Init => DirectoryInv
BY RefinementAssumption
   DEF Init, DirectoryInv, SaveInv, FilesInv, LoadedInv, HasPatches, BeforeLoop, PatchesOnly, Runs

(* The steps of saveMapsCB.                                                 *)
LEMMA SavingStep ==
  ASSUME SaveInv, FilesInv, Saving
  PROVE  SaveInv' /\ FilesInv'
<1> USE RefinementAssumption DEF SaveInv, FilesInv, HasPatches, BeforeLoop, PatchesOnly, SaveStep
<1>1. CASE RemovePatches  BY <1>1 DEF RemovePatches
<1>2. CASE CreatePatches  BY <1>2, NoPatches DEF CreatePatches, Agree
<1>3. CASE RemovePoses  BY <1>3 DEF RemovePoses
<1>4. CASE OpenPoses  BY <1>4 DEF OpenPoses, Agree
<1>5. CASE SavePatch
  <2>1. i \in 0 .. MaxPoses - 1 /\ patches \in PatchFiles /\ run \in Runs  BY <1>5 DEF SavePatch
  <2>2. patches' = [k \in DOMAIN patches \cup {i} |-> IF k = i THEN run ELSE patches[k]]
    BY <1>5 DEF SavePatch
  <2>3. patches' \in PatchFiles  BY <2>1, <2>2, PatchAdded
  <2>4. Agree(poses_txt, patches) /\ UNCHANGED poses_txt  BY <1>5 DEF SavePatch
  <2>5. poses_txt \in Seq(Pose) /\ \A k \in 1 .. Len(poses_txt) : poses_txt[k].patch < i
    BY <1>5 DEF SavePatch
  <2>6. Agree(poses_txt, patches)'
    <3>1. \A k \in 1 .. Len(poses_txt) : poses_txt[k].patch # i  BY <2>1, <2>5
    <3>2. QED  BY <2>2, <2>4, <3>1 DEF Agree
  <2>7. i \in DOMAIN patches' /\ patches'[i] = run  BY <2>2
  <2>8. QED  BY <1>5, <2>3, <2>4, <2>6, <2>7 DEF SavePatch
<1>6. CASE SaveLine
  <2> DEFINE line == [patch |-> i, run |-> run]
  <2>1. line \in Pose /\ poses_txt \in Seq(Pose)  BY <1>6 DEF SaveLine, Pose
  <2>2. /\ poses_txt' \in Seq(Pose) /\ Len(poses_txt') = Len(poses_txt) + 1
        /\ \A k \in 1 .. Len(poses_txt') : poses_txt'[k] = IF k = Len(poses_txt) + 1 THEN line ELSE poses_txt[k]
    <3>1. poses_txt' = Append(poses_txt, line)  BY <1>6 DEF SaveLine
    <3> HIDE DEF line
    <3>2. QED  BY <2>1, <3>1
  <2>3. Agree(poses_txt, patches) /\ patches[i] = run /\ UNCHANGED <<patches, run>>  BY <1>6 DEF SaveLine
  <2>4. \A k \in 1 .. Len(poses_txt) + 1 : k # Len(poses_txt) + 1 => k \in 1 .. Len(poses_txt)
    BY <2>1
  <2>5. Agree(poses_txt, patches)'  BY <2>2, <2>3, <2>4 DEF Agree
  <2>6. \A k \in 1 .. Len(poses_txt') : poses_txt'[k].patch < i' /\ poses_txt'[k].run = run'
    <3>1. i \in Int /\ i' = i + 1 /\ \A k \in 1 .. Len(poses_txt) : poses_txt[k] \in Pose
      BY <1>6, <2>1 DEF SaveLine
    <3>2. \A k \in 1 .. Len(poses_txt) : poses_txt[k].patch < i /\ poses_txt[k].run = run
      BY <1>6 DEF SaveLine
    <3>3. line.patch = i /\ line.run = run  OBVIOUS
    <3>4. \A k \in 1 .. Len(poses_txt) : poses_txt[k].patch \in Int  BY <3>1 DEF Pose
    <3> HIDE DEF line
    <3>5. QED  BY <2>2, <2>3, <2>4, <3>1, <3>2, <3>3, <3>4
  <2>7. QED  BY <1>6, <2>2, <2>3, <2>5, <2>6 DEF SaveLine
<1>7. CASE OpenMap  BY <1>7 DEF OpenMap
<1>8. CASE SaveMap  BY <1>8 DEF SaveMap
<1>9. QED  BY <1>1, <1>2, <1>3, <1>4, <1>5, <1>6, <1>7, <1>8 DEF Saving

(* What refineMapCB loads, when the files agree.                            *)
LEMMA LoadedPairs ==
  ASSUME poses_txt \in Seq(Pose), Agree(poses_txt, patches)
  PROVE  Loadable \in Seq(Pose) /\ Clouds = Loadable
<1> DEFINE E == {poses_txt[k] : k \in 1 .. Len(poses_txt)}
           present == Loadable
<1>1. poses_txt \in Seq(E) /\ E \subseteq Pose  OBVIOUS
<1>2. \A e \in E : e.patch \in DOMAIN patches => patches[e.patch] = e.run  BY DEF Agree
<1> HIDE DEF E
<1>3. present \in Seq(E \cap HasPatch)  BY <1>1, SelectType DEF Loadable
<1>4. Clouds = [k \in DOMAIN present |-> [present[k] EXCEPT !.run = patches[present[k].patch]]]
  BY DEF Clouds, Loadable
<1> HIDE DEF present
<1>5. present \in Seq(Pose)  BY <1>1, <1>3
<1>6. ASSUME NEW k \in DOMAIN present
      PROVE  [present[k] EXCEPT !.run = patches[present[k].patch]] = present[k]
  <2>1. present[k] \in E \cap HasPatch  BY <1>3
  <2>2. present[k] \in Pose /\ patches[present[k].patch] = present[k].run
    BY <1>2, <2>1 DEF HasPatch
  <2>3. QED  BY <2>2 DEF Pose
<1>7. [k \in DOMAIN present |-> present[k]] = present  BY <1>5
<1>8. Clouds = present  BY <1>4, <1>6, <1>7
<1>9. QED  BY <1>5, <1>8 DEF present

(* Every step of the two processes keeps the invariant.                     *)
LEMMA DirectoryStep ==
  ASSUME DirectoryInv, [Next]_vars
  PROVE  DirectoryInv'
<1> USE DEF DirectoryInv
<1>1. CASE NewKeyPose
  BY <1>1, RefinementAssumption
     DEF NewKeyPose, SaveInv, FilesInv, LoadedInv, HasPatches, BeforeLoop, PatchesOnly, fileVars, hbaVars
<1>2. CASE PgoRestarts
  BY <1>2, RefinementAssumption
     DEF PgoRestarts, SaveInv, FilesInv, LoadedInv, HasPatches, BeforeLoop, PatchesOnly, fileVars, hbaVars, Runs
<1>3. ASSUME NEW with_patches \in BOOLEAN, SaveMaps(with_patches)  PROVE DirectoryInv'
  BY <1>3, RefinementAssumption
     DEF SaveMaps, SaveInv, FilesInv, LoadedInv, HasPatches, BeforeLoop, PatchesOnly, fileVars, hbaVars
<1>4. CASE Saving
  <2>1. SaveInv' /\ FilesInv'  BY <1>4, SavingStep
  <2>2. UNCHANGED hbaVars
    BY <1>4 DEF Saving, RemovePatches, CreatePatches, RemovePoses, OpenPoses, SavePatch, SaveLine, OpenMap, SaveMap
  <2>3. QED  BY <2>1, <2>2 DEF LoadedInv, hbaVars
<1>5. CASE RefineMap
  <2>1. Loadable \in Seq(Pose) /\ Clouds = Loadable  BY <1>5, LoadedPairs DEF RefineMap, FilesInv
  <2>2. m_poses' = m_poses \o Loadable /\ m_clouds' = m_clouds \o Clouds  BY <1>5 DEF RefineMap
  <2>3. LoadedInv'  BY <2>1, <2>2 DEF LoadedInv
  <2>4. QED  BY <1>5, <2>3 DEF RefineMap, SaveInv, FilesInv, HasPatches, pgoVars, fileVars
<1>6. CASE MainCB
  BY <1>6 DEF MainCB, SaveInv, FilesInv, LoadedInv, HasPatches, pgoVars, fileVars
<1>7. CASE SavePoses
  BY <1>7 DEF SavePoses, SaveInv, FilesInv, LoadedInv, HasPatches, pgoVars, fileVars
<1>8. CASE UNCHANGED vars
  BY <1>8 DEF vars, SaveInv, FilesInv, LoadedInv, HasPatches, pgoVars, fileVars, hbaVars
<1>9. QED  BY <1>1, <1>2, <1>3, <1>4, <1>5, <1>6, <1>7, <1>8 DEF Next

-------------------------------------------------------------------------------
(* The hierarchy of the refinement. *)

(* The stride is at least two, and a window longer.                         *)
LEMMA StrideBounds ==
  Stride \in Nat \ {0} /\ Stride > 1 /\ WindowSize \in Nat /\ WindowSize > Stride
BY RefinementAssumption

(* A multiple of the stride leaves no rest.                                 *)
LEMMA Multiples ==
  ASSUME NEW k \in Nat, NEW q \in Nat, k = Stride * q
  PROVE  k % Stride = 0
BY StrideBounds

(* A number is a multiple of the stride and a rest.                         *)
LEMMA StrideDivides ==
  ASSUME NEW k \in Nat
  PROVE  \E q \in Nat, r \in 0 .. Stride - 1 : k = Stride * q + r /\ r = k % Stride
BY StrideBounds, Division

(* The multiple before a number, and the one before a multiple.             *)
LEMMA MultipleBefore ==
  ASSUME NEW k \in Nat
  PROVE  /\ \E start \in 0 .. k : start % Stride = 0 /\ k < start + Stride
         /\ k % Stride = 0 /\ k >= Stride => (k - Stride) % Stride = 0
<1>1. Stride \in Nat \ {0}  BY StrideBounds
<1>2. PICK q \in Nat, r \in 0 .. Stride - 1 : k = Stride * q + r /\ r = k % Stride
  BY StrideDivides
<1>3. Stride * q \in Nat /\ r \in Nat /\ r < Stride  BY <1>1
<1>4. (Stride * q) % Stride = 0  BY <1>3, Multiples
<1>5. Stride * q \in 0 .. k /\ k < Stride * q + Stride  BY <1>2, <1>3, <1>1
<1>6. ASSUME k % Stride = 0, k >= Stride  PROVE (k - Stride) % Stride = 0
  <2>1. k = Stride * q  BY <1>2, <1>3, <1>6
  <2>2. k - Stride = Stride * (q - 1) /\ q - 1 \in Nat  BY <1>1, <1>6, <2>1
  <2>3. k - Stride \in Nat  BY <1>1, <1>6
  <2>4. QED  BY <2>2, <2>3, Multiples
<1>7. QED  BY <1>4, <1>5, <1>6

(* Two poses that follow each other are in one window: the last window may  *)
(* not be full, but it reaches to the end.                                  *)
LEMMA WindowsCover ==
  ASSUME NEW size \in Nat, NEW k \in 0 .. size - 2
  PROVE  k \in Neighbours(size)
<1> DEFINE Last(m) == m >= Stride => m - Stride + WindowSize <= size
           Left == {m \in 0 .. k : m % Stride = 0 /\ ~Last(m)}
<1>1. k \in Nat /\ Stride \in Nat \ {0} /\ WindowSize \in Nat /\ WindowSize > Stride
  BY StrideBounds
<1>2. ASSUME NEW m \in 0 .. k, m % Stride = 0, Last(m)  PROVE m \in WindowStarts(size)
  BY <1>1, <1>2 DEF WindowStarts
<1>3. \E start \in WindowStarts(size) : start <= k /\ k + 1 < start + WindowSize
  <2>1. CASE Left = {}
    <3>1. PICK start \in 0 .. k : start % Stride = 0 /\ k < start + Stride
      BY <1>1, MultipleBefore
    <3>2. start <= k /\ k + 1 < start + WindowSize  BY <1>1, <3>1
    <3>3. Last(start)  BY <2>1, <3>1
    <3> HIDE DEF Last
    <3>4. start \in WindowStarts(size)  BY <1>2, <3>1, <3>3
    <3>5. QED  BY <3>2, <3>4
  <2>2. CASE Left # {}
    <3>1. Left \in SUBSET Nat /\ \A m \in Left : m \in 0 .. k /\ m % Stride = 0 /\ ~Last(m)
      BY <1>1
    <3>2. \A m \in 0 .. k : m % Stride = 0 /\ m \notin Left => Last(m)  OBVIOUS
    <3> HIDE DEF Left
    <3>3. PICK m \in Left : \A j \in Left : m <= j  BY <2>2, <3>1, LeastNumber
    <3> DEFINE start == m - Stride
    <3>4. m \in 0 .. k /\ m % Stride = 0 /\ m >= Stride /\ start + WindowSize > size
      BY <1>1, <3>1
    <3>5. start \in 0 .. k /\ start < m /\ m \in Nat  BY <1>1, <3>4
    <3>6. start % Stride = 0  BY <3>4, <3>5, MultipleBefore
    <3>7. start <= k /\ k + 1 < start + WindowSize  BY <1>1, <3>4, <3>5
    <3> HIDE DEF start, Last
    <3>8. start \notin Left  BY <3>3, <3>5
    <3>9. start \in WindowStarts(size)  BY <1>2, <3>2, <3>5, <3>6, <3>8
    <3>10. QED  BY <3>7, <3>9
  <2>3. QED  BY <2>1, <2>2
<1>4. QED  BY <1>3 DEF Neighbours

(* The levels are counted.                                                  *)
LEMMA LevelsType ==
  ASSUME NEW n \in Nat
  PROVE  Levels(n) \in Nat
<1> DEFINE Reaches(l) == Stride ^ (2 * l) * WindowSize ^ 3 <= 3 * n ^ 2 * (Stride ^ 3 - Stride)
           L == {l \in 1 .. n : Reaches(l)}
<1>1. Levels(n) = Cardinality(L)  BY DEF Levels
<1> HIDE DEF Reaches
<1>2. IsFiniteSet(1 .. n) /\ L \in SUBSET (1 .. n)  BY FS_Interval
<1> HIDE DEF L
<1>3. IsFiniteSet(L)  BY <1>2, FS_Subset
<1>4. QED  BY <1>1, <1>3, FS_CardinalityType

(* The clouds of the next level, put a stride apart, do not go beyond those *)
(* of this one.                                                             *)
LEMMA StartsCount ==
  ASSUME NEW size \in Nat
  PROVE  /\ Cardinality(WindowStarts(size)) \in Nat
         /\ size > 0 => (Cardinality(WindowStarts(size)) - 1) * Stride <= size - 1
<1> DEFINE W == WindowStarts(size)
           c == Cardinality(W)
<1>1. Stride \in Nat \ {0}  BY StrideBounds
<1>2. \A k \in W : k \in 0 .. size - 1 /\ k % Stride = 0  BY DEF WindowStarts
<1> HIDE DEF W
<1>3. W \in SUBSET (0 .. size - 1) /\ IsFiniteSet(0 .. size - 1)  BY <1>2, FS_Interval
<1>4. IsFiniteSet(W)  BY <1>3, FS_Subset
<1>5. c \in Nat  BY <1>4, FS_CardinalityType
<1>6. ASSUME size > 0  PROVE (c - 1) * Stride <= size - 1
  <2>1. PICK q \in Nat, r \in 0 .. Stride - 1 : size - 1 = Stride * q + r
    <3>1. size - 1 \in Nat  BY <1>6
    <3>2. QED  BY <3>1, StrideDivides
  <2> DEFINE f == [k \in W |-> k \div Stride]
  <2>2. ASSUME NEW k \in W
        PROVE  \E p \in 0 .. q : k = Stride * p /\ k \div Stride = p
    <3>1. k \in Nat /\ k <= size - 1 /\ k % Stride = 0  BY <1>2
    <3>2. PICK p \in Nat, t \in 0 .. Stride - 1 : k = Stride * p + t /\ t = k % Stride
      BY <3>1, StrideDivides
    <3>3. k = Stride * p  BY <1>1, <3>1, <3>2
    <3>4. k \div Stride = p  BY <1>1, <3>3
    <3>5. p <= q
      <4>1. p > q => p >= q + 1  OBVIOUS
      <4>2. p >= q + 1 => Stride * p >= Stride * (q + 1)  BY <1>1
      <4>3. Stride * (q + 1) = Stride * q + Stride  BY <1>1
      <4>4. Stride * q + r < Stride * q + Stride
        <5>1. Stride * q \in Int  BY <1>1
        <5>2. QED  BY <1>1, <5>1
      <4>5. Stride * p <= Stride * q + r  BY <2>1, <3>1, <3>3
      <4>6. Stride * p \in Int /\ Stride * q \in Int  BY <1>1
      <4>7. QED  BY <1>1, <4>1, <4>2, <4>3, <4>4, <4>5, <4>6
    <3>6. QED  BY <3>3, <3>4, <3>5
  <2>3. f \in Injection(W, 0 .. q)
    <3>1. f \in [W -> 0 .. q]  BY <2>2
    <3>2. ASSUME NEW a \in W, NEW b \in W, f[a] = f[b]  PROVE a = b
      <4>1. f[a] = a \div Stride /\ f[b] = b \div Stride  OBVIOUS
      <4> HIDE DEF f
      <4>2. a = Stride * f[a] /\ b = Stride * f[b]  BY <2>2, <4>1
      <4>3. QED  BY <3>2, <4>2
    <3> HIDE DEF f
    <3>3. QED  BY <3>1, <3>2 DEF Injection, IsInjective
  <2>4. IsFiniteSet(0 .. q) /\ Cardinality(0 .. q) = q + 1  BY FS_Interval
  <2> HIDE DEF f
  <2>5. c <= q + 1  BY <2>3, <2>4, FS_Injection
  <2> HIDE DEF c
  <2>6. (c - 1) * Stride <= q * Stride  BY <1>1, <1>5, <2>5
  <2>7. q * Stride = Stride * q /\ Stride * q \in Nat  BY <1>1
  <2>8. (c - 1) * Stride \in Int  BY <1>1, <1>5
  <2>9. QED  BY <1>1, <2>1, <2>6, <2>7, <2>8
<1>7. QED  BY <1>5, <1>6 DEF W

(* The two recursive functions of the hierarchy.                            *)
LEMMA SizesValues ==
  ASSUME NEW n \in Nat
  PROVE  /\ Sizes(n)[0] = n
         /\ \A l \in 1 .. Levels(n) : Sizes(n)[l] = Cardinality(WindowStarts(Sizes(n)[l - 1]))
<1> DEFINE N == Levels(n)
           Next1(m) == Cardinality(WindowStarts(m))
           Step == [l \in 1 .. N |-> [m \in Nat |-> Next1(m)]]
           Solves(f) == f = [l \in 0 .. N |-> IF l = 0 THEN n ELSE Next1(f[l - 1])]
<1>1. N \in Nat /\ \A m \in Nat : Next1(m) \in Nat  BY LevelsType, StartsCount
<1> DEFINE K == Sizes(n)
<1>2. K = CHOOSE f : Solves(f)  BY DEF Sizes
<1> HIDE DEF N, Next1
<1>3. \E f : Solves(f)
  <2>1. Step \in [1 .. N -> [Nat -> Nat]]  BY <1>1
  <2>2. \A l \in 1 .. N, m \in Nat : Step[l][m] = Next1(m)  OBVIOUS
  <2> HIDE DEF Step
  <2>3. PICK f \in [0 .. N -> Nat] : Recurs(f, N, n, Step)  BY <1>1, <2>1, Recursion
  <2>4. ASSUME NEW l \in 1 .. N  PROVE Step[l][f[l - 1]] = Next1(f[l - 1])
    <3>1. l - 1 \in 0 .. N  BY <1>1
    <3>2. f[l - 1] \in Nat  BY <3>1
    <3>3. QED  BY <2>2, <3>2
  <2>5. \A l \in 0 .. N : l # 0 => l \in 1 .. N  BY <1>1
  <2>6. \A l \in 0 .. N : f[l] = IF l = 0 THEN n ELSE Next1(f[l - 1])
    BY <2>3, <2>4, <2>5 DEF Recurs
  <2>7. f = [l \in 0 .. N |-> f[l]]  OBVIOUS
  <2>8. QED  BY <2>6, <2>7
<1> HIDE DEF K
<1>4. Solves(K)
  <2> HIDE DEF Solves
  <2>1. QED  BY <1>2, <1>3
<1>5. \A l \in 0 .. N : K[l] = IF l = 0 THEN n ELSE Next1(K[l - 1])  BY <1>4
<1>6. K[0] = n /\ \A l \in 1 .. N : K[l] = Next1(K[l - 1])  BY <1>1, <1>5
<1>7. QED  BY <1>6 DEF K, N, Next1

(* The distances are a recursive function like the sizes.                   *)
LEMMA DistancesValues ==
  ASSUME NEW n \in Nat
  PROVE  /\ Distances(n)[0] = 1
         /\ \A l \in 1 .. Levels(n) : Distances(n)[l] = Distances(n)[l - 1] * Stride
<1> DEFINE N == Levels(n)
           Next1(m) == m * Stride
           Step == [l \in 1 .. N |-> [m \in Nat |-> Next1(m)]]
           Solves(f) == f = [l \in 0 .. N |-> IF l = 0 THEN 1 ELSE Next1(f[l - 1])]
<1>1. N \in Nat /\ \A m \in Nat : Next1(m) \in Nat  BY LevelsType, StrideBounds
<1> DEFINE K == Distances(n)
<1>2. K = CHOOSE f : Solves(f)  BY DEF Distances
<1> HIDE DEF N, Next1
<1>3. \E f : Solves(f)
  <2>1. Step \in [1 .. N -> [Nat -> Nat]] /\ 1 \in Nat  BY <1>1
  <2>2. \A l \in 1 .. N, m \in Nat : Step[l][m] = Next1(m)  OBVIOUS
  <2> HIDE DEF Step
  <2>3. PICK f \in [0 .. N -> Nat] : Recurs(f, N, 1, Step)  BY <1>1, <2>1, Recursion
  <2>4. ASSUME NEW l \in 1 .. N  PROVE Step[l][f[l - 1]] = Next1(f[l - 1])
    <3>1. l - 1 \in 0 .. N  BY <1>1
    <3>2. f[l - 1] \in Nat  BY <3>1
    <3>3. QED  BY <2>2, <3>2
  <2>5. \A l \in 0 .. N : l # 0 => l \in 1 .. N  BY <1>1
  <2>6. \A l \in 0 .. N : f[l] = IF l = 0 THEN 1 ELSE Next1(f[l - 1])
    BY <2>3, <2>4, <2>5 DEF Recurs
  <2>7. f = [l \in 0 .. N |-> f[l]]  OBVIOUS
  <2>8. QED  BY <2>6, <2>7
<1> HIDE DEF K
<1>4. Solves(K)
  <2> HIDE DEF Solves
  <2>1. QED  BY <1>2, <1>3
<1>5. \A l \in 0 .. N : K[l] = IF l = 0 THEN 1 ELSE Next1(K[l - 1])  BY <1>4
<1>6. K[0] = 1 /\ \A l \in 1 .. N : K[l] = Next1(K[l - 1])  BY <1>1, <1>5
<1>7. QED  BY <1>6 DEF K, N, Next1

(* The last cloud of every level is at a pose that exists.                  *)
Inside(n, size, distance) ==
  size \in Nat /\ distance \in Nat /\ (size > 0 => (size - 1) * distance <= n - 1)

(* The poses of every level are among those of the map.                     *)
LEMMA HierarchyInside ==
  ASSUME NEW n \in Nat
  PROVE  \A l \in 0 .. Levels(n) : Inside(n, Sizes(n)[l], Distances(n)[l])
<1> DEFINE N == Levels(n)
           size == Sizes(n)
           distance == Distances(n)
           T == {l \in 0 .. N : Inside(n, size[l], distance[l])}
<1>1. N \in Nat /\ Stride \in Nat \ {0}  BY LevelsType, StrideBounds
<1>2. size[0] = n /\ \A l \in 1 .. N : size[l] = Cardinality(WindowStarts(size[l - 1]))
  BY SizesValues
<1>3. distance[0] = 1 /\ \A l \in 1 .. N : distance[l] = distance[l - 1] * Stride
  BY DistancesValues
<1> HIDE DEF N, size, distance
<1>4. 0 \in T  BY <1>1, <1>2, <1>3 DEF Inside
<1>5. ASSUME NEW l \in 1 .. N, l - 1 \in T  PROVE l \in T
  <2> DEFINE m == size[l - 1]
             d == distance[l - 1]
             c == Cardinality(WindowStarts(m))
  <2>1. Inside(n, m, d)  BY <1>5
  <2>2. size[l] = c /\ distance[l] = d * Stride /\ l \in 0 .. N  BY <1>1, <1>2, <1>3
  <2> HIDE DEF m, d
  <2>3. m \in Nat /\ d \in Nat /\ (m > 0 => (m - 1) * d <= n - 1)  BY <2>1 DEF Inside
  <2>4. c \in Nat /\ (m > 0 => (c - 1) * Stride <= m - 1)  BY <2>3, StartsCount
  <2>5. m = 0 => c = 0
    <3>1. m = 0 => WindowStarts(m) = {}  BY <2>3 DEF WindowStarts
    <3>2. QED  BY <3>1, FS_EmptySet
  <2> HIDE DEF c
  <2>6. ASSUME c > 0  PROVE (c - 1) * (d * Stride) <= n - 1
    <3>1. m > 0 /\ c - 1 \in Nat  BY <2>3, <2>4, <2>5, <2>6
    <3> DEFINE a == (c - 1) * Stride
    <3>2. a \in Int /\ a <= m - 1  BY <1>1, <2>4, <3>1
    <3>3. (c - 1) * (d * Stride) = a * d  BY <1>1, <2>3, <3>1
    <3> HIDE DEF a
    <3>4. a * d <= (m - 1) * d  BY <2>3, <3>2
    <3>5. a * d \in Int /\ (m - 1) * d \in Int  BY <2>3, <3>2
    <3>6. QED  BY <2>3, <3>1, <3>3, <3>4, <3>5
  <2>7. d * Stride \in Nat  BY <1>1, <2>3
  <2>8. Inside(n, c, d * Stride)  BY <2>4, <2>6, <2>7 DEF Inside
  <2>9. QED  BY <2>2, <2>8
<1>6. \A l \in 0 .. N : l \in T
  <2> HIDE DEF T
  <2>1. QED  BY <1>1, <1>4, <1>5, Induction
<1>7. QED  BY <1>6 DEF N, size, distance

(* What one optimisation joins: poses that exist, and each to the next.     *)
LEMMA FactorsJoin ==
  ASSUME NEW n \in Nat
  PROVE  /\ AllFactors(n) \subseteq (0 .. n - 1) \X (0 .. n - 1)
         /\ Levels(n) > 0 => \A k \in 0 .. n - 2 : <<k, k + 1>> \in AllFactors(n)
<1> DEFINE N == Levels(n)
           Joined(l) == {<<k * Distances(n)[l], (k + 1) * Distances(n)[l]>> : k \in Neighbours(Sizes(n)[l])}
<1>1. N \in Nat  BY LevelsType
<1>2. AllFactors(n) = UNION {Joined(l) : l \in 0 .. N - 1}  BY DEF AllFactors
<1>3. ASSUME NEW l \in 0 .. N - 1  PROVE Joined(l) \subseteq (0 .. n - 1) \X (0 .. n - 1)
  <2> DEFINE size == Sizes(n)[l]
             d == Distances(n)[l]
  <2>1. Inside(n, size, d)
    <3>1. l \in 0 .. Levels(n)  BY <1>1
    <3>2. QED  BY <3>1, HierarchyInside
  <2>2. Joined(l) = {<<k * d, (k + 1) * d>> : k \in Neighbours(size)}  OBVIOUS
  <2> HIDE DEF size, d, Joined
  <2>3. ASSUME NEW k \in Neighbours(size)
        PROVE  k * d \in 0 .. n - 1 /\ (k + 1) * d \in 0 .. n - 1
    <3>1. size \in Nat /\ d \in Nat /\ (size > 0 => (size - 1) * d <= n - 1)  BY <2>1 DEF Inside
    <3>2. k \in 0 .. size - 2  BY DEF Neighbours
    <3>3. (k + 1) * d <= (size - 1) * d  BY <3>1, <3>2
    <3>4. k * d \in Nat /\ (k + 1) * d = k * d + d /\ (size - 1) * d \in Int  BY <3>1, <3>2
    <3>5. QED  BY <3>1, <3>2, <3>3, <3>4
  <2>4. QED  BY <2>2, <2>3
<1>4. ASSUME N > 0, NEW k \in 0 .. n - 2  PROVE <<k, k + 1>> \in Joined(0) /\ 0 \in 0 .. N - 1
  <2>1. Sizes(n)[0] = n /\ Distances(n)[0] = 1  BY SizesValues, DistancesValues
  <2>2. k \in Neighbours(n)  BY WindowsCover
  <2>3. k * 1 = k /\ (k + 1) * 1 = k + 1  OBVIOUS
  <2>4. QED  BY <1>1, <1>4, <2>1, <2>2, <2>3
<1> HIDE DEF N, Joined
<1>5. QED  BY <1>2, <1>3, <1>4 DEF N

(* What is refined is what the last optimisation has joined.                *)
FactorsInv == hba = "up" /\ ~m_do_optimize => factors = IF m_poses = << >> THEN {} ELSE AllFactors(Len(m_poses))

(* Every step keeps the factors those of the poses that are loaded.         *)
LEMMA FactorsStep ==
  ASSUME FactorsInv, [Next]_vars
  PROVE  FactorsInv'
<1>1. CASE UNCHANGED hbaVars  BY <1>1 DEF FactorsInv, hbaVars
<1>2. CASE RefineMap  BY <1>2 DEF RefineMap, FactorsInv
<1>3. CASE MainCB  BY <1>3 DEF MainCB, FactorsInv
<1>4. CASE SavePoses  BY <1>4 DEF SavePoses, FactorsInv
<1>5. RefineMap \/ MainCB \/ SavePoses \/ UNCHANGED hbaVars
  BY DEF Next, NewKeyPose, PgoRestarts, SaveMaps, Saving, RemovePatches, CreatePatches, RemovePoses,
         OpenPoses, SavePatch, SaveLine, OpenMap, SaveMap, vars
<1>6. QED  BY <1>1, <1>2, <1>3, <1>4, <1>5

-------------------------------------------------------------------------------
(* A cloud that is loaded is that of its pose, and of the same run: for any *)
(* directory that PGONode can leave behind, killed or not, and however      *)
(* often HBANode loads it.                                                  *)
THEOREM LoadedPairsMatch == Spec => []PairsMatch
<1>1. DirectoryInv => PairsMatch  BY DEF DirectoryInv, LoadedInv, PairsMatch
<1>2. DirectoryInv /\ [Next]_vars => DirectoryInv'  BY DirectoryStep
<1>3. QED  BY DirectoryInit, <1>1, <1>2, PTL DEF Spec

(* The factors join poses that exist, and if there is a level at all they   *)
(* leave no pose alone: for every window size, stride and number of poses.  *)
THEOREM RefinementHangsTogether == Spec => []RefinedTogether
<1>1. Init => FactorsInv  BY DEF Init, FactorsInv
<1>2. FactorsInv /\ [Next]_vars => FactorsInv'  BY FactorsStep
<1>3. FactorsInv /\ DirectoryInv => RefinedTogether
  <2> SUFFICES ASSUME FactorsInv, DirectoryInv  PROVE RefinedTogether  OBVIOUS
  <2> DEFINE n == Len(m_poses)
  <2>1. n \in Nat /\ (m_poses = << >> => n = 0)  BY DEF DirectoryInv, LoadedInv
  <2>2. /\ AllFactors(n) \subseteq (0 .. n - 1) \X (0 .. n - 1)
        /\ Levels(n) > 0 => \A k \in 0 .. n - 2 : <<k, k + 1>> \in AllFactors(n)
    BY <2>1, FactorsJoin
  <2> HIDE DEF n
  <2>3. hba = "up" /\ ~m_do_optimize =>
          \/ factors = {} /\ n = 0
          \/ factors = AllFactors(n)
    BY <2>1 DEF FactorsInv, n
  <2>4. hba = "up" /\ ~m_do_optimize =>
          /\ factors \subseteq (0 .. n - 1) \X (0 .. n - 1)
          /\ n > 0 /\ Levels(n) > 0 => \A k \in 0 .. n - 2 : <<k, k + 1>> \in factors
    BY <2>1, <2>2, <2>3
  <2>5. QED  BY <2>4 DEF RefinedTogether, n
<1>4. DirectoryInv /\ [Next]_vars => DirectoryInv'  BY DirectoryStep
<1>5. QED  BY DirectoryInit, <1>1, <1>2, <1>3, <1>4, PTL DEF Spec

-------------------------------------------------------------------------------
(* The two readers beside PGONode. *)

(* With the localiser in it the directory is the same.                      *)
THEOREM DirectoryRefined == AllSpec => Spec
<1>1. AllInit => Init  BY DEF AllInit
<1>2. [PgoNode \/ HbaNode \/ LocalizerNode]_allVars => [Next]_vars
  <2> SUFFICES ASSUME [PgoNode \/ HbaNode \/ LocalizerNode]_allVars  PROVE [Next]_vars  OBVIOUS
  <2>1. CASE PgoNode  BY <2>1 DEF PgoNode, Next
  <2>2. CASE HbaNode  BY <2>2 DEF HbaNode, Next
  <2>3. CASE LocalizerNode
    <3>1. UNCHANGED map_pcd
      BY <2>3 DEF LocalizerNode, Localizer!Callback, Localizer!SyncCB, Localizer!RelocCB,
                  Localizer!TimerBroadcasts, Localizer!AlignmentFails, Localizer!AlignmentSucceeds
    <3>2. QED  BY <2>3, <3>1 DEF LocalizerNode, OnlyLocalizer, vars, fileVars
  <2>4. CASE UNCHANGED allVars  BY <2>4 DEF allVars
  <2>5. QED  BY <2>1, <2>2, <2>3, <2>4
<1>3. QED  BY <1>1, <1>2, PTL DEF AllSpec, Spec

(* The guess and the offset of the localiser, in terms of the last request. *)
LocalizedInv ==
  /\ service_received => initial_guess = requests /\ ~localize_success
  /\ localize_success =>
       /\ last_offset = [request |-> requests, map |-> target]
       /\ broadcast = last_offset
       /\ target # Empty

(* Every step of the three nodes keeps what localize_success means.         *)
LEMMA LocalizedStep ==
  ASSUME LocalizedInv, [PgoNode \/ HbaNode \/ LocalizerNode]_allVars
  PROVE  LocalizedInv'
<1>1. CASE UNCHANGED localizerVars  BY <1>1 DEF LocalizedInv, localizerVars
<1>2. CASE Localizer!SyncCB  BY <1>2 DEF LocalizedInv, Localizer!SyncCB
<1>3. CASE Localizer!RelocCB  BY <1>3 DEF LocalizedInv, Localizer!RelocCB
<1>4. CASE Localizer!TimerBroadcasts  BY <1>4 DEF LocalizedInv, Localizer!TimerBroadcasts
<1>5. CASE Localizer!AlignmentFails  BY <1>5 DEF LocalizedInv, Localizer!AlignmentFails
<1>6. CASE Localizer!AlignmentSucceeds
  <2>1. last_offset' = [request |-> Localizer!Guess, map |-> target] /\ broadcast' = last_offset'
    BY <1>6 DEF Localizer!AlignmentSucceeds
  <2>2. localize_success' => Localizer!Guess = requests
    <3>1. CASE service_received
      BY <1>6, <3>1 DEF LocalizedInv, Localizer!AlignmentSucceeds, Localizer!Guess
    <3>2. CASE ~service_received
      <4>1. localize_success' => localize_success  BY <1>6, <3>2, Zenon DEF Localizer!AlignmentSucceeds
      <4>2. localize_success => last_offset = [request |-> requests, map |-> target]  BY DEF LocalizedInv
      <4>3. Localizer!Guess = last_offset.request  BY <3>2 DEF Localizer!Guess
      <4>4. QED  BY <4>1, <4>2, <4>3
    <3>3. QED  BY <3>1, <3>2
  <2>3. QED
    BY <1>6, <2>1, <2>2 DEF LocalizedInv, Localizer!AlignmentSucceeds, Localizer!MayConverge
<1>7. QED
  BY <1>1, <1>2, <1>3, <1>4, <1>5, <1>6
     DEF PgoNode, HbaNode, LocalizerNode, Localizer!Callback, allVars, localizerVars

(* "valid" is answered only after an alignment that goes back to the guess  *)
(* of the last request, in the map of that request: for any number of       *)
(* requests, failed alignments, saves and restarts in between.              *)
THEOREM ValidIsLocalized == AllSpec => []ValidMeansLocalized
<1>1. AllInit => LocalizedInv  BY DEF AllInit, Localizer!Init, LocalizedInv
<1>2. LocalizedInv /\ [PgoNode \/ HbaNode \/ LocalizerNode]_allVars => LocalizedInv'  BY LocalizedStep
<1>3. LocalizedInv => ValidMeansLocalized
  BY DEF LocalizedInv, ValidMeansLocalized, Localizer!Valid
<1>4. QED  BY <1>1, <1>2, <1>3, PTL DEF AllSpec
===============================================================================

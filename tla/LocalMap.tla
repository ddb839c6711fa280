-------------------------------- MODULE LocalMap --------------------------------
(***************************************************************************)
(* The box of the map that FAST-LIO keeps around the lidar                 *)
(* (lasermap_fov_segment in laserMapping.cpp): when the lidar comes near   *)
(* to a side the box moves on, and what it leaves behind is deleted from   *)
(* the map.                                                                *)
(*                                                                         *)
(* Distances are integers.  A scan sees points up to DET_RANGE away along  *)
(* each axis, and between two scans the lidar moves by MaxStep at most.    *)
(***************************************************************************)
EXTENDS Integers

CONSTANTS
  Axes,
  cube_len, DET_RANGE,
  MaxStep,
  Reach,          \* bound: how far from its origin the lidar goes
  NULL

Places == [Axes -> Int]

LocalMapAssumption ==
  /\ cube_len \in Nat /\ DET_RANGE \in Nat /\ MaxStep \in Nat /\ Reach \in Nat
  /\ cube_len % 2 = 0 /\ MaxStep <= DET_RANGE \div 2
  /\ cube_len > 3 * DET_RANGE     \* or it is too near to both sides; 1000 and 100 in mapping_config.yaml
  /\ NULL \notin [vertex_min : Places, vertex_max : Places]

VARIABLES
  pos_LiD,
  LocalMap_Points,    \* NULL before the first scan
  mapped              \* the points in the tree; bound: one, points do not affect each other

Distance(x, y) == IF x > y THEN x - y ELSE y - x

Around(p, r)   == [vertex_min |-> [i \in Axes |-> p[i] - r], vertex_max |-> [i \in Axes |-> p[i] + r]]
InBox(box, p)  == \A i \in Axes : box.vertex_min[i] <= p[i] /\ p[i] < box.vertex_max[i]
InRange(p)     == \A i \in Axes : Distance(p[i], pos_LiD[i]) <= DET_RANGE

\* The larger of two, and MOV_THRESHOLD is 3/2.
mov_dist == LET third == ((cube_len - 3 * DET_RANGE) * 9) \div 20
            IN  IF third > DET_RANGE \div 2 THEN third ELSE DET_RANGE \div 2
TooNear(x, edge) == 2 * Distance(x, edge) <= 3 * DET_RANGE

\* By how much the box moves along axis i; the lower side is looked at first.
Shift(box, p, i) ==
  IF TooNear(p[i], box.vertex_min[i]) THEN 0 - mov_dist
  ELSE IF TooNear(p[i], box.vertex_max[i]) THEN mov_dist ELSE 0

New_LocalMap_Points(box, p) ==
  [vertex_min |-> [i \in Axes |-> box.vertex_min[i] + Shift(box, p, i)],
   vertex_max |-> [i \in Axes |-> box.vertex_max[i] + Shift(box, p, i)]]

(* Mutant: the slabs are cut from the box that has moved. *)
cub_needrm_moved(box, p) ==
  LET moved == New_LocalMap_Points(box, p)
  IN  {IF Shift(box, p, i) < 0 THEN [moved EXCEPT !.vertex_min[i] = box.vertex_max[i] - mov_dist]
                               ELSE [moved EXCEPT !.vertex_max[i] = box.vertex_min[i] + mov_dist] :
         i \in {j \in Axes : Shift(box, p, j) # 0}}

\* The slabs the box leaves behind, one for each axis along which it moves.
cub_needrm(box, p) ==
  {IF Shift(box, p, i) < 0 THEN [box EXCEPT !.vertex_min[i] = box.vertex_max[i] - mov_dist]
                           ELSE [box EXCEPT !.vertex_max[i] = box.vertex_min[i] + mov_dist] :
     i \in {j \in Axes : Shift(box, p, j) # 0}}

Init ==
  /\ pos_LiD = [i \in Axes |-> 0]
  /\ LocalMap_Points = NULL
  /\ mapped = {}

\* timer_callback, of its map: a scan from position p, the points of which are added
\* after the box has moved.
Scan(p, seen) ==
  /\ \A i \in Axes : Distance(p[i], pos_LiD[i]) <= MaxStep
  /\ pos_LiD' = p
  /\ IF LocalMap_Points = NULL
     THEN LocalMap_Points' = Around(p, cube_len \div 2) /\ mapped' = seen
     ELSE /\ LocalMap_Points' = New_LocalMap_Points(LocalMap_Points, p)
          /\ mapped' = {x \in mapped : \A box \in cub_needrm(LocalMap_Points, p) : ~InBox(box, x)} \cup seen

Next ==
  \E p \in [Axes -> -Reach .. Reach] :
    \/ Scan(p, {})
    \/ mapped = {} /\ \E x \in [Axes -> -Reach - DET_RANGE .. Reach + DET_RANGE] :
                        (\A i \in Axes : Distance(x[i], p[i]) <= DET_RANGE) /\ Scan(p, {x})

vars == <<pos_LiD, LocalMap_Points, mapped>>
Spec == Init /\ [][Next]_vars

-------------------------------------------------------------------------------
\* The map has the points of the box and no other, so that it does not grow for ever,
\* and none is deleted that the lidar can see from where it is: the box moves before
\* the lidar can see beyond it, and by no more than what is out of its sight.
MapIsLocal ==
  [][/\ \A x \in mapped' : InBox(LocalMap_Points', x)
     /\ \A x \in mapped \ mapped' : ~InRange(x)']_vars

===============================================================================

----------------------------- MODULE Preprocess -----------------------------
(***************************************************************************)
(* The preprocessing of a scan in FAST-LIO (fast_lio/src/preprocess.cpp):  *)
(* the handlers of the kinds of lidar, which filter points and find out    *)
(* when they were measured, and the extraction of surfaces and corners.    *)
(*                                                                         *)
(* A point of a scan is [line, valid, xy, z, near, yaw, turned, time]:     *)
(* near is inside the blind range, xy and z tell positions apart, yaw is   *)
(* the direction in units of which FullTurn make a turn, and turned, which *)
(* the program does not know, is how far the sensor had turned.  What the  *)
(* geometry of the points decides is chosen; indices begin at 1.           *)
(***************************************************************************)
EXTENDS Integers, FiniteSets, SequenceSelection

CONSTANTS
  Scans,        \* bound: the scans that arrive
  Settings,     \* bound: [lidar_type, feature_enabled, point_filter_num]
  N_SCANS,
  group_size,
  FullTurn,
  NULL

Point == [line : Nat, valid : BOOLEAN, xy : Int, z : Int, near : BOOLEAN,
          yaw : Int, turned : Int, time : Int]

\* A line turns clockwise only, and the direction of a point is what it has turned within
\* a turn: there is such a "turned" for every scan, whatever its directions.
Clockwise(s) ==
  \A j, m \in DOMAIN s : j < m /\ s[j].line = s[m].line =>
    /\ s[j].turned <= s[m].turned
    /\ s[j].yaw - s[m].yaw \in 1 - FullTurn .. FullTurn - 1
    /\ (s[j].yaw - s[m].yaw - (s[m].turned - s[j].turned)) % FullTurn = 0

PreprocessAssumption ==
  /\ \A s \in Scans : s \in Seq(Point) /\ Clockwise(s)
  /\ NULL # << >> /\ NULL \notin [yaw_fp : Int, time_last : Int]
  /\ N_SCANS \in Nat \ {0} /\ group_size \in Nat \ {0} /\ FullTurn \in Nat \ {0}
  /\ \A s \in Settings : s.lidar_type \in {"AVIA", "VELO16", "OUST64", "MID360", "DEFAULT"}
                         /\ s.feature_enabled \in BOOLEAN /\ s.point_filter_num \in Nat \ {0}

VARIABLES
  scan, setting,
  pl_surf,       \* without features: the points kept, by index and time
  pl_buff,       \* with features: the lines still to be looked at
  types          \* give_feature at work on a line, or NULL

vars == <<scan, setting, pl_surf, pl_buff, types>>

-----------------------------------------------------------------------------
(* The handlers                                                            *)

Indices(s, S) == Select([i \in 1 .. Len(s) |-> i], S)
Every(i, n)   == (i - 1) % n = 0
Lines         == 0 .. N_SCANS - 1

(* Mutant: a line is taken to turn once at most. *)
YawTime_once(known, p) ==
  IF known[p.line] = NULL
  THEN [known EXCEPT ![p.line] = [yaw_fp |-> p.yaw, time_last |-> 0]]
  ELSE LET fp == known[p.line].yaw_fp
       IN  [known EXCEPT ![p.line].time_last = IF p.yaw <= fp THEN fp - p.yaw ELSE fp - p.yaw + FullTurn]

\* The offset times of points without any, from how far the lidar turned clockwise
\* since the first point of the line; that first point gets none and is left out.
YawTime(known, p) ==
  IF known[p.line] = NULL
  THEN [known EXCEPT ![p.line] = [yaw_fp |-> p.yaw, time_last |-> 0]]
  ELSE LET fp == known[p.line].yaw_fp
           c  == IF p.yaw <= fp THEN fp - p.yaw ELSE fp - p.yaw + FullTurn
       IN  [known EXCEPT ![p.line].time_last = IF c < @ THEN c + FullTurn ELSE c]

\* What is known of the lines after each point of the scan.
Known(s) == LET known[i \in 0 .. Len(s)] == IF i = 0 THEN [l \in Lines |-> NULL]
                                            ELSE YawTime(known[i - 1], s[i])
            IN  known
YawTimes(s)   == LET known == Known(s) IN [i \in DOMAIN s |-> known[i][s[i].line].time_last]
IsFirst(s, i) == \A j \in 1 .. i - 1 : s[j].line # s[i].line

Surf(indices, times) == [k \in DOMAIN indices |-> [index |-> indices[k], time |-> times[indices[k]]]]

\* avia_handler: the first point is passed over.  pl_full holds what was selected and
\* is zero elsewhere; "&&" binds the blind range to the last of three comparisons.
Valid(s)          == {j \in 2 .. Len(s) : s[j].valid /\ s[j].line \in Lines}
Selected(s, i, n) == i \in Valid(s) /\ Cardinality(Valid(s) \cap 2 .. i) % n = 0
Before(s, i, n)   == IF Selected(s, i - 1, n) THEN s[i - 1] ELSE [xy |-> 0, z |-> 0]
avia_handler(s, n) ==
  Surf(Indices(s, {i \in DOMAIN s : Selected(s, i, n) /\ LET q == Before(s, i, n) IN
                                       \/ s[i].xy # q.xy
                                       \/ s[i].z # q.z /\ ~s[i].near}),
       [i \in DOMAIN s |-> s[i].time])

oust64_handler(s, n) == Surf(Indices(s, {i \in DOMAIN s : Every(i, n) /\ ~s[i].near}),
                             [i \in DOMAIN s |-> s[i].time])

given_offset_time(s) == s # << >> /\ s[Len(s)].time > 0
velodyne_handler(s, n) ==
  Surf(Indices(s, {i \in DOMAIN s : Every(i, n) /\ ~s[i].near /\ (given_offset_time(s) \/ ~IsFirst(s, i))}),
       IF given_offset_time(s) THEN [i \in DOMAIN s |-> s[i].time] ELSE YawTimes(s))

mid360_handler(s) == Surf(Indices(s, {i \in DOMAIN s : ~s[i].near /\ ~IsFirst(s, i)}), YawTimes(s))

default_handler(s) == Surf(Indices(s, {i \in DOMAIN s : ~s[i].near}), [i \in DOMAIN s |-> 0])

\* The indices a handler reads outside of its arrays of lines.
LineOutside(s, lidar_type) ==
  \/ lidar_type = "MID360" /\ \E i \in DOMAIN s : s[i].line \notin Lines
  \/ lidar_type = "VELO16" /\ ~given_offset_time(s) /\ \E i \in DOMAIN s : s[i].line \notin Lines

\* The lines given to give_feature, as the near marks of their points.
InBuffer(s, i, lidar_type) ==
  CASE lidar_type = "AVIA"   -> i > 1 /\ s[i].valid
                                /\ LET q == IF Selected(s, i - 1, 1) THEN s[i - 1] ELSE [xy |-> 0, z |-> 0]
                                   IN  <<s[i].xy, s[i].z>> # <<q.xy, q.z>>
    [] lidar_type = "OUST64" -> ~s[i].near
    [] lidar_type = "VELO16" -> given_offset_time(s) \/ ~IsFirst(s, i)

LongEnough(line, lidar_type) ==
  CASE lidar_type = "AVIA"   -> Len(line) > 5
    [] lidar_type = "OUST64" -> TRUE
    [] lidar_type = "VELO16" -> Len(line) >= 2

Buffer(s, l, lidar_type) ==
  LET in == Indices(s, {i \in DOMAIN s : s[i].line = l /\ InBuffer(s, i, lidar_type)})
  IN  [k \in DOMAIN in |-> s[in[k]].near]
Buffers(s, lidar_type) ==
  LET buffers == [l \in 1 .. N_SCANS |-> Buffer(s, l - 1, lidar_type)]
  IN  Select(buffers, {line \in {buffers[l] : l \in 1 .. N_SCANS} : LongEnough(line, lidar_type)})

HasFeatures(s) == s.feature_enabled /\ s.lidar_type \in {"AVIA", "OUST64", "VELO16"}

Init == /\ scan \in Scans /\ setting \in Settings
        /\ pl_surf = NULL /\ pl_buff = NULL /\ types = NULL

\* process, without features
Filter ==
  /\ pl_surf = NULL /\ ~HasFeatures(setting) /\ ~LineOutside(scan, setting.lidar_type)
  /\ pl_surf' = CASE setting.lidar_type = "AVIA"    -> avia_handler(scan, setting.point_filter_num)
                  [] setting.lidar_type = "OUST64"  -> oust64_handler(scan, setting.point_filter_num)
                  [] setting.lidar_type = "VELO16"  -> velodyne_handler(scan, setting.point_filter_num)
                  [] setting.lidar_type = "MID360"  -> mid360_handler(scan)
                  [] setting.lidar_type = "DEFAULT" -> default_handler(scan)
  /\ UNCHANGED <<scan, setting, pl_buff, types>>

\* process, with features: the points are sorted by lines
Sort ==
  /\ pl_surf = NULL /\ HasFeatures(setting)
  /\ pl_surf' = << >> /\ pl_buff' = Buffers(scan, setting.lidar_type)
  /\ UNCHANGED <<scan, setting, types>>

-----------------------------------------------------------------------------
(* give_feature, on the first line in pl_buff                              *)

Line == Head(pl_buff)
Near(i) == Line[i]
Outside == types' = [at |-> "outside"]     \* an element beyond the end is read or written
Planes == {"Poss_Plane", "Real_Plane"}
Edges  == {"Edge_Jump", "Edge_Plane"}
Stays  == UNCHANGED <<scan, setting, pl_surf, pl_buff>>

\* head is the first point beyond the blind range.
GiveFeature ==
  /\ pl_buff \notin {NULL, << >>} /\ types = NULL
  /\ LET beyond == {i \in DOMAIN Line : ~Near(i)}
         head   == CHOOSE i \in beyond : \A j \in beyond : i <= j
     IN  IF beyond = {} THEN Outside
         ELSE types' = [at |-> "planes", i |-> head, head |-> head, last_state |-> 0, straight |-> {},
                        ftype |-> [i \in DOMAIN Line |-> "Nor"]]
  /\ Stays

(* Mutant: a group is extended over points inside the blind range. *)
plane_judge_over(i) ==
  LET near == {j \in i .. i + group_size - 1 : Near(j)}
  IN  IF near # {} THEN {[plane |-> FALSE, i_nex |-> CHOOSE j \in near : \A k \in near : j <= k]}
      ELSE [plane : BOOLEAN, i_nex : i + group_size .. Len(Line) + 1]

\* plane_judge: a group of points, extended while they are close together (disB is never
\* set: how close is anything), flat or not; a near point ends it.
plane_judge(i) ==
  LET near == {j \in i .. i + group_size - 1 : Near(j)}
      ends == {j \in i + group_size .. Len(Line) + 1 : \A k \in i + group_size .. j - 1 : ~Near(k)}
  IN  IF near # {} THEN {[plane |-> FALSE, i_nex |-> CHOOSE j \in near : \A k \in near : j <= k]}
      ELSE [plane : {FALSE}, i_nex : ends]
             \cup [plane : {TRUE}, i_nex : {j \in ends : j > Len(Line) \/ ~Near(j)}]

\* The types in a plane; the first point is an edge if the plane before meets it.
PlaneTypes(ftype, i, i_nex, first) ==
  [j \in DOMAIN ftype |-> IF j = i THEN first
                          ELSE IF j = i_nex THEN "Poss_Plane"
                          ELSE IF j \in i .. i_nex THEN "Real_Plane" ELSE ftype[j]]

FindPlanes ==
  /\ types # NULL /\ types.at = "planes"
  /\ IF types.i > Len(Line) - group_size
     THEN types' = [types EXCEPT !.at = "edges", !.i = types.head + 3]
     ELSE IF Near(types.i) THEN types' = [types EXCEPT !.i = @ + 1]
     ELSE \E judged \in plane_judge(types.i) :
            IF ~judged.plane THEN types' = [types EXCEPT !.i = judged.i_nex + 1, !.last_state = 0]
            ELSE IF judged.i_nex > Len(Line) THEN Outside
            ELSE \E first \in IF types.last_state = 1 THEN {"Edge_Plane", "Real_Plane"} ELSE {"Poss_Plane"} :
                   types' = [types EXCEPT !.i = judged.i_nex, !.last_state = 1,
                                          !.ftype = PlaneTypes(@, types.i, judged.i_nex, first)]
  /\ Stays

\* edge_jump_judge needs two points in view on the near side of the jump.
MayJump(i) == (~Near(i - 1) /\ ~Near(i - 2)) \/ (~Near(i + 1) /\ ~Near(i + 2))

FindEdges ==
  /\ types # NULL /\ types.at = "edges"
  /\ IF types.i > Len(Line) - 3
     THEN types' = [types EXCEPT !.at = "small", !.i = types.head + 1]
     ELSE LET i == types.i
              t == types.ftype[i]
          IN  \/ types' = [types EXCEPT !.i = i + 1]
              \/ /\ ~Near(i) /\ t \in {"Nor", "Poss_Plane"}
                 /\ \/ types' = [types EXCEPT !.i = i + 1, !.straight = @ \cup {i}]
                    \/ MayJump(i) /\ types' = [types EXCEPT !.i = i + 1, !.ftype[i] = "Edge_Jump"]
                    \/ t = "Nor"  /\ types' = [types EXCEPT !.i = i + 1, !.ftype[i] = "Wire"]
  /\ Stays

\* A straight piece that is nothing else becomes a small plane, its neighbours with it.
FindSmallPlanes ==
  /\ types # NULL /\ types.at = "small"
  /\ IF types.i > Len(Line) - 1 THEN types' = [types EXCEPT !.at = "output"]
     ELSE LET i    == types.i
              near == \E j \in i - 1 .. i + 1 : Near(j)
          IN  \/ types' = [types EXCEPT !.i = i + 1]
              \/ /\ ~near /\ types.ftype[i] = "Nor" /\ i \in types.straight
                 /\ types' = [types EXCEPT !.i = i + 1,
                       !.ftype = [j \in DOMAIN @ |-> IF j \in i - 1 .. i + 1 /\ @[j] = "Nor"
                                                     THEN "Real_Plane" ELSE @[j]]]
  /\ Stays

(* Mutant: a run goes on behind the point that ends it. *)
OutputStep_goesOn(ftype, n, out, j) ==
  LET start == IF out.last_surface = 0 THEN j ELSE out.last_surface
  IN  IF ftype[j] \in Planes
      THEN IF j = start + n - 1 THEN [out EXCEPT !.surf = Append(@, start .. j), !.last_surface = 0]
           ELSE [out EXCEPT !.last_surface = start]
      ELSE [out EXCEPT !.surf = IF out.last_surface # 0 THEN Append(@, start .. j - 1) ELSE @,
                       !.corn = IF ftype[j] \in Edges THEN Append(@, j) ELSE @]

\* Of a run of plane points every n-th is taken; a rest that an other point ends is
\* averaged.
OutputStep(ftype, n, out, j) ==
  LET start == IF out.last_surface = 0 THEN j ELSE out.last_surface
  IN  IF ftype[j] \in Planes
      THEN IF j = start + n - 1 THEN [out EXCEPT !.surf = Append(@, start .. j), !.last_surface = 0]
           ELSE [out EXCEPT !.last_surface = start]
      ELSE [surf |-> IF out.last_surface # 0 THEN Append(out.surf, start .. j - 1) ELSE out.surf,
            corn |-> IF ftype[j] \in Edges THEN Append(out.corn, j) ELSE out.corn,
            last_surface |-> 0]

\* What the loop has put out after each point from head on.
Outputs(ftype, n, head) ==
  LET out[k \in 0 .. Len(ftype)] ==
        IF k < head THEN [surf |-> << >>, corn |-> << >>, last_surface |-> 0]
        ELSE OutputStep(ftype, n, out[k - 1], k)
  IN  out

Output ==
  /\ types # NULL /\ types.at = "output"
  /\ LET out == Outputs(types.ftype, setting.point_filter_num, types.head)[Len(Line)]
     IN  types' = [at |-> "finished", ftype |-> types.ftype, head |-> types.head,
                   surf |-> out.surf, corn |-> out.corn]
  /\ Stays

NextLine ==
  /\ types # NULL /\ types.at = "finished"
  /\ types' = NULL /\ pl_buff' = Tail(pl_buff)
  /\ UNCHANGED <<scan, setting, pl_surf>>

Next == \/ Filter \/ Sort
        \/ GiveFeature \/ FindPlanes \/ FindEdges \/ FindSmallPlanes \/ Output \/ NextLine

Spec == Init /\ [][Next]_vars

-----------------------------------------------------------------------------
(* Properties                                                              *)

\* Times made up from directions are those at which the points were measured, while a
\* line has turned less than twice and no gap hides a turn.
TimesFollowRotation ==
  (/\ pl_surf \notin {NULL, << >>}
   /\ \/ setting.lidar_type = "MID360"
      \/ setting.lidar_type = "VELO16" /\ ~given_offset_time(scan)) =>
    \A k \in DOMAIN pl_surf :
      LET i     == pl_surf[k].index
          mine  == {j \in 1 .. i : scan[j].line = scan[i].line}
          first == CHOOSE j \in mine : \A m \in mine : j <= m
          turn  == scan[i].turned - scan[first].turned
          steady == \A j, m \in mine : (j < m /\ (\A x \in mine : x <= j \/ x >= m))
                                         => scan[m].turned - scan[j].turned < FullTurn
      IN  turn < 2 * FullTurn /\ steady => pl_surf[k].time = turn

\* Each point of a plane is represented by one surface point, at most point_filter_num
\* together, but for a rest at the end of the line; no other point is, and none that is
\* inside the blind range.
PlanesRepresented ==
  types # NULL /\ types.at = "finished" =>
    /\ \A i \in DOMAIN Line :
         LET groups == {k \in DOMAIN types.surf : i \in types.surf[k]}
         IN  IF types.ftype[i] \in Planes /\ i >= types.head
             THEN \/ \E k \in groups : groups = {k}
                  \/ /\ groups = {} /\ \A j \in i .. Len(Line) : types.ftype[j] \in Planes
                     /\ Len(Line) - i + 1 < setting.point_filter_num
             ELSE groups = {}
    /\ \A k \in DOMAIN types.surf : /\ types.surf[k] # {} /\ (\A i \in types.surf[k] : ~Near(i))
                                     /\ \A i, j \in types.surf[k] : i - j < setting.point_filter_num

\* A line is abandoned, reading on behind its last point, if all its points are inside the
\* blind range or its last point is not: one last point inside it ends every group.
StaysInside ==
  types # NULL /\ types.at = "outside" =>
    (\A i \in DOMAIN Line : Near(i)) \/ ~Near(Len(Line))

\* How give_feature may end with a line, the two ways together.
FeaturesRight == PlanesRepresented /\ StaysInside

=============================================================================

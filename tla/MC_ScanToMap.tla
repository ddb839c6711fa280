----------------------------- MODULE MC_ScanToMap -----------------------------
(* The way of a scan into the map, its five stages each by themselves:       *)
(* FrameAssembly makes it of the packets of a lidar, Preprocess a cloud of   *)
(* it, FastLioSync pairs the cloud with its samples, LocalMap adds it to the *)
(* map around the lidar, and PoseGraph makes a key pose of what FAST-LIO     *)
(* publishes.  A stage takes what it has of the one before, the points of a  *)
(* scan, the length of a cloud or the pose of a message, as any value.       *)
EXTENDS MC_FastLioSync, FrameAssembly, SequencesExt

CONSTANTS
  RawScans, RawSettings, N_SCANS, group_size, FullTurn, NULL,
  Axes, cube_len, DET_RANGE, MaxStep, Reach,
  Positions, Drifts, KeyPoseDelta, MinPoses, SearchRadius, LoopTime, MinDetect,
  MaxStamp, MaxBuffer, MaxPoses

VARIABLES
  part,       \* which of the five; never changes
  scan, setting, pl_surf, pl_buff, types,
  pos_LiD, LocalMap_Points, mapped,
  last_message_time, cloud_buffer, m_key_poses, m_cache_pairs, m_history_pairs,
  m_initial_values, m_graph, isam2, m_offset

APoint == [line |-> 0, valid |-> TRUE, xy |-> 1, z |-> 0, near |-> FALSE, yaw |-> 0, turned |-> 0, time |-> 1]

\* Scans by the fields that matter: to the filters, ...
Plain == [line : {0, 2}, valid : BOOLEAN, pos : {<<0, 0, TRUE>>, <<1, 0, FALSE>>, <<1, 1, FALSE>>, <<1, 1, TRUE>>}]
FilterScans == {[i \in 1 .. 2 |-> [APoint EXCEPT !.line = s[i].line, !.valid = s[i].valid, !.xy = s[i].pos[1],
                                                !.z = s[i].pos[2], !.near = s[i].pos[3]]] :
                  s \in [1 .. 2 -> Plain]}

\* ... to the times (yaw runs from -1 to 2 and falls), and ...
Wrapped(a) == ((a + 1) % FullTurn) - 1
Turned(s, i) == FoldLeft(LAMBDA sum, x : sum + x, 0, SubSeq(s, 1, i))
TimeScans == {[i \in 1 .. 4 |-> [APoint EXCEPT !.line = lines[i], !.time = 0, !.turned = Turned(steps, i),
                                              !.yaw = Wrapped(start - Turned(steps, i))]] :
                start \in {-1, 1}, steps \in {0} \X (0 .. FullTurn) \X (0 .. FullTurn) \X (0 .. FullTurn),
                lines \in {0} \X (0 .. 1) \X (0 .. 1) \X (0 .. 1)}

\* ... to the features.
FeatureScans == {[i \in 1 .. 8 |-> [APoint EXCEPT !.xy = i + 1, !.near = i > 1 /\ near[i - 1]]] :
                   near \in [1 .. 7 -> BOOLEAN]}

MCScans == FilterScans \cup TimeScans \cup FeatureScans
MCSettings == [lidar_type : {"AVIA", "VELO16", "OUST64", "MID360", "DEFAULT"}, feature_enabled : {FALSE},
               point_filter_num : {2}]
                \cup [lidar_type : {"AVIA", "VELO16", "OUST64"}, feature_enabled : {TRUE},
                      point_filter_num : {1, 3}]

\* Lidars can be exchanged for one another.
Symmetry == Permutations(Lidars)

Pre == INSTANCE Preprocess WITH Scans <- RawScans, Settings <- RawSettings

LocalMap == INSTANCE LocalMap

Graph == INSTANCE PoseGraph WITH MaxTime <- MaxStamp

ASSUME StagesAssumption ==
  Pre!PreprocessAssumption /\ LocalMap!LocalMapAssumption /\ Graph!GraphAssumption

preprocessVars == <<scan, setting, pl_surf, pl_buff, types>>
localMapVars == <<pos_LiD, LocalMap_Points, mapped>>
graphVars == <<last_message_time, cloud_buffer, m_key_poses, m_cache_pairs, m_history_pairs,
               m_initial_values, m_graph, isam2, m_offset>>
allVars == <<part, vars, frameVars, preprocessVars, localMapVars, graphVars>>

StagesInit ==
  /\ part \in {"frames", "preprocessing", "buffers", "local map", "graph"}
  /\ FrameInit /\ (part # "frames" => synchronised = {})
  /\ Init /\ (part # "buffers" => steady)
  /\ IF part = "preprocessing" THEN Pre!Init
     ELSE /\ scan = << >> /\ setting \in {s \in RawSettings : s.lidar_type = "DEFAULT"}
          /\ pl_surf = NULL /\ pl_buff = NULL /\ types = NULL
  /\ LocalMap!Init
  /\ Graph!Init /\ (part # "graph" => last_message_time = 0)

StagesNext ==
  \/ part = "frames" /\ FrameNext /\ UNCHANGED <<part, vars, preprocessVars, localMapVars, graphVars>>
  \/ part = "preprocessing" /\ Pre!Next /\ UNCHANGED <<part, vars, frameVars, localMapVars, graphVars>>
  \/ part = "buffers" /\ Next /\ UNCHANGED <<part, frameVars, preprocessVars, localMapVars, graphVars>>
  \/ part = "local map" /\ LocalMap!Next /\ UNCHANGED <<part, vars, frameVars, preprocessVars, graphVars>>
  \/ part = "graph" /\ Graph!Next /\ UNCHANGED <<part, vars, frameVars, preprocessVars, localMapVars>>

StagesSpec == StagesInit /\ [][StagesNext]_allVars

\* The properties of Preprocess, LocalMap and PoseGraph; those of FrameAssembly and
\* FastLioSync go by their names.
TimesFollowRotation == Pre!TimesFollowRotation
PlanesRepresented   == Pre!PlanesRepresented
StaysInside         == Pre!StaysInside
FeaturesRight       == Pre!FeaturesRight
MapIsLocal          == LocalMap!MapIsLocal
LoopsApart          == Graph!LoopsApart
GraphComplete       == Graph!GraphComplete
===============================================================================

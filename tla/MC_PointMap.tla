------------------------------ MODULE MC_PointMap ------------------------------
(* The point map of FAST-LIO, as its two threads and the searches share it   *)
(* (IkdRebuild) and as one thread sees it (IkdTree), each by itself.         *)
EXTENDS IkdRebuild

CONSTANTS
  Dimensions, TreePoints, Boxes, DownsampleSize, Minimal_Unbalanced_Tree_Size, Clouds,
  MaxNeighbours, INFINITY

VARIABLES
  part,     \* which of the two; never changes
  tree, points, restored, tree_ops

Tree == INSTANCE IkdTree WITH Points <- TreePoints, ops <- tree_ops

ASSUME TreeAssumption == Tree!IkdAssumption

treeVars == <<tree, points, restored, tree_ops>>
allVars == <<part, vars, treeVars>>

MCPoints == (0 .. 2) \X (0 .. 1)
MCBoxes  == {b \in [vertex_min : MCPoints, vertex_max : (1 .. 3) \X (1 .. 2)] :
               \A a \in 1 .. 2 : b.vertex_min[a] < b.vertex_max[a]}
MCClouds == {<< <<0, 0>>, <<0, 1>>, <<1, 0>>, <<2, 1>> >>}

MapInit == Init /\ Tree!Init /\ part \in {"tree", "rebuild"}

MapNext == \/ part = "tree" /\ Tree!Next /\ UNCHANGED <<part, vars>>
           \/ part = "tree" /\ UNCHANGED allVars     \* a tree may be left alone
           \/ part = "rebuild" /\ Next /\ UNCHANGED <<part, treeVars>>

\* The fairness of IkdRebuild.
Threads(A) == part = "rebuild" /\ Runs /\ A /\ UNCHANGED <<part, treeVars>>
MapFairness ==
  /\ WF_allVars(Threads(main.at # "idle" /\ MainActs))
  /\ \A s \in Searchers : WF_allVars(Threads(SearcherActs(s)))
  /\ WF_allVars(Threads(RebuilderActs))

MapSpec == MapInit /\ [][MapNext]_allVars /\ MapFairness

\* The properties of IkdTree, which has no tree in the other part; those of IkdRebuild
\* go by their names.
BoxesAgree       == part = "tree" => Tree!BoxesAgree
NearestAgree     == part = "tree" => Tree!NearestAgree
CountersRight    == part = "tree" => Tree!CountersRight
CellKeepsNearest == Tree!CellKeepsNearest
===============================================================================

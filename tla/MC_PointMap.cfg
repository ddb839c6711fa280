SPECIFICATION MapSpec
CONSTANTS
  Dimensions = 2
  TreePoints <- MCPoints
  Boxes <- MCBoxes
  DownsampleSize = 2
  Minimal_Unbalanced_Tree_Size = 4
  Clouds <- MCClouds
  MaxOps = 3
  MaxNeighbours = 2
  INFINITY = 1000000
  NULL = NULL
  Points = {p1, p2}
  Searchers = {s1, s2}
INVARIANTS BoxesAgree NearestAgree CountersRight SearchedTreesLive 
PROPERTIES CellKeepsNearest  RebuildEnds

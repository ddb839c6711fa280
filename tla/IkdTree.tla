------------------------------ MODULE IkdTree ------------------------------
(***************************************************************************)
(* The incremental k-d tree that holds the map of FAST-LIO                 *)
(* (fast_lio/include/ikd-Tree), as its caller sees it while no background  *)
(* rebuild is under way (that is IkdRebuild): deletion marks that are      *)
(* pushed down lazily, counters and ranges kept in every node, subtrees    *)
(* rebuilt in place, and the three kinds of search.                        *)
(*                                                                         *)
(* A tree is NULL or a node with two trees in node.son.  An operator that  *)
(* changes the tree, as even searching does, returns the new tree.         *)
(***************************************************************************)
EXTENDS Integers, Sequences, SequencesExt

CONSTANTS
  Dimensions,                    \* 3 in the code
  Points,                        \* bound: the points that are added
  Boxes,                         \* bound: the boxes that are searched and deleted
  DownsampleSize,                \* downsample_size, in units of a coordinate
  Minimal_Unbalanced_Tree_Size,
  Clouds,                        \* bound: what Build is called with
  MaxOps,                        \* bound: operations after Build
  MaxNeighbours,                 \* bound: neighbours looked for
  INFINITY,
  NULL

IkdAssumption ==
  /\ Dimensions \in 1 .. 3
  /\ \A p \in Points : \A a \in 1 .. Dimensions : p[a] \in Int
  /\ DownsampleSize \in Nat \ {0}

VARIABLES
  tree,      \* Root_Node
  points,    \* for the properties: how often each point was added and not deleted
  restored,  \* for the properties: Add_Point_Boxes was called (see BoxesAgree)
  ops        \* operations since Build

vars == <<tree, points, restored, ops>>

Axes  == 1 .. Dimensions
Sides == {"left", "right"}

Least(S)    == CHOOSE x \in S : \A y \in S : x <= y
Greatest(S) == CHOOSE x \in S : \A y \in S : x >= y

SonsOf(node) == {s \in Sides : node.son[s] # NULL}
Total(node, Count(_)) == LET C(s) == IF node.son[s] = NULL THEN 0 ELSE Count(node.son[s])
                         IN  C("left") + C("right")
One(condition) == IF condition THEN 1 ELSE 0

-----------------------------------------------------------------------------
(* Nodes                                                                   *)

\* Update: counters, marks and range of a node from its sons and its own point.
\* Deleted parts do not count for the range, unless everything is deleted.
Update(node) ==
  LET sons == {node.son[s] : s \in SonsOf(node)}
      dead == node.point_deleted /\ \A n \in sons : n.tree_deleted
      part == {<<n.lo, n.hi>> : n \in {m \in sons : dead \/ ~m.tree_deleted}}
                \cup {<<node.point, node.point>> : x \in {1} \cap {One(dead \/ ~node.point_deleted)}}
  IN  [node EXCEPT
        !.TreeSize                = 1 + Total(node, LAMBDA n : n.TreeSize),
        !.invalid_point_num       = One(node.point_deleted) + Total(node, LAMBDA n : n.invalid_point_num),
        !.down_del_num            = One(node.point_downsample_deleted) + Total(node, LAMBDA n : n.down_del_num),
        !.tree_deleted            = dead,
        !.tree_downsample_deleted = node.point_downsample_deleted /\ \A n \in sons : n.tree_downsample_deleted,
        !.lo = [a \in Axes |-> Least({p[1][a] : p \in part})],
        !.hi = [a \in Axes |-> Greatest({p[2][a] : p \in part})]]

\* InitTreeNode and the first Update
NewNode(point, axis, left, right) ==
  Update([point |-> point, division_axis |-> axis, son |-> [left |-> left, right |-> right],
          TreeSize |-> 0, invalid_point_num |-> 0, down_del_num |-> 0,
          point_deleted |-> FALSE, tree_deleted |-> FALSE,
          point_downsample_deleted |-> FALSE, tree_downsample_deleted |-> FALSE,
          need_push_down |-> {}, lo |-> point, hi |-> point])

\* What a son takes over from the marks of its father.
Inherit(father, son) ==
  LET downsampled == son.tree_downsample_deleted \/ father.tree_downsample_deleted
      point_down  == son.point_downsample_deleted \/ father.tree_downsample_deleted
      deleted     == father.tree_deleted \/ downsampled
      down_num    == IF father.tree_downsample_deleted THEN son.TreeSize ELSE son.down_del_num
  IN  [son EXCEPT
        !.tree_downsample_deleted  = downsampled,
        !.point_downsample_deleted = point_down,
        !.tree_deleted             = deleted,
        !.point_deleted            = deleted \/ point_down,
        !.down_del_num             = down_num,
        !.invalid_point_num        = IF father.tree_deleted THEN son.TreeSize ELSE down_num,
        !.need_push_down           = Sides]

Push_Down(node) ==
  LET due == node.need_push_down \cap SonsOf(node)
  IN  [node EXCEPT
        !.son = [s \in Sides |-> IF s \in due THEN Inherit(node, @[s]) ELSE @[s]],
        !.need_push_down = @ \ due]

(* Mutant: the points deleted with the tree are not counted. *)
MarkDeleted_uncounted(node, is_downsample) ==
  [node EXCEPT
    !.tree_deleted = TRUE, !.point_deleted = TRUE, !.need_push_down = Sides,
    !.tree_downsample_deleted  = @ \/ is_downsample,
    !.point_downsample_deleted = @ \/ is_downsample,
    !.down_del_num             = IF is_downsample THEN node.TreeSize ELSE @]

\* Marks the whole tree deleted, or not deleted (Add_by_range).
MarkDeleted(node, is_downsample) ==
  [node EXCEPT
    !.tree_deleted = TRUE, !.point_deleted = TRUE, !.need_push_down = Sides,
    !.invalid_point_num        = node.TreeSize,
    !.tree_downsample_deleted  = @ \/ is_downsample,
    !.point_downsample_deleted = @ \/ is_downsample,
    !.down_del_num             = IF is_downsample THEN node.TreeSize ELSE @]

MarkAdded(node) ==
  [node EXCEPT
    !.tree_deleted      = node.tree_downsample_deleted,
    !.point_deleted     = node.point_downsample_deleted,
    !.need_push_down    = Sides,
    !.invalid_point_num = node.down_del_num]

(* Mutant: a range that ends where the box begins is passed over. *)
Disjoint_open(box, node) == \E a \in Axes : \/ box.vertex_max[a] <= node.lo[a]
                                            \/ box.vertex_min[a] >= node.hi[a]

Disjoint(box, node) == \E a \in Axes : \/ box.vertex_max[a] <= node.lo[a]
                                       \/ box.vertex_min[a] > node.hi[a]
Covers(box, node)   == \A a \in Axes : /\ box.vertex_min[a] <= node.lo[a]
                                       /\ box.vertex_max[a] > node.hi[a]
InBox(box, point)   == \A a \in Axes : /\ box.vertex_min[a] <= point[a]
                                       /\ box.vertex_max[a] > point[a]

-----------------------------------------------------------------------------
(* Building and rebuilding                                                 *)

RECURSIVE flatten(_)
flatten(node) ==
  IF node = NULL THEN << >>
  ELSE LET n == Push_Down(node)
       IN  (IF n.point_deleted THEN << >> ELSE <<n.point>>)
             \o flatten(n.son["left"]) \o flatten(n.son["right"])

\* nth_element splits at the median of the longest axis; of its possible
\* arrangements, the sorted one.
RECURSIVE BuildTree(_)
BuildTree(Storage) ==
  IF Storage = << >> THEN NULL
  ELSE LET range == [a \in Axes |-> LET c == {Storage[i][a] : i \in DOMAIN Storage}
                                    IN  Greatest(c) - Least(c)]
           axis  == Least({a \in Axes : \A b \in Axes : range[a] >= range[b]})
           order == SortSeq(Storage, LAMBDA p, q : p[axis] < q[axis])
           mid   == (Len(order) + 1) \div 2
       IN  NewNode(order[mid], axis, BuildTree(SubSeq(order, 1, mid - 1)),
                                     BuildTree(SubSeq(order, mid + 1, Len(order))))

\* delete_criterion_param is 1/2 and balance_criterion_param 3/5
Lopsided(node) == LET son == node.son[IF node.son["left"] # NULL THEN "left" ELSE "right"]
                  IN  \/ 5 * son.TreeSize > 3 * (node.TreeSize - 1)
                      \/ 5 * son.TreeSize < 2 * (node.TreeSize - 1)
Criterion_Check(node) ==
  /\ node.TreeSize > Minimal_Unbalanced_Tree_Size
  /\ 2 * node.invalid_point_num > node.TreeSize \/ Lopsided(node)

\* The end of every operation at a node whose sons may have changed; trees
\* here stay below Multi_Thread_Rebuild_Point_Num.
Settle(node) ==
  LET n == Update(node) IN IF Criterion_Check(n) THEN BuildTree(flatten(n)) ELSE n

-----------------------------------------------------------------------------
(* Operations on one point or box                                          *)

RECURSIVE Delete_by_range(_, _, _)
Delete_by_range(node, box, is_downsample) ==
  IF node = NULL THEN NULL
  ELSE IF node.tree_deleted THEN node
  ELSE LET n == Push_Down(node)
           hit == ~n.point_deleted /\ InBox(box, n.point)
       IN  IF Disjoint(box, n) THEN n
           ELSE IF Covers(box, n) THEN MarkDeleted(n, is_downsample)
           ELSE Settle([n EXCEPT
                  !.point_deleted            = @ \/ hit,
                  !.point_downsample_deleted = @ \/ (hit /\ is_downsample),
                  !.son = [s \in Sides |-> Delete_by_range(n.son[s], box, is_downsample)]])

\* tmp_counter, the number of points Delete_by_range says it deleted
RECURSIVE Deleted(_, _)
Deleted(node, box) ==
  IF node = NULL THEN 0
  ELSE IF node.tree_deleted THEN 0
  ELSE LET n == Push_Down(node)
       IN  IF Disjoint(box, n) THEN 0
           ELSE IF Covers(box, n) THEN n.TreeSize - n.invalid_point_num
           ELSE One(~n.point_deleted /\ InBox(box, n.point))
                  + Deleted(n.son["left"], box) + Deleted(n.son["right"], box)

SideOf(node, point) ==
  IF point[node.division_axis] < node.point[node.division_axis] THEN "left" ELSE "right"

RECURSIVE Delete_by_point(_, _)
Delete_by_point(node, point) ==
  IF node = NULL THEN NULL
  ELSE IF node.tree_deleted THEN node
  ELSE LET n == Push_Down(node)
           s == SideOf(n, point)
       IN  IF n.point = point /\ ~n.point_deleted
           THEN [n EXCEPT !.point_deleted = TRUE,
                          !.invalid_point_num = @ + 1,
                          !.tree_deleted = (n.invalid_point_num + 1 = n.TreeSize)]
           ELSE Settle([n EXCEPT !.son[s] = Delete_by_point(@, point)])

RECURSIVE Add_by_point(_, _, _)
Add_by_point(node, point, father_axis) ==
  IF node = NULL THEN NewNode(point, (father_axis % Dimensions) + 1, NULL, NULL)
  ELSE LET n == Push_Down(node)
           s == SideOf(n, point)
       IN  Settle([n EXCEPT !.son[s] = Add_by_point(@, point, n.division_axis)])

RECURSIVE Add_by_range(_, _)
Add_by_range(node, box) ==
  IF node = NULL THEN NULL
  ELSE LET n == Push_Down(node)
       IN  IF Disjoint(box, n) THEN n
           ELSE IF Covers(box, n) THEN MarkAdded(n)
           ELSE Settle([n EXCEPT
                  !.point_deleted = IF InBox(box, n.point) THEN n.point_downsample_deleted ELSE @,
                  !.son = [s \in Sides |-> Add_by_range(n.son[s], box)]])

-----------------------------------------------------------------------------
(* Searches                                                                *)

RECURSIVE Search_by_range(_, _)
Search_by_range(node, box) ==
  IF node = NULL THEN [tree |-> NULL, found |-> << >>]
  ELSE LET n == Push_Down(node)
       IN  IF Disjoint(box, n) THEN [tree |-> n, found |-> << >>]
           ELSE IF Covers(box, n) THEN [tree |-> n, found |-> flatten(n)]
           ELSE LET in == [s \in Sides |-> Search_by_range(n.son[s], box)]
                IN  [tree  |-> [n EXCEPT !.son = [s \in Sides |-> in[s].tree]],
                     found |-> (IF InBox(box, n.point) /\ ~n.point_deleted THEN <<n.point>> ELSE << >>)
                                 \o in["left"].found \o in["right"].found]

Square(x) == x * x
calc_dist(p, q) == FoldLeft(LAMBDA sum, a : sum + Square(p[a] - q[a]), 0, [a \in Axes |-> a])
calc_box_dist(node, p) ==
  FoldLeft(LAMBDA sum, a : sum + (IF p[a] < node.lo[a] THEN Square(p[a] - node.lo[a])
                                  ELSE IF p[a] > node.hi[a] THEN Square(p[a] - node.hi[a]) ELSE 0),
           0, [a \in Axes |-> a])

\* Four times the squares of: the distance of the centre of the range from the
\* point, and radius_sq.
CentreDist(node, p) == FoldLeft(LAMBDA sum, a : sum + Square(node.lo[a] + node.hi[a] - 2 * p[a]),
                                0, [a \in Axes |-> a])
RadiusSq(node)      == calc_dist(node.lo, node.hi)

\* sqrt(d) > r + sqrt(h) and sqrt(d) <= r - sqrt(h), without the roots
Beyond(d, r, h) == LET x == d - r * r - h IN x > 0 /\ x * x > 4 * r * r * h
Inside(d, r, h) == LET x == r * r + h - d IN r * r >= h /\ x >= 0 /\ x * x >= 4 * r * r * h

RECURSIVE Search_by_radius(_, _, _)
Search_by_radius(node, p, radius) ==
  IF node = NULL THEN << >>
  ELSE LET n == Push_Down(node)
           d == CentreDist(n, p)
           h == RadiusSq(n)
       IN  IF Beyond(d, 2 * radius, h) THEN << >>
           ELSE IF Inside(d, 2 * radius, h) THEN flatten(n)
           ELSE (IF ~n.point_deleted /\ calc_dist(n.point, p) <= Square(radius) THEN <<n.point>> ELSE << >>)
                  \o Search_by_radius(n.son["left"], p, radius)
                  \o Search_by_radius(n.son["right"], p, radius)

\* MANUAL_HEAP: the farthest point on top; entry i has its sons at 2i and 2i + 1.
Nearer(a, b) == \/ a.dist < b.dist
                \/ a.dist = b.dist /\ a.point[1] < b.point[1]
Swap(heap, i, j) == [heap EXCEPT ![i] = heap[j], ![j] = heap[i]]

RECURSIVE FloatUp(_, _)
FloatUp(heap, i) ==
  IF i > 1 /\ Nearer(heap[i \div 2], heap[i]) THEN FloatUp(Swap(heap, i, i \div 2), i \div 2)
  ELSE heap

RECURSIVE MoveDown(_, _)
MoveDown(heap, i) ==
  LET l   == 2 * i
      far == IF l + 1 <= Len(heap) /\ Nearer(heap[l], heap[l + 1]) THEN l + 1 ELSE l
  IN  IF l <= Len(heap) /\ Nearer(heap[i], heap[far]) THEN MoveDown(Swap(heap, i, far), far) ELSE heap

push(heap, entry, cap) == IF Len(heap) >= cap THEN heap ELSE FloatUp(Append(heap, entry), Len(heap) + 1)
pop(heap) == IF Len(heap) <= 1 THEN << >>
             ELSE MoveDown([Front(heap) EXCEPT ![1] = Last(heap)], 1)

\* Search takes a point that is near enough, and descends into a son that may
\* hold one; the nearer son first, when both may.
(* Mutant: compared with the entry added last, not with the farthest. *)
Worth_last(q, k, dist) == Len(q) < k \/ dist < q[Len(q)].dist

Worth(q, k, dist) == Len(q) < k \/ dist < q[1].dist

Offer(q, k, point, dist, max_dist_sqr) ==
  IF dist <= max_dist_sqr /\ Worth(q, k, dist)
  THEN push(IF Len(q) >= k THEN pop(q) ELSE q, [point |-> point, dist |-> dist], 2 * k)
  ELSE q

RECURSIVE Search(_, _, _, _, _)
Search(node, k, p, q, max_dist_sqr) ==
  IF node = NULL THEN [tree |-> NULL, q |-> q]
  ELSE IF node.tree_deleted \/ calc_box_dist(node, p) > max_dist_sqr THEN [tree |-> node, q |-> q]
  ELSE LET n  == Push_Down(node)
           q0 == IF n.point_deleted THEN q
                 ELSE Offer(q, k, n.point, calc_dist(p, n.point), max_dist_sqr)
           none(s)  == n.son[s] = NULL
           dist(s)  == calc_box_dist(n.son[s], p)
           worth(heap, s) == ~none(s) /\ Worth(heap, k, dist(s))
           near     == IF \/ none("right")
                          \/ ~none("left") /\ dist("left") <= dist("right")
                          \/ Len(q0) >= k /\ ~(worth(q0, "left") /\ worth(q0, "right"))
                       THEN "left" ELSE "right"
           other    == IF near = "left" THEN "right" ELSE "left"
           visit(heap, s) == IF worth(heap, s) THEN Search(n.son[s], k, p, heap, max_dist_sqr)
                             ELSE [tree |-> n.son[s], q |-> heap]
           first    == visit(q0, near)
           second   == visit(first.q, other)
       IN  [tree |-> [n EXCEPT !.son = [s \in Sides |-> IF s = near THEN first.tree ELSE second.tree]],
            q    |-> second.q]

\* The distances Nearest_Search returns, nearest first.
RECURSIVE Drain(_)
Drain(q) == IF q = << >> THEN << >> ELSE Append(Drain(pop(q)), q[1].dist)

Nearest_Search(node, p, k, max_dist_sqr) == Drain(Search(node, k, p, << >>, max_dist_sqr).q)

-----------------------------------------------------------------------------
(* The operations of the interface                                         *)

\* The cell of a point, and twice the distance vector to its middle.
CellOf(p) ==
  LET low == [a \in Axes |-> (p[a] \div DownsampleSize) * DownsampleSize]
  IN  [vertex_min |-> low, vertex_max |-> [a \in Axes |-> low[a] + DownsampleSize]]
FromMiddle(p, box) ==
  calc_dist([a \in Axes |-> 2 * p[a]], [a \in Axes |-> box.vertex_min[a] + box.vertex_max[a]])

\* Add_Points with downsampling: of a new point and those of its cell, the one nearest
\* to the middle is kept, the new one if it is as near.
(* Mutant: compared with the new point, not with the best so far. *)
downsample_result_new(p, Storage) ==
  FoldLeft(LAMBDA best, x : IF FromMiddle(x, CellOf(p)) < FromMiddle(p, CellOf(p)) THEN x ELSE best,
           p, Storage)

downsample_result(p, Storage) ==
  FoldLeft(LAMBDA best, x : IF FromMiddle(x, CellOf(p)) < FromMiddle(best, CellOf(p)) THEN x ELSE best,
           p, Storage)

AddDownsampled(node, p) ==
  LET in   == Search_by_range(node, CellOf(p))
      best == downsample_result(p, in.found)
      rest == IF in.found # << >> THEN Delete_by_range(in.tree, CellOf(p), TRUE) ELSE in.tree
  IN  IF Len(in.found) > 1 \/ best = p THEN Add_by_point(rest, best, rest.division_axis) ELSE in.tree

CountOf(Storage, p) == Len(SelectSeq(Storage, LAMBDA x : x = p))
BagOf(Storage)      == [p \in Points |-> CountOf(Storage, p)]

Init == tree = NULL /\ points = BagOf(<< >>) /\ restored = FALSE /\ ops = 0

\* laserMapping.cpp builds only while there is no tree, and adds only when there is one.
Build(cloud) == /\ tree = NULL /\ ops = 0
                /\ tree' = BuildTree(cloud) /\ points' = BagOf(cloud) /\ UNCHANGED <<restored, ops>>

Operation == tree # NULL /\ ops < MaxOps /\ ops' = ops + 1

Add_Points(p) ==
  /\ Operation
  /\ tree' = Add_by_point(tree, p, tree.division_axis)
  /\ points' = [points EXCEPT ![p] = @ + 1] /\ UNCHANGED restored

Add_Points_Downsampled(p) ==
  /\ Operation
  /\ tree' = AddDownsampled(tree, p)
  /\ points' = [x \in Points |-> IF InBox(CellOf(p), x) THEN BagOf(flatten(tree'))[x] ELSE points[x]]
  /\ UNCHANGED restored

Delete_Point_Boxes(box) ==
  /\ Operation
  /\ tree' = Delete_by_range(tree, box, FALSE)
  /\ points' = [p \in Points |-> IF InBox(box, p) THEN 0 ELSE points[p]] /\ UNCHANGED restored

Delete_Points(p) ==
  /\ Operation
  /\ tree' = Delete_by_point(tree, p)
  /\ points' = [points EXCEPT ![p] = CountOf(flatten(tree'), p)] /\ UNCHANGED restored

Add_Point_Boxes(box) ==
  /\ Operation
  /\ tree' = Add_by_range(tree, box)
  /\ points' = BagOf(flatten(tree')) /\ restored' = TRUE

Box_Search(box) == /\ tree # NULL
                   /\ tree' = Search_by_range(tree, box).tree
                   /\ UNCHANGED <<points, restored, ops>>

NearestSearch(p, k) == /\ tree # NULL
                       /\ tree' = Search(tree, k, p, << >>, INFINITY).tree
                       /\ UNCHANGED <<points, restored, ops>>

Next == \/ \E cloud \in Clouds : Build(cloud)
        \/ \E p \in Points : \/ Add_Points(p) \/ Add_Points_Downsampled(p) \/ Delete_Points(p)
                             \/ \E k \in 1 .. MaxNeighbours : NearestSearch(p, k)
        \/ \E box \in Boxes : \/ Delete_Point_Boxes(box) \/ Add_Point_Boxes(box) \/ Box_Search(box)

Spec == Init /\ [][Next]_vars

-----------------------------------------------------------------------------
(* Properties                                                              *)

RECURSIVE Pushed(_)
Pushed(node) ==   \* the tree with nothing left to push down
  IF node = NULL THEN NULL
  ELSE LET n == Push_Down(node) IN [n EXCEPT !.son = [s \in Sides |-> Pushed(n.son[s])]]

RECURSIVE NodesOf(_)
NodesOf(node) == IF node = NULL THEN << >>
                 ELSE <<node>> \o NodesOf(node.son["left"]) \o NodesOf(node.son["right"])

Number(nodes, Test(_)) == Len(SelectSeq(nodes, Test))

\* What a box search finds and what a box deletion says it deletes are the points
\* added and not deleted that lie in the box.
BoxesAgree ==
  ~restored => \A box \in Boxes :
    LET found == Search_by_range(tree, box).found
    IN  /\ \A p \in Points : CountOf(found, p) = IF InBox(box, p) THEN points[p] ELSE 0
        /\ Deleted(tree, box) = Len(found)

\* The distances of all points, nearest first.
Sorted(p) == SortSeq(flatten(tree), LAMBDA x, y : calc_dist(p, x) < calc_dist(p, y))

\* Neither pruning by ranges nor the heap loses a neighbour; the radius search finds
\* the points in the ball.
NearestAgree ==
  ~restored => \A p \in Points, k \in 1 .. MaxNeighbours :
    /\ LET all   == Sorted(p)
           found == Nearest_Search(tree, p, k, INFINITY)
       IN  /\ Len(found) = IF Len(all) < k THEN Len(all) ELSE k
           /\ \A i \in DOMAIN found : found[i] = calc_dist(p, all[i])
    /\ \A x \in Points : CountOf(Search_by_radius(tree, p, k), x)
                           = IF calc_dist(p, x) <= k * k THEN points[x] ELSE 0

\* Counters and marks of every node are those of its subtree, once what its
\* ancestors still have to pass on has arrived; what downsampling took stays deleted.
CountersRight ==
  \A n \in Range(NodesOf(Pushed(tree))) :
    LET all == NodesOf(n)
    IN  /\ n.TreeSize = Len(all)
        /\ n.invalid_point_num = Number(all, LAMBDA x : x.point_deleted)
        /\ n.down_del_num = Number(all, LAMBDA x : x.point_downsample_deleted)
        /\ n.tree_deleted <=> n.invalid_point_num = n.TreeSize
        /\ n.point_downsample_deleted => n.point_deleted

\* A cell into which a point was added with downsampling holds one point, one of
\* those nearest to its middle among the old ones and the new one.
CellKeepsNearest ==
  [][\A p \in Points : ~restored /\ Add_Points_Downsampled(p) =>
       LET cell == {x \in Points : InBox(CellOf(p), x)}
           kept == SelectSeq(flatten(tree'), LAMBDA x : x \in cell)
       IN  /\ Len(kept) = 1
           /\ kept[1] = p \/ points[kept[1]] > 0
           /\ \A x \in cell : x = p \/ points[x] > 0 =>
                FromMiddle(kept[1], CellOf(p)) <= FromMiddle(x, CellOf(p))]_vars

=============================================================================

-------------------------------- MODULE IkdTree --------------------------------
(* The k-d tree of KD_TREE as a value: what building, adding, deleting boxes,    *)
(* pushing down, rebuilding and searching make of it, without the rebuild thread *)
(* (IkdRebuild has that).  Distances are squared.                                *)

EXTENDS Space, Sequences, SequencesExt, FiniteSetsExt

CONSTANTS
    MinUnbalanced,  \* Minimal_Unbalanced_Tree_Size
    VoxelSize       \* downsample_size

ASSUME TreeAssumption == VoxelSize \in Nat \ {0} /\ MinUnbalanced \in Nat

\* No node.  Its size is what Update counts for a son that is not there.
Nil == [size |-> 0, inv |-> 0, down |-> 0, td |-> TRUE, tdd |-> TRUE]
IsNil(n) == n.size = 0

Number(b) == IF b THEN 1 ELSE 0

-------------------------------------------------------------------------------
(* Ranges.                                                                     *)

Bounds(boxes) ==
    [lo |-> [i \in Dims |-> Min({b.lo[i] : b \in boxes})],
     hi |-> [i \in Dims |-> Max({b.hi[i] : b \in boxes})]]

PointRange(p) == [lo |-> p, hi |-> p]

Outside(box, rng) == \E i \in Dims : box.hi[i] <= rng.lo[i] \/ box.lo[i] > rng.hi[i]
CoversRange(box, rng) == \A i \in Dims : box.lo[i] <= rng.lo[i] /\ box.hi[i] > rng.hi[i]
InBox(p, box) == CoversRange(box, PointRange(p))

Square(d) == d * d
Dist(p, q) == FoldLeft(LAMBDA s, i : s + Square(p[i] - q[i]), 0, [i \in Dims |-> i])

\* calc_box_dist; a son that is not there is farther than anything.
Infinity == 1000000
BoxDist(n, p) ==
    IF IsNil(n) THEN Infinity
    ELSE FoldLeft(LAMBDA s, i :
                    s + (IF p[i] < n.rng.lo[i] THEN Square(p[i] - n.rng.lo[i])
                         ELSE IF p[i] > n.rng.hi[i] THEN Square(p[i] - n.rng.hi[i]) ELSE 0),
                  0, [i \in Dims |-> i])

-------------------------------------------------------------------------------
(* Update and Push_Down.                                                       *)

\* The parts a node's range is taken from: all of them when all or none are
\* deleted, otherwise those that are not.
Parts(n) ==
    {[rng |-> PointRange(n.pt), td |-> n.pd]}
        \cup {[rng |-> s.rng, td |-> s.td] : s \in {x \in {n.l, n.r} : ~IsNil(x)}}

RangeOf(parts) ==
    LET left == {x \in parts : ~x.td} IN
    Bounds({x.rng : x \in (IF left = {} THEN parts ELSE left)})

Update(n) ==
    [n EXCEPT
        !.size = n.l.size + n.r.size + 1,
        !.inv = n.l.inv + n.r.inv + Number(n.pd),
        !.down = n.l.down + n.r.down + Number(n.pdd),
        !.tdd = n.l.tdd /\ n.r.tdd /\ n.pdd,
        !.td = n.l.td /\ n.r.td /\ n.pd,
        !.rng = RangeOf(Parts(n))]

\* What Push_Down makes of a son.
Pushed(son, father) ==
    LET tdd == son.tdd \/ father.tdd
        td == father.td \/ tdd
        pdd == son.pdd \/ father.tdd
        down == IF father.tdd THEN son.size ELSE son.down
    IN  [son EXCEPT !.tdd = tdd, !.td = td, !.pdd = pdd, !.pd = td \/ pdd, !.down = down,
                    !.inv = IF father.td THEN son.size ELSE down, !.nl = TRUE, !.nr = TRUE]

PushDown(n) ==
    LET left == n.nl /\ ~IsNil(n.l)
        right == n.nr /\ ~IsNil(n.r)
    IN  [n EXCEPT !.l = IF left THEN Pushed(n.l, n) ELSE n.l, !.nl = n.nl /\ ~left,
                  !.r = IF right THEN Pushed(n.r, n) ELSE n.r, !.nr = n.nr /\ ~right]

\* flatten: the points left, and the tree with every node pushed down.
RECURSIVE Flatten(_)
Flatten(node) ==
    IF IsNil(node) THEN [n |-> node, found |-> <<>>]
    ELSE LET n == PushDown(node)
             left == Flatten(n.l)
             right == Flatten(n.r)
         IN  [n |-> [n EXCEPT !.l = left.n, !.r = right.n],
              found |-> (IF n.pd THEN <<>> ELSE <<n.pt>>) \o left.found \o right.found]

-------------------------------------------------------------------------------
(* BuildTree and Rebuild.                                                      *)

Leaf(p, axis) ==
    [pt |-> p, axis |-> axis, size |-> 1, inv |-> 0, down |-> 0, pd |-> FALSE, td |-> FALSE,
     pdd |-> FALSE, tdd |-> FALSE, nl |-> FALSE, nr |-> FALSE, rng |-> PointRange(p),
     l |-> Nil, r |-> Nil]

\* The first of the longest sides.
DivisionAxis(points) ==
    LET range == Bounds({PointRange(p) : p \in ToSet(points)})
        side(i) == range.hi[i] - range.lo[i]
    IN  CHOOSE i \in Dims : \A j \in Dims : side(j) <= side(i) /\ (j < i => side(j) < side(i))

RECURSIVE BuildTree(_)
BuildTree(points) ==
    IF points = <<>> THEN Nil
    ELSE LET axis == DivisionAxis(points)
             sorted == SortSeq(points, LAMBDA p, q : p[axis] < q[axis])
             mid == (Len(points) + 1) \div 2
         IN  Update([Leaf(sorted[mid], axis) EXCEPT
                        !.l = BuildTree(SubSeq(sorted, 1, mid - 1)),
                        !.r = BuildTree(SubSeq(sorted, mid + 1, Len(points)))])

\* delete_criterion_param = 0.5 and balance_criterion_param = 0.6.
CriterionCheck(n) ==
    LET son == IF IsNil(n.l) THEN n.r ELSE n.l IN
    /\ n.size > MinUnbalanced
    /\ \/ 2 * n.inv > n.size
       \/ 10 * son.size > 6 * (n.size - 1)
       \/ 10 * son.size < 4 * (n.size - 1)

Rebuild(n) == BuildTree(Flatten(n).found)

\* The end of every change on its way back.
Finish(n) == LET u == Update(n) IN IF CriterionCheck(u) THEN Rebuild(u) ELSE u

-------------------------------------------------------------------------------
(* Add_by_point and Delete_by_range.                                           *)

RECURSIVE AddByPoint(_, _, _)
AddByPoint(node, p, fatherAxis) ==
    IF IsNil(node) THEN Leaf(p, (fatherAxis % Axes) + 1)
    ELSE LET n == PushDown(node) IN
         IF p[n.axis] < n.pt[n.axis]
         THEN Finish([n EXCEPT !.l = AddByPoint(n.l, p, n.axis)])
         ELSE Finish([n EXCEPT !.r = AddByPoint(n.r, p, n.axis)])

MarkDeleted(n, downsample) ==
    [n EXCEPT !.td = TRUE, !.pd = TRUE, !.nl = TRUE, !.nr = TRUE, !.inv = n.size,
              !.tdd = n.tdd \/ downsample, !.pdd = n.pdd \/ downsample,
              !.down = IF downsample THEN n.size ELSE n.down]

RECURSIVE DeleteByRange(_, _, _)
DeleteByRange(node, box, downsample) ==
    IF IsNil(node) \/ node.td THEN node
    ELSE LET n == PushDown(node)
             hit == ~n.pd /\ InBox(n.pt, box)
         IN  IF Outside(box, n.rng) THEN n
             ELSE IF CoversRange(box, n.rng) THEN MarkDeleted(n, downsample)
             ELSE Finish([n EXCEPT !.pd = n.pd \/ hit, !.pdd = n.pdd \/ (hit /\ downsample),
                                   !.l = DeleteByRange(n.l, box, downsample),
                                   !.r = DeleteByRange(n.r, box, downsample)])

-------------------------------------------------------------------------------
(* MANUAL_HEAP: the farthest point on top; equal distances go by the first      *)
(* coordinate.  heap[i] is heap[i - 1] of the code.                            *)

Nearer(c, d) == c.dist < d.dist \/ (c.dist = d.dist /\ c.pt[1] < d.pt[1])

Swap(s, i, j) == [s EXCEPT ![i] = s[j], ![j] = s[i]]

RECURSIVE FloatUp(_, _)
FloatUp(heap, i) ==
    IF i > 1 /\ Nearer(heap[i \div 2], heap[i]) THEN FloatUp(Swap(heap, i, i \div 2), i \div 2) ELSE heap

RECURSIVE MoveDown(_, _)
MoveDown(heap, i) ==
    LET l == 2 * i
        son == IF l + 1 <= Len(heap) /\ Nearer(heap[l], heap[l + 1]) THEN l + 1 ELSE l
    IN  IF l <= Len(heap) /\ Nearer(heap[i], heap[son]) THEN MoveDown(Swap(heap, i, son), son) ELSE heap

Push(heap, c) == FloatUp(Append(heap, c), Len(heap) + 1)
Pop(heap) == IF heap = <<>> THEN heap ELSE MoveDown(SubSeq([heap EXCEPT ![1] = Last(heap)], 1, Len(heap) - 1), 1)

-------------------------------------------------------------------------------
(* Search and Nearest_Search.                                                  *)

\* The k nearest so far, with one more point offered.
Offer(q, k, pt, p) ==
    LET d == Dist(p, pt) IN
    IF Len(q) < k \/ d < q[1].dist
    THEN Push(IF Len(q) >= k THEN Pop(q) ELSE q, [pt |-> pt, dist |-> d])
    ELSE q

\* Mutant: no subtree is looked at once k points are found.
Promising_Full(q, k, d) == Len(q) < k

Promising(q, k, d) == Len(q) < k \/ d < q[1].dist

\* The nearer son is searched first; the second only if it is still promising.
\* With the heap full and one of them not promising the left comes first.
RECURSIVE Search(_, _, _, _)
Search(node, k, p, q) ==
    IF IsNil(node) \/ node.td THEN [n |-> node, q |-> q]
    ELSE LET n == PushDown(node)
             q0 == IF n.pd THEN q ELSE Offer(q, k, n.pt, p)
             dl == BoxDist(n.l, p)
             dr == BoxDist(n.r, p)
             leftFirst == dl <= dr \/ ~(Promising(q0, k, dl) /\ Promising(q0, k, dr))
             visit(son, d, heap) ==
                IF Promising(heap, k, d) THEN Search(son, k, p, heap) ELSE [n |-> son, q |-> heap]
         IN  IF leftFirst
             THEN LET a == visit(n.l, dl, q0)
                      b == visit(n.r, dr, a.q)
                  IN  [n |-> [n EXCEPT !.l = a.n, !.r = b.n], q |-> b.q]
             ELSE LET b == visit(n.r, dr, q0)
                      a == visit(n.l, dl, b.q)
                  IN  [n |-> [n EXCEPT !.l = a.n, !.r = b.n], q |-> a.q]

\* The heap emptied from the top to the front of the result.
RECURSIVE Drained(_)
Drained(q) == IF q = <<>> THEN <<>> ELSE Append(Drained(Pop(q)), q[1])

NearestSearch(tree, p, k) ==
    LET s == Search(tree, k, p, <<>>) IN [n |-> s.n, found |-> Drained(s.q)]

RECURSIVE SearchByRange(_, _)
SearchByRange(node, box) ==
    IF IsNil(node) THEN [n |-> node, found |-> <<>>]
    ELSE LET n == PushDown(node) IN
         IF Outside(box, n.rng) THEN [n |-> n, found |-> <<>>]
         ELSE IF CoversRange(box, n.rng) THEN Flatten(n)
         ELSE LET left == SearchByRange(n.l, box)
                  right == SearchByRange(n.r, box)
              IN  [n |-> [n EXCEPT !.l = left.n, !.r = right.n],
                   found |-> (IF ~n.pd /\ InBox(n.pt, box) THEN <<n.pt>> ELSE <<>>)
                                \o left.found \o right.found]

-------------------------------------------------------------------------------
(* Add_Points and Delete_Point_Boxes.                                          *)

VoxelOf(p) ==
    LET low == [i \in Dims |-> (p[i] \div VoxelSize) * VoxelSize] IN
    [lo |-> low, hi |-> [i \in Dims |-> low[i] + VoxelSize]]

\* The distance from the middle of a box, all coordinates doubled.
MidDist(p, box) == Dist([i \in Dims |-> 2 * p[i]], [i \in Dims |-> box.lo[i] + box.hi[i]])

\* The first of the nearest, the new point before the others.
DownsampleResult(p, found, box) ==
    FoldLeft(LAMBDA best, q : IF MidDist(q, box) < MidDist(best, box) THEN q ELSE best, p, found)

AddDownsampled(tree, p) ==
    LET box == VoxelOf(p)
        search == SearchByRange(tree, box)
        result == DownsampleResult(p, search.found, box)
        cleared == IF search.found = <<>> THEN search.n ELSE DeleteByRange(search.n, box, TRUE)
    IN  IF Len(search.found) > 1 \/ result = p
        THEN AddByPoint(cleared, result, cleared.axis)
        ELSE search.n

AddPlain(tree, p) == AddByPoint(tree, p, tree.axis)

DeleteBox(tree, box) == DeleteByRange(tree, box, FALSE)
===============================================================================

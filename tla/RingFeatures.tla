------------------------------ MODULE RingFeatures -----------------------------
(* extract_cloud_method 3, Airy only: of every ring of a scan the corners and the  *)
(* surface, with the arrays that outlive the scan.  A point is its column and its  *)
(* range.  Indices into the cloud and the arrays begin with 0.                    *)

EXTENDS Integers, Sequences, FiniteSetsExt

CONSTANTS
    Reach,              \* neighbours of a point to either side: 5
    RingParts,          \* parts of a ring: 6
    MostPicked,         \* corners of a part: 20
    ColumnJump,         \* columns between two neighbours: 10
    DepthJump,          \* range between an occluded point and its neighbour: 0.3 m
    EdgeCurvature,      \* edge_curv_thr_
    Slots,              \* ring_cnt_ * col_cnt_: the size of the arrays
    Scans               \* the scans there may be

\* What msg2pcl_feat_pre leaves: the points that pass, ring after ring, and how many they
\* are up to the end of each ring.  (From the ring on whose offset in the message is
\* beyond a byte, w_step, what is read as a ring is another one.)
IsScan(s) ==
    /\ s.cloud \in Seq([range : Nat, col : Nat]) /\ Len(s.cloud) <= Slots
    /\ s.upTo \in Seq(Nat)
    /\ \A r \in DOMAIN s.upTo : s.upTo[r] <= Len(s.cloud)
    /\ \A q, r \in DOMAIN s.upTo : q <= r => s.upTo[q] <= s.upTo[r]

ASSUME FeatureAssumption ==
    /\ {Reach, RingParts, MostPicked, Slots} \subseteq Nat \ {0} /\ Reach <= Slots
    /\ {ColumnJump, DepthJump, EdgeCurvature} \subseteq Nat
    /\ \A s \in Scans : IsScan(s)

VARIABLES
    scan,       \* cloud_dense_, pnt_range_ and the ends of the rings
    picked,     \* cloud_neighbor_picked_: the points not to be picked
    label,      \* cloud_label_: the points that were corners
    curv,       \* cloud_curvature_
    smooth,     \* cloud_smoothness_: the list that is sorted
    pointCol,   \* pnt_col_idx_
    step,       \* where extract_feature_points is
    ring, part, \* its loops over rings and parts: from 1
    entry,      \* its loop over the entries of a part
    taken,      \* largest_picked_num
    corners,    \* cloud_corner_, as indices
    surface,    \* cloud_surface_, as indices
    stale,      \* the point the entry before the first that is filled had named
    outside     \* a column outside of the array has been read

arrays == <<picked, label, curv, smooth, pointCol>>
loops == <<step, ring, part, entry, taken>>
features == <<scan, arrays, loops, corners, surface, stale, outside>>

Indices == 0..(Slots - 1)

\* The arrays are not initialised, but for the list, whose entries are zero.
FeaturesBegin(wasPicked, wasLabel, wasCurv) ==
    /\ scan = [cloud |-> <<>>, upTo |-> <<>>]
    /\ picked = wasPicked /\ label = wasLabel /\ curv = wasCurv
    /\ smooth = [i \in Indices |-> [value |-> 0, idx |-> 0]]
    /\ pointCol = [i \in Indices |-> 0]
    /\ step = "idle" /\ ring = 1 /\ part = 1 /\ entry = 0 /\ taken = 0
    /\ corners = <<>> /\ surface = {} /\ stale = 0 /\ outside = FALSE

FeaturesInit ==
    \E wasPicked, wasLabel \in SUBSET Indices, wasCurv \in [Indices -> Nat] :
        FeaturesBegin(wasPicked, wasLabel, wasCurv)

-------------------------------------------------------------------------------
(* cal_smoothness and mark_occluded_points.                                      *)

PointAt(s, i) == s.cloud[i + 1]
AbsDiff(a, b) == IF a > b THEN a - b ELSE b - a

\* The indices with neighbours on both sides.
Inner(s) == Reach..(Len(s.cloud) - 1 - Reach)

Curvature(s, i) ==
    LET diff == MapThenSumSet(LAMBDA k : PointAt(s, i - k).range + PointAt(s, i + k).range, 1..Reach)
                    - 2 * Reach * PointAt(s, i).range
    IN  diff * diff

\* The farther side of a jump in depth, and points on a beam along a surface.
Hidden(s, i) ==
    LET range(j) == PointAt(s, j).range
        near == AbsDiff(PointAt(s, i + 1).col, PointAt(s, i).col) < ColumnJump
        grazed == \A j \in {i - 1, i + 1} : 50 * AbsDiff(range(i), range(j)) > range(i)
    IN  (IF near /\ range(i) - range(i + 1) > DepthJump THEN (i - Reach)..i ELSE {})
        \cup (IF near /\ range(i + 1) - range(i) > DepthJump THEN (i + 1)..(i + Reach + 1) ELSE {})
        \cup (IF grazed THEN {i} ELSE {})

Occluded(s) == UNION {Hidden(s, i) : i \in Reach..(Len(s.cloud) - 2 - Reach)}

TakeScan(s) ==
    /\ step = "idle" /\ step' = "part"
    /\ scan' = s /\ stale' = smooth[Reach - 1].idx
    /\ curv' = [i \in Indices |-> IF i \in Inner(s) THEN Curvature(s, i) ELSE curv[i]]
    /\ smooth' = [i \in Indices |-> IF i \in Inner(s) THEN [value |-> Curvature(s, i), idx |-> i]
                                    ELSE smooth[i]]
    /\ pointCol' = [i \in Indices |-> IF i < Len(s.cloud) THEN PointAt(s, i).col ELSE pointCol[i]]
    /\ label' = label \ Inner(s)
    /\ picked' = (picked \ Inner(s)) \cup Occluded(s)
    /\ corners' = <<>> /\ surface' = {} /\ outside' = FALSE
    /\ ring' = 1 /\ part' = 1
    /\ UNCHANGED <<entry, taken>>

-------------------------------------------------------------------------------
(* extract_feature_points, ring by ring and part by part.                        *)

\* ring_index_start_ and ring_index_end_: the ends, less the neighbours; the start is
\* one less than that.
RingStart(r) == (IF r = 1 THEN 0 ELSE scan.upTo[r - 1]) - 1 + Reach
RingEnd(r) == scan.upTo[r] - 1 - Reach

\* Where the division would round a negative number there is no part.
Cut(r, j) == (RingStart(r) * (RingParts - j) + RingEnd(r) * j) \div RingParts

Sp == Cut(ring, part - 1)
Ep == Cut(ring, part) - 1

AtPart == step = "part" /\ ring \in DOMAIN scan.upTo

NextPart ==
    /\ part' = IF part = RingParts THEN 1 ELSE part + 1
    /\ ring' = IF part = RingParts THEN ring + 1 ELSE ring

SkipPart ==
    /\ AtPart /\ Sp >= Ep
    /\ NextPart
    /\ UNCHANGED <<scan, arrays, step, entry, taken, corners, surface, stale, outside>>

\* The ways to sort some entries of the list: of equal ones the order is std::sort's affair.
Sortings(places) ==
    {order \in [places -> places] :
        \A i, j \in places : /\ i < j => smooth[order[i]].value <= smooth[order[j]].value
                             /\ order[i] = order[j] => i = j}

\* From sp to before ep: the entry at ep stays.
SortPart ==
    /\ AtPart /\ Sp < Ep
    /\ \E order \in Sortings(Sp..(Ep - 1)) :
          smooth' = [k \in Indices |-> IF k \in Sp..(Ep - 1) THEN smooth[order[k]] ELSE smooth[k]]
    /\ step' = "pick" /\ entry' = Ep /\ taken' = 0
    /\ UNCHANGED <<scan, picked, label, curv, pointCol, ring, part, corners, surface, stale, outside>>

Candidate == smooth[entry].idx
Eligible == Candidate \notin picked /\ curv[Candidate] > EdgeCurvature

\* From the end of the part: the largest curvature first, but for the entry at ep.
PassOver ==
    /\ step = "pick" /\ entry >= Sp /\ ~Eligible
    /\ entry' = entry - 1
    /\ UNCHANGED <<scan, arrays, step, ring, part, taken, corners, surface, stale, outside>>

\* Mutant: only the neighbours that follow are marked.
Around_Ahead(ind) ==
    {q \in Indices : /\ q \in ind..(ind + Reach)
                     /\ \A m \in (ind + 1)..q : AbsDiff(pointCol[m], pointCol[m - 1]) <= ColumnJump}

Lower(a, b) == IF a < b THEN a ELSE b
Upper(a, b) == IF a < b THEN b ELSE a

\* A corner and its neighbours to either side, as far as no column is missing.
Around(ind) ==
    {q \in Indices : /\ AbsDiff(q, ind) <= Reach
                     /\ \A m \in (Lower(q, ind) + 1)..Upper(q, ind) :
                           AbsDiff(pointCol[m], pointCol[m - 1]) <= ColumnJump}

\* With no column missing the loop goes on beyond an end of the array: outside says so,
\* and what it reads and marks there is left out.
LooksOutside(ind) ==
    \/ ind < Reach /\ \A m \in 1..ind : AbsDiff(pointCol[m], pointCol[m - 1]) <= ColumnJump
    \/ ind + Reach >= Slots
       /\ \A m \in (ind + 1)..(Slots - 1) : AbsDiff(pointCol[m], pointCol[m - 1]) <= ColumnJump

PickCorner ==
    /\ step = "pick" /\ entry >= Sp /\ Eligible /\ taken < MostPicked
    /\ taken' = taken + 1 /\ entry' = entry - 1
    /\ corners' = Append(corners, Candidate)
    /\ label' = label \cup {Candidate}
    /\ picked' = picked \cup Around(Candidate)
    /\ outside' = (outside \/ LooksOutside(Candidate))
    /\ UNCHANGED <<scan, curv, smooth, pointCol, step, ring, part, surface, stale>>

\* No entry is left, or there is one corner too many: what is no corner is surface.  (The
\* voxel grid that thins the surface is left out.)
EndPart ==
    /\ step = "pick" /\ (entry < Sp \/ (Eligible /\ taken = MostPicked))
    /\ surface' = surface \cup ((Sp..Ep) \ label)
    /\ step' = "part" /\ NextPart
    /\ UNCHANGED <<scan, arrays, entry, taken, corners, stale, outside>>

ScanDone ==
    /\ step = "part" /\ ring \notin DOMAIN scan.upTo
    /\ step' = "idle"
    /\ UNCHANGED <<scan, arrays, ring, part, entry, taken, corners, surface, stale, outside>>

ExtractStep == SkipPart \/ SortPart \/ PassOver \/ PickCorner \/ EndPart \/ ScanDone
FeatureStep == (\E s \in Scans : TakeScan(s)) \/ ExtractStep

-------------------------------------------------------------------------------

\* No corner is taken twice or beside another one, unless a column is missing between
\* the two.
CornersApart ==
    \A i, j \in DOMAIN corners : i # j =>
        LET lo == Lower(corners[i], corners[j])
            hi == Upper(corners[i], corners[j])
        IN  \/ hi - lo > Reach
            \/ \E m \in (lo + 1)..hi : /\ m < Len(scan.cloud)
                                       /\ AbsDiff(PointAt(scan, m).col, PointAt(scan, m - 1).col) > ColumnJump

\* The indices of a part; none if it is left out.
PartOf(r, j) == IF Cut(r, j - 1) < Cut(r, j) - 1 THEN Cut(r, j - 1)..(Cut(r, j) - 1) ELSE {}

\* Every point of a part is a corner or surface, and no other point is a corner, but for
\* the index before the first that cal_smoothness fills: it belongs to the first part of
\* the first ring, its label is from earlier scans, and so is the point its entry names.
RestIsSurface ==
    LET all == UNION {PartOf(r, j) : r \in DOMAIN scan.upTo, j \in 1..RingParts}
        angular == {corners[i] : i \in DOMAIN corners}
    IN  /\ all \ {Reach - 1} \subseteq surface \cup angular
        /\ surface \subseteq all /\ surface \cap angular = {}
        /\ angular \subseteq (all \ {Reach - 1}) \cup {stale}

\* The arrays are left only around the first point, taken for a corner by a memory that
\* was never written: while the entry before the first that is filled has still got the
\* zero it was made with.
OutsideByTheZero == outside => stale = 0 /\ \E i \in DOMAIN corners : corners[i] = 0
===============================================================================

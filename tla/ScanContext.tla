------------------------------ MODULE ScanContext ------------------------------
(* ScanContext: where a relocalization begins.  A scan is told by its descriptor: *)
(* the height in each ring of each sector around the lidar.  SCManager compares   *)
(* the descriptors of the map's keyframes with those of the scan, moved to each    *)
(* of the search translations and turned, and GlobalLocalization makes of the best  *)
(* match the pose at which ICP begins.                                           *)
(*                                                                               *)
(* There are four sectors, so that a turn by one of them is exact, and every point  *)
(* has the same height: a column of a descriptor is the set of its rings.  Cosines  *)
(* are in thousandths.                                                           *)

EXTENDS Integers, Sequences, FiniteSetsExt, SequencesExt

CONSTANTS
    Rings,          \* PC_NUM_RING
    RingGap,        \* PC_UNIT_RINGGAP
    SearchRadius    \* SEARCH_RADIUS: half of the sectors that are tried

ASSUME RingsAssumption == Rings \in 1..2 /\ RingGap \in Nat \ {0} /\ SearchRadius \in 0..1

Sectors == 1..4
Turn == 0..3

\* Columns are counted round the lidar.
Column(s) == ((s - 1) % 4) + 1

SumOver(f) == f[1] + f[2] + f[3] + f[4]

Turned(p, k) ==
    CASE k % 4 = 0 -> p
      [] k % 4 = 1 -> <<-p[2], p[1]>>
      [] k % 4 = 2 -> <<-p[1], -p[2]>>
      [] k % 4 = 3 -> <<p[2], -p[1]>>

Plus(p, q) == <<p[1] + q[1], p[2] + q[2]>>
Minus(p) == <<-p[1], -p[2]>>

-------------------------------------------------------------------------------
(* The descriptor.                                                              *)

\* A sector has its upper bound; the first one has both.
SectorOf(p) ==
    IF p[2] = 0 /\ p[1] > 0 THEN 1
    ELSE CHOOSE s \in Sectors : LET q == Turned(p, 5 - s) IN q[1] >= 0 /\ q[2] > 0

RingOf(p) == Min({r \in 1..(Rings + 1) : p[1] * p[1] + p[2] * p[2] <= r * r * RingGap * RingGap
                                         \/ r = Rings + 1})

\* makeScancontext; a point beyond the last ring is left out.
Descriptor(points, trans) ==
    LET moved == {Plus(p, trans) : p \in points}
        cells == {[sector |-> SectorOf(p), ring |-> RingOf(p)] : p \in moved}
        column(s) == {c.ring : c \in {c \in cells : c.sector = s}} \ {Rings + 1}
    IN  <<column(1), column(2), column(3), column(4)>>

\* circshift moves the columns to the right.
Shifted(desc, shift) == [s \in Sectors |-> desc[Column(s - shift)]]

RingKey(desc) == [r \in 1..Rings |-> Cardinality({s \in Sectors : r \in desc[s]})]

-------------------------------------------------------------------------------
(* Two descriptors.                                                             *)

\* The roots of 1 to 4.
Roots == <<1000, 1414, 1732, 2000>>

Cosine(a, b) ==
    (1000000 * Cardinality(a \cap b)) \div Roots[Cardinality(a) * Cardinality(b)]

\* distDirectSC as the sum it divides and the number it divides by: columns that are
\* empty in one of the two do not count, and if none counts the distance is no number.
Similarity(desc1, desc2) ==
    LET counted == {s \in Sectors : desc1[s] # {} /\ desc2[s] # {}}
    IN  [sum |-> SumOver([s \in Sectors |-> IF s \in counted THEN Cosine(desc1[s], desc2[s]) ELSE 0]),
         num |-> Cardinality(counted)]

\* What is not a number is not less than anything.
Closer(a, b) == a.num > 0 /\ (b.num = 0 \/ a.sum * b.num > b.sum * a.num)

\* The sector key is the column mean: how many rings, as all heights are alike.
KeyDiff(desc1, desc2, shift) ==
    LET diff(s) == Cardinality(desc1[s]) - Cardinality(desc2[Column(s - shift)])
    IN  SumOver([s \in Sectors |-> diff(s) * diff(s)])

\* fastAlignUsingVkey: the first of the shifts whose sector keys differ least.
FastAlign(desc1, desc2) ==
    LET diffs == [k \in Turn |-> KeyDiff(desc1, desc2, k)]
    IN  Min({k \in Turn : \A l \in Turn : diffs[k] <= diffs[l]})

\* The first of the closest, none if no distance is a number.
Closest(matches, none) ==
    LET best == {i \in DOMAIN matches : /\ matches[i].num > 0
                                       /\ \A j \in DOMAIN matches : ~Closer(matches[j], matches[i])}
    IN  IF best = {} THEN none ELSE matches[CHOOSE i \in best : \A j \in best : i <= j]

\* distanceBtnScanContext tries the shifts about the fast alignment, in order.
Aligned(desc1, desc2) ==
    LET shifts == {(FastAlign(desc1, desc2) + i) % 4 : i \in (-SearchRadius)..SearchRadius}
        match(k) == LET sim == Similarity(desc1, Shifted(desc2, k))
                    IN  [sum |-> sim.sum, num |-> sim.num, shift |-> k]
    IN  Closest([k \in shifts |-> match(k)], [sum |-> 0, num |-> 0, shift |-> 0])

-------------------------------------------------------------------------------
(* The search.                                                                  *)

CONSTANT NumCandidates  \* NUM_CANDIDATES_FROM_TREE

\* The keyframes with the nearest ring keys.  Which of two as near comes first is up
\* to the search tree; here it is the older one.
Candidates(desc, keyframes) ==
    LET key == RingKey(desc)
        far == [i \in DOMAIN keyframes |->
                   LET other == RingKey(keyframes[i])
                   IN  MapThenSumSet(LAMBDA r : (key[r] - other[r]) * (key[r] - other[r]), 1..Rings)]
        order == SetToSortSeq(DOMAIN keyframes,
                              LAMBDA i, j : far[i] < far[j] \/ (far[i] = far[j] /\ i < j))
    IN  SubSeq(order, 1, Min({NumCandidates, Len(order)}))

NoMatch == [sum |-> 0, num |-> 0, shift |-> 0, keyframe |-> 0, trans |-> <<0, 0>>]

\* detectClosestMatch for the scan moved by trans.
ClosestMatch(points, trans, keyframes) ==
    LET desc == Descriptor(points, trans)
        order == Candidates(desc, keyframes)
        match(i) == LET found == Aligned(desc, keyframes[i])
                    IN  [sum |-> found.sum, num |-> found.num, shift |-> found.shift,
                         keyframe |-> i, trans |-> trans]
    IN  Closest([k \in DOMAIN order |-> match(order[k])], NoMatch)

\* scancontex_search over the search translations.
ScanContextSearch(points, translations, keyframes) ==
    Closest([k \in DOMAIN translations |-> ClosestMatch(points, translations[k], keyframes)], NoMatch)

\* SC_DIST_THRES is 0.4.
IsMatch(match) == match.num > 0 /\ match.sum > 600 * match.num

\* Mutant: the yaw difference is added.
Heading_Added(yaw, shift) == (yaw + shift) % 4

Heading(yaw, shift) == (yaw - shift) % 4

\* cal_init_transform: the matched keyframe's pose, turned, and moved by the offset.
InitTransform(pose, match) ==
    LET yaw == Heading(pose.yaw, match.shift)
    IN  [yaw |-> yaw, pos |-> Plus(pose.pos, Turned(Minus(match.trans), yaw))]
===============================================================================

------------------------------ MODULE MCAlgorithms -----------------------------
(* The algorithms of the front end on every small input.  A state is one piece   *)
(* of work: its algorithm, its input and what it has come to.                     *)

EXTENDS MapPoints, LocalMap, IteratedUpdate, ImuProcess, ScanContext, LidarPreproc

VARIABLE work

\* No loop and no drive.
Standing == UNCHANGED <<update, localMap, undistort, sampling, features>>

-------------------------------------------------------------------------------
(* The tree: built from a cloud, then changed and searched.                    *)

CONSTANTS
    Width,          \* bound: the points lie on a grid of Width times 2
    MaxSteps        \* bound: calls on one tree

Grid == {<<x, y>> : x \in 0..(Width - 1), y \in {0, 1}}

\* The slabs a moved local map leaves behind.
Slabs == {[lo |-> <<a, 0>>, hi |-> <<b, 2>>] : a \in 0..(Width - 1), b \in 1..Width}

Count(s) == [p \in Grid |-> Cardinality({i \in DOMAIN s : s[i] = p})]
Held(tree) == Count(Flatten(tree).found)

\* The tree, what it held before the last call, and that call.
TreeWork(tree, before, call, steps) ==
    [alg |-> "tree", tree |-> tree, before |-> before, call |-> call, steps |-> steps]

InitTree ==
    \E points \in SUBSET Grid :
        /\ Cardinality(points) \in 1..3
        /\ work = TreeWork(BuildTree(SetToSeq(points)), Count(SetToSeq(points)), <<"search">>, 0)

Called(tree, call) == work' = TreeWork(tree, Held(work.tree), call, work.steps + 1)

StepTree ==
    /\ work.alg = "tree" /\ work.steps < MaxSteps /\ Standing
    /\ \/ \E p \in Grid : Called(AddDownsampled(work.tree, p), <<"downsampled", p>>)
       \/ \E p \in Grid : Called(AddPlain(work.tree, p), <<"add", p>>)
       \/ \E box \in Slabs : Called(DeleteBox(work.tree, box), <<"box", box>>)
       \/ \E p \in Grid : \E inited \in BOOLEAN : Called(MapIncremental(work.tree, p, inited), <<"scan", p>>)
       \/ \E p \in Grid : Called(NearestSearch(work.tree, p, 1).n, <<"search">>)

Bagged(bag, p) == [bag EXCEPT ![p] = @ + 1]
Without(bag, box) == [p \in Grid |-> IF InBox(p, box) THEN 0 ELSE bag[p]]

\* What a call makes of the points.  After an insertion with downsampling the box
\* holds one point, the new one or an old one that is nearer to its middle, and
\* none that was there is nearer.
Promise(call, bag, after) ==
    CASE call[1] = "search" -> after = bag
      [] call[1] = "add" -> after = Bagged(bag, call[2])
      [] call[1] = "box" -> after = Without(bag, call[2])
      [] call[1] = "scan" ->
            \E q \in Grid : after[q] > 0 /\ MidDist(q, VoxelOf(call[2])) <= MidDist(call[2], VoxelOf(call[2]))
      [] call[1] = "downsampled" ->
            LET p == call[2]
                box == VoxelOf(p)
                inside == {q \in Grid : InBox(q, box)}
            IN  \E q \in inside :
                    /\ after = Bagged(Without(bag, box), q)
                    /\ q = p \/ (bag[q] > 0 /\ MidDist(q, box) < MidDist(p, box))
                    /\ \A r \in inside : bag[r] > 0 => MidDist(q, box) <= MidDist(r, box)

\* The tree is what its calls make of it: it holds their points, counts them, and
\* a search, which prunes by box and by the worst of its heap, finds the nearest.
TreeIsExact ==
    work.alg = "tree" =>
        LET points == Flatten(work.tree).found IN
        /\ Promise(work.call, work.before, Count(points))
        /\ work.tree.size - work.tree.inv = Len(points)
        /\ \A p \in Grid :
              LET nearest == SortSeq([i \in DOMAIN points |-> Dist(p, points[i])], <) IN
              \A k \in 1..2 :
                 LET found == NearestSearch(work.tree, p, k).found
                 IN  [i \in DOMAIN found |-> found[i].dist] = SubSeq(nearest, 1, Min({k, Len(nearest)}))

-------------------------------------------------------------------------------
(* One call of update_iterated_dyn_share_modified, and the local map under a      *)
(* lidar that drives.  The work is then in the variables of their modules.        *)

CONSTANT MaxMoves   \* bound: scans

\* The lidar stands, or drives as far as it may, or not quite.
MCStrides == {-MaxStride, 0, MaxStride - 1}

InitLoop == work = [alg |-> "update"]
InitDrive == work = [alg |-> "map", moves |-> 0]

StepUpdate ==
    /\ work.alg = "update" /\ UpdateStep
    /\ UNCHANGED <<work, localMap, undistort, sampling, features>>

StepMap ==
    /\ work.alg = "map" /\ work.moves < MaxMoves
    /\ MapStep /\ work' = [work EXCEPT !.moves = @ + 1]
    /\ UNCHANGED <<update, undistort, sampling, features>>

-------------------------------------------------------------------------------
(* One measure: a scan from 1 to its end, with what was gathered for it.  The      *)
(* samples and the data, and the points, are in order and may share a moment.      *)

CONSTANT MaxTime    \* bound: the longest scan

InOrder(S, most) ==
    {s \in UNION {[1..n -> S] : n \in 0..most} : \A i \in 1..(Len(s) - 1) : s[i] <= s[i + 1]}

\* A measure with wheel data needs no more than two points.
MCMeasures ==
    UNION {{m \in [last : 0..end, beg : {1}, end : {end}, imu : InOrder(2..end, 3),
                   wheel : InOrder(1..end, 2), points : InOrder(0..(end - 1), 3)] :
               m.imu # <<>> /\ (m.wheel # <<>> => Len(m.wheel) + Len(m.points) <= 2)}
           : end \in 3..MaxTime}

InitMeasure == work = [alg |-> "measure"] /\ UndistortInit
NoMeasure == UndistortBegins(CHOOSE m \in Measures : TRUE)

StepMeasure ==
    /\ work.alg = "measure" /\ UndistortStep
    /\ UNCHANGED <<work, update, localMap, sampling, features>>

-------------------------------------------------------------------------------
(* The beginning of a relocalization in a small world.                          *)

CONSTANT MaxWalls   \* bound: points of the world

\* Points lie at odd places and lidars at even ones, so that none is on the border
\* of a sector, where a turn by a sector does not take one sector to the next.
Places == {-3, -1, 1, 3} \X {-1, 1, 3}
Translations == <<<<0, 0>>, <<-2, 0>>, <<2, 0>>, <<0, -2>>, <<0, 2>>>>
KeyPoses == <<[pos |-> <<0, 0>>, yaw |-> 0], [pos |-> <<2, -2>>, yaw |-> 1]>>

\* What a lidar at a pose sees of the world, and where what it sees is.
SeenFrom(pose, world) == {Turned(Plus(p, Minus(pose.pos)), 4 - pose.yaw) : p \in world}
PlacedAt(pose, points) == {Plus(pose.pos, Turned(p, pose.yaw)) : p \in points}

InitPlace ==
    \E world \in SUBSET Places :
        /\ Cardinality(world) \in 2..MaxWalls
        /\ work = [alg |-> "world", world |-> world,
                   descs |-> <<Descriptor(SeenFrom(KeyPoses[1], world), <<0, 0>>),
                               Descriptor(SeenFrom(KeyPoses[2], world), <<0, 0>>)>>]

\* A scan is taken somewhere, and searched for.
StepPlace ==
    /\ work.alg = "world" /\ Standing
    /\ \E yaw \in Turn, pos \in {<<0, 0>>, <<2, 0>>, <<0, -2>>, <<2, -2>>} :
          LET points == SeenFrom([pos |-> pos, yaw |-> yaw], work.world) IN
          work' = [alg |-> "place", descs |-> work.descs, pos |-> pos, scan |-> points,
                   match |-> ScanContextSearch(points, Translations, work.descs)]

(* A turn of the sector key onto itself hides the heading.                         *)
Symmetric(desc) == \E k \in 1..3 : KeyDiff(desc, desc, k) = 0

(* The initial guess fits what was matched: a scan placed there looks from the      *)
(* matched keyframe as alike as the search has found it.  The heading always does;   *)
(* the place does on the far side of the keyframe, for cal_init_transform takes the  *)
(* search translation with the wrong sign, and the guess is off by twice of it.  At a *)
(* keyframe whose sector key tells its headings apart, the match is perfect.        *)
GuessFits ==
    work.alg = "place" =>
        LET match == work.match
            key == KeyPoses[match.keyframe]
            guess == InitTransform(key, match)
            mirrored == [guess EXCEPT !.pos = Plus(Plus(key.pos, key.pos), Minus(@))]
            view == Descriptor(SeenFrom(key, PlacedAt(mirrored, work.scan)), <<0, 0>>)
        IN  /\ IsMatch(match) =>
                 Similarity(view, work.descs[match.keyframe]) = [sum |-> match.sum, num |-> match.num]
            /\ \A i \in DOMAIN KeyPoses :
                 work.pos = KeyPoses[i].pos /\ ~Symmetric(work.descs[i])
                     => match.num > 0 /\ match.sum = 1000 * match.num

-------------------------------------------------------------------------------
(* A message of points, sampled; and two scans one after the other, of which the  *)
(* corners are taken.                                                            *)

CONSTANTS
    Columns,        \* bound: columns of a message
    RingSize,       \* bound: points of a ring
    Ranges          \* the ranges of points

MCMessages ==
    UNION {[sensor : {sensor}, header : {7}, rings : {2}, times : {[h \in 1..Columns |-> h]},
            kinds : [1..Columns -> [1..2 -> Kinds(sensor)]]] : sensor \in Lidars}

\* A ring with a column missing in the middle or not.
GappedRing(ranges, gap) ==
    [i \in 1..RingSize |-> [range |-> ranges[i], col |-> IF i > gap THEN i + ColumnJump + 1 ELSE i]]

Gaps == {RingSize \div 2, RingSize}

\* A wall with an edge somewhere.
EdgeRings ==
    {GappedRing([i \in 1..RingSize |-> IF i > edge THEN Max(Ranges) ELSE Min(Ranges)], gap)
        : edge \in {0, 2, 4}, gap \in Gaps}

EdgeScans == {[cloud |-> r, upTo |-> <<RingSize>>] : r \in EdgeRings}

\* One ring, or two, of which the first may be too short to be cut into parts.
MCScans ==
    EdgeScans
    \cup {[cloud |-> GappedRing(ranges, gap), upTo |-> <<RingSize>>]
              : ranges \in [1..RingSize -> Ranges], gap \in Gaps}
    \cup {[cloud |-> SubSeq(r, 1, n) \o q, upTo |-> <<n, n + RingSize>>]
              : r, q \in EdgeRings, n \in {0, 3, RingSize}}

InitMessage == work = [alg |-> "message"] /\ ClipInit
NoMessage == ClipBegins(CHOOSE m \in Messages : TRUE)

\* What the memory holds where cal_smoothness never writes.
InitScan ==
    /\ work = [alg |-> "scan", scans |-> 0]
    /\ \E wasLabel \in SUBSET {Reach - 1}, c \in {0, EdgeCurvature + 1} :
          FeaturesBegin({}, wasLabel, [i \in Indices |-> c])
NoScan == FeaturesBegin({}, {}, [i \in Indices |-> 0])

StepMessage ==
    /\ work.alg = "message" /\ ClipStep
    /\ UNCHANGED <<work, update, localMap, undistort, features>>

StepScan ==
    /\ work.alg = "scan"
    /\ \/ /\ work.scans < 2
          /\ \E s \in IF work.scans = 0 THEN EdgeScans ELSE Scans : TakeScan(s)
          /\ work' = [work EXCEPT !.scans = @ + 1]
       \/ ExtractStep /\ UNCHANGED work
    /\ UNCHANGED <<update, localMap, undistort, sampling>>

-------------------------------------------------------------------------------
Init ==
    /\ UpdateInit /\ MapInit
    /\ \/ /\ NoMeasure /\ NoMessage /\ NoScan
          /\ InitTree \/ InitLoop \/ InitDrive \/ InitPlace
       \/ NoMessage /\ NoScan /\ InitMeasure
       \/ NoMeasure /\ NoScan /\ InitMessage
       \/ NoMeasure /\ NoMessage /\ InitScan

Next == StepTree \/ StepUpdate \/ StepMap \/ StepMeasure \/ StepPlace \/ StepMessage \/ StepScan

Spec == Init /\ [][Next]_<<work, update, localMap, undistort, sampling, features>>
===============================================================================

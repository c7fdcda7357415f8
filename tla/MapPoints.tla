------------------------------- MODULE MapPoints ------------------------------
(* MapPoints: which points of a scan go into the tree and how (map_incremental).  *)

EXTENDS IkdTree

CONSTANT NumMatch   \* NUM_MATCH_POINTS

ASSUME MatchAssumption == NumMatch \in Nat \ {0}

\* The nearest neighbour lies outside of the point's voxel in every axis.
FarInEveryAxis(p, near) ==
    \A d \in Dims : Apart(2 * near[1][d], VoxelOf(p).lo[d] + VoxelOf(p).hi[d]) > VoxelSize

\* A neighbour is nearer to the middle of the voxel; looked at only if there are
\* enough of them.
Covered(p, near) ==
    /\ Len(near) >= NumMatch
    /\ \E i \in 1..NumMatch : MidDist(near[i], VoxelOf(p)) < MidDist(p, VoxelOf(p))

\* Into the tree with downsampling, without it, or not at all.
Classified(p, near, inited) ==
    IF near = <<>> \/ ~inited THEN "downsample"
    ELSE IF FarInEveryAxis(p, near) THEN "plain"
    ELSE IF Covered(p, near) THEN "drop"
    ELSE "downsample"

\* One point, with the neighbours the filter has found for it.
MapIncremental(tree, p, inited) ==
    LET search == NearestSearch(tree, p, NumMatch)
        near == [i \in DOMAIN search.found |-> search.found[i].pt]
        class == Classified(p, near, inited)
    IN  CASE class = "downsample" -> AddDownsampled(search.n, p)
          [] class = "plain" -> AddPlain(search.n, p)
          [] OTHER -> search.n
===============================================================================

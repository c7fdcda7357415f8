------------------------------ MODULE LidarPreproc -----------------------------
(* What the lidar callback makes of a message of points: a sample of the points   *)
(* that pass (extract_cloud_method 0, every sensor), or the corners and surface    *)
(* of each ring (RingFeatures).  A point is what the tests of the drivers see of   *)
(* it, and its stamp.                                                            *)

EXTENDS RingFeatures

CONSTANTS
    CloudSizeToKeep,    \* points to keep of a message
    Messages            \* the messages there may be

Lidars == {"Mid360", "Airy", "Vanjee722", "JT16", "M300"}

\* Beyond the ranges, marked as noise by the sensor, or not a number.  Only the Mid360
\* marks noise, and only its driver does not ask for NaN, which fails every comparison
\* and so passes every test.
Kinds(sensor) == {"good", "beyond", "nan"} \cup (IF sensor = "Mid360" THEN {"noise"} ELSE {})

Passes(sensor, kind) == kind = "good" \/ (kind = "nan" /\ sensor = "Mid360")

\* A message: the time of each column, in seconds from the header, and a point per ring.
IsMessage(m) ==
    /\ m.sensor \in Lidars /\ m.header \in Nat /\ m.rings \in Nat \ {0}
    /\ m.times \in Seq(Nat) /\ \A g, h \in DOMAIN m.times : g <= h => m.times[g] <= m.times[h]
    /\ m.kinds \in [DOMAIN m.times -> [1..m.rings -> Kinds(m.sensor)]]

ASSUME SampleAssumption ==
    /\ CloudSizeToKeep \in Nat \ {0}
    /\ \A m \in Messages : IsMessage(m)

VARIABLES
    message,
    clip,           \* where the callback is
    col, row,       \* the loops of msg2pcl_clip
    dense,          \* cloud_dense_
    cloud           \* what is handed over

sampling == <<message, clip, col, row, dense, cloud>>

ClipBegins(m) ==
    message = m /\ clip = "clip" /\ col = 1 /\ row = 1 /\ dense = <<>> /\ cloud = <<>>

ClipInit == \E m \in Messages : ClipBegins(m)

\* The Vanjee stamps its points from the header, the others do not.
Stamp(m, h) == IF m.sensor = "Vanjee722" THEN m.times[h] ELSE m.header + m.times[h]

\* In seconds from the header; the M300 has no stamps.
OffsetOf(m, h) ==
    CASE m.sensor \in {"Mid360", "Airy", "JT16"} -> Stamp(m, h) - m.header
      [] m.sensor = "Vanjee722" -> Stamp(m, h)
      [] m.sensor = "M300" -> 0

\* Column by column, in the order in which the lidar has turned.
ClipPoint ==
    /\ clip = "clip" /\ col \in DOMAIN message.times
    /\ dense' = IF Passes(message.sensor, message.kinds[col][row])
                THEN Append(dense, [point |-> <<col, row>>, offset |-> OffsetOf(message, col)])
                ELSE dense
    /\ row' = IF row = message.rings THEN 1 ELSE row + 1
    /\ col' = IF row = message.rings THEN col + 1 ELSE col
    /\ UNCHANGED <<message, clip, cloud>>

\* round(size / CloudSizeToKeep), at least one.
Ratio(size) ==
    LET rounded == (2 * size + CloudSizeToKeep) \div (2 * CloudSizeToKeep)
    IN  IF rounded > 1 THEN rounded ELSE 1

\* Every Ratio-th point; the offset becomes milliseconds.
SamplingCloud ==
    /\ clip = "clip" /\ col \notin DOMAIN message.times
    /\ LET ratio == Ratio(Len(dense)) IN
          cloud' = [i \in 1..(Len(dense) \div ratio) |->
                       LET kept == dense[(i - 1) * ratio + 1]
                       IN  [point |-> kept.point, offset |-> 1000 * kept.offset]]
    /\ clip' = "done"
    /\ UNCHANGED <<message, col, row, dense>>

ClipStep == ClipPoint \/ SamplingCloud

\* A callback does the one or the other.
PreprocInit == ClipInit /\ FeaturesInit

PreprocNext ==
    \/ ClipStep /\ UNCHANGED features
    \/ FeatureStep /\ UNCHANGED sampling

PreprocSpec == PreprocInit /\ [][PreprocNext]_<<sampling, features>>

-------------------------------------------------------------------------------

Passing ==
    {p \in (DOMAIN message.times) \X (1..message.rings) : Passes(message.sensor, message.kinds[p[1]][p[2]])}

\* The cloud keeps the order in which the lidar has turned, so that its last point, by
\* which sync_packages tells the end of the scan, is its latest; its stamps are
\* milliseconds from the header; and it is a sample of about the size asked for: the
\* rounding may keep half as much again, and a quarter too few.
SampleInOrder ==
    /\ \A i \in DOMAIN cloud :
          /\ cloud[i].point \in Passing
          /\ cloud[i].offset = IF message.sensor = "M300" THEN 0 ELSE 1000 * message.times[cloud[i].point[1]]
    /\ \A i, j \in DOMAIN cloud : i < j =>
          /\ cloud[i].offset <= cloud[j].offset
          /\ cloud[i].point # cloud[j].point
    /\ 2 * Len(cloud) < 3 * CloudSizeToKeep
    /\ Cardinality(Passing) >= CloudSizeToKeep => 4 * (Len(cloud) + 1) > 3 * CloudSizeToKeep
    /\ Passing # {} => cloud # <<>>

(* What the lidar callback hands over fits what the lidar has measured: the sample is  *)
(* in order, and a scan falls into corners that stand apart and surface, with the      *)
(* arrays left in one case only.                                                     *)
PreprocFits ==
    /\ clip = "done" => SampleInOrder
    /\ step = "idle" => CornersApart /\ RestIsSurface /\ OutsideByTheZero
===============================================================================

--------------------------- MODULE SensorSync_proofs ---------------------------
(* The order of the scans that sync_packages takes, what a measure holds, and   *)
(* when the log line reads the end of an empty buffer: for buffers of any       *)
(* length and any clock of the sensors.  At the end, what the lidar callback puts *)
(* into its buffer: the sample of a message, or the corners and surface of a scan.  *)

EXTENDS SensorSync, LidarPreproc, Prefixes, FiniteSetTheorems

LidarTypes ==
    /\ lidarBuf \in Seq(Samples) /\ frame \in Samples /\ prev.frame \in Samples
    /\ lastLidar \in Int /\ scans \in Nat /\ resets \subseteq 1..scans

\* The lidar clock did not go back between the messages a and b.
NoReset(a, b) == \A n \in resets : ~(a < n /\ n < b)

\* A stretch without a reset has no part with one.
LEMMA NoResetWithin ==
  ASSUME LidarTypes, NEW a \in Int, NEW b \in Int, NEW c \in Int, a <= b, b <= c, NoReset(a, c)
  PROVE  NoReset(a, b) /\ NoReset(b, c)
<1>1. \A n \in resets : n \in Int
  BY DEF LidarTypes
<1>. QED
  BY <1>1 DEF NoReset

\* A buffer is in order by number and by time, and holds nothing from before the
\* last reset.
BufferInOrder ==
    /\ \A i \in DOMAIN lidarBuf :
          /\ frame.id < lidarBuf[i].id /\ lidarBuf[i].id <= scans
          /\ lidarBuf[i].t <= lastLidar
          /\ \A n \in resets : n < lidarBuf[i].id
    /\ \A i, j \in DOMAIN lidarBuf :
          i < j => lidarBuf[i].id < lidarBuf[j].id /\ lidarBuf[i].t <= lidarBuf[j].t

\* The last frame taken comes before what is in the buffer and before what may
\* still arrive, unless a reset lies between.
FrameInOrder ==
    /\ frame.id <= scans
    /\ \A i \in DOMAIN lidarBuf : NoReset(frame.id, lidarBuf[i].id) => frame.t <= lidarBuf[i].t
    /\ NoReset(frame.id, scans + 1) => frame.t <= lastLidar

\* And the frame of the last measure before the last frame taken.
PrevInOrder ==
    /\ prev.frame.id <= frame.id
    /\ pc \in {"lag", "fill", "look", "wheel"} => prev.frame.id < frame.id
    /\ NoReset(prev.frame.id, frame.id) => prev.frame.t <= frame.t

OrderInv == LidarTypes /\ BufferInOrder /\ FrameInOrder /\ PrevInOrder

-------------------------------------------------------------------------------

LEMMA OrderInvInit == Init => OrderInv
<1>. SUFFICES ASSUME Init PROVE OrderInv
  OBVIOUS
<1>1. LidarTypes
  BY DEF Init, LidarTypes, Samples, NoFrame
<1>2. BufferInOrder /\ FrameInOrder /\ PrevInOrder
  BY DEF Init, BufferInOrder, FrameInOrder, PrevInOrder, NoFrame
<1>. QED
  BY <1>1, <1>2 DEF OrderInv

\* What lidar_pcl_cbk leaves of a buffer is its end.
LEMMA NewestIsEnd ==
  ASSUME NEW S, NEW s \in Seq(S)
  PROVE  /\ Newest(s) \in Seq(S)
         /\ \E k \in 0..Len(s) : /\ Len(Newest(s)) = Len(s) - k
                                 /\ \A i \in 1..Len(Newest(s)) : Newest(s)[i] = s[i + k]
<1>. USE KeepAssumption
<1>1. CASE Len(s) > Keep
  <2>1. Newest(s) = SubSeq(s, Len(s) - Keep + 1, Len(s))
    BY <1>1 DEF Newest
  <2>2. Len(s) - Keep \in 0..Len(s)
    BY <1>1
  <2>3. Newest(s) \in Seq(S) /\ Len(Newest(s)) = Len(s) - (Len(s) - Keep)
    BY <1>1, <2>1
  <2>4. \A i \in 1..Len(Newest(s)) : Newest(s)[i] = s[i + (Len(s) - Keep)]
    BY <1>1, <2>1, <2>3
  <2>. QED
    BY <2>2, <2>3, <2>4
<1>2. CASE ~(Len(s) > Keep)
  <2>1. Newest(s) = s /\ 0 \in 0..Len(s) /\ Len(s) = Len(s) - 0 /\ \A i \in 1..Len(s) : s[i] = s[i + 0]
    BY <1>2 DEF Newest
  <2>. QED
    BY <2>1
<1>. QED
  BY <1>1, <1>2

\* The callback: a stamp that goes back empties the buffer, any other comes after
\* everything that is there.
LEMMA OrderInvLidar ==
  ASSUME OrderInv, NEW t \in Int, LidarCbk(t)
  PROVE  OrderInv'
<1>. USE DEF OrderInv, LidarTypes, meas, sync
<1>1. UNCHANGED <<frame, prev, pc>> /\ scans' = scans + 1 /\ lastLidar' = t
  BY DEF LidarCbk
<1>2. CASE t < lastLidar
  <2>1. lidarBuf' = <<>> /\ resets' = resets \cup {scans + 1}
    BY <1>2 DEF LidarCbk
  <2>2. LidarTypes'
    BY <1>1, <2>1
  <2>3. BufferInOrder' /\ FrameInOrder'
    <3>1. BufferInOrder'
      BY <2>1 DEF BufferInOrder
    <3>2. frame.id \in Int /\ frame.id <= scans /\ scans \in Nat
      BY DEF FrameInOrder, Samples
    <3>3. ~NoReset(frame.id, scans + 1)'
      BY <1>1, <2>1, <3>2 DEF NoReset
    <3>. QED
      BY <1>1, <2>1, <3>1, <3>2, <3>3 DEF FrameInOrder
  <2>4. PrevInOrder'
    BY <1>1, <2>1 DEF PrevInOrder, FrameInOrder, NoReset, Samples
  <2>. QED
    BY <2>2, <2>3, <2>4
<1>3. CASE ~(t < lastLidar)
  <2>. DEFINE new == [id |-> scans + 1, t |-> t]
              old == IF t - lastLidar > Gap THEN <<>> ELSE lidarBuf
              all == Append(old, new)
  <2>1. lidarBuf' = Newest(old \o <<new>>) /\ resets' = resets
    BY <1>3 DEF LidarCbk
  <2>2. new \in Samples /\ old \in Seq(Samples) /\ all \in Seq(Samples) /\ old \o <<new>> = all
    BY DEF Samples
  <2>3. Len(all) = Len(old) + 1 /\ all[Len(all)] = new /\ \A i \in 1..Len(old) : all[i] = old[i]
    BY <2>2
  <2>4. \A i \in 1..Len(old) : Len(old) = Len(lidarBuf) /\ old[i] = lidarBuf[i]
    OBVIOUS
  <2>. HIDE DEF all, old, new
  <2>5. \A i \in 1..Len(all) : /\ frame.id < all[i].id /\ all[i].id <= scans + 1
                               /\ all[i].t <= t
                               /\ \A n \in resets : n < all[i].id
                               /\ NoReset(frame.id, all[i].id) => frame.t <= all[i].t
    <3>. SUFFICES ASSUME NEW i \in 1..Len(all)
                  PROVE  /\ frame.id < all[i].id /\ all[i].id <= scans + 1
                         /\ all[i].t <= t
                         /\ \A n \in resets : n < all[i].id
                         /\ NoReset(frame.id, all[i].id) => frame.t <= all[i].t
      OBVIOUS
    <3>1. CASE i = Len(all)
      <4>1. all[i].id = scans + 1 /\ all[i].t = t
        BY <2>3, <3>1 DEF new
      <4>. QED
        BY <4>1, <1>3 DEF FrameInOrder, Samples
    <3>2. CASE i # Len(all)
      <4>1. i \in 1..Len(old) /\ i \in 1..Len(lidarBuf) /\ all[i] = lidarBuf[i]
        BY <2>2, <2>3, <2>4, <3>2
      <4>2. lidarBuf[i] \in Samples
        BY <4>1
      <4>. QED
        <5>1. i \in DOMAIN lidarBuf
          BY <4>1
        <5>2. /\ frame.id < lidarBuf[i].id /\ lidarBuf[i].id <= scans
              /\ lidarBuf[i].t <= lastLidar
              /\ \A n \in resets : n < lidarBuf[i].id
          BY <5>1 DEF BufferInOrder
        <5>3. NoReset(frame.id, lidarBuf[i].id) => frame.t <= lidarBuf[i].t
          BY <5>1 DEF FrameInOrder
        <5>4. lastLidar <= t /\ lidarBuf[i].id \in Nat /\ lidarBuf[i].t \in Int
          BY <4>2, <1>3, SMTT(30) DEF Samples
        <5>. QED
          BY <4>1, <5>2, <5>3, <5>4
    <3>. QED
      BY <3>1, <3>2
  <2>6. \A i, j \in 1..Len(all) : i < j => all[i].id < all[j].id /\ all[i].t <= all[j].t
    <3>. SUFFICES ASSUME NEW i \in 1..Len(all), NEW j \in 1..Len(all), i < j
                  PROVE  all[i].id < all[j].id /\ all[i].t <= all[j].t
      OBVIOUS
    <3>1. i \in 1..Len(old) /\ i \in 1..Len(lidarBuf) /\ all[i] = lidarBuf[i] /\ lidarBuf[i] \in Samples
      BY <2>2, <2>3, <2>4
    <3>2. CASE j = Len(all)
      <4>1. all[j].id = scans + 1 /\ all[j].t = t
        BY <2>3, <3>2 DEF new
      <4>. QED
        <5>1. lidarBuf[i].id <= scans /\ lidarBuf[i].t <= lastLidar
          BY <3>1 DEF BufferInOrder
        <5>2. lastLidar <= t /\ lidarBuf[i].id \in Nat /\ lidarBuf[i].t \in Int
          BY <3>1, <1>3, SMTT(30) DEF Samples
        <5>. QED
          BY <4>1, <3>1, <5>1, <5>2, SMTT(30)
    <3>3. CASE j # Len(all)
      <4>1. j \in 1..Len(lidarBuf) /\ all[j] = lidarBuf[j]
        BY <2>2, <2>3, <2>4, <3>3
      <4>. QED
        BY <4>1, <3>1 DEF BufferInOrder
    <3>. QED
      BY <3>2, <3>3
  <2>7. PICK k \in 0..Len(all) : /\ Len(lidarBuf') = Len(all) - k
                                 /\ \A i \in 1..Len(lidarBuf') : lidarBuf'[i] = all[i + k]
    BY <2>1, <2>2, NewestIsEnd
  <2>8. lidarBuf' \in Seq(Samples)
    BY <2>1, <2>2, NewestIsEnd
  <2>9. \A i \in 1..Len(lidarBuf') : i + k \in 1..Len(all) /\ lidarBuf'[i] = all[i + k]
    BY <2>2, <2>7
  <2>10. LidarTypes'
    BY <1>1, <2>1, <2>8
  <2>11. BufferInOrder'
    <3>1. \A i \in 1..Len(lidarBuf') : /\ frame.id < lidarBuf'[i].id /\ lidarBuf'[i].id <= scans + 1
                                       /\ lidarBuf'[i].t <= t
                                       /\ \A n \in resets : n < lidarBuf'[i].id
      BY <2>5, <2>9
    <3>2. \A i, j \in 1..Len(lidarBuf') :
             i < j => lidarBuf'[i].id < lidarBuf'[j].id /\ lidarBuf'[i].t <= lidarBuf'[j].t
      <4>. SUFFICES ASSUME NEW i \in 1..Len(lidarBuf'), NEW j \in 1..Len(lidarBuf'), i < j
                    PROVE  lidarBuf'[i].id < lidarBuf'[j].id /\ lidarBuf'[i].t <= lidarBuf'[j].t
        OBVIOUS
      <4>1. i + k < j + k /\ i + k \in 1..Len(all) /\ j + k \in 1..Len(all)
        BY <2>8, <2>9
      <4>2. lidarBuf'[i] = all[i + k] /\ lidarBuf'[j] = all[j + k]
        BY <2>9
      <4>. QED
        BY <4>1, <4>2, <2>6
    <3>3. DOMAIN lidarBuf' = 1..Len(lidarBuf')
      BY <2>8
    <3>. QED
      BY <3>1, <3>2, <3>3, <1>1, <2>1 DEF BufferInOrder
  <2>12. FrameInOrder'
    <3>1. \A i \in DOMAIN lidarBuf' : NoReset(frame.id, lidarBuf'[i].id) => frame.t <= lidarBuf'[i].t
      <4>. SUFFICES ASSUME NEW i \in 1..Len(lidarBuf'), NoReset(frame.id, lidarBuf'[i].id)
                    PROVE  frame.t <= lidarBuf'[i].t
        BY <2>8
      <4>1. i + k \in 1..Len(all) /\ lidarBuf'[i] = all[i + k]
        BY <2>9
      <4>. QED
        BY <4>1, <2>5
    <3>2. frame.t \in Int /\ frame.id \in Nat
      BY DEF Samples
    <3>3. NoReset(frame.id, scans + 1 + 1) => NoReset(frame.id, scans + 1)
      BY <3>2 DEF NoReset
    <3>4. NoReset(frame.id, scans + 1 + 1) => frame.t <= t
      BY <3>2, <3>3, <1>3 DEF FrameInOrder
    <3>5. frame.id <= scans + 1
      BY <3>2 DEF FrameInOrder
    <3>. QED
      BY <3>1, <3>4, <3>5, <1>1, <2>1 DEF FrameInOrder, NoReset
  <2>13. PrevInOrder'
    BY <1>1, <2>1 DEF PrevInOrder, NoReset
  <2>. QED
    BY <2>10, <2>11, <2>12, <2>13
<1>. QED
  BY <1>2, <1>3

\* Pop: the oldest frame becomes the last one taken.
LEMMA OrderInvPop ==
  ASSUME OrderInv, Pop
  PROVE  OrderInv'
<1>. USE DEF OrderInv, LidarTypes, lasts, counts
<1>1. UNCHANGED <<prev, scans, lastLidar, resets>>
  BY DEF Pop
<1>2. CASE lidarBuf = <<>>
  <2>1. UNCHANGED <<frame, lidarBuf>> /\ pc' = "lidar"
    BY <1>2 DEF Pop
  <2>. QED
    BY <1>1, <2>1 DEF BufferInOrder, FrameInOrder, PrevInOrder, NoReset
<1>3. CASE lidarBuf # <<>>
  <2>1. frame' = lidarBuf[1] /\ lidarBuf' = Tail(lidarBuf) /\ 1 \in DOMAIN lidarBuf
    BY <1>3 DEF Pop
  <2>2. /\ lidarBuf' \in Seq(Samples) /\ Len(lidarBuf') = Len(lidarBuf) - 1
        /\ \A i \in 1..Len(lidarBuf') : lidarBuf'[i] = lidarBuf[i + 1] /\ i + 1 \in DOMAIN lidarBuf
    BY <1>3, <2>1
  <2>3. lidarBuf[1] \in Samples /\ \A i \in 1..Len(lidarBuf') : lidarBuf[i + 1] \in Samples
    BY <2>1, <2>2
  <2>4. LidarTypes'
    BY <1>1, <2>1, <2>2, <2>3
  <2>5. BufferInOrder'
    <3>1. \A i \in 1..Len(lidarBuf') :
             /\ lidarBuf[1].id < lidarBuf'[i].id /\ lidarBuf'[i].id <= scans
             /\ lidarBuf'[i].t <= lastLidar
             /\ \A n \in resets : n < lidarBuf'[i].id
      BY <2>1, <2>2 DEF BufferInOrder
    <3>2. \A i, j \in 1..Len(lidarBuf') :
             i < j => lidarBuf'[i].id < lidarBuf'[j].id /\ lidarBuf'[i].t <= lidarBuf'[j].t
      <4>. SUFFICES ASSUME NEW i \in 1..Len(lidarBuf'), NEW j \in 1..Len(lidarBuf'), i < j
                    PROVE  lidarBuf'[i].id < lidarBuf'[j].id /\ lidarBuf'[i].t <= lidarBuf'[j].t
        OBVIOUS
      <4>1. i + 1 < j + 1 /\ lidarBuf'[i] = lidarBuf[i + 1] /\ i + 1 \in DOMAIN lidarBuf
                          /\ lidarBuf'[j] = lidarBuf[j + 1] /\ j + 1 \in DOMAIN lidarBuf
        BY <2>2
      <4>. QED
        BY <4>1 DEF BufferInOrder
    <3>3. DOMAIN lidarBuf' = 1..Len(lidarBuf')
      BY <2>2
    <3>. QED
      BY <3>1, <3>2, <3>3, <1>1, <2>1 DEF BufferInOrder
  <2>6. FrameInOrder'
    <3>1. lidarBuf[1].id <= scans /\ lidarBuf[1].t <= lastLidar
      BY <2>1 DEF BufferInOrder
    <3>2. \A i \in 1..Len(lidarBuf') : lidarBuf[1].t <= lidarBuf'[i].t
      BY <2>1, <2>2 DEF BufferInOrder
    <3>. QED
      BY <3>1, <3>2, <1>1, <2>1, <2>2 DEF FrameInOrder
  <2>7. PrevInOrder'
    <3>1. prev.frame.id <= frame.id /\ frame.id < lidarBuf[1].id
      BY <2>1 DEF BufferInOrder, PrevInOrder
    <3>2. NoReset(prev.frame.id, lidarBuf[1].id) =>
             NoReset(prev.frame.id, frame.id) /\ NoReset(frame.id, lidarBuf[1].id)
      <4>1. prev.frame.id \in Int /\ frame.id \in Int /\ lidarBuf[1].id \in Int
        BY <2>3 DEF Samples
      <4>. QED
        BY <3>1, <4>1, NoResetWithin
    <3>3. NoReset(prev.frame.id, lidarBuf[1].id) => prev.frame.t <= lidarBuf[1].t
      BY <3>2, <2>1, <2>3 DEF PrevInOrder, FrameInOrder, Samples
    <3>. QED
      BY <3>1, <3>3, <1>1, <2>1, <2>3 DEF PrevInOrder, NoReset, Samples
  <2>. QED
    BY <2>4, <2>5, <2>6, <2>7
<1>. QED
  BY <1>2, <1>3

LEMMA OrderInvStep ==
  ASSUME OrderInv, [Next]_vars
  PROVE  OrderInv'
<1>. USE DEF OrderInv, LidarTypes, BufferInOrder, FrameInOrder, PrevInOrder, NoReset, Samples,
            buffers, lasts, counts, meas, sync, ghosts
<1>1. ASSUME NEW t \in NextStamps(scans, lastLidar, LidarSteps), LidarCbk(t) PROVE OrderInv'
  <2>1. t \in Int
    BY TimeAssumption, StepsAssumption DEF NextStamps
  <2>. QED
    BY <1>1, <2>1, OrderInvLidar
<1>2. CASE Pop
  BY <1>2, OrderInvPop
<1>3. CASE Wheel
  BY <1>3 DEF Wheel
<1>4. CASE CheckLidar \/ CheckImu \/ CheckLag \/ Fill \/ Look
  BY <1>4 DEF CheckLidar, CheckImu, CheckLag, Fill, Look
<1>5. ASSUME NEW t, ImuCbk(t) \/ WheelCbk(t) PROVE OrderInv'
  BY <1>5 DEF ImuCbk, WheelCbk
<1>6. CASE UNCHANGED vars
  BY <1>6 DEF vars
<1>. QED
  BY <1>1, <1>2, <1>3, <1>4, <1>5, <1>6 DEF Next, Sync, Sensors

\* The filter never gets an older scan after a newer one, unless the lidar clock
\* went back between the two.  (lidar_pcl_cbk, sync_packages.)
THEOREM Ordered == Spec => []ScansInOrder
<1>1. OrderInv => ScansInOrder
  BY DEF OrderInv, LidarTypes, Samples, PrevInOrder, NoReset, ScansInOrder
<1>2. OrderInv /\ [Next]_vars => OrderInv'
  BY OrderInvStep
<1>. QED
  BY <1>1, <1>2, OrderInvInit, PTL DEF Spec

-------------------------------------------------------------------------------
(* What sync_packages takes out of the buffers.                                *)

\* What Fill takes from the buffer is no later than the end of the scan.
LEMMA PoppedBounds ==
  ASSUME imuBuf \in Seq(Samples), frame \in Samples
  PROVE  /\ Popped \in 0..Len(imuBuf)
         /\ \A i \in 1..Popped : imuBuf[i].t <= ScanEnd
         /\ Popped < Len(imuBuf) =>
              \/ imuBuf[Popped + 1].t >= ScanEnd
              \/ Popped > 0 /\ imuBuf[Popped].t = ScanEnd
<1>. DEFINE T == {n \in 0..Len(imuBuf) : \A i \in 1..n : imuBuf[i].t < ScanEnd}
            before == Max(T)
            more == before \in 1..(Len(imuBuf) - 1) /\ imuBuf[before + 1].t = ScanEnd
<1>1. Len(imuBuf) \in Nat /\ ScanEnd \in Int /\ \A i \in 1..Len(imuBuf) : imuBuf[i].t \in Int
  <2>1. \A i \in 1..Len(imuBuf) : imuBuf[i] \in Samples
    OBVIOUS
  <2>. QED
    BY <2>1, TimeAssumption DEF ScanEnd, Samples
<1>2. T \subseteq 0..Len(imuBuf) /\ 0 \in T
  BY <1>1
<1>3. before \in T /\ \A x \in T : x <= before
  BY <1>1, <1>2, Greatest
<1>4. before \in 0..Len(imuBuf) /\ \A i \in 1..before : imuBuf[i].t < ScanEnd
  BY <1>3
<1>5. Popped = IF more THEN before + 1 ELSE before
  BY DEF Popped
<1>. HIDE DEF T, before
<1>6. before < Len(imuBuf) => imuBuf[before + 1].t >= ScanEnd
  <2>. SUFFICES ASSUME before < Len(imuBuf), imuBuf[before + 1].t < ScanEnd PROVE FALSE
    <3>1. before < Len(imuBuf) => imuBuf[before + 1].t \in Int
      BY <1>1, <1>4
    <3>. QED
      BY <3>1, <1>1
  <2>1. before + 1 \in T
    BY <1>1, <1>4 DEF T
  <2>2. before + 1 <= before
    BY ONLY <2>1, <1>3
  <2>. QED
    BY <2>2, <1>4
<1>7. CASE more
  <2>1. \A i \in 1..(before + 1) : imuBuf[i].t <= ScanEnd
    <3>. SUFFICES ASSUME NEW i \in 1..(before + 1) PROVE imuBuf[i].t <= ScanEnd
      OBVIOUS
    <3>1. i = before + 1 \/ i \in 1..before
      BY <1>4
    <3>2. imuBuf[i].t \in Int
      BY <1>1, <1>4, <1>7
    <3>. QED
      BY <3>1, <3>2, <1>1, <1>4, <1>7
  <2>. QED
    BY <2>1, <1>1, <1>4, <1>5, <1>7
<1>8. CASE ~more
  BY <1>1, <1>4, <1>5, <1>6, <1>8
<1>. QED
  BY <1>7, <1>8

\* And what it drops of that is no later than the begin.
LEMMA DroppedBounds ==
  ASSUME imuBuf \in Seq(Samples), frame \in Samples
  PROVE  /\ Dropped \in 0..Popped
         /\ \A i \in 1..Dropped : imuBuf[i].t <= frame.t
         /\ Dropped < Popped => imuBuf[Dropped + 1].t > frame.t
<1>. DEFINE T == {n \in 0..Popped : \A i \in 1..n : imuBuf[i].t <= frame.t}
<1>1. Popped \in 0..Len(imuBuf)
  BY PoppedBounds
<1>2. Popped \in Nat /\ T \subseteq 0..Popped /\ 0 \in T
  BY <1>1
<1>3. Dropped \in T /\ \A x \in T : x <= Dropped
  <2>1. Max(T) \in T /\ \A x \in T : x <= Max(T)
    BY <1>2, Greatest
  <2>. QED
    BY <2>1 DEF Dropped
<1>4. ASSUME Dropped < Popped PROVE imuBuf[Dropped + 1].t > frame.t
  <2>1. Dropped \in 0..Popped /\ \A i \in 1..Dropped : imuBuf[i].t <= frame.t
    BY <1>3
  <2>2. Dropped + 1 \in 1..Len(imuBuf) /\ Dropped + 1 \in 0..Popped
    BY <2>1, <1>1, <1>4
  <2>3. imuBuf[Dropped + 1].t \in Int /\ frame.t \in Int
    <3>1. imuBuf[Dropped + 1] \in Samples
      BY <2>2
    <3>. QED
      BY <3>1 DEF Samples
  <2>4. ASSUME imuBuf[Dropped + 1].t <= frame.t PROVE FALSE
    <3>1. \A i \in 1..(Dropped + 1) : imuBuf[i].t <= frame.t
      BY <2>1, <2>4
    <3>2. Dropped + 1 <= Dropped
      BY <3>1, <2>2, <1>3
    <3>. QED
      BY <3>2, <2>1
  <2>. QED
    BY <2>3, <2>4
<1>. QED
  BY <1>3, <1>4

-------------------------------------------------------------------------------
(* The types.                                                                  *)

\* What sync_packages goes on to the wheel data with is not empty: Wheel reads its
\* last sample.
MeasureFilled == pc = "wheel" => imu # <<>>

TypeInv == TypeOK /\ MeasureFilled

LEMMA TypeInit == Init => TypeInv
<1>. SUFFICES ASSUME Init PROVE TypeOK
  BY DEF TypeInv, MeasureFilled, Init
<1>1. 0 \in 0..MaxScans /\ 0 \in 0..MaxImu /\ 0 \in 0..MaxWheel
  BY BoundsAssumption
<1>2. Len(lidarBuf) <= Keep
  BY KeepAssumption DEF Init
<1>3. NoFrame \in Samples /\ prev \in [frame : Samples, imu : Nat] /\ frame \in Samples
  BY DEF Init, NoFrame, Samples
<1>4. lidarBuf \in Seq(Samples) /\ imuBuf \in Seq(Samples) /\ wheelBuf \in Seq(Samples)
      /\ imu \in Seq(Samples) /\ wheel \in Seq(Samples)
  BY DEF Init
<1>5. {lastLidar, lastImu, lastWheel} \subseteq Int
  BY TimeAssumption DEF Init
<1>7. /\ pc \in Labels /\ resets \subseteq 1..scans
      /\ lidarEmpty \in BOOLEAN /\ emptyBack \in BOOLEAN /\ imuBack \in BOOLEAN
  BY DEF Init, Labels
<1>6. scans \in 0..MaxScans /\ imus \in 0..MaxImu /\ wheels \in 0..MaxWheel
  BY <1>1 DEF Init
<1>. QED
  BY <1>2, <1>3, <1>4, <1>5, <1>6, <1>7 DEF TypeOK

LEMMA NextStampsInt ==
  ASSUME NEW n, NEW last \in Int, NEW Steps, Steps \subseteq Int, NEW t \in NextStamps(n, last, Steps)
  PROVE  t \in Int
BY TimeAssumption DEF NextStamps

LEMMA TypeCallbacks ==
  ASSUME TypeOK, NEW t \in Int, LidarCbk(t) \/ ImuCbk(t) \/ WheelCbk(t)
  PROVE  TypeOK'
<1>. USE DEF meas, sync
<1>1. CASE LidarCbk(t)
  <2>. DEFINE new == [id |-> scans + 1, t |-> t]
              all == (IF t - lastLidar > Gap THEN <<>> ELSE lidarBuf) \o <<new>>
  <2>1. scans \in 0..MaxScans /\ MaxScans \in Nat /\ scans < MaxScans
    BY <1>1, BoundsAssumption DEF LidarCbk, TypeOK
  <2>2. scans' \in 0..MaxScans /\ scans' = scans + 1
    BY <1>1, <2>1 DEF LidarCbk
  <2>3. new \in Samples
    BY <2>1 DEF Samples
  <2>4. all \in Seq(Samples)
    BY <2>3 DEF TypeOK
  <2>5. lidarBuf' = <<>> \/ lidarBuf' = Newest(all)
    BY <1>1 DEF LidarCbk
  <2>6. lidarBuf' \in Seq(Samples) /\ Len(lidarBuf') <= Keep
    <3>1. CASE lidarBuf' = <<>>
      BY <3>1, KeepAssumption
    <3>2. CASE lidarBuf' = Newest(all)
      <4>. HIDE DEF all
      <4>1. Newest(all) \in Seq(Samples)
        BY <2>4, NewestIsEnd
      <4>2. Len(Newest(all)) <= Keep
        BY <2>4, KeepAssumption DEF Newest
      <4>. QED
        BY <3>2, <4>1, <4>2
    <3>. QED
      BY <2>5, <3>1, <3>2
  <2>7. resets' \subseteq resets \cup {scans + 1}
    BY <1>1 DEF LidarCbk
  <2>8. resets' \subseteq 1..scans'
    BY <2>1, <2>2, <2>7 DEF TypeOK
  <2>9. /\ lastLidar' = t
        /\ UNCHANGED <<imuBuf, wheelBuf, lastImu, lastWheel, imus, wheels, meas, sync, imuBack>>
    BY <1>1 DEF LidarCbk
  <2>. QED
    BY <2>2, <2>6, <2>8, <2>9 DEF TypeOK
<1>2. CASE ImuCbk(t)
  <2>1. imus \in 0..MaxImu /\ MaxImu \in Nat /\ imus < MaxImu
    BY <1>2, BoundsAssumption DEF ImuCbk, TypeOK
  <2>2. [id |-> imus + 1, t |-> t] \in Samples
    BY <2>1 DEF Samples
  <2>3. imuBuf' \in Seq(Samples) /\ imuBack' \in BOOLEAN
    <3>1. imuBuf \in Seq(Samples) /\ imuBack \in BOOLEAN
      BY DEF TypeOK
    <3>2. CASE t < lastImu
      BY <1>2, <3>2 DEF ImuCbk
    <3>3. CASE ~(t < lastImu)
      <4>. DEFINE new == [id |-> imus + 1, t |-> t]
                  old == IF t - lastImu > Gap THEN <<>> ELSE imuBuf
      <4>1. imuBuf' = old \o <<new>> /\ imuBack' = imuBack
        BY <1>2, <3>3 DEF ImuCbk
      <4>2. old \in Seq(Samples) /\ new \in Samples
        BY <3>1, <2>2
      <4>. HIDE DEF old, new
      <4>. QED
        BY <3>1, <4>1, <4>2
    <3>. QED
      BY <3>2, <3>3
  <2>4. imus' \in 0..MaxImu /\ lastImu' = t
    BY <1>2, <2>1 DEF ImuCbk
  <2>5. UNCHANGED <<lidarBuf, wheelBuf, lastLidar, lastWheel, scans, wheels, meas, sync, resets>>
    BY <1>2 DEF ImuCbk
  <2>. QED
    BY <2>3, <2>4, <2>5 DEF TypeOK
<1>3. CASE WheelCbk(t)
  <2>1. wheels \in 0..MaxWheel /\ MaxWheel \in Nat /\ wheels < MaxWheel
    BY <1>3, BoundsAssumption DEF WheelCbk, TypeOK
  <2>2. [id |-> wheels + 1, t |-> t] \in Samples
    BY <2>1 DEF Samples
  <2>3. wheelBuf' \in Seq(Samples)
    BY <1>3, <2>2 DEF WheelCbk, TypeOK
  <2>4. wheels' \in 0..MaxWheel /\ lastWheel' = t
    BY <1>3, <2>1 DEF WheelCbk
  <2>5. UNCHANGED <<lidarBuf, imuBuf, lastLidar, lastImu, scans, imus, meas, sync, ghosts>>
    BY <1>3 DEF WheelCbk
  <2>. QED
    BY <2>3, <2>4, <2>5 DEF TypeOK, ghosts
<1>. QED
  BY <1>1, <1>2, <1>3

\* What sync_packages takes out of a buffer is a part of it.
LEMMA TypeFill ==
  ASSUME TypeOK, Fill
  PROVE  imu' \in Seq(Samples) /\ imuBuf' \in Seq(Samples)
<1>1. imuBuf \in Seq(Samples) /\ frame \in Samples
  BY DEF TypeOK
<1>2. Popped \in 0..Len(imuBuf) /\ Dropped \in 0..Popped
  BY <1>1, PoppedBounds, DroppedBounds
<1>3. SubSeq(imuBuf, Dropped + 1, Popped) \in Seq(Samples)
  BY <1>1, <1>2, SubSeqIs
<1>4. SubSeq(imuBuf, Popped + 1, Len(imuBuf)) \in Seq(Samples)
  BY <1>1, <1>2, SubSeqIs
<1>. QED
  BY <1>3, <1>4 DEF Fill

\* FromScan is what remains after the longest prefix from before the scan, and
\* InWindow the longest prefix up to its end.
LEMMA FromScanIs ==
  ASSUME wheelBuf \in Seq(Samples), frame \in Samples
  PROVE  \E k \in 0..Len(wheelBuf) :
            /\ FromScan = SubSeq(wheelBuf, k + 1, Len(wheelBuf))
            /\ \A i \in 1..k : wheelBuf[i].t < frame.t
            /\ k < Len(wheelBuf) => ~(wheelBuf[k + 1].t < frame.t)
<1>. DEFINE T == {n \in 0..Len(wheelBuf) : \A i \in 1..n : wheelBuf[i].t < frame.t}
            k == Max(T)
<1>1. Len(wheelBuf) \in Nat /\ T \subseteq 0..Len(wheelBuf) /\ 0 \in T
  OBVIOUS
<1>2. k \in T /\ \A x \in T : x <= k
  BY <1>1, Greatest
<1>3. FromScan = SubSeq(wheelBuf, k + 1, Len(wheelBuf))
  BY DEF FromScan
<1>. HIDE DEF k
<1>4. k \in 0..Len(wheelBuf) /\ \A i \in 1..k : wheelBuf[i].t < frame.t
  BY <1>2
<1>5. ASSUME k < Len(wheelBuf), wheelBuf[k + 1].t < frame.t PROVE FALSE
  <2>1. k + 1 \in T
    BY <1>4, <1>5
  <2>2. k + 1 <= k
    BY ONLY <2>1, <1>2
  <2>. QED
    BY <2>2, <1>4
<1>. QED
  BY <1>3, <1>4, <1>5

LEMMA InWindowIs ==
  ASSUME NEW s \in Seq(Samples), frame \in Samples
  PROVE  \E m \in 0..Len(s) :
            /\ InWindow(s) = SubSeq(s, 1, m)
            /\ \A i \in 1..m : s[i].t <= ScanEnd
            /\ m < Len(s) => ~(s[m + 1].t <= ScanEnd)
<1>. DEFINE T == {n \in 0..Len(s) : \A i \in 1..n : s[i].t <= ScanEnd}
            m == Max(T)
<1>1. Len(s) \in Nat /\ T \subseteq 0..Len(s) /\ 0 \in T
  OBVIOUS
<1>2. m \in T /\ \A x \in T : x <= m
  BY <1>1, Greatest
<1>3. InWindow(s) = SubSeq(s, 1, m)
  BY DEF InWindow
<1>. HIDE DEF m
<1>4. m \in 0..Len(s) /\ \A i \in 1..m : s[i].t <= ScanEnd
  BY <1>2
<1>5. ASSUME m < Len(s), s[m + 1].t <= ScanEnd PROVE FALSE
  <2>1. m + 1 \in T
    BY <1>4, <1>5
  <2>2. m + 1 <= m
    BY ONLY <2>1, <1>2
  <2>. QED
    BY <2>2, <1>4
<1>. QED
  BY <1>3, <1>4, <1>5

LEMMA TypeStep ==
  ASSUME TypeInv, [Next]_vars
  PROVE  TypeInv'
<1>0. MeasureFilled'
  BY DEF TypeInv, MeasureFilled, Next, Sync, Sensors, CheckLidar, CheckImu, Pop, CheckLag, Fill, Look,
         Wheel, LidarCbk, ImuCbk, WheelCbk, meas, sync, vars
<1>. SUFFICES TypeOK'
  BY <1>0 DEF TypeInv
<1>. USE DEF buffers, lasts, counts, meas, sync, ghosts
<1>1. CASE CheckLidar \/ CheckImu \/ CheckLag \/ Look
  BY <1>1 DEF CheckLidar, CheckImu, CheckLag, Look, TypeInv, TypeOK, Labels
<1>2. CASE Pop
  <2>1. CASE lidarBuf = <<>>
    BY <1>2, <2>1 DEF Pop, TypeInv, TypeOK, Labels
  <2>2. CASE lidarBuf # <<>>
    <3>1. frame' = lidarBuf[1] /\ lidarBuf' = Tail(lidarBuf) /\ pc' = "lag" /\ imuBack' = FALSE
      BY <1>2, <2>2 DEF Pop
    <3>2. lidarBuf \in Seq(Samples) /\ Len(lidarBuf) <= Keep
      BY DEF TypeInv, TypeOK
    <3>3. frame' \in Samples /\ lidarBuf' \in Seq(Samples) /\ Len(lidarBuf') <= Keep
      BY <2>2, <3>1, <3>2, KeepAssumption
    <3>4. UNCHANGED <<imuBuf, wheelBuf, lasts, counts, imu, wheel, lidarEmpty, emptyBack, prev, resets>>
      BY <1>2 DEF Pop
    <3>. QED
      BY <3>1, <3>3, <3>4 DEF TypeInv, TypeOK, Labels
  <2>. QED
    BY <2>1, <2>2
<1>3. CASE Fill
  <2>1. pc' \in Labels
    BY <1>3 DEF Fill, Labels
  <2>2. UNCHANGED <<lidarBuf, wheelBuf, lasts, counts, frame, wheel, lidarEmpty, emptyBack, prev, ghosts>>
    BY <1>3 DEF Fill
  <2>. QED
    BY <1>3, <2>1, <2>2, TypeFill DEF TypeInv, TypeOK
<1>4. CASE Wheel
  <2>1. imu \in Seq(Samples) /\ imu # <<>> /\ frame \in Samples
    BY <1>4 DEF Wheel, TypeInv, TypeOK, MeasureFilled
  <2>2. imu[Len(imu)] \in Samples
    BY <2>1
  <2>3. prev' \in [frame : Samples, imu : Nat]
    BY <1>4, <2>1, <2>2 DEF Wheel, Samples
  <2>4. wheelBuf' \in Seq(Samples) /\ wheel' \in Seq(Samples)
    <3>1. wheelBuf \in Seq(Samples) /\ wheel \in Seq(Samples)
      BY DEF TypeInv, TypeOK
    <3>2. FromScan \in Seq(Samples)
      <4>1. PICK k \in 0..Len(wheelBuf) : FromScan = SubSeq(wheelBuf, k + 1, Len(wheelBuf))
        BY <2>1, <3>1, FromScanIs
      <4>. QED
        BY <4>1, <3>1, SubSeqIs
    <3>3. InWindow(FromScan) \in Seq(Samples)
      <4>1. PICK m \in 0..Len(FromScan) : InWindow(FromScan) = SubSeq(FromScan, 1, m)
        BY <2>1, <3>2, InWindowIs
      <4>. QED
        BY <4>1, <3>2
    <3>. QED
      BY <1>4, <3>1, <3>2, <3>3 DEF Wheel
  <2>5. pc' \in Labels
        /\ UNCHANGED <<lidarBuf, imuBuf, lasts, counts, frame, imu, lidarEmpty, emptyBack, ghosts>>
    BY <1>4 DEF Wheel, Labels
  <2>. QED
    BY <2>3, <2>4, <2>5 DEF TypeInv, TypeOK
<1>5. CASE Sensors
  <2>1. ASSUME NEW t, t \in NextStamps(scans, lastLidar, LidarSteps) \cup NextStamps(imus, lastImu, ImuSteps)
                            \cup {lastWheel + d : d \in WheelSteps}
        PROVE  t \in Int
    <3>1. {lastLidar, lastImu, lastWheel} \subseteq Int
      BY DEF TypeInv, TypeOK
    <3>2. CASE t \in NextStamps(scans, lastLidar, LidarSteps) \cup NextStamps(imus, lastImu, ImuSteps)
      BY <3>1, <3>2, StepsAssumption, NextStampsInt
    <3>3. CASE t \in {lastWheel + d : d \in WheelSteps}
      BY <3>1, <3>3, StepsAssumption
    <3>. QED
      BY <2>1, <3>2, <3>3
  <2>. QED
    BY <1>5, <2>1, TypeCallbacks DEF TypeInv, Sensors
<1>6. CASE UNCHANGED vars
  BY <1>6 DEF vars, TypeInv, TypeOK
<1>. QED
  BY <1>1, <1>2, <1>3, <1>4, <1>5, <1>6 DEF Next, Sync

\* The variables have their types; the lidar buffer never holds more than the
\* frames that lidar_pcl_cbk keeps, and sync_packages never reads the last sample
\* of an empty measure.
THEOREM Typed == Spec => []TypeOK
<1>1. TypeInv => TypeOK
  BY DEF TypeInv
<1>2. TypeInv /\ [Next]_vars => TypeInv'
  BY TypeStep
<1>. QED
  BY <1>1, <1>2, TypeInit, PTL DEF Spec

-------------------------------------------------------------------------------
(* The IMU samples.                                                            *)

\* The buffer is in order by number and by time, ends with the last stamp, and
\* holds nothing that served an earlier measure.
ImuInOrder ==
    /\ prev.imu <= imus
    /\ \A i \in DOMAIN imuBuf :
          prev.imu < imuBuf[i].id /\ imuBuf[i].id <= imus /\ imuBuf[i].t <= lastImu
    /\ \A i, j \in DOMAIN imuBuf :
          i < j => imuBuf[i].id < imuBuf[j].id /\ imuBuf[i].t <= imuBuf[j].t
    /\ imuBuf # <<>> => imuBuf[Len(imuBuf)].t = lastImu

\* The samples of the measure lie in the scan, in order, before what is left.
TakenInOrder ==
    pc \in {"look", "wheel"} =>
      /\ \A i \in DOMAIN imu : /\ frame.t < imu[i].t /\ imu[i].t <= ScanEnd
                               /\ prev.imu < imu[i].id /\ imu[i].id <= imus
      /\ \A i, j \in DOMAIN imu : i < j => imu[i].id < imu[j].id /\ imu[i].t <= imu[j].t
      /\ \A i \in DOMAIN imu, j \in DOMAIN imuBuf : imu[i].id < imuBuf[j].id

\* Unless the clock went back since the frame was popped, the IMU has passed the end
\* of the scan, what is left is not before it, and one of the two is not empty.
ScanCovered ==
    ~imuBack =>
      /\ pc \in {"fill", "look", "wheel"} => lastImu >= ScanEnd
      /\ pc \in {"look", "wheel"} => \A i \in DOMAIN imuBuf : imuBuf[i].t >= ScanEnd
      /\ pc = "look" => imu # <<>> \/ imuBuf # <<>>

ImuInv == ImuInOrder /\ TakenInOrder /\ ScanCovered

LEMMA ImuInvInit == Init => ImuInv
BY DEF Init, ImuInv, ImuInOrder, TakenInOrder, ScanCovered

\* imu_cbk: a stamp that goes back empties the buffer, any other comes last.
LEMMA ImuInvCbk ==
  ASSUME TypeInv, ImuInv, NEW t \in Int, ImuCbk(t)
  PROVE  ImuInv'
<1>. DEFINE new == [id |-> imus + 1, t |-> t]
            old == IF t - lastImu > Gap THEN <<>> ELSE imuBuf
<1>1. /\ UNCHANGED <<pc, frame, imu, prev>>
      /\ imus' = imus + 1 /\ lastImu' = t
  BY DEF ImuCbk, meas, sync
<1>2. /\ imuBuf \in Seq(Samples) /\ imu \in Seq(Samples) /\ imus \in Nat /\ lastImu \in Int
      /\ prev.imu \in Nat /\ frame.t \in Int /\ ScanEnd \in Int /\ ScanEnd' = ScanEnd
      /\ imuBack \in BOOLEAN
  <2>1. frame \in Samples /\ prev \in [frame : Samples, imu : Nat]
    BY DEF TypeInv, TypeOK
  <2>. QED
    BY <1>1, <2>1, TimeAssumption, SMTT(30) DEF TypeInv, TypeOK, ScanEnd, Samples
<1>3. \A i \in DOMAIN imu : imu[i].id \in Nat /\ imu[i].t \in Int
  <2>1. \A i \in DOMAIN imu : imu[i] \in Samples
    BY <1>2
  <2>. QED
    BY <2>1 DEF Samples
<1>4. CASE t < lastImu
  <2>1. imuBuf' = <<>> /\ imuBack'
    BY <1>4 DEF ImuCbk
  <2>2. ImuInOrder'
    BY <1>1, <1>2, <2>1 DEF ImuInv, ImuInOrder
  <2>3. TakenInOrder'
    BY <1>1, <1>2, <1>3, <2>1 DEF ImuInv, TakenInOrder
  <2>4. ScanCovered'
    BY <2>1 DEF ScanCovered
  <2>. QED
    BY <2>2, <2>3, <2>4 DEF ImuInv
<1>5. CASE ~(t < lastImu)
  <2>1. imuBuf' = old \o <<new>> /\ imuBack' = imuBack
    BY <1>5 DEF ImuCbk
  <2>2. old \in Seq(Samples) /\ new \in Samples
    BY <1>2 DEF Samples
  <2>3. \A i \in 1..Len(old) : i \in DOMAIN imuBuf /\ old[i] = imuBuf[i] /\ old[i] \in Samples
    BY <1>2
  <2>4. new.id = imus + 1 /\ new.t = t
    OBVIOUS
  <2>. HIDE DEF old, new
  <2>5. /\ imuBuf' \in Seq(Samples) /\ Len(imuBuf') = Len(old) + 1 /\ imuBuf'[Len(old) + 1] = new
        /\ \A i \in 1..Len(old) : imuBuf'[i] = old[i]
    BY <2>1, <2>2
  <2>6. \A i \in DOMAIN imuBuf' : /\ i \in 1..(Len(old) + 1)
                                  /\ i = Len(old) + 1 \/ i \in 1..Len(old)
    BY <2>2, <2>5
  <2>7. \A i \in 1..Len(old) : /\ prev.imu < old[i].id /\ old[i].id <= imus /\ old[i].t <= lastImu
                               /\ old[i].id \in Nat /\ old[i].t \in Int
    BY <2>3 DEF ImuInv, ImuInOrder, Samples
  <2>8. ImuInOrder'
    <3>1. \A i \in DOMAIN imuBuf' :
             prev.imu < imuBuf'[i].id /\ imuBuf'[i].id <= imus + 1 /\ imuBuf'[i].t <= t
      <4>1. prev.imu <= imus
        BY DEF ImuInv, ImuInOrder
      <4>. QED
        BY <4>1, <1>2, <1>5, <2>4, <2>5, <2>6, <2>7, SMTT(30)
    <3>2. ASSUME NEW i \in DOMAIN imuBuf', NEW j \in DOMAIN imuBuf', i < j
          PROVE  imuBuf'[i].id < imuBuf'[j].id /\ imuBuf'[i].t <= imuBuf'[j].t
      <4>1. i \in 1..Len(old)
        BY <2>2, <2>6, <3>2
      <4>2. CASE j = Len(old) + 1
        BY <4>1, <4>2, <1>2, <1>5, <2>4, <2>5, <2>7, SMTT(30)
      <4>3. CASE j \in 1..Len(old)
        BY <4>1, <4>3, <2>3, <2>5, <3>2 DEF ImuInv, ImuInOrder
      <4>. QED
        BY <4>2, <4>3, <2>6
    <3>3. imuBuf'[Len(imuBuf')].t = t /\ prev.imu <= imus + 1
      BY <1>2, <2>4, <2>5 DEF ImuInv, ImuInOrder
    <3>. QED
      BY <3>1, <3>2, <3>3, <1>1 DEF ImuInOrder
  <2>9. TakenInOrder'
    <3>. SUFFICES ASSUME pc \in {"look", "wheel"}
                  PROVE  /\ \A i \in DOMAIN imu : imu[i].id <= imus + 1
                         /\ \A i \in DOMAIN imu, j \in DOMAIN imuBuf' : imu[i].id < imuBuf'[j].id
      BY <1>1, <1>2 DEF ImuInv, TakenInOrder
    <3>1. /\ \A i \in DOMAIN imu : imu[i].id <= imus
          /\ \A i \in DOMAIN imu, j \in 1..Len(old) : imu[i].id < old[j].id
      BY <2>3 DEF ImuInv, TakenInOrder
    <3>2. \A i \in DOMAIN imu : imu[i].id <= imus + 1 /\ imu[i].id < imus + 1
      BY <3>1, <1>2, <1>3
    <3>3. ASSUME NEW i \in DOMAIN imu, NEW j \in DOMAIN imuBuf' PROVE imu[i].id < imuBuf'[j].id
      <4>1. CASE j = Len(old) + 1
        BY <4>1, <3>2, <2>4, <2>5
      <4>2. CASE j \in 1..Len(old)
        BY <4>2, <3>1, <2>5
      <4>. QED
        BY <4>1, <4>2, <2>6
    <3>. QED
      BY <3>2, <3>3
  <2>10. ScanCovered'
    <3>. SUFFICES ASSUME ~imuBack
                  PROVE  /\ pc \in {"fill", "look", "wheel"} => t >= ScanEnd
                         /\ pc \in {"look", "wheel"} => \A i \in DOMAIN imuBuf' : imuBuf'[i].t >= ScanEnd
                         /\ imuBuf' # <<>>
      BY <1>1, <1>2, <2>1 DEF ScanCovered
    <3>1. pc \in {"fill", "look", "wheel"} => t >= ScanEnd
      BY <1>2, <1>5 DEF ImuInv, ScanCovered
    <3>2. pc \in {"look", "wheel"} => \A i \in 1..Len(old) : old[i].t >= ScanEnd
      BY <2>3 DEF ImuInv, ScanCovered
    <3>. QED
      BY <3>1, <3>2, <2>2, <2>4, <2>5, <2>6
  <2>. QED
    BY <2>8, <2>9, <2>10 DEF ImuInv
<1>. QED
  BY <1>4, <1>5

\* The loop of sync_packages splits the buffer: the measure gets what lies in the
\* scan, and the buffer keeps what is not before its end.
LEMMA FillSplits ==
  ASSUME TypeInv, ImuInv, Fill
  PROVE  /\ \A i \in DOMAIN imu' : /\ i + Dropped \in 1..Popped /\ i + Dropped \in DOMAIN imuBuf
                                  /\ imu'[i] = imuBuf[i + Dropped]
                                  /\ frame.t < imu'[i].t /\ imu'[i].t <= ScanEnd
         /\ \A i \in DOMAIN imuBuf' : /\ i + Popped \in DOMAIN imuBuf
                                     /\ imuBuf'[i] = imuBuf[i + Popped]
                                     /\ imuBuf'[i].t >= ScanEnd
         /\ Len(imuBuf') = Len(imuBuf) - Popped /\ Len(imu') = Popped - Dropped
         /\ Popped \in 0..Len(imuBuf) /\ Dropped \in 0..Popped
<1>1. imuBuf \in Seq(Samples) /\ frame \in Samples /\ frame.t \in Int /\ ScanEnd \in Int
  <2>1. frame \in Samples
    BY DEF TypeInv, TypeOK
  <2>. QED
    BY <2>1, TimeAssumption, SMTT(30) DEF TypeInv, TypeOK, Samples, ScanEnd
<1>2. /\ Popped \in 0..Len(imuBuf) /\ Dropped \in 0..Popped
      /\ \A i \in 1..Popped : imuBuf[i].t <= ScanEnd
      /\ Popped < Len(imuBuf) =>
           imuBuf[Popped + 1].t >= ScanEnd \/ (Popped > 0 /\ imuBuf[Popped].t = ScanEnd)
      /\ Dropped < Popped => imuBuf[Dropped + 1].t > frame.t
  BY <1>1, PoppedBounds, DroppedBounds
<1>3. \A i \in DOMAIN imuBuf : i \in 1..Len(imuBuf) /\ imuBuf[i].t \in Int
  <2>1. \A i \in DOMAIN imuBuf : imuBuf[i] \in Samples
    BY <1>1
  <2>. QED
    BY <1>1, <2>1 DEF Samples
<1>4. \A i, j \in DOMAIN imuBuf : i <= j => imuBuf[i].t <= imuBuf[j].t
  BY <1>3 DEF ImuInv, ImuInOrder
<1>5. imu' = SubSeq(imuBuf, Dropped + 1, Popped) /\ imuBuf' = SubSeq(imuBuf, Popped + 1, Len(imuBuf))
  BY DEF Fill
<1>. HIDE DEF Popped, Dropped
<1>6. /\ DOMAIN imu' = 1..(Popped - Dropped) /\ Len(imu') = Popped - Dropped
      /\ \A i \in 1..(Popped - Dropped) : /\ imu'[i] = imuBuf[i + Dropped]
                                          /\ i + Dropped \in 1..Popped /\ i + Dropped \in DOMAIN imuBuf
  <2>1. Dropped \in 0..Len(imuBuf) /\ Popped \in Dropped..Len(imuBuf)
    BY <1>1, <1>2
  <2>. QED
    BY <1>1, <1>5, <2>1, SubSeqIs
<1>7. /\ DOMAIN imuBuf' = 1..(Len(imuBuf) - Popped) /\ Len(imuBuf') = Len(imuBuf) - Popped
      /\ \A i \in 1..(Len(imuBuf) - Popped) : /\ imuBuf'[i] = imuBuf[i + Popped]
                                              /\ i + Popped \in DOMAIN imuBuf
  <2>1. Len(imuBuf) \in Popped..Len(imuBuf)
    BY <1>1, <1>2
  <2>. QED
    BY <1>1, <1>2, <1>5, <2>1, SubSeqIs
<1>8. ASSUME NEW i \in DOMAIN imu'
      PROVE  /\ i + Dropped \in 1..Popped /\ i + Dropped \in DOMAIN imuBuf
             /\ imu'[i] = imuBuf[i + Dropped]
             /\ frame.t < imu'[i].t /\ imu'[i].t <= ScanEnd
  <2>1. i + Dropped \in 1..Popped /\ i + Dropped \in DOMAIN imuBuf /\ imu'[i] = imuBuf[i + Dropped]
    BY <1>6
  <2>2. Dropped < Popped /\ Dropped + 1 \in DOMAIN imuBuf /\ Dropped + 1 <= i + Dropped
    BY <1>1, <1>2, <1>6
  <2>3. imuBuf[Dropped + 1].t <= imuBuf[i + Dropped].t /\ imuBuf[Dropped + 1].t > frame.t
    BY <2>1, <2>2, <1>2, <1>4
  <2>4. imuBuf[Dropped + 1].t \in Int /\ imuBuf[i + Dropped].t \in Int
    BY <2>1, <2>2, <1>3
  <2>. QED
    BY <2>1, <2>3, <2>4, <1>1, <1>2
<1>9. ASSUME NEW i \in DOMAIN imuBuf'
      PROVE  /\ i + Popped \in DOMAIN imuBuf /\ imuBuf'[i] = imuBuf[i + Popped]
             /\ imuBuf'[i].t >= ScanEnd
  <2>1. i + Popped \in DOMAIN imuBuf /\ imuBuf'[i] = imuBuf[i + Popped]
    BY <1>7
  <2>2. Popped < Len(imuBuf) /\ Popped + 1 \in DOMAIN imuBuf /\ Popped + 1 <= i + Popped
        /\ (Popped > 0 => Popped \in DOMAIN imuBuf /\ Popped <= i + Popped)
    BY <1>1, <1>2, <1>7
  <2>3. CASE imuBuf[Popped + 1].t >= ScanEnd
    <3>1. imuBuf[Popped + 1].t <= imuBuf[i + Popped].t
      BY <2>1, <2>2, <1>4
    <3>. QED
      BY <3>1, <2>1, <2>2, <2>3, <1>1, <1>3
  <2>4. CASE Popped > 0 /\ imuBuf[Popped].t = ScanEnd
    <3>1. imuBuf[Popped].t <= imuBuf[i + Popped].t
      BY <2>1, <2>2, <2>4, <1>4
    <3>. QED
      BY <3>1, <2>1, <2>2, <2>4, <1>1, <1>3
  <2>. QED
    BY <2>2, <2>3, <2>4, <1>2
<1>. QED
  BY <1>2, <1>6, <1>7, <1>8, <1>9

LEMMA ImuInvFill ==
  ASSUME TypeInv, ImuInv, Fill
  PROVE  ImuInv'
<1>1. /\ UNCHANGED <<lasts, counts, frame, prev, imuBack>> /\ ScanEnd' = ScanEnd
      /\ pc = "fill" /\ pc' \in {"lidar", "look"}
      /\ pc' = "look" => imuBuf # <<>>
  BY DEF Fill, ghosts, ScanEnd
<1>2. /\ imuBuf \in Seq(Samples) /\ imu' \in Seq(Samples) /\ imuBuf' \in Seq(Samples)
      /\ frame.t \in Int /\ ScanEnd = frame.t + Scan /\ Scan \in Nat \ {0}
  <2>1. frame \in Samples
    BY DEF TypeInv, TypeOK
  <2>. QED
    BY <2>1, TypeFill, TimeAssumption DEF TypeInv, TypeOK, ScanEnd, Samples
<1>3. /\ \A i \in DOMAIN imu' : /\ i + Dropped \in 1..Popped /\ i + Dropped \in DOMAIN imuBuf
                               /\ imu'[i] = imuBuf[i + Dropped]
                               /\ frame.t < imu'[i].t /\ imu'[i].t <= ScanEnd
      /\ \A i \in DOMAIN imuBuf' : /\ i + Popped \in DOMAIN imuBuf
                                  /\ imuBuf'[i] = imuBuf[i + Popped]
                                  /\ imuBuf'[i].t >= ScanEnd
      /\ Len(imuBuf') = Len(imuBuf) - Popped /\ Len(imu') = Popped - Dropped
      /\ Popped \in 0..Len(imuBuf) /\ Dropped \in 0..Popped
  BY FillSplits
<1>4. \A i \in DOMAIN imu' : i \in Nat
  BY <1>2
<1>5. \A i \in DOMAIN imuBuf' : i \in Nat \ {0}
  BY <1>2
<1>6. \A i, j \in DOMAIN imuBuf :
         i < j => imuBuf[i].id < imuBuf[j].id /\ imuBuf[i].t <= imuBuf[j].t
  BY DEF ImuInv, ImuInOrder
<1>7. ImuInOrder'
  <2>1. \A i \in DOMAIN imuBuf' :
           prev.imu < imuBuf'[i].id /\ imuBuf'[i].id <= imus /\ imuBuf'[i].t <= lastImu
    BY <1>3 DEF ImuInv, ImuInOrder
  <2>2. ASSUME NEW i \in DOMAIN imuBuf', NEW j \in DOMAIN imuBuf', i < j
        PROVE  imuBuf'[i].id < imuBuf'[j].id /\ imuBuf'[i].t <= imuBuf'[j].t
    <3>1. i + Popped < j + Popped
      BY <1>3, <1>5, <2>2
    <3>. QED
      BY <3>1, <1>3, <1>6
  <2>3. ASSUME imuBuf' # <<>> PROVE imuBuf'[Len(imuBuf')].t = lastImu
    <3>1. Len(imuBuf') \in DOMAIN imuBuf' /\ Len(imuBuf') + Popped = Len(imuBuf) /\ imuBuf # <<>>
      BY <1>2, <1>3, <2>3
    <3>2. imuBuf'[Len(imuBuf')] = imuBuf[Len(imuBuf)]
      BY <3>1, <1>3
    <3>. QED
      BY <3>1, <3>2 DEF ImuInv, ImuInOrder
  <2>4. prev.imu <= imus
    BY DEF ImuInv, ImuInOrder
  <2>. QED
    BY <1>1, <2>1, <2>2, <2>3, <2>4 DEF ImuInOrder, lasts, counts
<1>8. TakenInOrder'
  <2>1. \A i \in DOMAIN imu' : prev.imu < imu'[i].id /\ imu'[i].id <= imus
    BY <1>3 DEF ImuInv, ImuInOrder
  <2>2. ASSUME NEW i \in DOMAIN imu', NEW j \in DOMAIN imu', i < j
        PROVE  imu'[i].id < imu'[j].id /\ imu'[i].t <= imu'[j].t
    <3>1. i + Dropped < j + Dropped
      BY <1>3, <1>4, <2>2
    <3>. QED
      BY <3>1, <1>3, <1>6
  <2>3. ASSUME NEW i \in DOMAIN imu', NEW j \in DOMAIN imuBuf' PROVE imu'[i].id < imuBuf'[j].id
    <3>1. i + Dropped < j + Popped
      BY <1>3, <1>5
    <3>. QED
      BY <3>1, <1>3, <1>6
  <2>. QED
    BY <1>1, <1>3, <2>1, <2>2, <2>3 DEF TakenInOrder, counts
<1>9. ScanCovered'
  <2>. SUFFICES ASSUME ~imuBack, pc' = "look"
                PROVE  /\ lastImu >= ScanEnd
                       /\ imu' # <<>> \/ imuBuf' # <<>>
    BY <1>1, <1>3 DEF ScanCovered, lasts
  <2>1. lastImu >= ScanEnd
    BY <1>1 DEF ImuInv, ScanCovered
  <2>2. ASSUME imu' = <<>>, imuBuf' = <<>> PROVE FALSE
    <3>1. Popped = Len(imuBuf) /\ Dropped = Len(imuBuf) /\ imuBuf # <<>>
      BY <1>1, <1>2, <1>3, <2>2
    <3>2. Dropped \in DOMAIN imuBuf /\ imuBuf[Dropped].t = lastImu
      BY <1>2, <3>1 DEF ImuInv, ImuInOrder
    <3>3. imuBuf[Dropped].t <= frame.t
      <4>1. \A i \in 1..Dropped : imuBuf[i].t <= frame.t
        BY DroppedBounds DEF TypeInv, TypeOK
      <4>2. Dropped \in 1..Dropped
        BY <1>2, <3>1, <3>2
      <4>. QED
        BY <4>1, <4>2
    <3>4. lastImu \in Int
      BY DEF TypeInv, TypeOK
    <3>. QED
      BY <2>1, <3>2, <3>3, <3>4, <1>2
  <2>. QED
    BY <2>1, <2>2
<1>. QED
  BY <1>7, <1>8, <1>9 DEF ImuInv

LEMMA ImuInvWheel ==
  ASSUME TypeInv, ImuInv, Wheel
  PROVE  ImuInv'
<1>1. /\ UNCHANGED <<imuBuf, lasts, counts, frame, imu, imuBack>> /\ pc = "wheel" /\ pc' = "lidar"
      /\ imu \in Seq(Samples) /\ imu # <<>> /\ prev'.imu = imu[Len(imu)].id
  BY DEF Wheel, ghosts, TypeInv, TypeOK, MeasureFilled
<1>2. Len(imu) \in DOMAIN imu
  BY <1>1
<1>3. imu[Len(imu)].id <= imus /\ \A j \in DOMAIN imuBuf : imu[Len(imu)].id < imuBuf[j].id
  BY <1>1, <1>2 DEF ImuInv, TakenInOrder
<1>4. ImuInOrder'
  BY <1>1, <1>3 DEF ImuInv, ImuInOrder, lasts, counts
<1>. QED
  BY <1>1, <1>4 DEF ImuInv, TakenInOrder, ScanCovered

LEMMA ImuInvStep ==
  ASSUME TypeInv, ImuInv, [Next]_vars
  PROVE  ImuInv'
<1>. USE DEF lasts, counts, meas, sync, buffers, ghosts
<1>1. ASSUME NEW t \in NextStamps(imus, lastImu, ImuSteps), ImuCbk(t) PROVE ImuInv'
  <2>1. t \in Int
    BY <1>1, StepsAssumption, NextStampsInt DEF TypeInv, TypeOK
  <2>. QED
    BY <1>1, <2>1, ImuInvCbk
<1>2. CASE Fill
  BY <1>2, ImuInvFill
<1>3. CASE Wheel
  BY <1>3, ImuInvWheel
<1>4. CASE Pop
  BY <1>4 DEF Pop, ImuInv, ImuInOrder, TakenInOrder, ScanCovered
<1>5. CASE CheckLidar \/ CheckImu
  BY <1>5 DEF CheckLidar, CheckImu, ImuInv, ImuInOrder, TakenInOrder, ScanCovered
<1>6. CASE CheckLag
  <2>1. lastImu \in Int /\ ScanEnd \in Int /\ ScanEnd' = ScanEnd
    <3>1. frame \in Samples
      BY DEF TypeInv, TypeOK
    <3>. QED
      BY <1>6, <3>1, TimeAssumption DEF CheckLag, TypeInv, TypeOK, ScanEnd, Samples
  <2>. QED
    BY <1>6, <2>1 DEF CheckLag, ImuInv, ImuInOrder, TakenInOrder, ScanCovered
<1>7. CASE Look
  <2>1. ScanEnd' = ScanEnd
    BY <1>7 DEF Look, ScanEnd
  <2>. QED
    BY <1>7, <2>1 DEF Look, ImuInv, ImuInOrder, TakenInOrder, ScanCovered
<1>8. ASSUME NEW t, LidarCbk(t) \/ WheelCbk(t) PROVE ImuInv'
  <2>1. UNCHANGED <<imuBuf, lastImu, imus, meas, sync, imuBack>> /\ ScanEnd' = ScanEnd
    BY <1>8 DEF LidarCbk, WheelCbk, ScanEnd
  <2>. QED
    BY <2>1 DEF ImuInv, ImuInOrder, TakenInOrder, ScanCovered
<1>9. CASE UNCHANGED vars
  <2>1. ScanEnd' = ScanEnd
    BY <1>9 DEF vars, ScanEnd
  <2>. QED
    BY <1>9, <2>1 DEF vars, ImuInv, ImuInOrder, TakenInOrder, ScanCovered
<1>. QED
  BY <1>1, <1>2, <1>3, <1>4, <1>5, <1>6, <1>7, <1>8, <1>9 DEF Next, Sync, Sensors

\* The unlocked imu_buffer_.back() of the log line meets an empty buffer only if the
\* IMU clock went back between two critical sections of one call of sync_packages.
THEOREM BackNeedsRollback == Spec => EmptyBackNeedsRollback
<1>1. ASSUME TypeInv, ImuInv, [Next]_vars
      PROVE  [emptyBack' # emptyBack => imuBack]_vars
  <2>1. CASE Look
    <3>. SUFFICES ASSUME emptyBack' # emptyBack PROVE imuBack
      OBVIOUS
    <3>1. pc = "look" /\ imu = <<>> /\ emptyBack' = (emptyBack \/ imuBuf = <<>>)
      BY <2>1 DEF Look
    <3>2. imuBuf = <<>>
      <4>1. emptyBack \in BOOLEAN
        BY <1>1 DEF TypeInv, TypeOK
      <4>. QED
        BY <3>1, <4>1
    <3>. QED
      BY <1>1, <3>1, <3>2 DEF ImuInv, ScanCovered
  <2>2. CASE CheckLidar \/ CheckImu \/ Pop \/ CheckLag \/ Fill \/ Wheel \/ UNCHANGED vars
    BY <2>2 DEF CheckLidar, CheckImu, Pop, CheckLag, Fill, Wheel, vars, sync
  <2>3. CASE Sensors
    BY <2>3 DEF Sensors, LidarCbk, ImuCbk, WheelCbk, sync
  <2>. QED
    BY <1>1, <2>1, <2>2, <2>3 DEF Next, Sync
<1>2. TypeInv /\ [Next]_vars => TypeInv'
  BY TypeStep
<1>3. TypeInv /\ ImuInv /\ [Next]_vars => ImuInv'
  BY ImuInvStep
<1>. QED
  BY <1>1, <1>2, <1>3, TypeInit, ImuInvInit, PTL DEF Spec, EmptyBackNeedsRollback

-------------------------------------------------------------------------------
(* The wheel data, and the measure.                                            *)

\* The buffer is in order by time; without wheels there is nothing.
WheelInv ==
    /\ \A i \in DOMAIN wheelBuf : wheelBuf[i].t <= lastWheel
    /\ \A i, j \in DOMAIN wheelBuf : i < j => wheelBuf[i].t <= wheelBuf[j].t
    /\ ~UseWheel => wheelBuf = <<>> /\ wheel = <<>>

LEMMA WheelInvInit == Init => WheelInv
BY DEF Init, WheelInv

\* wheel_odom_cbk: the datum whose stamp goes back is the first of a new buffer.
LEMMA WheelInvCbk ==
  ASSUME TypeInv, WheelInv, UseWheel, NEW t \in Int, WheelCbk(t)
  PROVE  WheelInv'
<1>. DEFINE new == [id |-> wheels + 1, t |-> t]
            old == IF t < lastWheel THEN <<>> ELSE wheelBuf
<1>1. wheelBuf' = old \o <<new>> /\ lastWheel' = t
  BY DEF WheelCbk
<1>2. wheelBuf \in Seq(Samples) /\ wheels \in Nat /\ lastWheel \in Int
  BY DEF TypeInv, TypeOK
<1>3. old \in Seq(Samples) /\ new \in Samples /\ new.t = t
  BY <1>2 DEF Samples
<1>4. ASSUME NEW i \in 1..Len(old)
      PROVE  i \in DOMAIN wheelBuf /\ old[i] = wheelBuf[i] /\ old[i].t \in Int /\ old[i].t <= t
  <2>1. ~(t < lastWheel) /\ i \in DOMAIN wheelBuf /\ old[i] = wheelBuf[i]
    BY <1>2
  <2>2. wheelBuf[i] \in Samples /\ wheelBuf[i].t <= lastWheel
    BY <2>1, <1>2 DEF WheelInv
  <2>. QED
    BY <2>1, <2>2, <1>2 DEF Samples
<1>. HIDE DEF old, new
<1>5. /\ wheelBuf' \in Seq(Samples) /\ Len(wheelBuf') = Len(old) + 1
      /\ wheelBuf'[Len(old) + 1] = new /\ \A i \in 1..Len(old) : wheelBuf'[i] = old[i]
  BY <1>1, <1>3
<1>6. \A i \in DOMAIN wheelBuf' : /\ i \in 1..(Len(old) + 1)
                                  /\ i = Len(old) + 1 \/ i \in 1..Len(old)
  BY <1>3, <1>5
<1>7. \A i \in DOMAIN wheelBuf' : wheelBuf'[i].t <= t
  BY <1>3, <1>4, <1>5, <1>6
<1>8. ASSUME NEW i \in DOMAIN wheelBuf', NEW j \in DOMAIN wheelBuf', i < j
      PROVE  wheelBuf'[i].t <= wheelBuf'[j].t
  <2>1. i \in 1..Len(old)
    BY <1>3, <1>6, <1>8
  <2>2. CASE j = Len(old) + 1
    BY <2>1, <2>2, <1>3, <1>4, <1>5
  <2>3. CASE j \in 1..Len(old)
    BY <2>1, <2>3, <1>4, <1>5, <1>8 DEF WheelInv
  <2>. QED
    BY <2>2, <2>3, <1>6
<1>. QED
  BY <1>1, <1>7, <1>8 DEF WheelInv

\* getDataInRangeAndClean keeps what is not older than the scan, and returns of that
\* what is not later.
LEMMA WindowIs ==
  ASSUME TypeInv, WheelInv
  PROVE  \E k \in 0..Len(wheelBuf) : \E m \in 0..(Len(wheelBuf) - k) :
            /\ Len(FromScan) = Len(wheelBuf) - k /\ DOMAIN FromScan = 1..(Len(wheelBuf) - k)
            /\ \A i \in DOMAIN FromScan : i + k \in DOMAIN wheelBuf /\ FromScan[i] = wheelBuf[i + k]
            /\ DOMAIN InWindow(FromScan) = 1..m
            /\ \A i \in 1..m : /\ i + k \in DOMAIN wheelBuf
                               /\ InWindow(FromScan)[i] = wheelBuf[i + k]
                               /\ frame.t <= wheelBuf[i + k].t /\ wheelBuf[i + k].t <= ScanEnd
            /\ \A i \in DOMAIN wheelBuf :
                  frame.t <= wheelBuf[i].t /\ wheelBuf[i].t <= ScanEnd => i - k \in 1..m
<1>1. wheelBuf \in Seq(Samples) /\ frame \in Samples /\ frame.t \in Int /\ ScanEnd \in Int
  <2>1. frame \in Samples
    BY DEF TypeInv, TypeOK
  <2>. QED
    BY <2>1, TimeAssumption, SMTT(30) DEF TypeInv, TypeOK, Samples, ScanEnd
<1>2. PICK k \in 0..Len(wheelBuf) :
         /\ FromScan = SubSeq(wheelBuf, k + 1, Len(wheelBuf))
         /\ \A i \in 1..k : wheelBuf[i].t < frame.t
         /\ k < Len(wheelBuf) => ~(wheelBuf[k + 1].t < frame.t)
  BY <1>1, FromScanIs
<1>3. /\ FromScan \in Seq(Samples) /\ Len(FromScan) = Len(wheelBuf) - k
      /\ DOMAIN FromScan = 1..(Len(wheelBuf) - k)
      /\ \A i \in DOMAIN FromScan : i + k \in DOMAIN wheelBuf /\ FromScan[i] = wheelBuf[i + k]
  <2>1. Len(wheelBuf) \in k..Len(wheelBuf)
    BY <1>1
  <2>. QED
    BY <1>1, <1>2, <2>1, SubSeqIs, SMTT(30)
<1>4. PICK m \in 0..Len(FromScan) :
         /\ InWindow(FromScan) = SubSeq(FromScan, 1, m)
         /\ \A i \in 1..m : FromScan[i].t <= ScanEnd
         /\ m < Len(FromScan) => ~(FromScan[m + 1].t <= ScanEnd)
  BY <1>1, <1>3, InWindowIs
<1>5. DOMAIN InWindow(FromScan) = 1..m /\ \A i \in 1..m : InWindow(FromScan)[i] = FromScan[i]
  <2>1. InWindow(FromScan) = SubSeq(FromScan, 0 + 1, m) /\ 0 \in 0..Len(FromScan) /\ m \in 0..Len(FromScan)
    BY <1>3, <1>4
  <2>2. DOMAIN InWindow(FromScan) = 1..(m - 0)
        /\ \A i \in 1..(m - 0) : InWindow(FromScan)[i] = FromScan[i + 0]
    BY <1>3, <2>1, SubSeqIs
  <2>. QED
    BY <2>2, <1>3, <1>4
<1>6. \A i \in DOMAIN wheelBuf : i \in Nat \ {0} /\ wheelBuf[i].t \in Int
  <2>1. \A i \in DOMAIN wheelBuf : wheelBuf[i] \in Samples /\ i \in Nat \ {0}
    BY <1>1
  <2>. QED
    BY <2>1 DEF Samples
<1>7. \A i, j \in DOMAIN wheelBuf : i <= j => wheelBuf[i].t <= wheelBuf[j].t
  BY <1>6 DEF WheelInv
<1>8. ASSUME NEW i \in 1..m
      PROVE  /\ i + k \in DOMAIN wheelBuf /\ InWindow(FromScan)[i] = wheelBuf[i + k]
             /\ frame.t <= wheelBuf[i + k].t /\ wheelBuf[i + k].t <= ScanEnd
  <2>1. i \in DOMAIN FromScan /\ i + k \in DOMAIN wheelBuf /\ FromScan[i] = wheelBuf[i + k]
    <3>1. i \in 1..(Len(wheelBuf) - k)
      BY <1>1, <1>3, <1>4
    <3>. QED
      BY <3>1, <1>3
  <2>2. k < Len(wheelBuf) /\ k + 1 \in DOMAIN wheelBuf /\ k + 1 <= i + k
    BY <1>1, <1>3, <1>4
  <2>3. wheelBuf[k + 1].t >= frame.t /\ wheelBuf[k + 1].t <= wheelBuf[i + k].t
    BY <2>1, <2>2, <1>1, <1>2, <1>6, <1>7, SMTT(30)
  <2>4. frame.t <= wheelBuf[i + k].t
    BY <2>1, <2>2, <2>3, <1>1, <1>6, SMTT(30)
  <2>. QED
    BY <2>1, <2>4, <1>4, <1>5
<1>9. ASSUME NEW i \in DOMAIN wheelBuf, frame.t <= wheelBuf[i].t, wheelBuf[i].t <= ScanEnd
      PROVE  i - k \in 1..m
  <2>1. i > k
    <3>1. i \notin 1..k
      BY <1>1, <1>2, <1>6, <1>9
    <3>. QED
      BY <3>1, <1>6
  <2>2. i - k \in DOMAIN FromScan
    BY <2>1, <1>1, <1>3, <1>6
  <2>3. ASSUME i - k > m PROVE FALSE
    <3>1. m < Len(FromScan) /\ m + 1 \in DOMAIN FromScan
      BY <2>2, <2>3, <1>3, <1>4
    <3>2. m + 1 + k \in DOMAIN wheelBuf /\ FromScan[m + 1] = wheelBuf[m + 1 + k] /\ m + 1 + k <= i
      <4>1. i \in Nat /\ m \in Nat /\ k \in Nat /\ m + 1 \in 1..(Len(wheelBuf) - k) /\ Len(wheelBuf) \in Nat
        BY <3>1, <1>1, <1>3, <1>4, <1>6
      <4>2. m + 1 + k \in DOMAIN wheelBuf /\ m + 1 + k <= i
        BY <4>1, <2>3, <1>1
      <4>. QED
        BY <4>1, <4>2, <1>3
    <3>3. wheelBuf[m + 1 + k].t <= wheelBuf[i].t
      BY <3>2, <1>7
    <3>. QED
      BY <3>1, <3>2, <3>3, <1>1, <1>4, <1>6, <1>9
  <2>. QED
    BY <2>1, <2>3, <1>4, <1>6
<1>. QED
  BY <1>3, <1>4, <1>5, <1>8, <1>9

LEMMA WheelInvStep ==
  ASSUME TypeInv, WheelInv, [Next]_vars
  PROVE  WheelInv'
<1>. USE DEF lasts, counts, meas, sync, buffers, ghosts
<1>1. ASSUME NEW d \in WheelSteps, UseWheel, WheelCbk(lastWheel + d) PROVE WheelInv'
  <2>1. lastWheel + d \in Int
    BY StepsAssumption DEF TypeInv, TypeOK
  <2>. QED
    BY <1>1, <2>1, WheelInvCbk
<1>2. CASE Wheel
  <2>1. CASE UseWheel
    <3>1. PICK k \in 0..Len(wheelBuf) :
             \A i \in DOMAIN FromScan : i + k \in DOMAIN wheelBuf /\ FromScan[i] = wheelBuf[i + k]
      BY WindowIs
    <3>2. wheelBuf' = FromScan /\ lastWheel' = lastWheel
      BY <1>2, <2>1 DEF Wheel
    <3>3. wheelBuf' \in Seq(Samples)
      BY <1>2, TypeStep DEF TypeInv, TypeOK, Next, Sync
    <3>4. \A i, j \in DOMAIN FromScan : i < j => i + k < j + k
      BY <3>2, <3>3
    <3>. QED
      BY <2>1, <3>1, <3>2, <3>4 DEF WheelInv
  <2>2. CASE ~UseWheel
    BY <1>2, <2>2 DEF Wheel, WheelInv
  <2>. QED
    BY <2>1, <2>2
<1>3. CASE CheckLidar \/ CheckImu \/ Pop \/ CheckLag \/ Fill \/ Look \/ UNCHANGED vars
  BY <1>3 DEF CheckLidar, CheckImu, Pop, CheckLag, Fill, Look, vars, WheelInv
<1>4. ASSUME NEW t, LidarCbk(t) \/ ImuCbk(t) PROVE WheelInv'
  BY <1>4 DEF LidarCbk, ImuCbk, WheelInv
<1>. QED
  BY <1>1, <1>2, <1>3, <1>4 DEF Next, Sync, Sensors

\* What the step that completes a measure knows of it.
LEMMA WholeStep ==
  ASSUME TypeInv, ImuInv, WheelInv, Wheel
  PROVE  /\ \A i \in DOMAIN imu : frame.t < imu[i].t /\ imu[i].t <= ScanEnd /\ imu[i].id > prev.imu
         /\ \A i, j \in DOMAIN imu : i < j => imu[i].t <= imu[j].t /\ imu[i].id < imu[j].id
         /\ \A i \in DOMAIN wheel' : frame.t <= wheel'[i].t /\ wheel'[i].t <= ScanEnd
         /\ \A i \in DOMAIN wheelBuf :
              frame.t <= wheelBuf[i].t /\ wheelBuf[i].t <= ScanEnd => wheelBuf[i].id \in Ids(wheel')
         /\ ~imuBack => lastImu >= ScanEnd /\ \A i \in DOMAIN imuBuf : imuBuf[i].t >= ScanEnd
<1>1. pc = "wheel" /\ (UseWheel => wheel' = InWindow(FromScan)) /\ (~UseWheel => wheel' = wheel)
  BY DEF Wheel
<1>2. /\ \A i \in DOMAIN imu : frame.t < imu[i].t /\ imu[i].t <= ScanEnd /\ imu[i].id > prev.imu
      /\ \A i, j \in DOMAIN imu : i < j => imu[i].t <= imu[j].t /\ imu[i].id < imu[j].id
  <2>1. \A i \in DOMAIN imu : imu[i].id \in Nat /\ prev.imu \in Nat
    <3>1. \A i \in DOMAIN imu : imu[i] \in Samples
      BY DEF TypeInv, TypeOK
    <3>. QED
      BY <3>1 DEF TypeInv, TypeOK, Samples
  <2>. QED
    BY <1>1, <2>1 DEF ImuInv, TakenInOrder
<1>3. ~imuBack => lastImu >= ScanEnd /\ \A i \in DOMAIN imuBuf : imuBuf[i].t >= ScanEnd
  BY <1>1 DEF ImuInv, ScanCovered
<1>4. CASE UseWheel
  <2>1. PICK k \in 0..Len(wheelBuf) : \E m \in 0..(Len(wheelBuf) - k) :
            /\ DOMAIN wheel' = 1..m
            /\ \A i \in 1..m : /\ wheel'[i] = wheelBuf[i + k]
                               /\ frame.t <= wheelBuf[i + k].t /\ wheelBuf[i + k].t <= ScanEnd
            /\ \A i \in DOMAIN wheelBuf :
                  frame.t <= wheelBuf[i].t /\ wheelBuf[i].t <= ScanEnd => i - k \in 1..m
    BY <1>1, <1>4, WindowIs
  <2>2. \A i \in DOMAIN wheelBuf : i \in Int /\ (i - k) + k = i
    BY SMTT(30) DEF TypeInv, TypeOK
  <2>. QED
    BY <1>2, <1>3, <2>1, <2>2 DEF Ids
<1>5. CASE ~UseWheel
  BY <1>1, <1>2, <1>3, <1>5 DEF WheelInv
<1>. QED
  BY <1>4, <1>5

\* The measure run is given is its scan's and whole, unless the IMU clock went back
\* between two critical sections of the call.  (sync_packages, the callbacks.)
THEOREM Whole == Spec => MeasureIsWhole
<1>1. ASSUME TypeInv, ImuInv, WheelInv, Next, pc = "wheel", pc' # "wheel" PROVE Wheel
  BY <1>1 DEF Next, Sync, Sensors, CheckLidar, CheckImu, Pop, CheckLag, Fill, Look,
              LidarCbk, ImuCbk, WheelCbk, sync
<1>2. TypeInv /\ ImuInv /\ WheelInv /\ [Next]_vars =>
        [pc = "wheel" /\ pc' # "wheel" =>
           /\ \A i \in DOMAIN imu : frame.t < imu[i].t /\ imu[i].t <= ScanEnd /\ imu[i].id > prev.imu
           /\ \A i, j \in DOMAIN imu : i < j => imu[i].t <= imu[j].t /\ imu[i].id < imu[j].id
           /\ \A i \in DOMAIN wheel' : frame.t <= wheel'[i].t /\ wheel'[i].t <= ScanEnd
           /\ \A i \in DOMAIN wheelBuf :
                frame.t <= wheelBuf[i].t /\ wheelBuf[i].t <= ScanEnd => wheelBuf[i].id \in Ids(wheel')
           /\ ~imuBack => lastImu >= ScanEnd /\ \A i \in DOMAIN imuBuf : imuBuf[i].t >= ScanEnd]_vars
  BY <1>1, WholeStep
<1>3. TypeInv /\ [Next]_vars => TypeInv'
  BY TypeStep
<1>4. TypeInv /\ ImuInv /\ [Next]_vars => ImuInv'
  BY ImuInvStep
<1>5. TypeInv /\ WheelInv /\ [Next]_vars => WheelInv'
  BY WheelInvStep
<1>. QED
  BY <1>2, <1>3, <1>4, <1>5, TypeInit, ImuInvInit, WheelInvInit, PTL DEF Spec, MeasureIsWhole

-------------------------------------------------------------------------------
(* What the lidar callback makes of a message and of a scan.                     *)

\* The points the loop over columns and rings has been at.
Seen == {p \in Passing : p[1] < col \/ (p[1] = col /\ p[2] < row)}

ClipTypes ==
    /\ message \in Messages /\ clip \in {"clip", "done"}
    /\ col \in 1..(Len(message.times) + 1) /\ row \in 1..message.rings
    /\ col = Len(message.times) + 1 => row = 1

Behind(p, q) == q[1] < p[1] \/ (q[1] = p[1] /\ q[2] < p[2])

\* Those that pass are kept, in the order of the loop, with the offsets of their columns.
DenseInv ==
    /\ dense \in Seq([point : Nat \X Nat, offset : Int])
    /\ \A i \in DOMAIN dense : /\ dense[i].point \in Seen
                               /\ dense[i].offset = OffsetOf(message, dense[i].point[1])
    /\ \A i, j \in DOMAIN dense : i < j => Behind(dense[j].point, dense[i].point)
    /\ IsFiniteSet(Seen) /\ Cardinality(Seen) = Len(dense)

SampleInv == ClipTypes /\ DenseInv /\ (clip = "done" => SampleInOrder)

\* The part j of the ring r comes before the part the loop is at, and the points of
\* all such parts.
Earlier(r, j) == r < ring \/ (r = ring /\ j < part)
Passed == {k \in Indices : \E r \in DOMAIN scan.upTo, j \in 1..RingParts : Earlier(r, j) /\ k \in PartOf(r, j)}

FeatureTypes ==
    /\ IsScan(scan) /\ step \in {"idle", "part", "pick"}
    /\ ring \in Nat \ {0} /\ part \in 1..RingParts /\ entry \in Int
    /\ DOMAIN smooth = Indices /\ \A k \in Indices : smooth[k].idx \in Indices
    /\ \A i \in Indices : i < Len(scan.cloud) => pointCol[i] = PointAt(scan, i).col
    /\ corners \in Seq(Indices) /\ stale \in Indices
    /\ step = "idle" => ring \notin DOMAIN scan.upTo
    /\ step = "pick" => ring \in DOMAIN scan.upTo /\ Sp < Ep /\ entry <= Ep

\* What the entry k names before the list is sorted.
Own(k) == IF k = Reach - 1 THEN stale ELSE k

\* The list is sorted part by part: an entry the loop has not come to is untouched, and
\* the entries of a part name the points of this part.
ListInv ==
    /\ \A k \in Inner(scan) \cup {Reach - 1} :
          k \notin Passed /\ (step = "pick" => k \notin Sp..(Ep - 1)) => smooth[k].idx = Own(k)
    /\ step = "pick" => \A k \in Sp..Ep : \E l \in Sp..Ep : smooth[k].idx = Own(l)

\* Labels are the corners, as far as labels are reset; what is around a corner is picked,
\* and no later corner lies there.
CornerInv ==
    LET angular == {corners[i] : i \in DOMAIN corners} IN
    /\ angular \subseteq label /\ label \cap Inner(scan) \subseteq angular
    /\ \A c \in angular : /\ Around(c) \subseteq picked
                          /\ c = stale \/ \E r \in DOMAIN scan.upTo, j \in 1..RingParts :
                                             c \in PartOf(r, j) /\ c # Reach - 1
    /\ \A i, j \in DOMAIN corners : i < j => corners[j] \notin Around(corners[i])

\* The points of the parts passed are corners or surface.
SurfaceInv ==
    LET angular == {corners[i] : i \in DOMAIN corners} IN
    /\ Passed \ {Reach - 1} \subseteq surface \cup angular
    /\ surface \subseteq Passed /\ surface \cap angular = {}

FeatureInv == FeatureTypes /\ ListInv /\ CornerInv /\ SurfaceInv

\* An entry names the first point, if it was never filled, or one with all its neighbours
\* in the arrays.
Named(k) == k = 0 \/ (Reach <= k /\ k + Reach < Slots)

OutsideInv ==
    /\ \A k \in Indices : Named(smooth[k].idx)
    /\ outside => \E i \in DOMAIN corners : corners[i] = 0

-------------------------------------------------------------------------------
(* A message.                                                                    *)

LEMMA DivIs ==
  ASSUME NEW a \in Int, NEW b \in Nat \ {0}
  PROVE  a \div b \in Int /\ b * (a \div b) <= a /\ a < b * (a \div b) + b
  OBVIOUS

LEMMA TimesMonotone ==
  ASSUME NEW a \in Int, NEW b \in Int, NEW c \in Nat, a <= b
  PROVE  c * a \in Int /\ c * b \in Int /\ c * a <= c * b
  OBVIOUS

\* A sample of every r-th of n points, where r is n / K, rounded, at least 1.
LEMMA SampleSize ==
  ASSUME NEW n \in Nat, NEW K \in Nat \ {0}, NEW r \in Nat \ {0}, NEW q \in Int,
         r * q <= n, n < r * q + r,
         r # 1 => 2 * (K * r) <= 2 * n + K,
         2 * n + K < 2 * (K * r) + 2 * K
  PROVE  /\ q \in Nat /\ 2 * q < 3 * K
         /\ n >= K => 4 * (q + 1) > 3 * K
         /\ n > 0 => q > 0
<1>0. q >= 0
  <2>. SUFFICES ASSUME q <= -1 PROVE FALSE
    OBVIOUS
  <2>1. r * q <= r * (-1)
    BY TimesMonotone
  <2>. QED
    BY <2>1
<1>1. CASE r = 1
  BY <1>1, <1>0
<1>2. CASE r >= 2
  <2>1. K * 2 <= K * r
    BY <1>2, TimesMonotone
  <2>2. 2 * q < 3 * K
    <3>. SUFFICES ASSUME 3 * K <= 2 * q PROVE FALSE
      BY <1>0
    <3>1. r * (3 * K) <= r * (2 * q)
      BY TimesMonotone, <1>0
    <3>2. r * (3 * K) = 3 * (K * r) /\ r * (2 * q) = 2 * (r * q)
      OBVIOUS
    <3>3. K * r \in Int /\ r * q \in Int
      OBVIOUS
    <3>. QED
      BY <3>1, <3>2, <3>3, <2>1
  <2>3. n >= K => 4 * (q + 1) > 3 * K
    <3>. SUFFICES ASSUME 4 * (q + 1) <= 3 * K PROVE FALSE
      BY <1>0
    <3>1. r * (4 * (q + 1)) <= r * (3 * K)
      BY TimesMonotone, <1>0
    <3>2. r * (3 * K) = 3 * (K * r) /\ r * (4 * (q + 1)) = 4 * (r * q) + 4 * r
      OBVIOUS
    <3>3. K * r \in Int /\ r * q \in Int
      OBVIOUS
    <3>4. r \in Int /\ 2 * (K * r) <= 2 * n + K
      BY <1>2
    <3>5. K * r < 2 * K
      BY <3>1, <3>2, <3>3, <3>4
    <3>. QED
      BY <3>5, <2>1, <3>3
  <2>4. n > 0 => q > 0
    <3>. SUFFICES ASSUME n > 0, q = 0 PROVE FALSE
      BY <1>0
    <3>1. n < r
      OBVIOUS
    <3>2. K * (n + 1) <= K * r
      BY <3>1, TimesMonotone
    <3>3. K * (n + 1) = K * n + K /\ K * n \in Int /\ K * r \in Int
      OBVIOUS
    <3>4. n * 1 <= n * K
      BY TimesMonotone
    <3>5. n * K = K * n
      OBVIOUS
    <3>. QED
      BY <3>2, <3>3, <3>4, <3>5, <1>2
  <2>. QED
    BY <1>0, <2>2, <2>3, <2>4
<1>. QED
  BY <1>1, <1>2

LEMMA AppendIs ==
  ASSUME NEW S, NEW s \in Seq(S), NEW x \in S
  PROVE  /\ Append(s, x) \in Seq(S) /\ Len(Append(s, x)) = Len(s) + 1 /\ Len(s) \in Nat
         /\ DOMAIN s = 1..Len(s) /\ DOMAIN Append(s, x) = 1..(Len(s) + 1)
         /\ \A i \in 1..Len(s) : Append(s, x)[i] = s[i] /\ s[i] \in S
         /\ Append(s, x)[Len(s) + 1] = x
  OBVIOUS


LEMMA RatioIs ==
  ASSUME NEW n \in Nat
  PROVE  /\ Ratio(n) \in Nat \ {0}
         /\ Ratio(n) # 1 => 2 * (CloudSizeToKeep * Ratio(n)) <= 2 * n + CloudSizeToKeep
         /\ 2 * n + CloudSizeToKeep < 2 * (CloudSizeToKeep * Ratio(n)) + 2 * CloudSizeToKeep
<1>. DEFINE K == CloudSizeToKeep
            rounded == (2 * n + K) \div (2 * K)
<1>0. K \in Nat \ {0} /\ 2 * K \in Nat \ {0} /\ 2 * n + K \in Int
  BY SampleAssumption
<1>1. /\ rounded \in Int /\ (2 * K) * rounded <= 2 * n + K
      /\ 2 * n + K < (2 * K) * rounded + 2 * K
  BY <1>0, DivIs
<1>2. Ratio(n) = IF rounded > 1 THEN rounded ELSE 1
  BY DEF Ratio
<1>. HIDE DEF rounded
<1>3. \A r \in Int : (2 * K) * r = 2 * (K * r) /\ K * r \in Int
  BY <1>0
<1>4. CASE rounded > 1
  BY <1>0, <1>1, <1>2, <1>3, <1>4
<1>5. CASE ~(rounded > 1)
  <2>1. K * rounded <= K * 1
    BY <1>5, <1>1, <1>0, TimesMonotone
  <2>. QED
    BY <1>0, <1>1, <1>2, <1>3, <1>5, <2>1
<1>. QED
  BY <1>4, <1>5

\* The stamps, whichever clock they are of, become times from the header.
LEMMA OffsetIs ==
  ASSUME NEW m \in Messages, NEW h \in DOMAIN m.times
  PROVE  OffsetOf(m, h) \in Int /\ OffsetOf(m, h) = IF m.sensor = "M300" THEN 0 ELSE m.times[h]
<1>1. IsMessage(m)
  BY SampleAssumption
<1>2. m.times[h] \in Nat /\ m.header \in Nat /\ m.sensor \in Lidars
  BY <1>1 DEF IsMessage
<1>. QED
  BY <1>2 DEF OffsetOf, Stamp, Lidars

LEMMA SampleInvInit == ClipInit => SampleInv
<1>. SUFFICES ASSUME NEW m \in Messages, ClipBegins(m) PROVE SampleInv
  BY DEF ClipInit
<1>. USE DEF ClipBegins
<1>1. IsMessage(m)
  BY SampleAssumption
<1>2. m.rings \in Nat \ {0} /\ Len(m.times) \in Nat /\ DOMAIN m.times = 1..Len(m.times)
  BY <1>1 DEF IsMessage
<1>3. ClipTypes
  BY <1>2 DEF ClipTypes
<1>4. Seen = {}
  BY <1>2 DEF Seen, Passing
<1>5. DenseInv
  BY <1>4, FS_EmptySet DEF DenseInv
<1>. QED
  BY <1>3, <1>5 DEF SampleInv

\* Where the next point lies in the order of the loop.
LEMMA ClipPointStep == SampleInv /\ ClipPoint => SampleInv'
<1>. SUFFICES ASSUME SampleInv, ClipPoint PROVE SampleInv'
  OBVIOUS
<1>. USE DEF SampleInv
<1>0. IsMessage(message) /\ message.rings \in Nat \ {0} /\ Len(message.times) \in Nat
      /\ DOMAIN message.times = 1..Len(message.times)
  BY SampleAssumption DEF IsMessage, ClipTypes
<1>1. /\ message' = message /\ clip = "clip" /\ clip' = clip
      /\ col \in 1..Len(message.times) /\ row \in 1..message.rings
  BY <1>0 DEF ClipPoint, ClipTypes
<1>2. ClipTypes'
  BY <1>0, <1>1 DEF ClipPoint, ClipTypes
<1>. DEFINE p == <<col, row>>
            passes == Passes(message.sensor, message.kinds[col][row])
<1>3. p \notin Seen
  BY <1>1 DEF Seen
<1>4. Seen' = IF passes THEN Seen \cup {p} ELSE Seen
  <2>1. \A q \in Passing : q = <<q[1], q[2]>> /\ q[1] \in 1..Len(message.times) /\ q[2] \in 1..message.rings
    BY <1>0 DEF Passing
  <2>2. p \in Passing <=> passes
    BY <1>0, <1>1 DEF Passing
  <2>3. Passing' = Passing
    BY <1>1 DEF Passing
  <2>4. \A q \in Passing : (q[1] < col' \/ (q[1] = col' /\ q[2] < row'))
                              <=> (q[1] < col \/ (q[1] = col /\ q[2] < row)) \/ q = p
    <3>1. CASE row = message.rings
      <4>1. row' = 1 /\ col' = col + 1
        BY <3>1 DEF ClipPoint
      <4>. QED
        BY <4>1, <3>1, <2>1, <1>1, <1>0
    <3>2. CASE row # message.rings
      <4>1. row' = row + 1 /\ col' = col
        BY <3>2 DEF ClipPoint
      <4>. QED
        BY <4>1, <3>2, <2>1, <1>1, <1>0
    <3>. QED
      BY <3>1, <3>2
  <2>5. Seen' = {q \in Passing : q[1] < col' \/ (q[1] = col' /\ q[2] < row')}
    BY <2>3 DEF Seen
  <2>. QED
    BY <2>2, <2>4, <2>5 DEF Seen
<1>5. CASE ~passes
  <2>1. dense' = dense /\ Seen' = Seen
    BY <1>4, <1>5 DEF ClipPoint
  <2>2. DenseInv'
    BY <2>1, <1>1 DEF DenseInv, OffsetOf, Stamp
  <2>. QED
    BY <1>1, <1>2, <2>2
<1>6. CASE passes
  <2>. DEFINE e == [point |-> p, offset |-> OffsetOf(message, col)]
  <2>1. dense' = Append(dense, e) /\ Seen' = Seen \cup {p}
    BY <1>4, <1>6 DEF ClipPoint
  <2>2. OffsetOf(message, col) \in Int
    BY <1>0, <1>1, OffsetIs DEF ClipTypes
  <2>3. e \in [point : Nat \X Nat, offset : Int]
    BY <2>2, <1>1
  <2>4. /\ dense' \in Seq([point : Nat \X Nat, offset : Int]) /\ Len(dense') = Len(dense) + 1
        /\ DOMAIN dense' = 1..(Len(dense) + 1) /\ Len(dense) \in Nat
        /\ \A i \in 1..Len(dense) : dense'[i] = dense[i] /\ i \in DOMAIN dense
        /\ dense'[Len(dense) + 1] = e
    <3>. HIDE DEF e
    <3>. QED
      BY <2>1, <2>3, AppendIs DEF DenseInv
  <2>5. \A i \in DOMAIN dense' :
            dense'[i].point \in Seen' /\ dense'[i].offset = OffsetOf(message', dense'[i].point[1])
    <3>. SUFFICES ASSUME NEW i \in DOMAIN dense'
                  PROVE  dense'[i].point \in Seen' /\ dense'[i].offset = OffsetOf(message', dense'[i].point[1])
      OBVIOUS
    <3>1. CASE i = Len(dense) + 1
      BY <3>1, <2>1, <2>4, <1>1
    <3>2. CASE i \in 1..Len(dense)
      BY <3>2, <2>1, <2>4, <1>1 DEF DenseInv
    <3>. QED
      BY <3>1, <3>2, <2>4
  <2>6. \A i, j \in DOMAIN dense' : i < j => Behind(dense'[j].point, dense'[i].point)
    <3>. SUFFICES ASSUME NEW i \in 1..(Len(dense) + 1), NEW j \in 1..(Len(dense) + 1), i < j
                  PROVE  Behind(dense'[j].point, dense'[i].point)
      BY <2>4
    <3>0. i \in 1..Len(dense) /\ i \in DOMAIN dense /\ dense'[i] = dense[i]
      <4>1. Len(dense) \in Nat
        BY <2>4
      <4>2. i \in 1..Len(dense)
        BY ONLY <4>1, i \in 1..(Len(dense) + 1), j \in 1..(Len(dense) + 1), i < j
      <4>. QED
        BY <2>4, <4>2
    <3>1. CASE j = Len(dense) + 1
      <4>1. dense[i].point \in Seen
        BY <3>0 DEF DenseInv
      <4>2. dense'[j].point = p
        BY <3>1, <2>4
      <4>. QED
        BY <4>1, <4>2, <3>0 DEF Seen, Behind
    <3>2. CASE j \in 1..Len(dense)
      <4>1. j \in DOMAIN dense /\ dense'[j] = dense[j]
        BY <3>2, <2>4
      <4>. QED
        BY <3>0, <4>1 DEF DenseInv
    <3>. QED
      BY <3>1, <3>2, <2>4
  <2>7. IsFiniteSet(Seen') /\ Cardinality(Seen') = Len(dense')
    <3>1. IsFiniteSet(Seen) /\ Cardinality(Seen) = Len(dense)
      BY DEF DenseInv
    <3>2. IsFiniteSet(Seen \cup {p}) /\ Cardinality(Seen \cup {p}) = Cardinality(Seen) + 1
      BY <3>1, <1>3, FS_AddElement
    <3>. QED
      BY <2>1, <2>4, <3>1, <3>2
  <2>8. DenseInv'
    BY <2>4, <2>5, <2>6, <2>7 DEF DenseInv
  <2>. QED
    BY <1>1, <1>2, <2>8
<1>. QED
  BY <1>5, <1>6

\* Some of the points kept, in their order.
LEMMA SampleIs ==
  ASSUME message \in Messages, DenseInv, Seen = Passing,
         NEW i \in DOMAIN dense, NEW j \in DOMAIN dense, i < j
  PROVE  /\ \A k \in {i, j} : /\ dense[k].point \in Passing /\ dense[k].offset \in Int
                             /\ dense[k].offset = IF message.sensor = "M300" THEN 0
                                                  ELSE message.times[dense[k].point[1]]
         /\ dense[i].offset <= dense[j].offset /\ dense[i].point # dense[j].point
<1>0. IsMessage(message)
  BY SampleAssumption
<1>1. /\ Len(message.times) \in Nat /\ DOMAIN message.times = 1..Len(message.times)
      /\ \A g \in DOMAIN message.times : message.times[g] \in Nat
      /\ \A g, h \in DOMAIN message.times : g <= h => message.times[g] <= message.times[h]
  BY <1>0 DEF IsMessage
<1>2. \A k \in {i, j} : /\ dense[k].point \in Passing
                        /\ dense[k].offset = OffsetOf(message, dense[k].point[1])
  BY DEF DenseInv
<1>3. \A p \in Passing : p[1] \in DOMAIN message.times /\ p[1] \in Int /\ p[2] \in Int
  BY <1>0, <1>1 DEF Passing, IsMessage
<1>4. \A k \in {i, j} : /\ dense[k].offset \in Int
                        /\ dense[k].offset = IF message.sensor = "M300" THEN 0
                                             ELSE message.times[dense[k].point[1]]
  BY <1>2, <1>3, OffsetIs
<1>5. Behind(dense[j].point, dense[i].point)
  BY DEF DenseInv
<1>6. dense[i].point[1] <= dense[j].point[1] /\ dense[i].point # dense[j].point
  BY <1>2, <1>3, <1>5 DEF Behind
<1>7. dense[i].offset <= dense[j].offset
  BY <1>1, <1>2, <1>3, <1>4, <1>6
<1>. QED
  BY <1>2, <1>4, <1>6, <1>7

\* The places of a sample.
LEMMA PlacesIs ==
  ASSUME NEW n \in Nat, NEW r \in Nat \ {0}, NEW q \in Nat, r * q <= n
  PROVE  /\ \A i \in 1..q : (i - 1) * r + 1 \in 1..n
         /\ \A i, j \in 1..q : i < j => (i - 1) * r + 1 < (j - 1) * r + 1
<1>1. ASSUME NEW i \in 1..q PROVE (i - 1) * r + 1 \in 1..n
  <2>1. r * 0 <= r * (i - 1) /\ r * (i - 1) <= r * (q - 1)
    BY TimesMonotone
  <2>2. r * (q - 1) = r * q - r /\ r * (i - 1) = (i - 1) * r /\ r * 0 = 0
    OBVIOUS
  <2>3. r * q \in Int /\ r * (i - 1) \in Int
    OBVIOUS
  <2>. QED
    BY <2>1, <2>2, <2>3
<1>2. ASSUME NEW i \in 1..q, NEW j \in 1..q, i < j PROVE (i - 1) * r + 1 < (j - 1) * r + 1
  <2>1. r * i <= r * (j - 1)
    BY <1>2, TimesMonotone
  <2>2. r * i = (i - 1) * r + r /\ r * (j - 1) = (j - 1) * r /\ (i - 1) * r \in Int
    OBVIOUS
  <2>. QED
    BY <2>1, <2>2
<1>. QED
  BY <1>1, <1>2

LEMMA SampleStep == SampleInv /\ SamplingCloud => SampleInv'
<1>. SUFFICES ASSUME SampleInv, SamplingCloud PROVE SampleInv'
  OBVIOUS
<1>0. IsMessage(message) /\ message \in Messages /\ ClipTypes /\ DenseInv
  BY SampleAssumption DEF ClipTypes, SampleInv
<1>. DEFINE n == Len(dense)
            r == Ratio(n)
            q == n \div r
<1>1. n \in Nat /\ DOMAIN dense = 1..n
  BY <1>0 DEF DenseInv
<1>2. Seen = Passing
  <2>1. Len(message.times) \in Nat /\ DOMAIN message.times = 1..Len(message.times)
    BY <1>0 DEF IsMessage
  <2>2. col = Len(message.times) + 1
    BY <1>0, <2>1 DEF SamplingCloud, ClipTypes
  <2>. QED
    BY <2>1, <2>2 DEF Seen, Passing
<1>3. /\ r \in Nat \ {0} /\ q \in Nat /\ r * q <= n
      /\ 2 * q < 3 * CloudSizeToKeep
      /\ n >= CloudSizeToKeep => 4 * (q + 1) > 3 * CloudSizeToKeep
      /\ n > 0 => q > 0
  <2>1. /\ r \in Nat \ {0}
        /\ r # 1 => 2 * (CloudSizeToKeep * r) <= 2 * n + CloudSizeToKeep
        /\ 2 * n + CloudSizeToKeep < 2 * (CloudSizeToKeep * r) + 2 * CloudSizeToKeep
    BY <1>1, RatioIs
  <2>. HIDE DEF r, n
  <2>2. q \in Int /\ r * q <= n /\ n < r * q + r
    BY <2>1, <1>1, DivIs
  <2>3. CloudSizeToKeep \in Nat \ {0}
    BY SampleAssumption
  <2>. HIDE DEF q
  <2>. QED
    BY <2>1, <2>2, <2>3, <1>1, SampleSize
<1>4. PICK at : at = [i \in 1..q |-> (i - 1) * r + 1]
  OBVIOUS
<1>5. /\ UNCHANGED <<message, col, row, dense>> /\ clip' = "done"
      /\ cloud' = [i \in 1..q |-> [point |-> dense[(i - 1) * r + 1].point,
                                   offset |-> 1000 * dense[(i - 1) * r + 1].offset]]
  BY DEF SamplingCloud
<1>. HIDE DEF n, r, q
<1>6. /\ \A i \in 1..q : at[i] \in DOMAIN dense
      /\ \A i, j \in 1..q : i < j => at[i] < at[j]
  BY <1>1, <1>3, <1>4, PlacesIs
<1>7. /\ DOMAIN cloud' = 1..q /\ Len(cloud') = q
      /\ \A i \in 1..q : /\ cloud'[i].point = dense[at[i]].point
                         /\ cloud'[i].offset = 1000 * dense[at[i]].offset
  BY <1>3, <1>4, <1>5
<1>8. Passing' = Passing /\ Seen' = Seen
  BY <1>5 DEF Passing, Seen
<1>9. SampleInOrder'
  <2>1. \A i \in 1..q :
           /\ cloud'[i].point \in Passing
           /\ cloud'[i].offset = IF message.sensor = "M300" THEN 0 ELSE 1000 * message.times[cloud'[i].point[1]]
    <3>. SUFFICES ASSUME NEW i \in 1..q
                  PROVE  /\ cloud'[i].point \in Passing
                         /\ cloud'[i].offset = IF message.sensor = "M300" THEN 0
                                               ELSE 1000 * message.times[cloud'[i].point[1]]
      OBVIOUS
    <3>1. at[i] \in DOMAIN dense
      BY <1>6
    <3>2. dense[at[i]].point \in Passing /\ dense[at[i]].offset = OffsetOf(message, dense[at[i]].point[1])
      BY <3>1, <1>0, <1>2 DEF DenseInv
    <3>3. dense[at[i]].point[1] \in DOMAIN message.times
      BY <3>2 DEF Passing
    <3>4. dense[at[i]].offset = IF message.sensor = "M300" THEN 0 ELSE message.times[dense[at[i]].point[1]]
      BY <1>0, <3>2, <3>3, OffsetIs
    <3>5. CASE message.sensor = "M300"
      BY <1>7, <3>2, <3>4, <3>5
    <3>6. CASE message.sensor # "M300"
      BY <1>7, <3>2, <3>4, <3>6
    <3>. QED
      BY <3>5, <3>6
  <2>2. \A i, j \in 1..q : i < j => cloud'[i].offset <= cloud'[j].offset /\ cloud'[i].point # cloud'[j].point
    <3>. SUFFICES ASSUME NEW i \in 1..q, NEW j \in 1..q, i < j
                  PROVE  cloud'[i].offset <= cloud'[j].offset /\ cloud'[i].point # cloud'[j].point
      OBVIOUS
    <3>1. at[i] \in DOMAIN dense /\ at[j] \in DOMAIN dense /\ at[i] < at[j]
      BY <1>6
    <3>2. /\ dense[at[i]].offset \in Int /\ dense[at[j]].offset \in Int
          /\ dense[at[i]].offset <= dense[at[j]].offset /\ dense[at[i]].point # dense[at[j]].point
      BY <3>1, <1>0, <1>2, SampleIs
    <3>. QED
      BY <3>2, <1>7
  <2>3. Cardinality(Passing) = n /\ (Passing # {} => n > 0)
    <3>1. Cardinality(Passing) = n /\ IsFiniteSet(Passing)
      BY <1>0, <1>2 DEF DenseInv, n
    <3>. QED
      BY <3>1, <1>1, FS_EmptySet
  <2>4. Passing # {} => cloud' # <<>>
    BY <2>3, <1>3, <1>7
  <2>5. message'.sensor = message.sensor /\ message'.times = message.times
    BY <1>5
  <2>. QED
    BY <2>1, <2>2, <2>3, <2>4, <2>5, <1>3, <1>7, <1>8 DEF SampleInOrder
<1>10. ClipTypes'
  BY <1>0, <1>5 DEF ClipTypes
<1>11. DenseInv'
  <2>1. message' = message /\ dense' = dense
    BY <1>5
  <2>2. \A h : OffsetOf(message, h)' = OffsetOf(message, h)
    BY <2>1
  <2>. QED
    BY <1>0, <1>8, <2>1, <2>2 DEF DenseInv
<1>. QED
  BY <1>9, <1>10, <1>11 DEF SampleInv

LEMMA SampleInvStep == SampleInv /\ [ClipStep]_sampling => SampleInv'
<1>. SUFFICES ASSUME SampleInv, [ClipStep]_sampling PROVE SampleInv'
  OBVIOUS
<1>1. CASE ClipPoint
  BY <1>1, ClipPointStep
<1>2. CASE SamplingCloud
  BY <1>2, SampleStep
<1>3. CASE UNCHANGED sampling
  <2>1. UNCHANGED <<message, clip, col, row, dense, cloud>>
    BY <1>3 DEF sampling
  <2>2. Passing' = Passing /\ Seen' = Seen
    BY <2>1 DEF Passing, Seen
  <2>3. \A h : OffsetOf(message', h) = OffsetOf(message, h)
    BY <2>1
  <2>4. ClipTypes' /\ DenseInv'
    BY <2>1, <2>2, <2>3 DEF ClipTypes, DenseInv, SampleInv
  <2>5. clip = "done" => SampleInOrder'
    BY <2>1, <2>2 DEF SampleInOrder, SampleInv
  <2>. QED
    BY <2>1, <2>4, <2>5 DEF SampleInv
<1>. QED
  BY <1>1, <1>2, <1>3 DEF ClipStep

-------------------------------------------------------------------------------
(* A scan.                                                                       *)

\* A stretch from s to e in P parts: the parts follow one another, and there are none if
\* it has no length.
LEMMA CutsAre ==
  ASSUME NEW s \in Int, NEW e \in Int, NEW P \in Nat \ {0}, NEW j \in 0..P, NEW l \in 0..P, j <= l,
         NEW a, a = (s * (P - j) + e * j) \div P, NEW b, b = (s * (P - l) + e * l) \div P
  PROVE  /\ a \in Int /\ b \in Int
         /\ s < e => s <= a /\ a <= b /\ b <= e
         /\ s >= e => b <= a
<1>. DEFINE m == s * (P - j) + e * j
            n == s * (P - l) + e * l
<1>0. m \in Int /\ n \in Int
  OBVIOUS
<1>1. /\ a \in Int /\ P * a <= m /\ m < P * a + P
      /\ b \in Int /\ P * b <= n /\ n < P * b + P
  BY <1>0, DivIs
<1>. DEFINE d == e - s
<1>2. m = s * P + d * j /\ n = s * P + d * l /\ P * s = s * P /\ P * e = s * P + d * P
  OBVIOUS
<1>3. d \in Int /\ d * j \in Int /\ d * l \in Int /\ d * P \in Int /\ s * P \in Int
  OBVIOUS
<1>. HIDE DEF m, n, d
\* From P times two numbers to the numbers.
<1>4. \A x, y \in Int : P * x < P * y + P => x <= y
  <2>. SUFFICES ASSUME NEW x \in Int, NEW y \in Int, y + 1 <= x PROVE ~(P * x < P * y + P)
    OBVIOUS
  <2>1. P * (y + 1) <= P * x
    BY TimesMonotone
  <2>2. P * (y + 1) = P * y + P /\ P * y \in Int /\ P * x \in Int
    OBVIOUS
  <2>. QED
    BY <2>1, <2>2
<1>5. P * a \in Int /\ P * b \in Int /\ P * s \in Int /\ P * e \in Int
  BY <1>1
<1>6. ASSUME s < e PROVE s <= a /\ a <= b /\ b <= e
  <2>0. d \in Nat
    BY <1>6 DEF d
  <2>1. d * 0 <= d * j /\ d * j <= d * l /\ d * l <= d * P /\ d * 0 = 0
    BY <2>0, TimesMonotone
  <2>2. P * s < P * a + P /\ P * a < P * b + P /\ P * b < P * e + P
    BY <2>1, <1>0, <1>1, <1>2, <1>3, <1>5
  <2>. QED
    BY <2>2, <1>1, <1>4
<1>7. ASSUME s >= e PROVE b <= a
  <2>0. -d \in Nat
    BY <1>7 DEF d
  <2>1. (-d) * j <= (-d) * l /\ (-d) * j = -(d * j) /\ (-d) * l = -(d * l)
    BY <2>0, <1>3, TimesMonotone
  <2>2. P * b < P * a + P
    BY <2>1, <1>0, <1>1, <1>2, <1>3, <1>5
  <2>. QED
    BY <2>2, <1>1, <1>4
<1>. QED
  BY <1>1, <1>6, <1>7

\* The parameters, and a scan, in the words the steps are about.
LEMMA ParametersAre ==
  /\ Reach \in Nat \ {0} /\ RingParts \in Nat \ {0} /\ Slots \in Nat \ {0} /\ Reach <= Slots
  /\ Reach - 1 \in Indices
  BY FeatureAssumption DEF Indices

LEMMA ScanIs ==
  ASSUME IsScan(scan)
  PROVE  /\ Len(scan.cloud) \in Nat /\ Len(scan.cloud) <= Slots
         /\ Len(scan.upTo) \in Nat /\ DOMAIN scan.upTo = 1..Len(scan.upTo)
         /\ \A r \in DOMAIN scan.upTo : scan.upTo[r] \in Nat /\ scan.upTo[r] <= Len(scan.cloud)
         /\ \A q, r \in DOMAIN scan.upTo : q <= r => scan.upTo[q] <= scan.upTo[r]
  BY DEF IsScan

\* Where the rings lie.
LEMMA RingsAre ==
  ASSUME IsScan(scan), NEW r \in DOMAIN scan.upTo
  PROVE  /\ RingStart(r) \in Int /\ RingEnd(r) \in Int
         /\ Reach - 1 <= RingStart(r) /\ RingEnd(r) <= Len(scan.cloud) - 1 - Reach
         /\ \A q \in DOMAIN scan.upTo : r < q => RingEnd(r) < RingStart(q)
<1>1. Reach \in Nat \ {0}
  BY ParametersAre
<1>2. r \in Nat \ {0} /\ (r # 1 => r - 1 \in DOMAIN scan.upTo)
  BY ScanIs
<1>3. RingStart(r) = (IF r = 1 THEN 0 ELSE scan.upTo[r - 1]) - 1 + Reach
  BY DEF RingStart
<1>4. \A q \in DOMAIN scan.upTo : RingEnd(q) = scan.upTo[q] - 1 - Reach /\ scan.upTo[q] \in Nat
  BY ScanIs DEF RingEnd
<1>5. RingStart(r) \in Int /\ Reach - 1 <= RingStart(r)
  BY <1>1, <1>2, <1>3, <1>4
<1>6. RingEnd(r) \in Int /\ RingEnd(r) <= Len(scan.cloud) - 1 - Reach
  BY <1>1, <1>4, ScanIs
<1>7. ASSUME NEW q \in DOMAIN scan.upTo, r < q PROVE RingEnd(r) < RingStart(q)
  <2>1. q \in Nat /\ q - 1 \in DOMAIN scan.upTo /\ r <= q - 1 /\ q # 1
    BY <1>2, <1>7, ScanIs
  <2>2. RingStart(q) = scan.upTo[q - 1] - 1 + Reach
    BY <2>1 DEF RingStart
  <2>3. scan.upTo[r] <= scan.upTo[q - 1]
    BY <2>1, ScanIs
  <2>. QED
    BY <2>1, <2>2, <2>3, <1>1, <1>4
<1>. QED
  BY <1>5, <1>6, <1>7

LEMMA CutIs ==
  ASSUME IsScan(scan), NEW r \in DOMAIN scan.upTo, NEW j \in 0..RingParts, NEW l \in 0..RingParts, j <= l
  PROVE  /\ Cut(r, j) \in Int /\ Cut(r, l) \in Int
         /\ RingStart(r) < RingEnd(r) => /\ RingStart(r) <= Cut(r, j) /\ Cut(r, j) <= Cut(r, l)
                                         /\ Cut(r, l) <= RingEnd(r)
         /\ RingStart(r) >= RingEnd(r) => Cut(r, l) <= Cut(r, j)
<1>1. RingStart(r) \in Int /\ RingEnd(r) \in Int
  BY RingsAre
<1>2. RingParts \in Nat \ {0}
  BY ParametersAre
<1>3. /\ Cut(r, j) = (RingStart(r) * (RingParts - j) + RingEnd(r) * j) \div RingParts
      /\ Cut(r, l) = (RingStart(r) * (RingParts - l) + RingEnd(r) * l) \div RingParts
  BY DEF Cut
<1>. QED
  BY <1>1, <1>2, <1>3, CutsAre

\* The parts lie within the scan, and one after the other.
LEMMA PartIs ==
  ASSUME IsScan(scan), NEW r \in DOMAIN scan.upTo, NEW j \in 1..RingParts, NEW k \in PartOf(r, j)
  PROVE  /\ k \in Int /\ Cut(r, j - 1) <= k /\ k < Cut(r, j)
         /\ RingStart(r) <= k /\ k < RingEnd(r)
         /\ Reach - 1 <= k /\ k <= Len(scan.cloud) - 2 - Reach
         /\ k \in Indices /\ k \in Inner(scan) \cup {Reach - 1}
<1>0. RingParts \in Nat \ {0} /\ Reach \in Nat \ {0}
  BY ParametersAre
<1>1. j - 1 \in 0..RingParts /\ j \in 0..RingParts /\ j - 1 <= j
  BY <1>0
<1>2. Cut(r, j - 1) \in Int /\ Cut(r, j) \in Int
  BY <1>1, CutIs
<1>3. k \in Int /\ Cut(r, j - 1) <= k /\ k < Cut(r, j)
  BY <1>2 DEF PartOf
<1>4. RingStart(r) \in Int /\ RingEnd(r) \in Int /\ Reach - 1 <= RingStart(r)
      /\ RingEnd(r) <= Len(scan.cloud) - 1 - Reach
  BY RingsAre
<1>5. RingStart(r) < RingEnd(r)
  <2>1. ~(Cut(r, j) <= Cut(r, j - 1))
    BY <1>2, <1>3
  <2>. QED
    BY <2>1, <1>1, <1>4, CutIs
<1>6. RingStart(r) <= Cut(r, j - 1) /\ Cut(r, j) <= RingEnd(r)
  BY <1>1, <1>5, CutIs
<1>7. Len(scan.cloud) \in Nat /\ Len(scan.cloud) <= Slots /\ Slots \in Nat
  BY ScanIs, ParametersAre
<1>8. RingStart(r) <= k /\ k < RingEnd(r) /\ Reach - 1 <= k /\ k <= Len(scan.cloud) - 2 - Reach
  BY <1>0, <1>2, <1>3, <1>4, <1>6, <1>7
<1>9. k \in Indices /\ k \in Inner(scan) \cup {Reach - 1}
  BY <1>0, <1>3, <1>7, <1>8 DEF Indices, Inner
<1>. QED
  BY <1>3, <1>8, <1>9

LEMMA PartsFollow ==
  ASSUME IsScan(scan), NEW r \in DOMAIN scan.upTo, NEW j \in 1..RingParts, NEW k \in PartOf(r, j),
         NEW q \in DOMAIN scan.upTo, NEW l \in 1..RingParts, NEW n \in PartOf(q, l),
         r < q \/ (r = q /\ j < l)
  PROVE  k < n
<1>1. /\ k \in Int /\ k < Cut(r, j) /\ k < RingEnd(r) /\ RingStart(r) <= k
      /\ n \in Int /\ Cut(q, l - 1) <= n /\ RingStart(q) <= n
  BY PartIs
<1>2. RingEnd(r) \in Int /\ RingStart(q) \in Int /\ RingStart(r) \in Int
  BY RingsAre
<1>3. CASE r < q
  <2>1. RingEnd(r) < RingStart(q)
    BY <1>3, RingsAre
  <2>. QED
    BY <1>1, <1>2, <2>1
<1>4. CASE r = q /\ j < l
  <2>0. RingParts \in Nat
    BY ParametersAre
  <2>1. j \in 0..RingParts /\ l - 1 \in 0..RingParts /\ j <= l - 1
    BY <2>0, <1>4
  <2>2. RingStart(r) < RingEnd(r)
    BY <1>1, <1>2
  <2>3. Cut(r, j) \in Int /\ Cut(r, l - 1) \in Int /\ Cut(r, j) <= Cut(r, l - 1)
    BY <2>1, <2>2, CutIs
  <2>. QED
    BY <1>1, <1>4, <2>3
<1>. QED
  BY <1>3, <1>4

\* The part the loop is at: none of its points is passed, and if it begins with the
\* first point that may be in a part, nothing is.
LEMMA PartHere ==
  ASSUME FeatureTypes, ring \in DOMAIN scan.upTo, NEW k \in PartOf(ring, part)
  PROVE  k \notin Passed /\ (k = Reach - 1 => Passed = {})
<1>0. IsScan(scan) /\ part \in 1..RingParts
  BY DEF FeatureTypes
<1>1. ASSUME NEW n \in Passed PROVE n < k /\ Reach - 1 <= n /\ n \in Int
  <2>1. PICK r \in DOMAIN scan.upTo, j \in 1..RingParts : Earlier(r, j) /\ n \in PartOf(r, j)
    BY DEF Passed
  <2>2. r < ring \/ (r = ring /\ j < part)
    BY <2>1 DEF Earlier
  <2>3. n < k
    BY <1>0, <2>1, <2>2, PartsFollow
  <2>4. Reach - 1 <= n /\ n \in Int
    BY <1>0, <2>1, PartIs
  <2>. QED
    BY <2>3, <2>4
<1>2. k \in Int /\ Reach - 1 <= k /\ Reach - 1 \in Int
  BY <1>0, PartIs, ParametersAre
<1>. QED
  BY <1>1, <1>2

LEMMA PartIsHere ==
  ASSUME FeatureTypes, ring \in DOMAIN scan.upTo, Sp < Ep
  PROVE  Sp \in Int /\ Ep \in Int /\ PartOf(ring, part) = Sp..Ep /\ Sp..Ep \subseteq Indices
<1>0. IsScan(scan) /\ part \in 1..RingParts /\ RingParts \in Nat
  BY ParametersAre DEF FeatureTypes
<1>1. part - 1 \in 0..RingParts /\ part \in 0..RingParts /\ part - 1 <= part
  BY <1>0
<1>2. Cut(ring, part - 1) \in Int /\ Cut(ring, part) \in Int
  BY <1>0, <1>1, CutIs
<1>3. PartOf(ring, part) = Sp..Ep
  BY <1>2 DEF PartOf, Sp, Ep
<1>4. \A k \in PartOf(ring, part) : k \in Indices
  BY <1>0, PartIs
<1>. QED
  BY <1>2, <1>3, <1>4 DEF Sp, Ep

\* With a step of the loop its part is passed.
LEMMA PassedNext ==
  ASSUME FeatureTypes, ring \in DOMAIN scan.upTo, NextPart, scan' = scan
  PROVE  /\ Passed' = Passed \cup PartOf(ring, part)
         /\ ring' \in Nat \ {0} /\ part' \in 1..RingParts
<1>0. IsScan(scan) /\ ring \in Nat \ {0} /\ part \in 1..RingParts /\ RingParts \in Nat \ {0}
  BY ParametersAre DEF FeatureTypes
<1>1. \/ part = RingParts /\ part' = 1 /\ ring' = ring + 1
      \/ part # RingParts /\ part' = part + 1 /\ ring' = ring
  BY DEF NextPart
<1>2. ring' \in Nat \ {0} /\ part' \in 1..RingParts
  BY <1>0, <1>1
<1>3. \A r \in DOMAIN scan.upTo, j \in 1..RingParts :
         (r < ring' \/ (r = ring' /\ j < part')) <=> Earlier(r, j) \/ (r = ring /\ j = part)
  <2>1. \A r \in DOMAIN scan.upTo : r \in Nat
    BY <1>0, ScanIs
  <2>. QED
    BY <1>0, <1>1, <2>1 DEF Earlier
<1>4. \A r, j : PartOf(r, j)' = PartOf(r, j)
  BY DEF PartOf, Cut, RingStart, RingEnd
<1>5. Passed' = {k \in Indices : \E r \in DOMAIN scan.upTo, j \in 1..RingParts :
                     (r < ring' \/ (r = ring' /\ j < part')) /\ k \in PartOf(r, j)}
  BY <1>4 DEF Passed, Earlier
<1>6. \A k \in PartOf(ring, part) : k \in Indices
  BY <1>0, PartIs
<1>. QED
  BY <1>0, <1>2, <1>3, <1>5, <1>6 DEF Passed

-------------------------------------------------------------------------------

LEMMA FeatureInvInit == FeaturesInit => FeatureInv
<1>. SUFFICES ASSUME NEW p, NEW l, NEW c, FeaturesBegin(p, l, c) PROVE FeatureInv
  BY DEF FeaturesInit
<1>. USE DEF FeaturesBegin
<1>0. Len(scan.cloud) = 0 /\ DOMAIN scan.upTo = {} /\ scan.cloud = <<>> /\ scan.upTo = <<>>
  OBVIOUS
<1>1. Reach \in Nat \ {0} /\ RingParts \in Nat \ {0} /\ Slots \in Nat \ {0} /\ 0 \in Indices
      /\ Reach - 1 \in Indices
  BY ParametersAre DEF Indices
<1>2. IsScan(scan)
  BY <1>0, <1>1 DEF IsScan
<1>3. FeatureTypes
  <2>1. DOMAIN smooth = Indices /\ \A k \in Indices : smooth[k].idx \in Indices
    BY <1>1
  <2>2. \A i \in Indices : ~(i < Len(scan.cloud))
    BY <1>0 DEF Indices
  <2>3. corners \in Seq(Indices) /\ stale \in Indices
    BY <1>1
  <2>. QED
    BY <1>0, <1>1, <1>2, <2>1, <2>2, <2>3 DEF FeatureTypes
<1>4. Inner(scan) = {} /\ Passed = {}
  BY <1>0, <1>1 DEF Inner, Passed
<1>5. ListInv
  BY <1>1, <1>4 DEF ListInv, Own
<1>6. CornerInv
  BY <1>4 DEF CornerInv
<1>7. SurfaceInv
  BY <1>4 DEF SurfaceInv
<1>. QED
  BY <1>3, <1>5, <1>6, <1>7 DEF FeatureInv

LEMMA TakeScanStep == FeatureInv /\ (\E s \in Scans : TakeScan(s)) => FeatureInv'
<1>. SUFFICES ASSUME FeatureInv, NEW s \in Scans, TakeScan(s) PROVE FeatureInv'
  OBVIOUS
<1>0. FeatureTypes /\ IsScan(s) /\ Reach \in Nat \ {0} /\ RingParts \in Nat \ {0}
      /\ Slots \in Nat \ {0} /\ Reach <= Slots /\ Reach - 1 \in Indices
  BY ParametersAre, FeatureAssumption DEF FeatureInv
<1>1. /\ Len(s.cloud) \in Nat /\ Len(s.cloud) <= Slots /\ Inner(s) \subseteq Indices
      /\ \A i \in Inner(s) : i # Reach - 1
  <2>1. Len(s.cloud) \in Nat /\ Len(s.cloud) <= Slots
    BY <1>0 DEF IsScan
  <2>. QED
    BY <1>0, <2>1 DEF Inner, Indices
<1>2. /\ scan' = s /\ step' = "part" /\ ring' = 1 /\ part' = 1 /\ entry' = entry
      /\ corners' = <<>> /\ surface' = {} /\ stale' = smooth[Reach - 1].idx
      /\ label' = label \ Inner(s)
  BY DEF TakeScan
<1>3. DOMAIN smooth' = Indices /\ \A k \in Indices : smooth'[k].idx = IF k \in Inner(s) THEN k ELSE smooth[k].idx
  <2>1. smooth' = [k \in Indices |-> IF k \in Inner(s) THEN [value |-> Curvature(s, k), idx |-> k] ELSE smooth[k]]
    BY DEF TakeScan
  <2>. QED
    BY <2>1
<1>4. FeatureTypes'
  <2>1. \A k \in Indices : smooth'[k].idx \in Indices
    BY <1>0, <1>3 DEF FeatureTypes
  <2>2. \A i \in Indices : i < Len(s.cloud) => pointCol'[i] = PointAt(s, i).col
    BY DEF TakeScan
  <2>3. stale' \in Indices /\ corners' \in Seq(Indices)
    BY <1>0, <1>2 DEF FeatureTypes
  <2>4. \A i \in Indices : i < Len(scan'.cloud) => pointCol'[i] = PointAt(scan', i).col
    BY <1>2, <2>2
  <2>5. ring' \in Nat \ {0} /\ part' \in 1..RingParts /\ entry' \in Int
    BY <1>0, <1>2 DEF FeatureTypes
  <2>. QED
    BY <1>0, <1>2, <1>3, <2>1, <2>3, <2>4, <2>5 DEF FeatureTypes
<1>5. Passed' = {}
  <2>1. \A r \in DOMAIN s.upTo, j \in 1..RingParts : ~(r < 1 \/ (r = 1 /\ j < 1))
    BY <1>0 DEF IsScan
  <2>2. \A r \in DOMAIN scan'.upTo, j \in 1..RingParts : ~Earlier(r, j)'
    BY <1>2, <2>1 DEF Earlier
  <2>. QED
    BY <2>2 DEF Passed
<1>6. ListInv'
  <2>1. \A k \in Inner(s) \cup {Reach - 1} : smooth'[k].idx = IF k = Reach - 1 THEN stale' ELSE k
    BY <1>0, <1>1, <1>2, <1>3
  <2>. QED
    BY <2>1, <1>2 DEF ListInv, Own
<1>7. CornerInv'
  <2>1. {corners'[i] : i \in DOMAIN corners'} = {} /\ DOMAIN corners' = {}
    BY <1>2
  <2>2. label' \cap Inner(scan') = {}
    BY <1>2
  <2>. QED
    BY <2>1, <2>2 DEF CornerInv
<1>8. SurfaceInv'
  BY <1>2, <1>5 DEF SurfaceInv
<1>. QED
  BY <1>4, <1>6, <1>7, <1>8 DEF FeatureInv

\* Where the loop is, and where the parts are, is left alone by a step inside of a part.
LEMMA PlaceKept ==
  ASSUME UNCHANGED <<scan, ring, part>>
  PROVE  /\ Sp' = Sp /\ Ep' = Ep /\ Passed' = Passed
         /\ \A r, j : PartOf(r, j)' = PartOf(r, j)
<1>1. \A r, j : PartOf(r, j)' = PartOf(r, j) /\ Cut(r, j)' = Cut(r, j) /\ Earlier(r, j)' = Earlier(r, j)
  BY DEF PartOf, Cut, RingStart, RingEnd, Earlier
<1>2. Passed' = {k \in Indices : \E r \in DOMAIN scan.upTo, j \in 1..RingParts : Earlier(r, j) /\ k \in PartOf(r, j)}
  BY <1>1 DEF Passed
<1>3. Sp' = Sp /\ Ep' = Ep
  BY DEF Sp, Ep, Cut, RingStart, RingEnd
<1>. QED
  BY <1>1, <1>2, <1>3 DEF Passed

LEMMA CornersKept ==
  ASSUME CornerInv, UNCHANGED <<scan, pointCol, label, picked, corners, stale>>
  PROVE  CornerInv'
<1>1. \A r, j : PartOf(r, j)' = PartOf(r, j)
  BY DEF PartOf, Cut, RingStart, RingEnd
<1>2. \A c : Around(c)' = Around(c)
  BY DEF Around
<1>. QED
  BY <1>1, <1>2 DEF CornerInv

\* The loop goes on within the part, over an entry, and nothing else happens.
LEMMA PassOverStep == FeatureInv /\ PassOver => FeatureInv'
<1>. SUFFICES ASSUME FeatureInv, PassOver PROVE FeatureInv'
  OBVIOUS
<1>0. FeatureTypes /\ ListInv /\ CornerInv /\ SurfaceInv
  BY DEF FeatureInv
<1>1. /\ UNCHANGED <<scan, picked, label, smooth, pointCol, step, ring, part, corners, surface, stale>>
      /\ step = "pick" /\ entry' = entry - 1
  BY DEF PassOver, arrays
<1>2. /\ Sp' = Sp /\ Ep' = Ep /\ Passed' = Passed
      /\ \A r, j : PartOf(r, j)' = PartOf(r, j)
  BY <1>1, PlaceKept
<1>3. FeatureTypes'
  <2>1. ring \in DOMAIN scan.upTo /\ Sp < Ep /\ entry <= Ep /\ entry \in Int
    BY <1>0, <1>1 DEF FeatureTypes
  <2>2. Ep \in Int
    BY <1>0, <2>1, PartIsHere
  <2>. QED
    BY <1>0, <1>1, <1>2, <2>1, <2>2 DEF FeatureTypes
<1>4. ListInv'
  BY <1>0, <1>1, <1>2 DEF ListInv, Own
<1>5. CornerInv'
  BY <1>0, <1>1, CornersKept
<1>6. SurfaceInv'
  BY <1>0, <1>1, <1>2 DEF SurfaceInv
<1>. QED
  BY <1>3, <1>4, <1>5, <1>6 DEF FeatureInv

\* The entries of a part still name its points when they are sorted.
LEMMA SortPartStep == FeatureInv /\ SortPart => FeatureInv'
<1>. SUFFICES ASSUME FeatureInv, SortPart PROVE FeatureInv'
  OBVIOUS
<1>0. FeatureTypes /\ ListInv /\ CornerInv /\ SurfaceInv
  BY DEF FeatureInv
<1>1. /\ UNCHANGED <<scan, picked, label, pointCol, ring, part, corners, surface, stale>>
      /\ step = "part" /\ step' = "pick" /\ entry' = Ep /\ ring \in DOMAIN scan.upTo /\ Sp < Ep
  BY DEF SortPart, AtPart
<1>2. /\ Sp' = Sp /\ Ep' = Ep /\ Passed' = Passed
      /\ \A r, j : PartOf(r, j)' = PartOf(r, j)
  BY <1>1, PlaceKept
<1>3. Sp \in Int /\ Ep \in Int /\ PartOf(ring, part) = Sp..Ep /\ Sp..Ep \subseteq Indices
  BY <1>0, <1>1, PartIsHere
<1>4. PICK order \in Sortings(Sp..(Ep - 1)) :
         smooth' = [k \in Indices |-> IF k \in Sp..(Ep - 1) THEN smooth[order[k]] ELSE smooth[k]]
  BY DEF SortPart
<1>5. \A k \in Sp..(Ep - 1) : order[k] \in Sp..(Ep - 1)
  BY DEF Sortings
<1>6. DOMAIN smooth' = Indices
      /\ \A k \in Indices : smooth'[k] = IF k \in Sp..(Ep - 1) THEN smooth[order[k]] ELSE smooth[k]
  BY <1>4
<1>7. \A l \in Sp..(Ep - 1) : l \in Sp..Ep
  BY <1>3
<1>8. FeatureTypes'
  <2>1. \A k \in Indices : smooth'[k].idx \in Indices
    <3>. SUFFICES ASSUME NEW k \in Indices PROVE smooth'[k].idx \in Indices
      OBVIOUS
    <3>1. CASE k \in Sp..(Ep - 1)
      <4>1. order[k] \in Indices
        BY <3>1, <1>3, <1>5, <1>7
      <4>. QED
        BY <3>1, <4>1, <1>0, <1>6 DEF FeatureTypes
    <3>2. CASE k \notin Sp..(Ep - 1)
      BY <3>2, <1>0, <1>6 DEF FeatureTypes
    <3>. QED
      BY <3>1, <3>2
  <2>2. Ep <= Ep
    BY <1>3
  <2>. QED
    BY <1>0, <1>1, <1>2, <1>3, <1>6, <2>1, <2>2 DEF FeatureTypes
<1>9. \A k \in Sp..Ep : smooth[k].idx = Own(k)
  <2>. SUFFICES ASSUME NEW k \in Sp..Ep PROVE smooth[k].idx = Own(k)
    OBVIOUS
  <2>1. IsScan(scan) /\ part \in 1..RingParts
    BY <1>0 DEF FeatureTypes
  <2>2. k \notin Passed /\ k \in Inner(scan) \cup {Reach - 1}
    BY <1>0, <1>1, <1>3, <2>1, PartHere, PartIs
  <2>. QED
    BY <1>0, <1>1, <2>2 DEF ListInv
<1>10. ListInv'
  <2>1. ASSUME NEW k \in Inner(scan) \cup {Reach - 1}, k \notin Passed, k \notin Sp..(Ep - 1)
        PROVE  smooth'[k].idx = Own(k)
    <3>1. k \in Indices
      BY <1>0, ScanIs, ParametersAre DEF FeatureTypes, Inner, Indices
    <3>2. smooth'[k] = smooth[k]
      BY <3>1, <2>1, <1>6
    <3>. QED
      BY <3>2, <2>1, <1>0, <1>1 DEF ListInv
  <2>2. ASSUME NEW k \in Sp..Ep PROVE \E l \in Sp..Ep : smooth'[k].idx = Own(l)
    <3>0. k \in Indices
      BY <1>3
    <3>1. CASE k \in Sp..(Ep - 1)
      <4>1. order[k] \in Sp..Ep
        BY <3>1, <1>5, <1>7
      <4>. QED
        BY <3>0, <3>1, <4>1, <1>6, <1>9
    <3>2. CASE k \notin Sp..(Ep - 1)
      BY <3>0, <3>2, <1>6, <1>9
    <3>. QED
      BY <3>1, <3>2
  <2>3. \A k : Own(k)' = Own(k)
    BY <1>1 DEF Own
  <2>4. Inner(scan)' = Inner(scan)
    BY <1>1
  <2>. QED
    BY <2>1, <2>2, <2>3, <2>4, <1>1, <1>2 DEF ListInv
<1>11. CornerInv'
  BY <1>0, <1>1, CornersKept
<1>12. SurfaceInv'
  BY <1>0, <1>1, <1>2 DEF SurfaceInv
<1>. QED
  BY <1>8, <1>10, <1>11, <1>12 DEF FeatureInv

\* A corner is a point of the part, or the stale one, and nothing is around it so far.
LEMMA PickCornerStep == FeatureInv /\ PickCorner => FeatureInv'
<1>. SUFFICES ASSUME FeatureInv, PickCorner PROVE FeatureInv'
  OBVIOUS
<1>0. FeatureTypes /\ ListInv /\ CornerInv /\ SurfaceInv
  BY DEF FeatureInv
<1>. DEFINE c == Candidate
            angular == {corners[i] : i \in DOMAIN corners}
<1>1. /\ UNCHANGED <<scan, smooth, pointCol, step, ring, part, surface, stale>>
      /\ step = "pick" /\ entry' = entry - 1 /\ entry >= Sp /\ c \notin picked
      /\ corners' = Append(corners, c) /\ label' = label \cup {c} /\ picked' = picked \cup Around(c)
  BY DEF PickCorner, Eligible
<1>2. ring \in DOMAIN scan.upTo /\ Sp < Ep /\ entry <= Ep /\ entry \in Int
  BY <1>0, <1>1 DEF FeatureTypes
<1>3. Sp \in Int /\ Ep \in Int /\ PartOf(ring, part) = Sp..Ep /\ Sp..Ep \subseteq Indices
  BY <1>0, <1>2, PartIsHere
<1>4. /\ Sp' = Sp /\ Ep' = Ep /\ Passed' = Passed
      /\ \A r, j : PartOf(r, j)' = PartOf(r, j)
  BY <1>1, PlaceKept
<1>5. PICK l \in Sp..Ep : c = Own(l)
  <2>1. entry \in Sp..Ep
    BY <1>1, <1>2, <1>3
  <2>. QED
    BY <2>1, <1>0, <1>1 DEF ListInv, Candidate
<1>6. c \in Indices
  BY <1>0, <1>3, <1>5 DEF Own, FeatureTypes
<1>. HIDE DEF c
<1>7. /\ corners' \in Seq(Indices) /\ Len(corners) \in Nat /\ DOMAIN corners = 1..Len(corners)
      /\ DOMAIN corners' = 1..(Len(corners) + 1) /\ corners'[Len(corners) + 1] = c
      /\ \A i \in 1..Len(corners) : corners'[i] = corners[i]
  <2>1. corners \in Seq(Indices)
    BY <1>0 DEF FeatureTypes
  <2>. QED
    BY <2>1, <1>1, <1>6, AppendIs
<1>8. {corners'[i] : i \in DOMAIN corners'} = angular \cup {c}
  BY <1>7
<1>9. FeatureTypes'
  BY <1>0, <1>1, <1>2, <1>3, <1>4, <1>7 DEF FeatureTypes
<1>10. ListInv'
  BY <1>0, <1>1, <1>4 DEF ListInv, Own
<1>11. \A x : Around(x)' = Around(x)
  BY <1>1 DEF Around
<1>12. CornerInv'
  <2>1. angular \cup {c} \subseteq label' /\ label' \cap Inner(scan) \subseteq angular \cup {c}
    BY <1>0, <1>1 DEF CornerInv
  <2>2. \A x \in angular \cup {c} :
           /\ Around(x) \subseteq picked'
           /\ x = stale \/ \E r \in DOMAIN scan.upTo, j \in 1..RingParts : x \in PartOf(r, j) /\ x # Reach - 1
    <3>1. c = stale \/ (c = l /\ l # Reach - 1)
      BY <1>5 DEF Own
    <3>2. part \in 1..RingParts
      BY <1>0 DEF FeatureTypes
    <3>3. c = stale \/ \E r \in DOMAIN scan.upTo, j \in 1..RingParts : c \in PartOf(r, j) /\ c # Reach - 1
      BY <1>2, <1>3, <1>5, <3>1, <3>2
    <3>4. ASSUME NEW x \in angular
          PROVE  /\ Around(x) \subseteq picked'
                 /\ x = stale \/ \E r \in DOMAIN scan.upTo, j \in 1..RingParts : x \in PartOf(r, j) /\ x # Reach - 1
      BY <1>0, <1>1 DEF CornerInv
    <3>. QED
      BY <1>1, <3>3, <3>4
  <2>3. \A i, j \in DOMAIN corners' : i < j => corners'[j] \notin Around(corners'[i])
    <3>. SUFFICES ASSUME NEW i \in DOMAIN corners', NEW j \in DOMAIN corners', i < j
                  PROVE  corners'[j] \notin Around(corners'[i])
      OBVIOUS
    <3>1. i \in 1..Len(corners) /\ i \in DOMAIN corners /\ corners'[i] = corners[i]
      <4>1. i \in 1..(Len(corners) + 1) /\ j \in 1..(Len(corners) + 1) /\ Len(corners) \in Nat
        BY <1>7
      <4>2. i \in 1..Len(corners)
        BY ONLY <4>1, i < j
      <4>. QED
        BY <4>2, <1>7
    <3>2. CASE j = Len(corners) + 1
      <4>1. Around(corners[i]) \subseteq picked
        BY <1>0, <3>1 DEF CornerInv
      <4>. QED
        BY <4>1, <3>1, <3>2, <1>1, <1>7
    <3>3. CASE j \in 1..Len(corners)
      BY <1>0, <1>7, <3>1, <3>3 DEF CornerInv
    <3>. QED
      BY <3>2, <3>3, <1>7
  <2>. QED
    BY <2>1, <2>2, <2>3, <1>1, <1>4, <1>8, <1>11 DEF CornerInv
<1>13. SurfaceInv'
  <2>1. c \notin surface
    <3>1. surface \subseteq Passed
      BY <1>0 DEF SurfaceInv
    <3>2. l \in PartOf(ring, part)
      BY <1>3, <1>5
    <3>3. l \notin Passed /\ (l = Reach - 1 => Passed = {})
      BY <1>0, <1>2, <3>2, PartHere
    <3>. QED
      BY <3>1, <3>3, <1>5 DEF Own
  <2>. QED
    BY <2>1, <1>0, <1>1, <1>4, <1>8 DEF SurfaceInv
<1>. QED
  BY <1>9, <1>10, <1>12, <1>13 DEF FeatureInv

\* Leaving a part: a point of it has its label as a corner only, but for the first that
\* may be in a part.
LEMMA EndPartStep == FeatureInv /\ EndPart => FeatureInv'
<1>. SUFFICES ASSUME FeatureInv, EndPart PROVE FeatureInv'
  OBVIOUS
<1>0. FeatureTypes /\ ListInv /\ CornerInv /\ SurfaceInv
  BY DEF FeatureInv
<1>. DEFINE angular == {corners[i] : i \in DOMAIN corners}
<1>1. /\ UNCHANGED <<scan, picked, label, smooth, pointCol, entry, corners, stale>>
      /\ step = "pick" /\ step' = "part" /\ NextPart /\ surface' = surface \cup ((Sp..Ep) \ label)
  BY DEF EndPart, arrays
<1>2. ring \in DOMAIN scan.upTo /\ Sp < Ep /\ part \in 1..RingParts /\ IsScan(scan)
  BY <1>0, <1>1 DEF FeatureTypes
<1>3. Sp \in Int /\ Ep \in Int /\ PartOf(ring, part) = Sp..Ep /\ Sp..Ep \subseteq Indices
  BY <1>0, <1>2, PartIsHere
<1>4. Passed' = Passed \cup (Sp..Ep) /\ ring' \in Nat \ {0} /\ part' \in 1..RingParts
  BY <1>0, <1>1, <1>2, <1>3, PassedNext
<1>5. FeatureTypes'
  BY <1>0, <1>1, <1>4 DEF FeatureTypes
<1>6. ListInv'
  <2>1. \A k \in Sp..(Ep - 1) : k \in Sp..Ep
    BY <1>3
  <2>. QED
    BY <1>0, <1>1, <1>4, <2>1 DEF ListInv, Own
<1>7. CornerInv'
  BY <1>0, <1>1, CornersKept
<1>8. SurfaceInv'
  <2>1. (Sp..Ep) \ {Reach - 1} \subseteq Inner(scan)
    BY <1>2, <1>3, PartIs
  <2>2. angular \subseteq label /\ label \cap Inner(scan) \subseteq angular
    BY <1>0 DEF CornerInv
  <2>. QED
    BY <1>0, <1>1, <1>4, <2>1, <2>2 DEF SurfaceInv
<1>. QED
  BY <1>5, <1>6, <1>7, <1>8 DEF FeatureInv

LEMMA SkipPartStep == FeatureInv /\ SkipPart => FeatureInv'
<1>. SUFFICES ASSUME FeatureInv, SkipPart PROVE FeatureInv'
  OBVIOUS
<1>0. FeatureTypes /\ ListInv /\ CornerInv /\ SurfaceInv
  BY DEF FeatureInv
<1>1. /\ UNCHANGED <<scan, picked, label, smooth, pointCol, step, entry, corners, surface, stale>>
      /\ step = "part" /\ NextPart /\ ring \in DOMAIN scan.upTo /\ Sp >= Ep
  BY DEF SkipPart, AtPart, arrays
<1>2. PartOf(ring, part) = {}
  <2>0. IsScan(scan) /\ part \in 1..RingParts /\ RingParts \in Nat
    BY <1>0, ParametersAre DEF FeatureTypes
  <2>1. part - 1 \in 0..RingParts /\ part \in 0..RingParts /\ part - 1 <= part
    BY <2>0
  <2>2. Cut(ring, part - 1) \in Int /\ Cut(ring, part) \in Int
    BY <2>0, <2>1, <1>1, CutIs
  <2>. QED
    BY <2>2, <1>1 DEF PartOf, Sp, Ep
<1>3. Passed' = Passed /\ ring' \in Nat \ {0} /\ part' \in 1..RingParts
  BY <1>0, <1>1, <1>2, PassedNext
<1>4. FeatureTypes'
  BY <1>0, <1>1, <1>3 DEF FeatureTypes
<1>5. ListInv'
  BY <1>0, <1>1, <1>3 DEF ListInv, Own
<1>6. CornerInv'
  BY <1>0, <1>1, CornersKept
<1>7. SurfaceInv'
  BY <1>0, <1>1, <1>3 DEF SurfaceInv
<1>. QED
  BY <1>4, <1>5, <1>6, <1>7 DEF FeatureInv

LEMMA ScanDoneStep == FeatureInv /\ (ScanDone \/ UNCHANGED features) => FeatureInv'
<1>. SUFFICES ASSUME FeatureInv, ScanDone \/ UNCHANGED features PROVE FeatureInv'
  OBVIOUS
<1>0. FeatureTypes /\ ListInv /\ CornerInv /\ SurfaceInv
  BY DEF FeatureInv
<1>1. /\ UNCHANGED <<scan, picked, label, smooth, pointCol, ring, part, entry, corners, surface, stale>>
      /\ step' = step \/ (step' = "idle" /\ step = "part" /\ ring \notin DOMAIN scan.upTo)
  BY DEF ScanDone, features, arrays, loops
<1>2. /\ Sp' = Sp /\ Ep' = Ep /\ Passed' = Passed
      /\ \A r, j : PartOf(r, j)' = PartOf(r, j)
  BY <1>1, PlaceKept
<1>3. FeatureTypes'
  BY <1>0, <1>1, <1>2 DEF FeatureTypes
<1>4. ListInv'
  BY <1>0, <1>1, <1>2 DEF ListInv, Own
<1>5. CornerInv'
  BY <1>0, <1>1, CornersKept
<1>6. SurfaceInv'
  BY <1>0, <1>1, <1>2 DEF SurfaceInv
<1>. QED
  BY <1>3, <1>4, <1>5, <1>6 DEF FeatureInv

LEMMA FeatureInvStep == FeatureInv /\ [FeatureStep]_features => FeatureInv'
  BY TakeScanStep, SkipPartStep, SortPartStep, PassOverStep, PickCornerStep, EndPartStep, ScanDoneStep
     DEF FeatureStep, ExtractStep

LEMMA OutsideInvInit == FeaturesInit => OutsideInv
BY DEF FeaturesInit, FeaturesBegin, OutsideInv, Named

\* Sorting names nothing new, and only a corner with a neighbour outside, which is the
\* first point, leaves the arrays.
LEMMA OutsideInvStep == FeatureInv /\ OutsideInv /\ [FeatureStep]_features => OutsideInv'
<1>. SUFFICES ASSUME FeatureInv, OutsideInv, [FeatureStep]_features PROVE OutsideInv'
  OBVIOUS
<1>0. FeatureTypes /\ Reach \in Nat \ {0} /\ Slots \in Nat \ {0}
  BY ParametersAre DEF FeatureInv
<1>1. CASE \E s \in Scans : TakeScan(s)
  <2>1. PICK s \in Scans : TakeScan(s)
    BY <1>1
  <2>2. /\ outside' = FALSE
        /\ smooth' = [k \in Indices |-> IF k \in Inner(s) THEN [value |-> Curvature(s, k), idx |-> k] ELSE smooth[k]]
    BY <2>1 DEF TakeScan
  <2>3. \A k \in Inner(s) : Named(k)
    <3>1. Len(s.cloud) \in Nat /\ Len(s.cloud) <= Slots
      BY FeatureAssumption DEF IsScan
    <3>. QED
      BY <1>0, <3>1 DEF Inner, Named
  <2>4. \A k \in Indices : smooth'[k].idx = IF k \in Inner(s) THEN k ELSE smooth[k].idx
    BY <2>2
  <2>. QED
    BY <2>2, <2>3, <2>4 DEF OutsideInv, Named
<1>2. CASE SortPart
  <2>1. /\ UNCHANGED <<corners, outside>> /\ ring \in DOMAIN scan.upTo /\ Sp < Ep
    BY <1>2 DEF SortPart, AtPart
  <2>2. PICK order \in Sortings(Sp..(Ep - 1)) :
           smooth' = [k \in Indices |-> IF k \in Sp..(Ep - 1) THEN smooth[order[k]] ELSE smooth[k]]
    BY <1>2 DEF SortPart
  <2>3. \A k \in Sp..(Ep - 1) : order[k] \in Indices
    <3>1. Sp \in Int /\ Ep \in Int /\ Sp..Ep \subseteq Indices
      BY <1>0, <2>1, PartIsHere
    <3>2. \A k \in Sp..(Ep - 1) : order[k] \in Sp..(Ep - 1)
      BY DEF Sortings
    <3>3. \A l \in Sp..(Ep - 1) : l \in Sp..Ep
      BY <3>1
    <3>. QED
      BY <3>1, <3>2, <3>3
  <2>4. \A k \in Indices : \E l \in Indices : smooth'[k] = smooth[l]
    BY <2>2, <2>3
  <2>. QED
    BY <2>1, <2>4 DEF OutsideInv, Named
<1>3. CASE PickCorner
  <2>1. /\ UNCHANGED smooth /\ corners' = Append(corners, Candidate) /\ Candidate = smooth[entry].idx
        /\ outside' = (outside \/ LooksOutside(Candidate))
        /\ step = "pick" /\ entry >= Sp
    BY <1>3 DEF PickCorner, Candidate
  <2>2. entry \in Indices
    <3>1. ring \in DOMAIN scan.upTo /\ Sp < Ep /\ entry <= Ep /\ entry \in Int
      BY <1>0, <2>1 DEF FeatureTypes
    <3>2. Sp \in Int /\ Ep \in Int /\ Sp..Ep \subseteq Indices
      BY <1>0, <3>1, PartIsHere
    <3>3. entry \in Sp..Ep
      BY <2>1, <3>1, <3>2
    <3>. QED
      BY <3>2, <3>3
  <2>3. Candidate \in Indices /\ Candidate \in Nat /\ Named(Candidate)
    BY <1>0, <2>1, <2>2 DEF OutsideInv, FeatureTypes, Indices
  <2>4. LooksOutside(Candidate) => Candidate = 0
    BY <1>0, <2>3 DEF LooksOutside, Named
  <2>. HIDE DEF Candidate
  <2>5. /\ DOMAIN corners \subseteq DOMAIN corners' /\ \A i \in DOMAIN corners : corners'[i] = corners[i]
        /\ \E i \in DOMAIN corners' : corners'[i] = Candidate
    <3>1. corners \in Seq(Indices)
      BY <1>0 DEF FeatureTypes
    <3>2. /\ DOMAIN corners = 1..Len(corners) /\ DOMAIN corners' = 1..(Len(corners) + 1)
          /\ Len(corners) \in Nat /\ corners'[Len(corners) + 1] = Candidate
          /\ \A i \in 1..Len(corners) : corners'[i] = corners[i]
      BY <2>1, <2>3, <3>1, AppendIs
    <3>3. Len(corners) + 1 \in 1..(Len(corners) + 1) /\ 1..Len(corners) \subseteq 1..(Len(corners) + 1)
      BY <3>2
    <3>. QED
      BY <3>2, <3>3
  <2>6. outside' => \E i \in DOMAIN corners' : corners'[i] = 0
    <3>1. CASE outside
      BY <2>5, <3>1 DEF OutsideInv
    <3>2. CASE LooksOutside(Candidate)
      BY <2>4, <2>5, <3>2
    <3>. QED
      BY <2>1, <3>1, <3>2
  <2>. QED
    BY <2>1, <2>6 DEF OutsideInv, Named
<1>4. CASE SkipPart \/ PassOver \/ EndPart \/ ScanDone \/ UNCHANGED features
  <2>1. UNCHANGED <<smooth, corners, outside>>
    BY <1>4 DEF SkipPart, PassOver, EndPart, ScanDone, features, arrays
  <2>. QED
    BY <2>1 DEF OutsideInv, Named
<1>. QED
  BY <1>1, <1>2, <1>3, <1>4 DEF FeatureStep, ExtractStep

\* No part begins with the first point but the one whose first entry is stale.
LEMMA OutsideFits == FeatureInv /\ OutsideInv => OutsideByTheZero
<1>. SUFFICES ASSUME FeatureInv, OutsideInv, NEW i \in DOMAIN corners, corners[i] = 0
              PROVE  stale = 0
  BY DEF OutsideByTheZero, OutsideInv
<1>1. 0 = stale \/ \E r \in DOMAIN scan.upTo, j \in 1..RingParts : 0 \in PartOf(r, j) /\ 0 # Reach - 1
  BY DEF FeatureInv, CornerInv
<1>2. \A r \in DOMAIN scan.upTo, j \in 1..RingParts : 0 \in PartOf(r, j) => Reach - 1 <= 0
  BY PartIs DEF FeatureInv, FeatureTypes
<1>. QED
  BY <1>1, <1>2, ParametersAre

LEMMA ElementsAre ==
  ASSUME NEW S, NEW s \in Seq(S)
  PROVE  \A i \in 1..Len(s) : s[i] \in S
  OBVIOUS

LEMMA ColumnsAre ==
  ASSUME IsScan(scan)
  PROVE  \A i \in 1..Len(scan.cloud) : scan.cloud[i].col \in Nat
<1>1. scan.cloud \in Seq([range : Nat, col : Nat])
  BY DEF IsScan
<1>2. \A i \in 1..Len(scan.cloud) : scan.cloud[i] \in [range : Nat, col : Nat]
  BY <1>1, ElementsAre, ZenonT(30)
<1>. QED
  BY <1>2

\* A later corner lies outside of what is around an earlier one: too far away, or beyond
\* a missing column.
LEMMA ApartFrom ==
  ASSUME FeatureInv, NEW c \in {corners[i] : i \in DOMAIN corners}, NEW d \in Indices,
         d \in {corners[i] : i \in DOMAIN corners}, d \notin Around(c)
  PROVE  LET lo == Lower(c, d)
             hi == Upper(c, d)
         IN  \/ hi - lo > Reach
             \/ \E m \in (lo + 1)..hi : /\ m < Len(scan.cloud)
                                        /\ AbsDiff(PointAt(scan, m).col, PointAt(scan, m - 1).col) > ColumnJump
<1>. DEFINE lo == Lower(c, d)
            hi == Upper(c, d)
<1>0. FeatureTypes /\ CornerInv /\ IsScan(scan)
  BY DEF FeatureInv, FeatureTypes
<1>1. Reach \in Nat \ {0} /\ Slots \in Nat /\ Len(scan.cloud) \in Nat /\ Len(scan.cloud) <= Slots
  BY <1>0, ParametersAre, ScanIs
<1>2. c \in Indices
  BY <1>0 DEF FeatureTypes
<1>3. /\ lo \in Nat /\ hi \in Nat /\ lo <= hi /\ hi - lo = AbsDiff(d, c) /\ hi < Slots
      /\ lo = Lower(d, c) /\ hi = Upper(d, c)
  BY <1>1, <1>2 DEF Indices, Lower, Upper, AbsDiff
\* But for the stale one, corners lie far from the end of the scan.
<1>4. \A x \in {c, d} : x = stale \/ x + Reach + 1 < Len(scan.cloud)
  <2>. SUFFICES ASSUME NEW x \in {c, d}, x # stale PROVE x + Reach + 1 < Len(scan.cloud)
    OBVIOUS
  <2>1. PICK r \in DOMAIN scan.upTo, j \in 1..RingParts : x \in PartOf(r, j)
    BY <1>0 DEF CornerInv
  <2>2. x \in Int /\ x <= Len(scan.cloud) - 2 - Reach
    BY <1>0, <2>1, PartIs
  <2>. QED
    BY <1>1, <2>2
<1>5. hi - lo > Reach \/ \E m \in (lo + 1)..hi : ~(AbsDiff(pointCol[m], pointCol[m - 1]) <= ColumnJump)
  <2>1. ~(AbsDiff(d, c) <= Reach /\ \A m \in (lo + 1)..hi : AbsDiff(pointCol[m], pointCol[m - 1]) <= ColumnJump)
    BY <1>3 DEF Around
  <2>. QED
    BY <2>1, <1>1, <1>3
<1>6. ASSUME hi - lo <= Reach PROVE hi < Len(scan.cloud)
  <2>1. CASE c = d
    <3>1. c \in Around(c)
      <4>1. Lower(c, c) = c /\ Upper(c, c) = c /\ AbsDiff(c, c) = 0
        BY <1>2 DEF Lower, Upper, AbsDiff, Indices
      <4>. QED
        BY <4>1, <1>1, <1>2 DEF Around, Indices
    <3>. QED
      BY <2>1, <3>1
  <2>2. CASE c # d
    <3>1. \E x \in {c, d} : x # stale /\ x + Reach + 1 < Len(scan.cloud)
      BY <1>4, <2>2
    <3>. QED
      BY <3>1, <1>1, <1>2, <1>3, <1>6 DEF Lower, Upper, Indices
  <2>. QED
    BY <2>1, <2>2
<1>7. ASSUME NEW m \in (lo + 1)..hi, hi < Len(scan.cloud), ~(AbsDiff(pointCol[m], pointCol[m - 1]) <= ColumnJump)
      PROVE  /\ m < Len(scan.cloud)
             /\ AbsDiff(PointAt(scan, m).col, PointAt(scan, m - 1).col) > ColumnJump
  <2>1. m \in Indices /\ m - 1 \in Indices /\ m < Len(scan.cloud) /\ m - 1 < Len(scan.cloud)
    BY <1>1, <1>3, <1>7 DEF Indices
  <2>2. pointCol[m] = PointAt(scan, m).col /\ pointCol[m - 1] = PointAt(scan, m - 1).col
    BY <1>0, <2>1 DEF FeatureTypes
  <2>3. \A x \in Indices : x < Len(scan.cloud) => PointAt(scan, x).col \in Nat
    BY <1>0, <1>1, ColumnsAre DEF PointAt, Indices
  <2>4. ColumnJump \in Nat
    BY FeatureAssumption
  <2>. QED
    BY <1>7, <2>1, <2>2, <2>3, <2>4 DEF AbsDiff
<1>8. CASE hi - lo > Reach
  BY <1>8
<1>9. CASE hi - lo <= Reach
  <2>1. hi < Len(scan.cloud)
    BY <1>6, <1>9
  <2>2. PICK m \in (lo + 1)..hi : ~(AbsDiff(pointCol[m], pointCol[m - 1]) <= ColumnJump)
    BY <1>5, <1>9, <1>1, <1>3
  <2>. QED
    BY <1>7, <2>1, <2>2
<1>. QED
  BY <1>8, <1>9, <1>1, <1>3

LEMMA FeaturesFit == FeatureInv => CornersApart /\ (step = "idle" => RestIsSurface)
<1>. SUFFICES ASSUME FeatureInv PROVE CornersApart /\ (step = "idle" => RestIsSurface)
  OBVIOUS
<1>0. FeatureTypes /\ CornerInv /\ SurfaceInv /\ IsScan(scan)
  BY DEF FeatureInv, FeatureTypes
<1>. DEFINE angular == {corners[i] : i \in DOMAIN corners}
            all == UNION {PartOf(r, j) : r \in DOMAIN scan.upTo, j \in 1..RingParts}
<1>1. DOMAIN corners \subseteq Nat /\ \A i \in DOMAIN corners : corners[i] \in Indices
  BY <1>0 DEF FeatureTypes
<1>2. CornersApart
  <2>. SUFFICES ASSUME NEW i \in DOMAIN corners, NEW j \in DOMAIN corners, i # j
                PROVE  LET lo == Lower(corners[i], corners[j])
                           hi == Upper(corners[i], corners[j])
                       IN  \/ hi - lo > Reach
                           \/ \E m \in (lo + 1)..hi :
                                 /\ m < Len(scan.cloud)
                                 /\ AbsDiff(PointAt(scan, m).col, PointAt(scan, m - 1).col) > ColumnJump
    BY DEF CornersApart
  <2>1. corners[i] \in angular /\ corners[j] \in angular /\ corners[i] \in Indices /\ corners[j] \in Indices
    BY <1>1
  <2>2. CASE i < j
    <3>1. corners[j] \notin Around(corners[i])
      BY <1>0, <2>2 DEF CornerInv
    <3>. QED
      BY <2>1, <3>1, ApartFrom
  <2>3. CASE j < i
    <3>1. corners[i] \notin Around(corners[j])
      BY <1>0, <2>3 DEF CornerInv
    <3>2. Lower(corners[i], corners[j]) = Lower(corners[j], corners[i])
          /\ Upper(corners[i], corners[j]) = Upper(corners[j], corners[i])
      BY <2>1 DEF Lower, Upper, Indices
    <3>. QED
      BY <2>1, <3>1, <3>2, ApartFrom
  <2>. QED
    BY <2>2, <2>3, <1>1
<1>3. ASSUME step = "idle" PROVE RestIsSurface
  <2>1. \A r \in DOMAIN scan.upTo : r < ring
    <3>1. ring \notin DOMAIN scan.upTo /\ ring \in Nat \ {0}
      BY <1>0, <1>3 DEF FeatureTypes
    <3>2. DOMAIN scan.upTo = 1..Len(scan.upTo) /\ Len(scan.upTo) \in Nat
      BY <1>0, ScanIs
    <3>. QED
      BY <3>1, <3>2
  <2>2. Passed = all
    <3>1. \A k \in Passed : k \in all
      BY DEF Passed
    <3>2. \A k \in all : k \in Passed
      <4>. SUFFICES ASSUME NEW r \in DOMAIN scan.upTo, NEW j \in 1..RingParts, NEW k \in PartOf(r, j)
                    PROVE  k \in Passed
        OBVIOUS
      <4>1. k \in Indices
        BY <1>0, PartIs
      <4>. QED
        BY <4>1, <2>1 DEF Passed, Earlier
    <3>. QED
      BY <3>1, <3>2
  <2>3. angular \subseteq (all \ {Reach - 1}) \cup {stale}
    BY <1>0 DEF CornerInv
  <2>. QED
    BY <1>0, <2>2, <2>3 DEF RestIsSurface, SurfaceInv
<1>. QED
  BY <1>2, <1>3

(* For any messages and scans, and any numbers of columns, rings, parts, corners of a   *)
(* part and neighbours: the sample handed over is in order, about as large as asked for  *)
(* and stamped from the header; and, whatever the arrays hold from earlier scans, the    *)
(* corners of a scan stand apart, the points of its parts are corners or surface, and    *)
(* the arrays are left around the first point only.                                *)
THEOREM CallbackFits == PreprocSpec => []PreprocFits
<1>1. PreprocInit => SampleInv /\ FeatureInv /\ OutsideInv
  BY SampleInvInit, FeatureInvInit, OutsideInvInit DEF PreprocInit
<1>2. SampleInv /\ FeatureInv /\ OutsideInv /\ [PreprocNext]_<<sampling, features>>
         => (SampleInv /\ FeatureInv /\ OutsideInv)'
  BY SampleInvStep, FeatureInvStep, OutsideInvStep DEF PreprocNext
<1>3. SampleInv /\ FeatureInv /\ OutsideInv => PreprocFits
  BY FeaturesFit, OutsideFits DEF SampleInv, PreprocFits
<1>. QED
  BY <1>1, <1>2, <1>3, PTL DEF PreprocSpec
===============================================================================

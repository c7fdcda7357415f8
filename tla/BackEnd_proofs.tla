---------------------------- MODULE BackEnd_proofs ----------------------------
(* What holds of the back end for maps and sessions of any length: the vectors *)
(* agree between two keyframes, the edges join keyframes, the map that is      *)
(* written is whole, and no index leaves its vector but in two windows.        *)

EXTENDS BackEnd, TLAPS

(* The vectors, by the place of the LIO thread.                                *)

\* A second mapping meets its first fault with the first keyframe of its own.
LoadedInv ==
    /\ ready => second /\ points >= Loaded
    /\ second /\ ~ready => points = 0 /\ lio \in {"idle", "run"} /\ loop = "idle"
    /\ second /\ NoFault => /\ lio \in {"idle", "run"} => odom = 0
                            /\ lio \notin {"idle", "run"} => lio = "factor" /\ odom = 1
    /\ second => estimate = 0

\* What each step of a keyframe has appended.
VectorInv ==
    NoFault =>
        /\ poses = IF lio = "pose" THEN points - 1 ELSE points
        /\ clouds = IF lio \in {"pose", "transform", "cloud"} THEN points - 1 ELSE points
        /\ scs = IF lio \in {"pose", "transform", "cloud", "sc"} THEN points - 1 ELSE points
        /\ lio \in {"factor", "point"} => index = points /\ points < MaxKeyFrames
        /\ lio \in {"pose", "transform", "cloud", "sc"} => points > 0 /\ index = points - 1
        /\ ~second => /\ odom = IF lio \in {"factor", "point"} THEN points + 1 ELSE points
                      /\ estimate = points
        /\ closed => lio \in {"point", "pose", "transform"}

\* The loop thread and its copies.
CopyInv ==
    NoFault /\ loop # "idle" =>
        /\ copied.points \in 1..points
        /\ ~torn => copied.points <= poses

\* The edges and the candidate.
EdgeInv ==
    /\ edges \cup queue \subseteq paired
    /\ \A p \in paired : p[2] < p[1] /\ p[1] < points
    /\ \A p, q \in paired : p[1] = q[1] => p = q
    /\ NoFault /\ loop \in {"near", "icp", "push"} =>
          /\ cand[1] = copied.points - 1 /\ cand[2] < cand[1]
          /\ \A p \in paired : p[1] # cand[1]
    /\ NoFault /\ loop = "icp" => cand[1] < clouds

\* ICP and its failures.
TriedInv ==
    /\ failed \cup paired \subseteq tried
    /\ failed \cap paired = {}
    /\ NoFault => tried = failed \cup paired \cup (IF loop = "push" THEN {cand} ELSE {})
    /\ NoFault /\ loop \in {"near", "icp"} => cand \notin tried
    /\ NoFault /\ loop = "push" => cand \notin failed

\* The map that is written.
SaveInv ==
    NoFault /\ save # "running" /\ ~inflight =>
        /\ lio = "idle"
        /\ save \in {"size", "write"} => room = poses /\ room > 0
        /\ save = "write" => upto = poses
        /\ save = "done" /\ room > 0 => upto = poses /\ room = poses

IInv == TypeOK /\ LoadedInv /\ VectorInv /\ CopyInv /\ EdgeInv /\ TriedInv /\ SaveInv /\ FaultsNeedOverlap


-------------------------------------------------------------------------------
(* It holds at the start.                                                      *)

LEMMA IInvInit == Init => IInv
<1> SUFFICES ASSUME Init PROVE IInv
  OBVIOUS
<1> USE NumbersAssumption, LoadedAssumption DEF Init, NoFault
<1>1. TypeOK
  <2>1. 0 \in 0..MaxKeyFrames /\ <<0, 0>> \in Pairs
    BY DEF Pairs
  <2>. QED
    BY <2>1 DEF TypeOK, Faults
<1>2. LoadedInv /\ VectorInv /\ CopyInv /\ EdgeInv /\ TriedInv /\ SaveInv /\ FaultsNeedOverlap
  BY DEF LoadedInv, VectorInv, CopyInv, EdgeInv, TriedInv, SaveInv, FaultsNeedOverlap
<1>. QED
  BY <1>1, <1>2 DEF IInv

-------------------------------------------------------------------------------
(* Every step preserves it.                                                    *)

\* Types need the vectors, whose lengths the guards of a keyframe bound.
LEMMA TypeStep ==
  ASSUME IInv, [Next]_vars
  PROVE  TypeOK'
<1>. USE NumbersAssumption, LoadedAssumption DEF IInv, TypeOK, NoFault, LoadedInv, VectorInv, CopyInv, EdgeInv, Pairs, Faults,
           vectors, graph, found, loops, saving, loading
<1>1. CASE BeginRun
  BY <1>1 DEF BeginRun
<1>2. CASE NoKeyFrame
  BY <1>2 DEF NoKeyFrame
<1>3. CASE KeyFrame
  BY <1>3 DEF KeyFrame
<1>4. CASE Factors
  BY <1>4 DEF Factors, OdomFault
<1>5. CASE Point
  BY <1>5 DEF Point
<1>6. CASE Pose
  BY <1>6 DEF Pose
<1>7. CASE Transform
  BY <1>7 DEF Transform
<1>8. CASE Cloud
  BY <1>8 DEF Cloud
<1>9. CASE ScanContext
  BY <1>9 DEF ScanContext
<1>10. CASE SetLoadedKeyClouds
  BY <1>10 DEF SetLoadedKeyClouds, OdomFault
<1>11. CASE CopyPoints
  BY <1>11 DEF CopyPoints
<1>12. CASE CopyPoses
  BY <1>12 DEF CopyPoses
<1>13. CASE NoCandidate
  BY <1>13 DEF NoCandidate, LooksAtCurrent, IndexFault, Current
<1>14. CASE \E pre \in 0..MaxKeyFrames : Candidate(pre)
  BY <1>14 DEF Candidate, LooksAtCurrent, IndexFault, Current
<1>15. CASE NearKeyFrames
  BY <1>15 DEF NearKeyFrames
<1>16. CASE \E good \in BOOLEAN : Icp(good)
  BY <1>16 DEF Icp
<1>17. CASE Push
  BY <1>17 DEF Push
<1>18. CASE Stop
  BY <1>18 DEF Stop
<1>19. CASE AllocateInfos
  BY <1>19 DEF AllocateInfos
<1>20. CASE TakeSize
  BY <1>20 DEF TakeSize
<1>21. CASE Write
  BY <1>21 DEF Write
<1>22. CASE UNCHANGED vars
  BY <1>22 DEF vars
<1>. QED
  BY <1>1, <1>2, <1>3, <1>4, <1>5, <1>6, <1>7, <1>8, <1>9, <1>10, <1>11, <1>12, <1>13,
     <1>14, <1>15, <1>16, <1>17, <1>18, <1>19, <1>20, <1>21, <1>22
  DEF Next, Lio, LoopThread, SaveMap

\* The second keyframe of a second mapping is never reached: its first one faults.
LEMMA LoadedStep ==
  ASSUME IInv, [Next]_vars
  PROVE  LoadedInv'
<1>. USE NumbersAssumption, LoadedAssumption DEF IInv, TypeOK, NoFault, LoadedInv, VectorInv,
           vectors, graph, found, loops, saving, loading
<1>1. CASE BeginRun
  BY <1>1 DEF BeginRun
<1>2. CASE NoKeyFrame
  BY <1>2 DEF NoKeyFrame
<1>3. CASE KeyFrame
  BY <1>3 DEF KeyFrame
<1>4. CASE Factors
  BY <1>4 DEF Factors, OdomFault
<1>5. CASE Point
  BY <1>5 DEF Point
<1>6. CASE Pose
  BY <1>6 DEF Pose
<1>7. CASE Transform
  BY <1>7 DEF Transform
<1>8. CASE Cloud
  BY <1>8 DEF Cloud
<1>9. CASE ScanContext
  BY <1>9 DEF ScanContext
<1>10. CASE SetLoadedKeyClouds
  BY <1>10 DEF SetLoadedKeyClouds, OdomFault
<1>11. CASE CopyPoints
  BY <1>11 DEF CopyPoints
<1>12. CASE CopyPoses
  BY <1>12 DEF CopyPoses
<1>13. CASE NoCandidate
  BY <1>13 DEF NoCandidate, LooksAtCurrent, IndexFault, Current
<1>14. CASE \E pre \in 0..MaxKeyFrames : Candidate(pre)
  BY <1>14 DEF Candidate, LooksAtCurrent, IndexFault, Current
<1>15. CASE NearKeyFrames
  BY <1>15 DEF NearKeyFrames
<1>16. CASE \E good \in BOOLEAN : Icp(good)
  BY <1>16 DEF Icp
<1>17. CASE Push
  BY <1>17 DEF Push
<1>18. CASE Stop
  BY <1>18 DEF Stop
<1>19. CASE AllocateInfos
  BY <1>19 DEF AllocateInfos
<1>20. CASE TakeSize
  BY <1>20 DEF TakeSize
<1>21. CASE Write
  BY <1>21 DEF Write
<1>22. CASE UNCHANGED vars
  BY <1>22 DEF vars
<1>. QED
  BY <1>1, <1>2, <1>3, <1>4, <1>5, <1>6, <1>7, <1>8, <1>9, <1>10, <1>11, <1>12, <1>13,
     <1>14, <1>15, <1>16, <1>17, <1>18, <1>19, <1>20, <1>21, <1>22
  DEF Next, Lio, LoopThread, SaveMap

\* One append per step, each undone by none.
LEMMA VectorStep ==
  ASSUME IInv, [Next]_vars
  PROVE  VectorInv'
<1>. USE NumbersAssumption, LoadedAssumption DEF IInv, TypeOK, NoFault, LoadedInv, VectorInv,
           vectors, graph, found, loops, saving, loading
<1>1. CASE BeginRun
  BY <1>1 DEF BeginRun
<1>2. CASE NoKeyFrame
  BY <1>2 DEF NoKeyFrame
<1>3. CASE KeyFrame
  BY <1>3 DEF KeyFrame
<1>4. CASE Factors
  BY <1>4 DEF Factors, OdomFault
<1>5. CASE Point
  BY <1>5 DEF Point
<1>6. CASE Pose
  BY <1>6 DEF Pose
<1>7. CASE Transform
  BY <1>7 DEF Transform
<1>8. CASE Cloud
  BY <1>8 DEF Cloud
<1>9. CASE ScanContext
  BY <1>9 DEF ScanContext
<1>10. CASE SetLoadedKeyClouds
  BY <1>10 DEF SetLoadedKeyClouds, OdomFault
<1>11. CASE CopyPoints
  BY <1>11 DEF CopyPoints
<1>12. CASE CopyPoses
  BY <1>12 DEF CopyPoses
<1>13. CASE NoCandidate
  BY <1>13 DEF NoCandidate, LooksAtCurrent, IndexFault, Current
<1>14. CASE \E pre \in 0..MaxKeyFrames : Candidate(pre)
  BY <1>14 DEF Candidate, LooksAtCurrent, IndexFault, Current
<1>15. CASE NearKeyFrames
  BY <1>15 DEF NearKeyFrames
<1>16. CASE \E good \in BOOLEAN : Icp(good)
  BY <1>16 DEF Icp
<1>17. CASE Push
  BY <1>17 DEF Push
<1>18. CASE Stop
  BY <1>18 DEF Stop
<1>19. CASE AllocateInfos
  BY <1>19 DEF AllocateInfos
<1>20. CASE TakeSize
  BY <1>20 DEF TakeSize
<1>21. CASE Write
  BY <1>21 DEF Write
<1>22. CASE UNCHANGED vars
  BY <1>22 DEF vars
<1>. QED
  BY <1>1, <1>2, <1>3, <1>4, <1>5, <1>6, <1>7, <1>8, <1>9, <1>10, <1>11, <1>12, <1>13,
     <1>14, <1>15, <1>16, <1>17, <1>18, <1>19, <1>20, <1>21, <1>22
  DEF Next, Lio, LoopThread, SaveMap

\* A copy stays within the vectors, which only grow while the loop thread is at work.
LEMMA CopyStep ==
  ASSUME IInv, [Next]_vars
  PROVE  CopyInv'
<1>. USE NumbersAssumption, LoadedAssumption DEF IInv, TypeOK, NoFault, LoadedInv, VectorInv, CopyInv,
           vectors, graph, found, loops, saving, loading
<1>1. CASE BeginRun
  BY <1>1 DEF BeginRun
<1>2. CASE NoKeyFrame
  BY <1>2 DEF NoKeyFrame
<1>3. CASE KeyFrame
  BY <1>3 DEF KeyFrame
<1>4. CASE Factors
  BY <1>4 DEF Factors, OdomFault
<1>5. CASE Point
  BY <1>5 DEF Point
<1>6. CASE Pose
  BY <1>6 DEF Pose
<1>7. CASE Transform
  BY <1>7 DEF Transform
<1>8. CASE Cloud
  BY <1>8 DEF Cloud
<1>9. CASE ScanContext
  BY <1>9 DEF ScanContext
<1>10. CASE SetLoadedKeyClouds
  BY <1>10 DEF SetLoadedKeyClouds, OdomFault
<1>11. CASE CopyPoints
  <2>1. copied'.points = points /\ points \in Nat /\ points > 0
    BY <1>11 DEF CopyPoints
  <2>2. ~torn' => lio # "pose"
    BY <1>11 DEF CopyPoints
  <2>3. UNCHANGED <<points, poses, fault>> /\ fault = {}
    BY <1>11 DEF CopyPoints
  <2>. QED
    BY <2>1, <2>2, <2>3
<1>12. CASE CopyPoses
  BY <1>12 DEF CopyPoses
<1>13. CASE NoCandidate
  BY <1>13 DEF NoCandidate, LooksAtCurrent, IndexFault, Current
<1>14. CASE \E pre \in 0..MaxKeyFrames : Candidate(pre)
  BY <1>14 DEF Candidate, LooksAtCurrent, IndexFault, Current
<1>15. CASE NearKeyFrames
  BY <1>15 DEF NearKeyFrames
<1>16. CASE \E good \in BOOLEAN : Icp(good)
  BY <1>16 DEF Icp
<1>17. CASE Push
  BY <1>17 DEF Push
<1>18. CASE Stop
  BY <1>18 DEF Stop
<1>19. CASE AllocateInfos
  BY <1>19 DEF AllocateInfos
<1>20. CASE TakeSize
  BY <1>20 DEF TakeSize
<1>21. CASE Write
  BY <1>21 DEF Write
<1>22. CASE UNCHANGED vars
  BY <1>22 DEF vars
<1>. QED
  BY <1>1, <1>2, <1>3, <1>4, <1>5, <1>6, <1>7, <1>8, <1>9, <1>10, <1>11, <1>12, <1>13,
     <1>14, <1>15, <1>16, <1>17, <1>18, <1>19, <1>20, <1>21, <1>22
  DEF Next, Lio, LoopThread, SaveMap

\* A candidate is not paired yet, and becomes a pair at once with its edge.
LEMMA EdgeStep ==
  ASSUME IInv, [Next]_vars
  PROVE  EdgeInv'
<1>. USE NumbersAssumption, LoadedAssumption DEF IInv, TypeOK, NoFault, LoadedInv, VectorInv, CopyInv, EdgeInv, Pairs,
           vectors, graph, found, loops, saving, loading
<1>1. CASE BeginRun
  BY <1>1 DEF BeginRun
<1>2. CASE NoKeyFrame
  BY <1>2 DEF NoKeyFrame
<1>3. CASE KeyFrame
  BY <1>3 DEF KeyFrame
<1>4. CASE Factors
  BY <1>4 DEF Factors, OdomFault
<1>5. CASE Point
  BY <1>5 DEF Point
<1>6. CASE Pose
  BY <1>6 DEF Pose
<1>7. CASE Transform
  BY <1>7 DEF Transform
<1>8. CASE Cloud
  BY <1>8 DEF Cloud
<1>9. CASE ScanContext
  BY <1>9 DEF ScanContext
<1>10. CASE SetLoadedKeyClouds
  BY <1>10 DEF SetLoadedKeyClouds, OdomFault
<1>11. CASE CopyPoints
  BY <1>11 DEF CopyPoints
<1>12. CASE CopyPoses
  BY <1>12 DEF CopyPoses
<1>13. CASE NoCandidate
  BY <1>13 DEF NoCandidate, LooksAtCurrent, IndexFault, Current
<1>14. CASE \E pre \in 0..MaxKeyFrames : Candidate(pre)
  BY <1>14 DEF Candidate, LooksAtCurrent, IndexFault, Current
<1>15. CASE NearKeyFrames
  BY <1>15 DEF NearKeyFrames
<1>16. CASE \E good \in BOOLEAN : Icp(good)
  BY <1>16 DEF Icp
<1>17. CASE Push
  BY <1>17 DEF Push
<1>18. CASE Stop
  BY <1>18 DEF Stop
<1>19. CASE AllocateInfos
  BY <1>19 DEF AllocateInfos
<1>20. CASE TakeSize
  BY <1>20 DEF TakeSize
<1>21. CASE Write
  BY <1>21 DEF Write
<1>22. CASE UNCHANGED vars
  BY <1>22 DEF vars
<1>. QED
  BY <1>1, <1>2, <1>3, <1>4, <1>5, <1>6, <1>7, <1>8, <1>9, <1>10, <1>11, <1>12, <1>13,
     <1>14, <1>15, <1>16, <1>17, <1>18, <1>19, <1>20, <1>21, <1>22
  DEF Next, Lio, LoopThread, SaveMap

\* A candidate has not been tried, or the check of failures and pairs had met it.
LEMMA TriedStep ==
  ASSUME IInv, [Next]_vars
  PROVE  TriedInv'
<1>. USE NumbersAssumption, LoadedAssumption DEF IInv, TypeOK, NoFault, EdgeInv, TriedInv, Pairs,
           vectors, graph, found, loops, saving, loading
<1>1. CASE BeginRun
  BY <1>1 DEF BeginRun
<1>2. CASE NoKeyFrame
  BY <1>2 DEF NoKeyFrame
<1>3. CASE KeyFrame
  BY <1>3 DEF KeyFrame
<1>4. CASE Factors
  BY <1>4 DEF Factors, OdomFault
<1>5. CASE Point
  BY <1>5 DEF Point
<1>6. CASE Pose
  BY <1>6 DEF Pose
<1>7. CASE Transform
  BY <1>7 DEF Transform
<1>8. CASE Cloud
  BY <1>8 DEF Cloud
<1>9. CASE ScanContext
  BY <1>9 DEF ScanContext
<1>10. CASE SetLoadedKeyClouds
  BY <1>10 DEF SetLoadedKeyClouds, OdomFault
<1>11. CASE CopyPoints
  BY <1>11 DEF CopyPoints
<1>12. CASE CopyPoses
  BY <1>12 DEF CopyPoses
<1>13. CASE NoCandidate
  BY <1>13 DEF NoCandidate, LooksAtCurrent, IndexFault, Current
<1>14. CASE \E pre \in 0..MaxKeyFrames : Candidate(pre)
  BY <1>14 DEF Candidate, LooksAtCurrent, IndexFault, Current
<1>15. CASE NearKeyFrames
  BY <1>15 DEF NearKeyFrames
<1>16. CASE \E good \in BOOLEAN : Icp(good)
  BY <1>16 DEF Icp
<1>17. CASE Push
  BY <1>17 DEF Push
<1>18. CASE Stop
  BY <1>18 DEF Stop
<1>19. CASE AllocateInfos
  BY <1>19 DEF AllocateInfos
<1>20. CASE TakeSize
  BY <1>20 DEF TakeSize
<1>21. CASE Write
  BY <1>21 DEF Write
<1>22. CASE UNCHANGED vars
  BY <1>22 DEF vars
<1>. QED
  BY <1>1, <1>2, <1>3, <1>4, <1>5, <1>6, <1>7, <1>8, <1>9, <1>10, <1>11, <1>12, <1>13,
     <1>14, <1>15, <1>16, <1>17, <1>18, <1>19, <1>20, <1>21, <1>22
  DEF Next, Lio, LoopThread, SaveMap

\* With no run under way the vectors stand still; only a map that is not there yet could come.
LEMMA SaveStep ==
  ASSUME IInv, [Next]_vars
  PROVE  SaveInv'
<1>. USE NumbersAssumption, LoadedAssumption DEF IInv, TypeOK, NoFault, LoadedInv, VectorInv, SaveInv,
           vectors, graph, found, loops, saving, loading
<1>1. CASE BeginRun
  BY <1>1 DEF BeginRun
<1>2. CASE NoKeyFrame
  BY <1>2 DEF NoKeyFrame
<1>3. CASE KeyFrame
  BY <1>3 DEF KeyFrame
<1>4. CASE Factors
  BY <1>4 DEF Factors, OdomFault
<1>5. CASE Point
  BY <1>5 DEF Point
<1>6. CASE Pose
  BY <1>6 DEF Pose
<1>7. CASE Transform
  BY <1>7 DEF Transform
<1>8. CASE Cloud
  BY <1>8 DEF Cloud
<1>9. CASE ScanContext
  BY <1>9 DEF ScanContext
<1>10. CASE SetLoadedKeyClouds
  BY <1>10 DEF SetLoadedKeyClouds, OdomFault
<1>11. CASE CopyPoints
  BY <1>11 DEF CopyPoints
<1>12. CASE CopyPoses
  BY <1>12 DEF CopyPoses
<1>13. CASE NoCandidate
  BY <1>13 DEF NoCandidate, LooksAtCurrent, IndexFault, Current
<1>14. CASE \E pre \in 0..MaxKeyFrames : Candidate(pre)
  BY <1>14 DEF Candidate, LooksAtCurrent, IndexFault, Current
<1>15. CASE NearKeyFrames
  BY <1>15 DEF NearKeyFrames
<1>16. CASE \E good \in BOOLEAN : Icp(good)
  BY <1>16 DEF Icp
<1>17. CASE Push
  BY <1>17 DEF Push
<1>18. CASE Stop
  BY <1>18 DEF Stop
<1>19. CASE AllocateInfos
  BY <1>19 DEF AllocateInfos
<1>20. CASE TakeSize
  BY <1>20 DEF TakeSize
<1>21. CASE Write
  BY <1>21 DEF Write
<1>22. CASE UNCHANGED vars
  BY <1>22 DEF vars
<1>. QED
  BY <1>1, <1>2, <1>3, <1>4, <1>5, <1>6, <1>7, <1>8, <1>9, <1>10, <1>11, <1>12, <1>13,
     <1>14, <1>15, <1>16, <1>17, <1>18, <1>19, <1>20, <1>21, <1>22
  DEF Next, Lio, LoopThread, SaveMap

\* What a step reads is within what it has checked, but in the two windows.
LEMMA FaultStep ==
  ASSUME IInv, [Next]_vars
  PROVE  FaultsNeedOverlap'
<1>. USE NumbersAssumption, LoadedAssumption DEF IInv, TypeOK, NoFault, LoadedInv, VectorInv, CopyInv, EdgeInv, SaveInv, FaultsNeedOverlap,
           vectors, graph, found, loops, saving, loading
<1>1. CASE BeginRun
  BY <1>1 DEF BeginRun
<1>2. CASE NoKeyFrame
  BY <1>2 DEF NoKeyFrame
<1>3. CASE KeyFrame
  BY <1>3 DEF KeyFrame
<1>4. CASE Factors
  BY <1>4 DEF Factors, OdomFault
<1>5. CASE Point
  BY <1>5 DEF Point
<1>6. CASE Pose
  BY <1>6 DEF Pose
<1>7. CASE Transform
  BY <1>7 DEF Transform
<1>8. CASE Cloud
  BY <1>8 DEF Cloud
<1>9. CASE ScanContext
  BY <1>9 DEF ScanContext
<1>10. CASE SetLoadedKeyClouds
  BY <1>10 DEF SetLoadedKeyClouds, OdomFault
<1>11. CASE CopyPoints
  BY <1>11 DEF CopyPoints
<1>12. CASE CopyPoses
  BY <1>12 DEF CopyPoses
<1>13. CASE NoCandidate
  BY <1>13 DEF NoCandidate, LooksAtCurrent, IndexFault, Current
<1>14. CASE \E pre \in 0..MaxKeyFrames : Candidate(pre)
  BY <1>14 DEF Candidate, LooksAtCurrent, IndexFault, Current
<1>15. CASE NearKeyFrames
  BY <1>15 DEF NearKeyFrames
<1>16. CASE \E good \in BOOLEAN : Icp(good)
  BY <1>16 DEF Icp
<1>17. CASE Push
  BY <1>17 DEF Push
<1>18. CASE Stop
  BY <1>18 DEF Stop
<1>19. CASE AllocateInfos
  BY <1>19 DEF AllocateInfos
<1>20. CASE TakeSize
  BY <1>20 DEF TakeSize
<1>21. CASE Write
  BY <1>21 DEF Write
<1>22. CASE UNCHANGED vars
  BY <1>22 DEF vars
<1>. QED
  BY <1>1, <1>2, <1>3, <1>4, <1>5, <1>6, <1>7, <1>8, <1>9, <1>10, <1>11, <1>12, <1>13,
     <1>14, <1>15, <1>16, <1>17, <1>18, <1>19, <1>20, <1>21, <1>22
  DEF Next, Lio, LoopThread, SaveMap

-------------------------------------------------------------------------------

THEOREM BackEndInvariant == Spec => []IInv
<1>1. IInv /\ [Next]_vars => IInv'
  BY TypeStep, LoadedStep, VectorStep, CopyStep, EdgeStep, TriedStep, SaveStep, FaultStep DEF IInv
<1>. QED
  BY <1>1, IInvInit, PTL DEF Spec

\* Every vector and index of the back end stays within its bounds, for maps and
\* sessions of any length.
THEOREM BackEndTypeCorrect == Spec => []TypeOK
<1>1. IInv => TypeOK
  BY DEF IInv
<1>. QED
  BY <1>1, BackEndInvariant, PTL

\* Between two keyframes the vectors of the back end have the same length.
\* (saveKeyFramesAndFactor, saveCurrentCloud, backend.cpp.)
THEOREM Aligned == Spec => []KeyFramesAligned
<1>1. IInv => KeyFramesAligned
  BY DEF IInv, KeyFramesAligned, VectorInv, NoFault
<1>. QED
  BY <1>1, BackEndInvariant, PTL

\* A loop edge joins two keyframes that are there, and no keyframe has two: the
\* queue, the table of pairs and the graph are written by two threads.
THEOREM EdgesThere == Spec => []EdgesJoinKeyFrames
<1>1. IInv => EdgesJoinKeyFrames
  <2>1. EdgeInv => EdgesJoinKeyFrames
    BY DEF EdgeInv, EdgesJoinKeyFrames
  <2>. QED
    BY <2>1 DEF IInv
<1>. QED
  BY <1>1, BackEndInvariant, PTL

\* No index leaves its vector but in the two windows between critical sections, and in
\* a second mapping, which fails over the odometry poses of its loaded keyframes.
\* (detectLoopClosureDistance, saveMap, addOdomFactor.)
THEOREM FaultsInWindows == Spec => []FaultsNeedOverlap
<1>1. IInv => FaultsNeedOverlap
  BY DEF IInv
<1>. QED
  BY <1>1, BackEndInvariant, PTL

\* The map that saveMap writes has every keyframe whole, unless a run of the LIO
\* thread was under way when the save began.
THEOREM SavedWhole == Spec => []SavedMapIsWhole
<1>1. IInv => SavedMapIsWhole
  BY DEF IInv, TypeOK, SaveInv, VectorInv, SavedMapIsWhole, NoFault
<1>. QED
  BY <1>1, BackEndInvariant, PTL

\* ICP is run once for a pair, and no edge is one of the failures.
THEOREM MatchedOncePerPair == Spec => MatchedOnce
<1>1. IInv /\ [Next]_vars => [loop = "icp" /\ loop' # "icp" => cand \notin tried]_vars
  <2>. SUFFICES ASSUME IInv, [Next]_vars, loop = "icp", loop' # "icp"
                PROVE  cand \notin tried
    OBVIOUS
  <2>1. NoFault
    BY DEF Next, Lio, LoopThread, SaveMap, BeginRun, NoKeyFrame, KeyFrame, Factors, Point, Pose, Transform,
           Cloud, ScanContext, SetLoadedKeyClouds, CopyPoints, CopyPoses, NoCandidate, Candidate,
           LooksAtCurrent, NearKeyFrames, Icp, Push, Stop, AllocateInfos, TakeSize, Write, vars, loops
  <2>. QED
    BY <2>1 DEF IInv, TriedInv
<1>2. IInv => failed \cap (edges \cup queue) = {}
  BY DEF IInv, EdgeInv, TriedInv
<1>. QED
  BY <1>1, <1>2, BackEndInvariant, PTL DEF Spec, MatchedOnce

===============================================================================

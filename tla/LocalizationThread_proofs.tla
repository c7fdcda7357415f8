----------------------- MODULE LocalizationThread_proofs -----------------------
(* Theorems about LocalizationThread, for every period, threshold, number of      *)
(* attempts and sessions, and a road of any length.                              *)

EXTENDS LocalizationThread, TLAPS

-------------------------------------------------------------------------------
(* The inductive invariant.                                                      *)

\* Status and success flag, by the place of the thread.
PlaceInv ==
    /\ pc \in {"relocate", "global", "verdict"} => status = "Relocalizing"
    /\ pc \in {"relocate", "global"} => ~success
    /\ pc = "match" => success
    /\ pc \in {"top", "loop"} => (success <=> status \in {"Normal", "LowAccuracy"})
    /\ success => origin # "none"
    /\ pc = "verdict" /\ success => origin = "global"

\* While it relocalizes the thread counts every failure and nothing else.
CountInv ==
    /\ status # "RelocalizeFailed" /\ ~success => count = tries
    /\ success /\ pc # "verdict" => count = 0 /\ tries = 0
    /\ status = "RelocalizeFailed" => count = 0
    /\ pc # "verdict" => count <= Times

\* What was integrated was driven: from the pose that began the integration to the
\* last one, to the pose of this loop, to where the vehicle is now.
WayInv ==
    /\ thresh >= Thresh + tries
    /\ ~initPose => moved = 0
    /\ pc \in {"loop", "relocate", "global"} => path = Enough \/ Distance(curr, pos) <= path
    /\ initPose => path = Enough \/ moved + Distance(last, curr) + Distance(curr, pos) <= path

\* wait_time runs one ahead of the loops since the last match; a global success
\* adds to what an earlier session has left of it, once per session.
WaitInv ==
    /\ sessions >= 1
    /\ ~success \/ pc = "verdict" => wait < Period + sessions
    /\ success /\ pc \in {"top", "loop"} =>
         /\ ~need /\ since + 1 <= wait /\ since < Period
         /\ origin = "match" => wait = since + 1 /\ wait <= Period
    /\ pc = "match" => wait = 1 /\ since = 0

\* Without a loop that strayed the smoother stands where the odometry starts from.
SmootherInv ==
    success /\ ~strayed => smoothed = (IF pc = "verdict" THEN curr ELSE last)

IInv == TypeOK /\ PlaceInv /\ CountInv /\ WayInv /\ WaitInv /\ SmootherInv

-------------------------------------------------------------------------------
(* Facts about the way of the vehicle.                                           *)

\* A way is not longer for a stop on it.
LEMMA DistanceFacts ==
    ASSUME NEW a \in Int, NEW b \in Int, NEW c \in Int
    PROVE  /\ Distance(a, b) \in Nat
           /\ Distance(a, a) = 0
           /\ Distance(a, b) = Distance(b, a)
           /\ Distance(a, c) <= Distance(a, b) + Distance(b, c)
BY DEF Distance

\* localize has one of three results.
LEMMA Results == LocalizeResults = {"Failed", "Normal", "LowAccuracy"}
<1>1. LocalizeResults \subseteq {"Failed", "Normal", "LowAccuracy"}
  BY DEF LocalizeResults, LocalizeResult, Matches
<1>2. \A r \in {"Failed", "Normal", "LowAccuracy"} : \E m \in Matches : r = LocalizeResult(m)
  <2> DEFINE M(c, i, l) == [converged |-> c, inliers |-> i, close |-> l]
  <2>1. \A c, i, l \in BOOLEAN : M(c, i, l) \in Matches
    BY DEF Matches
  <2>2. /\ LocalizeResult(M(FALSE, FALSE, FALSE)) = "Failed"
        /\ LocalizeResult(M(TRUE, TRUE, TRUE)) = "Normal"
        /\ LocalizeResult(M(TRUE, TRUE, FALSE)) = "LowAccuracy"
    BY DEF LocalizeResult
  <2> QED
    BY <2>1, <2>2
<1> QED
  BY <1>1, <1>2 DEF LocalizeResults

\* Every step is one of these.
LEMMA Steps ==
    ASSUME [Next]_vars
    PROVE  \/ Copy \/ GivenUp \/ Relocalize \/ NoInput \/ FirstPose \/ TooNear \/ Integrate
           \/ Attempt \/ GlobalFails \/ GlobalSucceeds \/ StillTrying \/ TimesOut \/ Located
           \/ Track \/ MatchDue \/ (\E s \in {"Failed", "Normal", "LowAccuracy"} : Match(s))
           \/ (\E s \in Scans, p \in 0..Road : Run(s, p)) \/ NewSession \/ UNCHANGED vars
BY Results DEF Next, Thread

-------------------------------------------------------------------------------
(* Each part is preserved.                                                       *)

\* What a count may still be added to.
LEMMA Room ==
    ASSUME IInv
    PROVE  /\ 0 \in 0..(Times + 1) /\ 0 \in 0..Road /\ 0 \in 0..Period /\ 0 \in Int /\ Thresh \in Nat
           /\ 0 \in 0..(Period + sessions) /\ 1 \in 0..(Period + sessions)
           /\ wait \in 0..(Period + (sessions + 1)) /\ sessions + 1 \in Nat
           /\ pc = "global" => count + 1 \in 0..(Times + 1) /\ tries + 1 \in 0..(Times + 1)
           /\ pc = "verdict" => wait + 1 \in 0..(Period + sessions)
           /\ pc = "loop" /\ success /\ wait < Period =>
                 wait + 1 \in 0..(Period + sessions) /\ since + 1 \in 0..Period
           /\ pc = "loop" /\ success /\ ~need => since \in 0..(Period - 1)
           /\ \A n \in Nat : Thresh + (n + 1) \in Nat
           /\ pc = "loop" /\ success /\ (wait >= Period \/ need) => wait >= Period
           /\ moved + Distance(curr, last) \in Nat
           /\ \A p \in 0..Road : Driven(Distance(pos, p)) \in Nat
<1> USE NumbersAssumption, PeriodAssumption DEF IInv
<1>1. TypeOK
  OBVIOUS
<1>2. /\ 0 \in 0..(Times + 1) /\ 0 \in 0..Road /\ 0 \in 0..Period /\ 0 \in Int /\ Thresh \in Nat
      /\ 0 \in 0..(Period + sessions) /\ 1 \in 0..(Period + sessions)
      /\ wait \in 0..(Period + (sessions + 1)) /\ sessions + 1 \in Nat
      /\ \A n \in Nat : Thresh + (n + 1) \in Nat
  BY <1>1 DEF TypeOK
<1>3. pc = "global" => count + 1 \in 0..(Times + 1) /\ tries + 1 \in 0..(Times + 1)
  BY <1>1 DEF TypeOK, PlaceInv, CountInv
<1>4. pc = "verdict" => wait + 1 \in 0..(Period + sessions)
  BY <1>1 DEF TypeOK, WaitInv
<1>5. /\ pc = "loop" /\ success /\ wait < Period =>
             wait + 1 \in 0..(Period + sessions) /\ since + 1 \in 0..Period
      /\ pc = "loop" /\ success /\ ~need => since \in 0..(Period - 1)
      /\ pc = "loop" /\ success /\ (wait >= Period \/ need) => wait >= Period
  BY <1>1 DEF TypeOK, WaitInv
<1>6. moved + Distance(curr, last) \in Nat
  <2>1. curr \in Int /\ last \in Int /\ moved \in Nat
    BY <1>1 DEF TypeOK
  <2>2. Distance(curr, last) \in Nat
    BY <2>1, DistanceFacts
  <2> QED
    BY <2>1, <2>2
<1>7. \A p \in 0..Road : Driven(Distance(pos, p)) \in Nat
  BY <1>1 DEF TypeOK, Driven, Enough, Distance
<1> QED
  BY <1>2, <1>3, <1>4, <1>5, <1>6, <1>7

\* The counts stay in their bounds by what the other parts say of them.
LEMMA TypeStep ==
    ASSUME IInv, [Next]_vars
    PROVE  TypeOK'
<1> USE DEF TypeOK, Scans, Statuses, world, poses, integration, registration, tracking, result, EndOfLoop, ResetGlobalLocalizeFlags, InitSmoother, Input
<1> TypeOK
  BY DEF IInv
<1>1. CASE Copy
  BY <1>1 DEF Copy
<1>2. CASE GivenUp
  BY <1>2, Room DEF GivenUp
<1>3. CASE Relocalize
  BY <1>3, Room DEF Relocalize
<1>4. CASE NoInput
  BY <1>4, Room DEF NoInput
<1>5. CASE FirstPose
  BY <1>5, Room DEF FirstPose
<1>6. CASE TooNear
  BY <1>6, Room DEF TooNear
<1>7. CASE Integrate
  BY <1>7, Room DEF Integrate
<1>8. CASE Attempt
  BY <1>8, Room DEF Attempt
<1>9. CASE GlobalFails
  <2>1. thresh' \in Nat
    BY <1>9, Room DEF GlobalFails
  <2> QED
    BY <1>9, <2>1, Room DEF GlobalFails
<1>10. CASE GlobalSucceeds
  <2>1. curr \in Int
    BY NumbersAssumption
  <2>2. smoothed' \in Int /\ strayed' \in BOOLEAN
    BY <1>10, <2>1 DEF GlobalSucceeds
  <2> QED
    BY <1>10, <2>2, Room DEF GlobalSucceeds
<1>11. CASE StillTrying
  BY <1>11, Room DEF StillTrying
<1>12. CASE TimesOut
  BY <1>12, Room DEF TimesOut
<1>13. CASE Located
  BY <1>13, Room DEF Located
<1>14. CASE Track
  BY <1>14, Room DEF Track
<1>15. CASE MatchDue
  BY <1>15, Room DEF MatchDue
<1>16. CASE \E s \in {"Failed", "Normal", "LowAccuracy"} : Match(s)
  <2>1. PICK s \in {"Failed", "Normal", "LowAccuracy"} : Match(s)
    BY <1>16
  <2>2. smoothed' \in Int
    BY <2>1 DEF Match, KeepMapToOdom, AssignMapToOdom, Halfway, Predicted
  <2> QED
    BY <2>1, <2>2 DEF Match, KeepMapToOdom, AssignMapToOdom
<1>17. CASE \E s \in Scans, p \in 0..Road : Run(s, p)
  <2>1. PICK s \in Scans, p \in 0..Road : Run(s, p)
    BY <1>17
  <2>2. path' \in Nat
    BY <2>1, Room DEF Run
  <2> QED
    BY <2>1, <2>2 DEF Run
<1>18. CASE NewSession
  BY <1>18, Room DEF NewSession, LoadMap
<1>19. CASE UNCHANGED vars
  BY <1>19 DEF vars
<1> QED
  BY <1>1, <1>2, <1>3, <1>4, <1>5, <1>6, <1>7, <1>8, <1>9, <1>10, <1>11, <1>12, <1>13, <1>14, <1>15, <1>16, <1>17, <1>18, <1>19, Steps

\* Only the thread writes the status, and each place of it says what.
LEMMA PlaceStep ==
    ASSUME TypeOK, PlaceInv, [Next]_vars
    PROVE  PlaceInv'
<1> USE NumbersAssumption, IntervalAssumption, PeriodAssumption DEF PlaceInv, TypeOK, world, poses, integration, registration, tracking, result, EndOfLoop, ResetGlobalLocalizeFlags, InitSmoother, Input
<1>1. CASE Copy
  BY <1>1 DEF Copy
<1>2. CASE GivenUp
  BY <1>2 DEF GivenUp
<1>3. CASE Relocalize
  BY <1>3 DEF Relocalize
<1>4. CASE NoInput
  BY <1>4 DEF NoInput
<1>5. CASE FirstPose
  BY <1>5 DEF FirstPose
<1>6. CASE TooNear
  BY <1>6 DEF TooNear
<1>7. CASE Integrate
  BY <1>7 DEF Integrate
<1>8. CASE Attempt
  BY <1>8 DEF Attempt
<1>9. CASE GlobalFails
  BY <1>9 DEF GlobalFails
<1>10. CASE GlobalSucceeds
  BY <1>10 DEF GlobalSucceeds
<1>11. CASE StillTrying
  BY <1>11 DEF StillTrying
<1>12. CASE TimesOut
  BY <1>12 DEF TimesOut
<1>13. CASE Located
  BY <1>13 DEF Located
<1>14. CASE Track
  BY <1>14 DEF Track
<1>15. CASE MatchDue
  BY <1>15 DEF MatchDue
<1>16. CASE \E s \in {"Failed", "Normal", "LowAccuracy"} : Match(s)
  BY <1>16 DEF Match, KeepMapToOdom, AssignMapToOdom
<1>17. CASE \E s \in Scans, p \in 0..Road : Run(s, p)
  BY <1>17 DEF Run
<1>18. CASE NewSession
  BY <1>18 DEF NewSession
<1>19. CASE UNCHANGED vars
  BY <1>19 DEF vars
<1> QED
  BY <1>1, <1>2, <1>3, <1>4, <1>5, <1>6, <1>7, <1>8, <1>9, <1>10, <1>11, <1>12, <1>13, <1>14, <1>15, <1>16, <1>17, <1>18, <1>19, Steps

\* A failure adds to both counts, the end of the relocalization clears them.
LEMMA CountStep ==
    ASSUME TypeOK, PlaceInv, CountInv, [Next]_vars
    PROVE  CountInv'
<1> USE NumbersAssumption, IntervalAssumption, PeriodAssumption DEF PlaceInv, CountInv, TypeOK, world, poses, integration, registration, tracking, result, EndOfLoop, ResetGlobalLocalizeFlags, InitSmoother, Input
<1>1. CASE Copy
  BY <1>1 DEF Copy
<1>2. CASE GivenUp
  BY <1>2 DEF GivenUp
<1>3. CASE Relocalize
  BY <1>3 DEF Relocalize
<1>4. CASE NoInput
  BY <1>4 DEF NoInput
<1>5. CASE FirstPose
  BY <1>5 DEF FirstPose
<1>6. CASE TooNear
  BY <1>6 DEF TooNear
<1>7. CASE Integrate
  BY <1>7 DEF Integrate
<1>8. CASE Attempt
  BY <1>8 DEF Attempt
<1>9. CASE GlobalFails
  BY <1>9 DEF GlobalFails
<1>10. CASE GlobalSucceeds
  BY <1>10 DEF GlobalSucceeds
<1>11. CASE StillTrying
  BY <1>11 DEF StillTrying
<1>12. CASE TimesOut
  BY <1>12 DEF TimesOut
<1>13. CASE Located
  BY <1>13 DEF Located
<1>14. CASE Track
  BY <1>14 DEF Track
<1>15. CASE MatchDue
  BY <1>15 DEF MatchDue
<1>16. CASE \E s \in {"Failed", "Normal", "LowAccuracy"} : Match(s)
  BY <1>16 DEF Match, KeepMapToOdom, AssignMapToOdom
<1>17. CASE \E s \in Scans, p \in 0..Road : Run(s, p)
  BY <1>17 DEF Run
<1>18. CASE NewSession
  BY <1>18 DEF NewSession
<1>19. CASE UNCHANGED vars
  BY <1>19 DEF vars
<1> QED
  BY <1>1, <1>2, <1>3, <1>4, <1>5, <1>6, <1>7, <1>8, <1>9, <1>10, <1>11, <1>12, <1>13, <1>14, <1>15, <1>16, <1>17, <1>18, <1>19, Steps

\* The ways the steps below are about.
LEMMA Ways ==
    ASSUME TypeOK
    PROVE  /\ {Distance(last, curr), Distance(curr, pos), Distance(last, pos)} \subseteq Nat
           /\ Distance(curr, curr) = 0 /\ Distance(pos, pos) = 0
           /\ Distance(curr, last) = Distance(last, curr)
           /\ Distance(last, pos) <= Distance(last, curr) + Distance(curr, pos)
           /\ \A p \in 0..Road : /\ {Distance(pos, p), Distance(curr, p)} \subseteq Nat
                               /\ Distance(curr, p) <= Distance(curr, pos) + Distance(pos, p)
<1> USE NumbersAssumption
<1>1. {pos, curr, last} \subseteq Int /\ 0..Road \subseteq Int
  BY DEF TypeOK
<1> QED
  BY <1>1, DistanceFacts

\* The vehicle drives what it is away from where it was.
LEMMA WayStep ==
    ASSUME TypeOK, PlaceInv, CountInv, WayInv, [Next]_vars
    PROVE  WayInv'
<1> USE NumbersAssumption, IntervalAssumption, PeriodAssumption DEF PlaceInv, CountInv, WayInv, TypeOK, world, poses, integration, registration, tracking, result, EndOfLoop, ResetGlobalLocalizeFlags, InitSmoother, Input
<1>1. CASE Copy
  BY <1>1, Ways DEF Copy
<1>2. CASE GivenUp
  BY <1>2, Ways DEF GivenUp
<1>3. CASE Relocalize
  BY <1>3, Ways DEF Relocalize
<1>4. CASE NoInput
  BY <1>4, Ways DEF NoInput
<1>5. CASE FirstPose
  BY <1>5, Ways DEF FirstPose
<1>6. CASE TooNear
  BY <1>6, Ways DEF TooNear
<1>7. CASE Integrate
  BY <1>7, Ways DEF Integrate
<1>8. CASE Attempt
  BY <1>8, Ways DEF Attempt
<1>9. CASE GlobalFails
  BY <1>9, Ways DEF GlobalFails
<1>10. CASE GlobalSucceeds
  BY <1>10, Ways DEF GlobalSucceeds
<1>11. CASE StillTrying
  BY <1>11, Ways DEF StillTrying
<1>12. CASE TimesOut
  BY <1>12, Ways DEF TimesOut
<1>13. CASE Located
  BY <1>13, Ways DEF Located
<1>14. CASE Track
  BY <1>14, Ways DEF Track
<1>15. CASE MatchDue
  BY <1>15, Ways DEF MatchDue
<1>16. CASE \E s \in {"Failed", "Normal", "LowAccuracy"} : Match(s)
  BY <1>16, Ways DEF Match, KeepMapToOdom, AssignMapToOdom
<1>17. CASE \E s \in Scans, p \in 0..Road : Run(s, p)
  <2>1. PICK s \in Scans, p \in 0..Road : Run(s, p)
    BY <1>17
  <2>2. path = Enough \/ path + Distance(pos, p) > Enough => path' = Enough
    BY <2>1, Ways DEF Run, Driven, Enough
  <2>3. ~(path = Enough \/ path + Distance(pos, p) > Enough) => path' = path + Distance(pos, p)
    BY <2>1 DEF Run, Driven
  <2>4. pos' = p /\ UNCHANGED <<curr, last, pc, initPose, moved, thresh, tries>>
    BY <2>1 DEF Run
  <2> HIDE DEF Enough
  <2> QED
    BY <2>2, <2>3, <2>4, Ways
<1>18. CASE NewSession
  BY <1>18 DEF NewSession, Distance
<1>19. CASE UNCHANGED vars
  BY <1>19 DEF vars
<1> QED
  BY <1>1, <1>2, <1>3, <1>4, <1>5, <1>6, <1>7, <1>8, <1>9, <1>10, <1>11, <1>12, <1>13, <1>14, <1>15, <1>16, <1>17, <1>18, <1>19, Steps

\* A match is due when wait has come to Period, and begins it again.
LEMMA WaitStep ==
    ASSUME TypeOK, PlaceInv, WaitInv, [Next]_vars
    PROVE  WaitInv'
<1> USE NumbersAssumption, IntervalAssumption, PeriodAssumption DEF PlaceInv, WaitInv, TypeOK, world, poses, integration, registration, tracking, result, EndOfLoop, ResetGlobalLocalizeFlags, InitSmoother, Input
<1>1. CASE Copy
  BY <1>1 DEF Copy
<1>2. CASE GivenUp
  BY <1>2 DEF GivenUp
<1>3. CASE Relocalize
  BY <1>3 DEF Relocalize
<1>4. CASE NoInput
  BY <1>4 DEF NoInput
<1>5. CASE FirstPose
  BY <1>5 DEF FirstPose
<1>6. CASE TooNear
  BY <1>6 DEF TooNear
<1>7. CASE Integrate
  BY <1>7 DEF Integrate
<1>8. CASE Attempt
  BY <1>8 DEF Attempt
<1>9. CASE GlobalFails
  BY <1>9 DEF GlobalFails
<1>10. CASE GlobalSucceeds
  BY <1>10 DEF GlobalSucceeds
<1>11. CASE StillTrying
  BY <1>11 DEF StillTrying
<1>12. CASE TimesOut
  BY <1>12 DEF TimesOut
<1>13. CASE Located
  BY <1>13 DEF Located
<1>14. CASE Track
  BY <1>14 DEF Track
<1>15. CASE MatchDue
  BY <1>15 DEF MatchDue
<1>16. CASE \E s \in {"Failed", "Normal", "LowAccuracy"} : Match(s)
  BY <1>16 DEF Match, KeepMapToOdom, AssignMapToOdom
<1>17. CASE \E s \in Scans, p \in 0..Road : Run(s, p)
  BY <1>17 DEF Run
<1>18. CASE NewSession
  BY <1>18 DEF NewSession
<1>19. CASE UNCHANGED vars
  BY <1>19 DEF vars
<1> QED
  BY <1>1, <1>2, <1>3, <1>4, <1>5, <1>6, <1>7, <1>8, <1>9, <1>10, <1>11, <1>12, <1>13, <1>14, <1>15, <1>16, <1>17, <1>18, <1>19, Steps

\* A loop in which the vehicle stands keeps the place the odometry starts from.
LEMMA SmootherStep ==
    ASSUME TypeOK, PlaceInv, SmootherInv, [Next]_vars
    PROVE  SmootherInv'
<1> USE NumbersAssumption, IntervalAssumption, PeriodAssumption DEF PlaceInv, SmootherInv, TypeOK, world, poses, integration, registration, tracking, result, EndOfLoop, ResetGlobalLocalizeFlags, InitSmoother, Input
<1>1. CASE Copy
  BY <1>1 DEF Copy
<1>2. CASE GivenUp
  BY <1>2 DEF GivenUp
<1>3. CASE Relocalize
  BY <1>3 DEF Relocalize
<1>4. CASE NoInput
  BY <1>4 DEF NoInput
<1>5. CASE FirstPose
  BY <1>5 DEF FirstPose
<1>6. CASE TooNear
  BY <1>6 DEF TooNear
<1>7. CASE Integrate
  BY <1>7 DEF Integrate
<1>8. CASE Attempt
  BY <1>8 DEF Attempt
<1>9. CASE GlobalFails
  BY <1>9 DEF GlobalFails
<1>10. CASE GlobalSucceeds
  BY <1>10 DEF GlobalSucceeds
<1>11. CASE StillTrying
  BY <1>11 DEF StillTrying
<1>12. CASE TimesOut
  BY <1>12 DEF TimesOut
<1>13. CASE Located
  BY <1>13 DEF Located
<1>14. CASE Track
  BY <1>14 DEF Track
<1>15. CASE MatchDue
  BY <1>15 DEF MatchDue
<1>16. CASE \E s \in {"Failed", "Normal", "LowAccuracy"} : Match(s)
  <2>1. PICK s \in {"Failed", "Normal", "LowAccuracy"} : Match(s)
    BY <1>16
  <2>2. CASE s = "Failed"
    BY <2>1, <2>2 DEF Match
  <2>3. CASE s # "Failed" /\ ~strayed
    <3>1. Predicted = curr
      BY <2>1, <2>3 DEF Predicted, Match
    <3>2. Halfway(curr, curr) = curr
      BY DEF Halfway
    <3> QED
      BY <2>1, <2>3, <3>1, <3>2 DEF Match, AssignMapToOdom
  <2>4. CASE s # "Failed" /\ strayed
    BY <2>1, <2>4 DEF Match, AssignMapToOdom
  <2> QED
    BY <2>2, <2>3, <2>4
<1>17. CASE \E s \in Scans, p \in 0..Road : Run(s, p)
  BY <1>17 DEF Run
<1>18. CASE NewSession
  BY <1>18 DEF NewSession
<1>19. CASE UNCHANGED vars
  BY <1>19 DEF vars
<1> QED
  BY <1>1, <1>2, <1>3, <1>4, <1>5, <1>6, <1>7, <1>8, <1>9, <1>10, <1>11, <1>12, <1>13, <1>14, <1>15, <1>16, <1>17, <1>18, <1>19, Steps

\* It holds in a new session object.
LEMMA InitIInv == Init => IInv
<1> SUFFICES ASSUME Init PROVE IInv
  OBVIOUS
<1> USE NumbersAssumption, IntervalAssumption, PeriodAssumption DEF Init
<1>1. TypeOK
  <2>1. /\ 0 \in 0..Road /\ 0 \in 0..(Times + 1) /\ 0 \in 0..(Period + 1) /\ 0 \in 0..Period
        /\ 1 \in Nat /\ 0 \in Nat /\ 0 \in Int /\ Thresh \in Nat
    OBVIOUS
  <2>2. loaded \in BOOLEAN
    BY DEF LoadMap
  <2> QED
    BY <2>1, <2>2 DEF TypeOK, Scans, Statuses
<1>2. PlaceInv /\ CountInv /\ WaitInv /\ SmootherInv
  BY DEF PlaceInv, CountInv, WaitInv, SmootherInv
<1>3. WayInv
  BY DEF WayInv
<1> QED
  BY <1>1, <1>2, <1>3 DEF IInv

LEMMA StepIInv == IInv /\ [Next]_vars => IInv'
BY TypeStep, PlaceStep, CountStep, WayStep, WaitStep, SmootherStep DEF IInv

\* What the thread keeps at every step.
THEOREM ThreadInvariant == Spec => []IInv
BY InitIInv, StepIInv, PTL DEF Spec

-------------------------------------------------------------------------------
(* The properties.                                                               *)

\* Every variable keeps its type; the counts of failures stay in their bound, and
\* wait_time, which is static, gains one at most in each session.
THEOREM ThreadTypeCorrect == Spec => []TypeOK
<1>1. IInv => TypeOK
  BY DEF IInv
<1> QED
  BY <1>1, ThreadInvariant, PTL

\* Between two loops status and success flag agree.
THEOREM StatusIsTrue == Spec => []StatusTellsSuccess
<1>1. IInv => StatusTellsSuccess
  BY DEF IInv, PlaceInv, StatusTellsSuccess
<1> QED
  BY <1>1, ThreadInvariant, PTL

\* RelocalizeFailed comes after Times + 1 failures in a row: no other step writes it.
THEOREM FailedAfterTimes == Spec => FailedIsEarned
<1> USE NumbersAssumption
<1>1. IInv /\ [Next]_vars => [status' = "RelocalizeFailed" /\ status # "RelocalizeFailed" => tries = Times + 1]_vars
  <2> SUFFICES ASSUME IInv, [Next]_vars, status' = "RelocalizeFailed", status # "RelocalizeFailed"
               PROVE  tries = Times + 1
    OBVIOUS
  <2>1. TimesOut
    BY Steps DEF world, poses, EndOfLoop, Copy, GivenUp, Relocalize, NoInput, FirstPose, TooNear,
                 Integrate, Attempt, GlobalFails, GlobalSucceeds, StillTrying, Located, Track,
                 MatchDue, Match, Run, NewSession, vars
  <2> QED
    BY <2>1 DEF TimesOut, IInv, TypeOK, PlaceInv, CountInv
<1> QED
  BY <1>1, ThreadInvariant, PTL DEF Spec, FailedIsEarned

\* An attempt has the way it needs behind it.
THEOREM AttemptAfterWay == Spec => AttemptIsEarned
<1> USE NumbersAssumption
<1>1. IInv /\ [Next]_vars => [pc = "relocate" /\ pc' = "global" => path >= Thresh + tries]_vars
  <2> SUFFICES ASSUME IInv, [Next]_vars, pc = "relocate", pc' = "global"
               PROVE  path >= Thresh + tries
    OBVIOUS
  <2>1. Attempt
    BY Steps DEF Input, EndOfLoop, Copy, GivenUp, Relocalize, NoInput, FirstPose, TooNear,
                 Integrate, GlobalFails, GlobalSucceeds, StillTrying, TimesOut, Located, Track,
                 MatchDue, Match, Run, NewSession, vars
  <2>2. {Distance(last, curr), Distance(curr, pos)} \subseteq Nat
    BY DistanceFacts DEF IInv, TypeOK
  <2>3. path = Enough \/ moved <= path
    BY <2>1, <2>2 DEF Attempt, Input, IInv, TypeOK, WayInv
  <2>4. moved >= Thresh + tries
    BY <2>1 DEF Attempt, IInv, TypeOK, WayInv
  <2> QED
    BY <2>3, <2>4 DEF IInv, TypeOK, Enough
<1> QED
  BY <1>1, ThreadInvariant, PTL DEF Spec, AttemptIsEarned

\* A match comes Period loops after the one before.
THEOREM MatchInPeriod == Spec => MatchEveryPeriod
<1> USE NumbersAssumption, PeriodAssumption
<1>1. IInv /\ [Next]_vars =>
        [pc' = "match" /\ pc # "match" =>
           /\ since < Period
           /\ origin = "match" => since + 1 = Period]_vars
  <2> SUFFICES ASSUME IInv, [Next]_vars, pc' = "match", pc # "match"
               PROVE  since < Period /\ (origin = "match" => since + 1 = Period)
    OBVIOUS
  <2>1. MatchDue
    BY Steps DEF EndOfLoop, Copy, GivenUp, Relocalize, NoInput, FirstPose, TooNear, Integrate,
                 Attempt, GlobalFails, GlobalSucceeds, StillTrying, TimesOut, Located, Track,
                 Match, Run, NewSession, vars
  <2> QED
    BY <2>1 DEF MatchDue, IInv, TypeOK, WaitInv
<1> QED
  BY <1>1, ThreadInvariant, PTL DEF Spec, MatchEveryPeriod

\* The transform stays exact while the vehicle drives in loops with a match only.
THEOREM ExactWithoutStraying == Spec => ExactUnlessStrayed
<1>1. IInv /\ [Next]_vars =>
        [pc = "match" /\ pc' = "top" /\ status' # "Failed" /\ ~strayed => smoothed' = curr]_vars
  <2> SUFFICES ASSUME IInv, [Next]_vars, pc = "match", pc' = "top", status' # "Failed", ~strayed
               PROVE  smoothed' = curr
    OBVIOUS
  <2>1. PICK s \in {"Normal", "LowAccuracy"} : Match(s)
    BY Steps DEF Input, EndOfLoop, Copy, GivenUp, Relocalize, NoInput, FirstPose, TooNear,
                 Integrate, Attempt, GlobalFails, GlobalSucceeds, StillTrying, TimesOut, Located,
                 Track, MatchDue, Match, Run, NewSession, vars
  <2>2. Predicted = curr
    BY DEF Predicted, IInv, TypeOK, PlaceInv, SmootherInv
  <2>3. Halfway(curr, curr) = curr
    BY DEF Halfway, IInv, TypeOK
  <2> QED
    BY <2>1, <2>2, <2>3 DEF Match, AssignMapToOdom
<1> QED
  BY <1>1, ThreadInvariant, PTL DEF Spec, ExactUnlessStrayed

===============================================================================

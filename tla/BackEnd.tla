------------------------------- MODULE BackEnd -------------------------------
(* BackEnd: the keyframes of a mapping session.  The LIO thread appends a      *)
(* keyframe in several steps, the 1 Hz loop thread copies the poses and looks  *)
(* for loop edges, the control callback writes the map.  Each vector has a     *)
(* lock of its own, or none, so that the three see the vectors at different    *)
(* lengths.                                                                    *)
(*                                                                             *)
(* A vector is its length; keyframe i is entry i of every one of them, from 0. *)
(* A read beyond its end crashes the process or gives garbage; a failed        *)
(* assertion ends the behaviour.                                               *)

EXTENDS Naturals, FiniteSets

CONSTANTS
    Loaded,         \* keyframes of the map a second mapping starts from
    Skip,           \* loopSearchSkipKey
    MaxKeyFrames    \* bound: keyframes of a session

ASSUME NumbersAssumption == Skip \in Nat /\ MaxKeyFrames \in Nat
ASSUME LoadedAssumption == Loaded \in 1..MaxKeyFrames

VARIABLES
    odom, points, poses, clouds, scs,     \* OdomKeyPoses_, KeyPoint_, KeyPoses_,
                                          \* KeyFrameCloud_, the scan contexts
    index,          \* OdomKeyPoses_.back().index
    estimate,       \* isamCurrentEstimate_
    second,         \* working_mode_ is SEC_MAPPING
    ready,          \* loaded_key_clouds_ready_
    closed,         \* aLoopIsClosed_
    queue,          \* loopIndexQueue_
    edges,          \* all_loop_edges_: the loop edges of the graph
    paired,         \* loopIndexContainer_
    failed,         \* failed_loop_indexs_
    tried,          \* the pairs that were given to ICP
    lio,            \* where the LIO thread is in saveKeyFramesAndFactor
    loop,           \* where the loop thread is in performLoopClosure
    copied,         \* CopyKeyPoint_ and CopyKeyPoses_
    cand,           \* loopKeyCur and loopKeyPre
    save,           \* where the control callback is in saveMap
    room, upto,     \* the length of infos and KeyPosesSize
    inflight,       \* a run was under way when the save began
    torn,           \* the copy was taken between the two appends of a keyframe
    fault           \* the index out of range or assertion the thread ran into

vectors == <<odom, points, poses, clouds, scs, estimate>>
graph == <<closed, edges>>
found == <<queue, paired, failed, tried>>
loops == <<loop, copied, cand, torn>>
saving == <<save, room, upto, inflight>>
loading == <<second, ready, index>>
vars == <<vectors, graph, found, lio, loops, saving, loading, fault>>

Pairs == (0..MaxKeyFrames) \X (0..MaxKeyFrames)
Faults == {"odom", "index", "size", "detect", "cloud", "save"}
NoFault == fault = {}

TypeOK ==
    /\ {odom, points, poses, clouds, scs, estimate, index} \subseteq 0..MaxKeyFrames
    /\ {second, ready, closed, inflight, torn} \subseteq BOOLEAN
    /\ {queue, edges, paired, failed, tried} \subseteq SUBSET Pairs
    /\ lio \in {"idle", "run", "factor", "point", "pose", "transform", "cloud", "sc"}
    /\ loop \in {"idle", "copy", "detect", "near", "icp", "push"}
    /\ copied \in [points : 0..MaxKeyFrames, poses : 0..MaxKeyFrames]
    /\ cand \in Pairs
    /\ save \in {"running", "stopping", "size", "write", "done"}
    /\ room \in 0..MaxKeyFrames /\ upto \in 0..MaxKeyFrames
    /\ fault \subseteq Faults

Init ==
    /\ odom = 0 /\ points = 0 /\ poses = 0 /\ clouds = 0 /\ scs = 0 /\ estimate = 0 /\ index = 0
    /\ second \in BOOLEAN /\ ready = FALSE /\ closed = FALSE
    /\ queue = {} /\ edges = {} /\ paired = {} /\ failed = {} /\ tried = {}
    /\ lio = "idle" /\ loop = "idle" /\ save = "running"
    /\ copied = [points |-> 0, poses |-> 0] /\ cand = <<0, 0>>
    /\ room = 0 /\ upto = 0 /\ inflight = FALSE /\ torn = FALSE
    /\ fault = {}

-------------------------------------------------------------------------------
(* saveKeyFramesAndFactor and saveCurrentCloud, in the LIO thread.             *)

\* slam_dealt_timer has found the running status: a run of LidarSlam begins.
BeginRun ==
    /\ NoFault /\ lio = "idle" /\ save = "running"
    /\ lio' = "run"
    /\ UNCHANGED <<vectors, graph, found, loops, saving, loading, fault>>

\* The scan is no keyframe, or was not used.
NoKeyFrame ==
    /\ NoFault /\ lio = "run"
    /\ lio' = "idle"
    /\ UNCHANGED <<vectors, graph, found, loops, saving, loading, fault>>

\* A second mapping waits until the loaded keyframes are in.
KeyFrame ==
    /\ NoFault /\ lio = "run"
    /\ second => ready
    /\ points < MaxKeyFrames
    /\ odom' = odom + 1 /\ index' = points
    /\ lio' = "factor"
    /\ UNCHANGED <<points, poses, clouds, scs, estimate, graph, found, loops, saving, second, ready, fault>>

\* addOdomFactor: assert(OdomKeyPoses_.size() >= 2) unless this is the first.
OdomFault(o, p) == IF p > 0 /\ o < 2 THEN {"odom"} ELSE {}

\* addOdomFactor, and addLoopFactor takes the queue into the graph.
Factors ==
    /\ NoFault /\ lio = "factor"
    /\ fault' = OdomFault(odom, points)
    /\ edges' = edges \cup queue /\ queue' = {}
    /\ closed' = (closed \/ queue # {})
    /\ lio' = "point"
    /\ UNCHANGED <<vectors, paired, failed, tried, loops, saving, loading>>

\* isam_->update, and the first of the two appends under mtxPose_.
Point ==
    /\ NoFault /\ lio = "point"
    /\ estimate' = points + 1
    /\ points' = points + 1
    /\ lio' = "pose"
    /\ UNCHANGED <<odom, poses, clouds, scs, graph, found, loops, saving, loading, fault>>

Pose ==
    /\ NoFault /\ lio = "pose"
    /\ poses' = poses + 1
    /\ lio' = "transform"
    /\ UNCHANGED <<odom, points, clouds, scs, estimate, graph, found, loops, saving, loading, fault>>

\* Mutant: correctPoses does not take back aLoopIsClosed_.
Transform_StaysClosed ==
    /\ NoFault /\ lio = "transform"
    /\ fault' = (IF index # points - 1 THEN {"index"} ELSE {})
                \cup (IF closed /\ estimate # odom THEN {"size"} ELSE {})
    /\ lio' = "cloud"
    /\ UNCHANGED <<vectors, graph, found, loops, saving, loading>>

\* The two assertions; correctPoses rewrites the poses if a loop was closed.
Transform ==
    /\ NoFault /\ lio = "transform"
    /\ fault' = (IF index # points - 1 THEN {"index"} ELSE {})
                \cup (IF closed /\ estimate # odom THEN {"size"} ELSE {})
    /\ closed' = FALSE
    /\ lio' = "cloud"
    /\ UNCHANGED <<vectors, edges, found, loops, saving, loading>>

Cloud ==
    /\ NoFault /\ lio = "cloud"
    /\ clouds' = clouds + 1
    /\ lio' = "sc"
    /\ UNCHANGED <<odom, points, poses, scs, estimate, graph, found, loops, saving, loading, fault>>

ScanContext ==
    /\ NoFault /\ lio = "sc"
    /\ scs' = scs + 1
    /\ lio' = "idle"
    /\ UNCHANGED <<odom, points, poses, clouds, estimate, graph, found, loops, saving, loading, fault>>

-------------------------------------------------------------------------------
(* The loop thread.  The destructor joins it after the map is written.         *)

\* set_loaded_key_clouds, in a second mapping: an odometry factor per loaded
\* keyframe, while OdomKeyPoses_ is still empty.
SetLoadedKeyClouds ==
    /\ NoFault /\ loop = "idle" /\ second /\ ~ready
    /\ points' = Loaded /\ poses' = Loaded /\ clouds' = Loaded /\ scs' = Loaded
    /\ fault' = OdomFault(odom, Loaded - 1)
    /\ ready' = TRUE
    /\ UNCHANGED <<odom, estimate, graph, found, lio, loops, saving, second, index>>

\* performLoopClosure copies the poses under mtxPose_copy_, which no writer of
\* the poses takes: one vector after the other.
CopyPoints ==
    /\ NoFault /\ loop = "idle" /\ points > 0
    /\ second => ready
    /\ copied' = [copied EXCEPT !.points = points]
    /\ torn' = (lio = "pose")
    /\ loop' = "copy"
    /\ UNCHANGED <<vectors, graph, found, lio, cand, saving, loading, fault>>

CopyPoses ==
    /\ NoFault /\ loop = "copy"
    /\ copied' = [copied EXCEPT !.poses = poses]
    /\ loop' = "detect"
    /\ UNCHANGED <<vectors, graph, found, lio, cand, torn, saving, loading, fault>>

Current == copied.points - 1

\* detectLoopClosureDistance: the radius search finds the current keyframe itself
\* first, and KeyPoses_ is read at its index without the lock.
LooksAtCurrent == loop = "detect" /\ (\A p \in paired : p[1] # Current)
IndexFault == IF Current >= poses THEN {"detect"} ELSE {}

\* The current keyframe has its edge already, or no candidate is near.
NoCandidate ==
    /\ NoFault /\ loop = "detect"
    /\ fault' \in {{}, IF LooksAtCurrent THEN IndexFault ELSE {}}
    /\ loop' = "idle"
    /\ UNCHANGED <<vectors, graph, found, lio, copied, cand, torn, saving, loading>>

\* Mutant: the keyframes already paired are not looked up.
Candidate_Again(pre) ==
    /\ NoFault /\ loop = "detect"
    /\ Current - pre > Skip
    /\ fault' \in {{}, IndexFault}
    /\ cand' = <<Current, pre>>
    /\ loop' = IF cand' \in failed THEN "idle" ELSE "near"
    /\ UNCHANGED <<vectors, graph, found, lio, copied, torn, saving, loading>>

\* Mutant: checkPreviousLoopFailure is not asked.
Candidate_Unchecked(pre) ==
    /\ NoFault /\ LooksAtCurrent
    /\ Current - pre > Skip
    /\ fault' \in {{}, IndexFault}
    /\ cand' = <<Current, pre>>
    /\ loop' = "near"
    /\ UNCHANGED <<vectors, graph, found, lio, copied, torn, saving, loading>>

\* A pair that has failed before is dropped: checkPreviousLoopFailure.
Candidate(pre) ==
    /\ NoFault /\ LooksAtCurrent
    /\ Current - pre > Skip
    /\ fault' \in {{}, IndexFault}
    /\ cand' = <<Current, pre>>
    /\ loop' = IF cand' \in failed THEN "idle" ELSE "near"
    /\ UNCHANGED <<vectors, graph, found, lio, copied, torn, saving, loading>>

\* Mutant: the cloud of the current keyframe is not looked for in the vectors.
NearKeyFrames_Unchecked ==
    /\ NoFault /\ loop = "near"
    /\ loop' = "icp"
    /\ UNCHANGED <<vectors, graph, found, lio, copied, cand, torn, saving, loading, fault>>

\* loopFindNearKeyframes: a keyframe without its cloud gives an empty cloud.
NearKeyFrames ==
    /\ NoFault /\ loop = "near"
    /\ loop' = IF cand[1] < copied.poses /\ cand[1] < clouds THEN "icp" ELSE "idle"
    /\ UNCHANGED <<vectors, graph, found, lio, copied, cand, torn, saving, loading, fault>>

\* ICP has read the cloud of the current keyframe and ends, well or not.
Icp(good) ==
    /\ NoFault /\ loop = "icp"
    /\ fault' = IF cand[1] < clouds THEN {} ELSE {"cloud"}
    /\ tried' = tried \cup {cand}
    /\ failed' = IF good THEN failed ELSE failed \cup {cand}
    /\ loop' = IF good THEN "push" ELSE "idle"
    /\ UNCHANGED <<vectors, graph, queue, paired, lio, copied, cand, torn, saving, loading>>

Push ==
    /\ NoFault /\ loop = "push"
    /\ queue' = queue \cup {cand} /\ paired' = paired \cup {cand}
    /\ loop' = "idle"
    /\ UNCHANGED <<vectors, graph, failed, tried, lio, copied, cand, torn, saving, loading, fault>>

-------------------------------------------------------------------------------
(* saveMap, in the control callback, with the whole map asked for.             *)

\* running_module_status_ is STOPPING: no run of the LIO thread begins any more,
\* but the one under way goes on.  Without a keyframe saveMap gives up.
Stop ==
    /\ NoFault /\ save = "running"
    /\ inflight' = (lio # "idle")
    /\ save' = "stopping"
    /\ UNCHANGED <<vectors, graph, found, lio, loops, room, upto, loading, fault>>

AllocateInfos ==
    /\ NoFault /\ save = "stopping"
    /\ room' = poses
    /\ save' = IF poses = 0 THEN "done" ELSE "size"
    /\ UNCHANGED <<vectors, graph, found, lio, loops, upto, inflight, loading, fault>>

\* Mutant: the last index is taken for the size.
TakeSize_Last ==
    /\ NoFault /\ save = "size"
    /\ upto' = poses - 1
    /\ save' = "write"
    /\ UNCHANGED <<vectors, graph, found, lio, loops, room, inflight, loading, fault>>

TakeSize ==
    /\ NoFault /\ save = "size"
    /\ upto' = poses
    /\ save' = "write"
    /\ UNCHANGED <<vectors, graph, found, lio, loops, room, inflight, loading, fault>>

\* The loop over the keyframes holds mtxCloud_ and mtxPose_, not the scan contexts.
Write ==
    /\ NoFault /\ save = "write" /\ lio # "pose"
    /\ fault' \in {{}, IF upto <= room /\ upto <= clouds /\ upto <= scs THEN {} ELSE {"save"}}
    /\ save' = "done"
    /\ UNCHANGED <<vectors, graph, found, lio, loops, room, upto, inflight, loading>>

-------------------------------------------------------------------------------

Lio == BeginRun \/ NoKeyFrame \/ KeyFrame \/ Factors \/ Point \/ Pose \/ Transform \/ Cloud \/ ScanContext

LoopThread ==
    \/ SetLoadedKeyClouds \/ CopyPoints \/ CopyPoses \/ NoCandidate
    \/ (\E pre \in 0..MaxKeyFrames : Candidate(pre))
    \/ NearKeyFrames \/ (\E good \in BOOLEAN : Icp(good)) \/ Push

SaveMap == Stop \/ AllocateInfos \/ TakeSize \/ Write

Next == Lio \/ LoopThread \/ SaveMap

Spec == Init /\ [][Next]_vars

-------------------------------------------------------------------------------
(* Properties.                                                                 *)

\* Between two keyframes every vector has the same length, the poses are those of
\* the last optimisation, and no loop edge is half taken in.  A second mapping has no
\* odometry poses of the keyframes it has loaded.
KeyFramesAligned ==
    lio \in {"idle", "run"} /\ NoFault =>
        /\ poses = points /\ clouds = points /\ scs = points
        /\ ~second => odom = points /\ estimate = points
        /\ ~closed

\* A loop edge of the graph joins two different keyframes that are variables of it
\* already, and no keyframe closes two loops.
EdgesJoinKeyFrames ==
    /\ \A e \in edges \cup queue : e[2] < e[1] /\ e[1] < points
    /\ \A e, f \in edges \cup queue : e[1] = f[1] => e = f

\* "has been loop matched failed, so no more match again": ICP is run once for a
\* pair of keyframes, and an edge of the graph is none of the failures.
MatchedOnce ==
    /\ [][loop = "icp" /\ loop' # "icp" => cand \notin tried]_vars
    /\ [](failed \cap (edges \cup queue) = {})

\* No index out of range, but in two windows: the loop thread has copied between
\* the two appends of a keyframe, or the map was written over a run under way.
\* A second mapping has a fault of its own: addOdomFactor asserts two odometry poses,
\* but runs for every loaded keyframe while there is none; from a map of two
\* keyframes on no second mapping gets past it.
FaultsNeedOverlap ==
    /\ "detect" \in fault => torn
    /\ "save" \in fault => inflight
    /\ "odom" \in fault => second /\ odom < 2
    /\ second /\ ready /\ Loaded > 1 => fault = {"odom"}
    /\ fault \subseteq {"detect", "save", "odom"}

\* The map that is written has every keyframe, with its cloud and its context,
\* unless a run was under way when the save began.
SavedMapIsWhole ==
    save = "done" /\ room > 0 /\ ~inflight /\ NoFault => upto = points /\ clouds = points /\ scs = points

==============================================================================

# A verification project for work-SLAM

work-SLAM is a lidar-inertial SLAM module for a mowing robot: a ROS 2 node that
maps a garden, maps it a second time on top of a stored map, or localizes in a
stored map. The arithmetic (iterated Kalman filter, ICP, GTSAM) is not what this
project is about. It is about what surrounds the arithmetic: one object that is
made and deleted by commands while five threads call into it, buffers that
callbacks fill while a thread cuts windows out of them, a search tree that a thread
rebuilds under its users, a loop with time-outs and retries, vectors that three
threads read at different lengths; and about the discrete algorithms inside: the
k-d tree, the local map, the bookkeeping of one scan, the search for a place.

All paths below are relative to `src/src/` of the repository.

## 1. The system

| Part | Source | State | Operations | Talks to |
|---|---|---|---|---|
| Command callback | `node/module_ctrl_callback.cpp` | `running_module_status_`, `slam_`, node statuses, `map_saved_` | eight commands, `make_slam_obj`, `release_slam_obj` | makes and deletes the session object; everybody reads its status |
| Status reporting | `node/localization_module.cpp` | `localization_status_`, `mapping_status_`, node statuses | `pub_module_status_timer`, `check_fill_health_msg`, `fill_module_l_status`, `fill_module_m_status` | reads the session object every 100 ms; its results guard commands |
| LIO thread (front end) | `node/localization_module.cpp`, `lidar_slam/lidar_slam.cpp`, `IMU_Processing.cpp`, `esekfom.hpp` | filter state, `localization_base_`, `laser_updated_`, `slam_run_status_` | `slam_dealt_timer`, `LidarSlam::run`, `UndistortPcl`, the iterated update, `lasermap_fov_segment`, `map_incremental` | every 5 ms: buffers, filter, tree, back end; leaves a base pose for the IMU callback |
| Sensor buffers | `lidar_slam/lidar_slam.cpp` | `lidar_buffer_`, `time_buffer_`, `imu_buffer_`, `wheel_odom_buffer_`, last stamps | `lidar_pcl_cbk`, `imu_cbk`, `wheel_odom_cbk`, `sync_packages`, `upsampling_current_pose` | callbacks fill, the LIO thread empties; the IMU callback carries the base pose forward |
| ikd-Tree | `lidar_slam/ikd_Tree.cpp` | nodes with flags and sizes, `Rebuild_Ptr`, `Rebuild_Logger`, four mutexes and a search counter | build, insertion with downsampling, box deletion, nearest and range search, `multi_thread_rebuild` | LIO thread and its OpenMP readers against the rebuild thread |
| Localization thread | `lidar_slam/lidar_slam.cpp`, `localization.cpp` | `local_thrd_status_`, `globalLocalizationSuccess_`, counters, integrated cloud | `localizationThread` | reads scan and pose of the LIO thread; its status reaches the client |
| Second mapping | `lidar_slam/lidar_slam.cpp`, `cloud_map.cpp`, `global_localization.cpp`, `scan_context/` | `CloudMap`, `secmap_relocal_thrd_status_`, copies with ready flags | `load_map`, `global_localization_for_sec_mapping_thread`, `sec_mapping_loopClosureThread`, scan-context search | lets the back end begin |
| Back end | `lidar_slam/backend.cpp` | keyframe vectors, graph, loop queue and table of failures | `saveKeyFramesAndFactor`, `saveCurrentCloud`, `set_loaded_key_clouds`, `performLoopClosure`, `saveMap` | LIO thread, loop thread and command callback at once |
| Drivers | `lidar/` | the arrays of the feature extraction (Airy) | `msg2pcl_clip` of five sensors, `sampling_cloud`, `extract_by_ring_feature` | the lidar callback sends a message through them before it calls `lidar_pcl_cbk` |
| Parameters | `node/param_manager.hpp` | files | read once | |
| Fusion node, bbs3d, kiss_matcher, small_gicp, nanoflann | `fusion_node/`, `bbs3d/`, ... | | | not built, or third-party |

### What is hard in it

* **`slam_` is a bare `unique_ptr`.** The LIO thread, the health thread and the
  sensor callbacks test `running_module_status_` and then dereference it several
  times. The command callback deletes the object. Only the order of status and
  deletion, and sleeps of 0.5 to 1.5 s, keep the two apart.
* **Commands are guarded by statuses other threads compute**: saving needs
  `mapping_status_ == Standby`, a restart of a localization needs
  `localization_status_` Failed. Both may be stale.
* **`sync_packages` takes and drops two locks six times.** Between any two of
  these sections a callback may push, or clear a buffer because a clock jumped.
* **The IMU callback and `run` share a base pose and a flag.** The callback pushes its
  sample, looks at the flag, copies what is left of the buffer and clears the flag, in
  four sections; `run` pops the buffer long before it leaves the base, and
  raises the flag after it. An update can be cleared unseen.
* **The ikd-Tree is rebuilt while it is used.** A subtree is copied, built anew
  without a lock and swapped in, after the operations logged meanwhile were
  repeated on it; the flag that says "log" and the pointer that says "where" are
  cleared in different sections.
* **A map is read while it is loading.** `load_map` fills vectors without a lock while
  the session's threads already copy from them, and a copy, once taken, is kept.
* **The localization loop has many ways around**: branches that `continue` without a sleep, a counter
  that is a time-out in attempts rather than seconds, a counter that is `static` and
  outlives the session.
* **The back end's vectors have a lock each**, the copy for loop detection is
  taken under a lock that no writer takes, and the map is written while the last
  run of the LIO thread may still be under way.

`PROJECT.json` lists every such place at its line, with the properties that would
notice it going wrong.

## 2. The modules

| Module | Models | Variables and actions against the code |
|---|---|---|
| `SessionContract` | what the module promises: the life of a session as its status shows it | abstract specification, no threads, no pointer |
| `ModuleCtrl` | commands, `make`/`release_slam_obj`, LIO thread, sensor callbacks, health thread | `ctl` is the program counter of the command callback; `pc[r]` of each reader; `slam`, `doomed`, `alive` number the objects on the heap; `how` remembers why the last object was taken away, `fault` that a null or dangling pointer was followed; until `monitor` the constructor is still at work (`boot`, `ready`) |
| `ModuleCtrl_proofs` | type correctness and six theorems about `ModuleCtrl`, and that it implements `SessionContract` | |
| `SensorSync`, `MCSensorSync` | the buffers and `sync_packages` | one step per critical section; a sample is its arrival number and its stamp |
| `FrontEnd` | `LidarSlam::run` with every early return, against `imu_cbk` with its pose upsampling | one step per critical section of the callback, one action per stage and return of `run`; a pose is the time it stands for, the update it started from, and the samples it was carried forward with |
| `ImuProcess` | `UndistortPcl`: which stretch of time goes into `predict`, which wheel datum corrects the filter, which pair of poses moves which point | `at` is the loop it is in; `head`, `front`, `kp`, `pcl` are its iterators; one action per way through the bodies of the two loops, with what `predict` was called for, what was used and what was moved kept in `segments`, `used` and `deskewed` |
| `IteratedUpdate` | the loop of `update_iterated_dyn_share_modified`: when neighbours are searched, when state and covariance are written, when it ends | `update` is the loop as far as it has come, with the passes that searched, moved the state, wrote the covariance or found nothing; one action per outcome of a pass |
| `Space` | points and boxes (`BoxPointType`) | operators on tuples of coordinates |
| `LocalMap` | `lasermap_fov_segment`: the box of the map, and what is cut off behind it | `localMap` is the lidar's place, the box, the box before and the slabs removed; one action per scan |
| `MapPoints` | `map_incremental`: which points of a scan go into the tree | operators on trees |
| `IkdTree` | the tree as a value: building, insertion with and without downsampling, box deletion, push-down, rebuilding, nearest and range search | recursive operators on records; the heap of the search is a bounded sequence |
| `IkdRebuild` | the same operations against `multi_thread_rebuild`: locks, log, search counter, swap | `mpc`, `rpc` are the places of the two threads; the tree is two bags of points, the subtree that may be rebuilt and the rest |
| `SecMapping` | `load_map`, the relocalization of a second mapping, the loop thread that hands the map to the back end, the gate of the LIO thread | `load`, `reloc`, `loop`, `lio` are the places of four threads; a vector is its length, a cloud none, part or whole |
| `SecMapping_proofs` | type correctness and two more theorems about `SecMapping` | |
| `ScanContext` | the scan-context descriptor, its keys, the alignment, the search through the map, and the pose ICP starts from | operators on descriptors |
| `LidarPreproc` | what the lidar callback makes of a message in method 0: a sample; and the callback as the one or the other method | `col`, `row` are the loops of `msg2pcl_clip`; one action per point, and one for `sampling_cloud` |
| `RingFeatures` | method 3 of the Airy, from scan to scan: corners and surface | `picked`, `label`, `curv`, `smooth`, `pointCol` are the arrays that outlive a scan, `smooth` the list that is sorted part by part; `ring`, `part`, `entry` are the loops of `extract_feature_points`; one action per way through them |
| `LocalizationThread` | `localizationThread` of successive sessions | one action per branch of the loop; the vehicle drives on a line; what registration finds is a choice |
| `LocalizationThread_proofs` | type correctness and five properties of `LocalizationThread` | |
| `BackEnd` | keyframes, factors, loop thread, loading, saving | a vector is its length; keyframe *i* is entry *i* of each |
| `BackEnd_proofs` | type correctness and five properties of `BackEnd` | |
| `SensorSync_proofs` | type correctness and three properties of `SensorSync`; and of what the lidar callback does before it fills the buffer, `LidarPreproc` with `RingFeatures` | |
| `FrontEnd_proofs` | type correctness and three properties of `FrontEnd`; and of what `run` calls, the loops of `ImuProcess` and `IteratedUpdate` and the box of `LocalMap` | |
| `IkdRebuild_proofs` | type correctness and two properties of `IkdRebuild` | |
| `Prefixes` | lemmas about least and greatest numbers and parts of a sequence, for the modules that cut prefixes off a buffer | |
| `MCAlgorithms` | every small input of `IkdTree`, `LocalMap`, `MapPoints`, `IteratedUpdate`, `ImuProcess`, `ScanContext`, `LidarPreproc` and `RingFeatures` | one state is one piece of work: its algorithm, its input, what it has come to; the loop of an update, a drive of the lidar, a measure, a message and a pair of scans are behaviours of their modules |

How they meet:

* `ModuleCtrl`, `FrontEnd`, `LocalizationThread`, `SecMapping` and `BackEnd` meet in the
  session object. `ModuleCtrl!WorkerReport` is what `LocalizationThread` does seen
  from outside (the status goes Inactive, Relocalizing, Normal or Failed, and a failed
  match back to Relocalizing); `ModuleCtrl!RunDone` is one pass of `FrontEnd!Run`, and its
  results are the values `FrontEnd` leaves in `slam_run_status_`;
  `ModuleCtrl!Save` is `BackEnd!SaveMap`.
* `FrontEnd!Sync` is what `SensorSync` does in detail: it takes a scan and the samples up to
  its end. What `run` then does with the measure is `ImuProcess`, then `IteratedUpdate`
  with the searches of `IkdTree`, then `LocalMap` and `MapPoints`: what the one cuts off `IkdTree`
  deletes, and what the other chooses it inserts.
* `IkdTree` says what an operation makes of the tree when nobody else is there;
  `IkdRebuild` says that the rebuild thread does not change that, but for named cases.
* `SecMapping!Match` is the search of `ScanContext` and an ICP that accepts or not;
  its `AppendPoses` is the length side of what `BackEnd` does for loaded keyframes.

### Abstractions to know

* *ModuleCtrl.* Every place where a reader dereferences `slam_` after a check is a
  step of its own as far as another thread could tell the places apart: the first
  use in `check_fill_health_msg`, in `fill_module_l_status`, in
  `fill_module_m_status`, and the pose read before the publication. Several
  dereferences of one of these functions are one step. LowAccuracy is Normal and
  RelocalizeFailed is Failed: every guard treats the two alike. The several kinds
  of Delay are one. A command that is refused without changing anything
  stutters. The two sleeps of a stop (the command's own and that of
  `release_slam_obj`) are one `drain`. The status stores that a stop command
  repeats after `release_slam_obj` has already made them are dropped. A map
  directory that cannot be made ends the process (`exit`) and is left out.
  The branch of `start_localization` for a map that does not load is never taken:
  `LidarSlam::load_map` returns true in that mode, and the localization thread finds
  out later that there is no map (`LocalizationThread!loaded`).
  The session of the configuration is started by the constructor, when the LIO and the
  health thread run already, the executor does not, and `monitor_` is null: `Boot` goes the way of
  a start command, but returns to `ready` and not to the executor.
* *Timely.* With `Timely = TRUE` the sleep before a release ends only after the
  readers that had passed the status check when it began have left the object.
  This is the code's own bet (0.5 s against a 5 to 100 ms cycle), made explicit.
  It says nothing of readers that pass the check during the sleep.
* *SensorSync.* Time is counted in IMU ticks; a scan lasts `Scan`; the thresholds that
  clear a buffer after a loss of data are one number, `Gap`. Stamps may repeat, go back
  and jump.
* *FrontEnd.* The filter is how far in time it has come; whether a registration succeeds,
  a scan is occluded or a velocity is abnormal is a choice, and so is when a localization is found
  and lost (`GlobalSuccess`, `GlobalLost`). `popped` remembers that
  `run` has taken samples and not yet left the base for them: the two properties about
  samples except that time, which is long. `skipped` holds the samples that came while the vehicle was not
  on the map, as far as no upsampling has followed.
* *ImuProcess, IteratedUpdate.* Times are ticks, poses are left out. A measure is what
  `sync_packages` can hand over (`IsMeasure`): samples behind the begin of the scan and up to its end, in order; where the scan
  before has ended is anywhere, and wheel data may be of any time. A pass of the update is
  told by whether it found a plane for any point and whether its correction was
  below the limit.
* *IkdTree, LocalMap.* Two coordinates instead of three, integers instead of floats, squared
  distances. `LocalMap` scales its lengths so that the fractions of the code come out whole. It begins with
  the scan that makes the box, and counts from that place. `StrideAssumption` says that the lidar gets
  no farther between two scans than the edge (150 m) and than the box moves: `set_cube_len` and
  `set_det_range` assign the parameter to itself (`include/lidar_slam/ikd_Tree.h:263`), so that 1000 and
  100 always hold; 400 and 40, as configured, would meet the assumption as well. `IteratedUpdate` takes
  a limit of one pass or more: without any, the loop has a single pass and does not search twice.
* *IkdRebuild.* Of the tree only what a rebuild can move is kept: one inner subtree
  and the rest, or the whole. Whether a subtree is out of balance is a choice. Nodes
  of the old tree that a search still holds are `old` until they are deleted, then `freed`.
  An operation is one call on the subtree or, for a deletion that is pushed down first, two.
* *SecMapping.* What a missing or cut file does is taken from `CloudMap`; the faults that
  follow in `addOdomFactor` are `BackEnd`'s (see the findings), so that the map is handed
  over here as in a build without assertions.
* *ScanContext.* Four sectors, so that a turn by one is exact, and one height for all
  points, so that a column is the set of its rings. Cosines are in thousandths. Points
  stay off the borders of sectors. The nearest ring keys are taken in the order
  of their distance; which of equally near ones comes first is nanoflann's affair. `SearchRadius` is one sector of four, where the code
  tries 3 to either side of 60.
* *LidarPreproc.* A point is what the tests see of it: good, out of range, noise, not a number; in
  method 3 its range and its column. `Reach`, `RingParts`, `MostPicked` and `ColumnJump` stand for the
  code's 5, 6, 20 and 10, ranges are whole numbers. The surface is the set of the points that are
  given to the voxel grid, which is not there itself. What `new` leaves in the marks, labels and curvatures is any choice
  (`FeaturesInit`); the run chooses where a property can see it: the label of the entry in front of the first one that
  is filled, and the curvature of every point that is not (that such a point is marked has the effect of a low curvature).
  When the loops around a corner leave the arrays, `outside` says so; what they read and mark there is
  left out. How entries of equal curvature come to lie in a sort is a choice.
* *LocalizationThread.* The vehicle is at a place of a line and drives at most one
  place per run. What the registrations test is a choice, the verdict is theirs; odometry and
  accepted matches are exact, and the smoother's gain is at least one half, which is
  what its weights leave it. A map may have each of its files missing or broken. The
  destructor joins the thread, so a new session begins at the top of the loop.
* *BackEnd.* The optimiser gives one estimate per keyframe. The radius search
  gives any keyframe (or none). An index beyond a vector's end and a failed
  assertion end the behaviour, with the place in `fault`; as the index read there
  is undefined behaviour, a step that meets one of them in the loop thread or in
  the save may also get away with it. A second mapping is followed as far as its
  first fault, which comes with its second loaded keyframe (see §4).

## 3. The runs

Twelve runs. "Distinct" is the number of distinct states TLC finds.

| Run | Distinct | Question |
|---|---|---|
| `safety` | 1 666 982 | `BootMeetsSession` (what can go wrong while the configured session starts), `QuiescentConsistent`, `OrderlyRelease`, `NodeFollowsSession`, and `KeepsContract` (refinement of `SessionContract`) over two session objects, every command, the LIO thread, the health thread and one callback |
| `liveness` | 308 803 | `CommandCompletes`, `KeepsLiveContract` (each start and stop gets to its end), `LateIsFinal` (a session reported late once is never savable again), with `check_delay` on |
| `refused_start` | violated | `RunningSessionKept`: a refused command changes nothing |
| `stale_standby` | violated | `SaveNeedsScan`: no save of a session that has not processed a scan |
| `sync` | 791 630 | `ScansInOrder`; `MeasureIsWhole` (a measure holds every sample in its window and none beside it, whatever the callbacks do between the sections); `EmptyBackNeedsRollback` (why the wheel buffer's end may be read); `FrameIsTaken` (a scan with its samples is taken in the end) |
| `frontend` | 2 148 620 | `OnlyLateIsMissed` (the published pose starts from the newest update but for those left between the callback's upsampling and its clearing of the flag), `SamplesSinceBase` (each later sample is in it, but those that came while a localization was lost), `PoseIsCurrent` (and it has come to the time of the sample) |
| `algorithms` | 393 967 | `TreeIsExact` (content, sizes and searches against a bag of points), `UpdateEnds`, `MapFollows` (the box keeps the lidar inside and cuts only what leaves it), `MeasureIsTaken` (no moment or wheel datum is taken twice, and which are left out; each point but the first is moved once), `GuessFits` (the initial pose fits the match), `PreprocFits` (the sample keeps its order, its stamps and its size; corners lie apart, the rest is surface, and the arrays are left around one point only) |
| `ikd_rebuild` | 342 385 | `ContentKept`, `CountedSearchIsSafe`, `OperationsEnd` under the rebuild thread |
| `ikd_late` | violated | `LogIsEmptyAtStart`: the check at the beginning of a rebuild |
| `second` | 13 278 | `MapUnderOwnKeyFrames`: the back end holds nothing, or the whole map under its own keyframes; `Decides`: the relocalization comes to an end |
| `localize` | 355 724 | `StatusTellsSuccess`, `FailedIsEarned`, `AttemptIsEarned`, `MatchEveryPeriod`, `ExactUnlessStrayed` (the smoother, while the vehicle stands between matches), `RelocalizationEnds` |
| `backend` | 359 515 | alignment of the vectors, edges, faults (those of a second mapping included), saved map, one ICP per pair |

### Bounds

* *safety*: **two objects** are enough for everything that needs an old and a new
  session at once: a stale status, a restart, the replacement of a failed
  session, a reader inside the first while the second is made. One sensor
  callback: the three run the same code around their call, share nothing else
  in this model, and do not look at each other. The outcomes of a run are all but
  `Bad`, which to these properties is one more way not to be Standby; `refused_start`
  has all four. The theorems below need none of these bounds.
* *liveness*: two objects, no callback, outcomes `fresh` and `Normal`: the command
  callback waits for nobody but the readers it drains.
* *sync*: three scans with a buffer of two, so that the limit, a reset and a pop
  all meet; five IMU samples at two rates, with a rollback and a gap that clears the
  buffer; two wheel data on and beside the boundary of scans. Three scans in five samples
  let two measures be completed one after the other.
* *frontend*: six samples one, two or four ticks apart (a step of four is a loss of data) or
  going back by one, six scans of two ticks, back to back: the first
  scan is spent on the start of the filter, the second builds the tree, so that
  four updates remain, enough for two of them to fall into one window of the callback and
  for another one to come after it. Mapping and
  localization, which differ in when the callback upsamples: a localization may be found and lost at any moment.
* *algorithms*: trees of up to three points of a grid of three by two and three calls on them, voxels
  of two; five moves of the lidar, long enough to shift the box on either axis and back; four
  iterations; measures of up to five ticks with up to three samples, two wheel data and three points, and steps of two at most, so that the clip of
  0.1 s is met; worlds of two or three of twelve places seen from two keyframes, four
  places and four headings, with five search translations, and with a search of one sector about the fast
  alignment, which is sometimes not the best; messages of three columns and two
  rings for each sensor, with every kind of point, of which two are asked for; a scan of an edge, and
  after it every scan of one ring of nine points with two ranges and a column missing in the middle or not, or of two rings with an
  edge each, of which the first has none, three or nine points, so that parts are left out: enough for a part with two corners, for corners that only a missing column keeps apart, and for
  a corner that comes from the entry which is never filled.
* *ikd_rebuild*: four points, two of them in the subtree, boxes of three, one copy, three
  operations: one before, one logged during and one after a rebuild; one reader beside
  the LIO thread. `ikd_late` needs four operations, but fewer points and no reader.
* *second*: maps of up to two keyframes with every file whole, cut or missing; one
  retry; two keyframes of the session. The theorems need none of these bounds.
* *localize*: one retry before the time-out, a period of two, two sessions, so
  that the static counter is carried over; three places with an interval of two,
  so that the vehicle is near, far, and comes back.
* *backend*: four keyframes, of which two are loaded in a second mapping; `Skip = 0`,
  so that every older keyframe is a candidate. Two edges, a failure and the save
  fit into one behaviour.

Deadlock is checked in `safety`, where every behaviour can go on (a crashed process
stutters by an action of its own), and in `sync` and `localize`, which go on for ever. The
bounded counters of the other runs let a behaviour end: `liveness` when the last
session is over and nobody finds an object any more, `backend` when the map is
written or a fault has ended the process, `frontend` when no sample or scan is left,
`ikd_rebuild` and `ikd_late` after the last operation, `second` when the relocalization has
given up or the last keyframe is there, `algorithms` when a piece of work is done.

### Fairness

* `ModuleCtrl`: weak fairness for the steps of the command callback once it has
  begun (`Proceed`), of the LIO thread, the health thread and callbacks in progress:
  threads of one process that the operating system schedules and that wait for
  nothing but time. Commands and messages are not fair: nobody has to send one.
* `SensorSync`: weak fairness of `sync_packages`, which the LIO thread calls every
  5 ms. None for the sensors.
* `SecMapping`: weak fairness of the load, of the relocalization and loop threads, which
  wake by a timer, and of the next scan, which the LIO timer brings. None for keyframes.
* `IkdRebuild`: weak fairness of the steps that wait for nothing; strong fairness of those that
  acquire a mutex or wait for a counter, and of readers: a mutex that is free
  again and again is got. The rebuild thread itself polls with a sleep, so
  that the others do find the mutex free.
* `LocalizationThread`: weak fairness of the thread. Strong fairness of `CopyFar`,
  the copy of a pose away from the last one: the loop polls the pose without
  a sleep while the vehicle is near (`continue` before the sleep), so that it does
  not for ever miss a vehicle that is far from its last pose infinitely often.
  `RelocalizationEnds` assumes in its statement that the scans end up good, that there
  is a map, and that the vehicle keeps driving: an attempt is only made, and counted
  for the time-out, when it does.

## 4. What the runs found

1. **A refused command kills the running session** (`refused_start`).
   `start_second_mapping` refuses with "skip, already running mapping now"; the
   callback answers every `false` of it with `release_slam_obj`
   (`node/module_ctrl_callback.cpp:63`). The status stays a running one during the
   release: readers get past their check.
2. **A save is accepted of a session without a scan** (`stale_standby`). Saving needs
   `mapping_status_ == Standby`, which a session gets with its first scan ("filter not processed first
   laser yet, mapping_status == Inactive", `node/localization_module.cpp:662`). Nothing resets the
   status at the end of a session, and the timer that fills it returns early while none runs (`:456`, `:462`): until its
   next turn, up to 100 ms after the start, the Standby of the session before stands. `saveMap` then finds
   no keyframe, and the command ends the session and reports the map as saved
   (`node/module_ctrl_callback.cpp:243`, `:251`).
3. **The log of a rebuild outlives it** (`ikd_late`): the rebuild thread gives back the mutex
   before it clears the flag that says an operation is to be logged
   (`lidar_slam/ikd_Tree.cpp:294`). An operation that was waiting is logged for a rebuild
   that is over, and the next one repeats it on a subtree where it may not belong.

Conditions of the same kind, stated as properties that hold: a reader meets a released
object only after a refused second mapping or a replaced failed localization
(`OrderlyRelease`), or asks for the monitor before it is made (`BootMeetsSession`); an index of the back end leaves its vector only in two named windows,
and a second mapping on two keyframes or more always (`FaultsNeedOverlap`); the tree loses a rebuild's agreement with its operations only by
a late log entry or an operation on a root under rebuild (`ContentKept`), and a search
is left in freed nodes only where no count is taken (`CountedSearchIsSafe`); the pose
lacks only updates that were left while a callback was between its upsampling and its
clearing of the flag, however many these are (`OnlyLateIsMissed`).

Seen while modelling, without a run of their own:

* A second mapping reads odometry poses that are not there: `addOdomFactor` asserts two of them and is called
  for every loaded keyframe when there are none (`lidar_slam/backend.cpp:73`). `FaultsNeedOverlap` says that a second
  mapping on a map of two keyframes does not get past it, and that nothing else does this.
* While a localization is lost, the pose stands still: a failed match clears `globalLocalizationSuccess_`
  (`lidar_slam/lidar_slam.cpp:501`), and `imu_cbk` carries the pose on only while it is set (`:733`). What came
  meanwhile is in no pose when the vehicle has been found again, until the next base. `SamplesSinceBase` excepts these
  samples by name (`skipped`).
* Two comments of `UndistortPcl` are not what it does: no sample of the scan before is put in front of the samples
  (`lidar_slam/IMU_Processing.cpp:142`), so that no interval starts at the end of the last scan (`:181`) unless two scans
  overlap: the time from the end of that scan to the first sample is not integrated, and wheel data of
  this time are dropped. Of several wheel data in one interval the later ones wait, and are dropped once their own
  interval is past (`:205` to `:228`). The first point of a scan is moved again by every pair of
  poses before its own (`:271`). `MeasureIsTaken` states all this as what holds.
* A heartbeat that comes late once makes a mapping session Failed for good, with `check_delay` on: no one marks its
  node Normal again (`node/localization_module.cpp:356`). `LateIsFinal` says so.
* A module configured to start in a session may crash at once: the health thread, which
  `create_ROS_IO` starts, asks `monitor_` for the load of the processor, and the constructor makes
  `monitor_` last (`node/localization_module.cpp:48`, `:445`). `BootMeetsSession` says that it is the only such
  trouble, and only of a module not started idle.
* Idle is never published: `pub_module_status_timer` returns early whenever the module is
  not running (`node/localization_module.cpp:456`).
* `keep_lidar_num_before_curr: 0` keeps nothing, where the configuration file says it keeps the
  last frame: the limit is applied after the push (`lidar_slam/lidar_slam.cpp:663`).
* `time_out_thr` counts attempts, not seconds, and an attempt needs a vehicle that drives; the
  first match after a success does not wait for `wait_time`
  (`lidar_slam/lidar_slam.cpp:455`, `:470`).
* `cal_init_transform` takes the search translation with the wrong sign
  (`lidar_slam/global_localization.cpp:119`, and its unused twin in `localization.cpp:445`): the guess
  is off by twice the translation. `GuessFits` says so: it is the guess mirrored at
  the keyframe that fits the match.
* `bbsGlobaLocalize` multiplies the match and the last pose in the other order than its
  comment (T_map_odom) needs; the two agree only for poses that commute.
* The smoother's prediction should move by the odometry since the last match
  (`lidar_slam/lidar_slam.cpp:485`); the pose it is taken from is replaced in every loop (`:511`), so
  that all but the last of the loops between two matches are lost. `ExactUnlessStrayed` is what remains.
* Method 3 of the Airy reads `w_step`, an offset in a message, into a byte
  (`lidar/robosense/lidar_preproc_Airy.cpp:244`): from the ring whose offset does not fit on, another ring's data are read.
* The corners of a part are taken from the end of a list as the ones with the largest curvature, but the sort leaves out
  that end (`lidar/robosense/lidar_preproc_Airy.cpp:438`, `:442`). The first entry of the first part is never
  filled: point 0, with a curvature nobody wrote, may become a corner, and the marks to its left go in front
  of the array. `PreprocFits` says that this is the only point of that kind.
* The clouds of features are in no order of time, and their surface has gone through a voxel grid;
  `sync_packages` takes the last point for the end of the scan
  (`lidar_slam/lidar_slam.cpp:187`), also of a cloud without any point.
* Points that are not a number pass the driver of the Mid360, which never asks for them and whose
  comparisons they do not meet; the callback's comment says they are removed
  (`node/localization_module.cpp:766`).
* Sampling keeps up to one and a half times `cloud_size_to_keep`, where the configuration says only that many
  are kept (`config/param_slam_arm_chassis_mid360_ros2.yaml:119`, from the root of the repository).
* `KISSMatcher::solve` gives the solution of the attempt before when there are fewer than two
  correspondences, where its comment says the identity
  (`kiss_matcher/core/kiss_matcher/KISSMatcher.cpp`).

## 5. What is proved

### ModuleCtrl

TLAPS checks the theorems for every set of callbacks, any number of sessions,
every set of run outcomes and both values of the switches, from the four
assumptions `ModuleCtrl` states about its constants.

* `TypeCorrect`: `Spec => []TypeOK`. `TypeOK` is not inductive by itself:
  what is published is what the health thread has seen, and that this is a running
  status follows from where the thread is. `TypeInv` adds `SeenRuns`.
* `StepInvariant`: `Spec => []CtlInv`. `CtlInv` says, for each place of the command
  callback, what status, pointer, heap and goal are there. Nobody else
  writes these (`OthersKeepSession`), so one step per action of the callback is
  enough. It is the reason why ...
* `Consistent`: `Spec => []QuiescentConsistent`, the case `ctl = "idle"` of `CtlInv`.
* `NodesFollow`: `Spec => []NodeFollowsSession`, by `NodeInv`: from `NodeNormal` to the
  end of the session nothing writes Inactive, the health thread only Delay.
* `LateStays`: `Spec => LateIsFinal`. The status is computed from the node status alone once that is Delay, and the
  one step that writes Normal (`NodeNormal`) belongs to a start, which a running session refuses (`CtlInv`).
* `Orderly`: `ASSUME Timely PROVE Spec => []OrderlyRelease`. `ReleaseInv`: during an
  orderly release, every reader past its check is one the sleep waits for,
  because the status was no longer a running one when the sleep began; after the
  sleep no reader is past its check, and none gets there before the next start. A
  reader that holds an object holds the one `slam_` points to, or a rough path has been
  taken. Without `Timely` the theorem is false: a run longer than the sleep is all it takes.
* `BootMeets`: `Spec => []BootMeetsSession`. `BootInv` follows the constructor: no release
  under readers and no callback before the module has started, so that nothing is left but the health
  thread asking the monitor that is not there, and it does so only in a running session.
* `Refinement`: `ASSUME Timely PROVE Spec => KeepsContract`.
  `RefInv` adds to `CtlInv` and `ReleaseInv` what the steps of a release need: the
  reason of the release tells the status it finds. Then every action of the
  callback is an action of the contract or none (`ControlIsContract`), a reader can
  only crash, and only when the contract allows it (`FaultIsCrash`), and the rest stutters.


### SecMapping

For maps and sessions of any length, `SecMapping_proofs`:

* `SecondTypeCorrect`: `Spec => []TypeOK`.
* `OnTheWholeMap`: `Spec => []MapUnderOwnKeyFrames`. No lock says so; the inductive
  invariant says why it holds nevertheless: a success of the relocalization needs
  a scan, a scan a running session, and a session runs only once its map is loaded
  (`SuccessInv`, `LoadInv`); the loop thread takes the map once, after the success,
  and thereby whole (`TakenInv`); keyframes of the session come after it (`CountInv`, `OwnInv`).
* `HalfMapStays`: `Spec => HalfMapIsFinal`. A copy that was made of half a map is
  never replaced: once the flags of the copies are up (`ReadInv`) no step lowers them.

### LocalizationThread

For any number of sessions, attempts and loops, `LocalizationThread_proofs`. The inductive
invariant is the conjunction of six parts that follow the places of the thread:
`TypeOK`, `PlaceInv` (what each branch knows of status, flag and scan), `CountInv`
(`count` is the number of attempts failed, but for the moment between an attempt and its
verdict), `WayInv` (what was integrated has been driven), `WaitInv` (how far `since`
lags behind the static `wait`) and `SmootherInv` (where the smoother is as long as the vehicle
has not strayed).

* `ThreadTypeCorrect`, `StatusIsTrue`: the type invariant and `StatusTellsSuccess`.
* `FailedAfterTimes`, `AttemptAfterWay`, `MatchInPeriod`, `ExactWithoutStraying`: the four
  action properties of the run, each from the part of the invariant named for it.

### BackEnd

For any number of keyframes, of loaded ones and any interval `Skip`, `BackEnd_proofs`. The inductive
invariant has eight parts: `TypeOK`; `LoadedInv` (what a second mapping has taken over);
`VectorInv` (how far apart the vectors are at each place of the LIO thread, and that no
one else lengthens them); `CopyInv` (the copy of the loop thread is of some earlier
length); `EdgeInv` and `TriedInv` (candidates, queue, failures and edges exclude one another);
`SaveInv` (how much the save has taken); and `FaultsNeedOverlap` itself.

* `BackEndTypeCorrect`, `Aligned`, `EdgesThere`, `FaultsInWindows`, `SavedWhole`, `MatchedOncePerPair`: every property
  of the run `backend`, each from the part of the invariant named for it. That the vectors are aligned
  between keyframes needs no lock because one thread appends; that the save is whole
  needs that no run is under way, which is what `inflight` says and nothing in the code ensures.

### SensorSync

For buffers of any size and any stamps, `SensorSync_proofs`. `Prefixes` gives what is needed of
the windows: that the greatest prefix with a property exists, and what a part of a sequence holds.

* `Typed`: `Spec => []TypeOK`.
* `Ordered`: `Spec => []ScansInOrder`. `BufferInOrder` says
  that the buffer holds nothing from before the last reset of the clock; `FrameInOrder` and
  `PrevInOrder` carry the order over to the frame popped and the measure completed, unless
  one of the `resets` lies between.
* `Whole`: `Spec => MeasureIsWhole`. `ImuInOrder` and `WheelInv` say that the buffers are in order of
  arrival and of stamps, whatever the clocks do (a stamp that goes back clears them), so that the prefix
  that is taken leaves no sample of the scan behind; `TakenInOrder` and `ScanCovered`
  carry that from the section that fills the measure to the one that completes it.
* `BackNeedsRollback`: `Spec => EmptyBackNeedsRollback`, from `ScanCovered`: a measure that got nothing has left
  something in the buffer, unless the clock went back since the frame was popped.

And of what the callback hands over to these buffers:

* `CallbackFits`: `PreprocSpec => []PreprocFits`, for any messages, any scans, any numbers of columns, rings, points,
  parts and neighbours, and whatever the arrays hold at the start. `SampleInv` follows the loops over a message:
  `DenseInv` says that the points kept are those that pass among the ones looked at (`Seen`), each once and in the order of
  the loops. What remains is the arithmetic of the rounding: `RatioIs` bounds the ratio, `PlacesIs` says that a kept place lies within
  the cloud, `SampleSize` how many there are.
  `FeatureInv` follows the extraction through a scan that finds the arrays as the scans before have left them. Corners are read from a list that
  is sorted while the loop runs, so that nothing about a corner can be said before it is clear whom the list names: `ListInv`
  says that entries the loop has not come to are untouched and that the entries of a part, once sorted, name points of this part. It needs that
  the parts of all rings lie one behind the other (`PartsFollow`), which is division of numbers that may be negative (`CutIs`).
  `CornerInv`: what is around a corner is marked, so that no later one lies there. `SurfaceInv`: the parts passed are corners or
  surface. The index in front of the first that `cal_smoothness` fills is named throughout (`Own`): its entry is
  `stale`, from an earlier scan. `PreprocFits` says of it what remains true, and `OutsideInv` that every other corner is so far from
  the ends (`Named`) that the loops around it stay in the arrays.

### FrontEnd

For any number of scans and samples and any steps of the clock, `FrontEnd_proofs`.

* `Typed`: `Spec => []TypeOK`, with the records of the callback as `Callbacks`, the base as `Bases`.
* `OnlyLateMissed`: `Spec => []OnlyLateIsMissed`. `LateInv`
  counts while the flag is still to be cleared: a base that `run` leaves raises the flag or the count (`UpdateInv`),
  and a callback that does not upsample, as in a lost localization, touches neither.
* `SamplesHeld`: `Spec => []SamplesSinceBase`. `PoseInv` says it for every place of the callback: what a pose from
  the newest base has not got is the first sample of the buffer, or the one the callback has in
  hand; and the pose stands at the base or at a sample it has got, so that carrying it on leaves none
  out. A sample the callback does not carry on goes to `skipped` in the same step. `MsgInv` says where the sample in hand is once `run` has emptied the buffer under it.
* `PoseComesToSample`: `Spec => PoseIsCurrent`, from the same invariant.

The three algorithms that `run` calls and that have a state of their own are there as well:

* `MeasureTaken`: `UndistortSpec => []MeasureIsTaken`, for every measure, of any length. `UndistortInv` follows the two loops.
  `SegmentsInv`: the segments follow one another up to where the filter has been taken (`Reached`), and leave out
  no moment in front of it but in a gap longer than `MaxDt`; that they do not overlap needs that the clip only
  shortens them, and that all but the last start at the end of the scan before at the earliest needs that a skipped interval lies in front of it.
  `WheelInv`: what was used lies in front of the datum and of the interval that come next, which is why a
  datum on the border of two intervals is used once. `SparseInv`: if the data are sparse, the one that comes next lies
  behind the interval before, and every one in front of it has been used. `PointsInv`: a point behind the iterator has been moved by the last pose in front
  of it, and no other yet; but the first point, from which the iterator cannot step off, by every such pose so far.

* `Updates`: `UpdateSpec => []UpdateEnds`, for any limit of passes and any outcome of each. `LoopInv`: as
  long as the loop runs, nothing has written the covariance; the first small correction asks for a search
  in the pass that follows, and the last pass but one asks for it when there was none (`LoopRuns`). So a
  loop without dark passes has searched in its first pass and in a later one when it ends (`LoopOver`).
* `MapIsFollowed`: `MapSpec => []MapFollows`, in any number of dimensions and along any drive. `BoxInv`: the box keeps
  its width, and the lidar more than the edge from every side. That it does after a move needs that
  the box is wider than two edges and the move together (`Lengths`), which is where the assumption on
  `CubeLen` and `DetRange` comes from; that the slabs are what the box leaves out is `SlabsAreLeftOut`.

### IkdRebuild

For any finite set of readers, any points and any calls, `IkdRebuild_proofs`.

* `Typed`: `Spec => []TypeOK`.
* `CountedSafe`: `Spec => []CountedSearchIsSafe`. `CounterInv`
  says that `search_mutex_counter` is the number of counted searches, or -1 while the rebuild
  thread holds it, and that there are none then; `RefInv` that only a search that is not counted can be
  left in the old subtree.
* `Kept`: `Spec => []ContentKept`. `PlaceInv` has the places of the two threads and what each has in hand.
  `ContentInv`: what the tree holds once the rest of the operation is done (`Outcome`) is what the
  operations leave; and while there is a copy, the log repeated on it makes the part of the
  tree that is under rebuild (`LogInv`), so that the swap changes nothing. Both hold until one of the
  two windows has been gone through. A box covers points, not the numbers between them (`Box`).

### Only model-checked

* Liveness (`CommandCompletes`, `KeepsLiveContract`, `FrameIsTaken`, `Decides`,
  `OperationsEnd`, `RelocalizationEnds`): liveness under fairness and ENABLED are beyond the prover.
* `TreeIsExact` of the run `algorithms`: what building, insertion, deletion and search make of a whole tree. Induction over data is
  beyond the installed provers, but for the least-number principle, on which the greatest prefixes of `Prefixes` rest.
  RECURSIVE operators are in `IkdTree` only, and so within reach of
  `MapPoints` and `MCAlgorithms`, about which no theorem can be stated; the other algorithms are
  kept apart from them for that reason, and are written loop by loop, as steps, where they can be proved about.
* `GuessFits` of the same run: it is about descriptors of the worlds of that run, with its places and headings, and has no constant to
  be stated for every value of. Of other worlds it would be false: a point on the border of two sectors is in the one before the turn
  and may be in the other after it.

## 6. Not modelled

* The floating-point arithmetic of the filter and of the registrations (ICP, GICP, kiss_matcher, bbs):
  their outcomes are choices of the models.
* Fault codes of the health message, resource monitor, poses and clouds published:
  nothing acts on them.
* The display map, the rebuild of the tree from keyframes and the loop closure by scan contexts
  in the back end: the first two have no effect on what the others read, the last is not called.
* `Radius_Search` and `Delete_Points` of the tree: not called.
* Of the drivers the field mapping, the voxel grid of the features, and the `extract_*` functions
  of the Mid360, which nothing calls. Parameters: the values the models depend on are their constants.
* The fusion node and the slip detection it uses (not part of the build), and the third-party code kept in the tree.

More than half of the repository's lines are of the last kind (nanoflann twice, kiss_matcher
with its copies of robin_map, bbs3d, small_gicp, magic_enum, the serial library, the
fusion node) and what remains is to a large part arithmetic, parameters and field mappings: the
definitions stand for the control of the project's own code, not for a share of all lines.

## 7. Plan

Done: the session with its contract, refinement and proofs; sensor buffers; front end with
pose upsampling, measures, update, local map; the ikd-tree by itself and under its
rebuild thread; second mapping with its proofs; scan-context search; localization
thread; back end; preprocessing.

Every safety property of a run is proved but for two of the sequential algorithms (`TreeIsExact`, `GuessFits`), and so is the refinement.

Left: the order of frames in the coarse registrations.

------------------------------ MODULE SecMapping ------------------------------
(* SecMapping: how a second mapping gets onto the map it extends.  The command    *)
(* callback loads the map while the session's threads already run; the             *)
(* relocalization thread takes copies of what is loaded and matches a scan with    *)
(* them; then the loop thread hands the keyframes of the map to the back end, and  *)
(* only after that the LIO thread adds keyframes of its own.  Nothing of this is   *)
(* under a lock: a reader may find any vector half filled.                        *)
(*                                                                               *)
(* Vectors are their lengths.  A cloud is "none", "part" while the file is read    *)
(* into it, or "whole".                                                          *)

EXTENDS Naturals

CONSTANTS
    MaxLen,     \* bound: keyframes of the map on disk
    Times,      \* global_localize_times
    MaxScans    \* bound: keyframes the LIO thread adds

ASSUME NumbersAssumption == MaxLen \in Nat /\ Times \in Nat /\ MaxScans \in Nat

VARIABLES
    disk,       \* the files of the map
    load, store,    \* where load_map is, and the CloudMap it fills
    scanned,        \* undistortCloud_ holds points
    success,        \* globalLocalizationSuccess_
    status,         \* secmap_relocal_thrd_status_
    reloc, copy, count,     \* where the relocalization thread is, its copies of the
                            \* map and of the scan contexts, global_localize_count
    loop, taken,    \* where the loop thread is and the vectors it has copied
    be, lio, own    \* the back end, the LIO thread in it, the keyframes it has added

loader == <<load, store>>
relocs == <<success, status, reloc, copy, count>>
loops == <<loop, taken>>
lios == <<lio, own, scanned>>
vars == <<disk, loader, relocs, loops, lios, be>>

Lengths == 0..(MaxLen + MaxScans)
Clouds == {"none", "part", "whole"}

\* The files of a map, some of them missing or cut off.
Maps ==
    [cloud : {"missing", "empty", "points"}, scs : 0..MaxLen, broken : BOOLEAN,
     poses : 0..MaxLen, clouds : 0..MaxLen]

TypeOK ==
    /\ disk \in Maps
    /\ load \in {"reset", "fill", "lines", "poses", "clouds", "publish", "running", "failed"}
    /\ store \in [cloud : Clouds, scs : Lengths, poses : Lengths, clouds : Lengths,
                  ready : BOOLEAN]
    /\ {scanned, success} \subseteq BOOLEAN
    /\ status \in {"Inactive", "Relocalizing", "Normal", "RelocalizeFailed"}
    /\ reloc \in {"idle", "map", "scs", "match", "announce", "count"}
    /\ copy \in [cloud : Clouds, scs : Lengths] /\ count \in 0..(Times + 1)
    /\ loop \in {"idle", "poses", "scs", "check", "clear", "assign", "append"}
    /\ taken \in [clouds : Lengths, poses : Lengths, scs : Lengths]
    /\ be \in [poses : Lengths, clouds : Lengths, scs : Lengths, ready : BOOLEAN]
    /\ lio \in {"idle", "cloud"} /\ own \in 0..MaxScans

Init ==
    /\ disk \in Maps
    /\ load = "reset" /\ scanned = FALSE /\ success = FALSE /\ status = "Inactive"
    /\ store = [cloud |-> "none", scs |-> 0, poses |-> 0, clouds |-> 0, ready |-> FALSE]
    /\ reloc = "idle" /\ copy = [cloud |-> "none", scs |-> 0] /\ count = 0
    /\ loop = "idle" /\ taken = [clouds |-> 0, poses |-> 0, scs |-> 0]
    /\ be = [poses |-> 0, clouds |-> 0, scs |-> 0, ready |-> FALSE] /\ lio = "idle" /\ own = 0

-------------------------------------------------------------------------------
(* load_map, in the command callback.  A failed load ends the session, which is   *)
(* ModuleCtrl's matter; here the threads just go on without a running session.   *)

\* The point cloud: missing, or read into the object everyone can see.
ResetMap ==
    /\ load = "reset" /\ success' = FALSE
    /\ load' = IF disk.cloud = "missing" THEN "failed" ELSE "fill"
    /\ store' = [store EXCEPT !.ready = FALSE,
                              !.cloud = IF disk.cloud = "points" THEN "part" ELSE "none"]
    /\ UNCHANGED <<disk, status, reloc, copy, count, loops, lios, be>>

WholeCloud == IF disk.cloud = "points" THEN "whole" ELSE "none"

FillCloud ==
    /\ load = "fill" /\ load' = "lines"
    /\ store' = [store EXCEPT !.cloud = WholeCloud]
    /\ UNCHANGED <<disk, relocs, loops, lios, be>>

\* The scan contexts line by line; a line of the wrong size, or none at all, fails.
LoadLine ==
    /\ load = "lines"
    /\ \/ /\ store.scs < disk.scs
          /\ store' = [store EXCEPT !.scs = @ + 1] /\ UNCHANGED load
       \/ /\ store.scs = disk.scs /\ UNCHANGED store
          /\ load' = IF disk.broken \/ disk.scs = 0 THEN "failed" ELSE "poses"
    /\ UNCHANGED <<disk, relocs, loops, lios, be>>

\* The keyframe poses; without the file there are none, and that is no failure.
LoadPose ==
    /\ load = "poses"
    /\ IF store.poses < disk.poses
       THEN store' = [store EXCEPT !.poses = @ + 1] /\ UNCHANGED load
       ELSE load' = "clouds" /\ UNCHANGED store
    /\ UNCHANGED <<disk, relocs, loops, lios, be>>

\* One cloud for every pose; a missing file fails.
LoadKeyCloud ==
    /\ load = "clouds"
    /\ IF store.clouds < store.poses
       THEN IF store.clouds < disk.clouds
            THEN store' = [store EXCEPT !.clouds = @ + 1] /\ UNCHANGED load
            ELSE load' = "failed" /\ UNCHANGED store
       ELSE load' = "publish" /\ store' = [store EXCEPT !.ready = TRUE]
    /\ UNCHANGED <<disk, relocs, loops, lios, be>>

\* load_map returns true and the callback publishes MODULE_SEC_MAPPING.
StartSession ==
    /\ load = "publish" /\ load' = "running"
    /\ UNCHANGED <<disk, store, relocs, loops, lios, be>>

\* The LIO timer does nothing before the module runs.
Running == load = "running"

-------------------------------------------------------------------------------
(* global_localization_for_sec_mapping_thread, once a second.                   *)

BeginPeriod ==
    /\ reloc = "idle" /\ status # "RelocalizeFailed" /\ ~success
    /\ status' = "Relocalizing" /\ reloc' = "map"
    /\ UNCHANGED <<disk, loader, success, copy, count, loops, lios, be>>

\* set_global_map: the first copy that holds a point stays.
SetGlobalMap ==
    /\ reloc = "map" /\ reloc' = "scs"
    /\ copy' = [copy EXCEPT !.cloud = IF @ = "none" THEN store.cloud ELSE @]
    /\ UNCHANGED <<disk, loader, success, status, count, loops, lios, be>>

\* fill_sc_manager: the same for the scan contexts.  The thread then looks whether
\* there is a scan; without one it waits, and does not count.
FillScManager ==
    /\ reloc = "scs" /\ reloc' = IF scanned THEN "match" ELSE "count"
    /\ copy' = [copy EXCEPT !.scs = IF @ = 0 THEN store.scs ELSE @]
    /\ UNCHANGED <<disk, loader, success, status, count, loops, lios, be>>

\* Mutant: a match that finds no map is not counted.
Counted_WithMap ==
    count' = IF copy.cloud # "none" /\ copy.scs > 0 THEN count + 1 ELSE count

Counted == count' = count + 1

\* global_localize; the flag is set by the assignment of its result.
Match ==
    /\ reloc = "match"
    /\ \/ /\ copy.cloud # "none" /\ copy.scs > 0
          /\ success' = TRUE /\ reloc' = "announce" /\ UNCHANGED count
       \/ /\ Counted
          /\ success' = FALSE /\ reloc' = "count"
    /\ UNCHANGED <<disk, loader, status, copy, loops, lios, be>>

\* The status follows; the transforms written here are read by nobody, since
\* getOdomToMap overwrites T_map_odom_ with the back end's.
Announce ==
    /\ reloc = "announce" /\ reloc' = "count"
    /\ status' = "Normal"
    /\ UNCHANGED <<disk, loader, success, copy, count, loops, lios, be>>

Exceeded == count > Times

EndPeriod ==
    /\ reloc = "count" /\ reloc' = "idle"
    /\ status' = IF Exceeded THEN "RelocalizeFailed" ELSE status
    /\ UNCHANGED <<disk, loader, success, copy, count, loops, lios, be>>

Relocalize ==
    \/ BeginPeriod \/ SetGlobalMap \/ FillScManager \/ Match \/ Announce \/ EndPeriod

-------------------------------------------------------------------------------
(* sec_mapping_loopClosureThread: three copies, then a look whether the map was   *)
(* whole, then set_loaded_key_clouds.                                           *)

\* Mutant: the keyframes are taken without waiting for the relocalization.
MayTake_Early == ~be.ready

MayTake == success /\ ~be.ready

TakeClouds ==
    /\ loop = "idle" /\ MayTake /\ loop' = "poses"
    /\ taken' = [taken EXCEPT !.clouds = store.clouds]
    /\ UNCHANGED <<disk, loader, relocs, lios, be>>

TakePoses ==
    /\ loop = "poses" /\ loop' = "scs"
    /\ taken' = [taken EXCEPT !.poses = store.poses]
    /\ UNCHANGED <<disk, loader, relocs, lios, be>>

TakeScs ==
    /\ loop = "scs" /\ loop' = "check"
    /\ taken' = [taken EXCEPT !.scs = store.scs]
    /\ UNCHANGED <<disk, loader, relocs, lios, be>>

CheckMapData ==
    /\ loop = "check" /\ loop' = IF store.ready THEN "clear" ELSE "idle"
    /\ UNCHANGED <<disk, loader, relocs, taken, lios, be>>

\* set_loaded_key_clouds: each vector under a lock of its own.
ClearPoses ==
    /\ loop = "clear" /\ loop' = "assign"
    /\ be' = [be EXCEPT !.poses = 0]
    /\ UNCHANGED <<disk, loader, relocs, taken, lios>>

AssignClouds ==
    /\ loop = "assign" /\ loop' = "append"
    /\ be' = [be EXCEPT !.clouds = taken.clouds]
    /\ UNCHANGED <<disk, loader, relocs, taken, lios>>

\* A scan context is stored for every pose, whatever there is to store.
AppendPoses ==
    /\ loop = "append" /\ loop' = "idle"
    /\ be' = [be EXCEPT !.poses = @ + taken.poses, !.scs = @ + taken.poses, !.ready = TRUE]
    /\ UNCHANGED <<disk, loader, relocs, taken, lios>>

LoopClosure ==
    \/ TakeClouds \/ TakePoses \/ TakeScs \/ CheckMapData
    \/ ClearPoses \/ AssignClouds \/ AppendPoses

-------------------------------------------------------------------------------
(* The LIO timer: a scan in every period, a keyframe once the back end is ready. *)

Scan ==
    /\ lio = "idle" /\ Running /\ scanned' = TRUE
    /\ UNCHANGED <<disk, loader, relocs, loops, lio, own, be>>

MayAdd == Running /\ scanned /\ success /\ be.ready

\* saveKeyFramesAndFactor, then saveCurrentCloud.
AddPose ==
    /\ lio = "idle" /\ MayAdd /\ own < MaxScans /\ lio' = "cloud"
    /\ be' = [be EXCEPT !.poses = @ + 1]
    /\ UNCHANGED <<disk, loader, relocs, loops, own, scanned>>

AddCloud ==
    /\ lio = "cloud" /\ lio' = "idle" /\ own' = own + 1
    /\ be' = [be EXCEPT !.clouds = @ + 1, !.scs = @ + 1]
    /\ UNCHANGED <<disk, loader, relocs, loops, scanned>>

-------------------------------------------------------------------------------
Load == ResetMap \/ FillCloud \/ LoadLine \/ LoadPose \/ LoadKeyCloud \/ StartSession

Lio == Scan \/ AddPose \/ AddCloud

Next == Load \/ Relocalize \/ LoopClosure \/ Lio

\* Every thread keeps running; a failed match may be the only kind there is.
Fairness == WF_vars(Load) /\ WF_vars(Relocalize) /\ WF_vars(LoopClosure) /\ WF_vars(Scan)

Spec == Init /\ [][Next]_vars /\ Fairness

-------------------------------------------------------------------------------
(* The back end holds either nothing or the whole map, and the keyframes of this    *)
(* session behind it: sec_mapping_loopClosureThread copies first and looks at       *)
(* get_map_data_status afterwards, which is sound only because the relocalization   *)
(* cannot have succeeded before the map was loaded.  The exceptions are the two     *)
(* moments in which a vector is being extended.                                   *)
MapUnderOwnKeyFrames ==
    LET whole == disk.poses + own IN
    /\ loop = "append" => taken = [clouds |-> disk.poses, poses |-> disk.poses, scs |-> disk.scs]
    /\ IF be.ready
       THEN /\ be.poses = whole + (IF lio = "cloud" THEN 1 ELSE 0)
            /\ be.clouds = whole /\ be.scs = whole
       ELSE own = 0 /\ lio = "idle" /\ be.poses = 0 /\ be.scs = 0
            /\ be.clouds \in {0, disk.poses}

\* What was copied while the map was still being read.
Stale == copy.cloud = "part" \/ copy.scs \in 1..(disk.scs - 1)

(* A copy of half a map is never replaced: the ready flags of GlobalLocalization    *)
(* latch, so that the relocalization then searches in the part it has for ever.     *)
(* It can only have been taken before the map was ready, and what is copied later   *)
(* is whole.                                                                     *)
HalfMapIsFinal ==
    [][/\ Stale => Stale'
       /\ Stale' /\ ~Stale => ~store.ready]_vars

(* A loaded session decides: the relocalization succeeds and the keyframes of the   *)
(* map reach the back end, or it has failed after Times + 1 scans.                *)
Decides == Running ~> (be.ready \/ status = "RelocalizeFailed")
===============================================================================

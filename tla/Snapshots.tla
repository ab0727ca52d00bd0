------------------------------ MODULE Snapshots ------------------------------
(***************************************************************************)
(* CreateSnapshot and DeleteSnapshot of pkg/lvm/controllerserver.go and    *)
(* the location records they keep.                                         *)
(*                                                                         *)
(* The node and volume group of a snapshot are written to an immutable     *)
(* ConfigMap before the helper makes it and removed after the helper       *)
(* deleted it.  DeleteSnapshot finds the place from the source PV, from    *)
(* the annotations of a pre-provisioned content, or from that record.  One *)
(* API call is one step; a call may end between any two (an error, the     *)
(* CO's deadline, a crash), and its answer may be lost.                    *)
(*                                                                         *)
(* Helpers are what HelperPods provides: one per handle and action, joined *)
(* by retries, running on when the call that started it has ended.         *)
(***************************************************************************)
EXTENDS Integers

CONSTANTS
    Handles,    \* snapshot handles
    Volumes,    \* source volumes
    Locations,  \* pairs of a node and a volume group
    LocOf,      \* where a volume lives: what its PV says, if it is intact
    Thick,      \* the striped volumes, of which a snapshot is a part
    PVFates,    \* what may become of a PV object
    Imports,    \* how a retained snapshot may be imported
    NoRecord,   \* there is no ConfigMap
    NoJob,      \* there is no helper pod
    MaxFaults   \* bound on calls that end early and helpers that fail

ASSUME LocOfAssumption == LocOf \in [Volumes -> Locations] /\ Thick \subseteq Volumes
ASSUME NoRecordAssumption == NoRecord \notin Locations
ASSUME FatesAssumption ==
    PVFates \subseteq {"absent", "broken"} /\ Imports \subseteq {"imported", "annotated"}
ASSUME MaxFaultsAssumption == MaxFaults \in Nat

VARIABLES
    want,     \* what the CO wants of a handle
    src,      \* the volume it asked a snapshot of
    content,  \* the VolumeSnapshotContent of a handle
    pv,       \* the PersistentVolume objects
    live,     \* the volumes whose LV has not been deleted
    record,   \* the location ConfigMaps
    lv,       \* the places where the snapshot's LV exists
    job,      \* the helper pods, by handle and action
    pc,       \* the next API call of the call for a handle
    loc,      \* the location the call works with
    faults    \* faults so far

vars == <<want, src, content, pv, live, record, lv, job, pc, loc, faults>>

Wants == {"none", "new", "ready", "kept", "deleting", "gone", "lost"}
Contents == {"none", "dynamic", "bound", "imported", "annotated"}
Actions == {"create", "delete"}
Job == [loc : Locations, phase : {"running", "succeeded", "failed"}]
ASSUME NoJobAssumption == NoJob \notin Job

Creating == {"cpv", "crecord", "ccheck", "chelper", "cwait", "cok"}
Deleting == {"dcontent", "dpv", "drecordAbsent", "drecordOther", "dhelper", "dwait", "dforget", "dok"}

-----------------------------------------------------------------------------
(* The CO: external-snapshotter and its users (external).                  *)

co == <<want, src, content>>
cluster == <<pv, live, record, lv, job>>
call == <<pc, loc>>

\* A VolumeSnapshot is made.  A handle may be used again once it is deleted, but
\* not where one of its helper pods is left: such a pod would be joined although
\* it ended in the handle's earlier life.  (external-snapshotter derives handles
\* from UIDs and uses none again.)  It takes no snapshot of a claim that is being
\* deleted.
AskCreate(h, v) ==
    /\ want[h] \in {"none", "gone"} /\ v \in live
    /\ \A a \in Actions : job[h][a] # NoJob => job[h][a].loc # LocOf[v]
    /\ want' = [want EXCEPT ![h] = "new"]
    /\ src' = [src EXCEPT ![h] = v]
    /\ content' = [content EXCEPT ![h] = "dynamic"]
    /\ UNCHANGED <<cluster, call, faults>>

AskDelete(h) ==
    /\ want[h] = "ready"
    /\ want' = [want EXCEPT ![h] = "deleting"]
    /\ UNCHANGED <<src, content, cluster, call, faults>>

\* A content with the Retain policy is deleted: the snapshot stays.
Retain(h) ==
    /\ want[h] = "ready"
    /\ want' = [want EXCEPT ![h] = "kept"]
    /\ content' = [content EXCEPT ![h] = "none"]
    /\ UNCHANGED <<src, cluster, call, faults>>

\* A pre-provisioned content for a retained snapshot, with or without annotations.
Import(h, kind) ==
    /\ want[h] = "kept"
    /\ want' = [want EXCEPT ![h] = "ready"]
    /\ content' = [content EXCEPT ![h] = kind]
    /\ UNCHANGED <<src, cluster, call, faults>>

\* The CO forgets a handle: its creation is given up, or its content removed by force.
Abandon(h) ==
    /\ want[h] \in {"new", "deleting"}
    /\ want' = [want EXCEPT ![h] = "lost"]
    /\ content' = [content EXCEPT ![h] = "none"]
    /\ UNCHANGED <<src, cluster, call, faults>>

\* A PV object vanishes (its LV may stay), or is restored without its attributes.
PVChanges(v, fate) ==
    /\ pv[v] # fate
    /\ pv' = [pv EXCEPT ![v] = fate]
    /\ UNCHANGED <<co, live, record, lv, job, call, faults>>

\* The deletelv helper of DeleteVolume (Volumes, Provisioner): lvremove -y takes the
\* snapshots of a striped LV along, as they keep what was overwritten in it.  A claim
\* of which a snapshot is being made is protected by a finalizer.
VolumeDeleted(v) ==
    /\ v \in live
    /\ \A h \in Handles : src[h] = v => want[h] # "new"
    /\ live' = live \ {v}
    /\ lv' = [h \in Handles |-> IF src[h] = v /\ v \in Thick THEN {} ELSE lv[h]]
    /\ UNCHANGED <<co, pv, record, job, call, faults>>

\* The CO calls, one call at a time for a handle.
Call(h) ==
    /\ pc[h] = "idle"
    /\ \/ want[h] = "new" /\ pc' = [pc EXCEPT ![h] = "cpv"]
       \/ want[h] = "deleting" /\ pc' = [pc EXCEPT ![h] = "dcontent"]
    /\ UNCHANGED <<co, cluster, loc, faults>>

-----------------------------------------------------------------------------
(* Steps of a call.                                                        *)

Goto(h, l) == pc' = [pc EXCEPT ![h] = l]

Found(h, l, next) == loc' = [loc EXCEPT ![h] = l] /\ Goto(h, next)

Fail(h) == Goto(h, "idle") /\ UNCHANGED <<loc, co>>

\* The call answers OK, and the CO acts on it if it still cares.
OkCreate(h) ==
    /\ Goto(h, "idle")
    /\ UNCHANGED <<loc, src>>
    /\ IF want[h] = "new"
       THEN /\ want' = [want EXCEPT ![h] = "ready"]
            /\ content' = [content EXCEPT ![h] = "bound"]
       ELSE UNCHANGED <<want, content>>

OkDelete(h) ==
    /\ Goto(h, "idle")
    /\ UNCHANGED <<loc, src>>
    /\ IF want[h] = "deleting"
       THEN /\ want' = [want EXCEPT ![h] = "gone"]
            /\ content' = [content EXCEPT ![h] = "none"]
       ELSE UNCHANGED <<want, content>>

Fault == faults < MaxFaults /\ faults' = faults + 1

\* The call ends early: an API error, the deadline, a crash, a lost answer.
\* What it has done so far stays done.
Abort(h) ==
    /\ pc[h] # "idle"
    /\ Fault
    /\ Fail(h)
    /\ UNCHANGED cluster

-----------------------------------------------------------------------------
(* Helpers (HelperPods, Provisioner).                                      *)

\* createSnapshotHelper: start the helper, join the one that is there, or refuse
\* the call because of one with another spec, which is retired if it has ended.
StartHelper(h, a, next) ==
    /\ \/ /\ job[h][a] = NoJob
          /\ job' = [job EXCEPT ![h][a] = [loc |-> loc[h], phase |-> "running"]]
          /\ Goto(h, next)
       \/ /\ job[h][a] # NoJob
          /\ job[h][a].loc = loc[h]
          /\ Goto(h, next)
          /\ UNCHANGED job
       \/ /\ job[h][a] # NoJob
          /\ job[h][a].loc # loc[h]
          /\ Goto(h, "idle")
          /\ job' = IF job[h][a].phase = "running" THEN job
                    ELSE [job EXCEPT ![h][a] = NoJob]
    /\ UNCHANGED <<co, pv, live, record, lv, loc, faults>>

Running(h, a) == job[h][a] # NoJob /\ job[h][a].phase = "running"

\* createsnap refuses a source that is not there, before it looks for the snapshot.
SourceFound(h, a) == a = "create" => src[h] \in live

\* createsnap and deletesnap, both idempotent.
HelperWorks(h, a) ==
    /\ SourceFound(h, a)
    /\ lv' = [lv EXCEPT ![h] = IF a = "create" THEN @ \cup {job[h][a].loc}
                               ELSE @ \ {job[h][a].loc}]

HelperSucceeds(h, a) ==
    /\ Running(h, a)
    /\ HelperWorks(h, a)
    /\ job' = [job EXCEPT ![h][a].phase = "succeeded"]
    /\ UNCHANGED <<co, pv, live, record, call, faults>>

\* The container ends with an error, its work done (a timeout, a kill) or not.
HelperFails(h, a) ==
    /\ Running(h, a)
    /\ \/ Fault /\ (HelperWorks(h, a) \/ UNCHANGED lv)
       \/ ~SourceFound(h, a) /\ UNCHANGED <<lv, faults>>
    /\ job' = [job EXCEPT ![h][a].phase = "failed"]
    /\ UNCHANGED <<co, pv, live, record, call>>

\* A pod is deleted: evicted, collected, removed by an operator.
HelperDeleted(h, a) ==
    /\ job[h][a] # NoJob
    /\ Fault
    /\ \/ UNCHANGED lv
       \/ Running(h, a) /\ HelperWorks(h, a)
    /\ job' = [job EXCEPT ![h][a] = NoJob]
    /\ UNCHANGED <<co, pv, live, record, call>>

\* The helper has ended and is cleaned up, if that does not fail.
Ended(h, a, phase) ==
    /\ job[h][a] # NoJob
    /\ job[h][a].phase = phase
    /\ \/ job' = [job EXCEPT ![h][a] = NoJob] /\ UNCHANGED faults
       \/ UNCHANGED job /\ Fault

\* The pod that is waited for is not found.
HelperMissing(h, a) == job[h][a] = NoJob /\ UNCHANGED <<job, faults>>

-----------------------------------------------------------------------------
(* CreateSnapshot.                                                         *)

\* The source PV, with metadataFromPV and requiredBytesFromPersistentVolume.
SourcePV(h) ==
    /\ pc[h] = "cpv"
    /\ IF pv[src[h]] = "ok"
       THEN Found(h, LocOf[src[h]], "crecord") /\ UNCHANGED co
       ELSE Fail(h)
    /\ UNCHANGED <<cluster, faults>>

\* Faulty variant: an existing record is taken for the right one.
RecordAnyLocation(h) ==
    /\ pc[h] = "crecord"
    /\ IF record[h] = NoRecord
       THEN record' = [record EXCEPT ![h] = loc[h]] ELSE UNCHANGED record
    /\ Goto(h, "chelper")
    /\ UNCHANGED <<co, pv, live, lv, job, loc, faults>>

\* recordSnapshotLocation: Create, and on AlreadyExists ...
RecordLocation(h) ==
    /\ pc[h] = "crecord"
    /\ IF record[h] = NoRecord
       THEN record' = [record EXCEPT ![h] = loc[h]] /\ Goto(h, "chelper")
       ELSE UNCHANGED record /\ Goto(h, "ccheck")
    /\ UNCHANGED <<co, pv, live, lv, job, loc, faults>>

\* ... Get and compare.
CheckRecord(h) ==
    /\ pc[h] = "ccheck"
    /\ IF record[h] = loc[h] THEN Goto(h, "chelper") ELSE Goto(h, "idle")
    /\ UNCHANGED <<co, cluster, loc, faults>>

CreateHelper(h) == pc[h] = "chelper" /\ StartHelper(h, "create", "cwait")

\* Faulty variant: a helper that failed counts as one that succeeded.
WaitCreatedAnyEnd(h) ==
    /\ pc[h] = "cwait"
    /\ \E phase \in {"succeeded", "failed"} : Ended(h, "create", phase)
    /\ Goto(h, "cok")
    /\ UNCHANGED <<co, pv, live, record, lv, loc>>

WaitCreated(h) ==
    /\ pc[h] = "cwait"
    /\ \/ Ended(h, "create", "succeeded") /\ Goto(h, "cok") /\ UNCHANGED <<loc, co>>
       \/ Ended(h, "create", "failed") /\ Fail(h)
       \/ HelperMissing(h, "create") /\ Fail(h)
    /\ UNCHANGED <<pv, live, record, lv>>

AnswerCreate(h) == pc[h] = "cok" /\ OkCreate(h) /\ UNCHANGED <<cluster, faults>>

-----------------------------------------------------------------------------
(* DeleteSnapshot.                                                         *)

\* Only the driver writes records: one that is found is well formed.
lookupSnapshotLocation(h) == record[h]

\* getSnapshotContent, then deleteSnapshotAction by the kind of the content.
FindContent(h) ==
    /\ pc[h] = "dcontent"
    /\ \/ content[h] \in {"none", "dynamic"} /\ OkDelete(h)
       \/ content[h] = "bound" /\ Goto(h, "dpv") /\ UNCHANGED <<loc, co>>
       \/ content[h] = "imported" /\ Goto(h, "drecordOther") /\ UNCHANGED <<loc, co>>
       \/ content[h] = "annotated" /\ Found(h, LocOf[src[h]], "dhelper") /\ UNCHANGED co
    /\ UNCHANGED <<cluster, faults>>

\* Faulty variant: without the source PV the snapshot counts as deleted.
PVLocationOnly(h) ==
    /\ pc[h] = "dpv"
    /\ \/ pv[src[h]] = "ok" /\ Found(h, LocOf[src[h]], "dhelper") /\ UNCHANGED co
       \/ pv[src[h]] = "absent" /\ OkDelete(h)
       \/ pv[src[h]] = "broken" /\ Goto(h, "drecordOther") /\ UNCHANGED <<loc, co>>
    /\ UNCHANGED <<cluster, faults>>

\* pvLocation
PVLocation(h) ==
    /\ pc[h] = "dpv"
    /\ \/ pv[src[h]] = "ok" /\ Found(h, LocOf[src[h]], "dhelper")
       \/ pv[src[h]] = "absent" /\ Goto(h, "drecordAbsent") /\ UNCHANGED loc
       \/ pv[src[h]] = "broken" /\ Goto(h, "drecordOther") /\ UNCHANGED loc
    /\ UNCHANGED <<co, cluster, faults>>

\* Faulty variant: without a record deletion fails, whatever became of the PV.
RecordedOrFail(h) ==
    /\ pc[h] \in {"drecordAbsent", "drecordOther"}
    /\ \/ record[h] # NoRecord /\ Found(h, record[h], "dhelper") /\ UNCHANGED co
       \/ record[h] = NoRecord /\ Fail(h)
    /\ UNCHANGED <<cluster, faults>>

\* Faulty variant: the location of a missing record is used.
RecordedUnchecked(h) ==
    /\ pc[h] \in {"drecordAbsent", "drecordOther"}
    /\ Found(h, record[h], "dhelper")
    /\ UNCHANGED <<co, cluster, faults>>

\* recordedLocation, resolvePreExistingSnapshotLocation: without a record the
\* deletion is done if the PV is absent, and refused otherwise.
RecordedLocation(h) ==
    LET recorded == lookupSnapshotLocation(h)
    IN  /\ pc[h] \in {"drecordAbsent", "drecordOther"}
        /\ \/ recorded # NoRecord /\ Found(h, recorded, "dhelper") /\ UNCHANGED co
           \/ recorded = NoRecord /\ pc[h] = "drecordAbsent" /\ OkDelete(h)
           \/ recorded = NoRecord /\ pc[h] = "drecordOther" /\ Fail(h)
        /\ UNCHANGED <<cluster, faults>>

DeleteHelper(h) == pc[h] = "dhelper" /\ StartHelper(h, "delete", "dwait")

\* Faulty variant: a helper that failed counts as one that succeeded.
WaitDeletedAnyEnd(h) ==
    /\ pc[h] = "dwait"
    /\ \E phase \in {"succeeded", "failed"} : Ended(h, "delete", phase)
    /\ Goto(h, "dforget")
    /\ UNCHANGED <<co, pv, live, record, lv, loc>>

WaitDeleted(h) ==
    /\ pc[h] = "dwait"
    /\ \/ Ended(h, "delete", "succeeded") /\ Goto(h, "dforget") /\ UNCHANGED <<loc, co>>
       \/ Ended(h, "delete", "failed") /\ Fail(h)
       \/ HelperMissing(h, "delete") /\ Fail(h)
    /\ UNCHANGED <<pv, live, record, lv>>

\* forgetSnapshotLocation: an error is only logged.
ForgetLocation(h) ==
    /\ pc[h] = "dforget"
    /\ \/ record' = [record EXCEPT ![h] = NoRecord] /\ UNCHANGED faults
       \/ UNCHANGED record /\ Fault
    /\ Goto(h, "dok")
    /\ UNCHANGED <<co, pv, live, lv, job, loc>>

AnswerDelete(h) == pc[h] = "dok" /\ OkDelete(h) /\ UNCHANGED <<cluster, faults>>

-----------------------------------------------------------------------------
Init ==
    /\ want = [h \in Handles |-> "none"]
    /\ src \in [Handles -> Volumes]
    /\ content = [h \in Handles |-> "none"]
    /\ pv = [v \in Volumes |-> "ok"]
    /\ live = Volumes
    /\ record = [h \in Handles |-> NoRecord]
    /\ lv = [h \in Handles |-> {}]
    /\ job = [h \in Handles |-> [a \in Actions |-> NoJob]]
    /\ pc = [h \in Handles |-> "idle"]
    /\ loc \in [Handles -> Locations]
    /\ faults = 0

CallStep(h) ==
    \/ SourcePV(h)
    \/ RecordLocation(h)
    \/ CheckRecord(h)
    \/ CreateHelper(h)
    \/ WaitCreated(h)
    \/ AnswerCreate(h)
    \/ FindContent(h)
    \/ PVLocation(h)
    \/ RecordedLocation(h)
    \/ DeleteHelper(h)
    \/ WaitDeleted(h)
    \/ ForgetLocation(h)
    \/ AnswerDelete(h)

COStep(h) ==
    \/ \E v \in Volumes : AskCreate(h, v)
    \/ AskDelete(h)
    \/ Retain(h)
    \/ \E kind \in Imports : Import(h, kind)
    \/ Abandon(h)

Next ==
    \/ \E h \in Handles : COStep(h)
    \/ \E h \in Handles : Call(h)
    \/ \E h \in Handles : CallStep(h)
    \/ \E h \in Handles : Abort(h)
    \/ \E h \in Handles, a \in Actions : HelperSucceeds(h, a)
    \/ \E h \in Handles, a \in Actions : HelperFails(h, a)
    \/ \E h \in Handles, a \in Actions : HelperDeleted(h, a)
    \/ \E v \in Volumes, fate \in PVFates : PVChanges(v, fate)
    \/ \E v \in Volumes : VolumeDeleted(v)

Spec == Init /\ [][Next]_vars

\* The CO calls until it is answered, a call that can take a step takes it, and
\* a helper ends.
RetrySpec ==
    /\ Spec
    /\ \A h \in Handles :
         /\ WF_vars(Call(h)) /\ WF_vars(CallStep(h))
         /\ \A a \in Actions : WF_vars(HelperSucceeds(h, a))

-----------------------------------------------------------------------------
(* Properties.                                                             *)

TypeOK ==
    /\ want \in [Handles -> Wants]
    /\ src \in [Handles -> Volumes]
    /\ content \in [Handles -> Contents]
    /\ pv \in [Volumes -> {"ok", "absent", "broken"}]
    /\ live \subseteq Volumes
    /\ record \in [Handles -> Locations \cup {NoRecord}]
    /\ lv \in [Handles -> SUBSET Locations]
    /\ job \in [Handles -> [Actions -> Job \cup {NoJob}]]
    /\ pc \in [Handles -> Creating \cup Deleting \cup {"idle"}]
    /\ loc \in [Handles -> Locations]
    /\ faults \in 0..MaxFaults

\* A snapshot that exists on a node is on record, at the place where it is:
\* whatever call was cut short, whether the CO still knows the handle, whatever
\* became of the PV.  Nothing else leads to a retained snapshot.
RecordCovers == \A h \in Handles : lv[h] \subseteq {record[h]}

\* A deletion that was answered with OK has removed the snapshot, also when the
\* source PV was gone or broken, and when an earlier attempt was cut short.
DeletedIsGone == \A h \in Handles : want[h] = "gone" => lv[h] = {}

\* The snapshot was part of a volume that has been deleted.
Perished(h) == src[h] \in Thick \ live

\* A snapshot that was reported ready exists until its deletion is asked for, though
\* its volume is deleted, its PV lost and its handle retained and imported: no helper
\* of an earlier life of the handle is left to remove it.  It goes with its volume if
\* that is striped, and then is nowhere.
ReadyExists ==
    \A h \in Handles : want[h] \in {"ready", "kept"} =>
        lv[h] = IF Perished(h) THEN {} ELSE {LocOf[src[h]]}

Told(h) ==
    CASE want[h] = "new" -> "wanted"
      [] want[h] \in {"ready", "kept"} -> IF Perished(h) THEN "perished" ELSE "ready"
      [] want[h] = "deleting" -> "unwanted"
      [] OTHER -> want[h]

Promise == INSTANCE Contract WITH
    Resources <- Handles,
    told <- [h \in Handles |-> Told(h)],
    exists <- {h \in Handles : lv[h] # {}},
    fragile <- {h \in Handles : src[h] \in Thick}

\* The snapshot calls implement the contract with the CO: an LV comes into being
\* only for a snapshot that is wanted and goes only once its deletion is, or with the
\* striped volume it is part of, though helpers outlive their calls and handles are
\* imported and used again.
ContractKept == Promise!Spec

-----------------------------------------------------------------------------
(* What makes them inductive, for one handle.                              *)

\* A snapshot is made or exists for the source the CO asked for.
Alive(h) == want[h] \in {"new", "ready", "kept"} \/ pc[h] \in Creating

Succeeded(h, a) == job[h][a] # NoJob /\ job[h][a].phase = "succeeded"

\* Calls fit what the CO wants; it deletes only what has a findable content.
CallInv(h) ==
    /\ pc[h] \in Creating => want[h] \in {"new", "lost"}
    /\ pc[h] \in Deleting => want[h] \in {"deleting", "lost"}
    /\ want[h] \in {"ready", "deleting"} => content[h] \in {"bound", "imported", "annotated"}
    /\ want[h] = "new" => src[h] \in live

\* A create helper runs only where the record says, for the current source, and
\* only until its call has been answered.
CreateInv(h) ==
    /\ pc[h] \in Creating \ {"cpv"} => loc[h] = LocOf[src[h]]
    /\ pc[h] \in {"chelper", "cwait"} => record[h] = loc[h]
    /\ pc[h] = "cwait" /\ job[h]["create"] # NoJob => job[h]["create"].loc = loc[h]
    /\ Running(h, "create") => /\ job[h]["create"].loc = LocOf[src[h]]
                               /\ record[h] = LocOf[src[h]]
                               /\ want[h] \in {"new", "lost"}
                               /\ pc[h] \notin Deleting \cup {"cok"}
    /\ Succeeded(h, "create") /\ job[h]["create"].loc = LocOf[src[h]] /\ Alive(h) /\ ~Perished(h)
         => LocOf[src[h]] \in lv[h]
    /\ pc[h] = "cok" /\ ~Perished(h) => LocOf[src[h]] \in lv[h]

\* A delete helper never works where the current snapshot is or is being made.
DeleteInv(h) ==
    /\ pc[h] \in {"dhelper", "dwait"} => loc[h] = LocOf[src[h]] \/ lv[h] = {}
    /\ pc[h] = "dwait" /\ job[h]["delete"] # NoJob => job[h]["delete"].loc = loc[h]
    /\ job[h]["delete"] # NoJob /\ (Alive(h) \/ Running(h, "create"))
         => job[h]["delete"].loc # LocOf[src[h]]
    /\ Succeeded(h, "delete") => job[h]["delete"].loc \notin lv[h]
    /\ pc[h] \in {"dforget", "dok"} => lv[h] = {}

\* The LV is where the record says and where the source is.
PlaceInv(h) ==
    /\ lv[h] \subseteq {record[h]}
    /\ lv[h] \subseteq {LocOf[src[h]]}
    /\ want[h] \in {"none", "gone"} => lv[h] = {}
    /\ want[h] \in {"ready", "kept"} /\ ~Perished(h) => lv[h] = {LocOf[src[h]]}
    /\ Perished(h) => lv[h] = {}

HandleInv(h) == CallInv(h) /\ CreateInv(h) /\ DeleteInv(h) /\ PlaceInv(h)

IInv == TypeOK /\ \A h \in Handles : HandleInv(h)

-----------------------------------------------------------------------------
\* A deletion comes to its end under retries although calls are cut short at any
\* point, the record is forgotten before the answer, and the PV vanishes; unless
\* the content is imported without annotations or the PV lost its attributes,
\* where nothing but the record leads to the place.
FoundDeleteSettles ==
    \A h \in Handles :
        want[h] = "deleting" /\ content[h] # "imported"
            ~> want[h] \in {"gone", "lost"} \/ pv[src[h]] = "broken"

\* A deletion comes to its end under retries, for every content; controllerserver.go:703
\* "The backend deletion succeeded, so a stale location record must not make this
\* idempotent CSI operation fail."
DeleteSettles ==
    \A h \in Handles : want[h] = "deleting" ~> want[h] \in {"gone", "lost"}

=============================================================================

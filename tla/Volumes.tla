------------------------------- MODULE Volumes -------------------------------
(***************************************************************************)
(* CreateVolume and DeleteVolume of pkg/lvm/controllerserver.go, with the  *)
(* checks and conversions of pkg/lvm/validation.go.                        *)
(*                                                                         *)
(* CreateVolume picks a node from the request, resolves the source of a    *)
(* clone, and has a helper make the LV.  The driver keeps no record of the *)
(* volume: external-provisioner stores a PersistentVolume made from the    *)
(* answer, and DeleteVolume finds the LV from that object alone.  One API  *)
(* call is one step; a call may end between any two, and its answer may be *)
(* lost.                                                                   *)
(*                                                                         *)
(* Helpers are what HelperPods provides: one per volume and action, joined *)
(* by retries, running on when the call that started it has ended.         *)
(***************************************************************************)
EXTENDS Integers, Sequences, FiniteSets, FiniteSetsExt

CONSTANTS
    Volumes,    \* volume names
    Snaps,      \* snapshot handles
    SnapOf,     \* the volume a snapshot is taken of
    Nodes,
    VGs,        \* valid names of volume groups
    Sizes,      \* capacities and LV sizes
    Asks,       \* the requests the CO may make for a volume
    Imports,    \* how snapshots may be imported: with a size, with which annotations
    Growing,    \* the volumes that NodeExpandVolume may grow
    None,       \* no node, volume group, source, place, PV, snapshot or helper
    MaxFaults,  \* bound on calls that end early and helpers that fail
    MaxDamage   \* bound on PVs, snapshots and nodes that are lost or damaged

LVMTypes == {"striped", "dm-thin"}
Places == [node : Nodes, vg : VGs]

\* The segment of the driver's topology key is None where a topology lacks it.
Request ==
    [requisite : SUBSET (Nodes \cup {None}), preferred : Seq(Nodes \cup {None}),
     caps : SUBSET [access : {"block", "mount"}, single : BOOLEAN],
     vg : VGs \cup {None}, type : LVMTypes \cup {None}, size : Sizes \cup {0},
     source : Volumes \cup Snaps \cup {None}]

ASSUME NamesAssumption ==
    /\ Volumes \cap Snaps = {}
    /\ IsFiniteSet(Nodes)
    /\ None \notin Volumes \cup Snaps \cup Nodes \cup VGs \cup LVMTypes
ASSUME AsksAssumption ==
    /\ SnapOf \in [Snaps -> Volumes]
    /\ Sizes \subseteq Nat \ {0}
    /\ \A v \in Volumes : \A r \in Asks[v] : r \in Request /\ r.source # v
    /\ Imports \subseteq [sized : BOOLEAN, node : BOOLEAN, vg : BOOLEAN]
    /\ Growing \subseteq Volumes
    /\ MaxFaults \in Nat /\ MaxDamage \in Nat

VARIABLES
    want,    \* what the CO wants of a volume
    req,     \* the request it makes for it
    pv,      \* the PersistentVolumes
    snap,    \* the snapshots that may be restored
    nodes,   \* the Node objects
    lv,      \* the size of a volume's LV at a place, 0 where there is none
    roomy,   \* the volumes whose LV had room for all of its source when it was copied
    job,     \* the helper pods, by volume and action
    pc,      \* the next API call of the call for a volume
    act,     \* the volumeAction the call works with
    via,     \* what the OK of a deletion rested on
    faults, damage

vars == <<want, req, pv, snap, nodes, lv, roomy, job, pc, act, via, faults, damage>>

Wants == {"none", "new", "made", "ready", "deleting", "gone", "lost"}
Actions == {"create", "delete"}

\* An affinity is the set of a PV's match expressions.
Affinity == SUBSET [key : {"node", "other"}, op : {"In", "NotIn"}, nodes : SUBSET Nodes]
PV == [vg : VGs \cup {None}, type : LVMTypes \cup {None}, bytes : Sizes \cup {0}, affinity : Affinity]

\* A snapshot that is ready: its content (kind, restore size, the location in its
\* annotations and on record) and its LV.  A content that is not ready is as good as none.
Annotations == [node : Nodes \cup {None}, vg : VGs \cup {None}]
Snap == [kind : {"dynamic", "imported"}, restore : Sizes \cup {0}, annotations : Annotations,
         recorded : Places \cup {None}, type : LVMTypes, place : Places, size : Sizes]
NoAnnotations == [node |-> None, vg |-> None]

Source == [lv : Volumes \cup Snaps, vg : VGs, type : LVMTypes]
Action == [place : Places, size : Sizes \cup {0}, type : LVMTypes, source : Source \cup {None}]
Job == [act : Action, phase : {"running", "succeeded", "failed"}]

ASSUME NoneAssumption ==
    /\ None \notin Places /\ None \notin PV /\ None \notin Snap
    /\ None \notin Source /\ None \notin Action /\ None \notin Job

Creating == {"ccontent", "clocation", "csource", "chelper", "cwait", "cok"}
Deleting == {"dnode", "dhelper", "dwait", "dok"}

-----------------------------------------------------------------------------
(* pkg/lvm/validation.go                                                   *)

validateVolumeCapabilities(caps) ==
    /\ caps # {}
    /\ \A c \in caps : c.single
    /\ \A c, d \in caps : c.access = d.access

parseLVMParameters(r) == r.type \in LVMTypes /\ r.vg \in VGs

validateCapacityRange(r) == r.size > 0

\* The preferred topologies that name a node, and the requisite nodes.
Named(r) == {i \in DOMAIN r.preferred : r.preferred[i] # None}
Requisite(r) == r.requisite \ {None}

\* Faulty variant: the preferred node is taken without looking at the requisite ones.
nodeFromPreferred(r) ==
    CASE Named(r) # {} -> r.preferred[Min(Named(r))]
      [] Named(r) = {} /\ Cardinality(Requisite(r)) = 1 -> CHOOSE n \in Requisite(r) : TRUE
      [] OTHER -> None

\* The first preferred node, if it is requisite; else the only requisite one.
nodeFromAccessibility(r) ==
    LET first == r.preferred[Min(Named(r))]
    IN  CASE Named(r) # {} /\ (Requisite(r) = {} \/ first \in Requisite(r)) -> first
          [] Named(r) = {} /\ Cardinality(Requisite(r)) = 1 -> CHOOSE n \in Requisite(r) : TRUE
          [] OTHER -> None

ValidCreate(r) ==
    /\ validateVolumeCapabilities(r.caps)
    /\ parseLVMParameters(r)
    /\ validateCapacityRange(r)
    /\ nodeFromAccessibility(r) # None

\* Faulty variant: some node of the affinity is taken for the only one.
nodeFromAnyAffinity(affinity) ==
    LET named == UNION {e.nodes : e \in affinity}
    IN  IF named # {} THEN CHOOSE n \in named : TRUE ELSE None

\* Exactly one node under the driver's key, and no operator but In.
nodeFromPVAffinity(affinity) ==
    LET ours == {e \in affinity : e.key = "node"}
        named == UNION {e.nodes : e \in ours}
    IN  IF (\A e \in ours : e.op = "In") /\ Cardinality(named) = 1
        THEN CHOOSE n \in named : TRUE ELSE None

metadataFromPV(p) ==
    LET node == nodeFromPVAffinity(p.affinity)
    IN  IF p.vg \in VGs /\ p.type \in LVMTypes /\ node # None
        THEN [node |-> node, vg |-> p.vg] ELSE None

\* 0 if the attribute is missing.
requiredBytesFromPersistentVolume(p) == p.bytes

\* The PV that external-provisioner makes from CreateVolumeResponse: the volume
\* context (buildVolumeContext) and the accessible topology.
PVOf(r) ==
    [vg |-> r.vg, type |-> r.type, bytes |-> r.size,
     affinity |-> {[key |-> "node", op |-> "In", nodes |-> {nodeFromAccessibility(r)}]}]

-----------------------------------------------------------------------------
(* The CO and the cluster (external).                                      *)

objects == <<pv, snap, nodes>>
disks == <<lv, roomy, job>>
call == <<pc, act>>
bounds == <<faults, damage>>

SourceOf(v) == req[v].source

\* The source of a clone that is being made is protected by finalizers.
Protected(x) == \E v \in Volumes : SourceOf(v) = x /\ want[v] \in {"new", "made"}

\* Names are derived from the UID of a claim: none is used twice.
AskCreate(v, r) ==
    /\ want[v] = "none"
    /\ want' = [want EXCEPT ![v] = "new"]
    /\ req' = [req EXCEPT ![v] = r]
    /\ UNCHANGED <<objects, disks, call, via, bounds>>

\* The PV is stored ...
StorePV(v) ==
    /\ want[v] = "made"
    /\ want' = [want EXCEPT ![v] = "ready"]
    /\ pv' = [pv EXCEPT ![v] = PVOf(req[v])]
    /\ UNCHANGED <<req, snap, nodes, disks, call, via, bounds>>

\* ... or cannot be, and the volume is deleted again.
GiveUpPV(v) ==
    /\ want[v] = "made"
    /\ want' = [want EXCEPT ![v] = "deleting"]
    /\ UNCHANGED <<req, objects, disks, call, via, bounds>>

AskDelete(v) ==
    /\ want[v] = "ready"
    /\ ~Protected(v)
    /\ want' = [want EXCEPT ![v] = "deleting"]
    /\ UNCHANGED <<req, objects, disks, call, via, bounds>>

\* The CO forgets a volume: a creation is given up, a PV is removed by force.
Abandon(v) ==
    /\ want[v] \in {"new", "deleting"}
    /\ want' = [want EXCEPT ![v] = "lost"]
    /\ UNCHANGED <<req, objects, disks, call, via, bounds>>

Damage == damage < MaxDamage /\ damage' = damage + 1 /\ UNCHANGED faults

\* A PV vanishes, or is restored without its attributes or with another affinity.
Damaged(p) ==
    {None, [p EXCEPT !.vg = None], [p EXCEPT !.bytes = 0], [p EXCEPT !.affinity = {}],
     [p EXCEPT !.affinity = @ \cup {[key |-> "node", op |-> "In", nodes |-> Nodes]}]}

PVChanges(v) ==
    /\ pv[v] # None
    /\ Damage
    /\ \E p \in Damaged(pv[v]) \ {pv[v]} : pv' = [pv EXCEPT ![v] = p]
    /\ UNCHANGED <<want, req, snap, nodes, disks, call, via>>

\* NodeExpandVolume (NodeVolume): the LV grows, the PV's attributes stay.
Grow(v, p) ==
    /\ v \in Growing /\ want[v] = "ready"
    /\ lv[v][p] # 0 /\ lv[v][p] + 1 \in Sizes
    /\ lv' = [lv EXCEPT ![v][p] = @ + 1]
    /\ UNCHANGED <<want, req, objects, roomy, job, call, via, bounds>>

\* CreateSnapshot (Snapshots) of a volume that is ready: the size is the PV's.
TakeSnapshot(s) ==
    LET v == SnapOf[s]
    IN  /\ snap[s] = None /\ want[v] = "ready" /\ pv[v] # None
        /\ metadataFromPV(pv[v]) # None
        /\ requiredBytesFromPersistentVolume(pv[v]) > 0
        /\ snap' = [snap EXCEPT ![s] =
               [kind |-> "dynamic", restore |-> pv[v].bytes, annotations |-> NoAnnotations,
                recorded |-> metadataFromPV(pv[v]), type |-> pv[v].type,
                place |-> metadataFromPV(pv[v]), size |-> lv[v][metadataFromPV(pv[v])]]]
        /\ UNCHANGED <<want, req, pv, nodes, disks, call, via, bounds>>

\* It is imported under a pre-provisioned content, whose size may be unknown and to
\* which an administrator may add annotations with its location, or forget one ...
ImportSnapshot(s) ==
    /\ snap[s] # None /\ snap[s].kind = "dynamic" /\ ~Protected(s)
    /\ \E i \in Imports :
         snap' = [snap EXCEPT ![s].kind = "imported",
                              ![s].restore = IF i.sized THEN @ ELSE 0,
                              ![s].annotations = [node |-> IF i.node THEN snap[s].place.node ELSE None,
                                                  vg |-> IF i.vg THEN snap[s].place.vg ELSE None]]
    /\ UNCHANGED <<want, req, pv, nodes, disks, call, via, bounds>>

\* ... loses its location record, or is deleted.
SnapshotChanges(s) ==
    /\ snap[s] # None
    /\ Damage
    /\ \/ ~Protected(s) /\ snap' = [snap EXCEPT ![s] = None]
       \/ snap[s].recorded # None /\ snap' = [snap EXCEPT ![s].recorded = None]
    /\ UNCHANGED <<want, req, pv, nodes, disks, call, via>>

\* A node leaves the cluster, with its LVs.
NodeLost(n) ==
    /\ n \in nodes
    /\ Damage
    /\ nodes' = nodes \ {n}
    /\ UNCHANGED <<want, req, pv, snap, disks, call, via>>

-----------------------------------------------------------------------------
(* Steps of a call.                                                        *)

Goto(v, l) == pc' = [pc EXCEPT ![v] = l]

Fail(v) == Goto(v, "idle") /\ UNCHANGED act

Fault == faults < MaxFaults /\ faults' = faults + 1 /\ UNCHANGED damage

\* The call ends early: an API error, the deadline, a crash, a lost answer.
Abort(v) ==
    /\ pc[v] # "idle"
    /\ Fault
    /\ Fail(v)
    /\ UNCHANGED <<want, req, objects, disks, via>>

\* DeleteVolume answers OK, and the CO removes the PV if it still cares.
OkDelete(v, basis) ==
    /\ Goto(v, "idle")
    /\ UNCHANGED act
    /\ IF want[v] = "deleting"
       THEN /\ want' = [want EXCEPT ![v] = "gone"]
            /\ pv' = [pv EXCEPT ![v] = None]
            /\ via' = [via EXCEPT ![v] = basis]
       ELSE UNCHANGED <<want, pv, via>>

-----------------------------------------------------------------------------
(* Helpers (HelperPods, Provisioner).                                      *)

\* createVolumeHelper: start the helper, join the one that is there, or refuse
\* the call because of one with another spec, which is retired if it has ended.
StartHelper(v, a, next) ==
    /\ \/ /\ job[v][a] = None
          /\ job' = [job EXCEPT ![v][a] = [act |-> act[v], phase |-> "running"]]
          /\ Goto(v, next)
       \/ /\ job[v][a] # None
          /\ job[v][a].act = act[v]
          /\ Goto(v, next)
          /\ UNCHANGED job
       \/ /\ job[v][a] # None
          /\ job[v][a].act # act[v]
          /\ Goto(v, "idle")
          /\ job' = IF job[v][a].phase = "running" THEN job
                    ELSE [job EXCEPT ![v][a] = None]
    /\ UNCHANGED <<want, req, objects, lv, roomy, act, via, bounds>>

Running(v, a) == job[v][a] # None /\ job[v][a].phase = "running"

Ends(v, a, phase) == job' = [job EXCEPT ![v][a].phase = phase]

\* The snapshot's LV is there: that of a striped volume goes with it (lvremove -y).
Stands(s) == snap[s].type = "striped" => lv[SnapOf[s]][snap[s].place] # 0

\* The LV a clone reads; 0 if it is not there.
SourceSize(j) ==
    LET p == [node |-> j.place.node, vg |-> j.source.vg]
        s == j.source.lv
    IN  IF s \in Volumes THEN lv[s][p]
        ELSE IF snap[s] # None /\ snap[s].place = p /\ Stands(s) THEN snap[s].size ELSE 0

\* clonelv's fast path, a thin snapshot of a snapshot that is said to be thin.  (The
\* LVs with the prefix "lvm-" are those of Snaps.)
FastClone(j) ==
    /\ j.source.lv \in Snaps
    /\ j.type = "dm-thin" /\ j.source.type = j.type /\ j.source.vg = j.place.vg

\* The source can be read.  An imported snapshot is said to have the type of its clone:
\* without a size, lvcreate -s takes no snapshot of one that is not thin.
Readable(j) ==
    SourceSize(j) > 0 /\ (FastClone(j) => snap[j.source.lv].type = "dm-thin")

NewSize(v, j) ==
    IF lv[v][j.place] # 0 THEN lv[v][j.place]
    ELSE IF j.source # None /\ FastClone(j) THEN SourceSize(j)
    ELSE j.size

\* createlv and clonelv.  io.Copy reads all of the source and skips its zeros, so
\* a copy onto a smaller LV fails at its end or, if only zeros are left, succeeds.
\* (What the LV then holds is Provisioner's CloneComplete.)
HelperCreates(v) ==
    LET j == job[v]["create"].act
    IN  /\ Running(v, "create") /\ j.place.node \in nodes
        /\ \/ /\ j.source # None => Readable(j)
              /\ lv' = [lv EXCEPT ![v][j.place] = NewSize(v, j)]
              /\ roomy' = IF j.source = None \/ SourceSize(j) <= NewSize(v, j)
                          THEN roomy \cup {v} ELSE roomy \ {v}
              /\ Ends(v, "create", "succeeded")
           \/ /\ j.source # None
              /\ ~Readable(j) \/ SourceSize(j) > NewSize(v, j)
              /\ lv' = [lv EXCEPT ![v][j.place] = IF Readable(j) THEN NewSize(v, j) ELSE @]
              /\ Ends(v, "create", "failed")
              /\ UNCHANGED roomy
        /\ UNCHANGED <<want, req, objects, call, via, bounds>>

\* deletelv
HelperDeletes(v) ==
    LET j == job[v]["delete"].act
    IN  /\ Running(v, "delete") /\ j.place.node \in nodes
        /\ lv' = [lv EXCEPT ![v][j.place] = 0]
        /\ Ends(v, "delete", "succeeded")
        /\ UNCHANGED <<want, req, objects, roomy, call, via, bounds>>

\* A helper fails, before or after it has changed its LV.
HelperFails(v, a) ==
    LET j == job[v][a].act
    IN  /\ Running(v, a) /\ j.place.node \in nodes
        /\ Fault
        /\ \/ UNCHANGED <<lv, roomy>>
           \/ /\ a = "create" /\ lv[v][j.place] = 0
              /\ lv' = [lv EXCEPT ![v][j.place] = j.size]
              /\ UNCHANGED roomy
           \/ /\ a = "delete" /\ lv[v][j.place] # 0
              /\ lv' = [lv EXCEPT ![v][j.place] = 0]
              /\ UNCHANGED roomy
        /\ Ends(v, a, "failed")
        /\ UNCHANGED <<want, req, objects, call, via>>

\* The pods of a lost node are collected.
PodCollected(v, a) ==
    /\ job[v][a] # None
    /\ job[v][a].act.place.node \notin nodes
    /\ job' = [job EXCEPT ![v][a] = None]
    /\ UNCHANGED <<want, req, objects, lv, roomy, call, via, bounds>>

\* runHelper's wait: the helper has ended and is cleaned up, if that does not
\* fail; or it is not there any more.
Ended(v, a, phase) ==
    /\ job[v][a] # None
    /\ job[v][a].phase = phase
    /\ \/ job' = [job EXCEPT ![v][a] = None] /\ UNCHANGED bounds
       \/ UNCHANGED job /\ Fault

Vanished(v, a) == job[v][a] = None /\ UNCHANGED <<job, bounds>>

-----------------------------------------------------------------------------
(* CreateVolume.                                                           *)

\* The volumeAction for the request, given where its source is.
ActionFor(v, source) ==
    [place |-> [node |-> nodeFromAccessibility(req[v]), vg |-> req[v].vg],
     size |-> req[v].size, type |-> req[v].type, source |-> source]

\* The request is checked; provisionVolume goes on by the kind of the source.
CreateVolume(v) ==
    /\ want[v] = "new" /\ pc[v] = "idle"
    /\ ValidCreate(req[v])
    /\ act' = [act EXCEPT ![v] = ActionFor(v, None)]
    /\ Goto(v, CASE SourceOf(v) = None -> "chelper"
                 [] SourceOf(v) \in Snaps -> "ccontent"
                 [] SourceOf(v) \in Volumes -> "csource")
    /\ UNCHANGED <<want, req, objects, disks, via, bounds>>

\* Faulty variant: the source may be on another node and larger than the target.
CloneAnywhere(v, source, node, size) ==
    /\ act' = [act EXCEPT ![v] = ActionFor(v, source)]
    /\ Goto(v, "chelper")

\* newCloneVolumeAction
Clone(v, source, node, size) ==
    IF size > req[v].size \/ node # nodeFromAccessibility(req[v])
    THEN Fail(v)
    ELSE /\ act' = [act EXCEPT ![v] = ActionFor(v, source)]
         /\ Goto(v, "chelper")

\* preProvisionedSnapshotCloneAction, once the location is known: the clone is of the
\* destination's type, and a restore size that is not known is the size asked for.
CloneImported(v, at) ==
    LET s == SourceOf(v)
    IN  Clone(v, [lv |-> s, vg |-> at.vg, type |-> req[v].type], at.node,
              IF snap[s].restore = 0 THEN req[v].size ELSE snap[s].restore)

\* getSnapshotContent, and the annotations of an imported content, both or none.
SnapshotContent(v) ==
    LET c == snap[SourceOf(v)]
        at == c.annotations
    IN  /\ pc[v] = "ccontent"
        /\ \/ c = None /\ Fail(v)
           \/ c # None /\ c.kind = "dynamic" /\ Goto(v, "csource") /\ UNCHANGED act
           \/ /\ c # None /\ c.kind = "imported"
              /\ \/ at.node # None /\ at.vg # None /\ CloneImported(v, at)
                 \/ at.node = None /\ at.vg = None /\ Goto(v, "clocation") /\ UNCHANGED act
                 \/ (at.node = None) # (at.vg = None) /\ Fail(v)

\* Without annotations, the location on record (Snapshots).
SnapshotLocation(v) ==
    LET c == snap[SourceOf(v)]
    IN  /\ pc[v] = "clocation"
        /\ IF c = None \/ c.recorded = None THEN Fail(v) ELSE CloneImported(v, c.recorded)

SnapshotSource(v) ==
    /\ SnapshotContent(v) \/ SnapshotLocation(v)
    /\ UNCHANGED <<want, req, objects, disks, via, bounds>>

\* The PV of the source volume, or of the volume a dynamic snapshot was taken of.
\* (The restore size of a content does not change once it is set.)
VolumeSource(v) ==
    LET s == SourceOf(v)
        p == pv[IF s \in Snaps THEN SnapOf[s] ELSE s]
        size == IF s \in Snaps THEN snap[s].restore ELSE requiredBytesFromPersistentVolume(p)
    IN  /\ pc[v] = "csource"
        /\ IF p = None \/ (s \in Snaps /\ snap[s] = None) THEN Fail(v)
           ELSE IF size = 0 \/ metadataFromPV(p) = None THEN Fail(v)
           ELSE Clone(v, [lv |-> s, vg |-> p.vg, type |-> p.type], metadataFromPV(p).node, size)
        /\ UNCHANGED <<want, req, objects, disks, via, bounds>>

CreateHelper(v) == pc[v] = "chelper" /\ StartHelper(v, "create", "cwait")

WaitCreated(v) ==
    /\ pc[v] = "cwait"
    /\ \/ Ended(v, "create", "succeeded") /\ Goto(v, "cok") /\ UNCHANGED act
       \/ Ended(v, "create", "failed") /\ Fail(v)
       \/ Vanished(v, "create") /\ Fail(v)
    /\ UNCHANGED <<want, req, objects, lv, roomy, via>>

\* CreateVolumeResponse
AnswerCreate(v) ==
    /\ pc[v] = "cok"
    /\ Fail(v)
    /\ want' = [want EXCEPT ![v] = IF @ = "new" THEN "made" ELSE @]
    /\ UNCHANGED <<req, objects, disks, via, bounds>>

-----------------------------------------------------------------------------
(* DeleteVolume.                                                           *)

\* Faulty variant: the deletion goes on with a PV that leads nowhere.
DeleteVolumeUnchecked(v) ==
    /\ want[v] = "deleting" /\ pc[v] = "idle"
    /\ \/ pv[v] = None /\ OkDelete(v, "noPV")
       \/ /\ pv[v] # None
          /\ act' = [act EXCEPT ![v] =
                [place |-> metadataFromPV(pv[v]), size |-> 0, type |-> pv[v].type,
                 source |-> [lv |-> v, vg |-> pv[v].vg, type |-> pv[v].type]]]
          /\ Goto(v, "dnode")
          /\ UNCHANGED <<want, pv, via>>
    /\ UNCHANGED <<req, snap, nodes, disks, bounds>>

\* persistentVolumeForDeletion and metadataFromPV
DeleteVolume(v) ==
    /\ want[v] = "deleting" /\ pc[v] = "idle"
    /\ \/ pv[v] = None /\ OkDelete(v, "noPV")
       \/ /\ pv[v] # None /\ metadataFromPV(pv[v]) # None
          /\ act' = [act EXCEPT ![v] =
                [place |-> metadataFromPV(pv[v]), size |-> 0, type |-> pv[v].type,
                 source |-> [lv |-> v, vg |-> pv[v].vg, type |-> pv[v].type]]]
          /\ Goto(v, "dnode")
          /\ UNCHANGED <<want, pv, via>>
    /\ UNCHANGED <<req, snap, nodes, disks, bounds>>

\* Faulty variant: whether the node is there is not looked at.
NodeAssumed(v) ==
    /\ pc[v] = "dnode"
    /\ Goto(v, "dhelper")
    /\ UNCHANGED <<act, want, pv, via, req, snap, nodes, disks, bounds>>

\* nodeAvailableForDeletion
NodeAvailable(v) ==
    /\ pc[v] = "dnode"
    /\ \/ act[v].place.node \in nodes /\ Goto(v, "dhelper") /\ UNCHANGED <<act, want, pv, via>>
       \/ act[v].place.node \notin nodes /\ OkDelete(v, "noNode")
    /\ UNCHANGED <<req, snap, nodes, disks, bounds>>

DeleteHelper(v) == pc[v] = "dhelper" /\ StartHelper(v, "delete", "dwait")

\* Faulty variant: a deletion whose helper failed counts as done.
WaitDeletedAnyEnd(v) ==
    /\ pc[v] = "dwait"
    /\ \/ \E phase \in {"succeeded", "failed"} :
            Ended(v, "delete", phase) /\ Goto(v, "dok") /\ UNCHANGED act
       \/ Vanished(v, "delete") /\ Fail(v)
    /\ UNCHANGED <<want, req, objects, lv, roomy, via>>

WaitDeleted(v) ==
    /\ pc[v] = "dwait"
    /\ \/ Ended(v, "delete", "succeeded") /\ Goto(v, "dok") /\ UNCHANGED act
       \/ Ended(v, "delete", "failed") /\ Fail(v)
       \/ Vanished(v, "delete") /\ Fail(v)
    /\ UNCHANGED <<want, req, objects, lv, roomy, via>>

AnswerDelete(v) ==
    /\ pc[v] = "dok"
    /\ OkDelete(v, "helper")
    /\ UNCHANGED <<req, snap, nodes, disks, bounds>>

-----------------------------------------------------------------------------
NoAsk == [requisite |-> {}, preferred |-> <<>>, caps |-> {}, vg |-> None, type |-> None,
          size |-> 0, source |-> None]

Init ==
    /\ want = [v \in Volumes |-> "none"]
    /\ req = [v \in Volumes |-> NoAsk]
    /\ pv = [v \in Volumes |-> None]
    /\ snap = [s \in Snaps |-> None]
    /\ nodes = Nodes
    /\ lv = [v \in Volumes |-> [p \in Places |-> 0]]
    /\ roomy = {}
    /\ job = [v \in Volumes |-> [a \in Actions |-> None]]
    /\ pc = [v \in Volumes |-> "idle"]
    /\ act = [v \in Volumes |-> None]
    /\ via = [v \in Volumes |-> None]
    /\ faults = 0
    /\ damage = 0

Call(v) == CreateVolume(v) \/ DeleteVolume(v)

CallStep(v) ==
    \/ SnapshotSource(v)
    \/ VolumeSource(v)
    \/ CreateHelper(v)
    \/ WaitCreated(v)
    \/ AnswerCreate(v)
    \/ NodeAvailable(v)
    \/ DeleteHelper(v)
    \/ WaitDeleted(v)
    \/ AnswerDelete(v)

HelperStep(v) ==
    \/ HelperCreates(v)
    \/ HelperDeletes(v)
    \/ \E a \in Actions : PodCollected(v, a)

COStep(v) ==
    \/ \E r \in Asks[v] : AskCreate(v, r)
    \/ StorePV(v)
    \/ GiveUpPV(v)
    \/ AskDelete(v)
    \/ Abandon(v)

Next ==
    \/ \E v \in Volumes :
        \/ COStep(v) \/ Call(v) \/ CallStep(v) \/ HelperStep(v)
        \/ Abort(v)
        \/ \E a \in Actions : HelperFails(v, a)
        \/ PVChanges(v)
        \/ \E p \in Places : Grow(v, p)
    \/ \E s \in Snaps : TakeSnapshot(s) \/ ImportSnapshot(s) \/ SnapshotChanges(s)
    \/ \E n \in Nodes : NodeLost(n)

Spec == Init /\ [][Next]_vars

\* The CO calls until it is answered, a call that can take a step takes it, and a
\* helper ends or is collected.
RetrySpec ==
    /\ Spec
    /\ \A v \in Volumes : WF_vars(Call(v)) /\ WF_vars(CallStep(v)) /\ WF_vars(HelperStep(v))

-----------------------------------------------------------------------------
(* Properties.                                                             *)

TypeOK ==
    /\ want \in [Volumes -> Wants]
    /\ req \in [Volumes -> Request]
    /\ pv \in [Volumes -> PV \cup {None}]
    /\ snap \in [Snaps -> Snap \cup {None}]
    /\ nodes \subseteq Nodes
    /\ lv \in [Volumes -> [Places -> Sizes \cup {0}]]
    /\ roomy \subseteq Volumes
    /\ job \in [Volumes -> [Actions -> Job \cup {None}]]
    /\ pc \in [Volumes -> Creating \cup Deleting \cup {"idle"}]
    /\ act \in [Volumes -> Action \cup {None}]
    /\ via \in [Volumes -> {None, "noPV", "noNode", "helper"}]
    /\ faults \in 0..MaxFaults /\ damage \in 0..MaxDamage

Where(v) == {p \in Places : lv[v][p] # 0}

\* The PV leads back to the LV: what metadataFromPV reads from the object that was
\* made from the answer is the place where the helper made the volume, and there
\* is no second LV anywhere else.
PVLeadsToLV ==
    \A v \in Volumes :
        want[v] = "ready" /\ pv[v] # None /\ metadataFromPV(pv[v]) # None
            => Where(v) = {metadataFromPV(pv[v])}

\* Every LV, also one left by a call that was cut short or given up, is on a node
\* that the request names, and in its volume group.
PlacedAsAsked ==
    \A v \in Volumes : \A p \in Where(v) :
        /\ p.vg = req[v].vg
        /\ p.node \in UNION {req[v].requisite, {req[v].preferred[i] : i \in DOMAIN req[v].preferred}}
        /\ req[v].requisite \ {None} # {} => p.node \in req[v].requisite

\* The LV of a clone that was acknowledged had room for all of the LV it was made from,
\* whatever has become of the two sizes between the check in the controller and the copy.
\* controllerserver.go:278 "source/snapshot volume size(%v) is larger than destination
\* volume size(%v)" is what a clone that does not fit is refused with.
CloneHasRoom == \A v \in Volumes : want[v] \in {"made", "ready"} => v \in roomy

\* Volumes as the Contract sees them.  An OK that rests on a missing PV or Node
\* object says nothing of the LV: the CO has lost track of the volume.
Told(v) ==
    CASE want[v] = "new" -> "wanted"
      [] want[v] \in {"made", "ready"} -> "ready"
      [] want[v] = "deleting" -> "unwanted"
      [] want[v] = "gone" /\ via[v] # "helper" -> "lost"
      [] OTHER -> want[v]

Promise == INSTANCE Contract WITH
    Resources <- Volumes,
    told <- [v \in Volumes |-> Told(v)],
    exists <- {v \in Volumes : Where(v) # {}},
    fragile <- {}

\* The controller keeps its contract: a volume is reported ready only when it is
\* there, gone only when it is not, and neither a retained helper nor a retry
\* makes or removes one that the CO has been told about.
ContractKept == Promise!Spec

\* A call that retries must bring to its end: a deletion, unless the PV has lost
\* what leads to the volume; the creation of a volume without a source, as long
\* as its node is there.
Pending(v) ==
    \/ want[v] = "deleting" /\ ~(pv[v] # None /\ metadataFromPV(pv[v]) = None)
    \/ /\ want[v] = "new" /\ SourceOf(v) = None
       /\ ValidCreate(req[v]) /\ nodeFromAccessibility(req[v]) \in nodes

\* No call is retried for ever: neither a helper of an earlier attempt, nor one
\* whose node is lost while it runs, keeps a deletion or a creation from its end.
CallsSettle == \A v \in Volumes : []<>~Pending(v)

-----------------------------------------------------------------------------
(* What makes the safety properties inductive, for each volume.            *)

\* The place that the request leads to.
Home(v) == [node |-> nodeFromAccessibility(req[v]), vg |-> req[v].vg]

\* A call fits what the CO wants, and what it works on is the place of the request.
CallInv(v) ==
    /\ want[v] \in {"none", "made", "ready", "gone"} => pc[v] = "idle"
    /\ want[v] = "new" => pc[v] \in Creating \cup {"idle"}
    /\ want[v] = "deleting" => pc[v] \in Deleting \cup {"idle"}
    /\ pc[v] \in Creating => /\ ValidCreate(req[v])
                             /\ act[v] # None
                             /\ act[v].place = Home(v) /\ act[v].size = req[v].size
    /\ pc[v] \in {"ccontent", "clocation"} => SourceOf(v) \in Snaps
    /\ pc[v] = "csource" => SourceOf(v) # None
    /\ pc[v] \in Deleting => act[v] # None /\ act[v].place = Home(v)

\* A PV leads to the place of the request, or nowhere.
PVInv(v) ==
    /\ want[v] \in {"none", "new", "made", "gone"} => pv[v] = None
    /\ pv[v] # None =>
          /\ ValidCreate(req[v])
          /\ pv[v].vg \in {None, req[v].vg}
          /\ pv[v].affinity # {} =>
                \E e \in pv[v].affinity : e.key = "node" /\ nodeFromAccessibility(req[v]) \in e.nodes

\* Create helpers work at the place of the request, and only until the creation was
\* answered; one that has succeeded has left an LV.
CreateInv(v) ==
    /\ job[v]["create"] # None =>
          /\ ValidCreate(req[v])
          /\ job[v]["create"].act.place = Home(v) /\ job[v]["create"].act.size = req[v].size
          /\ job[v]["create"].phase = "succeeded" /\ want[v] = "new" => Where(v) # {}
    /\ want[v] \in {"none", "made", "ready", "deleting", "gone"} => ~Running(v, "create")
    /\ want[v] = "none" => job[v]["create"] = None
    /\ pc[v] = "cok" => ~Running(v, "create") /\ (want[v] = "new" => Where(v) # {})

\* Delete helpers work there too, and only once the deletion was asked for; one that
\* has succeeded has left nothing.
DeleteInv(v) ==
    /\ want[v] \in {"none", "new", "made", "ready"} => job[v]["delete"] = None
    /\ job[v]["delete"] # None =>
          /\ job[v]["delete"].act.place = Home(v)
          /\ job[v]["delete"].phase = "succeeded" /\ want[v] = "deleting" => Where(v) = {}
    /\ pc[v] = "dok" /\ want[v] = "deleting" => Where(v) = {}

\* An LV is nowhere else, and is there when the CO was told so.
PlaceInv(v) ==
    /\ Where(v) \subseteq {Home(v)}
    /\ Where(v) # {} => ValidCreate(req[v])
    /\ want[v] = "none" => Where(v) = {}
    /\ want[v] \in {"made", "ready"} => Where(v) # {}
    /\ want[v] = "gone" /\ via[v] = "helper" => Where(v) = {}

VolumeInv(v) == CallInv(v) /\ PVInv(v) /\ CreateInv(v) /\ DeleteInv(v) /\ PlaceInv(v)

IInv == TypeOK /\ \A v \in Volumes : VolumeInv(v)

-----------------------------------------------------------------------------
(* What makes CloneHasRoom inductive, where the sizes the controller       *)
(* compares are those of the sources.                                      *)

\* The volume that a volume or snapshot goes back to.
Base(x) == IF x \in Snaps THEN SnapOf[x] ELSE x

\* No volume that is cloned, or whose snapshot is restored, is ever expanded.
SourcesStay == \A v \in Volumes : \A r \in Asks[v] : r.source # None => Base(r.source) \notin Growing

\* An imported snapshot whose content has no size is restored into a volume that is
\* as large as the one it was taken of: preProvisionedSnapshotCloneAction compares
\* the size that is asked for with itself.
AskedEnough ==
    \A v \in Volumes :
        /\ want[v] \in {"new", "lost"} /\ SourceOf(v) \in Snaps
        /\ snap[SourceOf(v)] # None /\ snap[SourceOf(v)].restore = 0
        => req[SnapOf[SourceOf(v)]].size <= req[v].size

\* LVs and PVs have at most the size that was asked for.
SizeInv(v) ==
    /\ req[v] \in Asks[v] \cup {NoAsk}
    /\ pv[v] # None => pv[v].bytes \in {0, req[v].size}
    /\ v \notin Growing => \A p \in Places : lv[v][p] <= req[v].size

\* Snapshots have the size of their volume.
SnapInv(s) ==
    LET v == SnapOf[s]
    IN  snap[s] # None =>
           /\ want[v] # "none"
           /\ snap[s].restore \in {0, req[v].size}
           /\ snap[s].kind = "dynamic" => snap[s].restore # 0
           /\ v \notin Growing => snap[s].size <= req[v].size

\* The source of v was asked for with no more than v, and is kept while v is made.
Fit(v) ==
    /\ want[Base(SourceOf(v))] # "none"
    /\ req[Base(SourceOf(v))].size <= req[v].size
    /\ want[v] = "new" /\ SourceOf(v) \in Snaps => snap[SourceOf(v)] # None

Suits(v, source) ==
    /\ source = None <=> SourceOf(v) = None
    /\ source # None => source.lv = SourceOf(v) /\ Fit(v)

\* The room that a clone needs.
Need(v) ==
    IF SourceOf(v) \in Snaps THEN snap[SourceOf(v)].size ELSE req[SourceOf(v)].size

CloneInv(v) ==
    /\ pc[v] = "chelper" => Suits(v, act[v].source)
    /\ job[v]["create"] # None =>
          /\ Suits(v, job[v]["create"].act.source)
          /\ job[v]["create"].phase = "succeeded" /\ want[v] = "new" => v \in roomy
    /\ want[v] = "new" /\ SourceOf(v) # None =>
          \A p \in Places : lv[v][p] # 0 => Fit(v) /\ Need(v) <= lv[v][p]
    /\ pc[v] = "cok" /\ want[v] = "new" => v \in roomy
    /\ want[v] \in {"made", "ready"} => v \in roomy

RoomInv ==
    /\ \A v \in Volumes : SizeInv(v) /\ CloneInv(v)
    /\ \A s \in Snaps : SnapInv(s)

=============================================================================

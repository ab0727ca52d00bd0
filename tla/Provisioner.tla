----------------------------- MODULE Provisioner -----------------------------
(***************************************************************************)
(* The helper container: cmd/provisioner on top of pkg/lvm/lvm.go.         *)
(*                                                                         *)
(* createlv, clonelv, deletelv, createsnap and deletesnap are sequences of *)
(* LVM commands.  One LVM command is one atomic step (LVM serialises them  *)
(* with its volume-group lock); between two commands of a helper the other *)
(* admitted helpers of the volume group run theirs.  A command may fail or *)
(* time out, and the container may be killed, between any two steps or in  *)
(* the middle of a command that changes the volume group.                  *)
(*                                                                         *)
(* The environment is what HelperPods provides: one helper at a time for   *)
(* an item, at most MaxActive per volume group, started again until it     *)
(* succeeds.                                                               *)
(***************************************************************************)
EXTENDS Integers, FiniteSets

CONSTANTS
    Items,        \* volumes and snapshots, by LV name
    Infos,        \* what the CO may ask for: an Info for each item
    VGs,          \* volume groups
    Sizes,        \* LV sizes
    Pool,         \* the LV name "<vg>-thinpool"
    None,         \* no source, no origin
    NoLV,         \* the LV does not exist
    MaxActive,    \* helpers admitted per volume group
    MaxFailures,  \* bound on failed commands
    MaxKills      \* bound on killed containers

(***************************************************************************)
(* A volume has a size, a type and perhaps a source to be cloned from; the *)
(* source of a snapshot is the volume it is taken of.                      *)
(***************************************************************************)
ItemInfo ==
    [kind : {"volume", "snapshot"}, vg : VGs, type : {"striped", "dm-thin"},
     size : Sizes, source : Items \cup {None}]

ASSUME ItemsAssumption == Pool \notin Items /\ None \notin Items /\ Pool # None
ASSUME InfosAssumption ==
    /\ Infos \subseteq [Items -> ItemInfo]
    /\ Sizes \subseteq Nat
    /\ \A info \in Infos, i \in Items :
          LET source == info[i].source
          IN  /\ source # i
              /\ info[i].kind = "snapshot" =>
                    /\ source \in Items
                    /\ info[source].kind = "volume"
                    /\ info[source].vg = info[i].vg
                    /\ info[source].type = info[i].type

LVNames == Items \cup {Pool}

\* What a clone's LV holds of its source: all the chunks that are not zero ("data"),
\* zeros where the source is zero ("zeros").  "torn" is a record: a copy has reported
\* its end although a chunk could not be read or written.
Aspects == {"data", "zeros", "torn"}

\* An LV as lvs reports it, and its content.
LV == [seg : {"striped", "linear", "thin", "thin-pool"}, size : Sizes \cup {0},
       origin : Items \cup {None}, content : SUBSET Aspects]

ASSUME NoLVAssumption == NoLV \notin LV
ASSUME BoundsAssumption == MaxActive \in Nat /\ MaxFailures \in Nat /\ MaxKills \in Nat

VARIABLES
    Info,      \* what the CO asks for, by item
    lvs,       \* the LVs of each volume group
    life,      \* what the CO knows of an item
    pc,        \* the next LVM command of the item's helper
    raced,     \* items whose LV was made while the removal of the pool was decided
    overtaken, \* helpers in a rollback whose pool another one has removed meanwhile
    failures,  \* failed commands so far
    kills      \* killed helpers so far

vars == <<Info, lvs, life, pc, raced, overtaken, failures, kills>>

Lives == {"new", "ready", "deleting", "gone"}

PCs == {"off", "lookup", "pool", "checkpool", "mkpool", "rblvs", "rbremove", "lvcreate",
        "opensrc", "copying", "srclvs", "snaplvs", "snapcreate",
        "rmlvs", "remove", "count", "poollvs", "poolremove"}

-----------------------------------------------------------------------------
(* The volume groups (external: LVM).                                      *)

vg(i) == Info[i].vg
Thin(i) == Info[i].type = "dm-thin"
IsClone(i) == Info[i].kind = "volume" /\ Info[i].source # None

lv(i) == lvs[vg(i)][i]
pool(i) == lvs[vg(i)][Pool]

Put(g, n, v) == lvs' = [lvs EXCEPT ![g][n] = v]

\* lvremove -y of n also removes what depends on it: the thin volumes of a
\* pool, the (thick) snapshots of a striped origin.
Removed(g, n, m) ==
    /\ lvs[g][m] # NoLV
    /\ \/ m = n
       \/ n = Pool /\ lvs[g][m].seg = "thin"
       \/ lvs[g][m].origin = n /\ lvs[g][m].seg = "striped"

\* The thin fast path of clonelv: a thin clone of a thin snapshot in its VG.
FastClone(i) ==
    /\ Info[Info[i].source].kind = "snapshot"
    /\ Thin(i) /\ Thin(Info[i].source)
    /\ vg(i) = vg(Info[i].source)

\* clonelv without the fast path, once the source device is open.
Copies(i) ==
    /\ IsClone(i) /\ ~FastClone(i)
    /\ life[i] = "new" /\ pc[i] \notin {"off", "opensrc"}

\* An LV whose device a clone has open cannot be removed: the source from the
\* first step of clonelv on, the target during the copy.
InUse(g, n) ==
    \E i \in Items : \/ pc[i] = "copying" /\ n = i /\ vg(i) = g
                     \/ Copies(i) /\ n = Info[i].source /\ vg(n) = g

CanRemove(g, n) ==
    lvs[g][n] # NoLV /\ \A m \in LVNames : Removed(g, n, m) => ~InUse(g, m)

Orphaned(v, n) == IF v # NoLV /\ v.origin = n THEN [v EXCEPT !.origin = None] ELSE v

lvremove(g, n) ==
    lvs' = [lvs EXCEPT ![g] = [m \in LVNames |->
              IF Removed(g, n, m) THEN NoLV ELSE Orphaned(lvs[g][m], n)]]

-----------------------------------------------------------------------------
(* Control.                                                                *)

Goto(i, l) == pc' = [pc EXCEPT ![i] = l]

\* The container exits; its failure is retried by the CO.
ExitFail(i) == Goto(i, "off") /\ UNCHANGED life

\* The container succeeds and the call is answered with OK.
ExitOK(i) ==
    /\ Goto(i, "off")
    /\ life' = [life EXCEPT ![i] = IF @ = "new" THEN "ready" ELSE "gone"]

Step(i, l) == Goto(i, l) /\ UNCHANGED life

Failure == failures < MaxFailures /\ failures' = failures + 1

Calm == UNCHANGED <<failures, kills>>

\* A record of what happens between the lvs and the lvremove of a pool: the LVs that
\* are made in it, the rollbacks that lose it to another helper.
NoteRaced ==
    /\ raced' = raced \cup
          {i \in Items :
              /\ lv(i) = NoLV /\ lvs'[vg(i)][i] # NoLV
              /\ \E j \in Items : vg(j) = vg(i) /\ pc[j] \in {"poollvs", "poolremove", "rbremove"}}
    /\ overtaken' =
          {i \in Items : /\ pc[i] = "rbremove" /\ pc'[i] = "rbremove"
                         /\ i \in overtaken \/ (pool(i) # NoLV /\ lvs'[vg(i)][Pool] = NoLV)}

-----------------------------------------------------------------------------
(* The CO, through HelperPods.                                             *)

UsesVG(i, g) ==
    g = vg(i) \/ (IsClone(i) /\ life[i] = "new" /\ g = vg(Info[i].source))

Active(g) == {i \in Items : pc[i] # "off" /\ UsesVG(i, g)}

\* The commands of cmd/provisioner, up to the first that reads or changes an LV
\* (EnsureVG, which changes none, is left out).
createLV(i) ==
    /\ life[i] = "new" /\ Info[i].kind = "volume" /\ ~IsClone(i)
    /\ Goto(i, "lookup")

clonelv(i) ==
    /\ life[i] = "new" /\ IsClone(i)
    /\ Goto(i, IF FastClone(i) THEN "srclvs" ELSE "opensrc")

createSnap(i) ==
    /\ life[i] = "new" /\ Info[i].kind = "snapshot"
    /\ Goto(i, "srclvs")

deleteLV(i) ==
    /\ life[i] = "deleting" /\ Info[i].kind = "volume"
    /\ Goto(i, "rmlvs")

deleteSnap(i) ==
    /\ life[i] = "deleting" /\ Info[i].kind = "snapshot"
    /\ Goto(i, "rmlvs")

\* A helper starts: for a new item whose source is ready, or one to be deleted.
Launch(i) ==
    /\ pc[i] = "off"
    /\ life[i] = "new" /\ Info[i].source # None => life[Info[i].source] = "ready"
    /\ \A g \in VGs : UsesVG(i, g) => Cardinality(Active(g)) < MaxActive
    /\ createLV(i) \/ clonelv(i) \/ createSnap(i) \/ deleteLV(i) \/ deleteSnap(i)
    /\ UNCHANGED <<Info, lvs, life, raced, overtaken, failures, kills>>

\* The CO decides to delete an item.  Kubernetes keeps the source of a clone
\* or snapshot that is being made.
BeginDelete(i) ==
    /\ life[i] = "ready"
    /\ \A j \in Items : Info[j].source = i => life[j] # "new"
    /\ life' = [life EXCEPT ![i] = "deleting"]
    /\ UNCHANGED <<Info, lvs, pc, raced, overtaken, failures, kills>>

-----------------------------------------------------------------------------
(* CreateLVS.                                                              *)

\* validateExistingVolume
Compatible(i, v) ==
    /\ v.size >= Info[i].size
    /\ \/ Thin(i) /\ v.seg = "thin"
       \/ ~Thin(i) /\ v.seg \in {"striped", "linear"}

\* What follows CreateLVS: nothing for createlv, the copy for clonelv.
Created(i) == IF IsClone(i) THEN Step(i, "copying") ELSE ExitOK(i)

\* Faulty variant: a volume that exists is taken for finished, clone or not.
LookupDone(i) ==
    /\ pc[i] = "lookup"
    /\ \/ lv(i) = NoLV /\ Step(i, IF Thin(i) THEN "pool" ELSE "lvcreate")
       \/ lv(i) # NoLV /\ IF Compatible(i, lv(i)) THEN ExitOK(i) ELSE ExitFail(i)
    /\ UNCHANGED lvs
    /\ Calm

\* Faulty variant: a volume that exists is an error.
LookupRefuses(i) ==
    /\ pc[i] = "lookup"
    /\ \/ lv(i) = NoLV /\ Step(i, IF Thin(i) THEN "pool" ELSE "lvcreate")
       \/ lv(i) # NoLV /\ ExitFail(i)
    /\ UNCHANGED lvs
    /\ Calm

\* The volume exists and is accepted, or it is made.
Lookup(i) ==
    /\ pc[i] = "lookup"
    /\ \/ lv(i) = NoLV /\ Step(i, IF Thin(i) THEN "pool" ELSE "lvcreate")
       \/ lv(i) # NoLV /\ IF Compatible(i, lv(i)) THEN Created(i) ELSE ExitFail(i)
    /\ UNCHANGED lvs
    /\ Calm

\* prepareThinPool
PreparePool(i) ==
    /\ pc[i] = "pool"
    /\ \/ pool(i) = NoLV /\ Step(i, "mkpool")
       \/ pool(i) # NoLV /\ pool(i).seg = "thin-pool" /\ Step(i, "checkpool")
       \/ pool(i) # NoLV /\ pool(i).seg # "thin-pool" /\ ExitFail(i)
    /\ UNCHANGED lvs
    /\ Calm

\* validateThinPool asks lvs about the pool once more.
CheckPool(i) ==
    /\ pc[i] = "checkpool"
    /\ IF pool(i) = NoLV THEN ExitFail(i) ELSE Step(i, "lvcreate")
    /\ UNCHANGED lvs
    /\ Calm

\* The content of an LV that is no copy.
Whole == {"data", "zeros"}

PoolLV(seg) == [seg |-> seg, size |-> 0, origin |-> None, content |-> Whole]

\* createThinPool: an lvcreate that fails outright leaves the pool to others; one
\* that is killed by its timeout leaves nothing, the data LV, or the pool, and
\* what another helper made in the meantime it leaves alone.
CreatePool(i) ==
    /\ pc[i] = "mkpool"
    /\ \/ pool(i) # NoLV /\ ExitFail(i) /\ UNCHANGED lvs /\ Calm
       \/ /\ pool(i) = NoLV
          /\ Put(vg(i), Pool, PoolLV("thin-pool"))
          /\ Step(i, "lvcreate")
          /\ Calm
       \/ /\ Failure /\ UNCHANGED kills
          /\ \E v \in IF pool(i) = NoLV THEN {NoLV, PoolLV("linear"), PoolLV("thin-pool")}
                      ELSE {pool(i)} :
                Put(vg(i), Pool, v)
          /\ Step(i, "rblvs")

\* Faulty variant: whatever bears the pool's name is removed.
RollbackLookupAny(i) ==
    /\ pc[i] = "rblvs"
    /\ IF pool(i) # NoLV THEN Step(i, "rbremove") ELSE ExitFail(i)
    /\ UNCHANGED lvs
    /\ Calm

\* Faulty variant: what the timed-out lvcreate left is never removed.
RollbackLookupKeeps(i) ==
    /\ pc[i] = "rblvs"
    /\ ExitFail(i)
    /\ UNCHANGED lvs
    /\ Calm

\* rollbackThinPoolCreate: look ...
RollbackLookup(i) ==
    /\ pc[i] = "rblvs"
    /\ IF pool(i) # NoLV /\ pool(i).seg = "linear"
       THEN Step(i, "rbremove") ELSE ExitFail(i)
    /\ UNCHANGED lvs
    /\ Calm

\* ... and remove what the timed-out lvcreate left.
RollbackRemove(i) ==
    /\ pc[i] = "rbremove"
    /\ IF CanRemove(vg(i), Pool) THEN lvremove(vg(i), Pool) ELSE UNCHANGED lvs
    /\ ExitFail(i)
    /\ Calm

\* lvcreate -W y wipes signatures only: a new striped LV keeps what its extents held,
\* while a thin one reads as zeros.
Fresh(i) ==
    IF ~IsClone(i) THEN {Whole} ELSE IF Thin(i) THEN {{"zeros"}} ELSE {{}, {"zeros"}}

NewLV(i, c) == [seg |-> IF Thin(i) THEN "thin" ELSE "striped", size |-> Info[i].size,
                origin |-> None, content |-> c]

\* lvcreate of the volume itself; a thin one needs its pool.
CanCreate(i) ==
    lv(i) = NoLV /\ (Thin(i) => pool(i) # NoLV /\ pool(i).seg = "thin-pool")

CreateLV(i) ==
    /\ pc[i] = "lvcreate"
    /\ \/ ~CanCreate(i) /\ ExitFail(i) /\ UNCHANGED lvs
       \/ /\ CanCreate(i)
          /\ \E c \in Fresh(i) : Put(vg(i), i, NewLV(i, c))
          /\ Created(i)
    /\ Calm

-----------------------------------------------------------------------------
(* clonelv's copy.                                                         *)

\* The source device is opened before the target is created.
OpenSource(i) ==
    /\ pc[i] = "opensrc"
    /\ IF lv(Info[i].source) = NoLV THEN ExitFail(i) ELSE Step(i, "lookup")
    /\ UNCHANGED lvs
    /\ Calm

Write(i, c) == Put(vg(i), i, [lv(i) EXCEPT !.content = c])

\* CloneDevice and Sync reach the end.  Copy writes the chunks that are not zero and
\* no others.  Of several goroutines, the one whose chunk is the last marks it as done
\* before it reports an error; Copy may then return without having seen the error.
CopyDone(i) ==
    /\ pc[i] = "copying"
    /\ \/ lv(i) = NoLV /\ ExitFail(i) /\ UNCHANGED lvs /\ Calm
       \/ lv(i) # NoLV /\ Write(i, lv(i).content \cup {"data"}) /\ ExitOK(i) /\ Calm
       \/ /\ lv(i) # NoLV /\ Write(i, lv(i).content \cup {"torn"}) /\ ExitOK(i)
          /\ Failure /\ UNCHANGED kills

\* The source is a volume, which its user may write to at any time.
SourceChanges(i) == Info[Info[i].source].kind = "volume"

\* A copy ends early.  Where the source is zero by the time of the next attempt,
\* that attempt skips what this one has written.
CopyStops(i) ==
    /\ pc[i] = "copying" /\ lv(i) # NoLV
    /\ SourceChanges(i)
    /\ Write(i, lv(i).content \ {"zeros"})

-----------------------------------------------------------------------------
(* CreateSnapshot, of a volume or, for the fast clone, of a snapshot.      *)

SnapSource(i) ==
    /\ pc[i] = "srclvs"
    /\ IF lv(Info[i].source) = NoLV THEN ExitFail(i) ELSE Step(i, "snaplvs")
    /\ UNCHANGED lvs
    /\ Calm

SnapLookup(i) ==
    /\ pc[i] = "snaplvs"
    /\ \/ lv(i) = NoLV /\ Step(i, "snapcreate")
       \/ /\ lv(i) # NoLV
          /\ IF lv(i).origin = Info[i].source THEN ExitOK(i) ELSE ExitFail(i)
    /\ UNCHANGED lvs
    /\ Calm

\* Faulty variant: the snapshot is taken of the pool.
SnapLVOfPool(i) ==
    [seg |-> lv(Info[i].source).seg, size |-> Info[i].size,
     origin |-> Pool, content |-> Whole]

\* lvcreate -s: a thin snapshot has the size of its origin, whatever is asked.
SnapLV(i) ==
    [seg |-> lv(Info[i].source).seg,
     size |-> IF Thin(i) THEN lv(Info[i].source).size ELSE Info[i].size,
     origin |-> Info[i].source, content |-> Whole]

CanSnap(i) == lv(i) = NoLV /\ lv(Info[i].source) # NoLV

SnapCreate(i) ==
    /\ pc[i] = "snapcreate"
    /\ \/ ~CanSnap(i) /\ ExitFail(i) /\ UNCHANGED lvs
       \/ CanSnap(i) /\ Put(vg(i), i, SnapLV(i)) /\ ExitOK(i)
    /\ Calm

-----------------------------------------------------------------------------
(* RemoveLVSInVG, DeleteSnapshot and RemoveThinPool.                       *)

\* deletelv of a thin volume goes on to RemoveThinPool.
AfterRemove(i) ==
    IF Info[i].kind = "volume" /\ Thin(i) THEN Step(i, "count") ELSE ExitOK(i)

\* Faulty variant: a snapshot is looked up without its "lvm-" prefix.
RemoveLookupRawName(i) ==
    /\ pc[i] = "rmlvs"
    /\ IF lv(i) = NoLV \/ Info[i].kind = "snapshot" THEN AfterRemove(i) ELSE Step(i, "remove")
    /\ UNCHANGED lvs
    /\ Calm

\* An LV that does not exist counts as deleted.
RemoveLookup(i) ==
    /\ pc[i] = "rmlvs"
    /\ IF lv(i) = NoLV THEN AfterRemove(i) ELSE Step(i, "remove")
    /\ UNCHANGED lvs
    /\ Calm

\* lvremove -y
Remove(i) ==
    /\ pc[i] = "remove"
    /\ IF CanRemove(vg(i), i)
       THEN lvremove(vg(i), i) /\ AfterRemove(i)
       ELSE UNCHANGED lvs /\ ExitFail(i)
    /\ Calm

ThinVolumes(g) == {n \in Items : lvs[g][n] # NoLV /\ lvs[g][n].seg = "thin"}

\* Faulty variant: the pool is removed whatever its thin_count.
CountThinAnyway(i) ==
    /\ pc[i] = "count"
    /\ IF pool(i) # NoLV /\ pool(i).seg = "thin-pool"
       THEN Step(i, "poollvs") ELSE ExitOK(i)
    /\ UNCHANGED lvs
    /\ Calm

\* getThinPoolAndCounts: only a thin-pool with no thin volume is removed.
CountThin(i) ==
    /\ pc[i] = "count"
    /\ IF pool(i) # NoLV /\ pool(i).seg = "thin-pool" /\ ThinVolumes(vg(i)) = {}
       THEN Step(i, "poollvs") ELSE ExitOK(i)
    /\ UNCHANGED lvs
    /\ Calm

PoolLookup(i) ==
    /\ pc[i] = "poollvs"
    /\ IF pool(i) = NoLV THEN ExitOK(i) ELSE Step(i, "poolremove")
    /\ UNCHANGED lvs
    /\ Calm

PoolRemove(i) ==
    /\ pc[i] = "poolremove"
    /\ IF CanRemove(vg(i), Pool)
       THEN lvremove(vg(i), Pool) /\ ExitOK(i)
       ELSE UNCHANGED lvs /\ ExitFail(i)
    /\ Calm

-----------------------------------------------------------------------------
(* Failures.                                                               *)

\* A command that changes the volume group is cut short: it was carried out, or
\* it was not; lvcreate of a pool may also leave its data LV.
CutShort(i) ==
    \/ UNCHANGED lvs
    \/ /\ pc[i] = "mkpool" /\ pool(i) = NoLV
       /\ \E s \in {"linear", "thin-pool"} : Put(vg(i), Pool, PoolLV(s))
    \/ /\ pc[i] = "lvcreate" /\ CanCreate(i)
       /\ \E c \in Fresh(i) : Put(vg(i), i, NewLV(i, c))
    \/ CopyStops(i)
    \/ pc[i] = "snapcreate" /\ CanSnap(i) /\ Put(vg(i), i, SnapLV(i))
    \/ pc[i] = "remove" /\ CanRemove(vg(i), i) /\ lvremove(vg(i), i)
    \/ /\ pc[i] \in {"poolremove", "rbremove"}
       /\ CanRemove(vg(i), Pool) /\ lvremove(vg(i), Pool)

\* A command fails or exceeds its timeout (of the pool's lvcreate, whose timeout
\* CreatePool handles, only the former), an open or the copy fails, the pool is
\* inactive or unhealthy: the helper reports an error.
CommandFails(i) ==
    /\ pc[i] # "off"
    /\ Failure /\ UNCHANGED kills
    /\ IF pc[i] = "mkpool" THEN UNCHANGED lvs ELSE CutShort(i)
    /\ ExitFail(i) /\ NoteRaced /\ UNCHANGED Info

\* The container dies: the pod's deadline, its deletion, the node.
Kill(i) ==
    /\ pc[i] # "off"
    /\ kills < MaxKills
    /\ kills' = kills + 1
    /\ UNCHANGED failures
    /\ CutShort(i)
    /\ ExitFail(i) /\ NoteRaced /\ UNCHANGED Info

-----------------------------------------------------------------------------
Init ==
    /\ Info \in Infos
    /\ lvs = [g \in VGs |-> [n \in LVNames |-> NoLV]]
    /\ life = [i \in Items |-> "new"]
    /\ pc = [i \in Items |-> "off"]
    /\ raced = {} /\ overtaken = {}
    /\ failures = 0
    /\ kills = 0

HelperStep(i) ==
    /\ \/ Lookup(i)
       \/ PreparePool(i)
       \/ CheckPool(i)
       \/ CreatePool(i)
       \/ RollbackLookup(i)
       \/ RollbackRemove(i)
       \/ CreateLV(i)
       \/ OpenSource(i)
       \/ CopyDone(i)
       \/ SnapSource(i)
       \/ SnapLookup(i)
       \/ SnapCreate(i)
       \/ RemoveLookup(i)
       \/ Remove(i)
       \/ CountThin(i)
       \/ PoolLookup(i)
       \/ PoolRemove(i)
    /\ NoteRaced /\ UNCHANGED Info

Next ==
    \E i \in Items :
        \/ Launch(i)
        \/ BeginDelete(i)
        \/ HelperStep(i)
        \/ CommandFails(i)
        \/ Kill(i)

Spec == Init /\ [][Next]_vars

\* The CO retries what is not done, a helper that can take a step takes it.
RetrySpec ==
    /\ Spec
    /\ \A i \in Items : SF_vars(Launch(i)) /\ WF_vars(HelperStep(i))

-----------------------------------------------------------------------------
(* Properties.                                                             *)

TypeOK ==
    /\ Info \in Infos
    /\ lvs \in [VGs -> [LVNames -> LV \cup {NoLV}]]
    /\ life \in [Items -> Lives]
    /\ pc \in [Items -> PCs]
    /\ raced \subseteq Items /\ overtaken \subseteq Items
    /\ failures \in 0..MaxFailures
    /\ kills \in 0..MaxKills

\* Thick snapshots go with their volume.
Lost(i) == life[i] = "ready" /\ (Info[i].kind = "volume" \/ Thin(i)) /\ lv(i) = NoLV

\* A volume whose creation was acknowledged, and a thin snapshot, keep their LV
\* until the CO asks for the deletion, whatever helpers of other items do in the
\* volume group (lvremove -y takes dependents along).  The exception the code
\* leaves: an LV made while another helper is about to remove the pool, which it has
\* counted, or found incomplete, before.
ReadyExists == \A i \in Items : Lost(i) => i \in raced

\* Once a deletion was acknowledged the LV is gone and never comes back, though
\* creations may have been killed or timed out with the LV already made.
GoneIsGone == \A i \in Items : life[i] = "gone" => lv(i) = NoLV

\* An acknowledged clone holds all the data of its source, as the copy read it, though
\* an earlier attempt may have been killed in the middle of the copy and left an LV of
\* the right size; unless the copy lost the error of a chunk.  A thin clone of a
\* snapshot, copied or not, also reads as zeros wherever the snapshot does.  A striped
\* LV may show older blocks there, a clone of a volume what an earlier attempt wrote.
CloneComplete ==
    \A i \in Items :
        life[i] = "ready" /\ lv(i) # NoLV =>
            /\ "data" \in lv(i).content \/ "torn" \in lv(i).content
            /\ IsClone(i) /\ Thin(i) /\ ~SourceChanges(i) => "zeros" \in lv(i).content

\* The rollback of a timed-out pool creation removes what that creation left, never
\* a pool that works (lvs first, lvremove -y later, other helpers between), unless
\* another rollback has removed it first and a third helper has made the pool anew.
RollbackSparesPool ==
    [][\A i \in Items :
         RollbackRemove(i) /\ pool(i) # NoLV /\ i \notin overtaken
             => pool(i).seg = "linear"]_vars

\* An incomplete pool that no helper is about to remove: prepareThinPool refuses it.
Blocked(g) ==
    /\ lvs[g][Pool] # NoLV
    /\ lvs[g][Pool].seg = "linear"
    /\ \A i \in Items : vg(i) = g => pc[i] \notin {"rblvs", "rbremove"}

\* A pool creation that times out does not block its volume group: unless a
\* helper was killed or more than one command failed, an incomplete pool
\* exists only while its creator is about to remove it.
IncompletePoolRemoved ==
    \A g \in VGs : Blocked(g) => kills > 0 \/ failures > 1

\* Retries reach the end: whatever a failed or killed attempt has left in the
\* volume group, a later attempt accepts it or replaces it.  What retries do not get
\* past is an incomplete pool, and a source that went with its pool or, as a thick
\* snapshot, with its volume.
Settles ==
    ([]((\A g \in VGs : ~Blocked(g)) /\ (\A i \in Items : life[i] = "ready" => lv(i) # NoLV))) =>
        \A i \in Items : []<>(life[i] \in {"ready", "gone"})

\* lvm.go:1138, RemoveThinPool: "if the vg is not empty, we should skip this
\* steps".  The pool is removed only when no thin volume is left in it.
PoolRemovedWhenEmpty ==
    [][\A i \in Items :
         pc[i] = "poolremove" /\ pool(i) # NoLV /\ lvs'[vg(i)][Pool] = NoLV
             => ThinVolumes(vg(i)) = {}]_vars

-----------------------------------------------------------------------------
(* The inductive invariant behind the safety properties (see              *)
(* ProvisionerProofs).                                                     *)

\* Items made by lvcreate -s: snapshots and fast clones.
Snaps(i) == Info[i].kind = "snapshot" \/ (IsClone(i) /\ FastClone(i))

\* Where a helper is tells what it was started for; past rmlvs and remove the LV
\* of a deletion is gone.
OnCourse(i) ==
    /\ pc[i] \in {"lookup", "pool", "checkpool", "mkpool", "rblvs", "rbremove", "lvcreate"} =>
          life[i] = "new" /\ Info[i].kind = "volume" /\ ~Snaps(i)
    /\ pc[i] \in {"opensrc", "copying"} => life[i] = "new" /\ IsClone(i) /\ ~Snaps(i)
    /\ pc[i] \in {"srclvs", "snaplvs", "snapcreate"} => life[i] = "new" /\ Snaps(i)
    /\ pc[i] \in {"rmlvs", "remove"} => life[i] = "deleting"
    /\ pc[i] \in {"count", "poollvs", "poolremove"} => life[i] = "deleting" /\ lv(i) = NoLV

ControlInv == \A i \in Items : OnCourse(i)

\* A volume group holds its own items and at most one pool, thin LVs live in a pool
\* that works, and no striped volume depends on another LV.
ShapeInv ==
    /\ \A g \in VGs : lvs[g][Pool] \in {NoLV, PoolLV("linear"), PoolLV("thin-pool")}
    /\ \A g \in VGs, i \in Items :
          lvs[g][i] # NoLV =>
              /\ g = vg(i)
              /\ lvs[g][i].seg = IF Thin(i) THEN "thin" ELSE "striped"
              /\ Thin(i) => lvs[g][Pool] = PoolLV("thin-pool")
              /\ ~Thin(i) /\ Info[i].kind = "volume" => lvs[g][i].origin = None

Ended(v) == "data" \in v.content \/ "torn" \in v.content

\* The LVs that may hold blocks their source does not have.
MayBeStale(i) == IsClone(i) /\ ~Snaps(i) /\ (~Thin(i) \/ SourceChanges(i))

\* What no copy has been to the end of is not acknowledged.
WholeInv ==
    \A i \in Items :
        lv(i) # NoLV /\ ~Ended(lv(i)) => life[i] = "new" /\ IsClone(i) /\ ~Snaps(i)

BlankInv ==
    \A i \in Items : lv(i) # NoLV /\ "zeros" \notin lv(i).content => MayBeStale(i)

\* Every thin LV in a pool that is about to be removed was made after the decision.
RaceInv ==
    \A i, j \in Items :
        /\ vg(i) = vg(j) /\ pc[j] \in {"poollvs", "poolremove", "rbremove"}
        /\ Thin(i) /\ lv(i) # NoLV
        => i \in raced

\* A rollback that nobody has overtaken finds what it has seen.
RollbackInv ==
    \A i \in Items :
        pc[i] = "rbremove" /\ i \notin overtaken => pool(i) = PoolLV("linear")

\* Without a kill or a second failure an incomplete pool has its creator behind it.
CreatorInv ==
    \A g \in VGs :
        lvs[g][Pool] = PoolLV("linear") =>
            \/ kills > 0 \/ failures > 1
            \/ failures = 1 /\ \E i \in Items : vg(i) = g /\ pc[i] \in {"rblvs", "rbremove"}

IInv ==
    /\ TypeOK /\ ControlInv /\ ShapeInv /\ WholeInv /\ BlankInv /\ GoneIsGone
    /\ RaceInv /\ ReadyExists /\ RollbackInv /\ CreatorInv

=============================================================================

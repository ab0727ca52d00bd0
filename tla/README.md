# csi-driver-lvm: specifications, model checking and proofs

TLA+ modules for the CSI driver that provisions LVM volumes on Kubernetes nodes:
what its parts do, what they promise each other, and which of the promises hold
when calls overlap, time out, are retried, or die half way. TLC checks small
instances; TLAPS proves the safety properties (one of them under conditions the code
does not check) and both refinements for all instances.

Paths below are relative to `src/`.

## 1. Inventory

The driver is one binary that runs on every node (`main.go`, `pkg/lvm/server.go`).
The CSI sidecars call its controller service; the kubelet calls its node service.
The controller never runs LVM itself: it starts a **helper pod** on the node that
holds the volume group, and the container of that pod (`cmd/provisioner`) runs a
sequence of LVM commands.

    external-provisioner / external-snapshotter  (CO: retries, deadlines)
        |  gRPC: CreateVolume DeleteVolume CreateSnapshot DeleteSnapshot
    controller server  --- Kubernetes API: PV, Node, VolumeSnapshotContent, ConfigMap
        |  runHelper (one process-wide mutex around get/list/create)
    helper pod  lvm-<action>-<name> | snap-<action>-<name>   on the volume's node
        |  createlv clonelv deletelv createsnap deletesnap
    LVM volume group  (thin pool <vg>-thinpool, LVs, snapshots)
        |
    node server: NodePublish / NodeUnpublish / NodeExpand   (kubelet)

| Component | State | Operations | What makes it correct |
|---|---|---|---|
| Helper pods (`pkg/lvm/helper_pod.go`) | pods in the API server, `helperAdmissionMu` of each process, calls under way | find, admit, create, reuse, retire, force-delete, wait, clean up | the limit per node and volume group; OK only for a helper that did *this* work; live helpers are not deleted; calls return; retries converge |
| Provisioner commands and LVM operations (`cmd/provisioner`, `pkg/lvm/lvm.go`) | the LVs of a volume group | create, clone, snapshot, delete, thin-pool creation, rollback and removal | what was acknowledged exists, what was deleted is gone, a clone holds the data of its source, a timed-out pool creation neither blocks the group nor destroys a pool |
| Controller, snapshots (`pkg/lvm/controllerserver.go` 597-1068) | location ConfigMaps, helper pods, LVs | CreateSnapshot, DeleteSnapshot for dynamic, imported and annotated contents | the record leads to every snapshot; an acknowledged deletion is real; deletion settles under retries |
| Controller, volumes (`controllerserver.go` 60-596) | PersistentVolumes, Nodes, contents (read only), helper pods | CreateVolume (new or a clone), DeleteVolume, node and clone-source selection | the PV leads back to the LV; it is where the CO allows it; an acknowledged clone has room for its source; deletion settles, also without the node |
| Node server (`pkg/lvm/nodeserver.go`, mount and resize part of `lvm.go`) | mounts, target paths, LV and filesystem sizes, active LVs | publish, unpublish, expand | published targets are mounted as asked, unpublished ones are clean, an interrupted expansion is finished, data is never formatted over |
| StorageClass webhook (`pkg/webhook/storageclass`) | StorageClasses, Nodes (read only) | validation of create and update | one volume-group type per node and group; a class keeps its node |
| Validation (`pkg/lvm/validation.go`), configuration (`helper_config.go`) | none | pure functions | agree with what the helpers assume |
| Device copy (vendored `harvester/go-common/io`) | source and target devices | chunked copy that skips zero chunks | the target equals the source, which takes a blank target |
| Identity server, gRPC wiring | none | constant answers | - |

Hard behaviours: handlers run concurrently in one process and during an upgrade
or failover in two; every Kubernetes call is a point where others move; pods are
addressed by *name*, so between reading a pod and deleting it, it may be another
one; a call that runs out of time leaves a helper that goes on working; a
container may be killed between or inside LVM commands; look-then-act pairs of
LVM commands are not atomic across helpers; the answer to a call may be lost, and
the retry meets the effects of what was done. `PROJECT.json` lists these hazards
with their lines and the properties aimed at each.

## 2. Modules

| Module | Models | Instance / proofs |
|---|---|---|
| `HelperPods` | `helper_pod.go`: the protocol that finds, admits, creates, waits for and cleans up helper pods | `MCHelperPods`, `HelperPodsProofs` |
| `Provisioner` | `cmd/provisioner` over `lvm.go`: the LVM commands of the helpers in shared volume groups | `MCProvisioner`, `ProvisionerProofs` |
| `Volumes` | CreateVolume/DeleteVolume with the checks of `validation.go` | `MCVolumes`, `VolumesProofs`, `VolumesCloneProofs` |
| `Snapshots` | CreateSnapshot/DeleteSnapshot and their location records | `MCSnapshots`, `SnapshotsProofs` |
| `Contract` | what the controller promises the CO; abstract, implemented by `Volumes` and `Snapshots` | property `ContractKept` of both, proved in `VolumesProofs` and `SnapshotsProofs` |
| `NodeVolume` | the node service, command by command | `MCNodeVolume`, `NodeVolumeProofs` |
| `StorageClassWebhook` | the admission webhook for StorageClasses | `MCStorageClassWebhook`, `StorageClassWebhookProofs` |

The modules form layers. `Volumes` and `Snapshots` use a helper as something that is
joined by retries, runs on after its call and ends with success or failure or
vanishes, which is what `HelperPods` establishes; the effect of a helper there (the
LV exists / does not exist at a place, a clone is made if its source fits) is what
`Provisioner` establishes for the five commands. `Provisioner` in turn assumes of
its environment what `HelperPods` provides: one helper at a time for an item,
`MaxActive` per volume group, started again until it succeeds. `Volumes` meets
`Snapshots` in the sources of restores and `NodeVolume` in volumes that grow.

### Contract

The life of a resource as the CO sees it (`told`) against what exists on the nodes
(`exists`). A resource comes into being only while it is wanted and goes only while
its deletion is; it is reported ready only when it exists and gone only when it does
not; a resource the CO has lost track of may come or go, and a *fragile* one may
*perish* after it was reported ready. The refinement mappings
(`Promise`, `Told` in `Volumes` and `Snapshots`) map "the answer was OK" to `told`
and the LVs to `exists`; the snapshots of striped volumes are fragile, nothing of
`Volumes` is. One thing the mapping of `Volumes` makes visible: an OK of
DeleteVolume that rests on a missing PV or a missing Node object maps to *lost*, not
to *gone*, because the code has not looked at the LV. In particular a volume whose PV
could not be stored is deleted by external-provisioner, answered with OK, and stays.

### HelperPods

State: `pods` (API server, by pod name), `pc`/`op`/`cancelled`/`err` (a handler's
next API call, its operation, whether its context has ended, the result it is
about to report), `mu` (`helperAdmissionMu` per process), `ghosts` (containers
whose pod object was force-deleted), `adrift` (creates whose call has ended and which
the API server may still carry out), and the histories `landed` (operations that got
their pod that way), `succeeded` and `okd`.

One API call is one step, so between any two of a handler everybody else may move:

| Action | Code |
|---|---|
| `LockAdmission`, `GetHelper`, `AdmitHelper`, `CreateHelper` | `ensureHelper`, `admitHelper` (the early returns release the mutex: `Refuse`) |
| `UseExistingHelper`, `ReuseHelper` | `useExistingHelper`, `reuseHelper`: join, retire or refuse a pod that is there |
| `ForceDeleteHelper`, `RetireHelper` | `forceDeleteHelper`, `retireHelper`, both by name |
| `PollHelper`, `DeleteHelper` | `waitForHelper`, `helperResult`, the final `deleteHelper` of `runHelper` |
| `Deadline`, `Crash` | end of the call's context, death of the process |
| `LateCreate` | the API server carries out a create whose caller has given up or died (external) |
| `PodStarts` ... `GhostExits` | kubelet and cluster (external) |

A pod's spec is represented by the operation it was built from; two operations
may share a pod name (an upgrade changes the image or the arguments), which is the
case in which a pod found under the name is not the pod asked for. A poll that
finds the pod active, or fails while the context lives, changes nothing and is a
stutter. A create that reports an error may have been carried out, or be carried out
when the mutex has long been released and others have been admitted.

### Provisioner

State: `lvs` (per volume group, the LVs with segment type, size, origin and what a
clone's LV holds of its source: the data, the zeros), `life` (what the CO knows of an item),
`pc` (the helper's next LVM command). Each LVM command is one step: LVM holds its
volume-group lock for a command, not between two. `lvremove -y` takes dependents
with it and fails on an open device. `CommandFails` (an error or the command's
timeout) and `Kill` (the pod's deadline, its deletion, the node) cut a command
short with or without its effect; a killed pool creation may leave its linear data
LV, which `createThinPool` rolls back when it was the *timeout* that killed it.

The copy of a clone writes the chunks that are not zero. So the LV reads as zeros
where its source does only if it did before (`Fresh`: a thin LV does, a striped one
keeps what its extents held, since `lvcreate -W y` wipes signatures only) and if no
earlier attempt has written there (`CopyStops`: possible when the source is a volume
in use and has changed since). And a copy may report its end although a chunk was not
written (third case of `CopyDone`): a worker marks its chunk as done before it sends
the error.

### Volumes

State: what the CO wants of a volume and its request, PVs (attributes and affinity),
restorable snapshots, Node objects, LV sizes by place, which LVs have room for all of
their source (`roomy`), helper jobs, and the position and `volumeAction` of each call. `CreateVolume`
is the part up to the first API call: `validateVolumeCapabilities`,
`parseLVMParameters`, `validateCapacityRange`, `nodeFromAccessibility`. Then
`SnapshotSource` (the content; for an imported one its annotations, both or none, or
in a step of its own the location record),
`VolumeSource` (the PV of the source), `Clone` (size and node are compared),
`CreateHelper`, `WaitCreated`, `AnswerCreate`. DeleteVolume is `DeleteVolume` (PV and
`metadataFromPV`), `NodeAvailable`, `DeleteHelper`, `WaitDeleted`, `AnswerDelete`.
The PV is made by external-provisioner from the answer (`StorePV`, `PVOf`), may not
be storable (`GiveUpPV`), and may later vanish or be damaged; nodes may be lost, and
their pods are collected.

### Snapshots

State: what the CO wants of a handle, its VolumeSnapshotContent, PV objects,
location records, LVs, helper jobs, and the position of the call for each handle.
`SourcePV, RecordLocation, CheckRecord, CreateHelper, WaitCreated, AnswerCreate`
follow CreateSnapshot; `FindContent, PVLocation, RecordedLocation, DeleteHelper,
WaitDeleted, ForgetLocation, AnswerDelete` follow DeleteSnapshot. `Abort` ends a
call between any two of them: an API error, a deadline, a crash, or (at the last
position) a lost answer. A helper may fail, or its pod vanish, with its work done or
not. `VolumeDeleted` is DeleteVolume as a snapshot sees it: the LV of the volume goes
and, if it is striped (`Thick`), its snapshots with it (`lvremove -y`), also those that
were reported ready; a createsnap helper that comes after finds no source.

### NodeVolume

One volume, published as a block device or with a filesystem for the pods of some
targets. State: the device (size, filesystem and its size, whether a pod has written
data), whether the LV is active, for each target the *stack* of mounts and what is
below it, and the handlers under way with their next command.

| Action | Code |
|---|---|
| `PrepareTarget`, `BindMount`, `Remount` | `prepareBindMountTarget`, `performBindMount`, `remountBindReadOnly` |
| `Probe`, `Mkfs`, `MakeDirectory`, `MountFilesystem`, `ExistingMount` | `getFilesystemType`, `ensureFilesystem`, `mountFilesystem`, `validateExistingMount` |
| `Unmount`, `RemoveTarget` | `unmountTarget`, `forceUnmount`, `lazyUnmount`; `os.Remove` |
| `LookupSize`, `ExtendLV`, `ResizeFilesystem` | `extendLVS` |
| `StartPlugin` | `newNodeServer` with `VgActivate` |

Handlers ignore the context of their call, so `GiveUp` leaves a handler that goes on
beside the next one. `CommandFails` ends a handler before a command has done
anything; that a command was done and failed all the same (a timeout) is part of
`BindMount`, `Mkfs`, `MountFilesystem`, `Unmount`, `ExtendLV`. `Crash` and `Reboot`
end all handlers; a reboot also takes mounts and activation.

### StorageClassWebhook

A class is its provisioner, topologies, volume group and type. A creation reads the
nodes (`CheckNodes`), then the stored classes (`CheckClasses`), and is stored by the
API server after that (`Store`); others may be admitted and stored in between.
`Update` compares the first node of the old and the new topologies; the API server
keeps parameters and provisioner from being changed.

## 3. Runs

Run with `tlc -config <cfg> <module>`. All runs but `helper_return` and `webhook`
switch deadlock checking off: when every operation has been answered, every item
deleted or every volume, handle or target given up, the modelled CO or kubelet asks
for nothing more and the system rests.

| Run | Shows |
|---|---|
| `helper_single` | one process, two handlers, two specs of one name and a clone over two groups, a fault (a late create among them) and deadlines at the create, the wait and the cleanup: `AdmissionBound`, `OkBacked`, `OnlyTerminatingVanish`, `CleanupSparesActive` |
| `helper_return` | every call returns, with nothing assumed of the pods |
| `helper_retry` | every operation is eventually answered with OK |
| `lvm` | thin volumes with snapshot and fast clone, or a thick volume with snapshot and copies across groups; two helpers at a time, two failures and a kill: what is ready exists, deletions are final, clones hold the data of their source, rollback removes the leftover and spares complete pools, retries settle |
| `volumes` | a volume and a clone (of it or of its snapshot) on two nodes, requests with agreeing and disagreeing topologies, a fault, snapshots imported with and without annotations, a lost or damaged object or node: `PVLeadsToLV`, `PlacedAsAsked`, `CloneHasRoom`, `ContractKept`, and under retries `CallsSettle` |
| `snapshots` | a handle through creation, retention, import, deletion and reuse, a striped and a thin volume at two places, deleted volumes, vanishing and broken PVs, three faults: the record covers the snapshot, an acknowledged deletion is real, what is ready exists, `ContractKept`, and deletions settle where more than the record leads to the place (`FoundDeleteSettles`) |
| `node` | six kinds of volume and device, two pods, two handlers, a call given up; four faults for block volumes (a remount and three umounts may fail in a row), one for filesystems: `PublishedAsAsked`, `UnpublishedIsClean`, `ExpandedCovers`, `FormatSparesData`, `TargetsSettle` |
| `webhook` | two classes created, updated, deleted and created again at the same time, ten shapes of class, seven of topologies: `TypesAgree`, `NodeKept` |

Disagreements between the code and what a doc, comment, test or message says of
it, each with a run that exhibits it:

| Run | Disagreement |
|---|---|
| `helper_process_limit` | a force-deleted pod is no longer counted while its container works on: more helpers work on a volume group than the README's limit |
| `lvm_pool_race` | `RemoveThinPool` counts, then removes; a volume created in between goes with the pool (needs a limit of two helpers or more) |
| `snapshots_lost_answer` | deleting an imported content without annotations is refused for ever once its first, successful answer was lost |
| `volumes_grown_source` | the size of a source is the PV's `RequiredBytes`, which an expansion does not change: a snapshot or clone of an expanded volume may be restored into a volume that is too small for it, and acknowledged |

Where a property holds only up to a race that the code leaves open, the property
names the exception, and a history variable recognises it:

- `Provisioner.raced`: LVs made between the `lvs` and the `lvremove` of another
  helper that removes the pool (`ReadyExists`); `overtaken`: two pool creations that
  time out both roll back, and the second `lvremove` meets a pool that was completed
  in between (`RollbackSparesPool`). `IncompletePoolRemoved` excepts behaviours with
  a kill or two failures. The aspects of an LV's content except from `CloneComplete`
  what the copy does not give: zeros in a striped clone or in one of a volume in use,
  and data of which the copy lost a write error (`torn`).
- `Snapshots.Perished`: snapshots of a striped volume that was deleted (`ReadyExists`).
- `HelperPods.landed`: the pod of a late create is made outside the mutex. It is not
  counted by `AdmissionBound`, may be deleted by name in place of the pod that was
  read (`OnlyTerminatingVanish`, `CleanupSparesActive`), and its success may be taken
  for that of another spec (`OkBacked`). TLC finds a counterexample to each of
  `AdmissionBound`, `OkBacked` and `OnlyTerminatingVanish` without the exception.
- `HelperPods`: the cleanup of a call whose context has ended is by name and may hit
  the helper that a retry has created meanwhile (`CleanupSparesActive` is about calls
  within their time).
- `NodeVolume.overtaken`: two publishes of a blank volume (two pods, or a handler
  that was given up) may both probe before either formats; `mkfs.ext4` of the second
  then formats over what the pod of the first has written. `strayed`: targets that a
  handler changed after its call was given up, for instance a mount that appears
  after the target was unpublished.
- `StorageClassWebhook.listed`: classes whose admissions did not see each other
  (`TypesAgree`). The property is about classes that reach one node; several terms
  with one node each pass `validateTopologyNodes` although its comment says "LVM can
  only support one node", and an update may add any.

**Bounds.** Two handlers are enough for one to act between any two steps of
another; a third would repeat this. Two specs under one name, and a limit of 1
with a clone over two groups, make reuse, retirement and refusal happen. In
`helper_single` a deadline strikes at the create, the wait and the cleanup: elsewhere
it only makes the next API call of `ensureHelper` fail, as a fault does, before any pod
is touched (`helper_return` has deadlines at every point).
`MaxFaults`, `MaxFailures`, `MaxKills` bound how often the environment
misbehaves in one behaviour: one fault in `helper_single` and two in `helper_retry`
reach every error path (each handler's error path needs one fault; a pod that is
deleted *and* fails needs two). In the LVM runs four items cover volume, snapshot,
fast clone and copying clone. In `snapshots` one handle suffices, because a step of
one handle touches nothing of another (lemma `Others` of `SnapshotsProofs`) but for
the deletion of a volume, which the proofs treat for all its handles; two volumes at
two places let a handle return at the same and at another place. In
`volumes` two volumes and a snapshot make a source and its clone; `MaxDamage` bounds
lost or damaged objects and nodes. In `node` two handlers let one overtake another,
sizes 1 and 2 one expansion; `MaxGiveUps` bounds calls the kubelet gives up.

**Fairness.** `ReturnSpec`: a handler that can take a step takes it (Go runtime,
API server with a client timeout), `sync.Mutex` starves no waiter (its starvation
mode) and the CO's timeout comes. Nothing is assumed of pods. `RetrySpec` of
`HelperPods` adds what the sidecars and the kubelet do: unfinished operations are
called again, timeouts do not strike before the first poll every time, pods run
and terminating pods are removed. `RetrySpec` of `Provisioner` starts helpers of
unfinished items again (strongly fair: admission may be refused in between) and
lets commands end. `RetrySpec` of `Snapshots` and `Volumes`: the CO calls until it is
answered, calls proceed, helpers end or, on a lost node, are collected. `RetrySpec`
of `NodeVolume`: the plugin is restarted (its DaemonSet), handlers proceed, and the
kubelet calls for each target again and again (strongly fair: while the plugin is
down, or both of the modelled handlers are taken, no call can begin). Faults are
never fair and are bounded.

## 4. Proofs

`tlapm <Component>Proofs.tla` checks every step. Each component has one inductive
invariant, at the end of its module (`IInv`); TLC has checked it on the instance of
the component's run before it was proved. All theorems are about `Spec`, without
fairness, and hold for any value of the constants that the named assumptions allow.
The assumptions say that names, sizes and bounds have their types, that a source is
not its own clone, and that the value for "nothing" is none of the real ones; TLC
evaluates them on every run. Each bound (faults, damage, kills) is an arbitrary
natural number, so a proof covers any finite number of failures.

| Component | Property | Theorem |
|---|---|---|
| HelperPods | `TypeOK`, `AdmissionBound`, `OkBacked`, `OnlyTerminatingVanish`, `CleanupSparesActive` | `TypeCorrect`, `AdmissionBounded`, `OkIsBacked`, `NoLiveHelperVanishes`, `CleanupHitsItsOwn` |
| Provisioner | `TypeOK`, `ReadyExists`, `GoneIsGone`, `CloneComplete`, `IncompletePoolRemoved`, `RollbackSparesPool` | `ProvisionerTyped`, `ReadyVolumesExist`, `DeletedStayGone`, `ClonesAreComplete`, `IncompletePoolsGo`, `RollbacksSparePools` |
| Volumes | `TypeOK`, `PVLeadsToLV`, `PlacedAsAsked`, `ContractKept`, `CloneHasRoom` (with conditions) | `VolumesTyped`, `PVsLeadToLVs`, `LVsArePlacedAsAsked`, `VolumesKeepContract`, `ClonesHaveRoom` |
| Snapshots | `TypeOK`, `RecordCovers`, `DeletedIsGone`, `ReadyExists`, `ContractKept` | `SnapshotsTyped`, `RecordsCover`, `DeletionsAreReal`, `ReadyIsReal`, `SnapshotsKeepContract` |
| NodeVolume | `TypeOK`, `PublishedAsAsked`, `UnpublishedIsClean`, `ExpandedCovers`, `FormatSparesData` | `NodeTyped`, `TargetsArePublished`, `TargetsAreClean`, `ExpansionsCover`, `FormatsSpareData` |
| StorageClassWebhook | `TypeOK`, `NodeKept`, `TypesAgree` | `WebhookTyped`, `NodesAreKept`, `TypesDoAgree` |

**HelperPods**, for any set of requests, processes, operations, volume groups and
any limit. Assumptions: the set of processes and of helper names is finite, each
request belongs to a process, the limit is positive (`loadHelperConfig` refuses
others), model values differ from real ones.

- `TypeCorrect`: `TypeOK`, including that a call under way has an operation.
- `AdmissionBounded`: `AdmissionBound`, also for several processes, where the limit
  may be exceeded by one for each further process (the runs check one process). The property alone is not inductive: a
  request admitted by `AdmitHelper` has not yet created its pod. `AdmissionInv`
  counts admitted helpers as if they existed (`PendingNames`); `MutexInv` says that
  each process has at most one such request, so when a request is admitted, all
  pending helpers but its own belong to the other processes (lemma `PendingCount`).
- `NoLiveHelperVanishes`: with one process (`OneDriver`), `CondemnedInv` says the
  pod a request is about to force-delete or retire is still terminating or
  terminal: only another holder of the mutex, or a late create, could have replaced it.
- `OkIsBacked`: with one process and one live call per name, `SerialInv` says that
  while a call waits nobody but a late create replaces its pod by one with another spec,
  so that the end it reads is the end of its own operation.
- `CleanupHitsItsOwn`: under the same two conditions `CleanupInv` says that while a
  call that is still awaited cleans up, no other call stands past its lookup of the
  same name, and the pod there, if any, has ended.

The argument goes over what one step may do to a pod (`PodMoves`; `Lands` is the late
create, and a pod that landed is recognised until it is gone, `LateStays`) and to a call
(`CallMoves`, `OtherMoves`, `CrashMoves`); each part of `IInv` follows from these
rather than from the actions.

**Snapshots**, for any number of handles, volumes, places and faults. Assumption:
`LocOf` maps volumes to places, the striped ones are among the volumes, and the kinds
of PV changes and imports are those modelled.

- `SnapshotsTyped`, `RecordsCover`, `DeletionsAreReal`, `ReadyIsReal`: `TypeOK`,
  `RecordCovers`, `DeletedIsGone`, `ReadyExists`. Needed besides: a running create
  helper works where the record says and only until its call was answered
  (`CreateInv`); no delete helper is left at the place of a snapshot that is made or
  exists, and one that has succeeded has left nothing (`DeleteInv`); calls fit what
  the CO wants (`CallInv`). `HandleInv` of a handle is preserved by its own steps
  (`HandleStepInv`) and untouched by those of others (`Others`, `UntouchedInv`); the
  deletion of a volume concerns all its handles at once (`DeletedInv`). `ReadyExists`
  says of a ready snapshot where its LV is, and of one that perished that it is nowhere.
- `SnapshotsKeepContract`: `Snapshots` implements `Contract`. Every step of a handle
  is one of the `Move`s of what the CO was told and of the LV (`StepMoves`; the work
  of helpers, `WorkMoves`, is where `CreateInv` and `DeleteInv` are needed), and each
  `Move` is one step of the contract or none (`MoveMaps`). The deletion of a striped
  volume is the contract's `Perish` of the fragile resources it held (`DeletedMaps`).

**Provisioner**, for any items, volume groups, sizes, number of helpers, failures and
kills. Assumed of the items (`InfosAssumption`): a snapshot is taken of a volume of
its own group and type.

- Every step changes at most one volume group, in one of six ways (`Change`): the pool
  is made or half made, an LV is made, a snapshot is made, a copy reaches its end, an
  LV is removed with its dependents, the pool is removed. `PoolEffect` and `ItemEffect`
  say what each leaves of the pool and of each LV.
- `ShapeInv` is the shape that makes this enough: a group holds its own items, thin LVs
  are only where a complete pool is, and no thick volume depends on another LV.
  `ControlInv` ties the position of a helper to what it was started for, and
  `WholeInv` says that an LV whose copy has not reached its end is not acknowledged,
  and `BlankInv` that only a striped clone or one of a volume may lack the zeros of its
  source; both make `ClonesAreComplete`. `Acknowledged` is the step at which success
  becomes an OK: the LV is there and its copy has ended, or it is gone.
- `RaceInv` carries the exception of `ReadyExists`: a helper decides to remove the pool
  where no thin LV is (`Decides`), so every thin LV that goes with the pool was made
  after it looked and is in `raced`.
- `RollbackInv`: between its `lvs` and its `lvremove` a rollback has an incomplete pool
  before it, or the helper is in `overtaken`. `CreatorInv`: without a kill or a second
  failure an incomplete pool has its creator behind it; `CanRollBack` shows that the
  `lvremove` of an incomplete pool cannot be refused.

**Volumes**, for any volumes, snapshots, nodes, requests, faults and damage. The set of
nodes is assumed finite, since the code counts the nodes of a topology.

- `VolumeInv` is inductive volume by volume (`Others`: a step of one volume leaves all
  that belongs to another alone). Its parts: a call, and both helpers of a volume, work
  at the place the request leads to (`CallInv`, `CreateInv`, `DeleteInv`; lemma
  `NodeIsNamed` for `nodeFromAccessibility`), a PV leads there or nowhere (`PVInv`; lemma
  `PVPlace` for `metadataFromPV`), and create helpers are done before the OK, delete
  helpers not begun before the deletion was asked for (`PlaceInv`).
- `VolumesKeepContract`: the refinement, along the lines of `SnapshotsKeepContract`. An
  OK on a missing PV or Node maps to *lost*.
- `ClonesHaveRoom` (`VolumesCloneProofs`): `CloneHasRoom`, which the code does not keep
  in general (`volumes_grown_source`), holds under two conditions, neither of which the
  code checks: no source is expanded (`SourcesStay`, of the constants), and an imported
  snapshot of unknown size is only restored into a volume that is as large as its
  source (`AskedEnough`, in every state). The requests of the run `volumes` satisfy both.
  A clone depends on another volume and a snapshot, so the proof needs what *any* step
  keeps of them (`Keeps`, `SnapsKept`: requests stay, and a snapshot stays while it is
  being restored). `SizeInv` and `SnapInv` bound LVs and snapshots by the request of their
  volume, which is also what a PV or a content reports, if anything; so the comparison
  of newCloneVolumeAction is one of the LVs, and what a helper makes, or finds of an
  earlier attempt, has room for the source (`RoomForSource`). The theorem is about room;
  what the copy writes into it is the subject of `ClonesAreComplete`.

**NodeVolume**, for any targets, handlers, sizes, kinds of volume and number of faults
and calls given up. Assumed: the device holds data only with a filesystem.

- `SeenInv`: what a handler has seen of the device still holds when it acts on it, but
  for a format in between, which marks it `overtaken`: from this follow `FormatsSpareData`
  and, with the order of lvextend and resize, `ExpansionsCover`.
- `WaitInv` and `OneCall`: the kubelet waits for one call at a time at a target, and the
  handler fits what it wants. So what changes a target after its call was answered is a
  handler nobody waits for, and the target is in `strayed` (`TargetsArePublished`,
  `TargetsAreClean`).

**StorageClassWebhook**, for any classes, nodes and topologies. `AdmissionInv`: a class
about to be stored was compared with every class that its admission has seen, as that
class is *now*, through updates and deletions; `ListedInv` says the same of a stored
class. That updates keep this rests on `NodeKept`, which is part of the invariant: the
first node of a class never changes.

**Only model-checked.** The liveness properties (`RequestsReturn`, `Converges`, `Settles`,
`FoundDeleteSettles`, `CallsSettle`, `TargetsSettle`): liveness under fairness is beyond
the prover. No theorem speaks of the four properties that the code violates, but for
`CloneHasRoom` under the conditions above.

## 5. What is left out of the models

- Time: deadlines and timeouts may pass at any point. How the command timeout, the
  pod deadline and the CSI timeout relate is not modelled.
- Error codes: errors are distinguished only where the code acts on them. A call
  that fails ends without effect on what the CO knows.
- An API call takes effect before it returns or not at all. The one effect that may
  come after the call was given up is the creation of a pod (`LateCreate`); a delete of
  a pod, or an update of a record, that is carried out so late is not modelled.
- `EnsureVG`, activation (`lvchange -ay`), flag parsing, logging, pod layout.
- Records and annotations that were edited by hand. A snapshot made by a version
  without records whose PV is gone is reported deleted while its LV stays; the
  model starts with versions that write records.
- Claims that are deleted while a snapshot of them is being made: the snapshot
  controller's finalizer keeps them, so `VolumeDeleted` waits for it.
- Reuse of a handle where a terminal pod of its earlier life was not cleaned up: the
  pod would be joined and its old success reported. The sidecars derive names from
  UIDs, so no handle comes back this way.
- A container killed (not timed out) in the middle of creating a pool leaves a data
  LV that `checkThinPool` reports to the operator; the code does not repair it, so
  `IncompletePoolRemoved` and `Settles` except this state (`Blocked`).
- A node that is lost while a snapshot is on it: DeleteSnapshot does not look for the
  Node (DeleteVolume does), its helper never starts, and the deletion is retried
  until an operator removes the content. `FoundDeleteSettles` assumes helpers end.
- The fast restore of a thin snapshot into a larger volume keeps the size of the
  snapshot although the larger capacity is reported; the models carry the size and
  state nothing about it.
- A retry of CreateVolume with another preferred node: the pod's name has no node in
  it, and the LV of the first attempt is on the other node. external-provisioner
  keeps the selected node of a claim, so the models ask once per name.
- The chunk loop of the device copy (vendored) and its goroutines. What they leave of the
  content, the lost error included, is modelled in `Provisioner`; which chunk of a clone
  shows old blocks is not.
- NodeStageVolume, NodeUnstageVolume, NodeGetInfo, NodeGetVolumeStats and the identity
  server keep no state; ControllerPublish, ListVolumes and GetCapacity are
  unimplemented in the driver.
- Empty names and paths and invalid characters in requests; the start of the
  processes, flags and gRPC wiring.
- Containers left by force-deleted pods appear in `HelperPods` as `ghosts`, but do
  not act on `Provisioner`'s volume group yet.
- An imported snapshot of unknown size that is restored into a smaller volume:
  `preProvisionedSnapshotCloneAction` then compares the requested size with itself. The
  model has the comparison; no run asks for such a restore (see `ClonesHaveRoom`).

## 6. Plan

Every component that changes state has a module, and every safety property of the
passing runs a theorem. What is left:

1. `ghosts` of `HelperPods` (containers of force-deleted pods that work on) as further
   helpers of `Provisioner`, so that two helpers of one item overlap there.
2. A composition of `Volumes` with the helpers of `HelperPods` in place of its abstract
   jobs, and the refinement between them: that a job is joined, runs on and ends is now
   read off `HelperPods` and not proved of it.

----------------------------- MODULE NodeVolume -----------------------------
(***************************************************************************)
(* The node service for one volume: NodePublishVolume, NodeUnpublishVolume *)
(* and NodeExpandVolume of pkg/lvm/nodeserver.go on top of the mount, probe*)
(* and resize functions of pkg/lvm/lvm.go.                                 *)
(*                                                                         *)
(* A handler is a sequence of commands (blkid, mkfs, mount, umount,        *)
(* lvextend, resize2fs ...); one command is one step, and it may fail or   *)
(* exceed its timeout, done or not.  Handlers ignore the context of their  *)
(* call: when the kubelet gives a call up, its handler runs on beside that *)
(* of the next call.                                                       *)
(***************************************************************************)
EXTENDS Integers, Sequences

CONSTANTS
    Targets,    \* target paths: one per pod, used for one pod only
    Volumes,    \* the volume as it may be: how it is used, and its device
    Handlers,   \* handlers that may run at a time
    Sizes,      \* sizes of the LV and its filesystem
    Idle,       \* no handler
    MaxFaults,  \* bounds on commands that fail, crashes and reboots, by access type
    MaxGiveUps  \* bound on calls that the kubelet gives up

\* How the volume is used: by the pods of these targets, some of them read-only.
\* fs is the type that is asked for, or found; "none" if the device is blank.  data
\* says that pods have written to the filesystem.
Kind == [access : {"block", "mount"}, fs : {"ext4", "xfs"},
         pods : SUBSET Targets, ro : SUBSET Targets]
Device == [size : Sizes, fs : {"none", "ext4", "xfs"}, fsSize : Sizes \cup {0}, data : BOOLEAN]

ASSUME VolumesAssumption ==
    /\ Volumes \subseteq Kind \X Device
    /\ \A v \in Volumes : v[2].data => v[2].fs # "none"
    /\ Sizes \subseteq Nat \ {0}
ASSUME BoundsAssumption == MaxFaults \in [{"block", "mount"} -> Nat] /\ MaxGiveUps \in Nat

Ops == {"publish", "unpublish", "expand"}
Stages == {"prepare", "bind", "remount", "probe", "mkfs", "mkdir", "mount", "findmnt",
           "umount", "force", "lazy", "remove", "lvs", "lvextend", "resize"}
Call == [op : Ops, t : Targets, pc : Stages, size : Sizes \cup {0}, late : BOOLEAN,
         overtaken : BOOLEAN]
ASSUME IdleAssumption == Idle \notin Call

VARIABLES
    kind,     \* how the volume is published
    want,     \* what the kubelet wants of a target
    asked,    \* the size it wants
    told,     \* the size NodeExpandVolume has reported
    dev,      \* the device
    active,   \* the LV is active
    mnt,      \* the stack of mounts at a target, the top one last
    path,     \* what is at the target path below the mounts
    call,     \* the handlers
    up,       \* the plugin serves calls
    strayed,  \* targets that a handler has changed after its call was given up
    faults, giveUps

vars == <<kind, want, asked, told, dev, active, mnt, path, call, up, strayed, faults, giveUps>>

-----------------------------------------------------------------------------
(* The kubelet (external).                                                 *)

kubelet == <<want, asked, told>>
node == <<dev, active, mnt, path>>

Block == kind.access = "block"

\* The call the kubelet is waiting for at a target, if any.
Waiting(t) == \E c \in Handlers : call[c] # Idle /\ call[c].t = t /\ ~call[c].late

WantPublish(t) ==
    /\ want[t] = "none" /\ t \in kind.pods
    /\ want' = [want EXCEPT ![t] = "publish"]
    /\ UNCHANGED <<kind, asked, told, node, call, up, strayed, faults, giveUps>>

\* The pod is deleted, published or not.
WantUnpublish(t) ==
    /\ want[t] \in {"publish", "published"}
    /\ want' = [want EXCEPT ![t] = "unpublish"]
    /\ UNCHANGED <<kind, asked, told, node, call, up, strayed, faults, giveUps>>

\* The claim is resized.
WantExpand(size) ==
    /\ size > asked /\ size > dev.size
    /\ asked' = size
    /\ UNCHANGED <<kind, want, told, node, call, up, strayed, faults, giveUps>>

Begin(c, t, op, pc, size) ==
    /\ call[c] = Idle /\ ~Waiting(t) /\ up
    /\ call' = [call EXCEPT ![c] = [op |-> op, t |-> t, pc |-> pc, size |-> size,
                                    late |-> FALSE, overtaken |-> FALSE]]
    /\ UNCHANGED <<kind, kubelet, node, up, strayed, faults, giveUps>>

NodePublishVolume(c, t) ==
    want[t] = "publish" /\ Begin(c, t, "publish", IF Block THEN "prepare" ELSE "probe", 0)

NodeUnpublishVolume(c, t) == want[t] = "unpublish" /\ Begin(c, t, "unpublish", "umount", 0)

NodeExpandVolume(c, t) ==
    want[t] = "published" /\ asked > told /\ Begin(c, t, "expand", "lvs", asked)

\* The deadline of a call passes: the kubelet calls again, the handler goes on.
GiveUp(c) ==
    /\ call[c] # Idle /\ ~call[c].late
    /\ giveUps < MaxGiveUps
    /\ giveUps' = giveUps + 1
    /\ call' = [call EXCEPT ![c].late = TRUE]
    /\ UNCHANGED <<kind, kubelet, node, up, strayed, faults>>

\* A pod that has the filesystem mounted writes to it.
PodWrites(t) ==
    /\ want[t] = "published" /\ ~Block /\ mnt[t] # <<>> /\ mnt[t][Len(mnt[t])] = "rw"
    /\ ~dev.data
    /\ dev' = [dev EXCEPT !.data = TRUE]
    /\ UNCHANGED <<kind, kubelet, active, mnt, path, call, up, strayed, faults, giveUps>>

-----------------------------------------------------------------------------
(* Steps of a handler.                                                     *)

At(c, pc) == call[c] # Idle /\ call[c].pc = pc
target(c) == call[c].t

Goto(c, pc) == call' = [call EXCEPT ![c].pc = pc] /\ UNCHANGED kubelet

\* The call ends with an error; the kubelet will call again.
Fail(c) == call' = [call EXCEPT ![c] = Idle] /\ UNCHANGED kubelet

\* The call ends with OK, which only the kubelet that waits for it hears.
OK(c) ==
    /\ call' = [call EXCEPT ![c] = Idle]
    /\ UNCHANGED asked
    /\ IF call[c].late THEN UNCHANGED <<want, told>>
       ELSE IF call[c].op = "expand" THEN told' = call[c].size /\ UNCHANGED want
       ELSE /\ UNCHANGED told
            /\ want' = [want EXCEPT ![target(c)] =
                  CASE call[c].op = "publish" /\ @ = "publish" -> "published"
                    [] call[c].op = "unpublish" -> "unpublished"
                    [] OTHER -> @]

Calm == UNCHANGED <<faults, giveUps>>
Fault == faults < MaxFaults[kind.access] /\ faults' = faults + 1 /\ UNCHANGED giveUps

\* Which targets a handler has changed that nobody waits for.
Marked(c) ==
    /\ strayed' = IF call[c].late /\ <<mnt', path'>> # <<mnt, path>>
                  THEN strayed \cup {target(c)} ELSE strayed
    /\ UNCHANGED <<kind, up>>

Top(s) == s[Len(s)]
Push(t, mode) == mnt' = [mnt EXCEPT ![t] = Append(@, mode)]
Popped(t) == [mnt EXCEPT ![t] = IF @ = <<>> THEN @ ELSE SubSeq(@, 1, Len(@) - 1)]
Mode(t) == IF t \in kind.ro THEN "ro" ELSE "rw"

-----------------------------------------------------------------------------
(* publishBlockVolume                                                      *)

\* prepareBindMountTarget: the target file is made, or one that is there is used.
PrepareTarget(c) ==
    /\ At(c, "prepare")
    /\ path' = [path EXCEPT ![target(c)] = "file"]
    /\ Goto(c, "bind")
    /\ UNCHANGED <<dev, active, mnt>> /\ Marked(c) /\ Calm

\* performBindMount: mount --bind stacks on what is mounted at the target, or says that
\* it is already mounted; it may be killed by its timeout when the mount is there.
BindMount(c) ==
    LET bound == (IF target(c) \in kind.ro THEN Goto(c, "remount") ELSE OK(c)) /\ Calm
    IN  /\ At(c, "bind")
        /\ IF active /\ path[target(c)] = "file"
           THEN \/ Push(target(c), "rw") /\ (bound \/ (Fail(c) /\ Fault))
                \/ mnt[target(c)] # <<>> /\ UNCHANGED mnt /\ bound
           ELSE UNCHANGED mnt /\ Fail(c) /\ Calm
        /\ UNCHANGED <<dev, active, path>> /\ Marked(c)

\* Faulty variant: the error of the remount is not looked at.
RemountUnchecked(c) ==
    /\ At(c, "remount")
    /\ \/ /\ mnt[target(c)] # <<>>
          /\ mnt' = [mnt EXCEPT ![target(c)][Len(mnt[target(c)])] = "ro"]
          /\ Calm
       \/ UNCHANGED mnt /\ Fault
    /\ OK(c)
    /\ UNCHANGED <<dev, active, path>> /\ Marked(c)

\* remountBindReadOnly: the mount on top becomes read-only, or it is unmounted.
Remount(c) ==
    /\ At(c, "remount")
    /\ \/ /\ mnt[target(c)] # <<>>
          /\ mnt' = [mnt EXCEPT ![target(c)][Len(mnt[target(c)])] = "ro"]
          /\ OK(c) /\ Calm
       \/ mnt[target(c)] = <<>> /\ UNCHANGED mnt /\ Goto(c, "umount") /\ Calm
       \/ UNCHANGED mnt /\ Goto(c, "umount") /\ Fault
    /\ UNCHANGED <<dev, active, path>> /\ Marked(c)

-----------------------------------------------------------------------------
(* publishFilesystemVolume                                                 *)

\* Faulty variant: whatever is not the filesystem that is asked for is formatted.
ProbeOther(c) ==
    /\ At(c, "probe")
    /\ IF ~active THEN Fail(c)
       ELSE Goto(c, IF dev.fs = kind.fs THEN "mkdir" ELSE "mkfs")
    /\ UNCHANGED node /\ Marked(c) /\ Calm

\* getFilesystemType and ensureFilesystem: only a blank device is formatted, and
\* one with another filesystem is refused.
Probe(c) ==
    /\ At(c, "probe")
    /\ IF ~active THEN Fail(c)
       ELSE CASE dev.fs = "none" -> Goto(c, "mkfs")
              [] dev.fs = kind.fs -> Goto(c, "mkdir")
              [] OTHER -> Fail(c)
    /\ UNCHANGED node /\ Marked(c) /\ Calm

\* mkfs refuses a device that is mounted, and mkfs.xfs one that has a filesystem; it
\* may be done and fail all the same.
Mkfs(c) ==
    /\ At(c, "mkfs")
    /\ IF (\E t \in Targets : mnt[t] # <<>>) \/ (kind.fs = "xfs" /\ dev.fs # "none")
       THEN UNCHANGED dev /\ Fail(c) /\ Calm
       ELSE /\ dev' = [dev EXCEPT !.fs = kind.fs, !.fsSize = dev.size, !.data = FALSE]
            /\ \E failed \in BOOLEAN :
                  /\ call' = [d \in Handlers |->
                        IF d = c THEN IF failed THEN Idle ELSE [call[c] EXCEPT !.pc = "mkdir"]
                        ELSE IF At(d, "mkfs") THEN [call[d] EXCEPT !.overtaken = TRUE]
                        ELSE call[d]]
                  /\ IF failed THEN Fault ELSE Calm
            /\ UNCHANGED kubelet
    /\ UNCHANGED <<active, mnt, path>> /\ Marked(c)

\* MkdirAll
MakeDirectory(c) ==
    /\ At(c, "mkdir")
    /\ path' = [path EXCEPT ![target(c)] = "dir"]
    /\ Goto(c, "mount")
    /\ UNCHANGED <<dev, active, mnt>> /\ Marked(c) /\ Calm

\* mount reports "already mounted" where the target has the filesystem, and where
\* another target has it in the other mode.
AlreadyMounted(t) == mnt[t] # <<>> \/ \E u \in Targets : mnt[u] # <<>> /\ Top(mnt[u]) # Mode(t)

\* performFilesystemMount; the mount may be there when mount, or the chmod after it,
\* fails.
MountFilesystem(c) ==
    /\ At(c, "mount")
    /\ IF path[target(c)] # "dir" \/ ~active \/ dev.fs # kind.fs
       THEN UNCHANGED mnt /\ Fail(c) /\ Calm
       ELSE IF AlreadyMounted(target(c)) THEN UNCHANGED mnt /\ Goto(c, "findmnt") /\ Calm
       ELSE Push(target(c), Mode(target(c))) /\ ((OK(c) /\ Calm) \/ (Fail(c) /\ Fault))
    /\ UNCHANGED <<dev, active, path>> /\ Marked(c)

\* validateExistingMount
ExistingMount(c) ==
    /\ At(c, "findmnt")
    /\ IF mnt[target(c)] # <<>> /\ (target(c) \in kind.ro => Top(mnt[target(c)]) = "ro")
       THEN OK(c) ELSE Fail(c)
    /\ UNCHANGED node /\ Marked(c) /\ Calm

-----------------------------------------------------------------------------
(* NodeUnpublishVolume                                                     *)

\* unmountTarget, forceUnmount, lazyUnmount: one mount is taken off the target, or
\* none is there; the next stronger umount follows one that failed or timed out.
\* As part of a publish (after a failed remount) the result is ignored.
Unmount(c, stage) ==
    /\ At(c, stage)
    /\ \/ /\ mnt' = Popped(target(c))
          /\ IF call[c].op = "unpublish" THEN Goto(c, "remove") ELSE Fail(c)
          /\ Calm
       \/ /\ mnt' \in {mnt, Popped(target(c))}
          /\ CASE stage = "umount" -> Goto(c, "force")
               [] stage = "force" -> Goto(c, "lazy")
               [] stage = "lazy" -> Fail(c)
          /\ Fault
       \/ /\ stage = "force"
          /\ UNCHANGED mnt
          /\ Fail(c)
          /\ Fault
    /\ UNCHANGED <<dev, active, path>> /\ Marked(c)

\* Faulty variant: the target is left where it cannot be removed.
RemoveIgnored(c) ==
    /\ At(c, "remove")
    /\ path' = IF mnt[target(c)] = <<>> THEN [path EXCEPT ![target(c)] = "none"] ELSE path
    /\ OK(c)
    /\ UNCHANGED <<dev, active, mnt>> /\ Marked(c) /\ Calm

\* os.Remove: a target that is still a mount point is busy.
RemoveTarget(c) ==
    /\ At(c, "remove")
    /\ IF mnt[target(c)] = <<>>
       THEN path' = [path EXCEPT ![target(c)] = "none"] /\ OK(c)
       ELSE UNCHANGED path /\ Fail(c)
    /\ UNCHANGED <<dev, active, mnt>> /\ Marked(c) /\ Calm

-----------------------------------------------------------------------------
(* NodeExpandVolume                                                        *)

\* Faulty variant: an LV that is large enough needs nothing more.
LookupSizeDone(c) ==
    /\ At(c, "lvs")
    /\ IF path[target(c)] = "none" THEN Fail(c)
       ELSE IF dev.size >= call[c].size THEN OK(c) ELSE Goto(c, "lvextend")
    /\ UNCHANGED node /\ Marked(c) /\ Calm

\* isBlockVolumePath, getLogicalVolumeByName, ensureLogicalVolumeSize
LookupSize(c) ==
    /\ At(c, "lvs")
    /\ IF path[target(c)] = "none" THEN Fail(c)
       ELSE IF dev.size < call[c].size THEN Goto(c, "lvextend")
       ELSE IF Block THEN OK(c) ELSE Goto(c, "resize")
    /\ UNCHANGED node /\ Marked(c) /\ Calm

\* Faulty variant: the LV is extended by the size that is asked for.
ExtendLVBy(c) ==
    /\ At(c, "lvextend")
    /\ dev' = [dev EXCEPT !.size = @ + call[c].size]
    /\ IF Block THEN OK(c) ELSE Goto(c, "resize")
    /\ UNCHANGED <<active, mnt, path>> /\ Marked(c) /\ Calm

\* lvextend refuses a size that is not larger; it may time out when it is done.
ExtendLV(c) ==
    /\ At(c, "lvextend")
    /\ \/ /\ dev.size < call[c].size
          /\ dev' = [dev EXCEPT !.size = call[c].size]
          /\ IF Block THEN OK(c) ELSE Goto(c, "resize")
          /\ Calm
       \/ dev.size >= call[c].size /\ UNCHANGED dev /\ Fail(c) /\ Calm
       \/ /\ dev.size < call[c].size
          /\ dev' = [dev EXCEPT !.size = call[c].size]
          /\ Fail(c)
          /\ Fault
    /\ UNCHANGED <<active, mnt, path>> /\ Marked(c)

\* resizeFilesystem: resize2fs and xfs_growfs grow a filesystem that is mounted
\* writable to the size of its device.
ResizeFilesystem(c) ==
    /\ At(c, "resize")
    /\ IF dev.fs # "none" /\ \E t \in Targets : mnt[t] # <<>> /\ Top(mnt[t]) = "rw"
       THEN dev' = [dev EXCEPT !.fsSize = dev.size] /\ OK(c)
       ELSE UNCHANGED dev /\ Fail(c)
    /\ UNCHANGED <<active, mnt, path>> /\ Marked(c) /\ Calm

-----------------------------------------------------------------------------
(* Faults.                                                                 *)

\* A command fails and has changed nothing: the call ends with its error.  (What
\* follows a failed remount or umount is theirs.)
CommandFails(c) ==
    /\ call[c] # Idle /\ call[c].pc \notin {"remount", "umount", "force", "lazy"}
    /\ Fault
    /\ Fail(c)
    /\ UNCHANGED <<kind, node, up, strayed>>

\* The plugin dies, with the commands of its handlers.
Crash ==
    /\ up /\ Fault
    /\ up' = FALSE
    /\ call' = [c \in Handlers |-> Idle]
    /\ UNCHANGED <<kind, kubelet, node, strayed>>

\* The node reboots: no mount and no active LV is left, the target paths are, and
\* the kubelet publishes again what it wants published.
Reboot ==
    /\ Fault
    /\ up' = FALSE /\ active' = FALSE
    /\ call' = [c \in Handlers |-> Idle]
    /\ mnt' = [t \in Targets |-> <<>>]
    /\ want' = [t \in Targets |-> IF want[t] = "published" THEN "publish" ELSE want[t]]
    /\ UNCHANGED <<kind, asked, told, dev, path, strayed>>

\* Faulty variant: the volume groups are not activated.
StartPluginOnly ==
    /\ ~up
    /\ up' = TRUE
    /\ UNCHANGED <<kind, kubelet, node, call, strayed, faults, giveUps>>

\* newNodeServer: VgActivate before the first call is served.
StartPlugin ==
    /\ ~up
    /\ up' = TRUE /\ active' = TRUE
    /\ UNCHANGED <<kind, kubelet, dev, mnt, path, call, strayed, faults, giveUps>>

-----------------------------------------------------------------------------
Init ==
    /\ \E v \in Volumes : kind = v[1] /\ dev = v[2]
    /\ want = [t \in Targets |-> "none"]
    /\ asked = 0 /\ told = 0
    /\ active = FALSE
    /\ mnt = [t \in Targets |-> <<>>]
    /\ path = [t \in Targets |-> "none"]
    /\ call = [c \in Handlers |-> Idle]
    /\ up = FALSE
    /\ strayed = {}
    /\ faults = 0 /\ giveUps = 0

Calls(t) ==
    \E c \in Handlers :
        NodePublishVolume(c, t) \/ NodeUnpublishVolume(c, t) \/ NodeExpandVolume(c, t)

Step(c) ==
    \/ PrepareTarget(c)
    \/ BindMount(c)
    \/ Remount(c)
    \/ Probe(c)
    \/ Mkfs(c)
    \/ MakeDirectory(c)
    \/ MountFilesystem(c)
    \/ ExistingMount(c)
    \/ \E stage \in {"umount", "force", "lazy"} : Unmount(c, stage)
    \/ RemoveTarget(c)
    \/ LookupSize(c)
    \/ ExtendLV(c)
    \/ ResizeFilesystem(c)

Next ==
    \/ \E t \in Targets : WantPublish(t) \/ WantUnpublish(t) \/ PodWrites(t) \/ Calls(t)
    \/ \E size \in Sizes : WantExpand(size)
    \/ \E c \in Handlers : Step(c) \/ GiveUp(c) \/ CommandFails(c)
    \/ Crash
    \/ Reboot
    \/ StartPlugin

Spec == Init /\ [][Next]_vars

\* The kubelet calls until it is answered, handlers go on, the plugin is restarted.
RetrySpec ==
    /\ Spec
    /\ WF_vars(StartPlugin)
    /\ \A t \in Targets : SF_vars(Calls(t))
    /\ \A c \in Handlers : WF_vars(Step(c))

-----------------------------------------------------------------------------
(* Properties.                                                             *)

TypeOK ==
    /\ kind \in Kind
    /\ want \in [Targets -> {"none", "publish", "published", "unpublish", "unpublished"}]
    /\ asked \in Sizes \cup {0} /\ told \in Sizes \cup {0}
    /\ dev \in Device
    /\ active \in BOOLEAN /\ up \in BOOLEAN
    /\ mnt \in [Targets -> Seq({"rw", "ro"})]
    /\ path \in [Targets -> {"none", "file", "dir"}]
    /\ call \in [Handlers -> Call \cup {Idle}]
    /\ strayed \subseteq Targets
    /\ faults \in 0..MaxFaults[kind.access] /\ giveUps \in 0..MaxGiveUps

\* What a pod sees at a target that was reported published is the volume, and it is
\* read-only if that was asked for: though a remount and the umount after it have
\* failed, or a bind mount is stacked on one that an earlier attempt has left.
\* Only a handler that was given up may have put another mount on top.
PublishedAsAsked ==
    \A t \in Targets :
        want[t] = "published" /\ t \notin strayed
            => mnt[t] # <<>> /\ (t \in kind.ro => Top(mnt[t]) = "ro")

\* A target that was reported unpublished is gone, with every mount that repeated
\* attempts have stacked on it, unless a handler that was given up comes after.
UnpublishedIsClean ==
    \A t \in Targets :
        want[t] = "unpublished" /\ t \notin strayed => mnt[t] = <<>> /\ path[t] = "none"

\* The size that was reported is that of the LV and of its filesystem, though an
\* earlier attempt has extended only the LV.
ExpandedCovers == told <= dev.size /\ (~Block => told <= dev.fsSize)

\* What a pod has written is never formatted, whatever filesystem is on the device
\* and whichever command has failed.  The one exception the code leaves: nothing is
\* held between the probe and mkfs, so a handler that has seen a blank device may
\* be overtaken by another one that formats it, and format it again.
FormatSparesData ==
    [][dev.data /\ ~dev'.data => \E c \in Handlers : At(c, "mkfs") /\ call[c].overtaken]_vars

\* The device has another filesystem, or it is mounted for a pod in the other mode.
Refused(t) ==
    /\ ~Block
    /\ \/ dev.fs \notin {"none", kind.fs}
       \/ \E u \in Targets : mnt[u] # <<>> /\ Mode(u) # Mode(t)

\* Under retries every publish that the device allows, and every unpublish, comes to
\* its end: no stack of mounts, no leftover target, no handler that was given up, no
\* restart or reboot keeps it from doing so.
TargetsSettle ==
    \A t \in Targets :
        []<>(want[t] \notin {"publish", "unpublish"} \/ (want[t] = "publish" /\ Refused(t)))

-----------------------------------------------------------------------------
(* What makes the safety properties inductive.                             *)

\* A handler stands where its operation goes.
PlaceInv(k) ==
    /\ k.op = "expand" <=> k.pc \in {"lvs", "lvextend", "resize"}
    /\ k.op = "unpublish" => k.pc \in {"umount", "force", "lazy", "remove"}
    /\ k.pc = "remove" => k.op = "unpublish"
    /\ k.pc \in {"prepare", "bind", "remount"} => Block

\* What a handler has seen of the device still holds when it acts on it, but for a
\* format in between.
SeenInv(k) ==
    /\ k.pc = "mkfs" /\ ~k.overtaken => dev.fs = "none"
    /\ k.pc = "resize" => k.size <= dev.size

\* The handler of a call that the kubelet waits for fits what it wants.
WaitInv(k) ==
    ~k.late => want[k.t] \in CASE k.op = "publish" -> {"publish", "unpublish"}
                               [] k.op = "expand" -> {"published", "unpublish"}
                               [] k.op = "unpublish" -> {"unpublish"}

\* The kubelet has one call at a time under way for a target.
OneCall ==
    \A c, d \in Handlers :
        call[c] # Idle /\ call[d] # Idle /\ call[c].t = call[d].t /\ ~call[c].late /\ ~call[d].late
            => c = d

\* A device that is mounted as a filesystem, or holds data, has one.
DeviceInv ==
    /\ dev.data => dev.fs # "none"
    /\ ~Block => \A t \in Targets : mnt[t] # <<>> => dev.fs # "none"

IInv ==
    /\ TypeOK
    /\ \A c \in Handlers : call[c] # Idle => PlaceInv(call[c]) /\ SeenInv(call[c]) /\ WaitInv(call[c])
    /\ OneCall
    /\ DeviceInv
    /\ ExpandedCovers
    /\ PublishedAsAsked
    /\ UnpublishedIsClean

=============================================================================

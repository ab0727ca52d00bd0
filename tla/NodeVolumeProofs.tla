-------------------------- MODULE NodeVolumeProofs --------------------------
(***************************************************************************)
(* NodeVolume, for any number of targets, handlers, sizes and faults: what *)
(* the kubelet was told of a target holds, the size that was reported is   *)
(* there, and a format spares the data of pods.  A handler acts on what it *)
(* has seen (SeenInv); the kubelet waits for one call at a time at a target*)
(* (OneCall), and what a handler nobody waits for changes is marked.       *)
(***************************************************************************)
EXTENDS NodeVolume, SequenceTheorems, TLAPS

Modes == {"rw", "ro"}
Wants == {"none", "publish", "published", "unpublish", "unpublished"}

-----------------------------------------------------------------------------
(* Types.                                                                  *)

\* A handler that goes on or ends is still one, and so is what the kubelet wants.
LEMMA ControlType ==
    ASSUME TypeOK, NEW c \in Handlers, call[c] # Idle,
           OK(c) \/ Fail(c) \/ \E pc \in Stages : Goto(c, pc)
    PROVE  /\ call' \in [Handlers -> Call \cup {Idle}]
           /\ want' \in [Targets -> Wants]
           /\ asked' \in Sizes \cup {0} /\ told' \in Sizes \cup {0}
<1>1. call[c] \in Call
  BY DEF TypeOK
<1>2. ASSUME NEW pc \in Stages PROVE [call[c] EXCEPT !.pc = pc] \in Call
  BY <1>1 DEF Call
<1>3. call' \in [Handlers -> Call \cup {Idle}]
  <2>1. CASE OK(c) \/ Fail(c)
    BY <2>1 DEF OK, Fail, TypeOK
  <2>2. ASSUME NEW pc \in Stages, Goto(c, pc) PROVE call' \in [Handlers -> Call \cup {Idle}]
    BY <1>2, <2>2 DEF Goto, TypeOK
  <2>. QED
    BY <2>1, <2>2
<1>4. want' \in [Targets -> Wants] /\ asked' \in Sizes \cup {0}
  BY DEF OK, Fail, Goto, kubelet, TypeOK, Wants
<1>5. told' \in Sizes \cup {0}
  BY <1>1 DEF OK, Fail, Goto, kubelet, TypeOK, Call
<1>. QED
  BY <1>3, <1>4, <1>5

\* A mount is on top of its target.
LEMMA PushedOnTop ==
    ASSUME TypeOK, NEW t \in Targets, NEW mode \in Modes, Push(t, mode)
    PROVE  /\ mnt' \in [Targets -> Seq(Modes)]
           /\ mnt'[t] # <<>> /\ Top(mnt'[t]) = mode
           /\ \A u \in Targets \ {t} : mnt'[u] = mnt[u]
<1>1. mnt \in [Targets -> Seq(Modes)] /\ mnt[t] \in Seq(Modes)
  BY DEF TypeOK, Modes
<1>2. mnt' = [mnt EXCEPT ![t] = Append(mnt[t], mode)]
  BY DEF Push
<1>3. /\ Append(mnt[t], mode) \in Seq(Modes)
      /\ Append(mnt[t], mode) # <<>> /\ Top(Append(mnt[t], mode)) = mode
  BY <1>1, AppendProperties DEF Top
<1>. QED
  BY <1>1, <1>2, <1>3

\* A remount makes the mount on top read-only.
LEMMA RemountedOnTop ==
    ASSUME TypeOK, NEW t \in Targets, mnt[t] # <<>>, mnt' = [mnt EXCEPT ![t][Len(mnt[t])] = "ro"]
    PROVE  /\ mnt' \in [Targets -> Seq(Modes)]
           /\ mnt'[t] # <<>> /\ Top(mnt'[t]) = "ro"
           /\ \A u \in Targets \ {t} : mnt'[u] = mnt[u]
<1>1. mnt \in [Targets -> Seq(Modes)] /\ mnt[t] \in Seq(Modes) /\ "ro" \in Modes
  BY DEF TypeOK, Modes
<1>. DEFINE s == [mnt[t] EXCEPT ![Len(mnt[t])] = "ro"]
<1>2. mnt' = [mnt EXCEPT ![t] = s]
  OBVIOUS
<1>3. Len(mnt[t]) \in 1 .. Len(mnt[t])
  BY <1>1
<1>4. s \in Seq(Modes) /\ Len(s) = Len(mnt[t]) /\ s[Len(mnt[t])] = "ro"
  BY <1>1, <1>3, ExceptSeq
<1>. HIDE DEF s
<1>5. s # <<>> /\ Top(s) = "ro"
  BY <1>3, <1>4 DEF Top
<1>. QED
  BY <1>1, <1>2, <1>4, <1>5

\* An umount leaves a stack of mounts.
LEMMA PoppedType ==
    ASSUME TypeOK, NEW t \in Targets, mnt' \in {mnt, Popped(t)}
    PROVE  /\ mnt' \in [Targets -> Seq(Modes)]
           /\ mnt[t] = <<>> => mnt' = mnt
           /\ \A u \in Targets \ {t} : mnt'[u] = mnt[u]
<1>1. mnt \in [Targets -> Seq(Modes)] /\ mnt[t] \in Seq(Modes)
  BY DEF TypeOK, Modes
<1>2. mnt[t] # <<>> => SubSeq(mnt[t], 1, Len(mnt[t]) - 1) \in Seq(Modes)
  BY <1>1
<1>. QED
  BY <1>1, <1>2 DEF Popped

\* What every step of a handler leaves well typed.
LEMMA MarkedType ==
    ASSUME TypeOK, NEW c \in Handlers, call[c] # Idle, Marked(c), Calm \/ Fault
    PROVE  /\ target(c) \in Targets
           /\ strayed' \subseteq Targets
           /\ kind' = kind /\ up' = up
           /\ faults' \in 0..MaxFaults[kind.access] /\ giveUps' \in 0..MaxGiveUps
<1>1. target(c) \in Targets
  BY DEF TypeOK, target, Call
<1>2. strayed' \subseteq Targets
  BY <1>1 DEF TypeOK, Marked
<1>3. kind' = kind /\ up' = up
  BY DEF Marked
<1>4. MaxFaults[kind.access] \in Nat
  BY BoundsAssumption DEF TypeOK, Kind
<1>5. faults' \in 0..MaxFaults[kind.access] /\ giveUps' \in 0..MaxGiveUps
  BY <1>4, BoundsAssumption DEF TypeOK, Calm, Fault
<1>. QED
  BY <1>1, <1>2, <1>3, <1>5

\* A step of a handler keeps the types.
LEMMA StepType ==
    ASSUME TypeOK, NEW c \in Handlers, Step(c)
    PROVE  TypeOK'
<1>1. call[c] # Idle /\ Marked(c) /\ (Calm \/ Fault)
  BY DEF Step, At, PrepareTarget, BindMount, Remount, Probe, Mkfs, MakeDirectory, MountFilesystem,
     ExistingMount, Unmount, RemoveTarget, LookupSize, ExtendLV, ResizeFilesystem
<1>2. call[c] \in Call /\ target(c) \in Targets
  BY <1>1, MarkedType DEF TypeOK
<1>3. (OK(c) \/ Fail(c) \/ \E pc \in Stages : Goto(c, pc)) \/ Mkfs(c)
  BY Zenon DEF Step, PrepareTarget, BindMount, Remount, Probe, MakeDirectory, MountFilesystem,
     ExistingMount, Unmount, RemoveTarget, LookupSize, ExtendLV, ResizeFilesystem, Stages
<1>4. /\ call' \in [Handlers -> Call \cup {Idle}]
      /\ want' \in [Targets -> Wants]
      /\ asked' \in Sizes \cup {0} /\ told' \in Sizes \cup {0}
  <2>1. CASE Mkfs(c)
    <3>1. CASE Fail(c)
      BY <1>1, <3>1, ControlType
    <3>2. CASE ~Fail(c)
      <4>1. PICK failed \in BOOLEAN :
               call' = [d \in Handlers |->
                        IF d = c THEN IF failed THEN Idle ELSE [call[c] EXCEPT !.pc = "mkdir"]
                        ELSE IF At(d, "mkfs") THEN [call[d] EXCEPT !.overtaken = TRUE]
                        ELSE call[d]]
        BY <2>1, <3>2 DEF Mkfs
      <4>2. \A d \in Handlers : /\ At(d, "mkfs") => [call[d] EXCEPT !.overtaken = TRUE] \in Call
                                /\ call[d] \in Call \cup {Idle}
        BY DEF TypeOK, At, Call
      <4>3. [call[c] EXCEPT !.pc = "mkdir"] \in Call
        BY <1>2 DEF Call, Stages
      <4>4. call' \in [Handlers -> Call \cup {Idle}]
        BY <4>1, <4>2, <4>3
      <4>5. UNCHANGED kubelet
        BY <2>1, <3>2 DEF Mkfs
      <4>. QED
        BY <4>4, <4>5 DEF kubelet, TypeOK, Wants
    <3>. QED
      BY <3>1, <3>2
  <2>. QED
    BY <1>1, <1>3, <2>1, ControlType
<1>5. dev' \in Device
  <2>1. dev.size \in Sizes /\ kind.fs \in {"ext4", "xfs"} /\ call[c].size \in Sizes \cup {0}
    BY <1>2 DEF TypeOK, Device, Kind, Call
  <2>2. \/ dev' = dev
        \/ dev' = [dev EXCEPT !.fs = kind.fs, !.fsSize = dev.size, !.data = FALSE]
        \/ dev.size < call[c].size /\ dev' = [dev EXCEPT !.size = call[c].size]
        \/ dev' = [dev EXCEPT !.fsSize = dev.size]
    BY Zenon DEF Step, PrepareTarget, BindMount, Remount, Probe, Mkfs, MakeDirectory, MountFilesystem,
       ExistingMount, Unmount, RemoveTarget, LookupSize, ExtendLV, ResizeFilesystem, node
  <2>3. dev.size < call[c].size => call[c].size \in Sizes
    BY <2>1, VolumesAssumption
  <2>. QED
    BY <2>1, <2>2, <2>3 DEF TypeOK, Device
<1>6. active' = active
  BY Zenon DEF Step, PrepareTarget, BindMount, Remount, Probe, Mkfs, MakeDirectory, MountFilesystem,
     ExistingMount, Unmount, RemoveTarget, LookupSize, ExtendLV, ResizeFilesystem, node
<1>7. path' \in [Targets -> {"none", "file", "dir"}]
  <2>1. path' = path \/ \E x \in {"none", "file", "dir"} : path' = [path EXCEPT ![target(c)] = x]
    BY Zenon DEF Step, PrepareTarget, BindMount, Remount, Probe, Mkfs, MakeDirectory, MountFilesystem,
       ExistingMount, Unmount, RemoveTarget, LookupSize, ExtendLV, ResizeFilesystem, node
  <2>. QED
    BY <1>2, <2>1 DEF TypeOK
<1>8. mnt' \in [Targets -> Seq(Modes)]
  <2>1. \/ mnt' \in {mnt, Popped(target(c))}
        \/ Push(target(c), "rw") \/ Push(target(c), Mode(target(c)))
        \/ mnt[target(c)] # <<>> /\ mnt' = [mnt EXCEPT ![target(c)][Len(mnt[target(c)])] = "ro"]
    BY Zenon DEF Step, PrepareTarget, BindMount, Remount, Probe, Mkfs, MakeDirectory, MountFilesystem,
       ExistingMount, Unmount, RemoveTarget, LookupSize, ExtendLV, ResizeFilesystem, node
  <2>2. "rw" \in Modes /\ Mode(target(c)) \in Modes
    BY DEF Modes, Mode
  <2>. QED
    BY <1>2, <2>1, <2>2, PushedOnTop, RemountedOnTop, PoppedType
<1>9. /\ strayed' \subseteq Targets /\ kind' = kind /\ up' = up
      /\ faults' \in 0..MaxFaults[kind.access] /\ giveUps' \in 0..MaxGiveUps
  BY <1>1, MarkedType
<1>. QED
  BY <1>4, <1>5, <1>6, <1>7, <1>8, <1>9 DEF TypeOK, Wants, Modes

\* So do the steps of the kubelet and of the pods, and the faults.
LEMMA OtherType ==
    ASSUME TypeOK,
           \/ \E t \in Targets : WantPublish(t) \/ WantUnpublish(t) \/ PodWrites(t) \/ Calls(t)
           \/ \E size \in Sizes : WantExpand(size)
           \/ \E c \in Handlers : GiveUp(c) \/ CommandFails(c)
           \/ Crash \/ Reboot \/ StartPlugin
    PROVE  TypeOK'
<1>. USE DEF TypeOK
<1>0. MaxFaults[kind.access] \in Nat
  BY BoundsAssumption DEF Kind
<1>1. ASSUME NEW t \in Targets, WantPublish(t) \/ WantUnpublish(t) PROVE TypeOK'
  BY <1>1 DEF WantPublish, WantUnpublish, node
<1>2. ASSUME NEW t \in Targets, PodWrites(t) PROVE TypeOK'
  BY <1>2 DEF PodWrites, kubelet, Device
<1>3. ASSUME NEW t \in Targets, NEW c \in Handlers, NEW op \in Ops, NEW pc \in Stages,
             NEW size \in Sizes \cup {0}, Begin(c, t, op, pc, size)
      PROVE  TypeOK'
  <2>1. [op |-> op, t |-> t, pc |-> pc, size |-> size, late |-> FALSE, overtaken |-> FALSE] \in Call
    BY DEF Call
  <2>. QED
    BY <1>3, <2>1 DEF Begin, kubelet, node
<1>4. ASSUME NEW t \in Targets, Calls(t) PROVE TypeOK'
  <2>1. PICK c \in Handlers : NodePublishVolume(c, t) \/ NodeUnpublishVolume(c, t) \/ NodeExpandVolume(c, t)
    BY <1>4 DEF Calls
  <2>2. \E op \in Ops, pc \in Stages, size \in Sizes \cup {0} : Begin(c, t, op, pc, size)
    BY <2>1 DEF NodePublishVolume, NodeUnpublishVolume, NodeExpandVolume, Ops, Stages
  <2>. QED
    BY <1>3, <2>2
<1>5. ASSUME NEW size \in Sizes, WantExpand(size) PROVE TypeOK'
  BY <1>5 DEF WantExpand, node
<1>6. ASSUME NEW c \in Handlers, GiveUp(c) PROVE TypeOK'
  <2>1. [call[c] EXCEPT !.late = TRUE] \in Call
    BY <1>6 DEF GiveUp, Call
  <2>2. giveUps' \in 0..MaxGiveUps
    BY <1>6, BoundsAssumption DEF GiveUp
  <2>. QED
    BY <1>6, <2>1, <2>2 DEF GiveUp, kubelet, node
<1>7. ASSUME NEW c \in Handlers, CommandFails(c) PROVE TypeOK'
  BY <1>0, <1>7 DEF CommandFails, Fault, Fail, kubelet, node
<1>8. CASE Crash \/ Reboot
  <2>1. kind' = kind /\ faults' \in 0..MaxFaults[kind.access] /\ giveUps' = giveUps
    BY <1>0, <1>8 DEF Crash, Reboot, Fault
  <2>2. /\ call' \in [Handlers -> Call \cup {Idle}]
        /\ up' \in BOOLEAN /\ active' \in BOOLEAN
        /\ dev' = dev /\ path' = path /\ strayed' = strayed /\ asked' = asked /\ told' = told
    BY <1>8 DEF Crash, Reboot, kubelet, node
  <2>3. mnt' \in [Targets -> Seq({"rw", "ro"})]
    <3>1. mnt' = mnt \/ mnt' = [t \in Targets |-> <<>>]
      BY <1>8 DEF Crash, Reboot, node
    <3>2. <<>> \in Seq({"rw", "ro"})
      OBVIOUS
    <3>. QED
      BY <3>1, <3>2
  <2>4. want' \in [Targets -> {"none", "publish", "published", "unpublish", "unpublished"}]
    BY <1>8 DEF Crash, Reboot, kubelet
  <2>. QED
    BY <2>1, <2>2, <2>3, <2>4
<1>10. CASE StartPlugin
  BY <1>10 DEF StartPlugin, kubelet
<1>. QED
  BY <1>1, <1>2, <1>4, <1>5, <1>6, <1>7, <1>8, <1>10

-----------------------------------------------------------------------------
(* Handlers.                                                               *)

\* A handler goes on with its call, or has ended.
Kept(d) ==
    call'[d] # Idle =>
        /\ call[d] # Idle
        /\ call'[d].op = call[d].op /\ call'[d].t = call[d].t
        /\ call'[d].size = call[d].size /\ call'[d].late = call[d].late

\* A handler stands where it stood.
Waits(d) ==
    call'[d] # Idle => call'[d].pc = call[d].pc /\ (call[d].overtaken => call'[d].overtaken)

\* A step of a handler is about its call and its target; only an OK to the kubelet
\* that waits for it changes what the kubelet wants.
LEMMA StepShape ==
    ASSUME TypeOK, NEW c \in Handlers, Step(c)
    PROVE  /\ call[c] # Idle /\ target(c) \in Targets
           /\ \A d \in Handlers : Kept(d)
           /\ \A d \in Handlers \ {c} : Waits(d)
           /\ \A t \in Targets \ {target(c)} : want'[t] = want[t] /\ mnt'[t] = mnt[t] /\ path'[t] = path[t]
           /\ want' = want \/ (call'[c] = Idle /\ ~call[c].late)
           /\ kind' = kind
<1>1. call[c] # Idle /\ Marked(c) /\ (Calm \/ Fault)
  BY DEF Step, At, PrepareTarget, BindMount, Remount, Probe, Mkfs, MakeDirectory, MountFilesystem,
     ExistingMount, Unmount, RemoveTarget, LookupSize, ExtendLV, ResizeFilesystem
<1>2. call[c] \in Call /\ target(c) \in Targets /\ kind' = kind
  BY <1>1, MarkedType DEF TypeOK
<1>3. (OK(c) \/ Fail(c) \/ \E pc \in Stages : Goto(c, pc)) \/ Mkfs(c)
  BY Zenon DEF Step, PrepareTarget, BindMount, Remount, Probe, MakeDirectory, MountFilesystem,
     ExistingMount, Unmount, RemoveTarget, LookupSize, ExtendLV, ResizeFilesystem, Stages
<1>4. ASSUME OK(c) \/ Fail(c) \/ \E pc \in Stages : Goto(c, pc)
      PROVE  /\ \A d \in Handlers : Kept(d)
             /\ \A d \in Handlers \ {c} : Waits(d)
             /\ \A t \in Targets \ {target(c)} : want'[t] = want[t]
             /\ want' = want \/ (call'[c] = Idle /\ ~call[c].late)
  <2>1. CASE OK(c) \/ Fail(c)
    BY <1>2, <2>1 DEF OK, Fail, kubelet, Kept, Waits, TypeOK
  <2>2. ASSUME NEW pc \in Stages, Goto(c, pc)
        PROVE  /\ \A d \in Handlers : Kept(d)
               /\ \A d \in Handlers \ {c} : Waits(d)
               /\ want' = want
    <3>1. call' = [call EXCEPT ![c] = [call[c] EXCEPT !.pc = pc]]
      BY <2>2 DEF Goto
    <3>2. want' = want
      BY <2>2 DEF Goto, kubelet
    <3>3. [call[c] EXCEPT !.pc = pc] = [op |-> call[c].op, t |-> call[c].t, pc |-> pc,
             size |-> call[c].size, late |-> call[c].late, overtaken |-> call[c].overtaken]
      BY <1>2 DEF Call
    <3>. QED
      BY <1>1, <3>1, <3>2, <3>3 DEF Kept, Waits, TypeOK
  <2>. QED
    BY <1>4, <2>1, <2>2
<1>5. ASSUME Mkfs(c), ~Fail(c)
      PROVE  /\ \A d \in Handlers : Kept(d)
             /\ \A d \in Handlers \ {c} : Waits(d)
             /\ want' = want
  <2>1. PICK failed \in BOOLEAN :
           call' = [d \in Handlers |->
                    IF d = c THEN IF failed THEN Idle ELSE [call[c] EXCEPT !.pc = "mkdir"]
                    ELSE IF At(d, "mkfs") THEN [call[d] EXCEPT !.overtaken = TRUE]
                    ELSE call[d]]
    BY <1>5 DEF Mkfs
  <2>2. want' = want
    BY <1>5 DEF Mkfs, kubelet
  <2>3. Kept(c)
    <3>1. call'[c] = Idle \/ call'[c] = [call[c] EXCEPT !.pc = "mkdir"]
      BY <2>1
    <3>. QED
      <4>1. ASSUME NEW x, x = [call[c] EXCEPT !.pc = "mkdir"]
            PROVE  x.op = call[c].op /\ x.t = call[c].t /\ x.size = call[c].size /\ x.late = call[c].late
        BY <1>2, <4>1 DEF Call
      <4>. QED
        BY <1>1, <3>1, <4>1 DEF Kept
  <2>4. ASSUME NEW d \in Handlers \ {c} PROVE Kept(d) /\ Waits(d)
    <3>1. CASE At(d, "mkfs")
      <4>1. call[d] \in Call /\ call[d] # Idle /\ call'[d] = [call[d] EXCEPT !.overtaken = TRUE]
        BY <2>1, <3>1 DEF At, TypeOK
      <4>. QED
        BY <4>1 DEF Kept, Waits, Call
    <3>2. CASE ~At(d, "mkfs")
      <4>1. call'[d] = call[d]
        BY <2>1, <3>2
      <4>. QED
        BY <4>1 DEF Kept, Waits
    <3>. QED
      BY <3>1, <3>2
  <2>. QED
    BY <2>2, <2>3, <2>4
<1>6. \A t \in Targets \ {target(c)} : path'[t] = path[t]
  <2>1. path' = path \/ \E x \in {"none", "file", "dir"} : path' = [path EXCEPT ![target(c)] = x]
    BY Zenon DEF Step, PrepareTarget, BindMount, Remount, Probe, Mkfs, MakeDirectory, MountFilesystem,
       ExistingMount, Unmount, RemoveTarget, LookupSize, ExtendLV, ResizeFilesystem, node
  <2>. QED
    BY <1>2, <2>1 DEF TypeOK
<1>7. \A t \in Targets \ {target(c)} : mnt'[t] = mnt[t]
  <2>1. \/ mnt' \in {mnt, Popped(target(c))}
        \/ Push(target(c), "rw") \/ Push(target(c), Mode(target(c)))
        \/ mnt' = [mnt EXCEPT ![target(c)][Len(mnt[target(c)])] = "ro"]
    BY Zenon DEF Step, PrepareTarget, BindMount, Remount, Probe, Mkfs, MakeDirectory, MountFilesystem,
       ExistingMount, Unmount, RemoveTarget, LookupSize, ExtendLV, ResizeFilesystem, node
  <2>. QED
    BY <1>2, <2>1 DEF TypeOK, Popped, Push
<1>. QED
  BY <1>1, <1>2, <1>3, <1>4, <1>5, <1>6, <1>7

\* Where a handler goes on.
LEMMA GotoStage ==
    ASSUME TypeOK, NEW c \in Handlers, call[c] # Idle, NEW pc, Goto(c, pc)
    PROVE  call'[c].pc = pc
<1>1. call[c] \in Call
  BY DEF TypeOK
<1>2. call'[c] = [call[c] EXCEPT !.pc = pc]
  BY DEF Goto, TypeOK
<1>. QED
  BY <1>1, <1>2 DEF Call

LEMMA EndStage ==
    ASSUME TypeOK, NEW c \in Handlers, OK(c) \/ Fail(c)
    PROVE  call'[c] = Idle
BY DEF OK, Fail, TypeOK

\* A handler of an operation goes on with that operation, and what it has seen of the
\* device is still so.
LEMMA NextStage ==
    ASSUME TypeOK, NEW c \in Handlers, Step(c), call[c] # Idle => PlaceInv(call[c]), call'[c] # Idle
    PROVE  LET now == call[c].pc
               next == call'[c].pc
           IN  \/ /\ now \in Stages \ {"lvs", "lvextend", "resize"}
                  /\ next \in {"bind", "remount"} => Block
                  /\ next \in {"bind", "remount", "mkdir", "mount", "findmnt"} => call[c].op = "publish"
                  /\ next \in {"bind", "remount", "mkdir", "mount", "findmnt", "umount", "force", "lazy"}
               \/ next = "remove" /\ call[c].op = "unpublish"
               \/ now = "probe" /\ next = "mkfs" /\ dev.fs = "none" /\ dev' = dev
               \/ now = "lvs" /\ next = "lvextend"
               \/ now = "lvs" /\ next = "resize" /\ dev' = dev /\ ~(dev.size < call[c].size)
               \/ now = "lvextend" /\ next = "resize" /\ dev' = [dev EXCEPT !.size = call[c].size]
<1>. USE DEF Stages
<1>0. call[c] # Idle /\ call[c] \in Call /\ call[c].op \in Ops
  BY StepShape DEF TypeOK, Call
<1>1. CASE PrepareTarget(c)
  BY <1>0, <1>1, GotoStage DEF PrepareTarget, At, PlaceInv, Ops
<1>2. CASE BindMount(c)
  BY <1>0, <1>2, GotoStage, EndStage DEF BindMount, At, PlaceInv, Ops
<1>3. CASE Remount(c)
  BY <1>0, <1>3, GotoStage, EndStage DEF Remount, At, PlaceInv, Ops
<1>4. CASE Probe(c)
  BY <1>0, <1>4, GotoStage, EndStage DEF Probe, At, PlaceInv, Ops, node
<1>5. CASE Mkfs(c)
  <2>1. call'[c] = [call[c] EXCEPT !.pc = "mkdir"]
    BY <1>5, EndStage DEF Mkfs
  <2>2. call'[c].pc = "mkdir"
    BY <1>0, <2>1 DEF Call
  <2>. QED
    BY <1>0, <1>5, <2>2 DEF Mkfs, At, PlaceInv, Ops
<1>6. CASE MakeDirectory(c)
  BY <1>0, <1>6, GotoStage DEF MakeDirectory, At, PlaceInv, Ops
<1>7. CASE MountFilesystem(c)
  BY <1>0, <1>7, GotoStage, EndStage DEF MountFilesystem, At, PlaceInv, Ops
<1>8. CASE ExistingMount(c)
  BY <1>0, <1>8, EndStage DEF ExistingMount
<1>9. ASSUME NEW stage \in {"umount", "force", "lazy"}, Unmount(c, stage)
      PROVE  \/ call'[c].pc = "remove" /\ call[c].op = "unpublish"
             \/ call[c].pc \in {"umount", "force", "lazy"} /\ call'[c].pc \in {"force", "lazy"}
  BY <1>0, <1>9, GotoStage, EndStage DEF Unmount, At
<1>10. CASE RemoveTarget(c)
  BY <1>0, <1>10, EndStage DEF RemoveTarget
<1>11. CASE LookupSize(c)
  BY <1>0, <1>11, GotoStage, EndStage DEF LookupSize, At, node
<1>12. CASE ExtendLV(c)
  BY <1>0, <1>12, GotoStage, EndStage DEF ExtendLV, At
<1>13. CASE ResizeFilesystem(c)
  BY <1>0, <1>13, EndStage DEF ResizeFilesystem
<1>. QED
  BY <1>1, <1>2, <1>3, <1>4, <1>5, <1>6, <1>7, <1>8, <1>9, <1>10, <1>11, <1>12, <1>13 DEF Step

\* What a handler may do to the device.
LEMMA DeviceStep ==
    ASSUME TypeOK, NEW c \in Handlers, Step(c)
    PROVE  \/ dev' = dev
           \/ /\ At(c, "mkfs")
              /\ \A t \in Targets : mnt[t] = <<>>
              /\ mnt' = mnt
              /\ dev'.fs = kind.fs /\ dev'.size = dev.size /\ dev'.fsSize = dev.size /\ dev'.data = FALSE
              /\ \A d \in Handlers : call'[d] # Idle /\ call'[d].pc = "mkfs" => call'[d].overtaken
           \/ /\ dev.size < call[c].size
              /\ dev'.size = call[c].size
              /\ dev'.fs = dev.fs /\ dev'.fsSize = dev.fsSize /\ dev'.data = dev.data
           \/ /\ dev'.fsSize = dev.size
              /\ dev'.fs = dev.fs /\ dev'.size = dev.size /\ dev'.data = dev.data
<1>1. dev \in Device /\ call[c] # Idle /\ call[c] \in Call
  BY StepShape DEF TypeOK
<1>2. \/ dev' = dev
      \/ Mkfs(c)
      \/ dev.size < call[c].size /\ dev' = [dev EXCEPT !.size = call[c].size]
      \/ dev' = [dev EXCEPT !.fsSize = dev.size]
  BY Zenon DEF Step, PrepareTarget, BindMount, Remount, Probe, MakeDirectory, MountFilesystem,
     ExistingMount, Unmount, RemoveTarget, LookupSize, ExtendLV, ResizeFilesystem, node
<1>3. CASE Mkfs(c) /\ dev' # dev
  <2>1. PICK failed \in BOOLEAN :
           call' = [d \in Handlers |->
                    IF d = c THEN IF failed THEN Idle ELSE [call[c] EXCEPT !.pc = "mkdir"]
                    ELSE IF At(d, "mkfs") THEN [call[d] EXCEPT !.overtaken = TRUE]
                    ELSE call[d]]
    BY <1>3 DEF Mkfs
  <2>2. ASSUME NEW d \in Handlers, call'[d] # Idle, call'[d].pc = "mkfs" PROVE call'[d].overtaken
    <3>1. CASE d = c
      <4>1. call'[c] = [call[c] EXCEPT !.pc = "mkdir"]
        BY <2>1, <2>2, <3>1
      <4>2. call'[c].pc = "mkdir"
        BY <1>1, <4>1 DEF Call
      <4>. QED
        BY <2>2, <3>1, <4>2
    <3>2. CASE d # c
      <4>1. call'[d] = IF At(d, "mkfs") THEN [call[d] EXCEPT !.overtaken = TRUE] ELSE call[d]
        BY <2>1, <3>2
      <4>2. At(d, "mkfs") => call[d] \in Call
        BY DEF At, TypeOK
      <4>3. At(d, "mkfs")
        BY <2>2, <4>1 DEF At
      <4>. QED
        BY <4>1, <4>2, <4>3 DEF Call
    <3>. QED
      BY <3>1, <3>2
  <2>3. At(c, "mkfs") /\ (\A t \in Targets : mnt[t] = <<>>) /\ mnt' = mnt
    BY <1>3 DEF Mkfs
  <2>4. dev' = [dev EXCEPT !.fs = kind.fs, !.fsSize = dev.size, !.data = FALSE]
    BY <1>3 DEF Mkfs
  <2>5. dev'.fs = kind.fs /\ dev'.size = dev.size /\ dev'.fsSize = dev.size /\ dev'.data = FALSE
    BY <1>1, <2>4 DEF Device
  <2>. QED
    BY <2>2, <2>3, <2>5
<1>4. CASE dev.size < call[c].size /\ dev' = [dev EXCEPT !.size = call[c].size]
  BY <1>1, <1>4 DEF Device
<1>5. CASE dev' = [dev EXCEPT !.fsSize = dev.size]
  BY <1>1, <1>5 DEF Device
<1>. QED
  BY <1>2, <1>3, <1>4, <1>5

-----------------------------------------------------------------------------
(* A step of a handler keeps the invariant.                                *)

\* What every handler in a state of the invariant satisfies.
CallInv(d) == call[d] # Idle => PlaceInv(call[d]) /\ SeenInv(call[d]) /\ WaitInv(call[d])

\* Sizes are natural numbers.
LEMMA Naturals ==
    /\ Sizes \cup {0} \subseteq Nat
    /\ \A x \in Device : x.size \in Nat /\ x.fsSize \in Nat
    /\ \A k \in Call : k.size \in Nat
<1>1. Sizes \cup {0} \subseteq Nat
  BY VolumesAssumption
<1>2. \A x \in Device : x.size \in Sizes \cup {0} /\ x.fsSize \in Sizes \cup {0}
  BY DEF Device
<1>3. \A k \in Call : k.size \in Sizes \cup {0}
  BY DEF Call
<1>. QED
  BY <1>1, <1>2, <1>3, Zenon

\* An LV never shrinks.
LEMMA Grows ==
    ASSUME TypeOK, TypeOK', NEW c \in Handlers, Step(c)
    PROVE  dev.size <= dev'.size
<1>1. dev.size \in Nat /\ dev'.size \in Nat
  BY Naturals DEF TypeOK
<1>2. call[c] \in Call
  BY StepShape DEF TypeOK
<1>3. call[c].size \in Nat
  BY <1>2, Naturals
<1>4. dev'.size = dev.size \/ (dev.size < call[c].size /\ dev'.size = call[c].size)
  BY DeviceStep
<1>. QED
  BY <1>1, <1>3, <1>4

\* Handlers stay apart, and each where its operation goes.
LEMMA StepCalls ==
    ASSUME IInv, TypeOK', NEW c \in Handlers, Step(c)
    PROVE  (\A d \in Handlers : CallInv(d)') /\ OneCall'
<1>0. TypeOK
  BY DEF IInv
<1>1. /\ call[c] # Idle /\ target(c) \in Targets
      /\ \A d \in Handlers : Kept(d)
      /\ \A d \in Handlers \ {c} : Waits(d)
      /\ \A t \in Targets \ {target(c)} : want'[t] = want[t]
      /\ want' = want \/ (call'[c] = Idle /\ ~call[c].late)
      /\ kind' = kind
  BY <1>0, StepShape
<1>2. OneCall'
  BY <1>1 DEF IInv, OneCall, Kept
<1>3. ASSUME NEW d \in Handlers, call'[d] # Idle PROVE PlaceInv(call[d])'
  <2>1. CASE d = c
    <3>1. PlaceInv(call[c]) /\ call'[c].op = call[c].op /\ call[c].op \in Ops /\ call'[c].pc \in Stages
      BY <1>0, <1>1, <1>3, <2>1 DEF IInv, Kept, TypeOK, Call
    <3>. QED
      BY <1>0, <1>1, <1>3, <2>1, <3>1, NextStage DEF PlaceInv, Block, Ops
  <2>2. CASE d # c
    BY <1>1, <1>3, <2>2 DEF IInv, PlaceInv, Kept, Waits, Block
  <2>. QED
    BY <2>1, <2>2
<1>4. ASSUME NEW d \in Handlers, call'[d] # Idle PROVE SeenInv(call[d])'
  <2>1. dev.size \in Nat /\ dev'.size \in Nat
    BY <1>0, Naturals DEF TypeOK
  <2>2. dev.size <= dev'.size
    BY <1>0, Grows
  <2>3. call[d].size \in Nat /\ call'[d].size = call[d].size /\ call[d] # Idle
    <3>1. call[d] \in Call /\ call'[d].size = call[d].size /\ call[d] # Idle
      BY <1>0, <1>1, <1>4 DEF Kept, TypeOK
    <3>. QED
      BY <3>1, Naturals
  <2>4. call'[d].pc = "resize" => call'[d].size <= dev'.size
    <3>1. CASE d = c
      <4>1. call'[c].pc = "resize" => \/ dev' = dev /\ ~(dev.size < call[c].size)
                                      \/ dev' = [dev EXCEPT !.size = call[c].size]
        BY <1>0, <1>1, <1>4, <3>1, NextStage DEF IInv
      <4>. QED
        BY <1>0, <2>1, <2>3, <3>1, <4>1 DEF TypeOK, Device
    <3>2. CASE d # c
      BY <1>1, <1>4, <2>1, <2>2, <2>3, <3>2 DEF IInv, SeenInv, Waits
    <3>. QED
      BY <3>1, <3>2
  <2>5. call'[d].pc = "mkfs" /\ ~call'[d].overtaken => dev'.fs = "none"
    <3>1. CASE d = c
      BY <1>0, <1>1, <1>4, <3>1, NextStage DEF IInv
    <3>2. CASE d # c
      <4>1. dev'.fs = dev.fs \/ (call'[d].pc = "mkfs" => call'[d].overtaken)
        BY <1>0, <1>4, DeviceStep
      <4>2. call'[d].pc = call[d].pc /\ (call[d].overtaken => call'[d].overtaken)
        BY <1>1, <1>4, <3>2 DEF Waits
      <4>. QED
        BY <2>3, <3>2, <4>1, <4>2 DEF IInv, SeenInv
    <3>. QED
      BY <3>1, <3>2
  <2>. QED
    BY <2>4, <2>5 DEF SeenInv
<1>5. ASSUME NEW d \in Handlers, call'[d] # Idle PROVE WaitInv(call[d])'
  <2>1. /\ call[d] # Idle /\ WaitInv(call[d])
        /\ call'[d].op = call[d].op /\ call'[d].t = call[d].t /\ call'[d].late = call[d].late
    BY <1>1, <1>5 DEF IInv, Kept
  <2>2. ~call[d].late => want'[call[d].t] = want[call[d].t]
    <3>1. CASE want' = want
      BY <3>1
    <3>2. CASE call'[c] = Idle /\ ~call[c].late
      <4>1. ~call[d].late => call[d].t # target(c)
        BY <1>1, <1>5, <2>1, <3>2 DEF IInv, OneCall, target
      <4>2. call[d].t \in Targets
        BY <1>0, <2>1 DEF TypeOK, Call
      <4>. QED
        BY <1>1, <4>1, <4>2
    <3>. QED
      BY <1>1, <3>1, <3>2
  <2>. QED
    BY <2>1, <2>2 DEF WaitInv
<1>. QED
  BY <1>2, <1>3, <1>4, <1>5 DEF CallInv

\* NodeExpandVolume answers OK when the LV, or the filesystem on it, has the size.
LEMMA Reports ==
    ASSUME IInv, NEW c \in Handlers, Step(c)
    PROVE  \/ told' = told
           \/ /\ told' = call[c].size
              /\ \/ Block /\ dev' = dev /\ ~(dev.size < call[c].size)
                 \/ Block /\ dev' = [dev EXCEPT !.size = call[c].size]
                 \/ dev' = [dev EXCEPT !.fsSize = dev.size] /\ call[c].size <= dev.size
<1>0. TypeOK /\ call[c] # Idle /\ PlaceInv(call[c]) /\ SeenInv(call[c])
  BY StepShape DEF IInv
<1>1. Fail(c) => told' = told
  BY DEF Fail, kubelet
<1>2. \A pc : Goto(c, pc) => told' = told
  BY DEF Goto, kubelet
<1>3. OK(c) => told' = told \/ (told' = call[c].size /\ call[c].op = "expand")
  BY DEF OK
<1>4. CASE LookupSize(c)
  BY <1>1, <1>2, <1>3, <1>4 DEF LookupSize, node
<1>5. CASE ExtendLV(c)
  BY <1>1, <1>2, <1>3, <1>5 DEF ExtendLV
<1>6. CASE ResizeFilesystem(c)
  BY <1>0, <1>1, <1>3, <1>6 DEF ResizeFilesystem, At, SeenInv
<1>7. CASE Mkfs(c)
  BY <1>1, <1>7 DEF Mkfs, kubelet
<1>8. CASE \/ PrepareTarget(c) \/ BindMount(c) \/ Remount(c) \/ Probe(c) \/ MakeDirectory(c)
           \/ MountFilesystem(c) \/ ExistingMount(c) \/ RemoveTarget(c)
           \/ \E stage \in {"umount", "force", "lazy"} : Unmount(c, stage)
  <2>1. call[c].op # "expand"
    BY <1>0, <1>8 DEF PlaceInv, At, PrepareTarget, BindMount, Remount, Probe, MakeDirectory,
       MountFilesystem, ExistingMount, RemoveTarget, Unmount
  <2>2. OK(c) \/ Fail(c) \/ \E pc \in Stages : Goto(c, pc)
    BY <1>8, Zenon DEF PrepareTarget, BindMount, Remount, Probe, MakeDirectory, MountFilesystem,
       ExistingMount, Unmount, RemoveTarget, Stages
  <2>. QED
    BY <1>1, <1>2, <1>3, <2>1, <2>2
<1>. QED
  BY <1>4, <1>5, <1>6, <1>7, <1>8, Zenon DEF Step

\* The size that was reported stays covered.
LEMMA StepCovers ==
    ASSUME IInv, TypeOK', NEW c \in Handlers, Step(c)
    PROVE  ExpandedCovers'
<1>1. TypeOK /\ ExpandedCovers /\ kind' = kind
  BY StepShape DEF IInv
<1>2. dev \in Device /\ dev' \in Device /\ told \in Nat /\ told' \in Nat
  BY <1>1, Naturals DEF TypeOK
<1>3. dev.size \in Nat /\ dev.fsSize \in Nat /\ dev'.size \in Nat /\ dev'.fsSize \in Nat
  BY <1>2, Naturals
<1>4. CASE told' = told
  <2>1. dev.size <= dev'.size
    BY <1>1, Grows
  <2>2. dev'.fsSize \in {dev.fsSize, dev.size}
    BY <1>1, DeviceStep
  <2>. QED
    BY <1>1, <1>2, <1>3, <1>4, <2>1, <2>2 DEF ExpandedCovers, Block
<1>5. CASE /\ told' = call[c].size
           /\ \/ Block /\ dev' = dev /\ ~(dev.size < call[c].size)
              \/ Block /\ dev' = [dev EXCEPT !.size = call[c].size]
              \/ dev' = [dev EXCEPT !.fsSize = dev.size] /\ call[c].size <= dev.size
  <2>1. CASE Block /\ dev' = dev /\ ~(dev.size < call[c].size)
    BY <1>1, <1>2, <1>3, <1>5, <2>1 DEF ExpandedCovers, Block
  <2>2. CASE Block /\ dev' = [dev EXCEPT !.size = call[c].size]
    <3>1. dev'.size = call[c].size
      BY <1>2, <2>2 DEF Device
    <3>. QED
      BY <1>1, <1>2, <1>3, <1>5, <2>2, <3>1 DEF ExpandedCovers, Block
  <2>3. CASE dev' = [dev EXCEPT !.fsSize = dev.size] /\ call[c].size <= dev.size
    <3>1. dev'.size = dev.size /\ dev'.fsSize = dev.size
      BY <1>2, <2>3 DEF Device
    <3>. QED
      BY <1>2, <1>3, <1>5, <2>3, <3>1 DEF ExpandedCovers
  <2>. QED
    BY <1>5, <2>1, <2>2, <2>3
<1>. QED
  BY <1>4, <1>5, Reports

\* A device that is mounted has a filesystem.
LEMMA StepDevice ==
    ASSUME IInv, NEW c \in Handlers, Step(c)
    PROVE  DeviceInv'
<1>1. TypeOK /\ DeviceInv /\ kind' = kind /\ call[c] # Idle /\ PlaceInv(call[c]) /\ target(c) \in Targets
  BY StepShape DEF IInv
<1>2. kind.fs # "none"
  BY <1>1 DEF TypeOK, Kind
<1>3. (dev'.data => dev'.fs # "none") /\ (dev.fs # "none" => dev'.fs # "none")
  BY <1>1, <1>2, DeviceStep DEF DeviceInv
<1>4. ASSUME ~Block, NEW t \in Targets, mnt'[t] # <<>> PROVE mnt[t] # <<>> \/ dev.fs = kind.fs
  <2>1. CASE BindMount(c) \/ Remount(c)
    BY <1>1, <1>4, <2>1 DEF BindMount, Remount, At, PlaceInv
  <2>2. CASE MountFilesystem(c)
    BY <1>4, <2>2 DEF MountFilesystem
  <2>3. ASSUME NEW stage \in {"umount", "force", "lazy"}, Unmount(c, stage)
        PROVE  mnt[t] # <<>> \/ dev.fs = kind.fs
    <3>1. mnt' \in {mnt, Popped(target(c))}
      BY <2>3 DEF Unmount
    <3>. QED
      BY <1>1, <1>4, <3>1, PoppedType
  <2>4. CASE \/ PrepareTarget(c) \/ Probe(c) \/ Mkfs(c) \/ MakeDirectory(c) \/ ExistingMount(c)
             \/ RemoveTarget(c) \/ LookupSize(c) \/ ExtendLV(c) \/ ResizeFilesystem(c)
    BY <1>4, <2>4 DEF PrepareTarget, Probe, Mkfs, MakeDirectory, ExistingMount, RemoveTarget,
       LookupSize, ExtendLV, ResizeFilesystem, node
  <2>. QED
    BY <2>1, <2>2, <2>3, <2>4, Zenon DEF Step
<1>. QED
  BY <1>1, <1>2, <1>3, <1>4 DEF DeviceInv, Block

\* A target is as the kubelet was told.
Shown(t) == mnt[t] # <<>> /\ (t \in kind.ro => Top(mnt[t]) = "ro")
Clean(t) == mnt[t] = <<>> /\ path[t] = "none"

\* NodePublishVolume answers OK when the volume is shown as it was asked for, and
\* NodeUnpublishVolume when nothing is left.
LEMMA Answers ==
    ASSUME IInv, NEW c \in Handlers, Step(c), want' # want, NEW t \in Targets, t = target(c)
    PROVE  \/ want'[t] = "published" /\ Shown(t)'
           \/ want'[t] = "unpublished" /\ Clean(t)'
<1>0. /\ TypeOK /\ call[c] # Idle /\ PlaceInv(call[c])
      /\ kind' = kind /\ call[c] \in Call
  BY StepShape DEF IInv, TypeOK
<1>1. ~Fail(c) /\ \A pc : ~Goto(c, pc)
  BY DEF Fail, Goto, kubelet
<1>2. OK(c) => \/ call[c].op = "publish" /\ want'[t] = "published"
               \/ call[c].op = "unpublish" /\ want'[t] = "unpublished"
  BY <1>0 DEF OK, TypeOK
<1>3. call[c].op = "unpublish" => call[c].pc \in {"umount", "force", "lazy", "remove"}
  BY <1>0 DEF PlaceInv
<1>4. CASE BindMount(c)
  <2>1. OK(c) /\ t \notin kind.ro /\ (Push(t, "rw") \/ (mnt' = mnt /\ mnt[t] # <<>>))
    BY <1>1, <1>4 DEF BindMount
  <2>2. mnt'[t] # <<>>
    BY <1>0, <2>1, PushedOnTop DEF Modes
  <2>. QED
    BY <1>0, <1>2, <1>3, <1>4, <2>1, <2>2 DEF BindMount, At, Shown
<1>5. CASE Remount(c)
  <2>1. OK(c) /\ mnt[t] # <<>> /\ mnt' = [mnt EXCEPT ![t][Len(mnt[t])] = "ro"]
    BY <1>1, <1>5 DEF Remount
  <2>2. mnt'[t] # <<>> /\ Top(mnt'[t]) = "ro"
    BY <1>0, <2>1, RemountedOnTop
  <2>. QED
    BY <1>0, <1>2, <1>3, <1>5, <2>1, <2>2 DEF Remount, At, Shown
<1>6. CASE MountFilesystem(c)
  <2>1. OK(c) /\ Push(t, Mode(t))
    BY <1>1, <1>6 DEF MountFilesystem
  <2>2. mnt'[t] # <<>> /\ Top(mnt'[t]) = Mode(t)
    BY <1>0, <2>1, PushedOnTop DEF Modes, Mode
  <2>. QED
    BY <1>0, <1>2, <1>3, <1>6, <2>1, <2>2 DEF MountFilesystem, At, Shown, Mode
<1>7. CASE ExistingMount(c)
  <2>1. OK(c) /\ Shown(t) /\ mnt' = mnt
    BY <1>1, <1>7 DEF ExistingMount, Shown, node
  <2>. QED
    BY <1>0, <1>2, <1>3, <1>7, <2>1 DEF ExistingMount, At, Shown
<1>8. CASE RemoveTarget(c)
  <2>1. OK(c) /\ mnt[t] = <<>> /\ mnt' = mnt /\ path'[t] = "none"
    BY <1>0, <1>1, <1>8 DEF RemoveTarget, TypeOK
  <2>. QED
    BY <1>0, <1>2, <1>8, <2>1 DEF RemoveTarget, At, PlaceInv, Clean
<1>9. ASSUME NEW stage \in {"umount", "force", "lazy"}, Unmount(c, stage) PROVE FALSE
  BY <1>1, <1>9 DEF Unmount
<1>10. CASE PrepareTarget(c) \/ Probe(c) \/ MakeDirectory(c) \/ Mkfs(c)
  BY <1>1, <1>10 DEF PrepareTarget, Probe, MakeDirectory, Mkfs, kubelet
<1>11. CASE LookupSize(c) \/ ExtendLV(c) \/ ResizeFilesystem(c)
  <2>1. OK(c) /\ call[c].op = "expand"
    BY <1>0, <1>1, <1>11 DEF LookupSize, ExtendLV, ResizeFilesystem, At, PlaceInv
  <2>. QED
    BY <1>2, <2>1
<1>. QED
  BY <1>4, <1>5, <1>6, <1>7, <1>8, <1>9, <1>10, <1>11 DEF Step

\* NodeExpandVolume leaves the mounts and target paths alone.
LEMMA ExpandMounts ==
    ASSUME IInv, NEW c \in Handlers, Step(c), call[c].op = "expand"
    PROVE  mnt' = mnt /\ path' = path
<1>1. call[c] # Idle /\ PlaceInv(call[c])
  BY StepShape DEF IInv
<1>. QED
  BY <1>1 DEF Step, PlaceInv, At, PrepareTarget, BindMount, Remount, Probe, Mkfs, MakeDirectory,
     MountFilesystem, ExistingMount, Unmount, RemoveTarget, LookupSize, ExtendLV, ResizeFilesystem, node

\* The kubelet's picture of every target stays true, where no handler that was given
\* up has come in between.
LEMMA StepTargets ==
    ASSUME IInv, NEW c \in Handlers, Step(c)
    PROVE  PublishedAsAsked' /\ UnpublishedIsClean'
<1>0. /\ TypeOK /\ call[c] # Idle /\ target(c) \in Targets /\ kind' = kind
      /\ \A t \in Targets \ {target(c)} : want'[t] = want[t] /\ mnt'[t] = mnt[t] /\ path'[t] = path[t]
      /\ want' = want \/ ~call[c].late
  BY StepShape DEF IInv
<1>1. Marked(c)
  BY DEF Step, PrepareTarget, BindMount, Remount, Probe, Mkfs, MakeDirectory, MountFilesystem,
     ExistingMount, Unmount, RemoveTarget, LookupSize, ExtendLV, ResizeFilesystem
<1>2. /\ strayed \subseteq strayed'
      /\ call[c].late /\ target(c) \notin strayed' => mnt' = mnt /\ path' = path
  BY <1>1 DEF Marked
<1>3. /\ \A t \in Targets : want[t] = "published" /\ t \notin strayed => Shown(t)
      /\ \A t \in Targets : want[t] = "unpublished" /\ t \notin strayed => Clean(t)
  BY DEF IInv, PublishedAsAsked, UnpublishedIsClean, Shown, Clean
<1>4. ASSUME NEW t \in Targets, t \notin strayed'
      PROVE  (want'[t] = "published" => Shown(t)') /\ (want'[t] = "unpublished" => Clean(t)')
  <2>1. CASE t # target(c) \/ (want' = want /\ mnt' = mnt /\ path' = path)
    BY <1>0, <1>2, <1>3, <1>4, <2>1 DEF Shown, Clean
  <2>2. CASE t = target(c) /\ want' # want
    BY <2>2, Answers
  <2>3. CASE t = target(c) /\ want' = want /\ ~(mnt' = mnt /\ path' = path)
    <3>1. ~call[c].late /\ call[c].op # "expand"
      BY <1>2, <1>4, <2>3, ExpandMounts
    <3>2. call[c] \in Call /\ WaitInv(call[c])
      BY <1>0 DEF IInv, TypeOK
    <3>3. want[t] \in {"publish", "unpublish"}
      BY <2>3, <3>1, <3>2 DEF WaitInv, Call, Ops, target
    <3>. QED
      BY <2>3, <3>3
  <2>. QED
    BY <2>1, <2>2, <2>3
<1>. QED
  BY <1>4 DEF PublishedAsAsked, UnpublishedIsClean, Shown, Clean

\* A handler's step keeps the invariant.
LEMMA StepInv ==
    ASSUME IInv, NEW c \in Handlers, Step(c)
    PROVE  IInv'
<1>1. TypeOK'
  BY StepType DEF IInv
<1>2. (\A d \in Handlers : CallInv(d)') /\ OneCall'
  BY <1>1, StepCalls
<1>3. DeviceInv' /\ ExpandedCovers'
  BY <1>1, StepDevice, StepCovers
<1>4. PublishedAsAsked' /\ UnpublishedIsClean'
  BY StepTargets
<1>. QED
  BY <1>1, <1>2, <1>3, <1>4 DEF IInv, CallInv

-----------------------------------------------------------------------------
(* So do all other steps.                                                  *)

\* What the kubelet and the pods do.
LEMMA KubeletInv ==
    ASSUME IInv, TypeOK',
           \/ \E t \in Targets : WantPublish(t) \/ WantUnpublish(t) \/ PodWrites(t)
           \/ \E size \in Sizes : WantExpand(size)
    PROVE  IInv'
<1>0. TypeOK /\ call' = call /\ kind' = kind /\ UNCHANGED <<mnt, path, strayed, told>>
  BY DEF IInv, WantPublish, WantUnpublish, PodWrites, WantExpand, kubelet, node
<1>1. /\ dev'.size = dev.size /\ dev'.fs = dev.fs /\ dev'.fsSize = dev.fsSize
      /\ dev'.data => dev'.fs # "none"
  <2>1. CASE dev' = dev
    BY <2>1 DEF IInv, DeviceInv
  <2>2. ASSUME NEW t \in Targets, PodWrites(t)
        PROVE  /\ dev'.size = dev.size /\ dev'.fs = dev.fs /\ dev'.fsSize = dev.fsSize
               /\ dev'.fs # "none"
    <3>1. dev \in Device /\ dev' = [dev EXCEPT !.data = TRUE]
      BY <1>0, <2>2 DEF TypeOK, PodWrites
    <3>2. dev.fs # "none"
      BY <2>2 DEF PodWrites, IInv, DeviceInv
    <3>. QED
      BY <3>1, <3>2 DEF Device
  <2>. QED
    BY <2>1, <2>2 DEF WantPublish, WantUnpublish, WantExpand, node
<1>2. \A t \in Targets :
         \/ want'[t] = want[t]
         \/ want[t] = "none" /\ want'[t] = "publish"
         \/ want[t] \in {"publish", "published"} /\ want'[t] = "unpublish"
  BY <1>0 DEF TypeOK, WantPublish, WantUnpublish, PodWrites, WantExpand, kubelet
<1>3. ASSUME NEW d \in Handlers PROVE CallInv(d)'
  <2>. SUFFICES ASSUME call[d] # Idle PROVE (PlaceInv(call[d]) /\ SeenInv(call[d]) /\ WaitInv(call[d]))'
    BY <1>0 DEF CallInv
  <2>1. call[d] \in Call /\ PlaceInv(call[d]) /\ SeenInv(call[d]) /\ WaitInv(call[d])
    BY <1>0 DEF IInv, TypeOK
  <2>2. PlaceInv(call[d])' /\ SeenInv(call[d])'
    BY <1>0, <1>1, <2>1 DEF PlaceInv, SeenInv, Block
  <2>3. call[d].t \in Targets /\ call[d].op \in {"publish", "unpublish", "expand"}
    BY <2>1 DEF Call, Ops
  <2>4. WaitInv(call[d])'
    BY <1>0, <1>2, <2>1, <2>3 DEF WaitInv
  <2>. QED
    BY <2>2, <2>4
<1>4. OneCall'
  BY <1>0 DEF IInv, OneCall
<1>5. DeviceInv' /\ ExpandedCovers'
  BY <1>0, <1>1 DEF IInv, DeviceInv, ExpandedCovers, Block
<1>6. PublishedAsAsked' /\ UnpublishedIsClean'
  BY <1>0, <1>2 DEF IInv, PublishedAsAsked, UnpublishedIsClean
<1>. QED
  BY <1>3, <1>4, <1>5, <1>6 DEF IInv, CallInv

\* A call begins where the kubelet waits for no other.
LEMMA BeginInv ==
    ASSUME IInv, TypeOK', NEW t \in Targets, Calls(t)
    PROVE  IInv'
<1>1. PICK c \in Handlers : NodePublishVolume(c, t) \/ NodeUnpublishVolume(c, t) \/ NodeExpandVolume(c, t)
  BY DEF Calls
<1>2. PICK op \in Ops, pc \in Stages, size \in Sizes \cup {0} :
         /\ Begin(c, t, op, pc, size)
         /\ \/ op = "publish" /\ want[t] = "publish" /\ pc = (IF Block THEN "prepare" ELSE "probe")
            \/ op = "unpublish" /\ want[t] = "unpublish" /\ pc = "umount"
            \/ op = "expand" /\ want[t] = "published" /\ pc = "lvs"
  BY <1>1 DEF NodePublishVolume, NodeUnpublishVolume, NodeExpandVolume, Ops, Stages, IInv, TypeOK
<1>. DEFINE new == [op |-> op, t |-> t, pc |-> pc, size |-> size, late |-> FALSE, overtaken |-> FALSE]
<1>3. /\ ~Waiting(t) /\ call[c] = Idle
      /\ UNCHANGED <<kind, want, asked, told, dev, active, mnt, path, strayed>>
  BY <1>2 DEF Begin, kubelet, node
<1>4. call'[c] = new /\ \A d \in Handlers \ {c} : call'[d] = call[d]
  BY <1>2 DEF Begin, IInv, TypeOK
<1>5. PlaceInv(new)' /\ SeenInv(new)' /\ WaitInv(new)'
  BY <1>2, <1>3 DEF PlaceInv, SeenInv, WaitInv, Block
<1>6. ASSUME NEW d \in Handlers PROVE CallInv(d)'
  <2>1. CASE d = c
    BY <1>4, <1>5, <2>1 DEF CallInv, PlaceInv, SeenInv, WaitInv
  <2>2. CASE d # c
    BY <1>3, <1>4, <2>2 DEF IInv, CallInv, PlaceInv, SeenInv, WaitInv, Block
  <2>. QED
    BY <2>1, <2>2
<1>7. OneCall'
  <2>1. ASSUME NEW d \in Handlers \ {c}, call'[d] # Idle, call'[d].t = t PROVE call'[d].late
    BY <1>3, <1>4, <2>1 DEF Waiting
  <2>2. new.t = t
    OBVIOUS
  <2>. HIDE DEF new
  <2>. QED
    BY <1>4, <2>1, <2>2 DEF IInv, OneCall
<1>8. (DeviceInv /\ ExpandedCovers /\ PublishedAsAsked /\ UnpublishedIsClean)'
  BY <1>3 DEF IInv, DeviceInv, ExpandedCovers, PublishedAsAsked, UnpublishedIsClean, Block
<1>. QED
  BY <1>6, <1>7, <1>8 DEF IInv, CallInv

\* A call is given up, a command fails, the plugin or the node goes down and comes up.
LEMMA FaultInv ==
    ASSUME IInv, TypeOK', (\E c \in Handlers : GiveUp(c) \/ CommandFails(c)) \/ Crash \/ Reboot \/ StartPlugin
    PROVE  IInv'
<1>0. TypeOK /\ UNCHANGED <<kind, told, dev, path, strayed>>
  BY DEF IInv, GiveUp, CommandFails, Fail, Crash, Reboot, StartPlugin, kubelet, node
<1>1. ASSUME NEW d \in Handlers, call'[d] # Idle
      PROVE  /\ call[d] # Idle /\ want' = want
             /\ call'[d].op = call[d].op /\ call'[d].t = call[d].t /\ call'[d].pc = call[d].pc
             /\ call'[d].size = call[d].size /\ call'[d].overtaken = call[d].overtaken
             /\ call[d].late => call'[d].late
  <2>1. ASSUME NEW c \in Handlers, GiveUp(c)
        PROVE  call'[d] = call[d] \/ call'[d] = [call[d] EXCEPT !.late = TRUE]
    BY <1>0, <2>1 DEF GiveUp, TypeOK
  <2>2. ASSUME NEW c \in Handlers, CommandFails(c) PROVE call'[d] = call[d]
    BY <1>0, <1>1, <2>2 DEF CommandFails, Fail, TypeOK
  <2>3. CASE StartPlugin
    BY <1>1, <2>3 DEF StartPlugin, kubelet
  <2>4. CASE Crash \/ Reboot
    BY <1>1, <2>4 DEF Crash, Reboot
  <2>5. call[d] # Idle
    BY <1>0, <1>1, <2>2, <2>3, <2>4 DEF GiveUp, TypeOK
  <2>6. call[d] \in Call
    BY <1>0, <2>5 DEF TypeOK
  <2>7. call'[d] = call[d] \/ call'[d] = [call[d] EXCEPT !.late = TRUE]
    <3>1. StartPlugin => call' = call
      BY DEF StartPlugin
    <3>2. ~Crash /\ ~Reboot
      BY <1>1 DEF Crash, Reboot
    <3>. QED
      BY <2>1, <2>2, <3>1, <3>2
  <2>8. want' = want
    BY <1>1, <2>4 DEF GiveUp, CommandFails, Fail, StartPlugin, kubelet
  <2>. QED
    BY <2>5, <2>6, <2>7, <2>8 DEF Call
<1>2. ASSUME NEW d \in Handlers PROVE CallInv(d)'
  <2>. SUFFICES ASSUME call'[d] # Idle
                PROVE  PlaceInv(call[d])' /\ SeenInv(call[d])' /\ WaitInv(call[d])'
    BY DEF CallInv
  <2>1. /\ call[d] # Idle /\ want' = want
        /\ call'[d].op = call[d].op /\ call'[d].t = call[d].t /\ call'[d].pc = call[d].pc
        /\ call'[d].size = call[d].size /\ call'[d].overtaken = call[d].overtaken
        /\ call[d].late => call'[d].late
    BY <1>1
  <2>2. PlaceInv(call[d]) /\ SeenInv(call[d]) /\ WaitInv(call[d])
    BY <2>1 DEF IInv
  <2>3. PlaceInv(call[d])'
    BY <1>0, <2>1, <2>2 DEF PlaceInv, Block
  <2>4. SeenInv(call[d])'
    BY <1>0, <2>1, <2>2 DEF SeenInv
  <2>5. WaitInv(call[d])'
    BY <2>1, <2>2 DEF WaitInv
  <2>. QED
    BY <2>3, <2>4, <2>5
<1>3. OneCall'
  BY <1>1 DEF IInv, OneCall
<1>4. \A t \in Targets : \/ mnt'[t] = mnt[t] /\ want'[t] = want[t]
                         \/ mnt'[t] = <<>> /\ want'[t] # "published"
                            /\ (want'[t] = "unpublished" => want[t] = "unpublished")
  BY <1>0 DEF TypeOK, GiveUp, CommandFails, Fail, Crash, Reboot, StartPlugin, kubelet, node
<1>5. (DeviceInv /\ ExpandedCovers)'
  BY <1>0, <1>4 DEF IInv, DeviceInv, ExpandedCovers, Block
<1>6. (PublishedAsAsked /\ UnpublishedIsClean)'
  BY <1>0, <1>4 DEF IInv, PublishedAsAsked, UnpublishedIsClean
<1>. QED
  BY <1>2, <1>3, <1>5, <1>6 DEF IInv, CallInv

\* The initial states satisfy the invariant.
LEMMA InitInv == Init => IInv
<1>. SUFFICES ASSUME Init PROVE IInv
  OBVIOUS
<1>1. kind \in Kind /\ dev \in Device /\ (dev.data => dev.fs # "none")
  <2>1. PICK v \in Volumes : kind = v[1] /\ dev = v[2]
    BY DEF Init
  <2>. QED
    BY <2>1, VolumesAssumption
<1>2. MaxFaults[kind.access] \in Nat /\ MaxGiveUps \in Nat
  BY <1>1, BoundsAssumption DEF Kind
<1>3. TypeOK
  <2>1. mnt \in [Targets -> Seq({"rw", "ro"})]
    <3>1. <<>> \in Seq({"rw", "ro"})
      OBVIOUS
    <3>. QED
      BY <3>1 DEF Init
  <2>2. faults \in 0..MaxFaults[kind.access] /\ giveUps \in 0..MaxGiveUps
    BY <1>2 DEF Init
  <2>. QED
    BY <1>1, <2>1, <2>2 DEF Init, TypeOK
<1>4. dev.size \in Nat /\ dev.fsSize \in Nat
  BY <1>1, Naturals
<1>. QED
  BY <1>1, <1>3, <1>4 DEF Init, IInv, OneCall, DeviceInv, ExpandedCovers, PublishedAsAsked,
     UnpublishedIsClean

\* Every step keeps the invariant.
LEMMA NextInv == IInv /\ [Next]_vars => IInv'
<1>. SUFFICES ASSUME IInv, [Next]_vars PROVE IInv'
  OBVIOUS
<1>1. ASSUME NEW c \in Handlers, Step(c) PROVE IInv'
  BY <1>1, StepInv
<1>2. CASE \/ \E t \in Targets : WantPublish(t) \/ WantUnpublish(t) \/ PodWrites(t)
           \/ \E size \in Sizes : WantExpand(size)
  <2>1. TypeOK'
    BY <1>2, OtherType DEF IInv
  <2>. QED
    BY <1>2, <2>1, KubeletInv
<1>3. ASSUME NEW t \in Targets, Calls(t) PROVE IInv'
  <2>1. TypeOK'
    BY <1>3, OtherType DEF IInv
  <2>. QED
    BY <1>3, <2>1, BeginInv
<1>4. CASE (\E c \in Handlers : GiveUp(c) \/ CommandFails(c)) \/ Crash \/ Reboot \/ StartPlugin
  <2>1. TypeOK'
    BY <1>4, OtherType DEF IInv
  <2>. QED
    BY <1>4, <2>1, FaultInv
<1>5. CASE UNCHANGED vars
  BY <1>5 DEF vars, IInv, TypeOK, PlaceInv, SeenInv, WaitInv, OneCall, DeviceInv, ExpandedCovers,
     PublishedAsAsked, UnpublishedIsClean, Block
<1>. QED
  BY <1>1, <1>2, <1>3, <1>4, <1>5 DEF Next

-----------------------------------------------------------------------------
(* Theorems.                                                               *)

\* The inductive invariant of the node service holds in every state.
THEOREM NodeInductive == Spec => []IInv
BY InitInv, NextInv, PTL DEF Spec

\* Handlers, mounts and the device stay well typed: sizes that were asked for and
\* reported are sizes, and no command leaves a device or a stack of mounts undefined.
THEOREM NodeTyped == Spec => []TypeOK
<1>1. IInv => TypeOK
  BY DEF IInv
<1>. QED
  BY <1>1, NodeInductive, PTL

\* NodePublishVolume: a target that was reported published shows the volume, read-only
\* if that was asked for, whatever failed before and whatever is stacked on it.
THEOREM TargetsArePublished == Spec => []PublishedAsAsked
<1>1. IInv => PublishedAsAsked
  BY DEF IInv
<1>. QED
  BY <1>1, NodeInductive, PTL

\* NodeUnpublishVolume: a target that was reported unpublished has no mount and no path.
THEOREM TargetsAreClean == Spec => []UnpublishedIsClean
<1>1. IInv => UnpublishedIsClean
  BY DEF IInv
<1>. QED
  BY <1>1, NodeInductive, PTL

\* NodeExpandVolume: the size that was reported is that of the LV and its filesystem.
THEOREM ExpansionsCover == Spec => []ExpandedCovers
<1>1. IInv => ExpandedCovers
  BY DEF IInv
<1>. QED
  BY <1>1, NodeInductive, PTL

\* ensureFilesystem: no format destroys what a pod has written, but for the one of a
\* handler that another one's format has overtaken between its probe and its mkfs.
THEOREM FormatsSpareData == Spec => FormatSparesData
<1>1. IInv /\ [Next]_vars
        => [dev.data /\ ~dev'.data => \E c \in Handlers : At(c, "mkfs") /\ call[c].overtaken]_vars
  <2>. SUFFICES ASSUME IInv, Next, dev.data, ~dev'.data
                PROVE  \E c \in Handlers : At(c, "mkfs") /\ call[c].overtaken
    OBVIOUS
  <2>0. dev \in Device
    BY DEF IInv, TypeOK
  <2>1. ASSUME NEW c \in Handlers, Step(c) PROVE At(c, "mkfs") /\ call[c].overtaken
    <3>1. At(c, "mkfs")
      BY <2>1, DeviceStep DEF IInv
    <3>. QED
      BY <3>1 DEF IInv, SeenInv, DeviceInv, At
  <2>2. ASSUME NEW t \in Targets, PodWrites(t) PROVE FALSE
    BY <2>2 DEF PodWrites
  <2>3. CASE dev' = dev
    BY <2>3
  <2>. QED
    BY <2>1, <2>2, <2>3 DEF Next, WantPublish, WantUnpublish, WantExpand, Calls, NodePublishVolume,
       NodeUnpublishVolume, NodeExpandVolume, Begin, GiveUp, CommandFails, Crash, Reboot, StartPlugin,
       node, kubelet
<1>. QED
  BY <1>1, NodeInductive, PTL DEF Spec, FormatSparesData

=============================================================================

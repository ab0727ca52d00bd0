-------------------------- MODULE VolumesCloneProofs --------------------------
(***************************************************************************)
(* Volumes: an acknowledged clone holds all of its source.  newCloneVolume- *)
(* Action compares the sizes that were asked for; this is enough as long as *)
(* no source grows (SourcesStay) and an imported snapshot of unknown size  *)
(* is restored into enough room (AskedEnough).  A clone depends on another *)
(* volume and on a snapshot, so the proof rests on what a step of anyone   *)
(* keeps of them (Keeps, SnapsKept).                                       *)
(***************************************************************************)
EXTENDS VolumesProofs

\* A request stays once it was made, and no volume becomes new again.
Keeps(u) ==
    want[u] # "none" => /\ want'[u] # "none" /\ req'[u] = req[u]
                        /\ want'[u] = "new" => want[u] = "new"

\* A snapshot that is being restored stays.
SnapsKept ==
    \A s \in Snaps : snap[s] # None /\ Protected(s) => snap'[s] # None /\ snap'[s].size = snap[s].size

LEMMA Numbers ==
    ASSUME TypeOK, NEW v \in Volumes
    PROVE  /\ req[v] \in Request /\ req[v].size \in Nat
           /\ \A p \in Places : lv[v][p] \in Nat
           /\ SourceOf(v) \in Volumes \cup Snaps \cup {None}
           /\ SourceOf(v) # None => Base(SourceOf(v)) \in Volumes
<1>1. req[v] \in Request
  BY DEF TypeOK
<1>2. req[v].size \in Sizes \cup {0} /\ req[v].source \in Volumes \cup Snaps \cup {None}
  BY <1>1 DEF Request
<1>3. \A p \in Places : lv[v][p] \in Sizes \cup {0}
  BY DEF TypeOK
<1>4. req[v].size \in Nat /\ \A p \in Places : lv[v][p] \in Nat
  <2>1. Sizes \cup {0} \subseteq Nat
    BY AsksAssumption
  <2>. QED
    BY <1>2, <1>3, <2>1, Zenon
<1>5. SourceOf(v) # None => Base(SourceOf(v)) \in Volumes
  BY <1>2, AsksAssumption DEF SourceOf, Base
<1>. QED
  BY <1>1, <1>2, <1>4, <1>5 DEF SourceOf

\* The steps of a volume change what the CO wants of it in one direction.
LEMMA VolumeKeeps ==
    ASSUME TypeOK, NEW v \in Volumes, VolumeInv(v), VolumeStep(v)
    PROVE  \A u \in Volumes : Keeps(u)
<1>1. Keeps(v)
  <2>. USE DEF TypeOK, Keeps
  <2>1. CASE COStep(v)
    BY <2>1 DEF COStep, AskCreate, StorePV, GiveUpPV, AskDelete, Abandon
  <2>2. CASE AnswerCreate(v)
    BY <2>2 DEF AnswerCreate
  <2>3. CASE DeleteVolume(v) \/ NodeAvailable(v) \/ AnswerDelete(v)
    BY <2>3 DEF DeleteVolume, NodeAvailable, AnswerDelete, OkDelete
  <2>4. CASE UNCHANGED <<want, req>>
    BY <2>4
  <2>5. \/ COStep(v) \/ AnswerCreate(v) \/ DeleteVolume(v) \/ NodeAvailable(v) \/ AnswerDelete(v)
        \/ UNCHANGED <<want, req>>
    BY Zenon DEF VolumeStep, Call, CallStep, HelperStep, CreateVolume, SnapshotSource, VolumeSource,
       CreateHelper, StartHelper, WaitCreated, DeleteHelper, WaitDeleted, HelperCreates, HelperDeletes,
       PodCollected, Abort, HelperFails, PVChanges, Grow
  <2>. QED
    BY <2>1, <2>2, <2>3, <2>4, <2>5
<1>2. ASSUME NEW u \in Volumes, u # v PROVE Keeps(u)
  BY <1>2, Others DEF Untouched, Keeps
<1>. QED
  BY <1>1, <1>2

\* A volume's step leaves the snapshots alone, and takes no other volume's content.
LEMMA VolumeLeaves ==
    ASSUME TypeOK, NEW v \in Volumes, VolumeStep(v)
    PROVE  snap' = snap /\ \A u \in Volumes \ {v} : u \in roomy => u \in roomy'
<1>1. snap' = snap
  BY Zenon DEF VolumeStep, Call, CallStep, HelperStep, COStep, AskCreate, StorePV, GiveUpPV, AskDelete,
     Abandon, CreateVolume, DeleteVolume, SnapshotSource, VolumeSource, CreateHelper, StartHelper,
     WaitCreated, AnswerCreate, NodeAvailable, DeleteHelper, WaitDeleted, AnswerDelete, HelperCreates,
     HelperDeletes, PodCollected, Abort, HelperFails, PVChanges, Grow, objects
<1>2. roomy' = roomy \/ HelperCreates(v)
  BY Zenon DEF VolumeStep, Call, CallStep, HelperStep, COStep, AskCreate, StorePV, GiveUpPV, AskDelete,
     Abandon, CreateVolume, DeleteVolume, SnapshotSource, VolumeSource, CreateHelper, StartHelper,
     WaitCreated, AnswerCreate, NodeAvailable, DeleteHelper, WaitDeleted, AnswerDelete,
     HelperDeletes, PodCollected, Abort, HelperFails, PVChanges, Grow, disks
<1>3. HelperCreates(v) => roomy' = roomy \/ roomy' = roomy \cup {v} \/ roomy' = roomy \ {v}
  BY Zenon DEF HelperCreates
<1>. QED
  BY <1>1, <1>2, <1>3

\* A step of a snapshot or a node leaves the volumes alone, and snapshots that are
\* being restored.
LEMMA OtherKeeps ==
    ASSUME TypeOK, OtherStep
    PROVE  (\A u \in Volumes : Keeps(u)) /\ SnapsKept /\ roomy' = roomy
<1>1. UNCHANGED <<want, req, roomy>>
  BY DEF OtherStep, TakeSnapshot, ImportSnapshot, SnapshotChanges, NodeLost, disks
<1>2. SnapsKept
  <2>. SUFFICES ASSUME NEW t \in Snaps, snap[t] # None, Protected(t)
                PROVE  snap'[t] # None /\ snap'[t].size = snap[t].size
    BY DEF SnapsKept
  <2>0. snap[t] \in Snap /\ snap \in [Snaps -> Snap \cup {None}]
    BY DEF TypeOK
  <2>1. ASSUME NEW s \in Snaps, TakeSnapshot(s) \/ ImportSnapshot(s) PROVE s # t /\ snap'[t] = snap[t]
    BY <2>0, <2>1 DEF TakeSnapshot, ImportSnapshot
  <2>2. ASSUME NEW s \in Snaps, SnapshotChanges(s)
        PROVE  snap'[t] # None /\ snap'[t].size = snap[t].size
    <3>1. CASE s # t
      BY <2>0, <2>2, <3>1 DEF SnapshotChanges
    <3>2. CASE s = t
      <4>1. [snap[t] EXCEPT !.recorded = None] \in Snap /\ [snap[t] EXCEPT !.recorded = None].size = snap[t].size
        BY <2>0 DEF Snap
      <4>2. snap'[t] = [snap[t] EXCEPT !.recorded = None]
        BY <2>0, <2>2, <3>2 DEF SnapshotChanges
      <4>. QED
        BY <4>1, <4>2, NoneAssumption
    <3>. QED
      BY <3>1, <3>2
  <2>3. ASSUME NEW n \in Nodes, NodeLost(n) PROVE snap' = snap
    BY <2>3 DEF NodeLost
  <2>. QED
    BY <2>1, <2>2, <2>3 DEF OtherStep
<1>. QED
  BY <1>1, <1>2 DEF Keeps

\* What fits goes on fitting.
LEMMA FitKept ==
    ASSUME TypeOK, NEW v \in Volumes, want[v] # "none", SourceOf(v) # None, Fit(v),
           \A u \in Volumes : Keeps(u), SnapsKept
    PROVE  Fit(v)' /\ (want'[v] = "new" => Need(v)' = Need(v))
<1>1. /\ SourceOf(v) \in Volumes \cup Snaps /\ Base(SourceOf(v)) \in Volumes
      /\ req'[v] = req[v] /\ SourceOf(v)' = SourceOf(v)
  BY Numbers DEF Keeps, SourceOf
<1>2. want'[Base(SourceOf(v))] # "none" /\ req'[Base(SourceOf(v))] = req[Base(SourceOf(v))]
  BY <1>1 DEF Keeps, Fit
<1>3. ASSUME want'[v] = "new", SourceOf(v) \in Snaps
      PROVE  snap'[SourceOf(v)] # None /\ snap'[SourceOf(v)].size = snap[SourceOf(v)].size
  <2>1. want[v] = "new"
    BY <1>3 DEF Keeps
  <2>. QED
    BY <1>3, <2>1 DEF Fit, SnapsKept, Protected
<1>4. Fit(v)'
  BY <1>1, <1>2, <1>3 DEF Fit, Base
<1>5. want'[v] = "new" => Need(v)' = Need(v)
  BY <1>1, <1>2, <1>3 DEF Need, Base
<1>. QED
  BY <1>4, <1>5

\* What a step has to leave of a volume that was asked for.
LEMMA CloneStep ==
    ASSUME TypeOK, NEW v \in Volumes, want[v] # "none", \A u \in Volumes : Keeps(u), SnapsKept,
           pc'[v] = "chelper" => Suits(v, act'[v].source),
           job'[v]["create"] # None =>
               /\ Suits(v, job'[v]["create"].act.source)
               /\ job'[v]["create"].phase = "succeeded" /\ want'[v] = "new" => v \in roomy',
           want'[v] = "new" /\ SourceOf(v) # None =>
               \A p \in Places : lv'[v][p] # 0 => Fit(v) /\ Need(v) <= lv'[v][p],
           pc'[v] = "cok" /\ want'[v] = "new" => v \in roomy',
           want'[v] \in {"made", "ready"} => v \in roomy'
    PROVE  CloneInv(v)'
<1>1. SourceOf(v)' = SourceOf(v)
  BY DEF Keeps, SourceOf
<1>2. SourceOf(v) # None /\ Fit(v) => Fit(v)' /\ (want'[v] = "new" => Need(v)' = Need(v))
  BY FitKept
<1>3. \A source : Suits(v, source) => /\ source = None <=> SourceOf(v)' = None
                                      /\ source # None => source.lv = SourceOf(v)' /\ Fit(v)'
  BY <1>1, <1>2 DEF Suits
<1>4. pc'[v] = "chelper" => Suits(v, act[v].source)'
  BY <1>3 DEF Suits
<1>5. job'[v]["create"] # None => Suits(v, job[v]["create"].act.source)'
  BY <1>3 DEF Suits
<1>6. (want'[v] = "new" /\ SourceOf(v)' # None) =>
          \A p \in Places : lv'[v][p] # 0 => Fit(v)' /\ Need(v)' <= lv'[v][p]
  BY <1>1, <1>2
<1>. QED
  BY <1>4, <1>5, <1>6 DEF CloneInv

\* A volume that another one's step, or a snapshot's, leaves alone.
LEMMA CloneUntouched ==
    ASSUME TypeOK, NEW v \in Volumes, VolumeInv(v), CloneInv(v), Untouched(v),
           \A u \in Volumes : Keeps(u), SnapsKept, v \in roomy => v \in roomy'
    PROVE  CloneInv(v)'
<1>1. CASE want[v] = "none"
  <2>1. /\ want'[v] = "none" /\ pc'[v] = "idle" /\ job'[v]["create"] = None
    BY <1>1 DEF VolumeInv, CallInv, CreateInv, Untouched
  <2>. QED
    BY <2>1 DEF CloneInv
<1>2. CASE want[v] # "none"
  BY <1>2, CloneStep DEF CloneInv, Untouched
<1>. QED
  BY <1>1, <1>2

LEMMA SizeUntouched ==
    ASSUME NEW v \in Volumes, SizeInv(v), Untouched(v)
    PROVE  SizeInv(v)'
BY DEF SizeInv, Untouched, NoAsk

-----------------------------------------------------------------------------
(* The helper of a clone.                                                  *)

\* No source is larger than what was asked for, and an LV that a helper makes or
\* finds has room for it.
LEMMA RoomForSource ==
    ASSUME IInv, RoomInv, SourcesStay, NEW v \in Volumes, job[v]["create"] # None
    PROVE  LET j == job[v]["create"].act
           IN  /\ j.place = Home(v) /\ Home(v) \in Places /\ j.size = req[v].size
               /\ NewSize(v, j) \in Nat
               /\ v \notin Growing => NewSize(v, j) <= req[v].size
               /\ j.source # None =>
                     /\ SourceOf(v) # None /\ Fit(v) /\ SourceSize(j) \in Nat
                     /\ want[v] = "new" => Need(v) \in Nat /\ Need(v) <= req[v].size
                     /\ want[v] = "new" /\ SourceSize(j) # 0 =>
                           SourceSize(j) <= NewSize(v, j) /\ Need(v) <= NewSize(v, j)
<1>. DEFINE j == job[v]["create"].act
            s == SourceOf(v)
            b == Base(s)
<1>0. TypeOK /\ VolumeInv(v) /\ SizeInv(v) /\ CloneInv(v)
  BY DEF IInv, RoomInv
<1>1. /\ j \in Action /\ j.place = Home(v) /\ j.size = req[v].size /\ Suits(v, j.source)
      /\ Home(v) \in Places
  <2>1. job[v]["create"] \in Job /\ ValidCreate(req[v])
    BY <1>0 DEF TypeOK, Actions, VolumeInv, CreateInv
  <2>. QED
    BY <1>0, <2>1, ValidRequest DEF Job, VolumeInv, CreateInv, CloneInv, TypeOK, Home
<1>. HIDE DEF j
<1>2. /\ j.source # None => SourceSize(j) \in Nat
      /\ NewSize(v, j) \in Nat /\ lv[v][Home(v)] \in Nat /\ req[v].size \in Nat
  <2>1. Sizes \cup {0} \subseteq Nat
    BY AsksAssumption
  <2>. QED
    BY <1>0, <1>1, <2>1, SizeTypes, Numbers
<1>3. ASSUME j.source # None
      PROVE  /\ s # None /\ Fit(v)
             /\ SourceSize(j) <= req[v].size
             /\ want[v] = "new" => /\ Need(v) \in Nat /\ Need(v) <= req[v].size
                                   /\ SourceSize(j) <= Need(v)
             /\ FastClone(j) /\ SourceSize(j) # 0 => SourceSize(j) = Need(v)
  <2>1. s # None /\ Fit(v) /\ j.source.lv = s /\ s \in Volumes \cup Snaps /\ b \in Volumes
    BY <1>0, <1>1, <1>3, Numbers DEF Suits
  <2>2. b \notin Growing
    <3>1. req[v] \in Asks[v]
      BY <1>0, <2>1 DEF SizeInv, NoAsk, SourceOf
    <3>. QED
      BY <2>1, <3>1 DEF SourcesStay, SourceOf
  <2>3. req[b].size \in Nat /\ req[b].size <= req[v].size
    BY <1>0, <2>1, Numbers DEF Fit
  <2>. DEFINE p == [node |-> j.place.node, vg |-> j.source.vg]
  <2>4. p \in Places
    BY <1>1, <1>3 DEF Action, Source, Places
  <2>5. CASE s \in Volumes
    <3>1. b = s /\ s \notin Snaps
      BY <2>5, NamesAssumption DEF Base
    <3>2. SourceSize(j) = lv[s][p] /\ Need(v) = req[s].size /\ ~FastClone(j)
      BY <2>1, <2>5, <3>1 DEF SourceSize, Need, FastClone
    <3>3. lv[s][p] <= req[s].size /\ lv[s][p] \in Nat
      <4>. HIDE DEF p, s
      <4>. QED
        BY <1>0, <2>2, <2>4, <2>5, <3>1, Numbers DEF RoomInv, SizeInv
    <3>. HIDE DEF p, s, b
    <3>. QED
      BY <1>2, <2>1, <2>3, <3>1, <3>2, <3>3
  <2>6. CASE s \in Snaps
    <3>1. b = SnapOf[s] /\ s \notin Volumes
      BY <2>6, NamesAssumption DEF Base
    <3>2. snap[s] # None => snap[s].size <= req[b].size /\ snap[s].size \in Nat
      <4>1. snap[s] # None => snap[s].size \in Sizes
        BY <1>0, <2>6 DEF TypeOK, Snap
      <4>. QED
        BY <2>2, <2>6, <3>1, <4>1, AsksAssumption DEF RoomInv, SnapInv
    <3>3. Need(v) = snap[s].size
      BY <2>6 DEF Need
    <3>4. SourceSize(j) = 0 \/ (snap[s] # None /\ SourceSize(j) = snap[s].size)
      BY <2>1, <2>6, <3>1 DEF SourceSize
    <3>5. want[v] = "new" => snap[s] # None
      BY <2>1, <2>6 DEF Fit
    <3>. HIDE DEF s, b
    <3>6. want[v] = "new" => /\ Need(v) \in Nat /\ Need(v) <= req[v].size
                             /\ SourceSize(j) <= Need(v)
      BY <1>2, <2>3, <3>2, <3>3, <3>4, <3>5
    <3>7. SourceSize(j) <= req[v].size
      BY <1>2, <2>3, <3>2, <3>4
    <3>8. SourceSize(j) # 0 => SourceSize(j) = Need(v)
      BY <3>3, <3>4
    <3>. QED
      BY <2>1, <3>6, <3>7, <3>8
  <2>. QED
    BY <2>1, <2>5, <2>6
<1>4. v \notin Growing => NewSize(v, j) <= req[v].size
  <2>1. v \notin Growing => lv[v][Home(v)] <= req[v].size
    BY <1>0, <1>1 DEF SizeInv
  <2>. QED
    BY <1>1, <1>2, <1>3, <2>1 DEF NewSize
<1>5. ASSUME j.source # None, want[v] = "new", SourceSize(j) # 0
      PROVE  SourceSize(j) <= NewSize(v, j) /\ Need(v) <= NewSize(v, j)
  <2>1. CASE lv[v][Home(v)] # 0
    <3>0. lv[v][j.place] # 0 /\ lv[v][j.place] = lv[v][Home(v)]
      BY <1>1, <2>1
    <3>1. NewSize(v, j) = lv[v][Home(v)]
      BY <3>0 DEF NewSize
    <3>2. Need(v) <= lv[v][Home(v)]
      BY <1>0, <1>1, <1>3, <1>5, <2>1 DEF CloneInv
    <3>. QED
      BY <1>2, <1>3, <1>5, <3>1, <3>2
  <2>2. CASE lv[v][Home(v)] = 0 /\ FastClone(j)
    BY <1>1, <1>2, <1>3, <1>5, <2>2 DEF NewSize
  <2>3. CASE lv[v][Home(v)] = 0 /\ ~FastClone(j)
    BY <1>1, <1>2, <1>3, <1>5, <2>3 DEF NewSize
  <2>. QED
    BY <2>1, <2>2, <2>3
<1>. QED
  BY <1>1, <1>2, <1>3, <1>4, <1>5 DEF j

-----------------------------------------------------------------------------
(* The steps of a volume.                                                  *)

LEMMA SizeStep ==
    ASSUME NEW v \in Volumes, SizeInv(v), req' = req,
           pv'[v] # None => pv'[v].bytes \in {0, req[v].size},
           v \notin Growing => \A p \in Places : lv'[v][p] <= req[v].size
    PROVE  SizeInv(v)'
BY DEF SizeInv, NoAsk

LEMMA SizeQuiet ==
    ASSUME NEW v \in Volumes, SizeInv(v), req' = req, lv' = lv, pv'[v] \in {pv[v], None}
    PROVE  SizeInv(v)'
BY SizeStep DEF SizeInv

\* A step that makes no LV, starts no helper and gets no further towards an OK.
LEMMA QuietStep ==
    ASSUME TypeOK, NEW v \in Volumes, want[v] # "none", CloneInv(v),
           \A u \in Volumes : Keeps(u), SnapsKept, lv' = lv, roomy' = roomy,
           job'[v]["create"] \in {job[v]["create"], None},
           pc'[v] \in {"chelper", "cok"} => pc'[v] = pc[v] /\ act'[v] = act[v],
           want'[v] \in {"made", "ready"} => want[v] \in {"made", "ready"}
    PROVE  CloneInv(v)'
<1>1. want'[v] = "new" => want[v] = "new"
  BY DEF Keeps
<1>2. pc'[v] = "chelper" => Suits(v, act'[v].source)
  BY DEF CloneInv
<1>3. job'[v]["create"] # None =>
          /\ Suits(v, job'[v]["create"].act.source)
          /\ job'[v]["create"].phase = "succeeded" /\ want'[v] = "new" => v \in roomy'
  BY <1>1 DEF CloneInv
<1>4. want'[v] = "new" /\ SourceOf(v) # None =>
          \A p \in Places : lv'[v][p] # 0 => Fit(v) /\ Need(v) <= lv'[v][p]
  BY <1>1 DEF CloneInv
<1>5. pc'[v] = "cok" /\ want'[v] = "new" => v \in roomy'
  BY <1>1 DEF CloneInv
<1>6. want'[v] \in {"made", "ready"} => v \in roomy'
  BY DEF CloneInv
<1>. QED
  BY <1>2, <1>3, <1>4, <1>5, <1>6, CloneStep

\* What every step of a volume needs of the invariants.
LEMMA Unfold ==
    ASSUME IInv, RoomInv, NEW v \in Volumes, VolumeStep(v)
    PROVE  /\ TypeOK /\ VolumeInv(v) /\ SizeInv(v) /\ CloneInv(v)
           /\ \A u \in Volumes : Keeps(u)
           /\ SnapsKept
<1>1. TypeOK /\ VolumeInv(v) /\ SizeInv(v) /\ CloneInv(v)
  BY DEF IInv, RoomInv
<1>2. \A u \in Volumes : Keeps(u)
  BY <1>1, VolumeKeeps
<1>3. SnapsKept
  BY <1>1, VolumeLeaves DEF SnapsKept
<1>. QED
  BY <1>1, <1>2, <1>3

\* The CO asks, stores a PV, gives up; the PV is damaged.
LEMMA CORoom ==
    ASSUME IInv, RoomInv, NEW v \in Volumes, VolumeStep(v), COStep(v) \/ PVChanges(v)
    PROVE  SizeInv(v)' /\ CloneInv(v)'
<1>0. /\ TypeOK /\ VolumeInv(v) /\ SizeInv(v) /\ CloneInv(v)
      /\ \A u \in Volumes : Keeps(u)
      /\ SnapsKept
  BY Unfold
<1>1. ASSUME NEW r \in Asks[v], AskCreate(v, r) PROVE SizeInv(v)' /\ CloneInv(v)'
  <2>1. /\ want'[v] = "new" /\ req'[v] = r /\ pv'[v] = None /\ pc'[v] = "idle"
        /\ job'[v]["create"] = None
    BY <1>0, <1>1 DEF AskCreate, TypeOK, VolumeInv, CallInv, PVInv, CreateInv, objects, disks, call
  <2>2. \A p \in Places : lv'[v][p] = 0
    BY <1>0, <1>1 DEF AskCreate, VolumeInv, PlaceInv, Where, disks
  <2>3. r.size \in Nat
    <3>0. r \in Request
      BY AsksAssumption
    <3>1. r.size \in Sizes \cup {0}
      BY <3>0 DEF Request
    <3>2. Sizes \cup {0} \subseteq Nat
      BY AsksAssumption
    <3>. QED
      BY <3>1, <3>2, Zenon
  <2>4. SizeInv(v)'
    BY <2>1, <2>2, <2>3 DEF SizeInv
  <2>. QED
    BY <2>1, <2>2, <2>4 DEF CloneInv
<1>2. CASE StorePV(v)
  <2>1. /\ want[v] = "made" /\ want'[v] = "ready" /\ req' = req /\ lv' = lv /\ roomy' = roomy
        /\ job' = job /\ pc' = pc /\ act' = act /\ pv'[v] = PVOf(req[v])
    BY <1>0, <1>2 DEF StorePV, TypeOK, disks, call
  <2>2. PVOf(req[v]).bytes = req[v].size
    BY DEF PVOf
  <2>3. SizeInv(v)'
    BY <1>0, <2>1, <2>2, SizeStep DEF SizeInv
  <2>. QED
    BY <1>0, <2>1, <2>3, QuietStep
<1>3. CASE GiveUpPV(v) \/ AskDelete(v) \/ Abandon(v)
  <2>1. /\ want[v] # "none" /\ want'[v] \in {"deleting", "lost"} /\ req' = req /\ lv' = lv /\ roomy' = roomy
        /\ job' = job /\ pc' = pc /\ act' = act /\ pv' = pv
    BY <1>0, <1>3 DEF GiveUpPV, AskDelete, Abandon, TypeOK, objects, disks, call
  <2>2. SizeInv(v)'
    BY <1>0, <2>1, SizeQuiet
  <2>. QED
    BY <1>0, <2>1, <2>2, QuietStep
<1>4. CASE PVChanges(v)
  <2>1. /\ pv[v] # None /\ want' = want /\ req' = req /\ lv' = lv /\ roomy' = roomy
        /\ job' = job /\ pc' = pc /\ act' = act
    BY <1>4 DEF PVChanges, disks, call
  <2>2. want[v] # "none"
    BY <1>0, <2>1 DEF VolumeInv, PVInv
  <2>3. pv'[v] = None \/ pv'[v].bytes \in {0, pv[v].bytes}
    <3>1. pv[v] \in PV
      BY <1>0, <2>1 DEF TypeOK
    <3>2. PICK q \in Damaged(pv[v]) : pv' = [pv EXCEPT ![v] = q]
      BY <1>4 DEF PVChanges
    <3>3. q = None \/ q.bytes \in {0, pv[v].bytes}
      BY <3>1, <3>2 DEF Damaged, PV
    <3>. QED
      BY <1>0, <3>2, <3>3 DEF TypeOK
  <2>4. SizeInv(v)'
    BY <1>0, <2>1, <2>3, SizeStep DEF SizeInv
  <2>. QED
    BY <1>0, <2>1, <2>2, <2>4, QuietStep
<1>. QED
  BY <1>1, <1>2, <1>3, <1>4 DEF COStep

\* The steps of a deletion, and a call that ends.
LEMMA DeletionRoom ==
    ASSUME IInv, RoomInv, NEW v \in Volumes, VolumeStep(v),
           \/ DeleteVolume(v) \/ NodeAvailable(v) \/ DeleteHelper(v) \/ WaitDeleted(v)
           \/ AnswerDelete(v) \/ Abort(v)
    PROVE  SizeInv(v)' /\ CloneInv(v)'
<1>0. /\ TypeOK /\ VolumeInv(v) /\ SizeInv(v) /\ CloneInv(v)
      /\ \A u \in Volumes : Keeps(u)
      /\ SnapsKept
  BY Unfold
<1>1. req' = req /\ lv' = lv /\ roomy' = roomy
  BY Zenon DEF DeleteVolume, NodeAvailable, DeleteHelper, StartHelper, WaitDeleted, AnswerDelete, Abort, disks
<1>2. want[v] # "none"
  BY <1>0 DEF VolumeInv, CallInv, DeleteVolume, NodeAvailable, DeleteHelper, WaitDeleted, AnswerDelete, Abort
<1>3. pc'[v] \notin {"chelper", "cok"}
  BY <1>0 DEF TypeOK, DeleteVolume, NodeAvailable, DeleteHelper, StartHelper, WaitDeleted, AnswerDelete,
     Abort, OkDelete, Fail, Goto
<1>4. pv'[v] \in {pv[v], None} /\ (want'[v] \in {"made", "ready"} => want[v] \in {"made", "ready"})
  BY <1>0 DEF TypeOK, DeleteVolume, NodeAvailable, DeleteHelper, StartHelper, WaitDeleted, AnswerDelete,
     Abort, OkDelete, objects
<1>5. job'[v]["create"] = job[v]["create"]
  <2>1. \/ job' = job
        \/ \E x : job' = [job EXCEPT ![v]["delete"] = x]
    BY Zenon DEF DeleteVolume, NodeAvailable, DeleteHelper, StartHelper, WaitDeleted, Ended, Vanished,
       AnswerDelete, Abort, disks
  <2>. QED
    BY <1>0, <2>1 DEF TypeOK, Actions
<1>6. SizeInv(v)'
  BY <1>0, <1>1, <1>4, SizeQuiet
<1>. QED
  BY <1>0, <1>1, <1>2, <1>3, <1>4, <1>5, <1>6, QuietStep

\* The size that a clone is compared with is what the source was asked for.
LEMMA LookupSuits ==
    ASSUME IInv, RoomInv, AskedEnough, NEW v \in Volumes, SnapshotSource(v) \/ VolumeSource(v),
           pc'[v] = "chelper"
    PROVE  Suits(v, act'[v].source)
<1>. DEFINE s == SourceOf(v)
            b == Base(s)
<1>0. TypeOK /\ VolumeInv(v) /\ \A u \in Volumes : SizeInv(u) /\ VolumeInv(u)
  BY DEF IInv, RoomInv
<1>1. /\ s # None /\ s \in Volumes \cup Snaps /\ b \in Volumes
      /\ want[v] \in {"new", "lost"} /\ req[v].size \in Nat /\ req[b].size \in Nat
  <2>2. pc[v] \in {"ccontent", "clocation", "csource"} /\ want[v] \in Wants
    <3>1. pc[v] \in {"ccontent", "clocation"} \/ pc[v] = "csource"
      BY SnapshotMoves, Zenon DEF VolumeSource
    <3>. QED
      BY <1>0, <3>1 DEF TypeOK
  <2>1. s # None
    BY <1>0, <2>2, NamesAssumption DEF VolumeInv, CallInv
  <2>3. want[v] \in {"new", "lost"}
    BY <1>0, <2>2 DEF VolumeInv, CallInv, Wants, Deleting
  <2>. QED
    BY <1>0, <2>1, <2>3, Numbers
\* Which action is taken, by newCloneVolumeAction.
<1>2. ASSUME NEW source, NEW node, NEW size, Clone(v, source, node, size)
      PROVE  act'[v].source = source /\ ~(size > req[v].size)
  <2>1. act' = [act EXCEPT ![v] = ActionFor(v, source)] /\ ~(size > req[v].size)
    BY <1>0, <1>2 DEF Clone, Fail, Goto, TypeOK
  <2>. QED
    BY <1>0, <2>1 DEF TypeOK, ActionFor
<1>3. ASSUME NEW source, source # None, source.lv = s, act'[v].source = source,
             want[b] # "none", req[b].size <= req[v].size, s \in Snaps => snap[s] # None
      PROVE  Suits(v, act'[v].source)
  BY <1>1, <1>3 DEF Suits, Fit
<1>4. CASE SnapshotSource(v)
  <2>1. s \in Snaps
    BY <1>0, <1>4, SnapshotMoves DEF VolumeInv, CallInv
  <2>2. b = SnapOf[s]
    BY <2>1 DEF Base
  <2>0. PICK at : Located(v, at) /\ Restores(v, at)
    <3>1. \A l \in {"idle", "csource", "clocation"} : pc' # [pc EXCEPT ![v] = l]
      BY <1>0 DEF TypeOK
    <3>. QED
      BY <1>4, <3>1, SnapshotMoves, Zenon
  <2>. DEFINE source == [lv |-> s, vg |-> at.vg, type |-> req[v].type]
              size == IF snap[s].restore = 0 THEN req[v].size ELSE snap[s].restore
  <2>3. snap[s] # None /\ act' = [act EXCEPT ![v] = ActionFor(v, source)] /\ ~(size > req[v].size)
    BY <2>0, Zenon DEF Located, Restores
  <2>4. act'[v].source = source /\ ~(size > req[v].size)
    BY <1>0, <2>3 DEF TypeOK, ActionFor
  <2>5. want[b] # "none" /\ snap[s].restore \in {0, req[b].size}
    BY <2>1, <2>2, <2>3 DEF RoomInv, SnapInv
  <2>6. req[b].size <= req[v].size
    <3>1. CASE snap[s].restore = 0
      BY <1>1, <2>1, <2>2, <2>3, <3>1 DEF AskedEnough
    <3>2. CASE snap[s].restore # 0
      BY <1>1, <2>4, <2>5, <3>2
    <3>. QED
      BY <3>1, <3>2
  <2>7. source # None /\ source.lv = s
    <3>1. source \in Source
      <4>1. pc[v] \in {"ccontent", "clocation"} /\ snap[s] \in Snap
        BY <1>0, <1>4, <2>1, <2>3, SnapshotMoves DEF TypeOK
      <4>2. req[v] \in Request /\ ValidCreate(req[v])
        BY <1>0, <4>1 DEF TypeOK, VolumeInv, CallInv, Creating
      <4>3. at.vg \in VGs
        BY <2>0, <4>1 DEF Located, Snap, Annotations, Places
      <4>. QED
        BY <1>1, <4>2, <4>3, ValidRequest DEF Source
    <3>. QED
      BY <3>1, NoneAssumption
  <2>. QED
    BY <1>3, <2>3, <2>4, <2>5, <2>6, <2>7
<1>5. CASE VolumeSource(v)
  <2>. DEFINE p == pv[b]
              size == IF s \in Snaps THEN snap[s].restore ELSE requiredBytesFromPersistentVolume(p)
              source == [lv |-> s, vg |-> p.vg, type |-> p.type]
  <2>1. /\ p # None /\ (s \in Snaps => snap[s] # None)
        /\ size # 0 /\ metadataFromPV(p) # None
        /\ Clone(v, source, metadataFromPV(p).node, size)
    BY <1>0, <1>5 DEF VolumeSource, Fail, Goto, TypeOK, Base
  <2>2. act'[v].source = source /\ ~(size > req[v].size)
    BY <1>2, <2>1
  <2>3. want[b] # "none"
    BY <1>0, <1>1, <2>1 DEF VolumeInv, PVInv
  <2>4. size = req[b].size
    <3>1. CASE s \in Snaps
      BY <2>1, <3>1 DEF RoomInv, SnapInv, Base
    <3>2. CASE s \notin Snaps
      BY <1>0, <1>1, <2>1, <3>2 DEF SizeInv, requiredBytesFromPersistentVolume
    <3>. QED
      BY <3>1, <3>2
  <2>5. source # None /\ source.lv = s
    <3>1. p.vg \in VGs /\ p.type \in LVMTypes
      BY <1>0, <1>1, <2>1, PVPlace DEF TypeOK
    <3>2. source \in Source
      BY <1>1, <3>1 DEF Source
    <3>. QED
      BY <3>2, NoneAssumption
  <2>6. req[b].size <= req[v].size
    BY <1>1, <2>2, <2>4
  <2>. QED
    BY <1>3, <2>1, <2>2, <2>3, <2>5, <2>6
<1>. QED
  BY <1>4, <1>5

\* The steps of a creation.
LEMMA CreationRoom ==
    ASSUME IInv, RoomInv, AskedEnough, NEW v \in Volumes, VolumeStep(v),
           \/ CreateVolume(v) \/ SnapshotSource(v) \/ VolumeSource(v) \/ CreateHelper(v)
           \/ WaitCreated(v) \/ AnswerCreate(v)
    PROVE  SizeInv(v)' /\ CloneInv(v)'
<1>0. /\ TypeOK /\ VolumeInv(v) /\ SizeInv(v) /\ CloneInv(v)
      /\ \A u \in Volumes : Keeps(u)
      /\ SnapsKept
  BY Unfold
<1>1. req' = req /\ lv' = lv /\ roomy' = roomy /\ pv' = pv
  BY Zenon DEF CreateVolume, SnapshotSource, VolumeSource, CreateHelper, StartHelper, WaitCreated,
     AnswerCreate, objects, disks
<1>2. want[v] # "none"
  <2>1. want[v] = "new" \/ pc[v] \in {"ccontent", "clocation", "csource", "chelper", "cwait", "cok"}
    BY SnapshotMoves, Zenon DEF CreateVolume, VolumeSource, CreateHelper, WaitCreated, AnswerCreate
  <2>. QED
    BY <1>0, <2>1 DEF VolumeInv, CallInv
<1>3. SizeInv(v)'
  BY <1>0, <1>1, SizeQuiet
<1>4. want'[v] = "new" => want[v] = "new"
  BY <1>0, <1>2 DEF Keeps
<1>5. want'[v] = "new" /\ SourceOf(v) # None =>
          \A p \in Places : lv'[v][p] # 0 => Fit(v) /\ Need(v) <= lv'[v][p]
  BY <1>0, <1>1, <1>4 DEF CloneInv
<1>6. CASE CreateVolume(v)
  <2>1. want' = want /\ job' = job /\ act' = [act EXCEPT ![v] = ActionFor(v, None)]
        /\ pc'[v] # "cok" /\ (pc'[v] = "chelper" => SourceOf(v) = None)
    <3>1. SourceOf(v) \in Volumes \cup Snaps \cup {None}
      BY <1>0, Numbers
    <3>2. CASE SourceOf(v) = None
      BY <1>0, <1>6, <3>2, NamesAssumption DEF CreateVolume, Goto, TypeOK, disks
    <3>3. CASE SourceOf(v) \in Snaps
      BY <1>0, <1>6, <3>3, NamesAssumption DEF CreateVolume, Goto, TypeOK, disks
    <3>4. CASE SourceOf(v) \in Volumes
      BY <1>0, <1>6, <3>4, NamesAssumption DEF CreateVolume, Goto, TypeOK, disks
    <3>. QED
      BY <3>1, <3>2, <3>3, <3>4
  <2>2. act'[v].source = None
    BY <1>0, <2>1 DEF TypeOK, ActionFor
  <2>3. pc'[v] = "chelper" => Suits(v, act'[v].source)
    BY <2>1, <2>2 DEF Suits
  <2>. QED
    BY <1>0, <1>1, <1>2, <1>3, <1>5, <2>1, <2>3, CloneStep DEF CloneInv
<1>7. CASE SnapshotSource(v) \/ VolumeSource(v)
  <2>1. want' = want /\ job' = job
    BY <1>7 DEF SnapshotSource, VolumeSource, disks
  <2>2. pc'[v] # "cok"
    <3>1. \E l \in {"idle", "csource", "clocation", "chelper"} : pc' = [pc EXCEPT ![v] = l]
      <4>1. CASE SnapshotSource(v)
        BY <4>1, SnapshotMoves, Zenon DEF Restores
      <4>2. CASE VolumeSource(v)
        BY <4>2, Zenon DEF VolumeSource, Clone, Fail, Goto
      <4>. QED
        BY <1>7, <4>1, <4>2
    <3>. QED
      BY <1>0, <3>1 DEF TypeOK
  <2>3. pc'[v] = "chelper" => Suits(v, act'[v].source)
    BY <1>7, LookupSuits
  <2>. QED
    BY <1>0, <1>1, <1>2, <1>3, <1>5, <2>1, <2>2, <2>3, CloneStep DEF CloneInv
<1>8. CASE CreateHelper(v)
  <2>1. want' = want /\ pc[v] = "chelper" /\ Suits(v, act[v].source)
    BY <1>0, <1>8 DEF CreateHelper, StartHelper, CloneInv
  <2>2. pc'[v] \notin {"chelper", "cok"}
    BY <1>0, <1>8 DEF CreateHelper, StartHelper, Goto, TypeOK
  <2>3. \/ job'[v]["create"] \in {job[v]["create"], None}
        \/ job'[v]["create"] = [act |-> act[v], phase |-> "running"]
    BY <1>0, <1>8 DEF CreateHelper, StartHelper, TypeOK, Actions
  <2>4. job'[v]["create"] # None =>
            /\ Suits(v, job'[v]["create"].act.source)
            /\ job'[v]["create"].phase = "succeeded" /\ want'[v] = "new" => v \in roomy'
    BY <1>0, <1>1, <2>1, <2>3 DEF CloneInv
  <2>. QED
    BY <1>0, <1>1, <1>2, <1>3, <1>5, <2>1, <2>2, <2>4, CloneStep DEF CloneInv
<1>9. CASE WaitCreated(v)
  <2>1. want' = want /\ act' = act
    BY <1>9 DEF WaitCreated, Fail
  <2>2. /\ pc'[v] # "chelper"
        /\ pc'[v] = "cok" => job[v]["create"] # None /\ job[v]["create"].phase = "succeeded"
    BY <1>0, <1>9 DEF WaitCreated, Ended, Fail, Goto, TypeOK
  <2>3. job'[v]["create"] \in {job[v]["create"], None}
    BY <1>0, <1>9 DEF WaitCreated, Ended, Vanished, TypeOK, Actions
  <2>. QED
    BY <1>0, <1>1, <1>2, <1>3, <1>5, <2>1, <2>2, <2>3, CloneStep DEF CloneInv
<1>10. CASE AnswerCreate(v)
  <2>1. /\ pc[v] = "cok" /\ pc'[v] = "idle" /\ job' = job
        /\ want'[v] = IF want[v] = "new" THEN "made" ELSE want[v]
    BY <1>0, <1>10 DEF AnswerCreate, Fail, Goto, TypeOK, disks
  <2>. QED
    BY <1>0, <1>1, <1>2, <1>3, <1>4, <1>5, <2>1, CloneStep DEF CloneInv
<1>. QED
  BY <1>6, <1>7, <1>8, <1>9, <1>10

\* The steps of a helper, and the growth of a volume that is ready.
LEMMA HelperRoom ==
    ASSUME IInv, RoomInv, SourcesStay, NEW v \in Volumes, VolumeStep(v),
           \/ HelperStep(v) \/ (\E a \in Actions : HelperFails(v, a)) \/ (\E p \in Places : Grow(v, p))
    PROVE  SizeInv(v)' /\ CloneInv(v)'
<1>0. /\ TypeOK /\ VolumeInv(v) /\ SizeInv(v) /\ CloneInv(v)
      /\ \A u \in Volumes : Keeps(u)
      /\ SnapsKept
  BY Unfold
<1>1. /\ want' = want /\ req' = req /\ pv' = pv /\ pc' = pc /\ act' = act
  BY Zenon DEF HelperStep, HelperCreates, HelperDeletes, PodCollected, HelperFails, Grow, objects, call
<1>2. lv \in [Volumes -> [Places -> Sizes \cup {0}]] /\ req[v].size \in Nat
  BY <1>0, Numbers DEF TypeOK
\* What one size of the LV becomes.
<1>3. ASSUME NEW p \in Places, NEW x \in Nat, lv' = [lv EXCEPT ![v][p] = x]
      PROVE  lv'[v] = [lv[v] EXCEPT ![p] = x] /\ \A q \in Places : lv'[v][q] = IF q = p THEN x ELSE lv[v][q]
  BY <1>2, <1>3
<1>4. CASE HelperCreates(v)
  <2>. DEFINE j == job[v]["create"].act
  <2>1. /\ j.place = Home(v) /\ Home(v) \in Places /\ j.size = req[v].size
        /\ NewSize(v, j) \in Nat
        /\ v \notin Growing => NewSize(v, j) <= req[v].size
        /\ j.source # None =>
              /\ SourceOf(v) # None /\ Fit(v) /\ SourceSize(j) \in Nat
              /\ want[v] = "new" => Need(v) \in Nat /\ Need(v) <= req[v].size
              /\ want[v] = "new" /\ SourceSize(j) # 0 =>
                    SourceSize(j) <= NewSize(v, j) /\ Need(v) <= NewSize(v, j)
    BY <1>4, RoomForSource DEF HelperCreates, Running
  <2>2. /\ job[v]["create"] # None /\ Suits(v, j.source)
        /\ want[v] \notin {"none", "made", "ready"} /\ pc[v] # "cok"
    BY <1>0, <1>4 DEF HelperCreates, Running, CloneInv, VolumeInv, CreateInv
  <2>3. job'[v]["create"].act = j /\ job'[v]["create"].phase \in {"succeeded", "failed"}
    <3>1. \E phase \in {"succeeded", "failed"} : Ends(v, "create", phase)
      BY <1>4 DEF HelperCreates
    <3>2. \E phase \in {"succeeded", "failed"} :
              job' = [job EXCEPT ![v]["create"] = [act |-> j, phase |-> phase]]
      BY <1>0, <2>2, <3>1, EndsType DEF Actions
    <3>. QED
      BY <1>0, <3>2 DEF TypeOK, Actions
  <2>. HIDE DEF j
  <2>r. Readable(j) => SourceSize(j) > 0
    BY DEF Readable
  <2>4. \/ lv' = lv
        \/ /\ lv' = [lv EXCEPT ![v][j.place] = NewSize(v, j)]
           /\ j.source # None => SourceSize(j) # 0
    <3>1. \/ lv' = [lv EXCEPT ![v][j.place] = NewSize(v, j)] /\ (j.source # None => Readable(j))
          \/ lv' = [lv EXCEPT ![v][j.place] = @]
      BY <1>4 DEF HelperCreates, j
    <3>2. [lv EXCEPT ![v][j.place] = @] = lv
      BY <1>2, <2>1
    <3>. QED
      BY <2>1, <2>r, <3>1, <3>2
  <2>5. \A p \in Places : \/ lv'[v][p] = lv[v][p]
                          \/ lv'[v][p] = NewSize(v, j) /\ (j.source # None => SourceSize(j) # 0)
    <3>1. CASE lv' = lv
      BY <3>1
    <3>2. CASE lv' # lv
      <4>1. lv' = [lv EXCEPT ![v][Home(v)] = NewSize(v, j)] /\ (j.source # None => SourceSize(j) # 0)
        BY <2>1, <2>4, <3>2
      <4>2. \A q \in Places : lv'[v][q] = IF q = Home(v) THEN NewSize(v, j) ELSE lv[v][q]
        BY <1>3, <2>1, <4>1
      <4>. QED
        BY <4>1, <4>2
    <3>. QED
      BY <3>1, <3>2
  <2>6. want[v] = "new" /\ job'[v]["create"].phase = "succeeded" => v \in roomy'
    <3>1. ASSUME want[v] = "new", job'[v]["create"].phase = "succeeded" PROVE j.source # None => SourceSize(j) > 0
      <4>1. ~Ends(v, "create", "failed")
        BY <1>0, <2>2, <3>1, EndsType DEF Actions, TypeOK
      <4>2. j.source # None => Readable(j)
        BY <1>4, <4>1 DEF HelperCreates, j
      <4>. QED
        BY <2>r, <4>2
    <3>2. ASSUME want[v] = "new", job'[v]["create"].phase = "succeeded"
          PROVE  roomy' = IF j.source = None \/ SourceSize(j) <= NewSize(v, j)
                          THEN roomy \cup {v} ELSE roomy \ {v}
      <4>1. ~Ends(v, "create", "failed")
        BY <1>0, <2>2, <3>2, EndsType DEF Actions, TypeOK
      <4>. QED
        BY <1>4, <4>1 DEF HelperCreates, j
    <3>. QED
      BY <2>1, <3>1, <3>2
  <2>7. SizeInv(v)'
    <3>1. v \notin Growing => \A p \in Places : lv'[v][p] <= req[v].size
      BY <1>0, <2>1, <2>5 DEF SizeInv
    <3>. QED
      BY <1>0, <1>1, <3>1, SizeStep DEF SizeInv
  <2>8. want'[v] = "new" /\ SourceOf(v) # None =>
            \A p \in Places : lv'[v][p] # 0 => Fit(v) /\ Need(v) <= lv'[v][p]
    BY <1>0, <1>1, <2>1, <2>2, <2>5 DEF CloneInv, Suits
  <2>. QED
    BY <1>0, <1>1, <2>2, <2>3, <2>6, <2>7, <2>8, CloneStep DEF CloneInv
<1>5. CASE HelperDeletes(v) \/ HelperFails(v, "delete")
  <2>. DEFINE j == job[v]["delete"]
  <2>1. /\ roomy' = roomy /\ j # None
        /\ lv' = lv \/ lv' = [lv EXCEPT ![v][j.act.place] = 0]
    BY <1>5 DEF HelperDeletes, HelperFails, Running
  <2>2. want[v] \notin {"none", "new", "made", "ready"} /\ j.act.place \in Places
    <3>1. j \in Job
      BY <1>0, <2>1 DEF TypeOK, Actions
    <3>. QED
      BY <1>0, <2>1, <3>1 DEF VolumeInv, DeleteInv, Job, Action
  <2>3. job'[v]["create"] = job[v]["create"]
    <3>1. \E x : job' = [job EXCEPT ![v]["delete"] = x]
      BY <1>0, <1>5, <2>1, EndsType DEF HelperDeletes, HelperFails, Actions
    <3>. QED
      BY <1>0, <3>1 DEF TypeOK, Actions
  <2>. HIDE DEF j
  <2>4. \A p \in Places : lv'[v][p] \in {lv[v][p], 0}
    <3>1. CASE lv' = lv
      BY <3>1
    <3>2. CASE lv' = [lv EXCEPT ![v][j.act.place] = 0]
      BY <1>3, <2>2, <3>2
    <3>. QED
      BY <2>1, <3>1, <3>2
  <2>5. SizeInv(v)'
    <3>1. v \notin Growing => \A p \in Places : lv'[v][p] <= req[v].size
      BY <1>0, <1>2, <2>4 DEF SizeInv
    <3>. QED
      BY <1>0, <1>1, <3>1, SizeStep DEF SizeInv
  <2>. QED
    BY <1>0, <1>1, <2>1, <2>2, <2>3, <2>5, CloneStep DEF CloneInv
<1>6. CASE HelperFails(v, "create")
  <2>. DEFINE j == job[v]["create"].act
  <2>1. /\ roomy' = roomy /\ job[v]["create"] # None
        /\ lv' = lv \/ lv' = [lv EXCEPT ![v][j.place] = j.size]
    BY <1>6 DEF HelperFails, Running
  <2>2. /\ j.place \in Places /\ j.size = req[v].size /\ Suits(v, j.source) /\ want[v] # "none"
        /\ j.source # None => Fit(v) /\ (want[v] = "new" => Need(v) <= req[v].size)
    <3>1. /\ j.place = Home(v) /\ Home(v) \in Places /\ j.size = req[v].size
          /\ j.source # None => Fit(v) /\ (want[v] = "new" => Need(v) <= req[v].size)
      BY <2>1, RoomForSource
    <3>. QED
      BY <1>0, <2>1, <3>1 DEF VolumeInv, CreateInv, CloneInv
  <2>3. job'[v]["create"].act = j /\ job'[v]["create"].phase = "failed"
    <3>1. job' = [job EXCEPT ![v]["create"] = [act |-> j, phase |-> "failed"]]
      BY <1>0, <1>6, <2>1, EndsType DEF HelperFails, Actions
    <3>. QED
      BY <1>0, <3>1 DEF TypeOK, Actions
  <2>. HIDE DEF j
  <2>4. \A p \in Places : lv'[v][p] = lv[v][p] \/ lv'[v][p] = req[v].size
    BY <1>2, <1>3, <2>1, <2>2
  <2>5. SizeInv(v)'
    <3>1. v \notin Growing => \A p \in Places : lv'[v][p] <= req[v].size
      BY <1>0, <1>2, <2>4 DEF SizeInv
    <3>. QED
      BY <1>0, <1>1, <3>1, SizeStep DEF SizeInv
  <2>6. want'[v] = "new" /\ SourceOf(v) # None =>
            \A p \in Places : lv'[v][p] # 0 => Fit(v) /\ Need(v) <= lv'[v][p]
    BY <1>0, <1>1, <2>2, <2>4 DEF CloneInv, Suits
  <2>. QED
    BY <1>0, <1>1, <2>1, <2>2, <2>3, <2>5, <2>6, CloneStep DEF CloneInv
<1>7. ASSUME NEW a \in Actions, PodCollected(v, a) PROVE SizeInv(v)' /\ CloneInv(v)'
  <2>1. lv' = lv /\ roomy' = roomy /\ job[v][a] # None /\ job' = [job EXCEPT ![v][a] = None]
    BY <1>7 DEF PodCollected
  <2>2. job'[v]["create"] \in {job[v]["create"], None}
    BY <1>0, <2>1 DEF TypeOK, Actions
  <2>3. want[v] # "none"
    BY <1>0, <2>1 DEF VolumeInv, CreateInv, DeleteInv, Actions
  <2>4. SizeInv(v)'
    BY <1>0, <1>1, <2>1, SizeQuiet
  <2>. QED
    BY <1>0, <1>1, <2>1, <2>2, <2>3, <2>4, QuietStep
<1>8. ASSUME NEW p \in Places, Grow(v, p) PROVE SizeInv(v)' /\ CloneInv(v)'
  <2>1. v \in Growing /\ want[v] = "ready" /\ roomy' = roomy /\ job' = job
    BY <1>8 DEF Grow
  <2>2. SizeInv(v)'
    BY <1>0, <1>1, <2>1, SizeStep DEF SizeInv
  <2>. QED
    BY <1>0, <1>1, <2>1, <2>2, CloneStep DEF CloneInv
<1>. QED
  BY <1>4, <1>5, <1>6, <1>7, <1>8, Zenon DEF HelperStep, Actions

-----------------------------------------------------------------------------
(* Snapshots, and the theorem.                                             *)

\* Nothing that happens to a volume changes its snapshot.
LEMMA SnapKept ==
    ASSUME TypeOK, NEW s \in Snaps, SnapInv(s), \A u \in Volumes : Keeps(u), snap'[s] = snap[s]
    PROVE  SnapInv(s)'
<1>1. SnapOf[s] \in Volumes
  BY AsksAssumption
<1>2. snap[s] # None => want'[SnapOf[s]] # "none" /\ req'[SnapOf[s]] = req[SnapOf[s]]
  BY <1>1 DEF SnapInv, Keeps
<1>. QED
  BY <1>2 DEF SnapInv

\* A snapshot is as large as the volume it is taken of.
LEMMA OtherSnaps ==
    ASSUME IInv, RoomInv, OtherStep, NEW t \in Snaps
    PROVE  SnapInv(t)'
<1>. DEFINE v == SnapOf[t]
<1>0. /\ TypeOK /\ SnapInv(t) /\ v \in Volumes /\ SizeInv(v) /\ VolumeInv(v)
      /\ \A u \in Volumes : Keeps(u)
  BY OtherKeeps, AsksAssumption DEF IInv, RoomInv
<1>. HIDE DEF v
<1>1. snap \in [Snaps -> Snap \cup {None}] /\ UNCHANGED <<want, req>>
  BY <1>0 DEF TypeOK, OtherStep, TakeSnapshot, ImportSnapshot, SnapshotChanges, NodeLost
<1>2. CASE snap'[t] = snap[t]
  BY <1>0, <1>2, SnapKept
<1>3. CASE TakeSnapshot(t)
  <2>. DEFINE p == metadataFromPV(pv[v])
  <2>1. /\ want[v] = "ready" /\ pv[v] # None /\ p # None /\ pv[v].bytes > 0
        /\ snap'[t] = [kind |-> "dynamic", restore |-> pv[v].bytes, annotations |-> NoAnnotations,
                       recorded |-> p, type |-> pv[v].type, place |-> p, size |-> lv[v][p]]
    BY <1>1, <1>3 DEF TakeSnapshot, v, requiredBytesFromPersistentVolume
  <2>2. p \in Places
    BY <1>0, <2>1, PVPlace DEF TypeOK
  <2>3. pv[v].bytes \in {0, req[v].size} /\ (v \notin Growing => lv[v][p] <= req[v].size)
    BY <1>0, <2>1, <2>2 DEF SizeInv
  <2>. HIDE DEF p
  <2>4. pv[v].bytes # 0
    BY <2>1
  <2>. QED
    BY <1>1, <2>1, <2>3, <2>4 DEF SnapInv, v
<1>4. CASE ImportSnapshot(t)
  <2>1. snap[t] \in Snap
    BY <1>1, <1>4 DEF ImportSnapshot
  <2>2. PICK i \in Imports : snap' = [snap EXCEPT ![t] = Imported(snap[t], i)]
    BY <1>0, <1>4, ImportedOne
  <2>3. /\ snap'[t].kind = "imported" /\ snap'[t].restore \in {0, snap[t].restore}
        /\ snap'[t].size = snap[t].size
    BY <1>1, <2>1, <2>2, ImportedType
  <2>. QED
    BY <1>0, <1>1, <1>4, <2>3 DEF SnapInv, ImportSnapshot
<1>5. CASE SnapshotChanges(t) /\ snap'[t] # None
  <2>1. snap[t] \in Snap
    BY <1>1, <1>5 DEF SnapshotChanges
  <2>2. snap' = [snap EXCEPT ![t].recorded = None]
    BY <1>1, <1>5 DEF SnapshotChanges
  <2>3. /\ snap'[t].kind = snap[t].kind /\ snap'[t].restore = snap[t].restore
        /\ snap'[t].size = snap[t].size
    BY <1>1, <2>1, <2>2 DEF Snap
  <2>. QED
    BY <1>0, <1>1, <1>5, <2>3 DEF SnapInv, SnapshotChanges
<1>6. CASE snap'[t] = None
  BY <1>6 DEF SnapInv
<1>7. \/ snap'[t] = snap[t] \/ snap'[t] = None \/ TakeSnapshot(t) \/ ImportSnapshot(t)
      \/ SnapshotChanges(t) /\ snap'[t] # None
  <2>1. ASSUME NEW s \in Snaps, s # t, TakeSnapshot(s) \/ ImportSnapshot(s) \/ SnapshotChanges(s)
        PROVE  snap'[t] = snap[t]
    BY <1>1, <2>1 DEF TakeSnapshot, ImportSnapshot, SnapshotChanges
  <2>2. ASSUME NEW n \in Nodes, NodeLost(n) PROVE snap'[t] = snap[t]
    BY <2>2 DEF NodeLost
  <2>. QED
    BY <2>1, <2>2 DEF OtherStep
<1>. QED
  BY <1>2, <1>3, <1>4, <1>5, <1>6, <1>7

LEMMA RoomInit == Init => RoomInv
<1>. SUFFICES ASSUME Init PROVE RoomInv
  OBVIOUS
<1>1. ASSUME NEW v \in Volumes PROVE SizeInv(v) /\ CloneInv(v)
  BY <1>1 DEF Init, SizeInv, CloneInv, NoAsk, Actions
<1>2. ASSUME NEW s \in Snaps PROVE SnapInv(s)
  BY <1>2 DEF Init, SnapInv
<1>. QED
  BY <1>1, <1>2 DEF RoomInv

LEMMA RoomStep ==
    ASSUME SourcesStay, IInv, RoomInv, AskedEnough, [Next]_vars
    PROVE  RoomInv'
<1>1. ASSUME NEW v \in Volumes, VolumeStep(v) PROVE RoomInv'
  <2>1. TypeOK /\ VolumeInv(v) /\ \A u \in Volumes : Keeps(u)
    BY <1>1, Unfold
  <2>2. SnapsKept /\ snap' = snap
    BY <1>1, <2>1, Unfold, VolumeLeaves
  <2>3. SizeInv(v)' /\ CloneInv(v)'
    <3>1. CASE COStep(v) \/ PVChanges(v)
      BY <1>1, <3>1, CORoom
    <3>2. CASE \/ DeleteVolume(v) \/ NodeAvailable(v) \/ DeleteHelper(v) \/ WaitDeleted(v)
               \/ AnswerDelete(v) \/ Abort(v)
      BY <1>1, <3>2, DeletionRoom
    <3>3. CASE \/ CreateVolume(v) \/ SnapshotSource(v) \/ VolumeSource(v) \/ CreateHelper(v)
               \/ WaitCreated(v) \/ AnswerCreate(v)
      BY <1>1, <3>3, CreationRoom
    <3>4. CASE \/ HelperStep(v) \/ (\E a \in Actions : HelperFails(v, a))
               \/ (\E p \in Places : Grow(v, p))
      BY <1>1, <3>4, HelperRoom
    <3>. QED
      BY <1>1, <3>1, <3>2, <3>3, <3>4, Zenon DEF VolumeStep, Call, CallStep
  <2>4. ASSUME NEW u \in Volumes, u # v PROVE SizeInv(u)' /\ CloneInv(u)'
    <3>1. VolumeInv(u) /\ SizeInv(u) /\ CloneInv(u) /\ Untouched(u) /\ (u \in roomy => u \in roomy')
      BY <1>1, <2>1, <2>4, Others, VolumeLeaves DEF IInv, RoomInv
    <3>. QED
      BY <2>1, <2>2, <3>1, CloneUntouched, SizeUntouched
  <2>5. ASSUME NEW s \in Snaps PROVE SnapInv(s)'
    BY <2>1, <2>2, <2>5, SnapKept DEF RoomInv
  <2>. QED
    BY <2>3, <2>4, <2>5 DEF RoomInv
<1>2. CASE OtherStep
  <2>1. /\ TypeOK /\ \A u \in Volumes : Keeps(u)
        /\ SnapsKept /\ roomy' = roomy
    BY <1>2, OtherKeeps DEF IInv
  <2>2. ASSUME NEW u \in Volumes PROVE SizeInv(u)' /\ CloneInv(u)'
    <3>1. VolumeInv(u) /\ SizeInv(u) /\ CloneInv(u)
      BY DEF IInv, RoomInv
    <3>2. CASE Untouched(u)
      BY <2>1, <3>1, <3>2, CloneUntouched, SizeUntouched
    <3>. QED
      BY <1>2, <3>2, OtherSteps
  <2>3. ASSUME NEW s \in Snaps PROVE SnapInv(s)'
    BY <1>2, <2>3, OtherSnaps
  <2>. QED
    BY <2>2, <2>3 DEF RoomInv
<1>3. CASE UNCHANGED vars
  BY <1>3 DEF vars, RoomInv, SizeInv, SnapInv, CloneInv, Suits, Fit, Need, SourceOf
<1>. QED
  BY <1>1, <1>2, <1>3, NextCases

\* Every clone that was acknowledged holds all of its source, if no source grows and
\* an imported snapshot of unknown size is restored into enough room: then the sizes
\* that newCloneVolumeAction compares are those of the LVs, whatever retries, helpers
\* of earlier attempts, lost PVs, snapshots and nodes do in between.
THEOREM ClonesHaveRoom ==
    ASSUME SourcesStay
    PROVE  Spec /\ []AskedEnough => []CloneHasRoom
<1>1. Init => RoomInv
  BY RoomInit
<1>2. IInv /\ RoomInv /\ AskedEnough /\ [Next]_vars => RoomInv'
  BY RoomStep
<1>3. RoomInv => CloneHasRoom
  BY DEF RoomInv, CloneInv, CloneHasRoom
<1>4. Spec => []IInv
  BY VolumesInductive
<1>. QED
  BY <1>1, <1>2, <1>3, <1>4, PTL DEF Spec

=============================================================================

---------------------------- MODULE VolumesProofs ----------------------------
(***************************************************************************)
(* Volumes, for any volumes, snapshots, nodes, requests and bounds: an LV  *)
(* is where the request asked for it, the PersistentVolume leads to it,    *)
(* and the calls keep the contract with the CO.  All follows from          *)
(* VolumeInv, which is inductive volume by volume: a step of one volume    *)
(* leaves all that belongs to another alone.                               *)
(***************************************************************************)
EXTENDS Volumes, FiniteSetTheorems, WellFoundedInduction, TLAPS

-----------------------------------------------------------------------------
(* Where a request and a PV lead to.                                       *)

\* A non-empty set of natural numbers has a least element.
LEMMA LeastExists ==
    ASSUME NEW S, S \subseteq Nat, S # {}
    PROVE  \E x \in S : \A y \in S : x <= y
<1>. DEFINE R == OpToRel(<, Nat)
<1>1. IsWellFoundedOn(R, Nat)
  BY NatLessThanWellFounded
<1>2. \A x, y \in Nat : <<y, x>> \in R <=> y < x
  BY DEF OpToRel
<1>. HIDE DEF R
<1>3. PICK x \in S : \A y \in S : ~ (<<y, x>> \in R)
  BY <1>1, WFMin
<1>4. ASSUME NEW y \in S PROVE x <= y
  <2>1. ~ (y < x)
    BY <1>2, <1>3, Zenon
  <2>. QED
    BY <2>1
<1>. QED
  BY <1>4

\* Min is an element of its argument.
LEMMA MinElement ==
    ASSUME NEW S, S \subseteq Nat, S # {}
    PROVE  Min(S) \in S
BY LeastExists DEF Min

\* A set of nodes with one member is that member.
LEMMA OnlyMember ==
    ASSUME NEW S \in SUBSET Nodes, Cardinality(S) = 1
    PROVE  \E n \in Nodes : S = {n} /\ (CHOOSE m \in S : TRUE) = n
<1>1. IsFiniteSet(S)
  BY NamesAssumption, FS_Subset
<1>2. PICK n : S = {n}
  BY <1>1, FS_Singleton
<1>. QED
  BY <1>2

\* The nodes that a topology of the request names.
NamedNodes(r) == UNION {r.requisite, {r.preferred[i] : i \in DOMAIN r.preferred}}

\* nodeFromAccessibility returns a node that the request names, a requisite one if
\* there is any, or none.
LEMMA NodeIsNamed ==
    ASSUME NEW r \in Request, nodeFromAccessibility(r) # None
    PROVE  /\ nodeFromAccessibility(r) \in Nodes
           /\ nodeFromAccessibility(r) \in NamedNodes(r)
           /\ Requisite(r) # {} => nodeFromAccessibility(r) \in r.requisite
<1>. DEFINE first == r.preferred[Min(Named(r))]
            node == nodeFromAccessibility(r)
<1>1. r.preferred \in Seq(Nodes \cup {None}) /\ r.requisite \subseteq Nodes \cup {None}
  BY DEF Request
<1>2. CASE Named(r) # {} /\ (Requisite(r) = {} \/ first \in Requisite(r))
  <2>1. node = first
    BY <1>2 DEF nodeFromAccessibility
  <2>2. Named(r) \subseteq DOMAIN r.preferred /\ Named(r) \subseteq Nat
    BY <1>1 DEF Named
  <2>3. Min(Named(r)) \in Named(r)
    BY <1>2, <2>2, MinElement
  <2>4. PICK i \in Named(r) : first = r.preferred[i]
    BY <2>3, Zenon
  <2>5. i \in DOMAIN r.preferred /\ r.preferred[i] # None
    BY <2>4 DEF Named
  <2>. HIDE DEF first
  <2>6. first \in Nodes
    BY <1>1, <2>4, <2>5
  <2>7. first \in NamedNodes(r)
    BY <2>4, <2>5 DEF NamedNodes
  <2>8. Requisite(r) # {} => first \in r.requisite
    BY <1>2 DEF Requisite
  <2>. QED
    BY <2>1, <2>6, <2>7, <2>8
<1>3. CASE Named(r) = {} /\ Cardinality(Requisite(r)) = 1
  <2>1. node = CHOOSE n \in Requisite(r) : TRUE
    BY <1>3 DEF nodeFromAccessibility
  <2>2. Requisite(r) \in SUBSET Nodes
    BY <1>1 DEF Requisite
  <2>3. PICK n \in Nodes : Requisite(r) = {n} /\ node = n
    BY <1>3, <2>1, <2>2, OnlyMember
  <2>. QED
    BY <2>3 DEF Requisite, NamedNodes
<1>4. CASE /\ ~(Named(r) # {} /\ (Requisite(r) = {} \/ first \in Requisite(r)))
           /\ ~(Named(r) = {} /\ Cardinality(Requisite(r)) = 1)
  BY <1>4 DEF nodeFromAccessibility
<1>. QED
  BY <1>2, <1>3, <1>4

\* A request that CreateVolume accepts names a place and a size.
LEMMA ValidRequest ==
    ASSUME NEW r \in Request, ValidCreate(r)
    PROVE  /\ [node |-> nodeFromAccessibility(r), vg |-> r.vg] \in Places
           /\ r.size \in Sizes /\ r.size > 0
           /\ r.type \in LVMTypes
<1>1. nodeFromAccessibility(r) \in Nodes
  BY NodeIsNamed DEF ValidCreate
<1>. QED
  BY <1>1, AsksAssumption DEF ValidCreate, parseLVMParameters, validateCapacityRange, Places, Request

\* metadataFromPV returns the place of a PV with one node, or none.
LEMMA PVPlace ==
    ASSUME NEW p \in PV, metadataFromPV(p) # None
    PROVE  /\ metadataFromPV(p) \in Places
           /\ metadataFromPV(p).vg = p.vg
           /\ p.vg \in VGs /\ p.type \in LVMTypes
           /\ p.affinity # {}
           /\ \A e \in p.affinity : e.key = "node" => e.nodes \subseteq {metadataFromPV(p).node}
<1>. DEFINE ours == {e \in p.affinity : e.key = "node"}
            named == UNION {e.nodes : e \in ours}
            node == nodeFromPVAffinity(p.affinity)
<1>1. /\ node # None /\ p.vg \in VGs /\ p.type \in LVMTypes
      /\ metadataFromPV(p) = [node |-> node, vg |-> p.vg]
  BY DEF metadataFromPV
<1>2. Cardinality(named) = 1 /\ node = CHOOSE n \in named : TRUE
  BY <1>1 DEF nodeFromPVAffinity
<1>3. named \in SUBSET Nodes
  BY DEF PV, Affinity
<1>4. PICK n \in Nodes : named = {n} /\ node = n
  <2>. HIDE DEF named, node
  <2>. QED
    BY <1>2, <1>3, OnlyMember
<1>5. \A e \in p.affinity : e.key = "node" => e.nodes \subseteq {n}
  BY <1>4
<1>6. p.affinity # {}
  BY <1>4
<1>. HIDE DEF node, named
<1>. QED
  BY <1>1, <1>4, <1>5, <1>6 DEF Places

\* What metadataFromPV reads is the place of the request.
LEMMA PVLeadsHome ==
    ASSUME TypeOK, NEW v \in Volumes, PVInv(v), pv[v] # None, metadataFromPV(pv[v]) # None
    PROVE  metadataFromPV(pv[v]) = Home(v)
<1>1. pv[v] \in PV
  BY DEF TypeOK
<1>2. PICK e \in pv[v].affinity : e.key = "node" /\ nodeFromAccessibility(req[v]) \in e.nodes
  BY <1>1, PVPlace DEF PVInv
<1>3. nodeFromAccessibility(req[v]) = metadataFromPV(pv[v]).node
  BY <1>1, <1>2, PVPlace
<1>4. metadataFromPV(pv[v]).vg = req[v].vg
  BY <1>1, PVPlace, NamesAssumption DEF PVInv
<1>5. metadataFromPV(pv[v]) \in Places
  BY <1>1, PVPlace
<1>. QED
  BY <1>3, <1>4, <1>5 DEF Places, Home

\* A PV that was made from an answer is one, and leads to the place of the request.
LEMMA PVOfRequest ==
    ASSUME NEW r \in Request, ValidCreate(r)
    PROVE  /\ PVOf(r) \in PV
           /\ PVOf(r).vg = r.vg
           /\ \E e \in PVOf(r).affinity : e.key = "node" /\ nodeFromAccessibility(r) \in e.nodes
<1>1. nodeFromAccessibility(r) \in Nodes
  BY NodeIsNamed DEF ValidCreate
<1>2. [key |-> "node", op |-> "In", nodes |-> {nodeFromAccessibility(r)}]
        \in [key : {"node", "other"}, op : {"In", "NotIn"}, nodes : SUBSET Nodes]
  BY <1>1
<1>3. r.vg \in VGs \cup {None} /\ r.type \in LVMTypes \cup {None} /\ r.size \in Sizes \cup {0}
  BY DEF Request
<1>. QED
  BY <1>2, <1>3 DEF PVOf, PV, Affinity

\* A damaged PV still is a PV or none, of the same volume group or of none, and its
\* affinity still holds the node of the request, if it holds anything.
LEMMA DamagedPV ==
    ASSUME NEW p \in PV, NEW q \in Damaged(p)
    PROVE  /\ q \in PV \cup {None}
           /\ q # None => /\ q.vg \in {p.vg, None}
                          /\ q.affinity # {} => p.affinity \subseteq q.affinity
                          /\ q.affinity # {} /\ p.affinity = {} => q.affinity =
                                {[key |-> "node", op |-> "In", nodes |-> Nodes]}
<1>1. [key |-> "node", op |-> "In", nodes |-> Nodes]
        \in [key : {"node", "other"}, op : {"In", "NotIn"}, nodes : SUBSET Nodes]
  OBVIOUS
<1>. QED
  BY <1>1 DEF Damaged, PV, Affinity

-----------------------------------------------------------------------------
(* Steps.                                                                  *)

\* A step that concerns one volume.
VolumeStep(v) ==
    \/ COStep(v) \/ Call(v) \/ CallStep(v) \/ HelperStep(v)
    \/ Abort(v)
    \/ \E a \in Actions : HelperFails(v, a)
    \/ PVChanges(v)
    \/ \E p \in Places : Grow(v, p)

\* A step that concerns none: of a snapshot or a node.
OtherStep ==
    \/ \E s \in Snaps : TakeSnapshot(s) \/ ImportSnapshot(s) \/ SnapshotChanges(s)
    \/ \E n \in Nodes : NodeLost(n)

\* All that belongs to a volume is as it was.
Untouched(v) ==
    /\ want'[v] = want[v]
    /\ req'[v] = req[v]
    /\ pv'[v] = pv[v]
    /\ lv'[v] = lv[v]
    /\ job'[v] = job[v]
    /\ pc'[v] = pc[v]
    /\ act'[v] = act[v]
    /\ via'[v] = via[v]

LEMMA NextCases == Next <=> (\E v \in Volumes : VolumeStep(v)) \/ OtherStep
BY Zenon DEF Next, VolumeStep, OtherStep

\* An imported snapshot is restored from `at`, which its content or the record gives.
Located(v, at) ==
    LET c == snap[SourceOf(v)]
    IN  /\ c # None
        /\ \/ at = c.annotations /\ at.node # None /\ at.vg # None
           \/ at = c.recorded /\ at # None

Restores(v, at) ==
    LET c == snap[SourceOf(v)]
    IN  /\ pc' = [pc EXCEPT ![v] = "chelper"]
        /\ ~((IF c.restore = 0 THEN req[v].size ELSE c.restore) > req[v].size)
        /\ act' = [act EXCEPT ![v] =
                     ActionFor(v, [lv |-> SourceOf(v), vg |-> at.vg, type |-> req[v].type])]

\* What a call does about a snapshot that is to be restored.
LEMMA SnapshotMoves ==
    ASSUME NEW v \in Volumes, SnapshotSource(v)
    PROVE  /\ pc[v] \in {"ccontent", "clocation"}
           /\ \/ /\ act' = act
                 /\ \E l \in {"idle", "csource", "clocation"} : pc' = [pc EXCEPT ![v] = l]
              \/ \E at : Located(v, at) /\ Restores(v, at)
<1>1. ASSUME NEW at, CloneImported(v, at)
      PROVE  \/ act' = act /\ pc' = [pc EXCEPT ![v] = "idle"]
             \/ Restores(v, at)
  BY <1>1, Zenon DEF CloneImported, Clone, Fail, Goto, Restores
<1>2. CASE SnapshotContent(v)
  <2>1. pc[v] = "ccontent"
    BY <1>2, Zenon DEF SnapshotContent
  <2>. DEFINE at == snap[SourceOf(v)].annotations
  <2>2. \/ act' = act /\ pc' = [pc EXCEPT ![v] = "idle"]
        \/ act' = act /\ pc' = [pc EXCEPT ![v] = "csource"]
        \/ act' = act /\ pc' = [pc EXCEPT ![v] = "clocation"]
        \/ snap[SourceOf(v)] # None /\ at.node # None /\ at.vg # None /\ CloneImported(v, at)
    BY <1>2, Zenon DEF SnapshotContent, Fail, Goto
  <2>3. snap[SourceOf(v)] # None /\ at.node # None /\ at.vg # None => Located(v, at)
    BY Zenon DEF Located
  <2>. HIDE DEF at
  <2>. QED
    BY <1>1, <2>1, <2>2, <2>3, Zenon
<1>3. CASE SnapshotLocation(v)
  <2>1. pc[v] = "clocation"
    BY <1>3, Zenon DEF SnapshotLocation
  <2>2. \/ act' = act /\ pc' = [pc EXCEPT ![v] = "idle"]
        \/ \E at : Located(v, at) /\ CloneImported(v, at)
    BY <1>3, Zenon DEF SnapshotLocation, Fail, Goto, Located
  <2>. QED
    BY <1>1, <2>1, <2>2, Zenon
<1>. QED
  BY <1>2, <1>3, Zenon DEF SnapshotSource

\* A volume's step leaves the other volumes alone.
LEMMA Others ==
    ASSUME TypeOK, NEW u \in Volumes, NEW v \in Volumes, u # v, VolumeStep(v)
    PROVE  Untouched(u)
<1>. USE DEF TypeOK, Untouched
<1>1. CASE COStep(v)
  BY <1>1 DEF COStep, AskCreate, StorePV, GiveUpPV, AskDelete, Abandon, objects, disks, call, bounds
<1>2. CASE CreateVolume(v)
  BY <1>2 DEF CreateVolume, Goto, objects, disks
<1>3. CASE DeleteVolume(v)
  BY <1>3 DEF DeleteVolume, OkDelete, Goto, disks
<1>4. CASE SnapshotSource(v)
  <2>1. UNCHANGED <<want, req, objects, disks, via, bounds>>
    BY <1>4 DEF SnapshotSource
  <2>2. /\ \E l : pc' = [pc EXCEPT ![v] = l]
        /\ act' = act \/ \E x : act' = [act EXCEPT ![v] = x]
    BY <1>4, SnapshotMoves, Zenon DEF Restores
  <2>. QED
    BY <2>1, <2>2 DEF objects, disks
<1>5. CASE VolumeSource(v)
  BY <1>5 DEF VolumeSource, Clone, Fail, Goto, objects, disks
<1>6. CASE CreateHelper(v)
  BY <1>6 DEF CreateHelper, StartHelper, Goto, objects
<1>7. CASE WaitCreated(v)
  BY <1>7 DEF WaitCreated, Ended, Vanished, Fail, Goto, objects
<1>8. CASE AnswerCreate(v)
  BY <1>8 DEF AnswerCreate, Fail, Goto, objects, disks
<1>9. CASE NodeAvailable(v)
  BY <1>9 DEF NodeAvailable, OkDelete, Goto, disks
<1>10. CASE DeleteHelper(v)
  BY <1>10 DEF DeleteHelper, StartHelper, Goto, objects
<1>11. CASE WaitDeleted(v)
  BY <1>11 DEF WaitDeleted, Ended, Vanished, Fail, Goto, objects
<1>12. CASE AnswerDelete(v)
  BY <1>12 DEF AnswerDelete, OkDelete, Goto, disks
<1>13. CASE HelperStep(v)
  BY <1>13 DEF HelperStep, HelperCreates, HelperDeletes, PodCollected, Ends, objects, call
<1>14. CASE Abort(v)
  BY <1>14 DEF Abort, Fail, Goto, objects, disks
<1>15. ASSUME NEW a \in Actions, HelperFails(v, a) PROVE Untouched(u)
  BY <1>15 DEF HelperFails, Ends, objects, call
<1>16. CASE PVChanges(v)
  BY <1>16 DEF PVChanges, disks, call
<1>17. ASSUME NEW p \in Places, Grow(v, p) PROVE Untouched(u)
  BY <1>17 DEF Grow, objects, call
<1>. QED
  BY <1>1, <1>2, <1>3, <1>4, <1>5, <1>6, <1>7, <1>8, <1>9, <1>10, <1>11, <1>12, <1>13, <1>14, <1>15,
     <1>16, <1>17, Zenon DEF VolumeStep, Call, CallStep

\* A step of a snapshot or a node leaves every volume alone.
LEMMA OtherSteps ==
    ASSUME OtherStep, NEW u \in Volumes
    PROVE  Untouched(u)
BY DEF OtherStep, TakeSnapshot, ImportSnapshot, SnapshotChanges, NodeLost, Untouched, disks, call

\* What is untouched keeps its invariant.
LEMMA UntouchedInv ==
    ASSUME NEW v \in Volumes, VolumeInv(v), Untouched(v)
    PROVE  VolumeInv(v)'
BY DEF VolumeInv, CallInv, PVInv, CreateInv, DeleteInv, PlaceInv, Where, Home, SourceOf, Running, Untouched

-----------------------------------------------------------------------------
(* Types.                                                                  *)

\* Replacing one helper, or one size, keeps the type of them all.
LEMMA NestedUpdate ==
    ASSUME NEW D, NEW E, NEW S, NEW f \in [D -> [E -> S]], NEW d \in D, NEW e \in E, NEW x \in S
    PROVE  [f EXCEPT ![d][e] = x] \in [D -> [E -> S]]
OBVIOUS

LEMMA SizesUpdate ==
    ASSUME TypeOK, NEW v \in Volumes, NEW p \in Places, NEW n \in Sizes \cup {0}
    PROVE  [lv EXCEPT ![v][p] = n] \in [Volumes -> [Places -> Sizes \cup {0}]]
<1>1. lv \in [Volumes -> [Places -> Sizes \cup {0}]]
  BY DEF TypeOK
<1>. QED
  BY <1>1, NestedUpdate, Zenon

\* A helper that ends is still one.
LEMMA EndsType ==
    ASSUME TypeOK, NEW v \in Volumes, NEW a \in Actions, job[v][a] # None,
           NEW phase \in {"succeeded", "failed"}, Ends(v, a, phase)
    PROVE  /\ job' \in [Volumes -> [Actions -> Job \cup {None}]]
           /\ job' = [job EXCEPT ![v][a] = [act |-> job[v][a].act, phase |-> phase]]
<1>1. job \in [Volumes -> [Actions -> Job \cup {None}]]
  BY DEF TypeOK
<1>2. job[v][a] \in Job
  BY <1>1
<1>3. [job[v][a] EXCEPT !.phase = phase] = [act |-> job[v][a].act, phase |-> phase]
  BY <1>2 DEF Job
<1>4. job' = [job EXCEPT ![v][a] = [act |-> job[v][a].act, phase |-> phase]]
  BY <1>3 DEF Ends
<1>5. [act |-> job[v][a].act, phase |-> phase] \in Job \cup {None}
  BY <1>2 DEF Job
<1>. QED
  BY <1>1, <1>4, <1>5, NestedUpdate, Zenon

\* StartHelper replaces at most the helper it starts or retires.
LEMMA StartType ==
    ASSUME TypeOK, NEW v \in Volumes, NEW a \in Actions, NEW l, act[v] # None, StartHelper(v, a, l)
    PROVE  job' \in [Volumes -> [Actions -> Job \cup {None}]]
<1>1. job \in [Volumes -> [Actions -> Job \cup {None}]]
  BY DEF TypeOK
<1>2. [act |-> act[v], phase |-> "running"] \in Job
  BY DEF TypeOK, Job
<1>3. job' = job \/ \E j \in Job \cup {None} : job' = [job EXCEPT ![v][a] = j]
  BY <1>2, Zenon DEF StartHelper
<1>4. ASSUME NEW j \in Job \cup {None}
      PROVE  [job EXCEPT ![v][a] = j] \in [Volumes -> [Actions -> Job \cup {None}]]
  BY <1>1, NestedUpdate, Zenon
<1>. QED
  BY <1>1, <1>3, <1>4, Zenon

\* Waiting for a helper removes at most that helper.
LEMMA EndedType ==
    ASSUME TypeOK, NEW v \in Volumes, NEW a \in Actions, NEW phase,
           Ended(v, a, phase) \/ Vanished(v, a)
    PROVE  /\ job' \in [Volumes -> [Actions -> Job \cup {None}]]
           /\ faults' \in 0..MaxFaults /\ damage' = damage
<1>1. job \in [Volumes -> [Actions -> Job \cup {None}]]
  BY DEF TypeOK
<1>2. job' = job \/ job' = [job EXCEPT ![v][a] = None]
  BY Zenon DEF Ended, Vanished
<1>3. job' \in [Volumes -> [Actions -> Job \cup {None}]]
  <2>1. None \in Job \cup {None}
    OBVIOUS
  <2>2. [job EXCEPT ![v][a] = None] \in [Volumes -> [Actions -> Job \cup {None}]]
    BY <1>1, <2>1, NestedUpdate, Zenon
  <2>. QED
    BY <1>1, <1>2, <2>2, Zenon
<1>4. faults' \in 0..MaxFaults /\ damage' = damage
  BY AsksAssumption DEF TypeOK, Ended, Vanished, Fault, bounds
<1>. QED
  BY <1>3, <1>4

\* What a helper reads and makes has a size.
LEMMA SizeTypes ==
    ASSUME TypeOK, NEW v \in Volumes, NEW j \in Action
    PROVE  /\ j.source # None => SourceSize(j) \in Sizes \cup {0}
           /\ NewSize(v, j) \in Sizes \cup {0}
<1>1. j.place \in Places /\ j.size \in Sizes \cup {0} /\ j.source \in Source \cup {None}
  BY DEF Action
<1>2. ASSUME j.source # None PROVE SourceSize(j) \in Sizes \cup {0}
  <2>1. j.source.lv \in Volumes \cup Snaps /\ j.source.vg \in VGs
    BY <1>1, <1>2 DEF Source
  <2>2. [node |-> j.place.node, vg |-> j.source.vg] \in Places
    BY <1>1, <2>1 DEF Places
  <2>3. CASE j.source.lv \in Volumes
    BY <2>2, <2>3 DEF SourceSize, TypeOK
  <2>4. CASE j.source.lv \in Snaps
    <3>1. snap[j.source.lv] # None => snap[j.source.lv].size \in Sizes
      BY <2>4 DEF TypeOK, Snap
    <3>2. j.source.lv \notin Volumes
      BY <2>4, NamesAssumption
    <3>. QED
      BY <3>1, <3>2 DEF SourceSize
  <2>. QED
    BY <2>1, <2>3, <2>4
<1>3. lv[v][j.place] \in Sizes \cup {0}
  BY <1>1 DEF TypeOK
<1>. QED
  BY <1>1, <1>2, <1>3 DEF NewSize

\* The action of a request that was accepted.
LEMMA ActionType ==
    ASSUME TypeOK, NEW v \in Volumes, ValidCreate(req[v]), NEW source \in Source \cup {None}
    PROVE  /\ ActionFor(v, source) \in Action
           /\ ActionFor(v, source) # None
           /\ ActionFor(v, source).place = Home(v)
           /\ ActionFor(v, source).size = req[v].size
<1>1. req[v] \in Request
  BY DEF TypeOK
<1>2. ActionFor(v, source) \in Action
  BY <1>1, ValidRequest DEF ActionFor, Action
<1>. QED
  BY <1>2, NoneAssumption DEF ActionFor, Home

\* The source that a clone is made of is a volume or a snapshot in a volume group.
LEMMA SourceTypes ==
    ASSUME TypeOK, NEW v \in Volumes, VolumeInv(v), SnapshotSource(v) \/ VolumeSource(v)
    PROVE  act' = act \/ \E source \in Source : act' = [act EXCEPT ![v] = ActionFor(v, source)]
<1>. DEFINE s == SourceOf(v)
<1>1. req[v] \in Request /\ ValidCreate(req[v])
  BY SnapshotMoves DEF TypeOK, VolumeInv, CallInv, VolumeSource, Creating
<1>2. CASE SnapshotSource(v)
  <2>. DEFINE from(at) == [lv |-> s, vg |-> at.vg, type |-> req[v].type]
  <2>1. s \in Snaps
    BY <1>2, SnapshotMoves DEF VolumeInv, CallInv
  <2>2. \/ act' = act
        \/ \E at : Located(v, at) /\ act' = [act EXCEPT ![v] = ActionFor(v, from(at))]
    BY <1>2, SnapshotMoves, Zenon DEF Restores
  <2>3. ASSUME NEW at, Located(v, at) PROVE from(at) \in Source
    <3>1. snap[s] \in Snap
      BY <2>1, <2>3 DEF TypeOK, Located
    <3>2. snap[s].annotations \in Annotations /\ snap[s].recorded \in Places \cup {None}
      BY <3>1 DEF Snap
    <3>3. at.vg \in VGs
      BY <2>3, <3>2 DEF Located, Places, Annotations
    <3>. QED
      BY <1>1, <2>1, <3>3, ValidRequest DEF Source
  <2>. HIDE DEF from
  <2>. QED
    BY <2>2, <2>3, Zenon
<1>3. CASE VolumeSource(v)
  <2>1. s \in Volumes \cup Snaps
    BY <1>1, <1>3 DEF VolumeInv, CallInv, VolumeSource, SourceOf, Request
  <2>. DEFINE u == IF s \in Snaps THEN SnapOf[s] ELSE s
              source == [lv |-> s, vg |-> pv[u].vg, type |-> pv[u].type]
  <2>2. u \in Volumes
    BY <2>1, AsksAssumption
  <2>3. \/ act' = act
        \/ /\ pv[u] # None /\ metadataFromPV(pv[u]) # None
           /\ act' = [act EXCEPT ![v] = ActionFor(v, source)]
    BY <1>3, Zenon DEF VolumeSource, Clone, Fail
  <2>. HIDE DEF u, s
  <2>4. ASSUME pv[u] # None, metadataFromPV(pv[u]) # None PROVE source \in Source
    <3>1. pv[u] \in PV
      BY <2>2, <2>4 DEF TypeOK
    <3>2. pv[u].vg \in VGs /\ pv[u].type \in LVMTypes
      BY <2>4, <3>1, PVPlace
    <3>. QED
      BY <2>1, <3>2 DEF Source
  <2>. HIDE DEF source
  <2>. QED
    BY <2>3, <2>4, Zenon
<1>. QED
  BY <1>2, <1>3

\* A volume's step keeps the types.
LEMMA VolumeType ==
    ASSUME TypeOK, NEW v \in Volumes, VolumeInv(v), VolumeStep(v)
    PROVE  TypeOK'
<1>. USE AsksAssumption DEF TypeOK, Wants, Creating, Deleting
<1>1. ASSUME NEW r \in Asks[v], AskCreate(v, r) PROVE TypeOK'
  BY <1>1 DEF AskCreate, objects, disks, call, bounds
<1>2. CASE StorePV(v)
  <2>1. PVOf(req[v]) \in PV
    BY <1>2, PVOfRequest DEF StorePV, VolumeInv, PlaceInv
  <2>. QED
    BY <1>2, <2>1 DEF StorePV, disks, call, bounds
<1>3. CASE GiveUpPV(v) \/ AskDelete(v) \/ Abandon(v)
  BY <1>3 DEF GiveUpPV, AskDelete, Abandon, objects, disks, call, bounds
<1>4. CASE CreateVolume(v)
  <2>1. ActionFor(v, None) \in Action
    BY <1>4, ActionType DEF CreateVolume
  <2>2. pc' \in [Volumes -> Creating \cup Deleting \cup {"idle"}]
    <3>1. SourceOf(v) = None \/ SourceOf(v) \in Snaps \/ SourceOf(v) \in Volumes
      BY DEF SourceOf, Request
    <3>. QED
      BY <1>4, <3>1 DEF CreateVolume, Goto
  <2>. QED
    BY <1>4, <2>1, <2>2 DEF CreateVolume, objects, disks, bounds
<1>5. CASE DeleteVolume(v)
  <2>1. pc' \in [Volumes -> Creating \cup Deleting \cup {"idle"}]
    BY <1>5 DEF DeleteVolume, OkDelete, Goto
  <2>2. act' \in [Volumes -> Action \cup {None}]
    <3>1. CASE UNCHANGED act
      BY <3>1
    <3>2. CASE pv[v] # None /\ metadataFromPV(pv[v]) # None
      <4>. DEFINE new == [place |-> metadataFromPV(pv[v]), size |-> 0, type |-> pv[v].type,
                          source |-> [lv |-> v, vg |-> pv[v].vg, type |-> pv[v].type]]
      <4>1. /\ metadataFromPV(pv[v]) \in Places
            /\ pv[v].vg \in VGs /\ pv[v].type \in LVMTypes
        BY <3>2, PVPlace
      <4>2. new \in Action
        BY <4>1 DEF Action, Source
      <4>3. act' = act \/ act' = [act EXCEPT ![v] = new]
        BY <1>5, Zenon DEF DeleteVolume, OkDelete
      <4>. HIDE DEF new
      <4>. QED
        BY <4>2, <4>3
    <3>. QED
      BY <1>5, <3>1, <3>2, Zenon DEF DeleteVolume, OkDelete
  <2>3. /\ want' \in [Volumes -> Wants]
        /\ pv' \in [Volumes -> PV \cup {None}]
        /\ via' \in [Volumes -> {None, "noPV", "noNode", "helper"}]
    BY <1>5 DEF DeleteVolume, OkDelete
  <2>4. UNCHANGED <<req, snap, nodes, lv, roomy, job, faults, damage>>
    BY <1>5 DEF DeleteVolume, disks, bounds
  <2>. QED
    BY <2>1, <2>2, <2>3, <2>4
<1>6. CASE SnapshotSource(v) \/ VolumeSource(v)
  <2>1. ValidCreate(req[v])
    BY <1>6, SnapshotMoves DEF VolumeInv, CallInv, VolumeSource, Creating
  <2>2. act' = act \/ \E source \in Source : act' = [act EXCEPT ![v] = ActionFor(v, source)]
    BY <1>6, SourceTypes
  <2>3. act' \in [Volumes -> Action \cup {None}]
    <3>1. CASE UNCHANGED act
      BY <3>1
    <3>2. ASSUME NEW source \in Source, act' = [act EXCEPT ![v] = ActionFor(v, source)]
          PROVE  act' \in [Volumes -> Action \cup {None}]
      <4>1. ActionFor(v, source) \in Action
        BY <2>1, ActionType
      <4>. QED
        BY <3>2, <4>1
    <3>. QED
      BY <2>2, <3>1, <3>2
  <2>4. pc' \in [Volumes -> Creating \cup Deleting \cup {"idle"}]
    <3>1. \E l \in {"idle", "csource", "clocation", "chelper"} : pc' = [pc EXCEPT ![v] = l]
      <4>1. CASE SnapshotSource(v)
        BY <4>1, SnapshotMoves, Zenon DEF Restores
      <4>2. CASE VolumeSource(v)
        BY <4>2, Zenon DEF VolumeSource, Clone, Fail, Goto
      <4>. QED
        BY <1>6, <4>1, <4>2
    <3>. QED
      BY <3>1
  <2>5. UNCHANGED <<want, req, pv, snap, nodes, lv, roomy, job, via, faults, damage>>
    BY <1>6 DEF SnapshotSource, VolumeSource, objects, disks, bounds
  <2>. QED
    BY <2>3, <2>4, <2>5
<1>7. CASE CreateHelper(v) \/ DeleteHelper(v)
  <2>1. pc' \in [Volumes -> Creating \cup Deleting \cup {"idle"}]
    <3>1. \E l \in {"idle", "cwait", "dwait"} : pc' = [pc EXCEPT ![v] = l]
      BY <1>7, Zenon DEF CreateHelper, DeleteHelper, StartHelper, Goto
    <3>. QED
      BY <3>1
  <2>2. act[v] # None
    BY <1>7 DEF CreateHelper, DeleteHelper, VolumeInv, CallInv
  <2>3. job' \in [Volumes -> [Actions -> Job \cup {None}]]
    BY <1>7, <2>2, StartType DEF CreateHelper, DeleteHelper, Actions
  <2>4. UNCHANGED <<want, req, pv, snap, nodes, lv, roomy, act, via, faults, damage>>
    BY <1>7, Zenon DEF CreateHelper, DeleteHelper, StartHelper, objects, bounds
  <2>. QED
    BY <2>1, <2>3, <2>4
<1>8. CASE WaitCreated(v) \/ WaitDeleted(v)
  <2>1. pc' \in [Volumes -> Creating \cup Deleting \cup {"idle"}]
    <3>1. \E l \in {"idle", "cok", "dok"} : pc' = [pc EXCEPT ![v] = l]
      BY <1>8, Zenon DEF WaitCreated, WaitDeleted, Fail, Goto
    <3>. QED
      BY <3>1
  <2>2. \E a \in Actions, phase \in {"succeeded", "failed"} : Ended(v, a, phase) \/ Vanished(v, a)
    BY <1>8, Zenon DEF WaitCreated, WaitDeleted, Actions
  <2>3. /\ job' \in [Volumes -> [Actions -> Job \cup {None}]]
        /\ faults' \in 0..MaxFaults /\ damage' = damage
    BY <2>2, EndedType
  <2>4. UNCHANGED <<want, req, pv, snap, nodes, lv, roomy, act, via>>
    BY <1>8, Zenon DEF WaitCreated, WaitDeleted, Fail, objects
  <2>. QED
    BY <2>1, <2>3, <2>4
<1>9. CASE AnswerCreate(v)
  BY <1>9 DEF AnswerCreate, Fail, Goto, objects, disks, bounds
<1>10. CASE NodeAvailable(v) \/ AnswerDelete(v)
  <2>1. /\ want' \in [Volumes -> Wants]
        /\ pv' \in [Volumes -> PV \cup {None}]
        /\ via' \in [Volumes -> {None, "noPV", "noNode", "helper"}]
    BY <1>10 DEF NodeAvailable, AnswerDelete, OkDelete
  <2>2. pc' \in [Volumes -> Creating \cup Deleting \cup {"idle"}]
    BY <1>10 DEF NodeAvailable, AnswerDelete, OkDelete, Goto
  <2>3. UNCHANGED <<req, snap, nodes, lv, roomy, job, act, faults, damage>>
    BY <1>10, Zenon DEF NodeAvailable, AnswerDelete, OkDelete, disks, bounds
  <2>. QED
    BY <2>1, <2>2, <2>3
<1>12. CASE HelperCreates(v)
  <2>. DEFINE j == job[v]["create"].act
  <2>1. "create" \in Actions /\ job[v]["create"] # None
    BY <1>12 DEF HelperCreates, Running, Actions
  <2>2. j \in Action /\ j.place \in Places
    BY <2>1 DEF Job, Action
  <2>3. NewSize(v, j) \in Sizes \cup {0}
    BY <2>2, SizeTypes
  <2>4. \/ lv' = [lv EXCEPT ![v][j.place] = NewSize(v, j)]
        \/ lv' = [lv EXCEPT ![v][j.place] = IF Readable(j) THEN NewSize(v, j) ELSE @]
    BY <1>12, Zenon DEF HelperCreates
  <2>5. lv' \in [Volumes -> [Places -> Sizes \cup {0}]]
    <3>1. lv[v][j.place] \in Sizes \cup {0}
      BY <2>2
    <3>2. (IF Readable(j) THEN NewSize(v, j) ELSE lv[v][j.place]) \in Sizes \cup {0}
      BY <2>3, <3>1, Zenon
    <3>3. \/ lv' = [lv EXCEPT ![v][j.place] = NewSize(v, j)]
          \/ lv' = [lv EXCEPT ![v][j.place] = IF Readable(j) THEN NewSize(v, j) ELSE lv[v][j.place]]
      BY <2>4
    <3>. HIDE DEF TypeOK, j
    <3>4. PICK n \in Sizes \cup {0} : lv' = [lv EXCEPT ![v][j.place] = n]
      BY <2>3, <3>2, <3>3, Zenon
    <3>. QED
      BY <2>2, <3>4, SizesUpdate
  <2>6. job' \in [Volumes -> [Actions -> Job \cup {None}]]
    BY <1>12, <2>1, EndsType DEF HelperCreates
  <2>7. roomy' \subseteq Volumes
    BY <1>12 DEF HelperCreates
  <2>8. UNCHANGED <<want, req, pv, snap, nodes, pc, act, via, faults, damage>>
    BY <1>12, Zenon DEF HelperCreates, objects, call, bounds
  <2>. QED
    BY <2>5, <2>6, <2>7, <2>8
<1>13. CASE HelperDeletes(v)
  <2>. DEFINE j == job[v]["delete"].act
  <2>1. "delete" \in Actions /\ job[v]["delete"] # None
    BY <1>13 DEF HelperDeletes, Running, Actions
  <2>2. j.place \in Places
    BY <2>1 DEF Job, Action
  <2>3. lv' \in [Volumes -> [Places -> Sizes \cup {0}]]
    BY <1>13, <2>2 DEF HelperDeletes
  <2>4. job' \in [Volumes -> [Actions -> Job \cup {None}]]
    BY <1>13, <2>1, EndsType DEF HelperDeletes
  <2>5. UNCHANGED <<want, req, pv, snap, nodes, roomy, pc, act, via, faults, damage>>
    BY <1>13, Zenon DEF HelperDeletes, objects, call, bounds
  <2>. QED
    BY <2>3, <2>4, <2>5
<1>14. ASSUME NEW a \in Actions, PodCollected(v, a) PROVE TypeOK'
  <2>1. job' \in [Volumes -> [Actions -> Job \cup {None}]]
    BY <1>14 DEF PodCollected
  <2>. QED
    BY <1>14, <2>1 DEF PodCollected, objects, call, bounds
<1>15. CASE Abort(v)
  BY <1>15 DEF Abort, Fault, Fail, Goto, objects, disks
<1>16. ASSUME NEW a \in Actions, HelperFails(v, a) PROVE TypeOK'
  <2>. DEFINE j == job[v][a].act
  <2>1. job[v][a] # None
    BY <1>16 DEF HelperFails, Running
  <2>2. j.place \in Places /\ j.size \in Sizes \cup {0}
    BY <2>1 DEF Job, Action
  <2>3. lv' = lv \/ \E n \in Sizes \cup {0} : lv' = [lv EXCEPT ![v][j.place] = n]
    BY <1>16, <2>2 DEF HelperFails
  <2>4. lv' \in [Volumes -> [Places -> Sizes \cup {0}]]
    <3>. HIDE DEF TypeOK, j
    <3>1. \A n \in Sizes \cup {0} :
             [lv EXCEPT ![v][j.place] = n] \in [Volumes -> [Places -> Sizes \cup {0}]]
      BY <2>2, SizesUpdate
    <3>2. lv \in [Volumes -> [Places -> Sizes \cup {0}]]
      BY DEF TypeOK
    <3>. QED
      BY <2>3, <3>1, <3>2
  <2>5. job' \in [Volumes -> [Actions -> Job \cup {None}]]
    BY <1>16, <2>1, EndsType DEF HelperFails
  <2>6. UNCHANGED <<want, req, pv, snap, nodes, roomy, pc, act, via>>
    BY <1>16, Zenon DEF HelperFails, objects, call
  <2>7. faults' \in 0..MaxFaults /\ damage' = damage
    BY <1>16 DEF HelperFails, Fault
  <2>. QED
    BY <2>4, <2>5, <2>6, <2>7
<1>17. CASE PVChanges(v)
  <2>1. PICK p \in Damaged(pv[v]) : pv' = [pv EXCEPT ![v] = p]
    BY <1>17 DEF PVChanges
  <2>2. p \in PV \cup {None}
    BY <1>17, <2>1, DamagedPV DEF PVChanges
  <2>. QED
    BY <1>17, <2>1, <2>2 DEF PVChanges, Damage, disks, call
<1>18. ASSUME NEW p \in Places, Grow(v, p) PROVE TypeOK'
  BY <1>18 DEF Grow, objects, call, bounds
<1>. QED
  BY <1>1, <1>2, <1>3, <1>4, <1>5, <1>6, <1>7, <1>8, <1>9, <1>10, <1>12, <1>13, <1>14, <1>15,
     <1>16, <1>17, <1>18, Zenon DEF VolumeStep, COStep, Call, CallStep, HelperStep

\* An imported snapshot.
Imported(c, i) ==
    [c EXCEPT !.kind = "imported", !.restore = IF i.sized THEN c.restore ELSE 0,
              !.annotations = [node |-> IF i.node THEN c.place.node ELSE None,
                               vg |-> IF i.vg THEN c.place.vg ELSE None]]

LEMMA ImportedType ==
    ASSUME NEW c \in Snap, NEW i
    PROVE  /\ Imported(c, i) \in Snap
           /\ Imported(c, i).restore \in {0, c.restore}
           /\ Imported(c, i).size = c.size /\ Imported(c, i).kind = "imported"
<1>. DEFINE at == [node |-> IF i.node THEN c.place.node ELSE None,
                   vg |-> IF i.vg THEN c.place.vg ELSE None]
            size == IF i.sized THEN c.restore ELSE 0
<1>1. c.place.node \in Nodes /\ c.place.vg \in VGs /\ c.restore \in Sizes \cup {0}
  BY DEF Snap, Places
<1>2. at \in Annotations
  BY <1>1 DEF Annotations
<1>3. size \in {0, c.restore} /\ size \in Sizes \cup {0}
  BY <1>1
<1>4. Imported(c, i) = [c EXCEPT !.kind = "imported", !.restore = size, !.annotations = at]
  BY DEF Imported
<1>. HIDE DEF at, size
<1>. QED
  BY <1>2, <1>3, <1>4 DEF Snap

LEMMA ImportedOne ==
    ASSUME TypeOK, NEW s \in Snaps, ImportSnapshot(s)
    PROVE  \E i \in Imports : snap' = [snap EXCEPT ![s] = Imported(snap[s], i)]
<1>1. snap[s] \in Snap /\ snap \in [Snaps -> Snap \cup {None}]
  BY DEF TypeOK, ImportSnapshot
<1>2. PICK i \in Imports :
         snap' = [snap EXCEPT ![s].kind = "imported",
                              ![s].restore = IF i.sized THEN @ ELSE 0,
                              ![s].annotations = [node |-> IF i.node THEN snap[s].place.node ELSE None,
                                                  vg |-> IF i.vg THEN snap[s].place.vg ELSE None]]
  BY DEF ImportSnapshot
<1>3. snap' = [snap EXCEPT ![s] = Imported(snap[s], i)]
  BY <1>1, <1>2 DEF Imported
<1>. QED
  BY <1>3

\* A step of a snapshot or a node keeps the types: a snapshot is taken of an LV.
LEMMA OtherType ==
    ASSUME IInv, OtherStep
    PROVE  TypeOK'
<1>. USE DEF TypeOK
<1>1. ASSUME NEW s \in Snaps, TakeSnapshot(s) PROVE TypeOK'
  <2>. DEFINE v == SnapOf[s]
              p == metadataFromPV(pv[v])
              new == [kind |-> "dynamic", restore |-> pv[v].bytes, annotations |-> NoAnnotations,
                      recorded |-> p, type |-> pv[v].type, place |-> p, size |-> lv[v][p]]
  <2>1. v \in Volumes /\ VolumeInv(v) /\ want[v] = "ready" /\ pv[v] # None /\ p # None
    BY <1>1, AsksAssumption DEF IInv, TakeSnapshot
  <2>. HIDE DEF v
  <2>2. pv[v] \in PV /\ p \in Places /\ pv[v].type \in LVMTypes
    BY <2>1, PVPlace DEF IInv
  <2>3. p = Home(v)
    BY <2>1, PVLeadsHome DEF IInv, VolumeInv
  <2>4. lv[v][p] \in Sizes
    <3>1. p \in Where(v)
      BY <2>1, <2>3 DEF VolumeInv, PlaceInv
    <3>. HIDE DEF p
    <3>. QED
      BY <2>1, <2>2, <3>1 DEF Where, IInv
  <2>5. pv[v].bytes \in Sizes \cup {0}
    BY <2>2 DEF PV
  <2>6. new \in Snap
    <3>. HIDE DEF p
    <3>. QED
      BY <2>2, <2>4, <2>5 DEF Snap, Annotations, NoAnnotations
  <2>7. snap' = [snap EXCEPT ![s] = new]
    BY <1>1 DEF TakeSnapshot, v
  <2>. HIDE DEF new
  <2>. QED
    BY <1>1, <2>6, <2>7 DEF IInv, TakeSnapshot, disks, call, bounds
<1>2. ASSUME NEW s \in Snaps, ImportSnapshot(s) PROVE TypeOK'
  <2>1. snap' \in [Snaps -> Snap \cup {None}]
    <3>1. snap[s] \in Snap
      BY <1>2 DEF IInv, ImportSnapshot
    <3>2. PICK i \in Imports : snap' = [snap EXCEPT ![s] = Imported(snap[s], i)]
      BY <1>2, ImportedOne DEF IInv
    <3>3. Imported(snap[s], i) \in Snap
      BY <3>1, ImportedType
    <3>. QED
      BY <3>2, <3>3 DEF IInv
  <2>. QED
    BY <1>2, <2>1 DEF IInv, ImportSnapshot, disks, call, bounds
<1>3. ASSUME NEW s \in Snaps, SnapshotChanges(s) PROVE TypeOK'
  <2>1. snap' \in [Snaps -> Snap \cup {None}]
    <3>1. snap[s] \in Snap
      BY <1>3 DEF IInv, SnapshotChanges
    <3>2. [snap[s] EXCEPT !.recorded = None] \in Snap
      BY <3>1 DEF Snap
    <3>3. \/ snap' = [snap EXCEPT ![s] = None]
          \/ snap' = [snap EXCEPT ![s] = [snap[s] EXCEPT !.recorded = None]]
      BY <1>3 DEF IInv, SnapshotChanges
    <3>. QED
      BY <3>2, <3>3 DEF IInv
  <2>. QED
    BY <1>3, <2>1, AsksAssumption DEF IInv, SnapshotChanges, Damage, disks, call
<1>4. ASSUME NEW n \in Nodes, NodeLost(n) PROVE TypeOK'
  BY <1>4, AsksAssumption DEF IInv, NodeLost, Damage, disks, call
<1>. QED
  BY <1>1, <1>2, <1>3, <1>4 DEF OtherStep

-----------------------------------------------------------------------------
(* The invariant of a volume.                                              *)

\* A step that leaves the request and the LVs alone keeps what they lead to.
LEMMA SameHome ==
    ASSUME NEW v \in Volumes, req' = req
    PROVE  Home(v)' = Home(v) /\ (lv' = lv => Where(v)' = Where(v))
BY DEF Home, Where

\* The CO asks for a volume, stores its PV or gives it up.
LEMMA COInv ==
    ASSUME TypeOK, NEW v \in Volumes, VolumeInv(v), COStep(v)
    PROVE  VolumeInv(v)'
<1>. USE DEF TypeOK, VolumeInv, CallInv, PVInv, CreateInv, DeleteInv, PlaceInv, Running, Creating, Deleting
<1>1. ASSUME NEW r \in Asks[v], AskCreate(v, r) PROVE VolumeInv(v)'
  BY <1>1 DEF AskCreate, objects, disks, call, bounds, Where
<1>2. CASE StorePV(v)
  <2>1. req' = req /\ lv' = lv
    BY <1>2 DEF StorePV, disks
  <2>2. req[v] \in Request /\ ValidCreate(req[v])
    BY <1>2 DEF StorePV
  <2>3. /\ PVOf(req[v]).vg = req[v].vg
        /\ \E e \in PVOf(req[v]).affinity : e.key = "node" /\ nodeFromAccessibility(req[v]) \in e.nodes
    BY <2>2, PVOfRequest
  <2>4. PVInv(v)'
    BY <1>2, <2>1, <2>2, <2>3 DEF StorePV
  <2>5. (CallInv(v) /\ CreateInv(v) /\ DeleteInv(v) /\ PlaceInv(v))'
    BY <1>2, <2>1, SameHome DEF StorePV, disks, call, SourceOf
  <2>. QED
    BY <2>4, <2>5
<1>3. CASE GiveUpPV(v) \/ AskDelete(v) \/ Abandon(v)
  BY <1>3, SameHome DEF GiveUpPV, AskDelete, Abandon, objects, disks, call, SourceOf
<1>. QED
  BY <1>1, <1>2, <1>3, Zenon DEF COStep

\* A call looks up what it needs: it changes only where it stands and its action.
LEMMA LookupInv ==
    ASSUME TypeOK, NEW v \in Volumes, VolumeInv(v),
           CreateVolume(v) \/ SnapshotSource(v) \/ VolumeSource(v)
    PROVE  VolumeInv(v)'
<1>. USE DEF TypeOK, VolumeInv, CallInv, PVInv, CreateInv, DeleteInv, PlaceInv, Running, Creating, Deleting
<1>1. req' = req /\ lv' = lv /\ UNCHANGED <<want, pv, job, via>>
  BY DEF CreateVolume, SnapshotSource, VolumeSource, objects, disks
<1>2. ValidCreate(req[v])
  BY SnapshotMoves DEF CreateVolume, VolumeSource
<1>3. \/ act' = act /\ pc[v] # "idle"
      \/ \E source \in Source \cup {None} : act' = [act EXCEPT ![v] = ActionFor(v, source)]
  <2>1. CASE CreateVolume(v)
    BY <2>1 DEF CreateVolume
  <2>2. CASE SnapshotSource(v) \/ VolumeSource(v)
    BY <2>2, SourceTypes, SnapshotMoves DEF VolumeSource
  <2>. QED
    BY <2>1, <2>2
<1>4. act'[v] # None /\ act'[v].place = Home(v) /\ act'[v].size = req[v].size
  <2>1. CASE act' = act /\ pc[v] # "idle"
    <3>1. pc[v] \in {"ccontent", "clocation", "csource"}
      BY <2>1, SnapshotMoves DEF CreateVolume, VolumeSource
    <3>. QED
      BY <2>1, <3>1
  <2>2. ASSUME NEW source \in Source \cup {None}, act' = [act EXCEPT ![v] = ActionFor(v, source)]
        PROVE  act'[v] # None /\ act'[v].place = Home(v) /\ act'[v].size = req[v].size
    <3>1. act'[v] = ActionFor(v, source)
      BY <2>2
    <3>. QED
      BY <1>2, <3>1, ActionType
  <2>. QED
    BY <1>3, <2>1, <2>2
<1>5. /\ want[v] \notin {"none", "made", "ready", "gone", "deleting"}
      /\ pc'[v] \in {"idle", "ccontent", "clocation", "csource", "chelper"}
      /\ pc'[v] \in {"ccontent", "clocation"} => SourceOf(v) \in Snaps
      /\ pc'[v] = "csource" => SourceOf(v) # None
  <2>1. SourceOf(v) \in Volumes \cup Snaps \cup {None}
    BY DEF SourceOf, Request
  <2>2. CASE CreateVolume(v)
    BY <2>1, <2>2, NamesAssumption DEF CreateVolume, Goto
  <2>3. CASE SnapshotSource(v)
    <3>1. pc[v] \in {"ccontent", "clocation"}
      BY <2>3, SnapshotMoves
    <3>2. pc'[v] \in {"idle", "csource", "clocation", "chelper"}
      <4>1. \E l \in {"idle", "csource", "clocation", "chelper"} : pc' = [pc EXCEPT ![v] = l]
        BY <2>3, SnapshotMoves, Zenon DEF Restores
      <4>. QED
        BY <4>1
    <3>. QED
      BY <2>1, <3>1, <3>2, NamesAssumption
  <2>4. CASE VolumeSource(v)
    BY <2>1, <2>4, NamesAssumption DEF VolumeSource, Clone, Fail, Goto
  <2>. QED
    BY <2>2, <2>3, <2>4
<1>. QED
  BY <1>1, <1>2, <1>4, <1>5, SameHome DEF SourceOf

\* A deletion starts with the place of the PV, or ends at once where there is none.
LEMMA DeleteVolumeInv ==
    ASSUME TypeOK, NEW v \in Volumes, VolumeInv(v), DeleteVolume(v)
    PROVE  VolumeInv(v)'
<1>. USE DEF TypeOK, VolumeInv, CallInv, PVInv, CreateInv, DeleteInv, PlaceInv, Running, Creating, Deleting
<1>1. req' = req /\ lv' = lv /\ job' = job
  BY DEF DeleteVolume, disks
<1>2. CASE OkDelete(v, "noPV")
  BY <1>1, <1>2, SameHome DEF DeleteVolume, OkDelete, Goto, SourceOf
<1>3. CASE ~OkDelete(v, "noPV")
  <2>. DEFINE new == [place |-> metadataFromPV(pv[v]), size |-> 0, type |-> pv[v].type,
                      source |-> [lv |-> v, vg |-> pv[v].vg, type |-> pv[v].type]]
  <2>1. /\ pv[v] # None /\ metadataFromPV(pv[v]) # None
        /\ act' = [act EXCEPT ![v] = new]
        /\ pc' = [pc EXCEPT ![v] = "dnode"]
        /\ UNCHANGED <<want, pv, via>>
    BY <1>3, Zenon DEF DeleteVolume, Goto
  <2>2. metadataFromPV(pv[v]) = Home(v)
    BY <2>1, PVLeadsHome
  <2>3. new \in Action /\ new.place = Home(v)
    <3>1. pv[v] \in PV
      BY <2>1
    <3>2. metadataFromPV(pv[v]) \in Places /\ pv[v].vg \in VGs /\ pv[v].type \in LVMTypes
      BY <2>1, <3>1, PVPlace
    <3>. QED
      BY <2>2, <3>2 DEF Action, Source
  <2>. HIDE DEF new
  <2>4. act'[v] # None /\ act'[v].place = Home(v)
    BY <2>1, <2>3, NoneAssumption
  <2>. QED
    BY <1>1, <2>1, <2>4, SameHome DEF DeleteVolume, SourceOf
<1>. QED
  BY <1>2, <1>3

\* A helper is started, joined or refused.
LEMMA StartInv ==
    ASSUME TypeOK, NEW v \in Volumes, VolumeInv(v), CreateHelper(v) \/ DeleteHelper(v)
    PROVE  VolumeInv(v)'
<1>. USE DEF TypeOK, VolumeInv, CallInv, PVInv, CreateInv, DeleteInv, PlaceInv, Running, Creating,
     Deleting, Actions, Job
<1>1. req' = req /\ lv' = lv /\ UNCHANGED <<want, pv, act, via>>
  BY DEF CreateHelper, DeleteHelper, StartHelper, objects
<1>3. CASE CreateHelper(v)
  <2>1. job'[v]["delete"] = job[v]["delete"]
    BY <1>3 DEF CreateHelper, StartHelper
  <2>2. \/ job'[v]["create"] \in {job[v]["create"], None}
        \/ job'[v]["create"] = [act |-> act[v], phase |-> "running"]
    BY <1>3 DEF CreateHelper, StartHelper
  <2>3. pc[v] = "chelper" /\ pc'[v] \in {"idle", "cwait"}
    BY <1>3 DEF CreateHelper, StartHelper, Goto
  <2>. QED
    BY <1>1, <2>1, <2>2, <2>3, SameHome DEF SourceOf
<1>4. CASE DeleteHelper(v)
  <2>1. job'[v]["create"] = job[v]["create"]
    BY <1>4 DEF DeleteHelper, StartHelper
  <2>2. \/ job'[v]["delete"] \in {job[v]["delete"], None}
        \/ job'[v]["delete"] = [act |-> act[v], phase |-> "running"]
    BY <1>4 DEF DeleteHelper, StartHelper
  <2>3. pc[v] = "dhelper" /\ pc'[v] \in {"idle", "dwait"}
    BY <1>4 DEF DeleteHelper, StartHelper, Goto
  <2>. QED
    BY <1>1, <2>1, <2>2, <2>3, SameHome DEF SourceOf
<1>. QED
  BY <1>3, <1>4

\* The end of a helper is seen, and a call answered or cut short.
LEMMA EndInv ==
    ASSUME TypeOK, NEW v \in Volumes, VolumeInv(v),
           \/ WaitCreated(v) \/ AnswerCreate(v) \/ NodeAvailable(v) \/ WaitDeleted(v)
           \/ AnswerDelete(v) \/ Abort(v)
    PROVE  VolumeInv(v)'
<1>. USE DEF TypeOK, VolumeInv, CallInv, PVInv, CreateInv, DeleteInv, PlaceInv, Running, Creating,
     Deleting, Actions
<1>1. req' = req /\ lv' = lv
  BY DEF WaitCreated, AnswerCreate, NodeAvailable, WaitDeleted, AnswerDelete, Abort, disks
<1>2. CASE WaitCreated(v)
  BY <1>1, <1>2, SameHome DEF WaitCreated, Ended, Vanished, Fail, Goto, objects, SourceOf
<1>3. CASE AnswerCreate(v)
  BY <1>1, <1>3, SameHome DEF AnswerCreate, Fail, Goto, objects, disks, SourceOf
<1>4. CASE NodeAvailable(v)
  BY <1>1, <1>4, SameHome DEF NodeAvailable, OkDelete, Goto, disks, SourceOf
<1>5. CASE WaitDeleted(v)
  <2>1. /\ job'[v]["create"] = job[v]["create"]
        /\ job'[v]["delete"] \in {job[v]["delete"], None}
    BY <1>5 DEF WaitDeleted, Ended, Vanished
  <2>2. pc[v] = "dwait" /\ pc'[v] \in {"idle", "dok"}
    BY <1>5 DEF WaitDeleted, Fail, Goto
  <2>3. pc'[v] = "dok" => job[v]["delete"] # None /\ job[v]["delete"].phase = "succeeded"
    BY <1>5 DEF WaitDeleted, Ended, Vanished, Fail, Goto
  <2>4. UNCHANGED <<want, pv, act, via>>
    BY <1>5 DEF WaitDeleted, Fail, objects
  <2>. QED
    BY <1>1, <2>1, <2>2, <2>3, <2>4, SameHome DEF SourceOf
<1>6. CASE AnswerDelete(v)
  BY <1>1, <1>6, SameHome DEF AnswerDelete, OkDelete, Goto, disks, SourceOf
<1>7. CASE Abort(v)
  BY <1>1, <1>7, SameHome DEF Abort, Fail, Goto, objects, disks, SourceOf
<1>. QED
  BY <1>2, <1>3, <1>4, <1>5, <1>6, <1>7

\* An LV at the place of the request is made or removed.
LEMMA WhereUpdate ==
    ASSUME TypeOK, NEW v \in Volumes, NEW p \in Places, NEW n, lv' = [lv EXCEPT ![v][p] = n]
    PROVE  Where(v)' = IF n = 0 THEN Where(v) \ {p} ELSE Where(v) \cup {p}
<1>1. \A q \in Places : lv'[v][q] = IF q = p THEN n ELSE lv[v][q]
  BY DEF TypeOK
<1>. QED
  BY <1>1 DEF Where

\* A create helper works at the place of the request, and its success is an LV there.
LEMMA CreateWorks ==
    ASSUME TypeOK, NEW v \in Volumes, VolumeInv(v), HelperCreates(v)
    PROVE  \/ /\ Where(v)' = Where(v) \cup {Home(v)}
              /\ job'[v]["create"].phase \in {"succeeded", "failed"}
           \/ /\ Where(v)' = Where(v)
              /\ job'[v]["create"].phase = "failed"
<1>. DEFINE j == job[v]["create"].act
<1>1. /\ job[v]["create"] # None
      /\ ValidCreate(req[v]) /\ j.place = Home(v) /\ j.size = req[v].size
  BY DEF HelperCreates, Running, VolumeInv, CreateInv
<1>2. Home(v) \in Places /\ req[v].size > 0
  BY <1>1, ValidRequest DEF TypeOK, Home
<1>3. j \in Action
  BY <1>1 DEF TypeOK, Actions, Job
<1>4. /\ j.source # None => SourceSize(j) \in Nat
      /\ NewSize(v, j) \in Nat
      /\ (j.source # None => Readable(j)) => NewSize(v, j) # 0
  <2>1. /\ j.source # None => SourceSize(j) \in Nat
        /\ NewSize(v, j) \in Nat
    <3>1. /\ j.source # None => SourceSize(j) \in Sizes \cup {0}
          /\ NewSize(v, j) \in Sizes \cup {0}
      <4>. HIDE DEF j
      <4>. QED
        BY <1>3, SizeTypes
    <3>2. Sizes \cup {0} \subseteq Nat
      BY AsksAssumption
    <3>. QED
      BY <3>1, <3>2, Zenon
  <2>2. (j.source # None => Readable(j)) => NewSize(v, j) # 0
    <3>1. Readable(j) => SourceSize(j) > 0
      BY DEF Readable
    <3>. HIDE DEF j
    <3>. QED
      BY <1>1, <1>2, <2>1, <3>1 DEF NewSize
  <2>. QED
    BY <2>1, <2>2
<1>5. ASSUME NEW phase \in {"succeeded", "failed"}, Ends(v, "create", phase)
      PROVE  job'[v]["create"].phase = phase
  BY <1>1, <1>5, EndsType DEF TypeOK, Actions
<1>6. CASE /\ j.source # None => Readable(j)
           /\ lv' = [lv EXCEPT ![v][j.place] = NewSize(v, j)]
           /\ Ends(v, "create", "succeeded")
  <2>1. Where(v)' = Where(v) \cup {Home(v)}
    <3>. HIDE DEF j
    <3>. QED
      BY <1>1, <1>2, <1>4, <1>6, WhereUpdate
  <2>. QED
    BY <1>5, <1>6, <2>1
<1>7. CASE /\ j.source # None
           /\ lv' = [lv EXCEPT ![v][j.place] = IF Readable(j) THEN NewSize(v, j) ELSE @]
           /\ Ends(v, "create", "failed")
  <2>1. CASE ~Readable(j)
    <3>1. lv' = [lv EXCEPT ![v][j.place] = lv[v][j.place]]
      BY <1>7, <2>1
    <3>2. Where(v)' = Where(v)
      <4>. HIDE DEF j
      <4>1. Where(v)' = IF lv[v][Home(v)] = 0 THEN Where(v) \ {Home(v)} ELSE Where(v) \cup {Home(v)}
        BY <1>1, <1>2, <3>1, WhereUpdate
      <4>. QED
        BY <1>2, <4>1 DEF Where
    <3>. QED
      BY <1>5, <1>7, <3>2
  <2>2. CASE Readable(j)
    <3>1. lv' = [lv EXCEPT ![v][j.place] = NewSize(v, j)]
      BY <1>7, <2>2
    <3>2. NewSize(v, j) # 0
      BY <1>4, <2>2, Zenon
    <3>3. Where(v)' = Where(v) \cup {Home(v)}
      <4>. HIDE DEF j
      <4>. QED
        BY <1>1, <1>2, <3>1, <3>2, WhereUpdate
    <3>. QED
      BY <1>5, <1>7, <3>3
  <2>. QED
    BY <2>1, <2>2
<1>. QED
  BY <1>6, <1>7, Zenon DEF HelperCreates

\* A helper that fails has left the LV, made it or removed it.
LEMMA FailedWork ==
    ASSUME TypeOK, NEW v \in Volumes, VolumeInv(v), NEW a \in Actions, HelperFails(v, a)
    PROVE  \/ Where(v)' = Where(v)
           \/ a = "create" /\ Where(v)' = Where(v) \cup {Home(v)}
           \/ a = "delete" /\ Where(v)' = Where(v) \ {Home(v)}
<1>. DEFINE j == job[v][a].act
<1>1. /\ job[v][a] # None /\ j.place = Home(v) /\ j.place \in Places
      /\ a = "create" => j.size # 0
  <2>1. job[v][a] # None /\ job[v][a] \in Job /\ a \in {"create", "delete"}
    BY DEF HelperFails, Running, TypeOK, Actions
  <2>2. j.place = Home(v) /\ j.place \in Places
    BY <2>1 DEF Job, Action, VolumeInv, CreateInv, DeleteInv
  <2>3. ASSUME a = "create" PROVE j.size # 0
    <3>1. req[v] \in Request /\ ValidCreate(req[v]) /\ j.size = req[v].size
      BY <2>1, <2>3 DEF VolumeInv, CreateInv, TypeOK
    <3>2. req[v].size \in Sizes
      BY <3>1, ValidRequest
    <3>. QED
      BY <3>1, <3>2, AsksAssumption
  <2>. QED
    BY <2>1, <2>2, <2>3
<1>2. \/ lv' = lv
      \/ a = "create" /\ lv' = [lv EXCEPT ![v][j.place] = j.size]
      \/ a = "delete" /\ lv' = [lv EXCEPT ![v][j.place] = 0]
  BY Zenon DEF HelperFails
<1>. HIDE DEF j
<1>3. CASE lv' = lv
  BY <1>3 DEF Where
<1>4. CASE a = "create" /\ lv' = [lv EXCEPT ![v][j.place] = j.size]
  BY <1>1, <1>4, WhereUpdate
<1>5. CASE a = "delete" /\ lv' = [lv EXCEPT ![v][j.place] = 0]
  BY <1>1, <1>5, WhereUpdate
<1>. QED
  BY <1>2, <1>3, <1>4, <1>5

\* Helpers keep the invariant: those that create run only while the volume is wanted
\* or lost, those that delete only once its deletion was asked for.
LEMMA HelperInv ==
    ASSUME TypeOK, NEW v \in Volumes, VolumeInv(v),
           \/ HelperCreates(v) \/ HelperDeletes(v)
           \/ \E a \in Actions : HelperFails(v, a) \/ PodCollected(v, a)
    PROVE  VolumeInv(v)'
<1>. USE DEF VolumeInv, CallInv, PVInv, CreateInv, DeleteInv, PlaceInv, Running
<1>1. req' = req /\ UNCHANGED <<want, pv, pc, act, via>>
  BY DEF HelperCreates, HelperDeletes, HelperFails, PodCollected, objects, call
<1>2. Home(v)' = Home(v) /\ SourceOf(v)' = SourceOf(v)
  BY <1>1, SameHome DEF SourceOf
<1>3. want[v] \in Wants /\ job \in [Volumes -> [Actions -> Job \cup {None}]]
  BY DEF TypeOK
<1>4. CASE HelperCreates(v)
  <2>1. /\ job[v]["create"] # None /\ job[v]["create"].phase = "running"
        /\ want[v] \in {"new", "lost"} /\ pc[v] # "cok"
    BY <1>3, <1>4 DEF HelperCreates, Wants
  <2>2. \E phase \in {"succeeded", "failed"} :
           job' = [job EXCEPT ![v]["create"] = [act |-> job[v]["create"].act, phase |-> phase]]
    BY <1>4, <2>1, EndsType DEF HelperCreates, Actions
  <2>3. /\ job'[v]["delete"] = job[v]["delete"]
        /\ job'[v]["create"].act = job[v]["create"].act
        /\ job'[v]["create"].phase \in {"succeeded", "failed"}
    BY <1>3, <2>2 DEF Actions
  <2>4. \/ Where(v)' = Where(v) \cup {Home(v)}
        \/ Where(v)' = Where(v) /\ job'[v]["create"].phase = "failed"
    BY <1>4, CreateWorks
  <2>. QED
    BY <1>1, <1>2, <2>1, <2>3, <2>4 DEF Creating, Deleting
<1>5. CASE HelperDeletes(v)
  <2>1. /\ job[v]["delete"] # None
        /\ want[v] \in {"deleting", "gone", "lost"}
    BY <1>3, <1>5 DEF HelperDeletes, Wants
  <2>2. job' = [job EXCEPT ![v]["delete"] = [act |-> job[v]["delete"].act, phase |-> "succeeded"]]
    BY <1>5, <2>1, EndsType DEF HelperDeletes, Actions
  <2>3. /\ job'[v]["create"] = job[v]["create"]
        /\ job'[v]["delete"].act = job[v]["delete"].act
    BY <1>3, <2>2 DEF Actions
  <2>4. job[v]["delete"].act.place = Home(v) /\ Home(v) \in Places
    BY <1>3, <2>1 DEF Actions, Job, Action
  <2>5. Where(v)' = Where(v) \ {Home(v)}
    BY <1>5, <2>4, WhereUpdate DEF HelperDeletes
  <2>. QED
    BY <1>1, <1>2, <2>1, <2>3, <2>5 DEF Creating, Deleting
<1>6. ASSUME NEW a \in Actions, HelperFails(v, a) PROVE VolumeInv(v)'
  <2>1. /\ job[v][a] # None /\ job[v][a].phase = "running"
        /\ a \in {"create", "delete"}
        /\ a = "create" => want[v] \in {"new", "lost"} /\ pc[v] # "cok"
        /\ a = "delete" => want[v] \in {"deleting", "gone", "lost"}
    BY <1>3, <1>6 DEF HelperFails, Wants, Actions
  <2>2. job' = [job EXCEPT ![v][a] = [act |-> job[v][a].act, phase |-> "failed"]]
    BY <1>6, <2>1, EndsType DEF HelperFails
  <2>3. /\ \A b \in {"create", "delete"} \ {a} : job'[v][b] = job[v][b]
        /\ job'[v][a].act = job[v][a].act
        /\ job'[v][a].phase = "failed"
    BY <1>3, <2>2 DEF Actions
  <2>4. \/ Where(v)' = Where(v)
        \/ a = "create" /\ Where(v)' = Where(v) \cup {Home(v)}
        \/ a = "delete" /\ Where(v)' = Where(v) \ {Home(v)}
    BY <1>6, FailedWork
  <2>5. CASE a = "create"
    BY <1>1, <1>2, <2>1, <2>3, <2>4, <2>5 DEF Creating, Deleting
  <2>6. CASE a = "delete"
    BY <1>1, <1>2, <2>1, <2>3, <2>4, <2>6 DEF Creating, Deleting
  <2>. QED
    BY <2>1, <2>5, <2>6
<1>7. ASSUME NEW a \in Actions, PodCollected(v, a) PROVE VolumeInv(v)'
  <2>1. lv' = lv /\ Where(v)' = Where(v)
    BY <1>7 DEF PodCollected, Where
  <2>2. \A b \in {"create", "delete"} : job'[v][b] \in {job[v][b], None}
    BY <1>3, <1>7 DEF PodCollected, Actions
  <2>. QED
    BY <1>1, <1>2, <2>1, <2>2 DEF Creating, Deleting
<1>. QED
  BY <1>4, <1>5, <1>6, <1>7

\* A PV that is damaged leads to the place of the request or nowhere.
LEMMA PVChangesInv ==
    ASSUME TypeOK, NEW v \in Volumes, VolumeInv(v), PVChanges(v)
    PROVE  VolumeInv(v)'
<1>1. UNCHANGED <<want, req, lv, job, pc, act, via>> /\ pv[v] # None
  BY DEF PVChanges, disks, call
<1>2. PICK q \in Damaged(pv[v]) : pv' = [pv EXCEPT ![v] = q]
  BY DEF PVChanges
<1>3. pv[v] \in PV /\ pv'[v] = q
  BY <1>1, <1>2 DEF TypeOK
<1>4. nodeFromAccessibility(req[v]) \in Nodes /\ ValidCreate(req[v])
  <2>1. ValidCreate(req[v]) /\ req[v] \in Request
    BY <1>1 DEF VolumeInv, PVInv, TypeOK
  <2>. QED
    BY <2>1, NodeIsNamed DEF ValidCreate
<1>5. ASSUME q # None
      PROVE  /\ q.vg \in {None, req[v].vg}
             /\ q.affinity # {} =>
                  \E e \in q.affinity : e.key = "node" /\ nodeFromAccessibility(req[v]) \in e.nodes
  <2>1. q.vg \in {None, req[v].vg}
    BY <1>1, <1>3, <1>5, DamagedPV DEF VolumeInv, PVInv
  <2>2. ASSUME q.affinity # {}
        PROVE  \E e \in q.affinity : e.key = "node" /\ nodeFromAccessibility(req[v]) \in e.nodes
    <3>1. CASE pv[v].affinity # {}
      BY <1>1, <1>3, <1>5, <2>2, <3>1, DamagedPV DEF VolumeInv, PVInv
    <3>2. CASE pv[v].affinity = {}
      BY <1>3, <1>4, <1>5, <2>2, <3>2, DamagedPV
    <3>. QED
      BY <3>1, <3>2
  <2>. QED
    BY <2>1, <2>2
<1>6. PVInv(v)'
  BY <1>1, <1>3, <1>4, <1>5 DEF VolumeInv, PVInv
<1>7. (CallInv(v) /\ CreateInv(v) /\ DeleteInv(v) /\ PlaceInv(v))'
  BY <1>1 DEF VolumeInv, CallInv, CreateInv, DeleteInv, PlaceInv, Where, Home, SourceOf, Running
<1>. QED
  BY <1>6, <1>7 DEF VolumeInv

\* An LV that grows stays where it is.
LEMMA GrowInv ==
    ASSUME TypeOK, NEW v \in Volumes, VolumeInv(v), NEW p \in Places, Grow(v, p)
    PROVE  VolumeInv(v)'
<1>1. UNCHANGED <<want, req, pv, job, pc, act, via>>
  BY DEF Grow, objects, call
<1>2. lv[v][p] # 0 /\ lv[v][p] + 1 # 0 /\ lv' = [lv EXCEPT ![v][p] = lv[v][p] + 1]
  BY AsksAssumption DEF Grow, TypeOK
<1>3. Where(v)' = Where(v) \cup {p} /\ p \in Where(v)
  BY <1>2, WhereUpdate DEF Where
<1>. QED
  BY <1>1, <1>3 DEF VolumeInv, CallInv, PVInv, CreateInv, DeleteInv, PlaceInv, Home, SourceOf, Running

\* A volume's step keeps its invariant.
LEMMA VolumeStepInv ==
    ASSUME TypeOK, NEW v \in Volumes, VolumeInv(v), VolumeStep(v)
    PROVE  VolumeInv(v)'
<1>1. CASE COStep(v)
  BY <1>1, COInv
<1>2. CASE Call(v)
  BY <1>2, LookupInv, DeleteVolumeInv DEF Call
<1>3. CASE CallStep(v)
  BY <1>3, LookupInv, StartInv, EndInv DEF CallStep
<1>4. CASE HelperStep(v)
  BY <1>4, HelperInv DEF HelperStep
<1>5. CASE Abort(v)
  BY <1>5, EndInv
<1>6. CASE \E a \in Actions : HelperFails(v, a)
  BY <1>6, HelperInv
<1>7. CASE PVChanges(v)
  BY <1>7, PVChangesInv
<1>8. CASE \E p \in Places : Grow(v, p)
  BY <1>8, GrowInv
<1>. QED
  BY <1>1, <1>2, <1>3, <1>4, <1>5, <1>6, <1>7, <1>8 DEF VolumeStep

\* The initial states satisfy the invariant.
LEMMA InitInv == Init => IInv
<1>. SUFFICES ASSUME Init PROVE IInv
  OBVIOUS
<1>1. NoAsk \in Request
  BY DEF NoAsk, Request
<1>2. TypeOK
  BY <1>1, AsksAssumption DEF Init, TypeOK, Wants
<1>3. ASSUME NEW v \in Volumes PROVE VolumeInv(v)
  BY DEF Init, VolumeInv, CallInv, PVInv, CreateInv, DeleteInv, PlaceInv, Where, Running, Creating,
         Deleting, Actions
<1>. QED
  BY <1>2, <1>3 DEF IInv

\* Every step keeps the invariant.
LEMMA NextInv == IInv /\ [Next]_vars => IInv'
<1>. SUFFICES ASSUME IInv, [Next]_vars PROVE IInv'
  OBVIOUS
<1>1. ASSUME NEW v \in Volumes, VolumeStep(v) PROVE IInv'
  <2>1. TypeOK'
    BY <1>1, VolumeType DEF IInv
  <2>2. ASSUME NEW u \in Volumes PROVE VolumeInv(u)'
    <3>1. CASE u = v
      BY <1>1, <3>1, VolumeStepInv DEF IInv
    <3>2. CASE u # v
      BY <1>1, <3>2, Others, UntouchedInv DEF IInv
    <3>. QED
      BY <3>1, <3>2
  <2>. QED
    BY <2>1, <2>2 DEF IInv
<1>2. CASE OtherStep
  <2>1. TypeOK'
    BY <1>2, OtherType
  <2>2. ASSUME NEW u \in Volumes PROVE VolumeInv(u)'
    BY <1>2, OtherSteps, UntouchedInv DEF IInv
  <2>. QED
    BY <2>1, <2>2 DEF IInv
<1>3. CASE UNCHANGED vars
  <2>1. TypeOK'
    BY <1>3 DEF IInv, TypeOK, vars
  <2>2. ASSUME NEW u \in Volumes PROVE VolumeInv(u)'
    <3>1. Untouched(u)
      BY <1>3 DEF vars, Untouched
    <3>. QED
      BY <3>1, UntouchedInv DEF IInv
  <2>. QED
    BY <2>1, <2>2 DEF IInv
<1>. QED
  BY <1>1, <1>2, <1>3, NextCases

\* The inductive invariant of the volume protocol holds in every state.
THEOREM VolumesInductive == Spec => []IInv
BY InitInv, NextInv, PTL DEF Spec

\* Calls, helpers, PVs and LVs stay well typed; in particular a helper is only ever
\* started at a node and volume group that a request or a PV named, and a snapshot is
\* only taken of an LV that is there (nodeFromAccessibility, metadataFromPV).
THEOREM VolumesTyped == Spec => []TypeOK
<1>1. IInv => TypeOK
  BY DEF IInv
<1>. QED
  BY <1>1, VolumesInductive, PTL

\* What DeleteVolume reads from a PV is the one place where the volume is, for any
\* requests, nodes, retries and damage to the objects.
THEOREM PVsLeadToLVs == Spec => []PVLeadsToLV
<1>1. IInv => PVLeadsToLV
  <2>. SUFFICES ASSUME IInv, NEW v \in Volumes, want[v] = "ready", pv[v] # None,
                       metadataFromPV(pv[v]) # None
                PROVE  Where(v) = {metadataFromPV(pv[v])}
    BY DEF PVLeadsToLV
  <2>1. metadataFromPV(pv[v]) = Home(v)
    BY PVLeadsHome DEF IInv, VolumeInv
  <2>. QED
    BY <2>1 DEF IInv, VolumeInv, PlaceInv
<1>. QED
  BY <1>1, VolumesInductive, PTL

\* Every LV, also one that a call left behind, is on a node the request names, on a
\* requisite one if there is any, and in the volume group of the request.
THEOREM LVsArePlacedAsAsked == Spec => []PlacedAsAsked
<1>1. IInv => PlacedAsAsked
  <2>. SUFFICES ASSUME IInv, NEW v \in Volumes, NEW p \in Where(v)
                PROVE  /\ p.vg = req[v].vg
                       /\ p.node \in NamedNodes(req[v])
                       /\ req[v].requisite \ {None} # {} => p.node \in req[v].requisite
    BY DEF PlacedAsAsked, NamedNodes
  <2>1. p = Home(v) /\ ValidCreate(req[v]) /\ req[v] \in Request
    BY DEF IInv, VolumeInv, PlaceInv, TypeOK
  <2>2. p.vg = req[v].vg /\ p.node = nodeFromAccessibility(req[v])
    BY <2>1 DEF Home
  <2>. QED
    BY <2>1, <2>2, NodeIsNamed DEF ValidCreate, Requisite
<1>. QED
  BY <1>1, VolumesInductive, PTL

-----------------------------------------------------------------------------
(* The volume calls implement Contract.                                    *)

\* The volume's LV stays, comes or goes.
Same(v) == Where(v)' = Where(v)
Comes(v) == Where(v)' # {}
Goes(v) == Where(v)' \subseteq Where(v)

\* The CO has lost track of the volume: an OK that rests on a missing object counts.
Astray(v) == want[v] = "lost" \/ (want[v] = "gone" /\ via[v] # "helper")

Stays(v) == want'[v] = want[v] /\ via'[v] = via[v]
Turns(v, from, to) == want[v] \in from /\ want'[v] = to /\ Same(v)

\* What a step may mean to the CO, in terms of the volume it concerns.
Move(v) ==
    \/ Stays(v) /\ Same(v)
    \/ Stays(v) /\ Comes(v) /\ (want[v] = "new" \/ Astray(v))
    \/ Stays(v) /\ Goes(v) /\ (want[v] = "deleting" \/ Astray(v))
    \/ Turns(v, {"none"}, "new")
    \/ Turns(v, {"new"}, "made") /\ Where(v) # {}
    \/ Turns(v, {"made"}, "ready")
    \/ Turns(v, {"made", "ready"}, "deleting")
    \/ Turns(v, {"new", "deleting"}, "lost")
    \/ Turns(v, {"deleting"}, "gone") /\ (via'[v] = "helper" => Where(v) = {})

\* Every step of a volume is one of the moves.
LEMMA StepMoves ==
    ASSUME TypeOK, NEW v \in Volumes, VolumeInv(v), VolumeStep(v)
    PROVE  Move(v)
<1>. USE DEF TypeOK, Move, Same, Stays, Turns
<1>1. CASE COStep(v)
  BY <1>1 DEF COStep, AskCreate, StorePV, GiveUpPV, AskDelete, Abandon, disks, Where
<1>2. CASE CreateVolume(v) \/ SnapshotSource(v) \/ VolumeSource(v) \/ Abort(v)
  BY <1>2 DEF CreateVolume, SnapshotSource, VolumeSource, Abort, disks, Where
<1>3. CASE DeleteVolume(v) \/ NodeAvailable(v)
  <2>1. lv' = lv /\ Same(v)
    BY <1>3 DEF DeleteVolume, NodeAvailable, disks, Where
  <2>2. UNCHANGED <<want, via>> \/ OkDelete(v, "noPV") \/ OkDelete(v, "noNode")
    BY <1>3, Zenon DEF DeleteVolume, NodeAvailable
  <2>. QED
    BY <2>1, <2>2 DEF OkDelete
<1>4. CASE CreateHelper(v) \/ DeleteHelper(v) \/ WaitCreated(v) \/ WaitDeleted(v)
  BY <1>4 DEF CreateHelper, DeleteHelper, StartHelper, WaitCreated, WaitDeleted, Where
<1>5. CASE AnswerCreate(v)
  <2>1. want[v] = "new" => Where(v) # {}
    BY <1>5 DEF AnswerCreate, VolumeInv, CreateInv
  <2>. QED
    BY <1>5, <2>1 DEF AnswerCreate, disks, Where
<1>6. CASE AnswerDelete(v)
  <2>1. want[v] = "deleting" => Where(v) = {}
    BY <1>6 DEF AnswerDelete, VolumeInv, DeleteInv
  <2>. QED
    BY <1>6, <2>1 DEF AnswerDelete, OkDelete, disks, Where
<1>7. CASE HelperCreates(v)
  <2>1. Stays(v) /\ (Same(v) \/ Comes(v))
    BY <1>7, CreateWorks DEF HelperCreates, Comes
  <2>2. want[v] \in {"new", "lost"}
    BY <1>7 DEF HelperCreates, VolumeInv, CreateInv, Wants
  <2>. QED
    BY <2>1, <2>2 DEF Astray
<1>8. CASE HelperDeletes(v)
  <2>1. job[v]["delete"] # None /\ job[v]["delete"].act.place \in Places
    BY <1>8 DEF HelperDeletes, Running, Actions, Job, Action
  <2>2. Stays(v) /\ Goes(v)
    BY <1>8, <2>1, WhereUpdate DEF HelperDeletes, Goes
  <2>3. want[v] \in {"deleting", "lost", "gone"} /\ (want[v] = "gone" /\ via[v] = "helper" => Where(v) = {})
    BY <2>1 DEF VolumeInv, DeleteInv, PlaceInv, Wants
  <2>. QED
    BY <2>2, <2>3 DEF Astray, Goes
<1>9. ASSUME NEW a \in Actions, PodCollected(v, a) PROVE Move(v)
  BY <1>9 DEF PodCollected, Where
<1>10. ASSUME NEW a \in Actions, HelperFails(v, a) PROVE Move(v)
  <2>1. Stays(v)
    BY <1>10 DEF HelperFails
  <2>2. /\ Running(v, a)
        /\ a = "create" => want[v] \in {"new", "lost"}
        /\ a = "delete" => want[v] \in {"deleting", "lost", "gone"}
        /\ want[v] = "gone" /\ via[v] = "helper" => Where(v) = {}
    BY <1>10 DEF HelperFails, Running, VolumeInv, CreateInv, DeleteInv, PlaceInv, Wants
  <2>3. Same(v) \/ (a = "create" /\ Comes(v)) \/ (a = "delete" /\ Goes(v))
    BY <1>10, FailedWork DEF Comes, Goes
  <2>. QED
    BY <2>1, <2>2, <2>3 DEF Astray, Goes
<1>11. CASE PVChanges(v)
  BY <1>11 DEF PVChanges, disks, Where
<1>12. ASSUME NEW p \in Places, Grow(v, p) PROVE Move(v)
  <2>1. lv[v][p] # 0 /\ lv[v][p] + 1 # 0 /\ lv' = [lv EXCEPT ![v][p] = lv[v][p] + 1]
    BY <1>12, AsksAssumption DEF Grow
  <2>2. Where(v)' = Where(v)
    BY <2>1, WhereUpdate DEF Where
  <2>. QED
    BY <1>12, <2>2 DEF Grow
<1>. QED
  BY <1>1, <1>2, <1>3, <1>4, <1>5, <1>6, <1>7, <1>8, <1>9, <1>10, <1>11, <1>12, Zenon
     DEF VolumeStep, Call, CallStep, HelperStep

\* A move of one volume is a step of the contract, or no step of it.
LEMMA MoveMaps ==
    ASSUME TypeOK, TypeOK', NEW v \in Volumes, Move(v),
           \A u \in Volumes \ {v} : Untouched(u)
    PROVE  [Promise!Next]_(Promise!vars)
<1>. DEFINE told == [u \in Volumes |-> Told(u)]
            exists == {u \in Volumes : Where(u) # {}}
<1>1. \A u \in Volumes \ {v} : Told(u)' = Told(u) /\ Where(u)' = Where(u)
  BY DEF Untouched, Told, Where
<1>2. told' = [told EXCEPT ![v] = Told(v)']
  BY <1>1
<1>3. Same(v) => exists' = exists
  BY <1>1 DEF Same
<1>4. Comes(v) => exists' = exists \cup {v}
  BY <1>1 DEF Comes
<1>5. Goes(v) => exists' = exists \/ exists' = exists \ {v}
  BY <1>1 DEF Goes
<1>6. Stays(v) => told' = told
  <2>. SUFFICES ASSUME Stays(v) PROVE told' = told
    OBVIOUS
  <2>1. Told(v)' = Told(v)
    BY DEF Stays, Told
  <2>. QED
    BY <1>1, <2>1
<1>7. told[v] = Told(v) /\ (v \in exists <=> Where(v) # {})
  OBVIOUS
<1>. HIDE DEF told, exists
<1>8. CASE Stays(v) /\ Same(v)
  BY <1>3, <1>6, <1>8 DEF Promise!vars, told, exists
<1>9. CASE Stays(v) /\ Comes(v) /\ (want[v] = "new" \/ Astray(v))
  <2>1. Told(v) \in {"wanted", "lost"}
    BY <1>9 DEF Astray, Told
  <2>2. told' = told /\ exists' = exists \cup {v}
    BY <1>4, <1>6, <1>9
  <2>3. Promise!Appear(v)
    BY <1>7, <2>1, <2>2 DEF Promise!Appear, told, exists
  <2>. QED
    BY <2>3 DEF Promise!Next
<1>10. CASE Stays(v) /\ Goes(v) /\ (want[v] = "deleting" \/ Astray(v))
  <2>1. Told(v) \in {"unwanted", "lost"}
    BY <1>10 DEF Astray, Told
  <2>2. CASE exists' = exists
    BY <1>6, <1>10, <2>2 DEF Promise!vars, told, exists
  <2>3. CASE exists' = exists \ {v}
    <3>1. Promise!Vanish(v)
      BY <1>6, <1>7, <1>10, <2>1, <2>3 DEF Promise!Vanish, told, exists
    <3>. QED
      BY <3>1 DEF Promise!Next
  <2>. QED
    BY <1>5, <1>10, <2>2, <2>3
<1>11. ASSUME NEW from, NEW to, Same(v), Told(v) \in from, Told(v)' = to
       PROVE  Promise!Turns(v, from, to) /\ Promise!Becomes(v, from, to)
  BY <1>2, <1>3, <1>7, <1>11 DEF Promise!Turns, Promise!Becomes, told, exists
<1>12. CASE Turns(v, {"none"}, "new")
  BY <1>11, <1>12 DEF Turns, Told, Promise!Next, Promise!Want
<1>13. CASE Turns(v, {"new"}, "made") /\ Where(v) # {}
  BY <1>7, <1>11, <1>13 DEF Turns, Told, Promise!Next, Promise!Ready, exists
<1>14. CASE Turns(v, {"made"}, "ready")
  <2>1. Told(v)' = Told(v) /\ Same(v)
    BY <1>14 DEF Turns, Told
  <2>2. told' = told
    BY <1>1, <2>1 DEF told
  <2>. QED
    BY <1>3, <2>1, <2>2 DEF Promise!vars, told, exists
<1>15. CASE Turns(v, {"made", "ready"}, "deleting")
  BY <1>11, <1>15 DEF Turns, Told, Promise!Next, Promise!Unwant
<1>16. CASE Turns(v, {"new", "deleting"}, "lost")
  BY <1>11, <1>16 DEF Turns, Told, Promise!Next, Promise!Lose
<1>17. CASE Turns(v, {"deleting"}, "gone") /\ (via'[v] = "helper" => Where(v) = {})
  <2>1. CASE via'[v] = "helper"
    BY <1>7, <1>11, <1>17, <2>1 DEF Turns, Told, Promise!Next, Promise!Gone, exists
  <2>2. CASE via'[v] # "helper"
    BY <1>11, <1>17, <2>2 DEF Turns, Told, Promise!Next, Promise!Lose
  <2>. QED
    BY <2>1, <2>2
<1>. QED
  BY <1>8, <1>9, <1>10, <1>12, <1>13, <1>14, <1>15, <1>16, <1>17 DEF Move

\* CreateVolume and DeleteVolume keep the contract with the CO: for any volumes,
\* requests, nodes and faults, a volume appears only while it is wanted, goes only
\* once its deletion is, is reported ready only when it exists and gone only when a
\* helper has removed it.
THEOREM VolumesKeepContract == Spec => ContractKept
<1>1. Init => Promise!Init
  BY DEF Init, Promise!Init, Told, Where
<1>2. IInv /\ IInv' /\ [Next]_vars => [Promise!Next]_(Promise!vars)
  <2>. SUFFICES ASSUME IInv, IInv', [Next]_vars PROVE [Promise!Next]_(Promise!vars)
    OBVIOUS
  <2>1. ASSUME NEW v \in Volumes, VolumeStep(v) PROVE [Promise!Next]_(Promise!vars)
    <3>1. Move(v)
      BY <2>1, StepMoves DEF IInv
    <3>2. \A u \in Volumes \ {v} : Untouched(u)
      BY <2>1, Others DEF IInv
    <3>. QED
      BY <2>1, <3>1, <3>2, MoveMaps DEF IInv
  <2>2. CASE UNCHANGED <<want, via, lv>>
    BY <2>2 DEF Promise!vars, Told, Where
  <2>3. OtherStep => UNCHANGED <<want, via, lv>>
    BY DEF OtherStep, TakeSnapshot, ImportSnapshot, SnapshotChanges, NodeLost, disks
  <2>. QED
    BY <2>1, <2>2, <2>3, NextCases DEF vars
<1>. QED
  BY <1>1, <1>2, VolumesInductive, PTL DEF Spec, ContractKept, Promise!Spec

=============================================================================

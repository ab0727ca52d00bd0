---------------------- MODULE StorageClassWebhookProofs ----------------------
(***************************************************************************)
(* StorageClassWebhook, for any classes, nodes and topologies: a class     *)
(* keeps the node it was created for, and classes that have seen each other*)
(* agree about the type of their volume group.                             *)
(***************************************************************************)
EXTENDS StorageClassWebhook, WellFoundedInduction, TLAPS

-----------------------------------------------------------------------------
(* The node a class leads to.                                              *)

\* A non-empty set of natural numbers has a least element.
LEMMA LeastExists ==
    ASSUME NEW S, S \subseteq Nat, S # {}
    PROVE  \E x \in S : \A y \in S : x <= y
<1>. DEFINE R == OpToRel(<, Nat)
<1>1. IsWellFoundedOn(R, Nat)
  BY NatLessThanWellFounded
<1>2. \A x, y \in Nat : <<y, x>> \in R <=> y < x
  BY DEF OpToRel
<1>. HIDE DEF R
<1>3. PICK x \in S : \A y \in S : ~ (<<y, x>> \in R)
  BY <1>1, WFMin
<1>4. ASSUME NEW y \in S PROVE x <= y
  <2>1. ~ (y < x)
    BY <1>2, <1>3, Zenon
  <2>. QED
    BY <2>1
<1>. QED
  BY <1>4

\* Min is an element of its argument.
LEMMA MinElement ==
    ASSUME NEW S, S \subseteq Nat, S # {}
    PROVE  Min(S) \in S
BY LeastExists DEF Min

\* getLVMTopologyNodes returns a node that the class reaches, or none.
LEMMA FirstNode ==
    ASSUME NEW class \in StorageClass
    PROVE  \/ getLVMTopologyNodes(class) = None
           \/ getLVMTopologyNodes(class) \in Nodes \cap Reach(class)
<1>. SUFFICES ASSUME KeyedTerms(class) # {}
              PROVE  getLVMTopologyNodes(class) \in Nodes \cap Reach(class)
  BY DEF getLVMTopologyNodes
<1>1. class.topologies \in Seq(Seq(Expression))
  BY TopologiesAssumption DEF StorageClass
<1>. DEFINE ts == class.topologies
            k == Min(KeyedTerms(class))
            term == ts[k]
            l == Min(Keyed(term))
            e == term[l]
<1>2. k \in DOMAIN ts /\ Keyed(term) # {}
  <2>1. KeyedTerms(class) \subseteq DOMAIN ts /\ DOMAIN ts \subseteq Nat
    BY <1>1 DEF KeyedTerms
  <2>2. k \in KeyedTerms(class)
    BY <2>1, MinElement
  <2>. QED
    BY <2>2 DEF KeyedTerms
<1>3. term \in Elements(ts) /\ term \in Seq(Expression)
  <2>. HIDE DEF k
  <2>. QED
    BY <1>1, <1>2 DEF Elements
<1>4. l \in DOMAIN term /\ e.key = "node"
  <2>. HIDE DEF term
  <2>1. Keyed(term) \subseteq DOMAIN term /\ DOMAIN term \subseteq Nat
    BY <1>3 DEF Keyed
  <2>2. l \in Keyed(term)
    BY <1>2, <2>1, MinElement
  <2>. QED
    BY <2>2 DEF Keyed
<1>5. e \in Elements(term) /\ e \in Expression
  <2>. HIDE DEF term, l
  <2>. QED
    BY <1>3, <1>4 DEF Elements
<1>6. e \in NodeExpressions(class)
  BY <1>3, <1>4, <1>5 DEF NodeExpressions
<1>7. e.values \in Seq(Nodes) /\ e.values # <<>>
  BY <1>5 DEF Expression
<1>8. e.values[1] \in Nodes /\ e.values[1] \in Elements(e.values)
  BY <1>7 DEF Elements
<1>9. getLVMTopologyNodes(class) = e.values[1]
  BY DEF getLVMTopologyNodes, FirstExpression
<1>. QED
  BY <1>6, <1>8, <1>9 DEF Reach

-----------------------------------------------------------------------------
(* The inductive invariant.                                                *)

\* The initial state satisfies the invariant.
LEMMA InitInv == Init => IInv
BY NamesAssumption DEF Init, IInv, TypeOK, AdmissionInv, ListedInv, NodeKept, At, Ours

\* A request only starts an admission.
LEMMA RequestInv ==
    ASSUME IInv, NEW n \in Names, NEW class \in Classes, Request(n, class)
    PROVE  IInv'
<1>. USE ClassesAssumption DEF Request, IInv
<1>1. TypeOK'
  BY DEF TypeOK, Admission
<1>2. AdmissionInv'
  BY NamesAssumption DEF TypeOK, AdmissionInv, At, SameGroup, Ours
<1>3. ListedInv' /\ NodeKept'
  BY DEF ListedInv, NodeKept, SameGroup, Ours
<1>. QED
  BY <1>1, <1>2, <1>3

\* An admission that goes on or is refused keeps what is stored.
LEMMA CheckInv ==
    ASSUME IInv, NEW n \in Names, CheckNodes(n) \/ CheckClasses(n) \/ ListFails(n)
    PROVE  IInv'
<1>. USE NamesAssumption DEF IInv, TypeOK, At, Refuse
<1>1. TypeOK'
  BY DEF CheckNodes, CheckClasses, ListFails, Admission
<1>2. UNCHANGED <<nodes, stored, listed, home>>
  BY DEF CheckNodes, CheckClasses, ListFails
<1>3. AdmissionInv'
  <2>1. CASE CheckNodes(n) \/ ListFails(n)
    BY <1>2, <2>1 DEF CheckNodes, ListFails, AdmissionInv, SameGroup, Ours, Admission
  <2>2. CASE CheckClasses(n)
    <3>1. CASE validateUniqueVGType(n, adm[n].class)
      <4>. DEFINE c == adm[n].class
      <4>1. adm' = [adm EXCEPT ![n].pc = "store", ![n].seen = {m \in Names : stored[m] # None}]
        BY <2>2, <3>1 DEF CheckClasses
      <4>2. adm[n] \in Admission
        BY <2>2 DEF CheckClasses
      <4>3. adm'[n] # None /\ adm'[n].class = c /\ adm'[n].seen = {m \in Names : stored[m] # None}
        <5>1. adm'[n] = [class |-> c, pc |-> "store", seen |-> {m \in Names : stored[m] # None}]
          BY <4>1, <4>2 DEF Admission
        <5>2. adm'[n] \in Admission
          BY <4>2, <5>1 DEF Admission
        <5>3. adm'[n] # None
          BY <5>2, Zenon
        <5>. QED
          BY <5>1, <5>3
      <4>4. \A m \in Names \ {n} : adm'[m] = adm[m]
        BY <4>1
      <4>5. Ours(c) => getLVMTopologyNodes(c) # None
        BY <3>1 DEF validateUniqueVGType, Ours
      <4>6. \A m \in Names \ {n} : SameGroup(c, stored[m]) => c.type = stored[m].type
        BY <3>1, Zenon DEF validateUniqueVGType, SameGroup, Ours
      <4>. QED
        BY <1>2, <4>3, <4>4, <4>5, <4>6 DEF AdmissionInv, SameGroup, Ours
    <3>2. CASE ~validateUniqueVGType(n, adm[n].class)
      BY <1>2, <2>2, <3>2 DEF CheckClasses, AdmissionInv, SameGroup, Ours
    <3>. QED
      BY <3>1, <3>2
  <2>. QED
    BY <2>1, <2>2
<1>4. ListedInv' /\ NodeKept'
  BY <1>2 DEF ListedInv, NodeKept, SameGroup, Ours
<1>. QED
  BY <1>1, <1>3, <1>4

\* A class that is stored was compared with those it has seen.  Nobody has seen it
\* yet: its name was free.
LEMMA StoreInv ==
    ASSUME IInv, NEW n \in Names, Store(n)
    PROVE  IInv'
<1>. USE NamesAssumption DEF IInv, TypeOK, At, Refuse
<1>. DEFINE c == adm[n].class
<1>1. c \in StorageClass /\ adm[n].seen \subseteq Names /\ adm[n] # None /\ adm[n].pc = "store"
  BY DEF Store, Admission
<1>2. /\ stored'[n] = c /\ listed'[n] = adm[n].seen /\ home'[n] = getLVMTopologyNodes(c)
      /\ adm'[n] = None /\ stored[n] = None
      /\ \A m \in Names \ {n} : /\ stored'[m] = stored[m] /\ listed'[m] = listed[m]
                                /\ home'[m] = home[m] /\ adm'[m] = adm[m]
  BY DEF Store
<1>3. TypeOK'
  BY <1>1, FirstNode DEF Store
<1>4. \A m \in Names \ {n} : n \notin listed[m] /\ (At(m, "store") => n \notin adm[m].seen)
  BY <1>2 DEF AdmissionInv, ListedInv
<1>5. AdmissionInv'
  <2>. SUFFICES ASSUME NEW a \in Names, At(a, "store")', a # n
                PROVE  /\ Ours(adm[a].class) => getLVMTopologyNodes(adm[a].class) # None
                       /\ \A b \in adm[a].seen :
                             /\ stored'[b] # None
                             /\ b # a /\ SameGroup(adm[a].class, stored'[b])
                                    => adm[a].class.type = stored'[b].type
    BY <1>2 DEF AdmissionInv, SameGroup, Ours
  <2>1. At(a, "store") /\ adm[a].seen \subseteq Names
    BY <1>2 DEF Admission
  <2>2. \A b \in adm[a].seen : stored'[b] = stored[b]
    <3>1. n \notin adm[a].seen
      BY <1>4, <2>1
    <3>2. \A m \in Names \ {n} : stored'[m] = stored[m]
      BY <1>2, Zenon
    <3>. QED
      BY <2>1, <3>1, <3>2, Zenon
  <2>. QED
    <3>1. /\ Ours(adm[a].class) => getLVMTopologyNodes(adm[a].class) # None
          /\ \A b \in adm[a].seen :
                /\ stored[b] # None
                /\ b # a /\ SameGroup(adm[a].class, stored[b]) => adm[a].class.type = stored[b].type
      BY <2>1 DEF AdmissionInv
    <3>. QED
      BY <2>2, <3>1, Zenon
<1>6. ListedInv'
  <2>. SUFFICES ASSUME NEW a \in Names, NEW b \in listed'[a]
                PROVE  /\ stored'[a] # None /\ stored'[b] # None
                       /\ SameGroup(stored'[a], stored'[b]) => stored'[a].type = stored'[b].type
    BY Zenon DEF ListedInv, SameGroup, Ours
  <2>0. b \in Names
    BY <1>3
  <2>1. CASE a # n
    BY <1>2, <1>4, <2>0, <2>1 DEF ListedInv
  <2>2. CASE a = n
    <3>1. b # n
      BY <1>1, <1>2, <2>2 DEF AdmissionInv
    <3>. QED
      BY <1>1, <1>2, <2>0, <2>2, <3>1 DEF AdmissionInv
  <2>. QED
    BY <2>1, <2>2
<1>7. NodeKept'
  BY <1>1, <1>2, ZenonT(30) DEF AdmissionInv, NodeKept, Ours
<1>. QED
  BY <1>3, <1>5, <1>6, <1>7

\* An update keeps what the comparisons were about.
LEMMA UpdateInv ==
    ASSUME IInv, NEW n \in Names, NEW topologies \in Topologies, Update(n, topologies)
    PROVE  IInv'
<1>. USE NamesAssumption DEF IInv, TypeOK
<1>. DEFINE new == [stored[n] EXCEPT !.topologies = topologies]
<1>1. stored[n] \in StorageClass /\ stored[n] # None
  BY DEF Update
<1>2. new \in StorageClass /\ new # None
  BY <1>1 DEF StorageClass
<1>3. /\ new.provisioner = stored[n].provisioner /\ new.vg = stored[n].vg
      /\ new.type = stored[n].type
      /\ getLVMTopologyNodes(new) = getLVMTopologyNodes(stored[n])
  BY <1>1 DEF StorageClass, Update
<1>4. stored' = [stored EXCEPT ![n] = new] /\ UNCHANGED <<nodes, adm, listed, home>>
  BY DEF Update
<1>. HIDE DEF new
<1>5. \A m \in Names :
        /\ (stored'[m] = None) <=> (stored[m] = None)
        /\ Ours(stored'[m]) <=> Ours(stored[m])
        /\ Ours(stored[m]) => /\ stored'[m].vg = stored[m].vg
                              /\ stored'[m].type = stored[m].type
                              /\ getLVMTopologyNodes(stored'[m]) = getLVMTopologyNodes(stored[m])
  BY <1>1, <1>2, <1>3, <1>4 DEF Ours
<1>6. TypeOK'
  BY <1>2, <1>4
<1>7. AdmissionInv'
  <2>. SUFFICES ASSUME NEW a \in Names, At(a, "store"), NEW b \in adm[a].seen
                PROVE  /\ Ours(adm[a].class) => getLVMTopologyNodes(adm[a].class) # None
                       /\ stored'[b] # None
                       /\ b # a /\ SameGroup(adm[a].class, stored'[b])
                              => adm[a].class.type = stored'[b].type
    BY <1>4 DEF AdmissionInv, SameGroup, Ours, At
  <2>1. b \in Names
    BY DEF At, Admission
  <2>. QED
    BY <1>5, <2>1 DEF AdmissionInv, SameGroup
<1>8. ListedInv'
  <2>. SUFFICES ASSUME NEW a \in Names, NEW b \in listed[a]
                PROVE  /\ stored'[a] # None /\ stored'[b] # None
                       /\ SameGroup(stored'[a], stored'[b]) => stored'[a].type = stored'[b].type
    BY <1>4 DEF ListedInv, SameGroup, Ours
  <2>1. b \in Names
    OBVIOUS
  <2>. QED
    BY <1>5, <2>1 DEF ListedInv, SameGroup
<1>9. NodeKept'
  BY <1>4, <1>5, Zenon DEF NodeKept, Ours
<1>. QED
  BY <1>6, <1>7, <1>8, <1>9

\* What is deleted is forgotten by those that have seen it.
LEMMA DeleteInv ==
    ASSUME IInv, NEW n \in Names, Delete(n)
    PROVE  IInv'
<1>. USE NamesAssumption DEF IInv, TypeOK
<1>1. /\ stored'[n] = None /\ listed'[n] = {} /\ home'[n] = None
      /\ \A m \in Names : adm[m] = None => adm'[m] = None
      /\ \A m \in Names \ {n} : /\ stored'[m] = stored[m] /\ home'[m] = home[m]
                                /\ listed'[m] = listed[m] \ {n}
  BY DEF Delete
<1>2. ASSUME NEW m \in Names, adm[m] # None
      PROVE  /\ adm'[m] = [class |-> adm[m].class, pc |-> adm[m].pc, seen |-> adm[m].seen \ {n}]
             /\ adm'[m] \in Admission /\ adm[m].seen \subseteq Names
  <2>1. adm[m] \in Admission /\ adm'[m] = [adm[m] EXCEPT !.seen = @ \ {n}]
    BY <1>2 DEF Delete
  <2>. QED
    BY <2>1 DEF Admission
<1>3. TypeOK'
  <2>1. adm' \in [Names -> Admission \cup {None}]
    BY <1>1, <1>2 DEF Delete
  <2>. QED
    BY <2>1 DEF Delete
<1>4. AdmissionInv'
  <2>. SUFFICES ASSUME NEW a \in Names, At(a, "store")'
                PROVE  /\ Ours(adm'[a].class) => getLVMTopologyNodes(adm'[a].class) # None
                       /\ \A b \in adm'[a].seen :
                             /\ stored'[b] # None
                             /\ b # a /\ SameGroup(adm'[a].class, stored'[b])
                                    => adm'[a].class.type = stored'[b].type
    BY DEF AdmissionInv, SameGroup, Ours
  <2>1. /\ At(a, "store") /\ adm'[a].class = adm[a].class
        /\ adm'[a].seen = adm[a].seen \ {n} /\ adm[a].seen \subseteq Names
    <3>1. adm[a] # None
      BY <1>1 DEF At
    <3>2. /\ adm'[a] = [class |-> adm[a].class, pc |-> adm[a].pc, seen |-> adm[a].seen \ {n}]
          /\ adm[a].seen \subseteq Names
      BY <1>2, <3>1, Zenon
    <3>. QED
      BY <3>1, <3>2 DEF At
  <2>2. \A b \in adm'[a].seen : b \in adm[a].seen /\ stored'[b] = stored[b]
    BY <1>1, <2>1
  <2>3. /\ Ours(adm[a].class) => getLVMTopologyNodes(adm[a].class) # None
        /\ \A b \in adm[a].seen :
              /\ stored[b] # None
              /\ b # a /\ SameGroup(adm[a].class, stored[b]) => adm[a].class.type = stored[b].type
    BY <2>1 DEF AdmissionInv
  <2>. QED
    BY <2>1, <2>2, <2>3, Zenon
<1>5. ListedInv'
  <2>. SUFFICES ASSUME NEW a \in Names, NEW b \in listed'[a]
                PROVE  /\ stored'[a] # None /\ stored'[b] # None
                       /\ SameGroup(stored'[a], stored'[b]) => stored'[a].type = stored'[b].type
    BY DEF ListedInv, SameGroup, Ours
  <2>1. a # n /\ b # n /\ b \in listed[a] /\ b \in Names
    BY <1>1
  <2>. QED
    BY <1>1, <2>1 DEF ListedInv
<1>6. NodeKept'
  BY <1>1 DEF NodeKept, Ours
<1>. QED
  BY <1>3, <1>4, <1>5, <1>6

\* Every step keeps the invariant.
LEMMA NextInv == IInv /\ [Next]_vars => IInv'
<1>. SUFFICES ASSUME IInv, [Next]_vars PROVE IInv'
  OBVIOUS
<1>1. ASSUME NEW n \in Nodes, NodesChange(n) PROVE IInv'
  BY <1>1 DEF NodesChange, IInv, TypeOK, AdmissionInv, ListedInv, NodeKept, At, SameGroup, Ours
<1>2. CASE UNCHANGED vars
  BY <1>2 DEF vars, IInv, TypeOK, AdmissionInv, ListedInv, NodeKept, At, SameGroup, Ours
<1>. QED
  BY <1>1, <1>2, RequestInv, CheckInv, StoreInv, UpdateInv, DeleteInv, Zenon DEF Next

\* The inductive invariant of the admissions holds in every state.
THEOREM WebhookInductive == Spec => []IInv
BY InitInv, NextInv, PTL DEF Spec

\* Admissions and stored classes stay well typed; in particular the node a class was
\* created for is a node, which rests on what getLVMTopologyNodes returns.
THEOREM WebhookTyped == Spec => []TypeOK
<1>1. IInv => TypeOK
  BY DEF IInv
<1>. QED
  BY <1>1, WebhookInductive, PTL

\* Update never moves a class of the driver to another node, and Create stores none
\* without a node.
THEOREM NodesAreKept == Spec => []NodeKept
<1>1. IInv => NodeKept
  BY DEF IInv
<1>. QED
  BY <1>1, WebhookInductive, PTL

\* validateUniqueVGType: classes of one volume group of one node agree about its
\* type if the admission of one has seen the other, for any number of classes, nodes
\* and terms.
THEOREM TypesDoAgree == Spec => []TypesAgree
<1>1. IInv => TypesAgree
  <2>. SUFFICES ASSUME IInv, NEW a \in Names, NEW b \in Names, NEW node \in Nodes,
                       Ours(stored[a]), Ours(stored[b]), stored[a].vg = stored[b].vg,
                       Reach(stored[a]) = {node}, Reach(stored[b]) = {node},
                       a \in listed[b] \/ b \in listed[a]
                PROVE  stored[a].type = stored[b].type
    BY DEF TypesAgree
  <2>1. stored[a] \in StorageClass /\ stored[b] \in StorageClass
    BY DEF IInv, TypeOK, Ours
  <2>2. getLVMTopologyNodes(stored[a]) # None /\ getLVMTopologyNodes(stored[b]) # None
    BY DEF IInv, NodeKept
  <2>3. getLVMTopologyNodes(stored[a]) = node /\ getLVMTopologyNodes(stored[b]) = node
    BY <2>1, <2>2, FirstNode
  <2>. QED
    BY <2>3 DEF IInv, ListedInv, SameGroup
<1>. QED
  BY <1>1, WebhookInductive, PTL

=============================================================================

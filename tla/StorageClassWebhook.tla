------------------------- MODULE StorageClassWebhook -------------------------
(***************************************************************************)
(* The admission webhook for StorageClasses                                *)
(* (pkg/webhook/storageclass/validator.go, registered by cmd/webhook).     *)
(*                                                                         *)
(* All classes of a volume group on a node must have one type.  Create     *)
(* lists the nodes, then the stored classes; the API server stores the new *)
(* class after that, so admissions that run together do not see each       *)
(* other.  Update is compared with the stored object only; the API server  *)
(* keeps everything but the topologies from being changed.                 *)
(***************************************************************************)
EXTENDS Integers, Sequences, FiniteSetsExt

CONSTANTS
    Names,       \* names of classes
    Nodes,
    VGs,
    Provisioner, \* the driver's provisioner; any other is none of its business
    Other,
    Topologies,  \* the allowedTopologies users write: sequences of terms, which
                 \* are sequences of expressions
    Classes,     \* the classes they create
    None         \* no class, no admission, no node, no parameter

Types == {"striped", "dm-thin"}

\* The API server has checked that an expression has a value.
Expression == [key : {"node", "other"}, values : Seq(Nodes) \ {<<>>}]
StorageClass == [provisioner : {Provisioner, Other}, topologies : Topologies,
                 vg : VGs \cup {None}, type : Types \cup {None}]

\* The admission of a creation: the next list to read, and the classes it has seen.
Admission == [class : StorageClass, pc : {"nodes", "classes", "store"}, seen : SUBSET Names]

ASSUME TopologiesAssumption == Topologies \subseteq Seq(Seq(Expression))
ASSUME ClassesAssumption == Classes \subseteq StorageClass
ASSUME NamesAssumption ==
    /\ Provisioner # Other
    /\ None \notin Nodes \cup VGs \cup Types \cup StorageClass \cup Admission

VARIABLES
    nodes,   \* the Node objects
    stored,  \* the classes in the API server
    adm,     \* the admission of a creation: the class and the next list to read
    listed,  \* the stored classes that the admission of a stored class has seen
    home     \* the node a stored class was created for

vars == <<nodes, stored, adm, listed, home>>

Ours(class) == class # None /\ class.provisioner = Provisioner

-----------------------------------------------------------------------------
(* validator.go                                                            *)

Elements(s) == {s[k] : k \in DOMAIN s}

\* The expressions with the driver's key.
NodeExpressions(class) ==
    {e \in UNION {Elements(term) : term \in Elements(class.topologies)} : e.key = "node"}

\* The expressions of a term that have the driver's key, and the terms with one.
Keyed(term) == {k \in DOMAIN term : term[k].key = "node"}
KeyedTerms(class) == {k \in DOMAIN class.topologies : Keyed(class.topologies[k]) # {}}

\* The first expression with the driver's key in the first term that has one.
FirstExpression(class) ==
    LET term == class.topologies[Min(KeyedTerms(class))]
    IN  term[Min(Keyed(term))]

\* Faulty variant: the key of the expression, not its value.
getLVMTopologyKey(class) ==
    IF KeyedTerms(class) = {} THEN None ELSE FirstExpression(class).key

\* The first node of that expression.
getLVMTopologyNodes(class) ==
    IF KeyedTerms(class) = {} THEN None ELSE FirstExpression(class).values[1]

validateTopologyNodes(class) ==
    \/ class.provisioner # Provisioner
    \/ /\ class.topologies # <<>>
       /\ <<>> \notin Elements(class.topologies)
       /\ \A e \in NodeExpressions(class) : Len(e.values) = 1 /\ e.values[1] \in nodes
       /\ NodeExpressions(class) # {}

\* Faulty variant: the topologies are compared instead of the nodes they lead to.
validateVGTypeOfEqual(n, class) ==
    \/ class.provisioner # Provisioner
    \/ /\ class.type # None /\ class.vg # None /\ getLVMTopologyNodes(class) # None
       /\ \A m \in Names \ {n} :
             Ours(stored[m])
             /\ stored[m].topologies = class.topologies
             /\ stored[m].vg = class.vg
             => stored[m].type = class.type

\* The class has all three, and no other class of its volume group another type.
validateUniqueVGType(n, class) ==
    \/ class.provisioner # Provisioner
    \/ /\ class.type # None /\ class.vg # None /\ getLVMTopologyNodes(class) # None
       /\ \A m \in Names \ {n} :
             Ours(stored[m])
             /\ getLVMTopologyNodes(stored[m]) = getLVMTopologyNodes(class)
             /\ stored[m].vg = class.vg
             => stored[m].type = class.type

-----------------------------------------------------------------------------
(* Creation.                                                               *)

\* A user creates a class (external).
Request(n, class) ==
    /\ adm[n] = None
    /\ adm' = [adm EXCEPT ![n] = [class |-> class, pc |-> "nodes", seen |-> {}]]
    /\ UNCHANGED <<nodes, stored, listed, home>>

At(n, pc) == adm[n] # None /\ adm[n].pc = pc
Refuse(n) == adm' = [adm EXCEPT ![n] = None]

CheckNodes(n) ==
    /\ At(n, "nodes")
    /\ IF validateTopologyNodes(adm[n].class)
       THEN adm' = [adm EXCEPT ![n].pc = "classes"] ELSE Refuse(n)
    /\ UNCHANGED <<nodes, stored, listed, home>>

CheckClasses(n) ==
    /\ At(n, "classes")
    /\ IF validateUniqueVGType(n, adm[n].class)
       THEN adm' = [adm EXCEPT ![n].pc = "store", ![n].seen = {m \in Names : stored[m] # None}]
       ELSE Refuse(n)
    /\ UNCHANGED <<nodes, stored, listed, home>>

\* A list fails, or the call is given up: the creation is refused.
ListFails(n) ==
    /\ adm[n] # None
    /\ Refuse(n)
    /\ UNCHANGED <<nodes, stored, listed, home>>

\* The API server stores the class, unless its name is taken (external).
Store(n) ==
    /\ At(n, "store")
    /\ stored[n] = None
    /\ stored' = [stored EXCEPT ![n] = adm[n].class]
    /\ home' = [home EXCEPT ![n] = getLVMTopologyNodes(adm[n].class)]
    /\ listed' = [listed EXCEPT ![n] = adm[n].seen]
    /\ Refuse(n)
    /\ UNCHANGED nodes

-----------------------------------------------------------------------------
(* Update and deletion.                                                    *)

\* Faulty variant: the old node only has to be among the new ones.
UpdateKeepsNode(n, topologies) ==
    LET new == [stored[n] EXCEPT !.topologies = topologies]
    IN  /\ stored[n] # None
        /\ \/ getLVMTopologyNodes(stored[n]) = None
           \/ \E e \in NodeExpressions(new) :
                 getLVMTopologyNodes(stored[n]) \in Elements(e.values)
        /\ stored' = [stored EXCEPT ![n] = new]
        /\ UNCHANGED <<nodes, adm, listed, home>>

\* Only the first node is compared; the other rules of Create are not applied.
Update(n, topologies) ==
    LET new == [stored[n] EXCEPT !.topologies = topologies]
    IN  /\ stored[n] # None
        /\ getLVMTopologyNodes(stored[n]) = getLVMTopologyNodes(new)
        /\ stored' = [stored EXCEPT ![n] = new]
        /\ UNCHANGED <<nodes, adm, listed, home>>

\* The webhook is not asked (external).
Delete(n) ==
    /\ stored[n] # None
    /\ stored' = [stored EXCEPT ![n] = None]
    /\ listed' = [m \in Names |-> IF m = n THEN {} ELSE listed[m] \ {n}]
    /\ home' = [home EXCEPT ![n] = None]
    /\ adm' = [m \in Names |-> IF adm[m] = None THEN None ELSE [adm[m] EXCEPT !.seen = @ \ {n}]]
    /\ UNCHANGED nodes

\* Nodes join and leave the cluster (external).
NodesChange(n) ==
    /\ nodes' = IF n \in nodes THEN nodes \ {n} ELSE nodes \cup {n}
    /\ UNCHANGED <<stored, adm, listed, home>>

-----------------------------------------------------------------------------
Init ==
    /\ nodes = Nodes
    /\ stored = [n \in Names |-> None]
    /\ adm = [n \in Names |-> None]
    /\ listed = [n \in Names |-> {}]
    /\ home = [n \in Names |-> None]

Next ==
    \/ \E n \in Names :
          \/ \E class \in Classes : Request(n, class)
          \/ CheckNodes(n)
          \/ CheckClasses(n)
          \/ ListFails(n)
          \/ Store(n)
          \/ \E topologies \in Topologies : Update(n, topologies)
          \/ Delete(n)
    \/ \E n \in Nodes : NodesChange(n)

Spec == Init /\ [][Next]_vars

-----------------------------------------------------------------------------
(* Properties.                                                             *)

TypeOK ==
    /\ nodes \subseteq Nodes
    /\ stored \in [Names -> StorageClass \cup {None}]
    /\ adm \in [Names -> Admission \cup {None}]
    /\ listed \in [Names -> SUBSET Names]
    /\ home \in [Names -> Nodes \cup {None}]

\* The nodes on which volumes of a class may be made: any node of any term.
Reach(class) == UNION {Elements(e.values) : e \in NodeExpressions(class)}

\* Classes of one volume group on one node never disagree about its type, whatever
\* is updated, deleted and created again.  The exceptions the code leaves: neither
\* admission has seen the other class, because they ran together, and classes that
\* reach more than one node (by several terms, or by an update), of which only the
\* first is compared.
TypesAgree ==
    \A a, b \in Names, node \in Nodes :
        /\ Ours(stored[a]) /\ Ours(stored[b])
        /\ stored[a].vg = stored[b].vg
        /\ Reach(stored[a]) = {node} /\ Reach(stored[b]) = {node}
        /\ a \in listed[b] \/ b \in listed[a]
        => stored[a].type = stored[b].type

\* A class of the driver always leads to the node it was created for, through any
\* number of updates: validateUniqueVGType and the PVs already made rely on it.
NodeKept ==
    \A n \in Names :
        Ours(stored[n]) => home[n] # None /\ getLVMTopologyNodes(stored[n]) = home[n]

-----------------------------------------------------------------------------
(* The inductive invariant behind TypesAgree and NodeKept.                 *)

\* Two classes of the driver that lead to one volume group of one node.
SameGroup(c, d) ==
    /\ Ours(c) /\ Ours(d)
    /\ c.vg = d.vg
    /\ getLVMTopologyNodes(c) = getLVMTopologyNodes(d)

\* A class about to be stored leads to a node, and was compared with every class
\* that its admission has seen, which are the classes of this moment.
AdmissionInv ==
    \A n \in Names : At(n, "store") =>
        /\ Ours(adm[n].class) => getLVMTopologyNodes(adm[n].class) # None
        /\ \A m \in adm[n].seen :
              /\ stored[m] # None
              /\ m # n /\ SameGroup(adm[n].class, stored[m]) => adm[n].class.type = stored[m].type

\* The same of a class that is stored, whatever was updated since.
ListedInv ==
    \A n \in Names : \A m \in listed[n] :
        /\ stored[n] # None /\ stored[m] # None
        /\ SameGroup(stored[n], stored[m]) => stored[n].type = stored[m].type

IInv == TypeOK /\ AdmissionInv /\ ListedInv /\ NodeKept

=============================================================================

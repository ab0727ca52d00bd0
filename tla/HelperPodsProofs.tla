-------------------------- MODULE HelperPodsProofs --------------------------
(* Theorems about HelperPods, for every set of requests, drivers and         *)
(* operations and every limit.                                               *)
EXTENDS HelperPods, FiniteSetTheorems, TLAPS

-----------------------------------------------------------------------------
(* Type correctness.                                                         *)

\* A helper name is the name of an operation.
LEMMA NameType == \A o \in Ops : HelperName(o) \in Names
BY DEF Names

\* What the pod changes of the API server and the kubelet leave in the store.
LEMMA PodChanges ==
    ASSUME NEW n \in Names, pods \in [Names -> Pod \cup {NoPod}]
    PROVE  /\ Deleted(n) \in [Names -> Pod \cup {NoPod}]
           /\ ForceDeleted(n) \in [Names -> Pod \cup {NoPod}]
           /\ \A o \in Ops : Created(n, o) \in [Names -> Pod \cup {NoPod}]
           /\ pods[n] # NoPod =>
                /\ [pods EXCEPT ![n].terminating = TRUE] \in [Names -> Pod \cup {NoPod}]
                /\ \A f \in Phases :
                     [pods EXCEPT ![n].phase = f] \in [Names -> Pod \cup {NoPod}]
<1>1. pods[n] # NoPod => pods[n] \in Pod
  OBVIOUS
<1>2. \A o \in Ops : Created(n, o) \in [Names -> Pod \cup {NoPod}]
  BY DEF Created, Pod, Phases
<1>3. pods[n] # NoPod =>
        /\ [pods EXCEPT ![n].terminating = TRUE] \in [Names -> Pod \cup {NoPod}]
        /\ \A f \in Phases :
             [pods EXCEPT ![n].phase = f] \in [Names -> Pod \cup {NoPod}]
  BY <1>1 DEF Pod
<1>4. ForceDeleted(n) \in [Names -> Pod \cup {NoPod}]
  BY DEF ForceDeleted
<1>5. Deleted(n) \in [Names -> Pod \cup {NoPod}]
  BY <1>3 DEF Deleted
<1> QED
  BY <1>2, <1>3, <1>4, <1>5

\* The initial state is well typed.
LEMMA InitTypeOK == Init => TypeOK
BY FlagsAssumption, DriverAssumption DEF Init, TypeOK, PCs, InCall, Locked, Errors

\* A step of a request preserves the types.
LEMMA RequestTypeOK ==
    ASSUME TypeOK, NEW r \in Requests, RequestStep(r)
    PROVE  TypeOK'
<1> USE DEF TypeOK, PCs, InCall, Locked, Errors, Goto, Return, Refuse, Unlock, Joined,
            Proceed, Name, Driver, lost
<1>0. DriverOf[r] \in Drivers
  BY DriverAssumption
<1>1. pc[r] # "idle" => op[r] \in Ops /\ Name(r) \in Names
  BY NameType
<1>2. CASE LockAdmission(r)
  BY <1>2, <1>0 DEF LockAdmission
<1>3. ASSUME CallFails(r) \/ CallWorks(r) PROVE faults' \in 0..MaxFaults
  BY <1>3, FlagsAssumption DEF CallFails, CallWorks
<1>4. CASE GetHelper(r)
  BY <1>4, <1>0, <1>1, <1>3 DEF GetHelper, UseExistingHelper
<1>5. CASE AdmitHelper(r)
  BY <1>5, <1>0, <1>1, <1>3 DEF AdmitHelper
<1>6. CASE CreateHelper(r)
  <2>1. Created(Name(r), op[r]) \in [Names -> Pod \cup {NoPod}]
    BY <1>6, <1>1, PodChanges DEF CreateHelper
  <2>2. faults' \in 0..MaxFaults
    BY <1>6, FlagsAssumption DEF CreateHelper, CallFails, CallWorks
  <2>3. adrift' \subseteq Ops /\ landed' = landed
    BY <1>6, <1>1 DEF CreateHelper
  <2> QED
    BY <1>6, <1>0, <1>1, <2>1, <2>2, <2>3 DEF CreateHelper
<1>7. CASE ReuseHelper(r)
  BY <1>7, <1>0, <1>1, <1>3 DEF ReuseHelper, UseExistingHelper
<1>8. CASE ForceDeleteHelper(r)
  <2>1. ForceDeleted(Name(r)) \in [Names -> Pod \cup {NoPod}]
    BY <1>8, <1>1, PodChanges DEF ForceDeleteHelper
  <2>2. GhostsOfForceDelete(Name(r)) \subseteq Ops
    BY <1>8, <1>1 DEF ForceDeleteHelper, GhostsOfForceDelete, Pod
  <2> QED
    BY <1>8, <1>0, <1>1, <1>3, <2>1, <2>2 DEF ForceDeleteHelper
<1>9. CASE RetireHelper(r)
  <2>1. Deleted(Name(r)) \in [Names -> Pod \cup {NoPod}]
    BY <1>9, <1>1, PodChanges DEF RetireHelper
  <2> QED
    BY <1>9, <1>0, <1>1, <1>3, <2>1 DEF RetireHelper
<1>10. CASE PollHelper(r)
  BY <1>10, <1>0, <1>1 DEF PollHelper
<1>11. CASE DeleteHelper(r)
  <2>1. Deleted(Name(r)) \in [Names -> Pod \cup {NoPod}]
    BY <1>11, <1>1, PodChanges DEF DeleteHelper
  <2>2. faults' \in 0..MaxFaults
    BY <1>11, FlagsAssumption DEF DeleteHelper
  <2> QED
    BY <1>11, <1>0, <1>1, <2>1, <2>2 DEF DeleteHelper
<1> QED
  BY <1>2, <1>4, <1>5, <1>6, <1>7, <1>8, <1>9, <1>10, <1>11 DEF RequestStep

\* A step of the kubelet or of the cluster preserves the types.
LEMMA PodTypeOK ==
    ASSUME TypeOK, NEW n \in Names, PodStep(n)
    PROVE  TypeOK'
<1> USE DEF TypeOK, frame, lost
<1>1. CASE PodStarts(n)
  BY <1>1, PodChanges DEF PodStarts, Phases
<1>2. CASE PodSucceeds(n)
  BY <1>2, PodChanges DEF PodSucceeds, Phases, Pod
<1>3. CASE PodFails(n)
  <2>1. pods' \in [Names -> Pod \cup {NoPod}]
    BY <1>3, PodChanges DEF PodFails, Phases
  <2>2. faults' \in 0..MaxFaults
    BY <1>3, FlagsAssumption DEF PodFails
  <2> QED
    BY <1>3, <2>1, <2>2 DEF PodFails
<1>4. CASE PodDeleted(n)
  <2>1. pods' \in [Names -> Pod \cup {NoPod}]
    BY <1>4, PodChanges DEF PodDeleted
  <2>2. faults' \in 0..MaxFaults
    BY <1>4, FlagsAssumption DEF PodDeleted
  <2> QED
    BY <1>4, <2>1, <2>2 DEF PodDeleted
<1>5. CASE PodReaped(n)
  BY <1>5 DEF PodReaped
<1> QED
  BY <1>1, <1>2, <1>3, <1>4, <1>5 DEF PodStep

\* Every step preserves the types.
LEMMA NextTypeOK == TypeOK /\ [Next]_vars => TypeOK'
<1> SUFFICES ASSUME TypeOK, [Next]_vars PROVE TypeOK'
  OBVIOUS
<1>1. ASSUME NEW r \in Requests, NEW o \in Ops, Start(r, o) PROVE TypeOK'
  BY <1>1 DEF Start, TypeOK, PCs, InCall, Goto, lost
<1>2. ASSUME NEW r \in Requests, Deadline(r) PROVE TypeOK'
  BY <1>2 DEF Deadline, TypeOK, lost
<1>3. ASSUME NEW d \in Drivers, Crash(d) PROVE TypeOK'
  <2>1. faults' \in 0..MaxFaults
    BY <1>3, FlagsAssumption DEF Crash, TypeOK
  <2>2. adrift' \subseteq Ops /\ landed' = landed
    BY <1>3 DEF Crash, TypeOK
  <2> QED
    BY <1>3, <2>1, <2>2 DEF Crash, TypeOK, PCs, Errors
<1>4. ASSUME NEW o \in Ops, GhostExits(o) PROVE TypeOK'
  BY <1>4 DEF GhostExits, TypeOK, frame, lost
<1>5. ASSUME NEW o \in Ops, LateCreate(o) PROVE TypeOK'
  <2>1. Created(HelperName(o), o) \in [Names -> Pod \cup {NoPod}]
    BY NameType, PodChanges DEF TypeOK
  <2> QED
    BY <1>5, <2>1 DEF LateCreate, TypeOK, frame
<1>6. CASE UNCHANGED vars
  BY <1>6 DEF vars, TypeOK
<1> QED
  BY <1>1, <1>2, <1>3, <1>4, <1>5, <1>6, RequestTypeOK, PodTypeOK DEF Next

\* Every reachable state of the helper protocol is well typed; in particular a
\* call that is under way always has an operation.
THEOREM TypeCorrect == Spec => []TypeOK
<1>1. Init => TypeOK
  BY InitTypeOK
<1>2. TypeOK /\ [Next]_vars => TypeOK'
  BY NextTypeOK
<1> QED
  BY <1>1, <1>2, PTL DEF Spec

-----------------------------------------------------------------------------
(* What one step can do to a pod and to a call.                              *)

\* A new pod appears only where a request is about to create one.
Appears(n) ==
    /\ pods[n] = NoPod
    /\ \E r \in Requests :
         /\ pc[r] = "create"
         /\ Name(r) = n
         /\ pods'[n] = [op |-> op[r], phase |-> "Pending", terminating |-> FALSE]
         /\ pc'[r] # "create"

\* A pod leaves the store when it has ended, when it is being deleted, or by
\* a request that has decided to delete it by force.
Vanishes(n) ==
    /\ pods[n] # NoPod
    /\ pods'[n] = NoPod
    /\ \/ podTerminal(pods[n])
       \/ pods[n].terminating
       \/ \E r \in Requests : pc[r] = "force" /\ Name(r) = n

\* Otherwise a pod keeps its operation, and does not go back.
Evolves(n) ==
    /\ pods[n] # NoPod
    /\ pods'[n] # NoPod
    /\ pods'[n].op = pods[n].op
    /\ podTerminal(pods[n]) => pods'[n].phase = pods[n].phase
    /\ pods[n].terminating => pods'[n].terminating
    /\ pods'[n].phase = "Succeeded" =>
         pods[n].phase = "Succeeded" \/ pods[n].op \in succeeded'

\* A pod also appears when a create without a caller is carried out.
Lands(n) ==
    /\ pods[n] = NoPod
    /\ pods'[n] # NoPod
    /\ pods'[n].op \in landed'
    /\ HelperName(pods'[n].op) = n
    /\ pods'[n].phase = "Pending"

PodMove(n) ==
    pods'[n] = pods[n] \/ Appears(n) \/ Lands(n) \/ Vanishes(n) \/ Evolves(n)

\* A graceful delete removes a pod that has ended and marks any other.
LEMMA DeletedMoves ==
    ASSUME TypeOK, NEW m \in Names, pods' = Deleted(m), NEW n \in Names
    PROVE  PodMove(n)
<1>1. CASE pods[m] = NoPod
  BY <1>1 DEF Deleted, PodMove
<1>2. CASE pods[m] # NoPod /\ podTerminal(pods[m])
  BY <1>2 DEF Deleted, PodMove, Vanishes, TypeOK
<1>3. CASE pods[m] # NoPod /\ ~podTerminal(pods[m])
  <2>1. pods[m] \in Pod
    BY <1>3 DEF TypeOK
  <2>2. pods' = [pods EXCEPT ![m].terminating = TRUE]
    BY <1>3 DEF Deleted
  <2>3. CASE n # m
    BY <2>2, <2>3 DEF PodMove, TypeOK
  <2>4. CASE n = m
    <3>1. pods'[n] = [pods[n] EXCEPT !.terminating = TRUE]
      BY <2>2, <2>4 DEF TypeOK
    <3>2. pods'[n] \in Pod /\ pods'[n].op = pods[n].op
            /\ pods'[n].phase = pods[n].phase /\ pods'[n].terminating
      BY <3>1, <2>1, <2>4 DEF Pod
    <3> QED
      BY <3>2, <1>3, <2>4, NoPodAssumption DEF PodMove, Evolves
  <2> QED
    BY <2>3, <2>4
<1> QED
  BY <1>1, <1>2, <1>3

\* Every step moves every pod in one of these ways.
LEMMA PodMoves ==
    ASSUME TypeOK, [Next]_vars, NEW n \in Names
    PROVE  PodMove(n)
<1>1. ASSUME UNCHANGED pods PROVE PodMove(n)
  BY <1>1 DEF PodMove
<1>2. ASSUME NEW r \in Requests, RequestStep(r) PROVE PodMove(n)
  <2>1. pc[r] # "idle" => Name(r) \in Names
    BY NameType DEF TypeOK, Name
  <2>2. CASE CreateHelper(r)
    <3>1. CASE UNCHANGED pods
      BY <3>1, <1>1
    <3>2. CASE pods[Name(r)] = NoPod /\ pods' = Created(Name(r), op[r])
      <4>1. pc'[r] # "create"
        BY <2>2, <3>2 DEF CreateHelper, Refuse, Return, Joined, Proceed, Goto, TypeOK
      <4>2. pods'[Name(r)] = [op |-> op[r], phase |-> "Pending", terminating |-> FALSE]
        BY <2>1, <2>2, <3>2 DEF Created, TypeOK, CreateHelper
      <4>3. n # Name(r) => pods'[n] = pods[n]
        BY <3>2 DEF Created, TypeOK
      <4> QED
        BY <2>2, <3>2, <4>1, <4>2, <4>3 DEF PodMove, Appears, CreateHelper
    <3> QED
      BY <2>2, <3>1, <3>2 DEF CreateHelper
  <2>3. CASE ForceDeleteHelper(r)
    <3>1. CASE UNCHANGED pods
      BY <3>1, <1>1
    <3>2. CASE pods' = ForceDeleted(Name(r))
      <4>1. n # Name(r) => pods'[n] = pods[n]
        BY <3>2 DEF ForceDeleted, TypeOK
      <4>2. n = Name(r) => pods'[n] = NoPod
        BY <3>2 DEF ForceDeleted, TypeOK
      <4> QED
        BY <2>3, <4>1, <4>2 DEF PodMove, Vanishes, ForceDeleteHelper
    <3> QED
      BY <2>3, <3>1, <3>2 DEF ForceDeleteHelper
  <2>4. CASE RetireHelper(r)
    BY <2>1, <2>4, <1>1, DeletedMoves DEF RetireHelper
  <2>5. CASE DeleteHelper(r)
    BY <2>1, <2>5, <1>1, DeletedMoves DEF DeleteHelper
  <2> QED
    BY <1>1, <1>2, <2>2, <2>3, <2>4, <2>5
       DEF RequestStep, LockAdmission, GetHelper, AdmitHelper, ReuseHelper, PollHelper
<1>3. ASSUME NEW m \in Names, PodStep(m) PROVE PodMove(n)
  <2>1. pods[m] # NoPod /\ pods[m] \in Pod
    BY <1>3 DEF PodStep, PodStarts, PodSucceeds, PodFails, PodDeleted, PodReaped, TypeOK
  <2>2. ASSUME NEW f \in Phases, pods' = [pods EXCEPT ![m].phase = f], ~podTerminal(pods[m]),
               f = "Succeeded" => pods[m].op \in succeeded'
        PROVE  PodMove(n)
    <3>1. CASE n # m
      BY <2>2, <3>1 DEF PodMove, TypeOK
    <3>2. CASE n = m
      <4>1. pods'[n] = [pods[n] EXCEPT !.phase = f]
        BY <2>2, <3>2 DEF TypeOK
      <4>2. pods'[n] \in Pod /\ pods'[n].op = pods[n].op
              /\ pods'[n].phase = f /\ pods'[n].terminating = pods[n].terminating
        BY <4>1, <2>1, <3>2 DEF Pod
      <4> QED
        BY <4>2, <2>1, <2>2, <3>2, NoPodAssumption DEF PodMove, Evolves
    <3> QED
      BY <3>1, <3>2
  <2>3. CASE PodStarts(m)
    BY <2>3, <2>2 DEF PodStarts, Phases, podTerminal, TerminalPhases
  <2>4. CASE PodSucceeds(m)
    BY <2>4, <2>2 DEF PodSucceeds, Phases, podTerminal, TerminalPhases
  <2>5. CASE PodFails(m)
    BY <2>5, <2>2 DEF PodFails, Phases
  <2>6. CASE PodDeleted(m)
    BY <2>6, DeletedMoves DEF PodDeleted
  <2>7. CASE PodReaped(m)
    BY <2>7 DEF PodReaped, PodMove, Vanishes, TypeOK
  <2> QED
    BY <1>3, <2>3, <2>4, <2>5, <2>6, <2>7 DEF PodStep
<1>4. ASSUME NEW o \in Ops, LateCreate(o) PROVE PodMove(n)
  <2>1. HelperName(o) \in Names
    BY NameType
  <2>2. pods' = Created(HelperName(o), o) /\ pods[HelperName(o)] = NoPod /\ o \in landed'
    BY <1>4 DEF LateCreate
  <2>3. CASE n # HelperName(o)
    BY <2>2, <2>3 DEF PodMove, Created, TypeOK
  <2>4. CASE n = HelperName(o)
    <3>1. pods'[n] = [op |-> o, phase |-> "Pending", terminating |-> FALSE]
      BY <2>1, <2>2, <2>4 DEF Created, TypeOK
    <3>2. pods'[n] \in Pod
      BY <3>1 DEF Pod, Phases
    <3>3. pods'[n].op = o /\ pods'[n].phase = "Pending"
      BY <3>1
    <3>4. pods'[n] # NoPod
      BY <3>2, NoPodAssumption
    <3>5. Lands(n)
      BY <2>2, <2>4, <3>3, <3>4, Zenon DEF Lands
    <3> QED
      BY <3>5 DEF PodMove
  <2> QED
    BY <2>3, <2>4
<1> QED
  BY <1>1, <1>2, <1>3, <1>4 DEF Next, vars, Start, Deadline, Crash, GhostExits

\* What a request step does to the calls: only r moves; it goes on with the same
\* operation or returns; only a live call passes a Get or a List; it waits for a
\* pod of its own operation, and reports what that pod's phase says.
CallMove(r) ==
    /\ pc[r] # "idle"
    /\ \A q \in Requests \ {r} :
         /\ pc'[q] = pc[q] /\ op'[q] = op[q]
         /\ cancelled'[q] = cancelled[q] /\ err'[q] = err[q]
    /\ pc'[r] # "idle" => op'[r] = op[r] /\ cancelled'[r] = cancelled[r]
    /\ pc'[r] \in Locked \ {"get"} => ~cancelled[r] /\ pc[r] \in Locked
    /\ pc'[r] = "get" => pc[r] = "lock"
    /\ pc'[r] = "create" => pc[r] = "list" /\ Admissible(r) /\ UNCHANGED pods
    /\ pc'[r] = "force" => UNCHANGED pods /\ pods[Name(r)].terminating
    /\ pc'[r] = "retire" => UNCHANGED pods /\ podTerminal(pods[Name(r)])
    /\ pc'[r] = "poll" => /\ pc[r] \in Locked
                          /\ pods'[Name(r)] # NoPod
                          /\ pods'[Name(r)].op = op[r]
    /\ pc'[r] = "cleanup" => /\ Waiting(r)
                             /\ pods[Name(r)] # NoPod /\ podTerminal(pods[Name(r)])
                             /\ UNCHANGED pods
                             /\ err'[r] = "nil" => pods[Name(r)].phase = "Succeeded"
    /\ okd' \subseteq okd \cup
         (IF pc[r] = "cleanup" /\ err[r] = "nil" THEN {op[r]} ELSE {})
    /\ succeeded' = succeeded
    /\ \A d \in Drivers \ {DriverOf[r]} : mu'[d] = mu[d]
    /\ \/ pc[r] = "lock" /\ mu[DriverOf[r]] = Free /\ mu'[DriverOf[r]] = r
       \/ pc[r] \in Locked /\ pc'[r] \in Locked /\ mu' = mu
       \/ pc[r] \in Locked /\ pc'[r] \notin Locked
       \/ pc[r] \in {"poll", "cleanup"} /\ pc'[r] \notin Locked /\ mu' = mu

\* A request's step moves its own call in one of the ways of CallMove, and leaves
\* the calls of the other requests alone.
LEMMA CallMoves ==
    ASSUME TypeOK, NEW r \in Requests, RequestStep(r)
    PROVE  CallMove(r)
<1> USE DEF TypeOK, Locked, Goto, Return, Refuse, Unlock, Joined, Proceed, Driver,
            CallWorks, CallMove
<1>0. DriverOf[r] \in Drivers
  BY DriverAssumption
<1>1. CASE LockAdmission(r)
  BY <1>1, <1>0 DEF LockAdmission
<1>2. ASSUME pods[Name(r)] # NoPod, UseExistingHelper(r, pods[Name(r)]), ~cancelled[r],
             UNCHANGED <<pods, err, succeeded, okd>>, pc[r] \in {"get", "reget"}
      PROVE  CallMove(r)
  BY <1>2, <1>0 DEF UseExistingHelper
<1>3. CASE GetHelper(r)
  BY <1>3, <1>2, <1>0 DEF GetHelper
<1>4. CASE AdmitHelper(r)
  BY <1>4, <1>0 DEF AdmitHelper
<1>5. CASE CreateHelper(r)
  <2>1. Name(r) \in Names
    BY <1>5, NameType DEF CreateHelper, Name
  <2>2. pods' = Created(Name(r), op[r]) =>
          pods'[Name(r)] # NoPod /\ pods'[Name(r)].op = op[r]
    <3>1. [op |-> op[r], phase |-> "Pending", terminating |-> FALSE] \in Pod
      BY <1>5 DEF CreateHelper, Pod, Phases
    <3>2. pods' = Created(Name(r), op[r]) =>
            pods'[Name(r)] = [op |-> op[r], phase |-> "Pending", terminating |-> FALSE]
      BY <2>1 DEF Created
    <3> QED
      BY <3>1, <3>2, NoPodAssumption
  <2> QED
    BY <1>5, <1>0, <2>2 DEF CreateHelper
<1>6. CASE ReuseHelper(r)
  BY <1>6, <1>2, <1>0 DEF ReuseHelper
<1>7. CASE ForceDeleteHelper(r)
  BY <1>7, <1>0 DEF ForceDeleteHelper
<1>8. CASE RetireHelper(r)
  BY <1>8, <1>0 DEF RetireHelper
<1>9. CASE PollHelper(r)
  BY <1>9, <1>0 DEF PollHelper, Waiting
<1>10. CASE DeleteHelper(r)
  BY <1>10, <1>0 DEF DeleteHelper
<1> QED
  BY <1>1, <1>3, <1>4, <1>5, <1>6, <1>7, <1>8, <1>9, <1>10 DEF RequestStep

\* The steps that are not a request's leave every call where it is, except that a
\* call may start, run out of time, or die with its process.
LEMMA OtherMoves ==
    ASSUME TypeOK, [Next]_vars, ~ \E r \in Requests : RequestStep(r)
    PROVE  /\ okd' = okd
           /\ succeeded \subseteq succeeded'
           /\ \/ UNCHANGED <<pc, op, cancelled, err, mu>>
              \/ \E r \in Requests, o \in Ops : Start(r, o)
              \/ \E r \in Requests : Deadline(r)
              \/ \E d \in Drivers : Crash(d)
<1>1. CASE \E n \in Names : PodStep(n)
  BY <1>1 DEF PodStep, PodStarts, PodSucceeds, PodFails, PodDeleted, PodReaped, frame
<1>2. CASE ~ \E n \in Names : PodStep(n)
  BY <1>2 DEF Next, vars, GhostExits, LateCreate, Start, Deadline, Crash, frame
<1> QED
  BY <1>1, <1>2

\* A crash resets the calls of its process and leaves the others.
LEMMA CrashMoves ==
    ASSUME TypeOK, NEW d \in Drivers, Crash(d), NEW r \in Requests
    PROVE  /\ DriverOf[r] = d => pc'[r] = "idle"
           /\ DriverOf[r] # d => /\ pc'[r] = pc[r] /\ op'[r] = op[r]
                                /\ cancelled'[r] = cancelled[r] /\ err'[r] = err[r]
                                /\ mu'[DriverOf[r]] = mu[DriverOf[r]]
           /\ pods' = pods /\ okd' = okd /\ succeeded' = succeeded
BY DriverAssumption DEF Crash, TypeOK

-----------------------------------------------------------------------------
(* Mutual exclusion.                                                         *)

\* Every step keeps the mutex with the request inside ensureHelper.
LEMMA MutexStep ==
    ASSUME TypeOK, MutexInv, [Next]_vars
    PROVE  MutexInv'
<1> SUFFICES ASSUME NEW q \in Requests, pc'[q] \in Locked PROVE mu'[DriverOf[q]] = q
  BY DEF MutexInv
<1>0. DriverOf[q] \in Drivers
  BY DriverAssumption
<1>1. ASSUME NEW r \in Requests, RequestStep(r) PROVE mu'[DriverOf[q]] = q
  <2>0. CallMove(r) /\ DriverOf[r] \in Drivers
    BY <1>1, CallMoves, DriverAssumption
  <2>1. CASE q = r
    BY <2>0, <2>1 DEF CallMove, MutexInv, Locked
  <2>2. CASE q # r
    <3>1. pc[q] \in Locked /\ mu[DriverOf[q]] = q
      BY <2>0, <2>2 DEF CallMove, MutexInv
    <3>2. CASE DriverOf[q] # DriverOf[r]
      BY <2>0, <3>1, <3>2, <1>0 DEF CallMove
    <3>3. CASE DriverOf[q] = DriverOf[r]
      <4>1. pc[r] \notin Locked /\ mu[DriverOf[r]] # Free
        BY <3>1, <3>3, <2>2, DriverAssumption DEF MutexInv
      <4> QED
        BY <4>1, <3>1, <2>0, <3>3 DEF CallMove
    <3> QED
      BY <3>2, <3>3
  <2> QED
    BY <2>1, <2>2
<1>2. CASE \E r \in Requests, o \in Ops : Start(r, o)
  BY <1>2 DEF Start, Goto, MutexInv, TypeOK, Locked
<1>3. CASE \E r \in Requests : Deadline(r)
  BY <1>3 DEF Deadline, MutexInv
<1>4. CASE \E d \in Drivers : Crash(d)
  BY <1>4, CrashMoves DEF MutexInv, Locked
<1>5. CASE UNCHANGED <<pc, op, cancelled, err, mu>>
  BY <1>5 DEF MutexInv
<1> QED
  BY <1>1, <1>2, <1>3, <1>4, <1>5, OtherMoves

\* Under one process at most one request is inside ensureHelper.
LEMMA OneInside ==
    ASSUME TypeOK, MutexInv, OneDriver, NEW r \in Requests, NEW q \in Requests,
           pc[r] \in Locked, pc[q] \in Locked
    PROVE  r = q
BY DEF MutexInv, OneDriver

-----------------------------------------------------------------------------
(* The pods.                                                                 *)

\* The history of successes only grows.
LEMMA SucceededGrows ==
    ASSUME TypeOK, [Next]_vars
    PROVE  succeeded \subseteq succeeded'
<1>1. CASE \E r \in Requests : RequestStep(r)
  BY <1>1, CallMoves DEF CallMove
<1> QED
  BY <1>1, OtherMoves

\* So does the history of late creates.
LEMMA LandedGrows ==
    ASSUME TypeOK, [Next]_vars
    PROVE  landed \subseteq landed'
<1> USE DEF lost
<1>1. ASSUME NEW r \in Requests, RequestStep(r) PROVE landed' = landed
  BY <1>1 DEF RequestStep, LockAdmission, GetHelper, AdmitHelper, CreateHelper, ReuseHelper,
              ForceDeleteHelper, RetireHelper, PollHelper, DeleteHelper
<1>2. ASSUME NEW n \in Names, PodStep(n) PROVE landed' = landed
  BY <1>2 DEF PodStep, PodStarts, PodSucceeds, PodFails, PodDeleted, PodReaped
<1> QED
  BY <1>1, <1>2 DEF Next, vars, Start, Deadline, Crash, GhostExits, LateCreate

\* A pod that was made late remains so until it is gone.
LEMMA LateStays ==
    ASSUME TypeOK, [Next]_vars, NEW n \in Names, Late(n), pods'[n] # NoPod
    PROVE  Late(n)'
<1>1. PodMove(n) /\ landed \subseteq landed'
  BY PodMoves, LandedGrows
<1>2. pods'[n].op = pods[n].op
  BY <1>1 DEF PodMove, Appears, Lands, Vanishes, Evolves, Late
<1> QED
  BY <1>1, <1>2 DEF Late

\* A name once taken by a late create of another spec is marked for good.
LEMMA DisplacedStays ==
    ASSUME TypeOK, [Next]_vars, NEW o, Displaced(o)
    PROVE  Displaced(o)'
BY LandedGrows DEF Displaced

\* A pod that lands is late.
LEMMA LandsLate ==
    ASSUME NEW n, Lands(n)
    PROVE  Late(n)'
BY DEF Lands, Late

\* Every step keeps pods under the name of their operation, and their success on
\* record.
LEMMA PodStepInv ==
    ASSUME TypeOK, PodInv, [Next]_vars
    PROVE  PodInv'
<1> SUFFICES ASSUME NEW n \in Names, pods'[n] # NoPod
             PROVE  /\ HelperName(pods'[n].op) = n
                    /\ pods'[n].phase = "Succeeded" => pods'[n].op \in succeeded'
  BY DEF PodInv
<1>1. PodMove(n) /\ succeeded \subseteq succeeded'
  BY PodMoves, SucceededGrows
<1>2. CASE pods'[n] = pods[n]
  BY <1>1, <1>2 DEF PodInv
<1>3. CASE Appears(n)
  BY <1>3 DEF Appears, Name
<1>4. CASE Evolves(n)
  BY <1>1, <1>4 DEF Evolves, PodInv
<1>5. CASE Lands(n)
  BY <1>5 DEF Lands
<1> QED
  BY <1>1, <1>2, <1>3, <1>4, <1>5 DEF PodMove, Vanishes

\* With one process no pod appears under a request that is about to delete one,
\* but by a late create, so the pod it read is gone or still condemned.
LEMMA CondemnedStep ==
    ASSUME TypeOK, MutexInv, CondemnedInv, [Next]_vars
    PROVE  CondemnedInv'
<1> SUFFICES ASSUME OneDriver, NEW q \in Requests, pc'[q] \in {"force", "retire"}
             PROVE  /\ pc'[q] = "force" /\ pods'[Name(q)'] # NoPod
                          => pods'[Name(q)'].terminating \/ Late(Name(q))'
                    /\ pc'[q] = "retire" /\ pods'[Name(q)'] # NoPod
                          => podTerminal(pods'[Name(q)']) \/ Late(Name(q))'
  BY DEF CondemnedInv
<1>1. ASSUME pc'[q] = pc[q], op'[q] = op[q]
      PROVE  /\ pc'[q] = "force" /\ pods'[Name(q)'] # NoPod
                   => pods'[Name(q)'].terminating \/ Late(Name(q))'
             /\ pc'[q] = "retire" /\ pods'[Name(q)'] # NoPod
                   => podTerminal(pods'[Name(q)']) \/ Late(Name(q))'
  <2>1. Name(q)' = Name(q) /\ Name(q) \in Names
    BY <1>1, NameType DEF Name, TypeOK
  <2>2. PodMove(Name(q))
    BY <2>1, PodMoves
  <2>3. ~Appears(Name(q))
    BY <1>1, OneInside DEF Appears, Locked
  <2>4. CASE Late(Name(q))
    <3>1. pods'[Name(q)] # NoPod => Late(Name(q))'
      BY <2>1, <2>4, LateStays DEF Late
    <3> QED
      BY <2>1, <3>1
  <2>5. CASE Lands(Name(q))
    BY <2>1, <2>5 DEF Lands, Late
  <2>6. CASE ~Late(Name(q)) /\ ~Lands(Name(q))
    BY <1>1, <2>1, <2>2, <2>3, <2>6
       DEF PodMove, Vanishes, Evolves, CondemnedInv, podTerminal
  <2> QED
    BY <2>4, <2>5, <2>6
<1>2. ASSUME NEW r \in Requests, RequestStep(r), pc'[q] # pc[q] \/ op'[q] # op[q]
      PROVE  /\ pc'[q] = "force" /\ pods'[Name(q)'] # NoPod
                   => pods'[Name(q)'].terminating \/ Late(Name(q))'
             /\ pc'[q] = "retire" /\ pods'[Name(q)'] # NoPod
                   => podTerminal(pods'[Name(q)']) \/ Late(Name(q))'
  BY <1>2, CallMoves DEF CallMove, Name
<1>3. ASSUME NEW r \in Requests, NEW o \in Ops, Start(r, o)
      PROVE  pc'[q] = pc[q] /\ op'[q] = op[q]
  BY <1>3 DEF Start, Goto, TypeOK
<1>4. ASSUME NEW r \in Requests, Deadline(r)
      PROVE  pc'[q] = pc[q] /\ op'[q] = op[q]
  BY <1>4 DEF Deadline
<1>5. ASSUME NEW d \in Drivers, Crash(d)
      PROVE  pc'[q] = pc[q] /\ op'[q] = op[q]
  BY <1>5, CrashMoves
<1> QED
  BY <1>1, <1>2, <1>3, <1>4, <1>5, OtherMoves

-----------------------------------------------------------------------------
(* What an OK means.                                                         *)

\* Two calls for one name are never both live.
LEMMA SerialStep1 ==
    ASSUME TypeOK, SerialInv, [Next]_vars, COSerialised, OneDriver,
           NEW r \in Requests, NEW q \in Requests, r # q,
           pc'[r] # "idle", pc'[q] # "idle", Name(r)' = Name(q)'
    PROVE  cancelled'[r] \/ cancelled'[q]
<1>0. pc[r] # "idle" /\ pc[q] # "idle" /\ Name(r) = Name(q)
        => cancelled[r] \/ cancelled[q]
  BY DEF SerialInv
<1>1. ASSUME NEW t \in Requests, RequestStep(t) PROVE cancelled'[r] \/ cancelled'[q]
  BY <1>0, <1>1, CallMoves DEF CallMove, Name
<1>2. ASSUME NEW t \in Requests, NEW o \in Ops, Start(t, o)
      PROVE  cancelled'[r] \/ cancelled'[q]
  <2>1. \A p \in Requests : p # t => pc'[p] = pc[p] /\ op'[p] = op[p]
    BY <1>2 DEF Start, Goto, TypeOK
  <2>2. op'[t] = o /\ cancelled' = cancelled
    BY <1>2 DEF Start, TypeOK
  <2>3. \A p \in Requests : pc[p] # "idle" /\ Name(p) = HelperName(o) => cancelled[p]
    BY <1>2 DEF Start
  <2> QED
    BY <1>0, <2>1, <2>2, <2>3 DEF Name
<1>3. ASSUME NEW t \in Requests, Deadline(t) PROVE cancelled'[r] \/ cancelled'[q]
  BY <1>0, <1>3 DEF Deadline, TypeOK, Name
<1>4. ASSUME NEW d \in Drivers, Crash(d) PROVE cancelled'[r] \/ cancelled'[q]
  BY <1>0, <1>4, CrashMoves DEF Name
<1>5. CASE UNCHANGED <<pc, op, cancelled, err, mu>>
  BY <1>0, <1>5 DEF Name
<1> QED
  BY <1>1, <1>2, <1>3, <1>4, <1>5, OtherMoves

\* Where a waiting call comes from: it waited before, or it has just left
\* ensureHelper with a pod of its own operation.
LEMMA WaitingMoves ==
    ASSUME TypeOK, [Next]_vars, NEW r \in Requests, Waiting(r)'
    PROVE  \/ Waiting(r) /\ op'[r] = op[r]
           \/ /\ RequestStep(r)
              /\ pc[r] \in Locked
              /\ op'[r] = op[r]
              /\ pods'[Name(r)].op = op[r]
<1>1. ASSUME NEW t \in Requests, RequestStep(t), t # r PROVE Waiting(r) /\ op'[r] = op[r]
  BY <1>1, CallMoves DEF CallMove, Waiting
<1>2. CASE RequestStep(r)
  BY <1>2, CallMoves DEF CallMove, Waiting
<1>3. ASSUME NEW t \in Requests, NEW o \in Ops, Start(t, o)
      PROVE  Waiting(r) /\ op'[r] = op[r]
  BY <1>3 DEF Start, Goto, TypeOK, Waiting
<1>4. ASSUME NEW t \in Requests, Deadline(t) PROVE Waiting(r) /\ op'[r] = op[r]
  BY <1>4 DEF Deadline, TypeOK, Waiting
<1>5. ASSUME NEW d \in Drivers, Crash(d) PROVE Waiting(r) /\ op'[r] = op[r]
  BY <1>5, CrashMoves DEF Waiting
<1>6. CASE UNCHANGED <<pc, op, cancelled, err, mu>>
  BY <1>6 DEF Waiting
<1> QED
  BY <1>1, <1>2, <1>3, <1>4, <1>5, <1>6, OtherMoves

\* Where a call past the first Get of ensureHelper comes from.
LEMMA InsideMoves ==
    ASSUME TypeOK, [Next]_vars, NEW q \in Requests, pc'[q] \in Locked \ {"get"}
    PROVE  /\ op'[q] = op[q]
           /\ pc[q] \in Locked
           /\ pc[q] = "get" => ~cancelled[q] /\ RequestStep(q)
<1>1. ASSUME NEW t \in Requests, RequestStep(t), t # q
      PROVE  op'[q] = op[q] /\ pc[q] \in Locked \ {"get"}
  BY <1>1, CallMoves DEF CallMove
<1>2. CASE RequestStep(q)
  BY <1>2, CallMoves DEF CallMove, Locked
<1>3. ASSUME NEW t \in Requests, NEW o \in Ops, Start(t, o)
      PROVE  op'[q] = op[q] /\ pc[q] \in Locked \ {"get"}
  BY <1>3 DEF Start, Goto, TypeOK, Locked
<1>4. ASSUME NEW t \in Requests, Deadline(t)
      PROVE  op'[q] = op[q] /\ pc[q] \in Locked \ {"get"}
  BY <1>4 DEF Deadline
<1>5. ASSUME NEW d \in Drivers, Crash(d)
      PROVE  op'[q] = op[q] /\ pc[q] \in Locked \ {"get"}
  BY <1>5, CrashMoves DEF Locked
<1>6. CASE UNCHANGED <<pc, op, cancelled, err, mu>>
  BY <1>6
<1> QED
  BY <1>1, <1>2, <1>3, <1>4, <1>5, <1>6, OtherMoves

\* Where a call that cleans up comes from: it did so before, or has just read the
\* end of the pod it waited for.
LEMMA CleanupMoves ==
    ASSUME TypeOK, [Next]_vars, NEW r \in Requests, pc'[r] = "cleanup", err'[r] = "nil"
    PROVE  /\ op'[r] = op[r]
           /\ \/ pc[r] = "cleanup" /\ err[r] = "nil"
              \/ /\ Waiting(r)
                 /\ pods[Name(r)] # NoPod
                 /\ pods[Name(r)].phase = "Succeeded"
<1>1. ASSUME NEW t \in Requests, RequestStep(t), t # r
      PROVE  op'[r] = op[r] /\ pc[r] = "cleanup" /\ err[r] = "nil"
  BY <1>1, CallMoves DEF CallMove
<1>2. CASE RequestStep(r)
  BY <1>2, CallMoves DEF CallMove
<1>3. ASSUME NEW t \in Requests, NEW o \in Ops, Start(t, o)
      PROVE  op'[r] = op[r] /\ pc[r] = "cleanup" /\ err[r] = "nil"
  BY <1>3 DEF Start, Goto, TypeOK
<1>4. ASSUME NEW t \in Requests, Deadline(t)
      PROVE  op'[r] = op[r] /\ pc[r] = "cleanup" /\ err[r] = "nil"
  BY <1>4 DEF Deadline
<1>5. ASSUME NEW d \in Drivers, Crash(d)
      PROVE  op'[r] = op[r] /\ pc[r] = "cleanup" /\ err[r] = "nil"
  BY <1>5, CrashMoves
<1>6. CASE UNCHANGED <<pc, op, cancelled, err, mu>>
  BY <1>6
<1> QED
  BY <1>1, <1>2, <1>3, <1>4, <1>5, <1>6, OtherMoves

\* With one process and a serialised CO, every step keeps what a waiting call may
\* rely on.
LEMMA SerialStep ==
    ASSUME TypeOK, MutexInv, PodInv, SerialInv, [Next]_vars
    PROVE  SerialInv'
<1> SUFFICES ASSUME COSerialised, OneDriver
             PROVE
        /\ \A r, q \in Requests :
              r # q /\ pc'[r] # "idle" /\ pc'[q] # "idle" /\ Name(r)' = Name(q)'
                => cancelled'[r] \/ cancelled'[q]
        /\ \A r, q \in Requests :
              Waiting(r)' /\ pc'[q] \in Locked \ {"get"} => Name(q)' # Name(r)'
        /\ \A r \in Requests :
              Waiting(r)' /\ pods'[Name(r)'] # NoPod =>
                pods'[Name(r)'].op = op'[r] \/ Late(Name(r))'
        /\ \A r \in Requests :
              pc'[r] = "cleanup" /\ err'[r] = "nil" =>
                op'[r] \in succeeded' \/ Displaced(op[r])'
        /\ \A o \in okd' : o \in succeeded' \/ Displaced(o)'
  BY DEF SerialInv
<1>1. \A r, q \in Requests :
        r # q /\ pc'[r] # "idle" /\ pc'[q] # "idle" /\ Name(r)' = Name(q)'
          => cancelled'[r] \/ cancelled'[q]
  BY SerialStep1
<1>2. ASSUME NEW r \in Requests, NEW q \in Requests,
             Waiting(r)', pc'[q] \in Locked \ {"get"}
      PROVE  Name(q)' # Name(r)'
  <2>1. op'[q] = op[q] /\ pc[q] \in Locked /\ (pc[q] = "get" => ~cancelled[q])
    BY <1>2, InsideMoves
  <2>2. r # q
    BY <1>2 DEF Waiting, Locked
  <2>3. CASE Waiting(r) /\ op'[r] = op[r]
    <3>1. Name(r)' = Name(r) /\ Name(q)' = Name(q)
      BY <2>1, <2>3 DEF Name
    <3>2. CASE pc[q] = "get"
      BY <2>1, <2>2, <2>3, <3>1, <3>2 DEF SerialInv, Waiting
    <3>3. CASE pc[q] # "get"
      BY <2>1, <2>3, <3>1, <3>3 DEF SerialInv
    <3> QED
      BY <3>2, <3>3
  <2>4. CASE pc[r] \in Locked
    BY <2>1, <2>2, <2>4, OneInside
  <2> QED
    BY <1>2, <2>3, <2>4, WaitingMoves
<1>3. ASSUME NEW r \in Requests, Waiting(r)', pods'[Name(r)'] # NoPod
      PROVE  pods'[Name(r)'].op = op'[r] \/ Late(Name(r))'
  <2>1. CASE Waiting(r) /\ op'[r] = op[r]
    <3>1. Name(r)' = Name(r) /\ Name(r) \in Names
      BY <2>1, NameType DEF Name, Waiting, TypeOK
    <3>2. ~Appears(Name(r))
      BY <2>1 DEF Appears, SerialInv, Locked
    <3>3. PodMove(Name(r))
      BY <3>1, PodMoves
    <3>4. CASE Late(Name(r))
      <4>1. Late(Name(r))'
        BY <1>3, <3>1, <3>4, LateStays DEF Late
      <4> QED
        BY <4>1
    <3>5. CASE Lands(Name(r))
      BY <3>1, <3>5 DEF Lands, Late
    <3>6. CASE ~Late(Name(r)) /\ ~Lands(Name(r))
      BY <1>3, <2>1, <3>1, <3>2, <3>3, <3>6 DEF PodMove, Vanishes, Evolves, SerialInv
    <3> QED
      BY <3>4, <3>5, <3>6
  <2> QED
    BY <1>3, <2>1, WaitingMoves DEF Name
<1>4. ASSUME NEW r \in Requests, pc'[r] = "cleanup", err'[r] = "nil"
      PROVE  op'[r] \in succeeded' \/ Displaced(op[r])'
  <2>1. op[r] \in succeeded \/ Displaced(op[r])
    <3>1. CASE pc[r] = "cleanup" /\ err[r] = "nil"
      BY <3>1 DEF SerialInv
    <3>2. CASE Waiting(r) /\ pods[Name(r)] # NoPod /\ pods[Name(r)].phase = "Succeeded"
      <4>1. Name(r) \in Names
        BY <3>2, NameType DEF Name, Waiting, TypeOK
      <4> QED
        BY <3>2, <4>1 DEF SerialInv, PodInv, Late, Displaced, Name
    <3> QED
      BY <1>4, <3>1, <3>2, CleanupMoves
  <2>2. op'[r] = op[r]
    BY <1>4, CleanupMoves
  <2> QED
    BY <2>1, <2>2, LandedGrows, SucceededGrows DEF Displaced
<1>5. ASSUME NEW o \in okd' PROVE o \in succeeded' \/ Displaced(o)'
  <2>1. o \in succeeded \/ Displaced(o)
    <3>1. CASE \E r \in Requests : RequestStep(r)
      <4>1. PICK r \in Requests : RequestStep(r)
        BY <3>1
      <4> QED
        BY <1>5, <4>1, CallMoves DEF CallMove, SerialInv
    <3> QED
      BY <1>5, <3>1, OtherMoves DEF SerialInv
  <2> QED
    BY <2>1, DisplacedStays, SucceededGrows
<1> QED
  BY <1>1, <1>2, <1>3, <1>4, <1>5

\* Where a live call that cleans up comes from: it did so before, or has just read
\* the end of its pod.
LEMMA CleaningMoves ==
    ASSUME TypeOK, [Next]_vars, NEW r \in Requests, Cleaning(r)'
    PROVE  /\ op'[r] = op[r]
           /\ \/ Cleaning(r)
              \/ /\ Waiting(r)
                 /\ \A q \in Requests \ {r} : pc'[q] = pc[q] /\ op'[q] = op[q]
                 /\ podTerminal(pods[Name(r)])
                 /\ UNCHANGED pods
<1>1. ASSUME NEW t \in Requests, RequestStep(t), t # r PROVE Cleaning(r) /\ op'[r] = op[r]
  BY <1>1, CallMoves DEF CallMove, Cleaning
<1>2. CASE RequestStep(r)
  <2>1. CallMove(r) /\ pc'[r] = "cleanup"
    BY <1>2, CallMoves DEF Cleaning
  <2>. QED
    BY <2>1, Zenon DEF CallMove
<1>3. ASSUME NEW t \in Requests, NEW o \in Ops, Start(t, o)
      PROVE  Cleaning(r) /\ op'[r] = op[r]
  BY <1>3 DEF Start, Goto, TypeOK, Cleaning
<1>4. ASSUME NEW t \in Requests, Deadline(t) PROVE Cleaning(r) /\ op'[r] = op[r]
  BY <1>4 DEF Deadline, TypeOK, Cleaning
<1>5. ASSUME NEW d \in Drivers, Crash(d) PROVE Cleaning(r) /\ op'[r] = op[r]
  BY <1>5, CrashMoves DEF Cleaning
<1>6. CASE UNCHANGED <<pc, op, cancelled, err, mu>>
  BY <1>6 DEF Cleaning
<1> QED
  BY <1>1, <1>2, <1>3, <1>4, <1>5, <1>6, OtherMoves

\* With one process and a serialised CO, every step keeps what the cleanup relies on.
LEMMA CleanupStep ==
    ASSUME TypeOK, MutexInv, SerialInv, CleanupInv, [Next]_vars
    PROVE  CleanupInv'
<1> SUFFICES ASSUME COSerialised, OneDriver, NEW r \in Requests, Cleaning(r)'
             PROVE  /\ \A q \in Requests :
                         pc'[q] \in Locked \ {"get"} => Name(q)' # Name(r)'
                    /\ pods'[Name(r)'] # NoPod =>
                         podTerminal(pods'[Name(r)']) \/ Late(Name(r))'
  BY DEF CleanupInv, podTerminal
<1>1. Name(r)' = Name(r) /\ Name(r) \in Names
  BY CleaningMoves, NameType DEF Name, Cleaning, Waiting, TypeOK
<1>2. CASE Cleaning(r)
  <2>1. ASSUME NEW q \in Requests, pc'[q] \in Locked \ {"get"} PROVE Name(q)' # Name(r)'
    <3>1. Name(q)' = Name(q) /\ pc[q] \in Locked /\ (pc[q] = "get" => ~cancelled[q])
      BY <2>1, InsideMoves DEF Name
    <3>2. r # q
      BY <1>2, <3>1 DEF Cleaning, Locked
    <3>. QED
      BY <1>1, <1>2, <3>1, <3>2 DEF CleanupInv, SerialInv, Cleaning, Locked
  <2>2. ~Appears(Name(r))
    BY <1>2 DEF Appears, CleanupInv, Locked
  <2>3. PodMove(Name(r))
    BY <1>1, PodMoves
  <2>4. pods'[Name(r)'] # NoPod => podTerminal(pods'[Name(r)']) \/ Late(Name(r))'
    <3>1. CASE Late(Name(r))
      <4>1. pods'[Name(r)] # NoPod => Late(Name(r))'
        BY <1>1, <3>1, LateStays DEF Late
      <4> QED
        BY <1>1, <4>1
    <3>2. CASE Lands(Name(r))
      BY <1>1, <3>2 DEF Lands, Late
    <3>3. CASE ~Late(Name(r)) /\ ~Lands(Name(r))
      BY <1>1, <1>2, <2>2, <2>3, <3>3 DEF PodMove, Vanishes, Evolves, CleanupInv, podTerminal
    <3>. QED
      BY <3>1, <3>2, <3>3
  <2>. QED
    BY <1>1, <2>1, <2>4
<1>3. CASE ~Cleaning(r)
  <2>1. /\ Waiting(r) /\ podTerminal(pods[Name(r)]) /\ UNCHANGED pods
        /\ \A q \in Requests \ {r} : pc'[q] = pc[q] /\ op'[q] = op[q]
    BY <1>3, CleaningMoves
  <2>2. ASSUME NEW q \in Requests, pc'[q] \in Locked \ {"get"} PROVE Name(q)' # Name(r)'
    <3>1. q # r
      BY <2>2 DEF Cleaning, Locked
    <3>. QED
      BY <1>1, <2>1, <2>2, <3>1 DEF SerialInv, Name
  <2>. QED
    BY <1>1, <2>1, <2>2
<1>. QED
  BY <1>2, <1>3

-----------------------------------------------------------------------------
(* Admission.                                                                *)

\* While a request of some process is inside ensureHelper and not at the create,
\* the other processes account for all the helpers that are about to appear.
LEMMA PendingCount ==
    ASSUME TypeOK, MutexInv, NEW node, NEW vg, NEW r \in Requests,
           pc[r] \in Locked, pc[r] # "create"
    PROVE  Cardinality(PendingNames(node, vg)) <= Cardinality(Drivers) - 1
<1> DEFINE P == PendingNames(node, vg)
           D == {d \in Drivers : mu[d] \in Requests /\ pc[mu[d]] = "create"
                                  /\ Name(mu[d]) \in P}
           f == [d \in D |-> Name(mu[d])]
<1>1. D \subseteq Drivers \ {DriverOf[r]}
  BY DEF MutexInv
<1>2. /\ IsFiniteSet(Drivers \ {DriverOf[r]})
      /\ Cardinality(Drivers \ {DriverOf[r]}) = Cardinality(Drivers) - 1
  BY DriverAssumption, FS_RemoveElement
<1>3. IsFiniteSet(D) /\ Cardinality(D) <= Cardinality(Drivers) - 1
  BY <1>1, <1>2, FS_Subset
<1>4. ASSUME NEW n \in P PROVE \E d \in D : f[d] = n
  <2>1. PICK q \in Requests : pc[q] = "create" /\ Name(q) = n
    BY <1>4 DEF PendingNames
  <2>2. DriverOf[q] \in Drivers /\ mu[DriverOf[q]] = q
    BY <2>1, DriverAssumption DEF MutexInv, Locked
  <2>3. DriverOf[q] \in D
    BY <1>4, <2>1, <2>2
  <2> QED
    BY <2>1, <2>2, <2>3
<1>5. f \in Surjection(D, P)
  <2>1. f \in [D -> P]
    OBVIOUS
  <2> HIDE DEF D, P, f
  <2> QED
    BY <2>1, <1>4 DEF Surjection
<1>6. Cardinality(P) <= Cardinality(D)
  <2> HIDE DEF D, P, f
  <2> QED
    BY <1>3, <1>5, FS_Surjection
<1>7. IsFiniteSet(P)
  <2> HIDE DEF D, P, f
  <2> QED
    BY <1>3, <1>5, FS_Surjection
<1>8. Cardinality(P) \in Nat /\ Cardinality(D) \in Nat /\ Cardinality(Drivers) \in Nat
  <2> HIDE DEF D, P, f
  <2> QED
    BY <1>3, <1>7, DriverAssumption, FS_CardinalityType
<1> HIDE DEF D, P, f
<1>9. Cardinality(P) <= Cardinality(Drivers) - 1
  BY <1>3, <1>6, <1>8
<1> QED
  BY <1>9 DEF P

\* Where a call that is about to create a pod comes from.
LEMMA CreateMoves ==
    ASSUME TypeOK, [Next]_vars, NEW r \in Requests, pc'[r] = "create"
    PROVE  /\ op'[r] = op[r]
           /\ \/ pc[r] = "create"
              \/ RequestStep(r) /\ pc[r] = "list" /\ Admissible(r) /\ UNCHANGED pods
<1>1. ASSUME NEW t \in Requests, RequestStep(t), t # r
      PROVE  op'[r] = op[r] /\ pc[r] = "create"
  BY <1>1, CallMoves DEF CallMove
<1>2. CASE RequestStep(r)
  BY <1>2, CallMoves DEF CallMove
<1>3. ASSUME NEW t \in Requests, NEW o \in Ops, Start(t, o)
      PROVE  op'[r] = op[r] /\ pc[r] = "create"
  BY <1>3 DEF Start, Goto, TypeOK
<1>4. ASSUME NEW t \in Requests, Deadline(t)
      PROVE  op'[r] = op[r] /\ pc[r] = "create"
  BY <1>4 DEF Deadline
<1>5. ASSUME NEW d \in Drivers, Crash(d)
      PROVE  op'[r] = op[r] /\ pc[r] = "create"
  BY <1>5, CrashMoves
<1>6. CASE UNCHANGED <<pc, op, cancelled, err, mu>>
  BY <1>6
<1> QED
  BY <1>1, <1>2, <1>3, <1>4, <1>5, <1>6, OtherMoves

\* A pod becomes active only where a request was about to create it.
LEMMA ActiveMoves ==
    ASSUME TypeOK, [Next]_vars, NEW node, NEW vg
    PROVE  AdmittedNames(node, vg)' \subseteq
             AdmittedNames(node, vg) \cup PendingNames(node, vg)
<1> SUFFICES ASSUME NEW n \in AdmittedNames(node, vg)'
             PROVE  n \in AdmittedNames(node, vg) \/ n \in PendingNames(node, vg)
  OBVIOUS
<1>1. n \in Names /\ pods'[n] # NoPod /\ ~podTerminal(pods'[n])
        /\ pods'[n].op.node = node /\ vg \in HelperVGs(pods'[n].op)
  BY DEF AdmittedNames, ActiveNames
<1>0. ~Late(n)' /\ ~Late(n)
  BY <1>1, LateStays DEF AdmittedNames
<1>2. PodMove(n) /\ ~Lands(n)
  BY <1>0, <1>1, PodMoves, LandsLate
<1>3. CASE pods'[n] = pods[n]
  BY <1>0, <1>1, <1>3 DEF AdmittedNames, ActiveNames
<1>4. CASE Appears(n)
  <2>1. PICK r \in Requests : pc[r] = "create" /\ Name(r) = n /\ pods'[n].op = op[r]
    BY <1>4 DEF Appears
  <2> QED
    BY <1>1, <2>1 DEF PendingNames
<1>5. CASE Evolves(n)
  BY <1>0, <1>1, <1>5 DEF Evolves, AdmittedNames, ActiveNames, podTerminal
<1> QED
  BY <1>1, <1>2, <1>3, <1>4, <1>5 DEF PodMove, Vanishes

\* Every step keeps the active and the admitted helpers within the bound: the
\* request that is admitted counted all but those of the other processes.
LEMMA AdmissionStep ==
    ASSUME TypeOK, MutexInv, AdmissionInv, [Next]_vars
    PROVE  AdmissionInv'
<1> SUFFICES ASSUME NEW node \in Nodes, NEW vg \in VGs
             PROVE  Cardinality(AdmittedNames(node, vg)' \cup PendingNames(node, vg)')
                      <= MaxActive + Cardinality(Drivers) - 1
  BY DEF AdmissionInv
<1> DEFINE A == AdmittedNames(node, vg)
           P == PendingNames(node, vg)
           Bound == MaxActive + Cardinality(Drivers) - 1
<1>1. A \subseteq Names /\ P \subseteq Names
  BY DEF AdmittedNames, ActiveNames, PendingNames
<1>2. IsFiniteSet(A) /\ IsFiniteSet(P) /\ IsFiniteSet(A \cup P)
  <2> HIDE DEF A, P
  <2> QED
    BY <1>1, NamesAssumption, FS_Subset
<1>3. A' \subseteq A \cup P
  BY ActiveMoves
<1>4. Cardinality(A \cup P) <= Bound
  BY DEF AdmissionInv
<1>5. CASE P' \subseteq A \cup P
  <2>1. A' \cup P' \in SUBSET (A \cup P)
    BY <1>3, <1>5
  <2>2. Cardinality(A' \cup P') <= Cardinality(A \cup P)
          /\ Cardinality(A' \cup P') \in Nat /\ Cardinality(A \cup P) \in Nat
    <3> HIDE DEF A, P
    <3> QED
      BY <2>1, <1>2, FS_Subset, FS_CardinalityType
  <2>3. Cardinality(Drivers) \in Nat
    BY DriverAssumption, FS_CardinalityType
  <2> QED
    BY <2>2, <2>3, <1>4, MaxActiveAssumption
<1>6. CASE ~(P' \subseteq A \cup P)
  <2>1. PICK n \in P' : n \notin A \cup P
    BY <1>6
  <2>2. PICK r \in Requests : /\ pc'[r] = "create" /\ Name(r)' = n
                              /\ op'[r].node = node /\ vg \in HelperVGs(op'[r])
    BY <2>1 DEF PendingNames
  <2>3. op'[r] = op[r] /\ Name(r) = n /\ n \in Names
    BY <2>1, <2>2, CreateMoves DEF Name, PendingNames
  <2>4. RequestStep(r) /\ pc[r] = "list" /\ Admissible(r) /\ UNCHANGED pods
    <3>1. pc[r] # "create"
      BY <2>1, <2>2, <2>3 DEF PendingNames
    <3> QED
      BY <2>2, <3>1, CreateMoves
  <2>6. P' \subseteq P \cup {n}
    <3> SUFFICES ASSUME NEW m \in P' PROVE m \in P \/ m = n
      OBVIOUS
    <3>1. PICK q \in Requests : /\ pc'[q] = "create" /\ Name(q)' = m
                                /\ op'[q].node = node /\ vg \in HelperVGs(op'[q])
      BY DEF PendingNames
    <3>2. CASE q = r
      BY <2>2, <3>1, <3>2
    <3>3. CASE q # r
      <4>1. pc[q] = "create" /\ op'[q] = op[q]
        BY <2>4, <3>1, <3>3, CallMoves DEF CallMove
      <4> QED
        BY <3>1, <4>1 DEF PendingNames, Name
    <3> QED
      BY <3>2, <3>3
  <2>7. Cardinality(A) < MaxActive
    <3> DEFINE B == ActiveNames(node, vg) \ {n}
    <3>1. Cardinality(B) < MaxActive
      BY <2>2, <2>3, <2>4 DEF Admissible
    <3>2. A \in SUBSET B /\ B \in SUBSET Names
      BY <2>1 DEF AdmittedNames, ActiveNames
    <3> HIDE DEF A, B
    <3>3. IsFiniteSet(B) /\ Cardinality(A) <= Cardinality(B)
      BY <3>2, NamesAssumption, FS_Subset
    <3>4. Cardinality(A) \in Nat /\ Cardinality(B) \in Nat
      BY <1>2, <3>3, FS_CardinalityType
    <3> QED
      BY <3>1, <3>3, <3>4, MaxActiveAssumption
  <2>9. Cardinality(P) <= Cardinality(Drivers) - 1
    BY <2>4, PendingCount DEF Locked
  <2> HIDE DEF A, P
  <2>10. IsFiniteSet(P \cup {n}) /\ Cardinality(P \cup {n}) = Cardinality(P) + 1
    BY <1>2, <2>1, FS_AddElement
  <2>11. /\ IsFiniteSet(A \cup (P \cup {n}))
         /\ Cardinality(A \cup (P \cup {n})) <= Cardinality(A) + Cardinality(P \cup {n})
    <3>1. IsFiniteSet(A \cap (P \cup {n}))
      BY <1>2, FS_Subset
    <3>2. Cardinality(A \cap (P \cup {n})) \in Nat /\ Cardinality(A) \in Nat
            /\ Cardinality(P \cup {n}) \in Nat
      BY <3>1, <1>2, <2>10, FS_CardinalityType
    <3>3. /\ IsFiniteSet(A \cup (P \cup {n}))
          /\ Cardinality(A \cup (P \cup {n})) =
               Cardinality(A) + Cardinality(P \cup {n}) - Cardinality(A \cap (P \cup {n}))
      BY <1>2, <2>10, FS_Union
    <3> QED
      BY <3>2, <3>3
  <2>12. Cardinality(A' \cup P') <= Cardinality(A \cup (P \cup {n}))
    <3>1. A' \cup P' \in SUBSET (A \cup (P \cup {n}))
      BY <1>3, <2>6
    <3> QED
      BY <3>1, <2>11, FS_Subset
  <2>13. /\ Cardinality(A) \in Nat /\ Cardinality(P) \in Nat
         /\ Cardinality(Drivers) \in Nat
         /\ Cardinality(A' \cup P') \in Nat
         /\ Cardinality(A \cup (P \cup {n})) \in Nat
    <3>1. A' \cup P' \in SUBSET (A \cup (P \cup {n}))
      BY <1>3, <2>6
    <3>2. IsFiniteSet(A' \cup P')
      BY <3>1, <2>11, FS_Subset
    <3> QED
      BY <3>2, <1>2, <2>11, DriverAssumption, FS_CardinalityType
  <2>14. Cardinality(A' \cup P') <= Bound
    BY <2>7, <2>9, <2>10, <2>11, <2>12, <2>13, MaxActiveAssumption
  <2> QED
    BY <2>14 DEF A, P
<1> QED
  BY <1>5, <1>6

-----------------------------------------------------------------------------
(* The theorems.                                                             *)

\* The initial state satisfies the inductive invariant.
LEMMA InitIInv == Init => IInv
<1> SUFFICES ASSUME Init PROVE IInv
  OBVIOUS
<1>1. TypeOK
  BY InitTypeOK
<1>2. MutexInv /\ PodInv /\ CondemnedInv /\ SerialInv /\ CleanupInv
  BY DEF Init, MutexInv, PodInv, CondemnedInv, SerialInv, CleanupInv, Waiting, Cleaning, Locked
<1>3. AdmissionInv
  <2> SUFFICES ASSUME NEW node \in Nodes, NEW vg \in VGs
               PROVE  Cardinality(AdmittedNames(node, vg) \cup PendingNames(node, vg))
                        <= MaxActive + Cardinality(Drivers) - 1
    BY DEF AdmissionInv
  <2>1. AdmittedNames(node, vg) \cup PendingNames(node, vg) = {}
    BY DEF Init, AdmittedNames, ActiveNames, PendingNames
  <2>2. Cardinality({}) = 0
    BY FS_EmptySet
  <2>3. Cardinality(Drivers) \in Nat
    BY DriverAssumption, FS_CardinalityType
  <2>4. Cardinality(AdmittedNames(node, vg) \cup PendingNames(node, vg)) = 0
    BY <2>1, <2>2, Zenon
  <2> QED
    BY <2>3, <2>4, MaxActiveAssumption
<1> QED
  BY <1>1, <1>2, <1>3 DEF IInv

\* Every step preserves the inductive invariant.
LEMMA NextIInv == IInv /\ [Next]_vars => IInv'
BY NextTypeOK, MutexStep, PodStepInv, CondemnedStep, SerialStep, CleanupStep, AdmissionStep
   DEF IInv

\* The strengthening under which the properties below are inductive.
THEOREM Inductive == Spec => []IInv
BY InitIInv, NextIInv, PTL DEF Spec

\* The helpers of a node and volume group that have not ended, but for those made by a
\* create that outlived its call, never exceed the configured limit by more than the
\* number of further plugin processes.
THEOREM AdmissionBounded == Spec => []AdmissionBound
<1>1. IInv => AdmissionBound
  <2> SUFFICES ASSUME IInv, NEW node \in Nodes, NEW vg \in VGs
               PROVE  Cardinality(AdmittedNames(node, vg))
                        <= MaxActive + Cardinality(Drivers) - 1
    BY DEF AdmissionBound
  <2> DEFINE A == AdmittedNames(node, vg)
             P == PendingNames(node, vg)
  <2>1. A \in SUBSET (A \cup P) /\ A \cup P \in SUBSET Names
    BY DEF AdmittedNames, ActiveNames, PendingNames
  <2>2. Cardinality(A \cup P) <= MaxActive + Cardinality(Drivers) - 1
    BY DEF IInv, AdmissionInv
  <2> HIDE DEF A, P
  <2>3. IsFiniteSet(A \cup P)
    BY <2>1, NamesAssumption, FS_Subset
  <2>4. IsFiniteSet(A) /\ Cardinality(A) <= Cardinality(A \cup P)
    BY <2>1, <2>3, FS_Subset
  <2>5. Cardinality(A) \in Nat /\ Cardinality(A \cup P) \in Nat
          /\ Cardinality(Drivers) \in Nat
    BY <2>3, <2>4, DriverAssumption, FS_CardinalityType
  <2>6. Cardinality(A) <= MaxActive + Cardinality(Drivers) - 1
    BY <2>2, <2>4, <2>5, MaxActiveAssumption
  <2> QED
    BY <2>6 DEF A
<1> QED
  BY <1>1, Inductive, PTL

\* A call is answered with OK only after a helper with its spec has succeeded, unless a
\* late create of another spec took the helper's name.
THEOREM OkIsBacked == Spec => []OkBacked
<1>1. IInv => OkBacked
  BY DEF IInv, SerialInv, OkBacked
<1> QED
  BY <1>1, Inductive, PTL

\* With one process the deletes by name never remove a live helper pod that was created
\* under the mutex.
THEOREM NoLiveHelperVanishes == Spec => OnlyTerminatingVanish
<1>1. IInv /\ [Next]_vars =>
        [OneDriver =>
           \A n \in Names :
              pods[n] # NoPod /\ ~podTerminal(pods[n]) /\ pods'[n] = NoPod
                  => pods[n].terminating \/ Late(n)]_vars
  <2> SUFFICES ASSUME IInv, [Next]_vars, OneDriver, NEW n \in Names,
                      pods[n] # NoPod, ~podTerminal(pods[n]), pods'[n] = NoPod
               PROVE  pods[n].terminating \/ Late(n)
    OBVIOUS
  <2>0. TypeOK /\ PodMove(n)
    BY PodMoves DEF IInv
  <2>1. Vanishes(n)
    BY <2>0 DEF PodMove, Evolves, Appears, Lands
  <2> QED
    BY <2>1 DEF Vanishes, IInv, CondemnedInv
<1> QED
  BY <1>1, Inductive, PTL DEF Spec, OnlyTerminatingVanish

\* With one process and a serialised CO the cleanup of a call that is still awaited
\* deletes the pod whose end it has read, never one that is at work, unless a late create
\* made it.
THEOREM CleanupHitsItsOwn == Spec => CleanupSparesActive
<1>1. IInv /\ [Next]_vars =>
        [COSerialised /\ OneDriver =>
           \A r \in Requests :
              DeleteHelper(r) /\ ~cancelled[r]
              /\ pods[Name(r)] # NoPod /\ ~podTerminal(pods[Name(r)])
                  => pods'[Name(r)] = pods[Name(r)] \/ Late(Name(r))]_vars
  BY DEF IInv, CleanupInv, Cleaning, DeleteHelper
<1> QED
  BY <1>1, Inductive, PTL DEF Spec, CleanupSparesActive

=============================================================================

----------------------------- MODULE HelperPods -----------------------------
(***************************************************************************)
(* The helper-pod protocol of pkg/lvm/helper_pod.go.                       *)
(*                                                                         *)
(* A CSI controller call (CreateVolume, DeleteVolume, CreateSnapshot,      *)
(* DeleteSnapshot) does its LVM work in a short-lived pod.  runHelper      *)
(* finds, admits or creates the pod under the process-wide mutex           *)
(* helperAdmissionMu, waits for a terminal phase, and deletes the pod by   *)
(* name.  A call that runs out of time leaves its pod behind; a retry of   *)
(* the same operation computes the same pod name and rejoins it.           *)
(*                                                                         *)
(* Actors: the requests (gRPC handlers) of one or more plugin processes,   *)
(* the CO's deadlines, crashes of a plugin process, the Kubernetes API     *)
(* server and the kubelet.  One API call is one atomic step; between two   *)
(* calls of a request every other actor may move.                          *)
(***************************************************************************)
EXTENDS Integers, FiniteSets

CONSTANTS
    Requests,      \* handler slots; a slot is reused once its call returned
    Drivers,       \* plugin processes, each with its own helperAdmissionMu
    DriverOf,      \* the process that serves a slot
    Ops,           \* the helper operations the CO may ask for
    VGs,           \* volume groups
    Nodes,         \* Kubernetes nodes
    MaxActive,     \* HelperConfig.MaxActive
    COSerialised,  \* does the CO keep one live call per helper name?
    DeadlineAt,    \* the positions of a call at which its deadline may pass
    MaxFaults,     \* bound on faults in a behaviour
    NoPod,         \* "NotFound"
    NoOp,          \* an idle slot runs no operation
    Free           \* helperAdmissionMu is not held

(***************************************************************************)
(* An operation is what a volumeAction or a snapshotAction determines: its *)
(* resource, its action, the name, the node, the annotated volume group,   *)
(* the source volume group of a delete or a clone, and `args`, everything  *)
(* else that ends up in the pod spec (size, type, image, timeouts).        *)
(***************************************************************************)
Operation ==
    [resource : {"volume", "snapshot"}, action : {"create", "delete", "clone"},
     name : STRING, node : Nodes, vg : VGs, srcVG : VGs, args : STRING]

\* The pod name: "lvm-<action>-<name>" or "snap-<action>-<name>".
HelperName(o) == <<o.resource, o.action, o.name>>

\* The volume groups of a helper: its annotation, --vgname and --srcvgname.
HelperVGs(o) ==
    {o.vg} \cup
    (IF o.resource = "volume" /\ o.action \in {"delete", "clone"}
     THEN {o.srcVG} ELSE {})

Names == {HelperName(o) : o \in Ops}

Phases == {"Pending", "Running", "Succeeded", "Failed"}

Pod == [op : Ops, phase : Phases, terminating : BOOLEAN]

ASSUME OpsAssumption == Ops \subseteq Operation /\ NoOp \notin Ops
ASSUME DriverAssumption ==
    /\ IsFiniteSet(Drivers)
    /\ Drivers # {}
    /\ DriverOf \in [Requests -> Drivers]
    /\ Free \notin Requests
ASSUME NamesAssumption == IsFiniteSet(Names)
ASSUME NoPodAssumption == NoPod \notin Pod
\* loadHelperConfig refuses a limit that is not positive.
ASSUME MaxActiveAssumption == MaxActive \in Nat \ {0}
ASSUME FlagsAssumption == COSerialised \in BOOLEAN /\ MaxFaults \in Nat

VARIABLES
    pods,       \* the API server's helper pods, by name
    ghosts,     \* operations whose container outlives its force-deleted pod
    pc,         \* the next API call of each request
    op,         \* the operation each request runs
    cancelled,  \* has the request's context ended?
    err,        \* what waitForHelper returned, while the helper is cleaned up
    mu,         \* helperAdmissionMu of each process
    adrift,     \* creates given up by their caller, perhaps still to be carried out
    landed,     \* history: operations whose pod such a create has made
    succeeded,  \* history: operations whose container exited with success
    okd,        \* history: operations the CO received an OK for
    faults      \* faults so far

vars == <<pods, ghosts, pc, op, cancelled, err, mu, adrift, landed, succeeded, okd, faults>>

\* The creates that have lost their caller.
lost == <<adrift, landed>>

-----------------------------------------------------------------------------
(* State.                                                                  *)

TerminalPhases == {"Succeeded", "Failed"}

Errors == {"nil", "Internal"}

\* Positions inside ensureHelper, where the request holds the mutex.
Locked == {"get", "list", "create", "reget", "force", "retire"}

InCall == {"lock", "poll", "cleanup"} \cup Locked
PCs == InCall \cup {"idle"}

ASSUME DeadlineAssumption == DeadlineAt \subseteq InCall

Name(r) == HelperName(op[r])
Driver(r) == DriverOf[r]

podTerminal(p) == p.phase \in TerminalPhases

\* Faulty variant: terminal pods that were not cleaned up count as active.
ActiveNamesCountTerminal(node, vg) ==
    {n \in Names : /\ pods[n] # NoPod
                   /\ pods[n].op.node = node
                   /\ vg \in HelperVGs(pods[n].op)}

\* The pod count admission works on: every helper that is not terminal, the
\* terminating ones included.
ActiveNames(node, vg) ==
    {n \in Names : /\ pods[n] # NoPod
                   /\ ~podTerminal(pods[n])
                   /\ pods[n].op.node = node
                   /\ vg \in HelperVGs(pods[n].op)}

\* Faulty variant: the source volume group of a clone is not checked.
AdmissibleOwnVG(r) ==
    Cardinality(ActiveNames(op[r].node, op[r].vg) \ {Name(r)}) < MaxActive

\* admitHelper: every volume group of the helper has room.
Admissible(r) ==
    \A vg \in HelperVGs(op[r]) :
        Cardinality(ActiveNames(op[r].node, vg) \ {Name(r)}) < MaxActive

-----------------------------------------------------------------------------
(* The API server (external).  A graceful delete of a pod that is not      *)
(* terminal only marks it; a zero grace period removes the object at once, *)
(* whatever its container is doing.                                        *)

Deleted(n) ==
    IF pods[n] = NoPod THEN pods
    ELSE IF podTerminal(pods[n]) THEN [pods EXCEPT ![n] = NoPod]
    ELSE [pods EXCEPT ![n].terminating = TRUE]

ForceDeleted(n) == [pods EXCEPT ![n] = NoPod]

GhostsOfForceDelete(n) ==
    IF pods[n] # NoPod /\ pods[n].phase = "Running"
    THEN ghosts \cup {pods[n].op} ELSE ghosts

Created(n, o) ==
    [pods EXCEPT ![n] = [op |-> o, phase |-> "Pending", terminating |-> FALSE]]

\* An API call fails for good once the request's context has ended, and may
\* fail before that at the price of a fault.
CallFails(r) ==
    IF cancelled[r] THEN UNCHANGED faults
    ELSE faults < MaxFaults /\ faults' = faults + 1

CallWorks(r) == ~cancelled[r] /\ UNCHANGED faults

-----------------------------------------------------------------------------
(* runHelper, one action per API call.                                     *)

Goto(r, l) == pc' = [pc EXCEPT ![r] = l]

Unlock(r) == mu' = [mu EXCEPT ![Driver(r)] = Free]

\* The frame of a call: where it is, what it runs, whether its context has ended.
frame == <<pc, op, cancelled>>

\* Faulty variant: an error is reported and the handler goes on.
ReturnAndGoOn(r) ==
    /\ UNCHANGED pc
    /\ op' = [op EXCEPT ![r] = NoOp]
    /\ cancelled' = [cancelled EXCEPT ![r] = FALSE]

\* The call is over: its frame is gone.
Return(r) ==
    /\ Goto(r, "idle")
    /\ op' = [op EXCEPT ![r] = NoOp]
    /\ cancelled' = [cancelled EXCEPT ![r] = FALSE]

\* Faulty variant: the mutex is not released on an error.
RefuseLocked(r) == Return(r) /\ UNCHANGED mu

\* ensureHelper returns an error (Unavailable, Aborted or the one of the create):
\* the mutex is released and no helper is waited for.
Refuse(r) == Return(r) /\ Unlock(r)

\* ensureHelper returns nil: on to waitForHelper.
Joined(r) == Goto(r, "poll") /\ Unlock(r) /\ UNCHANGED <<op, cancelled>>

\* Faulty variant: the mutex is held for the first Get only.
ProceedUnlocked(r, l) == Goto(r, l) /\ Unlock(r) /\ UNCHANGED <<op, cancelled>>

\* The next API call of ensureHelper, still under the mutex.
Proceed(r, l) == Goto(r, l) /\ UNCHANGED <<mu, op, cancelled>>

\* The CO calls.  A serialised CO keeps one live call per helper name (it may
\* call again once the previous one has run out of time) and stops after OK.
Start(r, o) ==
    /\ pc[r] = "idle"
    /\ COSerialised =>
         /\ \A a \in okd : HelperName(a) # HelperName(o)
         /\ \A q \in Requests :
              pc[q] # "idle" /\ Name(q) = HelperName(o) => cancelled[q]
    /\ Goto(r, "lock")
    /\ op' = [op EXCEPT ![r] = o]
    /\ UNCHANGED <<pods, ghosts, cancelled, err, mu, lost, succeeded, okd, faults>>

\* helperAdmissionMu.Lock() does not look at the context.
LockAdmission(r) ==
    /\ pc[r] = "lock"
    /\ mu[Driver(r)] = Free
    /\ mu' = [mu EXCEPT ![Driver(r)] = r]
    /\ Goto(r, "get")
    /\ UNCHANGED <<pods, ghosts, op, cancelled, err, lost, succeeded, okd, faults>>

\* Faulty variant: a pod that is found is used, whatever its spec.
UseAnyHelper(r, p) ==
    \/ p.terminating /\ Proceed(r, "force")
    \/ ~p.terminating /\ Joined(r)

\* useExistingHelper and the decision of retireHelper, on the pod just read.
UseExistingHelper(r, p) ==
    \/ /\ p.terminating
       /\ Proceed(r, "force")
    \/ /\ ~p.terminating
       /\ p.op = op[r]
       /\ Joined(r)
    \/ /\ ~p.terminating
       /\ p.op # op[r]
       /\ IF podTerminal(p)
          THEN Proceed(r, "retire")
          ELSE Refuse(r)

GetHelper(r) ==
    /\ pc[r] = "get"
    /\ \/ CallFails(r) /\ Refuse(r)
       \/ /\ CallWorks(r)
          /\ pods[Name(r)] = NoPod
          /\ Proceed(r, "list")
       \/ /\ CallWorks(r)
          /\ pods[Name(r)] # NoPod
          /\ UseExistingHelper(r, pods[Name(r)])
    /\ UNCHANGED <<pods, ghosts, err, lost, succeeded, okd>>

AdmitHelper(r) ==
    /\ pc[r] = "list"
    /\ \/ CallFails(r) /\ Refuse(r)
       \/ CallWorks(r) /\ ~Admissible(r) /\ Refuse(r)
       \/ /\ CallWorks(r)
          /\ Admissible(r)
          /\ Proceed(r, "create")
    /\ UNCHANGED <<pods, ghosts, err, lost, succeeded, okd>>

\* A create whose answer is an error other than AlreadyExists may have been carried
\* out all the same, or may be carried out later, when the mutex is free again
\* (LateCreate, a fault); its error is returned as it is.
CreateHelper(r) ==
    /\ pc[r] = "create"
    /\ \/ /\ CallFails(r)
          /\ Refuse(r)
          /\ \/ UNCHANGED pods
             \/ pods[Name(r)] = NoPod /\ pods' = Created(Name(r), op[r])
          /\ UNCHANGED adrift
       \/ /\ faults < MaxFaults
          /\ faults' = faults + 1
          /\ Refuse(r)
          /\ adrift' = adrift \cup {op[r]}
          /\ UNCHANGED pods
       \/ /\ CallWorks(r)
          /\ pods[Name(r)] = NoPod
          /\ pods' = Created(Name(r), op[r])
          /\ Joined(r)
          /\ UNCHANGED adrift
       \/ /\ CallWorks(r)
          /\ pods[Name(r)] # NoPod
          /\ Proceed(r, "reget")
          /\ UNCHANGED <<pods, adrift>>
    /\ UNCHANGED <<ghosts, err, landed, succeeded, okd>>

\* reuseHelper: after AlreadyExists; a pod that is gone again is an error.
ReuseHelper(r) ==
    /\ pc[r] = "reget"
    /\ \/ CallFails(r) /\ Refuse(r)
       \/ /\ CallWorks(r)
          /\ pods[Name(r)] = NoPod
          /\ Refuse(r)
       \/ /\ CallWorks(r)
          /\ pods[Name(r)] # NoPod
          /\ UseExistingHelper(r, pods[Name(r)])
    /\ UNCHANGED <<pods, ghosts, err, lost, succeeded, okd>>

\* forceDeleteHelper: by name, grace period 0; always ends in Unavailable.
ForceDeleteHelper(r) ==
    /\ pc[r] = "force"
    /\ \/ CallFails(r) /\ UNCHANGED <<pods, ghosts>>
       \/ /\ CallWorks(r)
          /\ pods' = ForceDeleted(Name(r))
          /\ ghosts' = GhostsOfForceDelete(Name(r))
    /\ Refuse(r)
    /\ UNCHANGED <<err, lost, succeeded, okd>>

\* retireHelper's delete of a stale terminal pod, by name.
RetireHelper(r) ==
    /\ pc[r] = "retire"
    /\ \/ CallFails(r) /\ UNCHANGED pods
       \/ CallWorks(r) /\ pods' = Deleted(Name(r))
    /\ Refuse(r)
    /\ UNCHANGED <<ghosts, err, lost, succeeded, okd>>

\* Faulty variant: a poll that fails ends the wait, and the helper is cleaned up.
PollHelperOnce(r) ==
    /\ pc[r] = "poll" /\ ~cancelled[r]
    /\ faults < MaxFaults /\ faults' = faults + 1
    /\ Goto(r, "cleanup")
    /\ err' = [err EXCEPT ![r] = "Internal"]
    /\ UNCHANGED <<pods, ghosts, op, cancelled, mu, lost, succeeded, okd>>

\* waitForHelper: the polls that end the wait.  A poll that finds the pod still
\* active, or that fails while the context lives, changes nothing and is repeated.
PollHelper(r) ==
    /\ pc[r] = "poll"
    /\ \/ /\ cancelled[r] \/ pods[Name(r)] = NoPod
          /\ Return(r)
          /\ UNCHANGED err
       \/ /\ ~cancelled[r]
          /\ pods[Name(r)] # NoPod
          /\ podTerminal(pods[Name(r)])
          /\ Goto(r, "cleanup")
          /\ err' = [err EXCEPT ![r] =
                       IF pods[Name(r)].phase = "Succeeded" THEN "nil" ELSE "Internal"]
          /\ UNCHANGED <<op, cancelled>>
    /\ UNCHANGED <<pods, ghosts, mu, lost, succeeded, okd, faults>>

\* deleteHelper: by name, under a context of its own; an error is only logged.
\* Then runHelper returns; the CO learns the result unless it has given up.
DeleteHelper(r) ==
    /\ pc[r] = "cleanup"
    /\ \/ pods' = Deleted(Name(r)) /\ UNCHANGED faults
       \/ UNCHANGED pods /\ faults < MaxFaults /\ faults' = faults + 1
    /\ Return(r)
    /\ okd' = IF err[r] = "nil" /\ ~cancelled[r] THEN okd \cup {op[r]} ELSE okd
    /\ err' = [err EXCEPT ![r] = "nil"]
    /\ UNCHANGED <<ghosts, mu, lost, succeeded>>

\* The CO's deadline passes, or it cancels the call.
Deadline(r) ==
    /\ pc[r] \in DeadlineAt
    /\ ~cancelled[r]
    /\ cancelled' = [cancelled EXCEPT ![r] = TRUE]
    /\ UNCHANGED <<pods, ghosts, pc, op, err, mu, lost, succeeded, okd, faults>>

\* A plugin process dies: its calls break off, its mutex is gone, the pods stay, and
\* the creates it has under way may still be carried out.
Crash(d) ==
    /\ faults < MaxFaults
    /\ faults' = faults + 1
    /\ pc' = [r \in Requests |-> IF DriverOf[r] = d THEN "idle" ELSE pc[r]]
    /\ op' = [r \in Requests |-> IF DriverOf[r] = d THEN NoOp ELSE op[r]]
    /\ cancelled' = [r \in Requests |-> IF DriverOf[r] = d THEN FALSE ELSE cancelled[r]]
    /\ err' = [r \in Requests |-> IF DriverOf[r] = d THEN "nil" ELSE err[r]]
    /\ mu' = [mu EXCEPT ![d] = Free]
    /\ adrift' = adrift \cup {op[r] : r \in {q \in Requests : DriverOf[q] = d /\ pc[q] = "create"}}
    /\ UNCHANGED <<pods, ghosts, landed, succeeded, okd>>

-----------------------------------------------------------------------------
(* The kubelet and the cluster (external).                                 *)

PodStarts(n) ==
    /\ pods[n] # NoPod
    /\ pods[n].phase = "Pending"
    /\ ~pods[n].terminating
    /\ pods' = [pods EXCEPT ![n].phase = "Running"]
    /\ UNCHANGED <<ghosts, frame, err, mu, lost, succeeded, okd, faults>>

PodSucceeds(n) ==
    /\ pods[n] # NoPod
    /\ pods[n].phase = "Running"
    /\ pods' = [pods EXCEPT ![n].phase = "Succeeded"]
    /\ succeeded' = succeeded \cup {pods[n].op}
    /\ UNCHANGED <<ghosts, frame, err, mu, lost, okd, faults>>

\* The helper exits with an error, or activeDeadlineSeconds passes.
PodFails(n) ==
    /\ pods[n] # NoPod
    /\ ~podTerminal(pods[n])
    /\ faults < MaxFaults
    /\ faults' = faults + 1
    /\ pods' = [pods EXCEPT ![n].phase = "Failed"]
    /\ UNCHANGED <<ghosts, frame, err, mu, lost, succeeded, okd>>

\* Somebody else deletes the pod: an operator, a drain, the node controller.
PodDeleted(n) ==
    /\ pods[n] # NoPod
    /\ ~pods[n].terminating
    /\ faults < MaxFaults
    /\ faults' = faults + 1
    /\ pods' = Deleted(n)
    /\ UNCHANGED <<ghosts, frame, err, mu, lost, succeeded, okd>>

\* The kubelet stops a terminating pod's container and removes the object.
PodReaped(n) ==
    /\ pods[n] # NoPod
    /\ pods[n].terminating
    /\ pods' = [pods EXCEPT ![n] = NoPod]
    /\ UNCHANGED <<ghosts, frame, err, mu, lost, succeeded, okd, faults>>

\* The API server carries out a create whose caller is gone.  (It need not: one that
\* finds a pod of its name, or is dropped, changes nothing.)
LateCreate(o) ==
    /\ o \in adrift
    /\ pods[HelperName(o)] = NoPod
    /\ pods' = Created(HelperName(o), o)
    /\ adrift' = adrift \ {o}
    /\ landed' = landed \cup {o}
    /\ UNCHANGED <<ghosts, frame, err, mu, succeeded, okd, faults>>

\* A container left behind by a force delete ends.
GhostExits(o) ==
    /\ o \in ghosts
    /\ ghosts' = ghosts \ {o}
    /\ UNCHANGED <<pods, frame, err, mu, lost, succeeded, okd, faults>>

-----------------------------------------------------------------------------
Init ==
    /\ pods = [n \in Names |-> NoPod]
    /\ ghosts = {}
    /\ pc = [r \in Requests |-> "idle"]
    /\ op = [r \in Requests |-> NoOp]
    /\ cancelled = [r \in Requests |-> FALSE]
    /\ err = [r \in Requests |-> "nil"]
    /\ mu = [d \in Drivers |-> Free]
    /\ adrift = {}
    /\ landed = {}
    /\ succeeded = {}
    /\ okd = {}
    /\ faults = 0

RequestStep(r) ==
    \/ LockAdmission(r)
    \/ GetHelper(r)
    \/ AdmitHelper(r)
    \/ CreateHelper(r)
    \/ ReuseHelper(r)
    \/ ForceDeleteHelper(r)
    \/ RetireHelper(r)
    \/ PollHelper(r)
    \/ DeleteHelper(r)

PodStep(n) ==
    \/ PodStarts(n)
    \/ PodSucceeds(n)
    \/ PodFails(n)
    \/ PodDeleted(n)
    \/ PodReaped(n)

Next ==
    \/ \E r \in Requests, o \in Ops : Start(r, o)
    \/ \E r \in Requests : RequestStep(r)
    \/ \E r \in Requests : Deadline(r)
    \/ \E d \in Drivers : Crash(d)
    \/ \E n \in Names : PodStep(n)
    \/ \E o \in Ops : GhostExits(o)
    \/ \E o \in Ops : LateCreate(o)

Spec == Init /\ [][Next]_vars

-----------------------------------------------------------------------------
(* Safety.                                                                 *)

TypeOK ==
    /\ pods \in [Names -> Pod \cup {NoPod}]
    /\ ghosts \subseteq Ops
    /\ pc \in [Requests -> PCs]
    /\ op \in [Requests -> Ops \cup {NoOp}]
    /\ \A r \in Requests : pc[r] # "idle" => op[r] \in Ops
    /\ cancelled \in [Requests -> BOOLEAN]
    /\ err \in [Requests -> Errors]
    /\ mu \in [Drivers -> Requests \cup {Free}]
    /\ adrift \subseteq Ops
    /\ landed \subseteq Ops
    /\ succeeded \subseteq Ops
    /\ okd \subseteq Ops
    /\ faults \in 0..MaxFaults

\* A late create has made a pod of this operation: what it does to the pod's name
\* happens outside every mutex.
Late(n) == pods[n] # NoPod /\ pods[n].op \in landed

\* A late create of another spec has taken the name of o.
Displaced(o) == \E a \in landed \ {o} : HelperName(a) = HelperName(o)

\* The active helpers that were admitted.
AdmittedNames(node, vg) == {n \in ActiveNames(node, vg) : ~Late(n)}

\* All calls are served by one plugin process: the chart runs one replica of the
\* controller sidecars, on the socket of their own node's plugin.
OneDriver == \A r, q \in Requests : DriverOf[r] = DriverOf[q]

\* The number of helpers of a node and volume group that are not terminal,
\* the retained ones included, stays within the configured limit plus one for
\* each further plugin process: List and Create of admitHelper/ensureHelper are
\* atomic only under the process's own helperAdmissionMu.  A create that is carried
\* out after its call has released the mutex escapes the count, and only that one.
AdmissionBound ==
    \A node \in Nodes, vg \in VGs :
        Cardinality(AdmittedNames(node, vg)) <= MaxActive + Cardinality(Drivers) - 1

\* With one process and a CO that keeps one live call per helper name, a call
\* returns OK only if a helper with exactly the spec this call asked for has
\* succeeded, even when pods are retained, replaced or deleted by others while
\* runHelper polls by name; the one exception is a late create of another spec, which
\* may take the name of a helper that was deleted while it was waited for.
OkBacked ==
    COSerialised /\ OneDriver =>
        \A o \in okd : o \in succeeded \/ Displaced(o)

\* With one process no step makes an active helper pod that is not already
\* being deleted vanish: forceDeleteHelper and retireHelper delete by name, and
\* the pod they read cannot have been replaced by a live one before they do, unless
\* by a late create.
OnlyTerminatingVanish ==
    [][OneDriver =>
         \A n \in Names :
            pods[n] # NoPod /\ ~podTerminal(pods[n]) /\ pods'[n] = NoPod
                => pods[n].terminating \/ Late(n)]_vars

\* With one process and a serialised CO the cleanup at the end of runHelper, which
\* deletes by name what it has polled before, never hits a helper at work: the pod
\* cannot have been replaced meanwhile, unless by a late create.  Only that of a call
\* that has run out of time may hit the helper that a retry has created.
CleanupSparesActive ==
    [][COSerialised /\ OneDriver =>
         \A r \in Requests :
            DeleteHelper(r) /\ ~cancelled[r]
            /\ pods[Name(r)] # NoPod /\ ~podTerminal(pods[Name(r)])
                => pods'[Name(r)] = pods[Name(r)] \/ Late(Name(r))]_vars

-----------------------------------------------------------------------------
(* What makes the safety properties inductive.                             *)

\* A request inside ensureHelper holds the mutex of its process.
MutexInv == \A r \in Requests : pc[r] \in Locked => mu[DriverOf[r]] = r

\* A pod carries the name of its operation, and its success is on record.
PodInv ==
    \A n \in Names : pods[n] # NoPod =>
        /\ HelperName(pods[n].op) = n
        /\ pods[n].phase = "Succeeded" => pods[n].op \in succeeded

\* With one process, the pod a request is about to delete is still condemned.
CondemnedInv ==
    OneDriver => \A r \in Requests :
        /\ pc[r] = "force" /\ pods[Name(r)] # NoPod =>
             pods[Name(r)].terminating \/ Late(Name(r))
        /\ pc[r] = "retire" /\ pods[Name(r)] # NoPod =>
             podTerminal(pods[Name(r)]) \/ Late(Name(r))

\* A call that waits for its helper and has not run out of time.
Waiting(r) == pc[r] = "poll" /\ ~cancelled[r]

\* With one process and a serialised CO: two calls for a name are not both live;
\* while one waits no other is about to change the pod; the pod it waits for is
\* its own; what it will report has happened.
SerialInv ==
    COSerialised /\ OneDriver =>
        /\ \A r, q \in Requests :
              r # q /\ pc[r] # "idle" /\ pc[q] # "idle" /\ Name(r) = Name(q)
                => cancelled[r] \/ cancelled[q]
        /\ \A r, q \in Requests :
              Waiting(r) /\ pc[q] \in Locked \ {"get"} => Name(q) # Name(r)
        /\ \A r \in Requests :
              Waiting(r) /\ pods[Name(r)] # NoPod =>
                pods[Name(r)].op = op[r] \/ Late(Name(r))
        /\ \A r \in Requests :
              pc[r] = "cleanup" /\ err[r] = "nil" =>
                op[r] \in succeeded \/ Displaced(op[r])
        /\ \A o \in okd : o \in succeeded \/ Displaced(o)

\* A call that has read the end of its helper in time and is about to delete the pod.
Cleaning(r) == pc[r] = "cleanup" /\ ~cancelled[r]

\* With one process and a serialised CO: while such a call cleans up, no other is
\* about to change the pod, and the pod it deletes is the one that has ended.
CleanupInv ==
    COSerialised /\ OneDriver =>
        /\ \A r, q \in Requests :
              Cleaning(r) /\ pc[q] \in Locked \ {"get"} => Name(q) # Name(r)
        /\ \A r \in Requests :
              Cleaning(r) /\ pods[Name(r)] # NoPod =>
                podTerminal(pods[Name(r)]) \/ Late(Name(r))

\* The helpers of a volume group a request has been admitted for, not yet created.
PendingNames(node, vg) ==
    {n \in Names : \E r \in Requests : /\ pc[r] = "create"
                                      /\ Name(r) = n
                                      /\ op[r].node = node
                                      /\ vg \in HelperVGs(op[r])}

\* The bound counts the admitted helpers as if they existed.
AdmissionInv ==
    \A node \in Nodes, vg \in VGs :
        Cardinality(AdmittedNames(node, vg) \cup PendingNames(node, vg))
            <= MaxActive + Cardinality(Drivers) - 1

IInv ==
    TypeOK /\ MutexInv /\ PodInv /\ CondemnedInv /\ SerialInv /\ CleanupInv /\ AdmissionInv

-----------------------------------------------------------------------------
(* What README.md says.                                                    *)

\* README.md: "The chart limits active helpers per node and volume group,
\* including helpers retained after a timed-out CSI request."  Read for the
\* processes that work on the volume group: the containers of running pods and
\* those whose pod forceDeleteHelper removed from the API.
HelperProcessLimit ==
    \A node \in Nodes, vg \in VGs :
        Cardinality({n \in ActiveNames(node, vg) : pods[n].phase = "Running"})
            + Cardinality({o \in ghosts : o.node = node /\ vg \in HelperVGs(o)})
          <= MaxActive

-----------------------------------------------------------------------------
(* Liveness.                                                               *)

\* What the Go runtime and the API server give: a handler that can take a step
\* takes it (sync.Mutex does not starve a waiter), and the CO's timeout comes.
\* Nothing is assumed of the helper pods.
ReturnSpec ==
    /\ Spec
    /\ \A r \in Requests : /\ WF_vars(RequestStep(r))
                           /\ SF_vars(LockAdmission(r))
                           /\ WF_vars(Deadline(r))

\* Every controller call returns: no path through ensureHelper keeps the mutex,
\* and a helper that never ends (or was deleted) does not hold its caller.
RequestsReturn == \A r \in Requests : []<>(pc[r] = "idle")

\* A live call for o reads the end of its helper.
PollInTime(o) == \E r \in Requests : op[r] = o /\ ~cancelled[r] /\ PollHelper(r)

\* In addition: the CO retries what is not done, its timeout does not come before
\* the first poll every time, and the kubelet runs and removes pods.
RetrySpec ==
    /\ ReturnSpec
    /\ \A o \in Ops : /\ SF_vars(\E r \in Requests : Start(r, o))
                      /\ SF_vars(PollInTime(o))
    /\ \A n \in Names : WF_vars(PodStarts(n) \/ PodSucceeds(n) \/ PodReaped(n))

\* Every operation is eventually answered with OK, whatever calls time out on the
\* way: helpers left behind are rejoined by retries, terminating ones removed,
\* and those that hold the limit of a volume group end.
Converges == \A o \in Ops : <>(o \in okd)

=============================================================================

------------------------------ MODULE Volumes ------------------------------
\* The data volumes of a standalone cluster: the claims (PVCs) reconcilePVCs
\* creates and grows, the restarts that let a grown volume's file system
\* follow, and the node maintenance window, which suspends self-healing and,
\* with reusePVC = false, replaces the claims of pods that are gone. A failover
\* or switchover is followed from call to call, for the fence it may leave and
\* for whose data the others copy; the roles of the Redis servers meanwhile are
\* the subject of ClusterReconciler and InstanceManager.
EXTENDS Integers, FiniteSets

CONSTANTS
    Instances,      \* spec.instances: the pods are 0 .. Instances - 1
    MaxSize,        \* bound: the largest spec.storage.size; it starts at 1
    MaxWindows,     \* bound: changes of nodeMaintenanceWindow.inProgress
    MaxFaults,      \* bound: pods lost and Redis processes that exit
    MaxAborts       \* bound: reconciles that end in an error or a crash

ASSUME VolumesAssumption ==
    /\ Instances \in Nat \ {0} /\ MaxSize \in Nat \ {0}
    /\ MaxWindows \in Nat /\ MaxFaults \in Nat /\ MaxAborts \in Nat

Pod == 0 .. Instances - 1
NoClaim == 0

VARIABLES
    \* the cluster resource, and the storage class
    size,           \* spec.storage.size
    window,         \* spec.nodeMaintenanceWindow.inProgress
    reuse,          \* spec.nodeMaintenanceWindow.reusePVC
    expandable,     \* the storage class's allowVolumeExpansion
    primary,        \* status.currentPrimary
    fenced,         \* the pods in the fencing annotation
    resizing,       \* the condition PVCResizeInProgress
    \* Kubernetes
    claim,          \* [Pod -> size the pod's claim requests, or NoClaim]
    fs,             \* [Pod -> size of the file system on the claim's volume]
    pending,        \* the pods whose claim is FileSystemResizePending
    dying,          \* the pods whose claim has a deletion timestamp
    pod,            \* [Pod -> absent, pending (no IP yet), down or up (Redis answers)]
    data,           \* the pods whose volume holds the cluster's data
    \* the operator
    cached,         \* the pods in its informer cache
    pc,             \* where its reconcile stands
    maint,          \* what reconcileMaintenance returned
    copy,           \* its copy of the spec, as of the start or of updateStatus
    polled,         \* the pods the status poll found connected
    toRestart,      \* pendingResizePVCs
    handover,       \* formerPrimary, candidate, and whether it is a switchover
    \* bounds
    windows, faults, aborts

spec == <<size, window, reuse, expandable>>
status == <<primary, fenced, resizing>>
volumes == <<claim, fs, pending, dying>>
reconciler == <<pc, maint, copy, polled, toRestart, handover>>
bounds == <<windows, faults, aborts>>
vars == <<spec, status, volumes, pod, data, cached, reconciler, bounds>>

Up == {p \in Pod : pod[p] = "up"}
HasIP == {p \in Pod : pod[p] \in {"down", "up"}}
Existing == {p \in Pod : pod[p] # "absent"}
Unread == [open |-> FALSE, reuse |-> TRUE, size |-> NoClaim]
Current == [open |-> window, reuse |-> reuse, size |-> size]
NoHandover == [from |-> 0, to |-> 0, planned |-> FALSE]
Highest(S) == CHOOSE p \in S : \A q \in S : q <= p

\* A file system fits its volume, no claim is ahead of the spec, and only a
\* claim that exists has a volume, is mounted, or is resized or deleted.
Fits(p) ==
    /\ fs[p] <= claim[p] /\ claim[p] <= size
    /\ claim[p] = NoClaim => p \notin pending \cup dying \cup data \cup HasIP

TypeOK ==
    /\ size \in 1 .. MaxSize /\ window \in BOOLEAN
    /\ reuse \in BOOLEAN /\ expandable \in BOOLEAN
    /\ primary \in Pod /\ fenced \subseteq Pod /\ resizing \in BOOLEAN
    /\ claim \in [Pod -> NoClaim .. MaxSize] /\ fs \in [Pod -> NoClaim .. MaxSize]
    /\ pending \subseteq Pod /\ dying \subseteq Pod /\ \A p \in Pod : Fits(p)
    /\ pod \in [Pod -> {"absent", "pending", "down", "up"}]
    /\ data \subseteq Pod /\ cached \subseteq Pod
    /\ pc \in {"idle", "decide", "recycle", "claims", "pods", "restart",
               "promote", "publish", "unfence"}
    /\ maint \in BOOLEAN
    /\ copy \in [open : BOOLEAN, reuse : BOOLEAN, size : NoClaim .. size]
    /\ handover \in [from : Pod, to : Pod, planned : BOOLEAN]
    /\ polled \subseteq Pod /\ toRestart \subseteq Pod
    /\ pc \in {"decide", "claims", "recycle"} => copy.size # NoClaim
    /\ windows \in 0 .. MaxWindows /\ faults \in 0 .. MaxFaults
    /\ aborts \in 0 .. MaxAborts

\* A cluster that runs, with every replica in step with pod 0.
Init ==
    /\ size = 1 /\ window = FALSE /\ reuse = TRUE
    /\ expandable \in BOOLEAN
    /\ primary = 0 /\ fenced = {} /\ resizing = FALSE
    /\ claim = [p \in Pod |-> 1] /\ fs = [p \in Pod |-> 1]
    /\ pending = {} /\ dying = {}
    /\ pod = [p \in Pod |-> "up"] /\ data = Pod /\ cached = Pod
    /\ pc = "idle" /\ maint = FALSE /\ copy = Unread
    /\ polled = {} /\ toRestart = {} /\ handover = NoHandover
    /\ windows = 0 /\ faults = 0 /\ aborts = 0

----------------------------------------------------------------------------
\* The operator's reconcile

Done ==
    /\ pc' = "idle" /\ maint' = FALSE /\ copy' = Unread
    /\ polled' = {} /\ toRestart' = {} /\ handover' = NoHandover

reconcileMaintenance ==
    /\ pc = "idle"
    /\ pc' = "decide" /\ maint' = window /\ copy' = Current
    /\ UNCHANGED <<spec, status, volumes, pod, data, cached, polled, toRestart,
                   handover, bounds>>

shouldTriggerFailover(connected) ==
    ~maint /\ primary \notin connected /\ connected # {}

\* An address the cache has of a pod that is gone still counts as an instance.
checkReachability(connected) ==
    {p \in cached : pod[p] # "pending"} = Pod /\ connected # Pod

\* setFence and selectFailoverCandidate, the first calls of failover and of
\* switchover.
BeginHandover(connected, planned) ==
    \E c \in connected \ {primary} :
        /\ fenced' = fenced \cup {primary} /\ pc' = "promote"
        /\ handover' = [from |-> primary, to |-> c, planned |-> planned]
        /\ UNCHANGED <<maint, copy, polled, toRestart>>

\* A switchover that finds no candidate ends with the fence set.
NoCandidate ==
    /\ polled \subseteq {primary}
    /\ fenced' = fenced \cup {primary} /\ Done

\* The status poll and updateStatus, which brings the operator's copy of the spec
\* up to date if there is something to patch; then a failover, ...
Failover ==
    LET connected == cached \cap Up
    IN /\ pc = "decide" /\ shouldTriggerFailover(connected)
       /\ BeginHandover(connected, FALSE)
       /\ UNCHANGED <<spec, primary, resizing, volumes, pod, data, cached, bounds>>

\* ... the return of the reachability check, or the steps after it.
GoOn ==
    LET connected == cached \cap Up
    IN /\ pc = "decide" /\ ~shouldTriggerFailover(connected)
       /\ \/ checkReachability(connected) /\ Done
          \/ /\ ~checkReachability(connected)
             /\ pc' = "recycle" /\ polled' = connected
             /\ copy' \in {copy, Current}
             /\ UNCHANGED <<maint, toRestart, handover>>
       /\ UNCHANGED <<spec, status, volumes, pod, data, cached, bounds>>

\* promoteInstance: refused by a server that is down, an error for a pod that is
\* gone; a candidate without an address is published by a failover all the same.
promoteInstance ==
    LET c == handover.to
        addressed == c \in cached /\ pod[c] # "pending"
    IN /\ pc = "promote"
       /\ IF (addressed /\ pod[c] = "up") \/ (~addressed /\ ~handover.planned)
          THEN pc' = "publish" /\ UNCHANGED <<maint, copy, polled, toRestart, handover>>
          ELSE Done
       /\ UNCHANGED <<spec, status, volumes, pod, data, cached, bounds>>

\* The status patch with the new primary.
publishPrimary ==
    /\ pc = "publish"
    /\ primary' = handover.to /\ pc' = "unfence"
    /\ UNCHANGED <<spec, fenced, resizing, volumes, pod, data, cached, maint, copy,
                   polled, toRestart, handover, bounds>>

\* Faulty variant: the fence of the new primary is cleared.
clearFence_OfPrimary ==
    /\ pc = "unfence"
    /\ fenced' = fenced \ {primary} /\ Done
    /\ UNCHANGED <<spec, primary, resizing, volumes, pod, data, cached, bounds>>

\* updateLeaderServiceSelector and clearFence, the last calls.
clearFence ==
    /\ pc = "unfence"
    /\ fenced' = fenced \ {handover.from} /\ Done
    /\ UNCHANGED <<spec, primary, resizing, volumes, pod, data, cached, bounds>>

\* Faulty variant: the flag is taken the other way round.
maintenanceReplace_Reuse == maint /\ copy.reuse

maintenanceReplace == maint /\ ~copy.reuse

recyclePVCsForMissingPods ==
    /\ pc = "recycle"
    /\ dying' = IF maintenanceReplace /\ copy.open
                THEN dying \cup {p \in Pod \ cached : claim[p] # NoClaim}
                ELSE dying
    /\ pc' = "claims"
    /\ UNCHANGED <<spec, status, claim, fs, pending, pod, data, cached, maint, copy,
                   polled, toRestart, handover, bounds>>

\* What both reconcilePVCs and its faulty variants do with the size to create
\* a claim at and the claims found to wait for a file system.
Claims(initial, waiting) ==
    /\ pc = "claims"
    /\ claim' = [p \in Pod |-> IF claim[p] = NoClaim THEN initial
                               ELSE IF expandable /\ copy.size > claim[p] THEN copy.size
                               ELSE claim[p]]
    /\ fs' = [p \in Pod |-> IF claim[p] = NoClaim THEN initial ELSE fs[p]]
    /\ resizing' = (waiting # {} \/ \E p \in Pod : claim[p] \in 1 .. copy.size - 1)
    /\ IF ~maint \/ maintenanceReplace
       THEN pc' = "pods" /\ toRestart' = waiting /\ UNCHANGED <<maint, copy, polled, handover>>
       ELSE Done
    /\ UNCHANGED <<spec, primary, fenced, pending, dying, pod, data, cached, bounds>>

\* Faulty variants: a claim is created larger than asked for; the volumes that
\* wait for a restart are not reported.
reconcilePVCs_Larger == Claims(copy.size + 1, pending)
reconcilePVCs_NoneWaits == Claims(copy.size, {})

reconcilePVCs == Claims(copy.size, pending)

\* createPod, for every ordinal the cache lacks; one that exists after all is a
\* failed Create, which ends the reconcile.
reconcilePods ==
    LET failing == {p \in Existing : p \notin cached}
        created == {p \in Pod \ cached : \A q \in failing : p < q}
    IN /\ pc = "pods"
       /\ pod' = [p \in Pod |-> IF p \in created THEN "pending" ELSE pod[p]]
       /\ IF failing = {} /\ ~maint /\ toRestart # {}
          THEN pc' = "restart" /\ UNCHANGED <<maint, copy, polled, toRestart, handover>>
          ELSE Done
       /\ UNCHANGED <<spec, status, volumes, data, cached, bounds>>

Delete(p) == pod' = [pod EXCEPT ![p] = "absent"] /\ fenced' = fenced /\ Done

\* A pod the cache still lists after its deletion looks as it last did; the
\* readiness probe of a fenced pod fails, if it was made since the fence was set.
isPodRunningAndReady(p, probed) == pod[p] \in {"up", "absent"} /\ p \notin fenced \cap probed

restartPodsForPendingResize ==
    \E probed \in {{}, Pod} :
      LET Ready(p) == isPodRunningAndReady(p, probed)
          allReplicas == cached \ {primary}
          waiting == allReplicas \cap toRestart
          ready == {p \in waiting : Ready(p)}
      IN /\ pc = "restart"
         /\ \/ ready # {} /\ Delete(Highest(ready))
            \/ /\ ready = {}
               /\ \/ waiting # {}
                  \/ primary \notin cached \cap toRestart
                  \/ ~Ready(primary)
                  \/ allReplicas # {} /\ \A p \in allReplicas : ~Ready(p)
               /\ UNCHANGED <<pod, fenced>> /\ Done
            \/ /\ waiting = {} /\ primary \in cached \cap toRestart /\ Ready(primary)
               /\ \/ allReplicas = {} /\ Delete(primary)
                  \/ /\ \E p \in allReplicas : Ready(p)
                     /\ (BeginHandover(polled, TRUE) \/ NoCandidate)
                     /\ UNCHANGED pod
         /\ UNCHANGED <<spec, primary, resizing, volumes, data, cached, bounds>>

\* The operator crashes, loses its lease or gets an error from the API server.
Abort ==
    /\ pc # "idle" /\ aborts < MaxAborts
    /\ aborts' = aborts + 1 /\ Done
    /\ UNCHANGED <<spec, status, volumes, pod, data, cached, windows, faults>>

Operator ==
    \/ reconcileMaintenance \/ Failover \/ GoOn \/ recyclePVCsForMissingPods
    \/ reconcilePVCs \/ reconcilePods \/ restartPodsForPendingResize
    \/ promoteInstance \/ publishPrimary \/ clearFence

----------------------------------------------------------------------------
\* Kubernetes, the instances and the user

\* A pod gets a node and an address once its claim can be mounted; mounting is
\* when a grown volume's file system follows.
Mount(p) ==
    /\ pod[p] = "pending" /\ claim[p] # NoClaim /\ p \notin dying
    /\ pod' = [pod EXCEPT ![p] = "down"]
    /\ fs' = [fs EXCEPT ![p] = IF p \in pending THEN claim[p] ELSE @]
    /\ pending' = pending \ {p}
    /\ UNCHANGED <<spec, status, claim, dying, data, cached, reconciler, bounds>>

\* Run starts Redis: a replica once the primary has an address.  It does not
\* look at the fence.
Boot(p) ==
    /\ pod[p] = "down"
    /\ p = primary \/ primary \in HasIP
    /\ pod' = [pod EXCEPT ![p] = "up"]
    /\ UNCHANGED <<spec, status, volumes, data, cached, reconciler, bounds>>

\* Reconcile of a fenced instance stops Redis.
Fence(p) ==
    /\ pod[p] = "up" /\ p \in fenced
    /\ pod' = [pod EXCEPT ![p] = "down"]
    /\ UNCHANGED <<spec, status, volumes, data, cached, reconciler, bounds>>

\* A replica's full resynchronisation: it ends with what its primary has.
Resync(p) ==
    /\ p # primary /\ {p, primary} \subseteq Up
    /\ (p \in data) # (primary \in data)
    /\ data' = IF primary \in data THEN data \cup {p} ELSE data \ {p}
    /\ UNCHANGED <<spec, status, volumes, pod, cached, reconciler, bounds>>

\* The storage driver grows a volume whose claim asks for more, and leaves the
\* file system to the next mount.
Expand(p) ==
    /\ claim[p] > fs[p] /\ p \notin pending
    /\ pending' = pending \cup {p}
    /\ UNCHANGED <<spec, status, claim, fs, dying, pod, data, cached, reconciler, bounds>>

\* A deleted claim goes, with its volume, once no running pod uses it.
Vanish(p) ==
    /\ p \in dying /\ p \notin HasIP
    /\ claim' = [claim EXCEPT ![p] = NoClaim] /\ fs' = [fs EXCEPT ![p] = NoClaim]
    /\ pending' = pending \ {p} /\ dying' = dying \ {p} /\ data' = data \ {p}
    /\ UNCHANGED <<spec, status, pod, cached, reconciler, bounds>>

CacheSync ==
    /\ cached # Existing /\ cached' = Existing
    /\ UNCHANGED <<spec, status, volumes, pod, data, reconciler, bounds>>

\* A pod is evicted or lost with its node, or its Redis process exits.
Fault(p) ==
    /\ faults < MaxFaults /\ faults' = faults + 1
    /\ \/ p \in Existing /\ pod' = [pod EXCEPT ![p] = "absent"]
       \/ p \in Up /\ pod' = [pod EXCEPT ![p] = "down"]
    /\ UNCHANGED <<spec, status, volumes, data, cached, reconciler, windows, aborts>>

\* spec.storage.size may only grow.
Grow ==
    /\ size < MaxSize /\ size' = size + 1
    /\ UNCHANGED <<window, reuse, expandable, status, volumes, pod, data, cached,
                   reconciler, bounds>>

\* A window opens, with either reusePVC where there is more than one instance,
\* or closes.
Window ==
    /\ windows < MaxWindows /\ windows' = windows + 1 /\ window' = ~window
    /\ reuse' \in IF window THEN {reuse} ELSE IF Instances = 1 THEN {TRUE} ELSE BOOLEAN
    /\ UNCHANGED <<size, expandable, status, volumes, pod, data, cached,
                   reconciler, faults, aborts>>

Next ==
    \/ Operator \/ Abort \/ CacheSync \/ Grow \/ Window
    \/ \E p \in Pod : \/ Mount(p) \/ Boot(p) \/ Fence(p) \/ Resync(p)
                      \/ Expand(p) \/ Vanish(p) \/ Fault(p)

\* The operator requeues every reconcile; its cache follows the API server; the
\* kubelet, the storage driver and the instances keep working.
Fairness ==
    /\ WF_vars(Operator) /\ WF_vars(CacheSync)
    /\ \A p \in Pod : /\ WF_vars(Mount(p)) /\ WF_vars(Boot(p)) /\ WF_vars(Fence(p))
                      /\ WF_vars(Expand(p)) /\ WF_vars(Vanish(p)) /\ WF_vars(Resync(p))
    \* CrashLoopBackOff: a server that is stopped again and again is down for longer
    \* than the time between two polls, so polls do find it down.
    /\ \A p \in Pod : []<><<Fence(p)>>_vars
                        => []<><<(Failover \/ GoOn) /\ pod[p] # "up">>_vars

Spec == Init /\ [][Next]_vars /\ Fairness

----------------------------------------------------------------------------
\* failover and switchover: a fence stays on a pod that is not the primary only
\* if a reconcile was cut off, or failed, between the status patch and
\* clearFence: no more of them than such ends.  A handover that fails before
\* the patch leaves its fence on the primary, where the next failover takes it up.
OneFencePerCut == pc # "unfence" => Cardinality(fenced \ {primary}) <= aborts

\* A fence that such an end has left and that nothing lifts.
Stranded == fenced \ {primary} # {}

\* A resize ends: outside a window every pod is at last up again, on a claim of
\* the size asked for when the storage class allows it, with a file system as
\* large as the claim, no fence, and PVCResizeInProgress says whether a claim is
\* behind; unless a fence was left on a former primary.
\* reconcilePVCs, reconcilePods and restartPodsForPendingResize together.
ResizeEnds ==
    <>[]\/ window \/ Stranded
        \/ /\ fenced = {} /\ Up = Pod
           /\ \A p \in Pod : fs[p] = claim[p] /\ (expandable => claim[p] = size)
           /\ resizing = \E p \in Pod : claim[p] < size

\* In a window with reusePVC = false that stays open, every pod that is gone
\* comes back, on a claim that is not the deleted one, though the list by which
\* recyclePVCsForMissingPods deletes claims may lack a pod that was just
\* created; and it is given the data, if the primary has them.  A fence set
\* before the window stays until the next failover.
ReplacedReturn ==
    <>[](window /\ ~reuse => fenced # {} \/ (Up = Pod /\ data \in {{}, Pod}))

\* "Data survives pod recreation, rescheduling, and rolling updates": some volume
\* always holds the data.
DataSurvives == data # {}

\* "then the primary is switched over before restart when replicas exist": a
\* resize deletes the primary's pod only when there is no other pod.
SwitchesOverFirst ==
    [][restartPodsForPendingResize /\ pod'[primary] # pod[primary]
         => Existing = {primary}]_vars
=============================================================================

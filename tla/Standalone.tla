----------------------------- MODULE Standalone -----------------------------
(***************************************************************************)
(* A standalone-mode RedisCluster: its instance managers, the operator     *)
(* that reconciles it, and the user who edits its spec.                    *)
(***************************************************************************)
EXTENDS InstanceManager, ClusterReconciler

\* The user changes the pod template, ...
ChangeTemplate ==
    /\ revision < MaxRevision
    /\ revision' = revision + 1
    /\ UNCHANGED <<desired, approved, apiVars, podVars, ctlVars, boundVars>>

\* ... approves the update of the primary, ...
ApproveUpdate ==
    /\ Supervised /\ ~ approved
    /\ approved' = TRUE
    /\ UNCHANGED <<desired, revision, apiVars, podVars, ctlVars, boundVars>>

\* ... or changes spec.instances.
Scale(n) ==
    /\ scalings < MaxScalings /\ n # desired
    /\ desired' = n /\ scalings' = scalings + 1
    /\ UNCHANGED <<revision, approved, apiVars, podVars, ctlVars, faults,
                   aborts>>

UserStep == ChangeTemplate \/ ApproveUpdate \/ \E n \in 1 .. MaxPods : Scale(n)

InstanceStep(p) == \/ AssignIP(p) \/ BootRead(p) \/ BootStart(p)
                   \/ InstanceRead(p) \/ InstanceActs(p) \/ LatePromote(p)

FailoverStep == \/ SetFence \/ PromoteInstance \/ PromoteRefused
                \/ PromoteSkipped \/ PublishPrimary \/ UpdateLeaderService
                \/ ClearFence

PodsStep == \/ CreatePod \/ ScalePods \/ ConsumeApproval
            \/ \E seen \in CachedPods :
                 RollReplica(seen) \/ RollPrimary(seen) \/ RollDone(seen)

OperatorStep == \/ StartReconcile \/ (\E p \in Pod : Poll(p)) \/ UpdateStatus
                \/ FailoverStep \/ PodsStep

Fault == \/ \E p \in Pod : RedisExits(p) \/ PodLost(p) \/ PollTimesOut(p)
         \/ PromoteTimesOut \/ ReconcileAborts

Next == \/ UserStep
        \/ \E p \in Pod : InstanceStep(p)
        \/ OperatorStep
        \/ Fault

Spec == Init /\ [][Next]_vars
-----------------------------------------------------------------------------
TypeOK ==
    /\ desired \in 1 .. MaxPods /\ revision \in 0 .. MaxRevision
    /\ approved \in BOOLEAN
    /\ primary \in Pod \cup {NoPod}
    /\ fenced \subseteq Pod /\ reported \subseteq Pod
    /\ pod \in [Pod -> PodState] /\ podRev \in [Pod -> 0 .. MaxRevision]
    /\ of \in [Pod -> Pod \cup {NoPod, Gone}]
    /\ plan \in [Pod -> Pod \cup {NoPod, Idle, Stop}]
    /\ inflight \subseteq Pod
    /\ pc \in {"idle", "poll", "create", "roll", "fence", "promote",
               "publish", "selector", "unfence", "consume"}
    /\ mode \in {"none", "failover", "switchover"}
    /\ listed \subseteq Pod /\ polled \subseteq listed
    /\ connected \subseteq Pod /\ mem \subseteq Pod
    /\ former \in Pod \cup {NoPod} /\ cand \in Pod \cup {NoPod}
    /\ faults \in 0 .. MaxFaults /\ aborts \in 0 .. MaxAborts
    /\ scalings \in 0 .. MaxScalings
\* From the fencing patch to clearFence the pod that failover or switchover
\* replaces is fenced: before the status patch it is still the primary and
\* the candidate is another pod, after it the candidate is the primary.
FenceHeld ==
    /\ pc = "fence" => primary \in Pod
    /\ pc \in {"promote", "publish"} =>
         /\ former = primary /\ primary \in fenced
         /\ cand \in Pod \ {primary}
    /\ pc \in {"selector", "unfence"} =>
         /\ cand = primary /\ primary \in Pod
         /\ former \in fenced \ {primary}

\* The operator's handling of the primary implements PrimaryHandover:
\* failover and switchover fence the outgoing primary before anything else
\* and clear that fence only after the status patch, and neither a retry
\* after a crash nor a stale instancesStatus makes them do otherwise.
Handover == INSTANCE PrimaryHandover
              WITH Pod <- Pod, NoPod <- NoPod,
                   primary <- primary, fenced <- fenced
HandoverSpec == Handover!Spec

\* reconcileRole, boot and /v1/promote make a running replica a master only
\* if it is the primary, if the primary is fenced, or by acting late on a
\* decision of the past: an instance manager's stale read of the cluster or
\* a promote request whose sender gave up.
RivalOnlyUnderFence ==
    [][\A p \in Pod :
         p \in Masters' /\ pod[p] = "up" /\ p \notin Masters
           => p = primary \/ primary \in fenced \/ plan[p] = p
              \/ p \in inflight]_vars

\* No fault, no failed call and no change of spec.instances so far.
Undisturbed == faults = 0 /\ aborts = 0 /\ scalings = 0

\* Neither scaling nor a rolling update deletes the pod of the primary while
\* the spec asks for more than one instance: the primary is updated via a
\* switchover.  The exception is an outdated primary that a pod list shows
\* without its replicas: of two instances, or after a disturbance.
PrimaryPodKept ==
    [][\A p \in Pod : p = primary /\ p \in Existing /\ pod'[p] = "absent"
         => \/ desired = 1 \/ faults' > faults
            \/ podRev[p] # revision /\ (desired = 2 \/ ~ Undisturbed)]_vars

\* Without faults the primary of a running cluster is replaced only because its
\* pod is outdated: no delay in scheduling, booting or polling during a rolling
\* update makes the operator fail over from a primary that is up to date.
OnlyOutdatedReplaced ==
    [][Undisturbed /\ desired >= 3 /\ primary' # primary
         => podRev[primary] # revision]_vars

\* With a supervised update strategy and without faults, the primary of a running
\* cluster is only replaced while the user's approval stands.
NoUnapprovedReplacement ==
    [][Undisturbed /\ desired >= 3 /\ Supervised /\ primary' # primary
         => approved]_vars
-----------------------------------------------------------------------------
\* Every party keeps working: controller-runtime requeues a cluster 30 s after
\* each reconcile, if nothing wakes it earlier, and each status write wakes every instance manager;
\* the kubelet restarts containers.
Liveness ==
    /\ WF_vars(OperatorStep)
    /\ \A p \in Pod : WF_vars(AssignIP(p) \/ BootRead(p) \/ BootStart(p)
                               \/ InstanceRead(p) \/ InstanceActs(p))
    \* CrashLoopBackOff: a container that exits again and again stays down for
    \* longer than the time between two polls, so polls do find it down.
    /\ \A p \in Pod : []<><<InstanceStops(p)>>_vars
                        => []<><<Poll(p) /\ pod[p] # "up">>_vars

\* An assumption on speeds: an instance manager acts on what it read before the
\* operator starts its next reconcile.  Most often that is 30 s later; a changed
\* annotation or pod wakes the operator at once, and nothing enforces the order.
TimelyNext == Next /\ (StartReconcile => \A p \in Pod : plan[p] = Idle)

\* A cluster that has come up: the state bootstrap ends in.
Running ==
    /\ desired \in Instances /\ revision = 0 /\ approved = FALSE
    /\ primary = 0 /\ fenced = {} /\ reported = 0 .. desired - 1
    /\ pod = [p \in Pod |-> IF p < desired THEN "up" ELSE "absent"]
    /\ podRev = [p \in Pod |-> 0]
    /\ of = [p \in Pod |-> IF p \in 1 .. desired - 1 THEN 0 ELSE NoPod]
    /\ plan = [p \in Pod |-> Idle] /\ inflight = {}
    /\ pc = "idle" /\ mode = "none"
    /\ listed = {} /\ polled = {} /\ connected = {} /\ mem = {}
    /\ former = NoPod /\ cand = NoPod
    /\ faults = 0 /\ aborts = 0 /\ scalings = 0

RunningSpec == Running /\ [][Next]_vars

FairRunningSpec == Running /\ [][TimelyNext]_vars /\ Liveness

Settled ==
    /\ fenced = {} /\ Masters = {primary} /\ Outdated(Existing) = {}
    /\ \A p \in Pod : p < desired =>
         pod[p] = "up" /\ (p # primary => of[p] = primary)

\* After the last fault every instance runs, on the current template, as a
\* replica of the one master, and no fence is left.
Converges == <>[]Settled

\* Scaling down ends with the pods spec.instances asks for, and at most one
\* more: a primary with a higher ordinal, which reconcilePods skips.
ScaleSettles == <>[](Existing \subseteq 0 .. desired - 1 \cup {primary})

\* Whatever the operator's crashes and failed calls, no fence outlives the
\* failover or switchover that set it.
FencesLifted == <>[](fenced = {})

\* A rolling update takes its next step only after a poll that reached every
\* expected instance.
RollsOnlyReachable ==
    [][pc = "roll" /\ (Existing' # Existing \/ pc' = "fence")
         => Cardinality(connected) >= desired]_vars

\* The fence keeps a former primary from coming back as a master while its
\* failover is under way.
FencedFormerStaysDown ==
    [][mode = "failover" /\ former \in fenced /\ former \in Masters'
         => former \in Masters]_vars
=============================================================================

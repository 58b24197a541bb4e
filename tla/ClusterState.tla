---------------------------- MODULE ClusterState ----------------------------
(***************************************************************************)
(* The state shared by the parts of a standalone-mode RedisCluster: the    *)
(* fields of the RedisCluster object that steer the protocol, the pods and *)
(* the redis-server process inside each, and the local variables of the    *)
(* operator's one reconcile of this cluster.                               *)
(*                                                                         *)
(* Pods are named by their ordinal.  An IP address is named by the pod     *)
(* that has it, or Gone once that pod object has been deleted.  The        *)
(* RedisCluster has no replicaMode, no hibernation annotation, no          *)
(* maintenance window and no pending volume resize: the branches of        *)
(* reconcile() for those are off.                                          *)
(***************************************************************************)
EXTENDS Integers, FiniteSets, FiniteSetsExt

CONSTANTS
    MaxPods,      \* ordinals in use are 0 .. MaxPods-1
    Instances,    \* the spec.instances a cluster may be created with
    Supervised,   \* spec.primaryUpdateStrategy = supervised
    MaxRevision,  \* bound: changes of the pod template
    MaxScalings,  \* bound: changes of spec.instances
    MaxFaults,    \* bound: process exits, lost pods, calls that time out
    MaxAborts     \* bound: operator crashes and failed API calls

ASSUME PodsAssumption == MaxPods \in Nat \ {0} /\ Instances \subseteq 1 .. MaxPods
ASSUME BoundsAssumption ==
    /\ MaxRevision \in Nat /\ MaxScalings \in Nat
    /\ MaxFaults \in Nat /\ MaxAborts \in Nat
    /\ Supervised \in BOOLEAN

Pod == 0 .. MaxPods - 1

NoPod == -1   \* the empty pod name
Gone  == -2   \* the address of a pod object that no longer exists
Idle  == -3   \* a plan: the instance manager is between two reconciles
Stop  == -4   \* a plan: the instance manager found its pod fenced

VARIABLES
    \* the RedisCluster object and its user
    desired,      \* spec.instances
    revision,     \* the pod template, as computeSpecHash tells it apart
    approved,     \* annotation redis.io/approve-primary-update
    primary,      \* status.currentPrimary
    fenced,       \* annotation redis.io/fencedInstances
    reported,     \* pods that status.instancesStatus calls connected
    \* the pods
    pod,          \* life of each pod: see PodState
    podRev,       \* the spec-hash annotation of each pod
    of,           \* replicaof target of its redis-server, NoPod for a master
    plan,         \* what its instance manager read and is about to do
    inflight,     \* pods with a promote request whose caller gave up
    \* the operator's reconcile of this cluster
    pc, mode, listed, polled, connected, mem, former, cand,
    \* counters that bound the model
    faults, aborts, scalings

specVars  == <<desired, revision, approved>>
apiVars   == <<primary, fenced, reported>>
podVars   == <<pod, podRev, of, plan, inflight>>
ctlVars   == <<pc, mode, listed, polled, connected, mem, former, cand>>
boundVars == <<faults, aborts, scalings>>
vars      == <<specVars, apiVars, podVars, ctlVars, boundVars>>

\* pending: no IP yet; down: an IP, no redis-server; booting: the instance
\* manager has read the cluster and not yet started redis-server.
PodState == {"absent", "pending", "down", "booting", "up"}

Existing == {p \in Pod : pod[p] # "absent"}
HasIP(p) == pod[p] \in {"down", "booting", "up"}
Masters  == {p \in Pod : pod[p] = "up" /\ of[p] = NoPod}

Init ==
    /\ desired \in Instances /\ revision = 0 /\ approved = FALSE
    /\ primary = NoPod /\ fenced = {} /\ reported = {}
    /\ pod = [p \in Pod |-> "absent"] /\ podRev = [p \in Pod |-> 0]
    /\ of = [p \in Pod |-> NoPod] /\ plan = [p \in Pod |-> Idle]
    /\ inflight = {}
    /\ pc = "idle" /\ mode = "none"
    /\ listed = {} /\ polled = {} /\ connected = {} /\ mem = {}
    /\ former = NoPod /\ cand = NoPod
    /\ faults = 0 /\ aborts = 0 /\ scalings = 0

\* redis-server of p is gone; its manager exits with it (run.go waits for it).
ProcessGone(p) ==
    /\ of' = [of EXCEPT ![p] = NoPod]
    /\ plan' = [plan EXCEPT ![p] = Idle]
    /\ inflight' = inflight \ {p}

\* The pod objects S are deleted: nobody has their addresses any more.
DeletePods(S) ==
    /\ pod' = [p \in Pod |-> IF p \in S THEN "absent" ELSE pod[p]]
    /\ of' = [p \in Pod |-> IF p \in S THEN NoPod
                            ELSE IF of[p] \in S THEN Gone ELSE of[p]]
    /\ plan' = [p \in Pod |-> IF p \in S THEN Idle ELSE plan[p]]
    /\ inflight' = inflight \ S
    /\ UNCHANGED podRev
=============================================================================

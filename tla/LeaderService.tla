--------------------------- MODULE LeaderService ---------------------------
(***************************************************************************)
(* The -leader Service of a standalone or sentinel-mode RedisCluster: who  *)
(* its selector sends clients to, while every reconcile first widens it to *)
(* the role label and then narrows it to one pod, failover moves the       *)
(* primary, reconcilePods relabels the pods, nodes are cut off, and        *)
(* hibernation takes all pods away.                                        *)
(*                                                                         *)
(* Services are read from the informer cache and written by merge patches, *)
(* which carry only the keys in which the new selector differs from the    *)
(* cached one.  How a failover is carried out is in ClusterReconciler.     *)
(***************************************************************************)
EXTENDS Integers

CONSTANTS
    Modes,       \* the choices of spec.mode: "standalone", "sentinel"
    Pods,        \* spec.instances
    MaxChanges,  \* bound: pods that fail, nodes that are cut off, edits of the
                 \*   hibernation annotation, elections
    MaxAborts    \* bound: operator crashes and failed API calls

ASSUME LeaderAssumption ==
    /\ Modes \subseteq {"standalone", "sentinel"}
    /\ Pods \in Nat \ {0} /\ MaxChanges \in Nat /\ MaxAborts \in Nat

Pod == 0 .. Pods - 1
Any == -1   \* no instance key in the selector, no status.currentPrimary
Off == -2   \* redis.io/instance=none

VARIABLES
    mode,       \* spec.mode
    cut,        \* pods that reach neither the API server nor another pod
    selector,   \* the selector in the API server
    cached,     \* the selector in the operator's informer cache
    state,      \* each pod: "absent", "pending" (no IP), "down" or "up"
    label,      \* redis.io/role of each pod that exists
    primary,    \* status.currentPrimary
    hibernate,  \* annotation redis.io/hibernation
    pc,         \* the operator's next call
    ordinal,    \* the pod that reconcilePods has come to
    changes, aborts

vars == <<mode, cut, selector, cached, state, label, primary, hibernate, pc, ordinal,
          changes, aborts>>
podVars == <<state, label>>
userVars == <<mode, hibernate>>
restVars == <<userVars, cut, changes, aborts>>

Selector == [role : {"none", "", "primary"}, instance : Pod \cup {Any, Off}]
Absent   == [role |-> "none", instance |-> Any]   \* there is no Service yet
Wide     == [role |-> "primary", instance |-> Any]
Narrowed(p) == [role |-> "", instance |-> p]

Init ==
    /\ mode \in Modes /\ cut = {}
    /\ selector = Absent /\ cached = Absent
    /\ state = [p \in Pod |-> "absent"] /\ label = [p \in Pod |-> "replica"]
    /\ primary = Any /\ hibernate = FALSE
    /\ pc = "idle" /\ ordinal = 0 /\ changes = 0 /\ aborts = 0

\* Patch(MergeFrom(cached)) to s.
Patch(s) ==
    selector' = [role |-> IF s.role = cached.role THEN selector.role ELSE s.role,
                 instance |-> IF s.instance = cached.instance
                              THEN selector.instance ELSE s.instance]
-----------------------------------------------------------------------------
\* reconcileHibernation deletes all pods; on a node that is cut off they run on.
HibernatePods ==
    /\ pc = "idle" /\ hibernate
    /\ state' = [p \in Pod |-> IF p \in cut THEN state[p] ELSE "absent"]
    /\ pc' = "clear"
    /\ UNCHANGED <<selector, cached, label, primary, ordinal, restVars>>

\* clearLeaderServiceSelector, and the status patch.
ClearSelector ==
    /\ pc = "clear"
    /\ IF cached = Absent THEN UNCHANGED selector ELSE Patch(Narrowed(Off))
    /\ pc' = "idle"
    /\ UNCHANGED <<cached, podVars, primary, ordinal, restVars>>

\* ensureService for the leader; creating what the cache lacks may fail.
EnsureLeader ==
    /\ pc = "idle" /\ ~ hibernate
    /\ \/ /\ cached # Absent
          /\ Patch(Wide) /\ pc' = "narrow"
       \/ /\ cached = Absent /\ selector = Absent
          /\ selector' = Wide /\ pc' = "narrow"
       \/ /\ cached = Absent /\ selector # Absent
          /\ UNCHANGED <<selector, pc>>
    /\ UNCHANGED <<cached, podVars, primary, ordinal, restVars>>

\* updateLeaderServiceSelector, called by reconcileServices and by failover.
Narrow(from, then) ==
    /\ pc = from
    /\ \/ primary = Any /\ UNCHANGED selector /\ pc' = then
       \/ primary # Any /\ cached = Absent /\ UNCHANGED selector /\ pc' = "idle"
       \/ /\ primary # Any /\ cached # Absent /\ pc' = then
          /\ IF cached.instance = primary THEN UNCHANGED selector
             ELSE Patch(Narrowed(primary))
    /\ UNCHANGED <<cached, podVars, primary, ordinal, restVars>>

HasIP == {p \in Pod : state[p] \in {"down", "up"}}
Up    == {p \in Pod \ cut : state[p] = "up"}

\* failover, up to its status patch.
Failover ==
    /\ pc = "decide" /\ mode = "standalone"
    /\ primary # Any /\ primary \notin Up /\ Up # {}
    /\ primary' \in Up
    /\ pc' = "renarrow"
    /\ UNCHANGED <<selector, cached, podVars, ordinal, restVars>>

\* No failover: checkReachability ends the reconcile if every pod has an
\* address and one of them does not answer.
Proceed ==
    /\ pc = "decide"
    /\ mode = "sentinel" \/ primary \in Up \cup {Any} \/ Up = {}
    /\ pc' = IF HasIP = Pod /\ Up # Pod THEN "idle" ELSE "pods"
    /\ ordinal' = 0
    /\ UNCHANGED <<selector, cached, podVars, primary, restVars>>

RoleOf(p) == IF p = primary \/ (primary = Any /\ p = 0)
             THEN "primary" ELSE "replica"

\* Faulty variant: only new pods get their label.
EnsurePod_NewOnly ==
    /\ pc = "pods" /\ ordinal \in Pod
    /\ IF state[ordinal] = "absent"
       THEN /\ label' = [label EXCEPT ![ordinal] = RoleOf(ordinal)]
            /\ state' = [state EXCEPT ![ordinal] = "pending"]
       ELSE UNCHANGED podVars
    /\ ordinal' = ordinal + 1
    /\ UNCHANGED <<selector, cached, primary, pc, restVars>>

\* Faulty variant: one ordinal too many.
EnsurePod_OneMore ==
    /\ pc = "pods" /\ ordinal \in 0 .. Pods
    /\ label' = [label EXCEPT ![ordinal] = RoleOf(ordinal)]
    /\ state' = [state EXCEPT ![ordinal] = IF @ = "absent" THEN "pending" ELSE @]
    /\ ordinal' = ordinal + 1
    /\ UNCHANGED <<selector, cached, primary, pc, restVars>>

\* createPodWithLabels: creates a pod or corrects its labels.
EnsurePod ==
    /\ pc = "pods" /\ ordinal \in Pod
    /\ label' = [label EXCEPT ![ordinal] = RoleOf(ordinal)]
    /\ state' = [state EXCEPT ![ordinal] = IF @ = "absent" THEN "pending" ELSE @]
    /\ ordinal' = ordinal + 1
    /\ UNCHANGED <<selector, cached, primary, pc, restVars>>

\* The end of reconcilePods; the first primary of a new cluster is pod 0.  In
\* sentinel mode the reconcile goes on: module Mastership.
FirstPrimary ==
    /\ pc = "pods" /\ ordinal = Pods
    /\ primary' = IF primary = Any THEN 0 ELSE primary
    /\ pc' = (IF mode = "sentinel" THEN "sentinels" ELSE "idle") /\ ordinal' = 0
    /\ UNCHANGED <<selector, cached, podVars, restVars>>

NarrowAgain == Narrow("renarrow", IF mode = "sentinel" THEN "relabel" ELSE "idle")

Reconcile ==
    \/ HibernatePods \/ ClearSelector \/ EnsureLeader
    \/ Narrow("narrow", "decide") \/ NarrowAgain
    \/ Proceed \/ EnsurePod \/ FirstPrimary

\* The operator crashes or a call fails.
Abort ==
    /\ pc # "idle" /\ aborts < MaxAborts /\ aborts' = aborts + 1
    /\ pc' = "idle" /\ ordinal' = 0
    /\ UNCHANGED <<selector, cached, podVars, primary, userVars, cut, changes>>

\* The informer cache catches up.
Sync ==
    /\ cached # selector /\ cached' = selector
    /\ UNCHANGED <<selector, podVars, primary, pc, ordinal, restVars>>

\* A pod gets its address.
PodScheduled ==
    /\ \E p \in Pod : /\ state[p] = "pending"
                      /\ state' = [state EXCEPT ![p] = "down"]
    /\ UNCHANGED <<selector, cached, label, primary, pc, ordinal, restVars>>

\* Its instance manager starts redis-server; it needs the API server.
Boot(p) ==
    /\ state[p] = "down" /\ p \notin cut
    /\ state' = [state EXCEPT ![p] = "up"]
    /\ UNCHANGED <<selector, cached, label, primary, pc, ordinal, restVars>>

Change == /\ changes < MaxChanges /\ changes' = changes + 1
          /\ UNCHANGED <<mode, selector, cached, label, primary, pc, ordinal, aborts>>

\* redis-server stops.
PodFails ==
    /\ Change
    /\ \E p \in Up : state' = [state EXCEPT ![p] = "down"]
    /\ UNCHANGED <<hibernate, cut>>

\* A node is cut off from the rest of the cluster, and comes back.
NodeCut ==
    /\ Change
    /\ \E p \in Up : cut' = cut \cup {p}
    /\ UNCHANGED <<hibernate, state>>
NodeBack ==
    /\ \E p \in cut : cut' = cut \ {p}
    /\ UNCHANGED <<userVars, selector, cached, podVars, primary, pc, ordinal,
                   changes, aborts>>

\* The user hibernates or resumes the cluster.
Hibernation ==
    /\ Change
    /\ hibernate' = ~ hibernate
    /\ UNCHANGED <<cut, state>>

Kubernetes == Sync \/ PodScheduled
Faults == Abort \/ PodFails \/ NodeCut \/ NodeBack \/ Hibernation

Next == Reconcile \/ Failover \/ Kubernetes \/ Faults \/ \E p \in Pod : Boot(p)
-----------------------------------------------------------------------------
Matches(s, p) == s.role \in {"", label[p]} /\ s.instance \in {Any, p}

\* Where the Service sends clients.
Endpoints == {p \in Up : Matches(selector, p)}

TypeOK ==
    /\ mode \in Modes /\ cut \subseteq Pod
    /\ selector \in Selector /\ cached \in Selector
    /\ state \in [Pod -> {"absent", "pending", "down", "up"}]
    /\ label \in [Pod -> {"primary", "replica"}]
    /\ primary \in Pod \cup {Any} /\ hibernate \in BOOLEAN
    /\ pc \in {"idle", "clear", "narrow", "decide", "renarrow", "pods",
              "sentinels", "ask", "relabel"}
    /\ ordinal \in 0 .. Pods
    /\ changes \in 0 .. MaxChanges /\ aborts \in 0 .. MaxAborts

\* After failovers, hibernation, crashes and however stale the reads of the
\* Service were, clients come to reach the primary and nobody else, although
\* the selector itself never comes to rest.  While a node is cut off,
\* checkReachability ends every reconcile before the pods get new labels, and
\* the wide selector misses the new primary.
Routed == <>[](hibernate \/ cut # {} \/ Endpoints = {primary})

\* The Service points at the single current primary: while the primary and
\* the pods stay as they are, reconcileServices does not send clients away
\* from it.
LeaderStays ==
    [][~ hibernate /\ Endpoints = {primary} /\ primary' = primary
         /\ state' = state => Endpoints' = {primary}]_vars
=============================================================================

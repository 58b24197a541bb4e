------------------------- MODULE ClusterReconciler -------------------------
(***************************************************************************)
(* The operator's reconcile of one standalone-mode RedisCluster, one       *)
(* action per call that other parties can see: poll every instance, write  *)
(* status, fail over when the primary is unreachable, otherwise create and *)
(* scale pods and take one step of a rolling update.  One worker handles a *)
(* cluster at a time, so the operator is the only writer of                *)
(* status.currentPrimary and of the fences; its copy of both is refreshed  *)
(* by the response to the status patch of updateStatus, and is therefore   *)
(* not a variable of its own.  Its copy of instancesStatus is (mem): the   *)
(* instance managers write that map too.                                   *)
(***************************************************************************)
EXTENDS ClusterState

\* reconcile() returns; the request is queued again.
Return ==
    /\ pc' = "idle" /\ mode' = "none"
    /\ listed' = {} /\ polled' = {} /\ connected' = {} /\ mem' = {}
    /\ former' = NoPod /\ cand' = NoPod

Goto(label) ==
    /\ pc' = label
    /\ UNCHANGED <<mode, listed, polled, connected, mem, former, cand>>

\* Reconcile gets the object; pollInstanceStatuses lists the pods that have
\* an address.
StartReconcile ==
    /\ pc = "idle"
    /\ pc' = "poll" /\ mem' = reported
    /\ listed' = {p \in Pod : HasIP(p)} /\ polled' = {} /\ connected' = {}
    /\ UNCHANGED <<mode, former, cand>>
    /\ UNCHANGED <<specVars, apiVars, podVars, boundVars>>

\* pollPodStatus: an instance answers iff its redis-server does.
Poll(p) ==
    /\ pc = "poll" /\ p \in listed \ polled
    /\ polled' = polled \cup {p}
    /\ connected' = IF pod[p] = "up" THEN connected \cup {p} ELSE connected
    /\ UNCHANGED <<pc, mode, listed, mem, former, cand>>
    /\ UNCHANGED <<specVars, apiVars, podVars, boundVars>>

\* Fault: the answer of a live instance takes longer than statusPollTimeout.
PollTimesOut(p) ==
    /\ pc = "poll" /\ p \in listed \ polled /\ pod[p] = "up"
    /\ faults < MaxFaults /\ faults' = faults + 1
    /\ polled' = polled \cup {p}
    /\ UNCHANGED <<pc, mode, listed, connected, mem, former, cand>>
    /\ UNCHANGED <<specVars, apiVars, podVars, aborts, scalings>>

\* Faulty variant: the state of the primary itself is not looked at.
shouldTriggerFailover_AnyReplica ==
    primary # NoPod /\ connected \ {primary} # {}

shouldTriggerFailover ==
    primary # NoPod /\ primary \notin connected /\ connected \ {primary} # {}

\* checkReachability: too few entries do not count as unreachable.
checkReachability ==
    /\ Cardinality(listed) >= desired
    /\ Cardinality(connected) < desired

\* The merge patch of updateStatus carries only the entries that differ from
\* the operator's copy; the others keep the value the server has.
MergedStatus ==
    {p \in Pod : IF (p \in mem) = (p \in connected)
                 THEN p \in reported ELSE p \in connected}

\* Faulty variant: the names polled before the pods were listed again stay.
UpdateStatus_StalePolls ==
    /\ pc = "poll" /\ polled = listed
    /\ reported' = MergedStatus
    /\ pc' = "create" /\ mem' = MergedStatus /\ listed' = Existing
    /\ UNCHANGED <<mode, polled, connected, former, cand>>
    /\ UNCHANGED <<specVars, primary, fenced, podVars, boundVars>>

\* updateStatus, and the decision reconcile() takes from the same poll.
UpdateStatus ==
    /\ pc = "poll" /\ polled = listed
    /\ reported' = MergedStatus
    /\ \/ /\ shouldTriggerFailover
          /\ pc' = "fence" /\ mode' = "failover" /\ mem' = MergedStatus
          /\ listed' = {} /\ polled' = {}
          /\ UNCHANGED <<connected, former, cand>>
       \/ /\ ~ shouldTriggerFailover /\ checkReachability
          /\ Return
       \/ /\ ~ shouldTriggerFailover /\ ~ checkReachability
          /\ pc' = "create" /\ mem' = MergedStatus
          /\ listed' = Existing /\ polled' = {}
          /\ UNCHANGED <<mode, connected, former, cand>>
    /\ UNCHANGED <<specVars, primary, fenced, podVars, boundVars>>

\* Faulty variant: the candidate is promoted without a fence.
SetFence_Unfenced ==
    /\ pc = "fence"
    /\ cand' \in mem \ {primary}
    /\ former' = primary /\ pc' = "promote"
    /\ UNCHANGED <<mode, listed, polled, connected, mem>>
    /\ UNCHANGED <<specVars, apiVars, podVars, boundVars>>

\* setFence, then selectFailoverCandidate over the operator's copy of
\* instancesStatus, which the response to the fencing patch has refreshed.
\* Offsets are abstracted: any connected instance may be the most advanced.
SetFence ==
    /\ pc = "fence"
    /\ fenced' = fenced \cup {primary}
    /\ LET seen == IF primary \in fenced THEN mem ELSE reported
           candidates == seen \ {primary}
       IN \/ /\ candidates # {}
             /\ cand' \in candidates
             /\ former' = primary /\ pc' = "promote" /\ mem' = seen
             /\ UNCHANGED <<mode, listed, polled, connected>>
          \/ candidates = {} /\ Return
    /\ UNCHANGED <<specVars, primary, reported, podVars, boundVars>>

\* POST /v1/promote succeeds.
PromoteInstance ==
    /\ pc = "promote" /\ pod[cand] = "up"
    /\ of' = [of EXCEPT ![cand] = NoPod]
    /\ Goto("publish")
    /\ UNCHANGED <<specVars, apiVars, pod, podRev, plan, inflight, boundVars>>

\* The call fails: the error leaves the fence in place.
PromoteRefused ==
    /\ pc = "promote" /\ HasIP(cand) /\ pod[cand] # "up"
    /\ Return
    /\ UNCHANGED <<specVars, apiVars, podVars, boundVars>>

\* The candidate has no address: failover goes on without promoting it,
\* switchover returns an error.
PromoteSkipped ==
    /\ pc = "promote" /\ ~ HasIP(cand)
    /\ IF mode = "failover" THEN Goto("publish") ELSE Return
    /\ UNCHANGED <<specVars, apiVars, podVars, boundVars>>

\* Fault: the operator's 10 s run out before the instance manager answers.
PromoteTimesOut ==
    /\ pc = "promote" /\ pod[cand] = "up"
    /\ faults < MaxFaults /\ faults' = faults + 1
    /\ inflight' = inflight \cup {cand}
    /\ Return
    /\ UNCHANGED <<specVars, apiVars, pod, podRev, of, plan, aborts, scalings>>

\* The status patch that makes the candidate status.currentPrimary.
PublishPrimary ==
    /\ pc = "publish"
    /\ primary' = cand
    /\ Goto("selector")
    /\ UNCHANGED <<specVars, fenced, reported, podVars, boundVars>>

\* updateLeaderServiceSelector: no state of this module, but a call that can
\* fail between the status patch and clearFence.
UpdateLeaderService ==
    /\ pc = "selector"
    /\ Goto("unfence")
    /\ UNCHANGED <<specVars, apiVars, podVars, boundVars>>

\* Faulty variant: the fence is left in place.
ClearFence_Forgotten ==
    /\ pc = "unfence"
    /\ IF mode = "switchover" /\ Supervised THEN Goto("consume") ELSE Return
    /\ UNCHANGED <<specVars, apiVars, podVars, boundVars>>

\* clearFence; a supervised switchover still has its approval to consume.
ClearFence ==
    /\ pc = "unfence"
    /\ fenced' = fenced \ {former}
    /\ IF mode = "switchover" /\ Supervised THEN Goto("consume") ELSE Return
    /\ UNCHANGED <<specVars, primary, reported, podVars, boundVars>>

\* clearPrimaryUpdateApproval
ConsumeApproval ==
    /\ pc = "consume"
    /\ approved' = FALSE
    /\ Return
    /\ UNCHANGED <<desired, revision, apiVars, podVars, boundVars>>

Missing == {p \in Pod : p < desired /\ pod[p] = "absent"}

\* reconcilePods creates the missing ordinals in ascending order.
CreatePod ==
    /\ pc = "create" /\ Missing # {}
    /\ LET p == Min(Missing)
       IN /\ pod' = [pod EXCEPT ![p] = "pending"]
          /\ podRev' = [podRev EXCEPT ![p] = revision]
    /\ UNCHANGED <<specVars, apiVars, of, plan, inflight, ctlVars, boundVars>>

\* Faulty variant: one fewer.
Highest_Fewer(n, S) == {p \in S : Cardinality({q \in S : q > p}) < n - 1}

\* The n highest ordinals of S.
Highest(n, S) == {p \in S : Cardinality({q \in S : q > p}) < n}

\* Faulty variant: the primary is not spared.
ScalePods_AnyPod ==
    /\ pc = "create" /\ Missing = {}
    /\ DeletePods(Highest(Cardinality(listed) - desired, listed))
    /\ primary' = IF primary = NoPod THEN 0 ELSE primary
    /\ Goto("roll")
    /\ UNCHANGED <<specVars, fenced, reported, boundVars>>

\* The rest of reconcilePods: delete the highest ordinals beyond
\* spec.instances, except the primary, and appoint pod 0 of a new cluster.
ScalePods ==
    /\ pc = "create" /\ Missing = {}
    /\ DeletePods(Highest(Cardinality(listed) - desired, listed) \ {primary})
    /\ primary' = IF primary = NoPod THEN 0 ELSE primary
    /\ Goto("roll")
    /\ UNCHANGED <<specVars, fenced, reported, boundVars>>

\* rollingUpdate lists the pods from the informer cache, which may still be as
\* it was when reconcilePods listed them: without the pods created since, with
\* the pods deleted since.
CachedPods == {Existing, listed}

Outdated(seen) == {p \in seen : podRev[p] # revision}
OutdatedReplicas(seen) == Outdated(seen) \ {primary}

\* rollingUpdate, replicas first, highest ordinal first, one per reconcile.
RollReplica(seen) ==
    /\ pc = "roll" /\ OutdatedReplicas(seen) # {}
    /\ DeletePods({Max(OutdatedReplicas(seen))})
    /\ Return
    /\ UNCHANGED <<specVars, apiVars, boundVars>>

\* Faulty variant: a supervised update does not wait.
RollPrimary_Unapproved(seen) ==
    /\ pc = "roll" /\ Outdated(seen) = {primary} /\ seen # {primary}
    /\ pc' = "fence" /\ mode' = "switchover"
    /\ UNCHANGED <<listed, polled, connected, mem, former, cand>>
    /\ UNCHANGED <<specVars, apiVars, podVars, boundVars>>

\* The primary last: pauseForPrimaryApproval, deletion of the only pod, or a
\* switchover.
RollPrimary(seen) ==
    /\ pc = "roll" /\ Outdated(seen) = {primary}
    /\ \/ /\ Supervised /\ ~ approved
          /\ Return /\ UNCHANGED podVars
       \/ /\ Supervised => approved
          /\ seen = {primary}
          /\ DeletePods({primary})
          /\ IF Supervised THEN Goto("consume") ELSE Return
       \/ /\ Supervised => approved
          /\ seen # {primary}
          /\ pc' = "fence" /\ mode' = "switchover"
          /\ UNCHANGED <<listed, polled, connected, mem, former, cand>>
          /\ UNCHANGED podVars
    /\ UNCHANGED <<specVars, apiVars, boundVars>>

RollDone(seen) ==
    /\ pc = "roll" /\ Outdated(seen) = {}
    /\ Return
    /\ UNCHANGED <<specVars, apiVars, podVars, boundVars>>

\* The operator crashes, or an API call fails and reconcile() returns the
\* error.  What it wrote stays, what it knew is lost.
ReconcileAborts ==
    /\ pc # "idle" /\ aborts < MaxAborts
    /\ aborts' = aborts + 1
    /\ Return
    /\ UNCHANGED <<specVars, apiVars, podVars, faults, scalings>>
=============================================================================

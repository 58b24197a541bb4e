-------------------------- MODULE InstanceManager --------------------------
(***************************************************************************)
(* One pod: the kubelet that restarts it, the instance manager that boots  *)
(* redis-server (run.go), reconciles its role from the RedisCluster object *)
(* (instance-manager/reconciler) and serves POST /v1/promote.              *)
(***************************************************************************)
EXTENDS ClusterState

\* The kubelet gives the pod an address and starts its container.
AssignIP(p) ==
    /\ pod[p] = "pending"
    /\ pod' = [pod EXCEPT ![p] = "down"]
    /\ UNCHANGED <<specVars, apiVars, podRev, of, plan, inflight, ctlVars,
                   boundVars>>

\* Run reads status.currentPrimary and fixes the replicaof directive.  It
\* does not look at the fencing annotation.  When the primary has no address
\* Run returns an error and the container is restarted.
BootRead(p) ==
    /\ pod[p] = "down"
    /\ \/ primary \in {p, NoPod} /\ of' = [of EXCEPT ![p] = NoPod]
       \/ primary \in Pod \ {p} /\ HasIP(primary)
          /\ of' = [of EXCEPT ![p] = primary]
    /\ pod' = [pod EXCEPT ![p] = "booting"]
    /\ UNCHANGED <<specVars, apiVars, podRev, plan, inflight, ctlVars,
                   boundVars>>

\* Run starts redis-server with the directive it computed from that read.
BootStart(p) ==
    /\ pod[p] = "booting"
    /\ pod' = [pod EXCEPT ![p] = "up"]
    /\ UNCHANGED <<specVars, apiVars, podRev, of, plan, inflight, ctlVars,
                   boundVars>>

\* Reconcile gets the RedisCluster from its informer cache; what it then does
\* may happen arbitrarily later.
InstanceRead(p) ==
    /\ pod[p] = "up" /\ plan[p] = Idle
    /\ plan' = [plan EXCEPT ![p] = IF p \in fenced THEN Stop ELSE primary]
    /\ UNCHANGED <<specVars, apiVars, pod, podRev, of, inflight, ctlVars,
                   boundVars>>

\* requiresHardFence: redis-server is interrupted, the container exits.
InstanceStops(p) ==
    /\ plan[p] = Stop
    /\ ProcessGone(p)
    /\ pod' = [pod EXCEPT ![p] = "down"]
    /\ UNCHANGED <<specVars, apiVars, podRev, ctlVars, boundVars>>

\* reconcileRole on the primary: REPLICAOF NO ONE unless already a master,
\* then reportStatus.
InstanceLeads(p) ==
    /\ plan[p] = p
    /\ of' = [of EXCEPT ![p] = NoPod]
    /\ plan' = [plan EXCEPT ![p] = Idle]
    /\ reported' = reported \cup {p}
    /\ UNCHANGED <<specVars, primary, fenced, pod, podRev, inflight, ctlVars,
                   boundVars>>

\* Faulty variant: only a master is pointed at the primary; a replica keeps
\* the master it has.
InstanceFollows_MastersOnly(p) ==
    /\ plan[p] \in Pod \ {p} /\ HasIP(plan[p])
    /\ of' = [of EXCEPT ![p] = IF @ = NoPod THEN plan[p] ELSE @]
    /\ plan' = [plan EXCEPT ![p] = Idle]
    /\ reported' = reported \cup {p}
    /\ UNCHANGED <<specVars, primary, fenced, pod, podRev, inflight, ctlVars,
                   boundVars>>

\* reconcileRole on any other pod: REPLICAOF the primary's address unless it
\* already follows it, then reportStatus.
InstanceFollows(p) ==
    /\ plan[p] \in Pod \ {p} /\ HasIP(plan[p])
    /\ of' = [of EXCEPT ![p] = plan[p]]
    /\ plan' = [plan EXCEPT ![p] = Idle]
    /\ reported' = reported \cup {p}
    /\ UNCHANGED <<specVars, primary, fenced, pod, podRev, inflight, ctlVars,
                   boundVars>>

\* Faulty variant: an instance that cannot resolve the primary leads.
InstanceRetries_Leads(p) ==
    /\ \/ plan[p] = NoPod
       \/ plan[p] \in Pod \ {p} /\ ~ HasIP(plan[p])
    /\ plan' = [plan EXCEPT ![p] = Idle]
    /\ of' = [of EXCEPT ![p] = NoPod]
    /\ UNCHANGED <<specVars, apiVars, pod, podRev, inflight, ctlVars, boundVars>>

\* getPodIP fails: no primary is known or it has no address.  Reconcile
\* returns the error before reportStatus and is retried.
InstanceRetries(p) ==
    /\ \/ plan[p] = NoPod
       \/ plan[p] \in Pod \ {p} /\ ~ HasIP(plan[p])
    /\ plan' = [plan EXCEPT ![p] = Idle]
    /\ UNCHANGED <<specVars, apiVars, pod, podRev, of, inflight, ctlVars,
                   boundVars>>

InstanceActs(p) == \/ InstanceStops(p) \/ InstanceLeads(p)
                   \/ InstanceFollows(p) \/ InstanceRetries(p)

\* handlePromote runs for a request whose sender no longer waits for it.
LatePromote(p) ==
    /\ p \in inflight /\ pod[p] = "up"
    /\ of' = [of EXCEPT ![p] = NoPod]
    /\ inflight' = inflight \ {p}
    /\ UNCHANGED <<specVars, apiVars, pod, podRev, plan, ctlVars, boundVars>>

\* Fault: the container of p exits.
RedisExits(p) ==
    /\ pod[p] \in {"booting", "up"} /\ faults < MaxFaults
    /\ ProcessGone(p)
    /\ pod' = [pod EXCEPT ![p] = "down"]
    /\ faults' = faults + 1
    /\ UNCHANGED <<specVars, apiVars, podRev, ctlVars, aborts, scalings>>

\* Fault: the pod object is deleted (evicted, its node is removed).
PodLost(p) ==
    /\ pod[p] # "absent" /\ faults < MaxFaults
    /\ DeletePods({p})
    /\ faults' = faults + 1
    /\ UNCHANGED <<specVars, apiVars, ctlVars, aborts, scalings>>
=============================================================================

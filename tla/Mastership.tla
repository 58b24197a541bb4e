----------------------------- MODULE Mastership -----------------------------
(***************************************************************************)
(* Which redis-servers act as master while the operator, the instance      *)
(* managers and, in sentinel mode, Redis Sentinel each have a say: the     *)
(* pods and the Service of LeaderService, with the role of every           *)
(* redis-server, the liveness probe that stops an isolated master, and the *)
(* sentinels from which the operator learns the primary.                   *)
(*                                                                         *)
(* Sentinel itself is external: a quorum elects a replica when the master  *)
(* it knows is down or reports another role, the newest election reaches   *)
(* all sentinels, and other masters are made replicas of the elected one.  *)
(***************************************************************************)
EXTENDS LeaderService, FiniteSets

CONSTANT Sentinels   \* number of sentinel pods

ASSUME SentinelAssumption == Sentinels \in Nat

Sentinel == 1 .. Sentinels

VARIABLES
    master,   \* pods whose redis-server has, or will start with, role master
    warm,     \* pods whose probe knows the address of a peer
    view,     \* view[s]: the master sentinel s knows, Any if it does not run
              \*   yet, Off if there is no such pod
    elected,  \* the master of the newest election
    holders   \* sentinels that know of that election

sentinelVars == <<view, elected, holders>>
roleVars == <<master, warm, sentinelVars>>
all == <<vars, roleVars>>

MastershipInit ==
    /\ Init
    /\ master = {} /\ warm = {}
    /\ view = [s \in Sentinel |-> Off] /\ elected = Any /\ holders = {}

Running == {p \in Pod : state[p] = "up"}
-----------------------------------------------------------------------------
(* The instance manager *)

\* Run: a pod that is not the primary starts as a replica of the primary,
\* whose address it must find.
Start(p) ==
    /\ Boot(p)
    /\ primary \in {p, Any} \cup HasIP
    /\ master' = IF primary \in {p, Any} THEN master \cup {p} ELSE master \ {p}
    /\ warm' = warm \ {p}
    /\ UNCHANGED sentinelVars

\* reconcileRole, in either mode.
reconcileRole(p) ==
    /\ p \in Up
    /\ \/ p = primary /\ p \notin master /\ master' = master \cup {p}
       \/ /\ p # primary /\ p \in master /\ primary \in HasIP
          /\ master' = master \ {p}
    /\ UNCHANGED <<vars, warm, sentinelVars>>

\* handleHealthz on a master that reaches the API server: the addresses of
\* its peers are remembered.
RememberPeers(p) ==
    /\ p \in Up \cap master
    /\ warm' = IF HasIP \ {p} # {} THEN warm \cup {p} ELSE warm \ {p}
    /\ warm' # warm
    /\ UNCHANGED <<vars, master, sentinelVars>>

\* It reaches neither the API server nor one of the peers it remembers.
Isolated(p) == p \in Running \cap cut \cap warm

\* Faulty variant: a replica that was cut off is stopped, a master is not.
IsolationStops_Replicas(p) ==
    /\ Isolated(p) /\ p \notin master
    /\ state' = [state EXCEPT ![p] = "down"]
    /\ UNCHANGED <<selector, cached, label, primary, pc, ordinal, restVars, roleVars>>

\* handleHealthz fails on an isolated master: the kubelet restarts the container.
IsolationStops(p) ==
    /\ Isolated(p) /\ p \in master
    /\ state' = [state EXCEPT ![p] = "down"]
    /\ UNCHANGED <<selector, cached, label, primary, pc, ordinal, restVars, roleVars>>

Instance(p) ==
    Start(p) \/ reconcileRole(p) \/ RememberPeers(p) \/ IsolationStops(p)
-----------------------------------------------------------------------------
(* The operator *)

\* failover makes the new primary a master before it patches the status.
Promote == /\ Failover /\ master' = master \cup {primary'}
           /\ UNCHANGED <<warm, sentinelVars>>

\* Hibernation deletes the sentinel pods as well.
Hibernate ==
    /\ HibernatePods
    /\ view' = [s \in Sentinel |-> Off] /\ elected' = Any /\ holders' = {}
    /\ UNCHANGED <<master, warm>>

\* reconcileSentinelPods
CreateSentinels ==
    /\ pc = "sentinels" /\ pc' = "ask"
    /\ view' = [s \in Sentinel |-> IF view[s] = Off THEN Any ELSE view[s]]
    /\ UNCHANGED <<selector, cached, podVars, primary, ordinal, restVars, master,
                   warm, elected, holders>>

\* Faulty variant: the primary on record is kept.
AskSentinel_Keeps ==
    /\ pc = "ask" /\ pc' = "idle"
    /\ UNCHANGED <<selector, cached, podVars, primary, ordinal, restVars, roleVars>>

\* reconcileSentinelMaster, up to its status patch: the first sentinel that
\* answers is believed.
AskSentinel ==
    /\ pc = "ask"
    /\ \/ /\ \E s \in Sentinel : view[s] \in Pod \ {primary} /\ primary' = view[s]
          /\ pc' = "renarrow"
       \/ /\ \/ \E s \in Sentinel : view[s] = primary
             \/ \A s \in Sentinel : view[s] \notin Pod
          /\ UNCHANGED primary /\ pc' = "idle"
    /\ UNCHANGED <<selector, cached, podVars, ordinal, restVars, roleVars>>

\* updateDataPodRoleLabels
Relabel ==
    /\ pc = "relabel" /\ pc' = "idle"
    /\ label' = [p \in Pod |-> IF p = primary THEN "primary" ELSE "replica"]
    /\ UNCHANGED <<selector, cached, state, primary, ordinal, restVars, roleVars>>

Operator ==
    \/ Reconcile /\ pc # "idle" /\ UNCHANGED roleVars
    \/ EnsureLeader /\ UNCHANGED roleVars
    \/ Hibernate \/ Promote \/ CreateSentinels \/ AskSentinel \/ Relabel
-----------------------------------------------------------------------------
(* Redis Sentinel *)

\* RunSentinel: the configuration is written afresh, with the primary of the
\* status.  A sentinel may be restarted at any time.
RunSentinel(s) ==
    /\ view[s] # Off /\ primary \in HasIP /\ view[s] # primary
    /\ view[s] # Any => changes < MaxChanges
    /\ changes' = IF view[s] = Any THEN changes ELSE changes + 1
    /\ view' = [view EXCEPT ![s] = primary]
    /\ IF holders \subseteq {s} THEN elected' = primary /\ holders' = {s}
       ELSE holders' = holders \ {s} /\ UNCHANGED elected
    /\ UNCHANGED <<mode, cut, selector, cached, podVars, primary, hibernate, pc,
                   ordinal, aborts, master, warm>>

\* The others hear of the newest election.
Hear(s) ==
    /\ view[s] \in Pod /\ s \notin holders /\ holders # {}
    /\ view' = [view EXCEPT ![s] = elected] /\ holders' = holders \cup {s}
    /\ UNCHANGED <<vars, master, warm, elected>>

Elect ==
    /\ Change
    /\ 2 * Cardinality({s \in Sentinel : view[s] \in Pod}) > Sentinels
    /\ elected \notin Up \cap master
    /\ \E s \in holders, p \in Up \ {elected} :
         /\ elected' = p /\ master' = master \cup {p}
         /\ view' = [view EXCEPT ![s] = p] /\ holders' = {s}
    /\ UNCHANGED <<hibernate, cut, state, warm>>

\* A sentinel makes any other master a replica of the elected one.
Reconfigure(p) ==
    /\ p \in (Up \cap master) \ {elected} /\ elected \in Up \cap master
    /\ holders # {}
    /\ master' = master \ {p}
    /\ UNCHANGED <<vars, warm, sentinelVars>>

Gossip == \E s \in Sentinel : RunSentinel(s) \/ Hear(s)
-----------------------------------------------------------------------------
MastershipNext ==
    \/ Operator \/ Gossip \/ Elect
    \/ \E p \in Pod : Instance(p) \/ Reconfigure(p)
    \/ (Kubernetes \/ Faults) /\ UNCHANGED roleVars

Fairness ==
    /\ WF_all(Operator) /\ WF_vars(Sync) /\ WF_vars(PodScheduled)
    /\ \A p \in Pod : WF_all(Instance(p))
    /\ WF_all(\E s \in Sentinel : (view[s] = Any /\ RunSentinel(s)) \/ Hear(s))

MastershipSpec == MastershipInit /\ [][MastershipNext]_all /\ Fairness
-----------------------------------------------------------------------------
\* However often pods fail, nodes are cut off, Sentinel elects and sentinels
\* are restarted with an older master, in the end at most the primary on
\* record is a running master: reconcileRole demotes the others, and the
\* probe stops a master that was cut off, if it knew a peer.  Before a first
\* primary is on record every pod starts as a master.
OneMaster ==
    <>[](primary # Any =>
           \A p \in Running \cap master : p = primary \/ p \in cut \ warm)

\* checkReachability ends every reconcile before the operator appoints the
\* first primary or asks a sentinel, as long as a node is cut off; or every node is.
Blocked == cut = Pod \/ (cut # {} /\ (mode = "sentinel" \/ primary = Any))

\* The primary on record comes to be a master, and in sentinel mode the one
\* that the sentinels agree on.
Led ==
    <>[](\/ hibernate \/ Blocked
         \/ /\ primary \in Running \cap master
            /\ mode = "sentinel" => \A s \in Sentinel : view[s] = primary)

\* "Hands failover authority from the operator to Redis Sentinel": a pod that
\* Sentinel has elected is demoted only after another election.
SentinelDecides ==
    [][\A p \in Up : mode = "sentinel" /\ p = elected /\ p \in master /\ p \in Up'
         => p \in master' \/ elected' # p]_all
=============================================================================

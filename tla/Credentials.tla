---------------------------- MODULE Credentials ----------------------------
(***************************************************************************)
(* The password of a RedisCluster: the operator generates the auth Secret  *)
(* and publishes it in the connection Secret, the kubelet brings it to the *)
(* pods, and every instance manager sets it in its redis-server, while the *)
(* user rotates it.  An instance manager keeps the client, and with it the *)
(* password, that it was started with.                                     *)
(*                                                                         *)
(* A password is the number of its rotation, 0 for none.  Pod 0 is the     *)
(* primary, the others replicate from it.                                  *)
(***************************************************************************)
EXTENDS Integers

CONSTANTS
    Pods,          \* number of data pods
    Name,          \* names that a connection Secret may have
    UserOwned,     \* names under which the user keeps a Secret
    NoName,        \* spec.connectionSecret is not set
    MaxRotations,  \* bound: passwords
    MaxEdits,      \* bound: edits of spec.connectionSecret, deletions
    MaxFaults,     \* bound: lost connections, restarts
    MaxAborts      \* bound: reconciles of the operator that are cut off

ASSUME CredentialsAssumption ==
    /\ Pods \in Nat \ {0} /\ NoName \notin Name
    /\ UserOwned \subseteq Name
    /\ MaxRotations \in Nat \ {0} /\ MaxEdits \in Nat /\ MaxFaults \in Nat
    /\ MaxAborts \in Nat

Pod      == 0 .. Pods - 1
Replica  == Pod \ {0}
Password == 0 .. MaxRotations

VARIABLES
    secret,   \* the auth Secret
    cached,   \* the auth Secret in the operator's informer cache
    rotated,  \* passwords so far
    ref,      \* spec.authSecret is set
    want,     \* spec.connectionSecret.name
    seen,     \* the same in the operator's copy of the RedisCluster
    conn,     \* the connection Secret of each name
    pc,       \* the operator's next step
    proj,     \* each pod: the password in its projected volume
    boot,     \*   that of the instance manager's client, 0 if it is not running
    pool,     \*   that client has an authenticated connection
    require,  \*   requirepass
    mauth,    \*   masterauth
    mid,      \*   the password that is still to become masterauth
    due,      \* pods whose instance manager has a reconcile pending
    link,     \* replicas that are connected to the primary
    edits, faults, aborts

secretVars == <<secret, cached, rotated>>
specVars   == <<ref, want, seen>>
podVars    == <<proj, boot, pool, require, mauth, mid, due, link>>
bounds     == <<edits, faults, aborts>>
vars == <<secretVars, specVars, conn, pc, podVars, bounds>>

None == [p \in Pod |-> 0]

Init ==
    /\ secret = 0 /\ cached = 0 /\ rotated = 0
    /\ ref = FALSE /\ want \in Name \cup {NoName} /\ seen = NoName
    /\ conn = [n \in Name |-> 0] /\ pc = "secrets"
    /\ proj = None /\ boot = None /\ require = None /\ mauth = None /\ mid = None
    /\ pool = {} /\ due = {} /\ link = {} /\ edits = 0 /\ faults = 0 /\ aborts = 0
-----------------------------------------------------------------------------
(* The operator: reconcileSecrets and reconcileConnectionSecret *)

\* Faulty variant: the reference is written first.
ensureAuthSecret_RefFirst ==
    /\ pc = "secrets" /\ ~ ref
    /\ ref' = TRUE /\ pc' = "ref"
    /\ UNCHANGED <<secretVars, want, seen, conn, podVars, bounds>>

\* ensureAuthSecret, until the spec refers to the Secret: created where the
\* cache has none, an error if there is one.
ensureAuthSecret ==
    /\ pc = "secrets" /\ ~ ref
    /\ \/ /\ cached = 0 /\ secret = 0 /\ rotated < MaxRotations
          /\ secret' = rotated + 1 /\ rotated' = rotated + 1 /\ pc' = "ref"
       \/ cached = 0 /\ secret # 0 /\ UNCHANGED <<secret, rotated, pc>>
       \/ cached # 0 /\ UNCHANGED <<secret, rotated>> /\ pc' = "ref"
    /\ UNCHANGED <<cached, specVars, conn, podVars, bounds>>

\* Once it has succeeded, the patch of the spec.
PersistRef ==
    /\ pc = "ref" /\ ref' = TRUE /\ pc' = "versions"
    /\ UNCHANGED <<secretVars, want, seen, conn, podVars, bounds>>

\* The patch of status.secretsResourceVersion, whose answer brings the latest spec.
RecordVersions ==
    /\ pc = "versions" \/ (pc = "secrets" /\ ref)
    /\ seen' = want /\ pc' = "connection"
    /\ UNCHANGED <<secretVars, ref, want, conn, podVars, bounds>>

\* Faulty variant: the Secret is updated, and an error if it is not there.
ensureConnectionSecret_UpdateOnly ==
    /\ pc = "connection" /\ seen # NoName /\ cached # 0
    /\ IF seen \notin UserOwned /\ conn[seen] = 0
       THEN pc' = "secrets" /\ seen' = NoName /\ UNCHANGED conn
       ELSE /\ conn' = IF seen \in UserOwned THEN conn ELSE [conn EXCEPT ![seen] = cached]
            /\ pc' = "prune" /\ UNCHANGED seen
    /\ UNCHANGED <<secretVars, ref, want, podVars, bounds>>

\* ensureConnectionSecret leaves the Secrets of others alone; without the
\* auth Secret it is an error, and the reconcile starts again.
ensureConnectionSecret ==
    /\ pc = "connection" /\ seen # NoName /\ cached # 0
    /\ conn' = IF seen \in UserOwned THEN conn ELSE [conn EXCEPT ![seen] = cached]
    /\ pc' = "prune"
    /\ UNCHANGED <<secretVars, specVars, podVars, bounds>>
NoAuthSecret ==
    /\ pc = "connection" /\ seen # NoName /\ cached = 0
    /\ pc' = "secrets" /\ seen' = NoName
    /\ UNCHANGED <<secretVars, ref, want, conn, podVars, bounds>>

\* pruneConnectionSecrets
pruneConnectionSecrets ==
    /\ pc = "prune" \/ (pc = "connection" /\ seen = NoName)
    /\ conn' = [n \in Name |-> IF n = seen THEN conn[n] ELSE 0]
    /\ pc' = "poll"
    /\ UNCHANGED <<secretVars, specVars, podVars, bounds>>

\* Faulty variant: pods whose instance manager is not running are counted too.
Proceed_AllPods ==
    /\ pc = "poll" /\ pc' = "secrets" /\ seen' = NoName
    /\ due' = Pod
    /\ UNCHANGED <<secretVars, ref, want, conn, proj, boot, pool, require, mauth, mid,
                   link, bounds>>

\* The rest of the reconcile: the status that it writes, with the time of the
\* poll in it, wakes every instance manager.
Proceed ==
    /\ pc = "poll" /\ pc' = "secrets" /\ seen' = NoName
    /\ due' = {p \in Pod : boot[p] # 0}
    /\ UNCHANGED <<secretVars, ref, want, conn, proj, boot, pool, require, mauth, mid,
                   link, bounds>>

Operator ==
    \/ ensureAuthSecret \/ PersistRef \/ RecordVersions
    \/ ensureConnectionSecret \/ NoAuthSecret \/ pruneConnectionSecrets \/ Proceed

Sync ==
    /\ cached # secret /\ cached' = secret
    /\ UNCHANGED <<secret, rotated, specVars, conn, pc, podVars, bounds>>
-----------------------------------------------------------------------------
(* A pod *)

opVars == <<secretVars, specVars, conn, pc>>

\* The kubelet mounts the volume when the Secret is there, and later brings it
\* up to date; a Secret that is gone changes nothing.
Project(p) ==
    /\ ref /\ secret \notin {0, proj[p]}
    /\ proj' = [proj EXCEPT ![p] = secret]
    /\ UNCHANGED <<opVars, boot, pool, require, mauth, mid, due, link, bounds>>

\* Run: redis-server is started without a password; the client gets the one in
\* the volume.
Run(p) ==
    /\ boot[p] = 0 /\ proj[p] # 0
    /\ boot' = [boot EXCEPT ![p] = proj[p]] /\ pool' = pool \cup {p} /\ due' = due \cup {p}
    /\ UNCHANGED <<opVars, proj, require, mauth, mid, link, bounds>>

\* A new connection of the client authenticates with the old password.
Connects(p) == boot[p] # 0 /\ (p \in pool \/ require[p] \in {0, boot[p]})
LockedOut(p) == boot[p] # 0 /\ ~ Connects(p)

\* reconcileSecrets: CONFIG SET requirepass, ...
SetRequirepass(p) ==
    /\ p \in due /\ Connects(p) /\ mid[p] = 0 /\ pool' = pool \cup {p}
    /\ IF proj[p] \in {require[p]} \cap {mauth[p]}
       THEN due' = due \ {p} /\ UNCHANGED <<require, mid>>
       ELSE /\ require' = [require EXCEPT ![p] = proj[p]]
            /\ mid' = [mid EXCEPT ![p] = proj[p]] /\ UNCHANGED due
    /\ UNCHANGED <<opVars, proj, boot, mauth, link, bounds>>

\* Faulty variant: only the password of the server itself is set.
SetMasterauth_Skipped(p) ==
    /\ mid[p] # 0 /\ mid' = [mid EXCEPT ![p] = 0] /\ due' = due \ {p}
    /\ UNCHANGED <<opVars, proj, boot, pool, require, mauth, link, bounds>>

\* ... then masterauth; an error is logged, and the next reconcile tries again.
SetMasterauth(p) ==
    /\ mid[p] # 0 /\ mid' = [mid EXCEPT ![p] = 0] /\ due' = due \ {p}
    /\ IF Connects(p) THEN /\ mauth' = [mauth EXCEPT ![p] = mid[p]]
                           /\ pool' = pool \cup {p}
                      ELSE UNCHANGED <<mauth, pool>>
    /\ UNCHANGED <<opVars, proj, boot, require, link, bounds>>

\* Replication: a replica connects with the password the primary requires.
Replicate(p) ==
    /\ p \in Replica \ link /\ boot[p] # 0 /\ boot[0] # 0
    /\ mauth[p] = require[0]
    /\ link' = link \cup {p}
    /\ UNCHANGED <<opVars, proj, boot, pool, require, mauth, mid, due, bounds>>

Instance(p) == Run(p) \/ SetRequirepass(p) \/ SetMasterauth(p)
-----------------------------------------------------------------------------
(* Users and faults *)

Rotate ==
    /\ ref /\ rotated < MaxRotations
    /\ secret' = rotated + 1 /\ rotated' = rotated + 1
    /\ UNCHANGED <<cached, specVars, conn, pc, podVars, bounds>>

\* The connection Secret gets another name or none; the auth Secret is deleted.
Edit ==
    /\ edits < MaxEdits /\ edits' = edits + 1
    /\ \/ want' \in (Name \cup {NoName}) \ {want} /\ UNCHANGED secret
       \/ secret # 0 /\ secret' = 0 /\ UNCHANGED want
    /\ UNCHANGED <<cached, rotated, ref, seen, conn, pc, podVars, faults, aborts>>

\* The operator crashes or a call fails.
Abort ==
    /\ aborts < MaxAborts /\ aborts' = aborts + 1
    /\ pc # "secrets" /\ pc' = "secrets" /\ seen' = NoName
    /\ UNCHANGED <<secretVars, ref, want, conn, podVars, edits, faults>>

Fault ==
    /\ faults < MaxFaults /\ faults' = faults + 1
    /\ UNCHANGED <<opVars, edits, aborts, proj>>

\* A connection of an instance manager, or of a replica, is closed.
Disconnect(p) ==
    /\ Fault
    /\ \/ p \in pool /\ pool' = pool \ {p} /\ UNCHANGED link
       \/ p \in link /\ link' = link \ {p} /\ UNCHANGED pool
    /\ UNCHANGED <<boot, require, mauth, mid, due>>

\* The container restarts.
Restart(p) ==
    /\ Fault /\ boot[p] # 0
    /\ boot' = [boot EXCEPT ![p] = 0] /\ pool' = pool \ {p} /\ due' = due \ {p}
    /\ require' = [require EXCEPT ![p] = 0] /\ mauth' = [mauth EXCEPT ![p] = 0]
    /\ mid' = [mid EXCEPT ![p] = 0]
    /\ link' = IF p = 0 THEN {} ELSE link \ {p}

Next ==
    \/ Operator \/ Sync \/ Rotate \/ Edit \/ Abort
    \/ \E p \in Pod : \/ Instance(p) \/ Project(p) \/ Replicate(p)
                     \/ Disconnect(p) \/ Restart(p)

Fairness ==
    /\ WF_vars(Operator) /\ WF_vars(Sync)
    /\ \A p \in Pod : WF_vars(Instance(p)) /\ WF_vars(Project(p)) /\ WF_vars(Replicate(p))

Spec == Init /\ [][Next]_vars /\ Fairness
-----------------------------------------------------------------------------
TypeOK ==
    /\ {secret, cached, rotated} \subseteq Password
    /\ ref \in BOOLEAN /\ {want, seen} \subseteq Name \cup {NoName}
    /\ conn \in [Name -> Password]
    /\ pc \in {"secrets", "ref", "versions", "connection", "prune", "poll"}
    /\ {proj, boot, require, mauth, mid} \subseteq [Pod -> Password]
    /\ pool \cup due \subseteq {p \in Pod : boot[p] # 0} /\ link \subseteq Replica
    /\ edits \in 0 .. MaxEdits /\ faults \in 0 .. MaxFaults /\ aborts \in 0 .. MaxAborts

\* The last password comes to every pod, as requirepass and as masterauth, and
\* every replica comes to replicate with it, unless an instance manager lost
\* its connections after a rotation: then it is locked out for good.
RotationLands ==
    <>[](\/ secret = 0 /\ edits > 0
         \/ \E p \in Pod : LockedOut(p)
         \/ /\ secret # 0 /\ link = Replica
            /\ \A p \in Pod : require[p] = secret /\ mauth[p] = secret)

\* The connection Secret comes to have the name and the password it should, and
\* in the end no other Secret holds the password, nor does one of the user's.
ConnectionCurrent ==
    <>[](\/ secret = 0 /\ edits > 0
         \/ \A n \in Name :
              conn[n] = IF n = want /\ n \notin UserOwned THEN secret ELSE 0)

\* The reconcile gets past the Secrets to the status poll and to failover,
\* unless the auth Secret was deleted while a connection Secret is wanted.
ReachesPoll == (<>[](secret = 0 /\ edits > 0 /\ want # NoName)) \/ []<>(pc = "poll")

\* "Rotate Redis authentication credentials with no planned pod restarts."
NeverLockedOut == \A p \in Pod : ~ LockedOut(p)
=============================================================================

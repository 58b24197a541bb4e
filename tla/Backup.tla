------------------------------- MODULE Backup -------------------------------
(***************************************************************************)
(* One RedisBackup: BackupReconciler takes it from creation to Completed   *)
(* or Failed by asking instance managers, one shard after the other, to    *)
(* save and upload their data.  A cluster that is not in cluster mode is   *)
(* backed up as a single shard.                                            *)
(***************************************************************************)
EXTENDS Integers, FiniteSets, FiniteSetsExt, Functions

CONSTANTS
    ClusterMode,    \* spec.mode = cluster
    Shards,         \* number of shards; 1 unless ClusterMode
    DataPods,       \* number of data pods; pod s-1 is recorded as primary of s
    SentinelPods,   \* number of sentinel pods
    PreferReplica,  \* spec.target = prefer-replica
    MaxChanges,     \* bound: changes of the cluster's phase and of addresses
    MaxAborts       \* bound: operator crashes

ASSUME ShardsAssumption ==
    /\ Shards \in Nat \ {0} /\ DataPods \in Nat /\ DataPods >= Shards
    /\ SentinelPods \in Nat /\ MaxChanges \in Nat /\ MaxAborts \in Nat
    /\ ClusterMode \in BOOLEAN /\ PreferReplica \in BOOLEAN
    /\ ~ ClusterMode => Shards = 1

Shard    == 1 .. Shards
DataPod  == 0 .. DataPods - 1
Sentinel == DataPods .. DataPods + SentinelPods - 1
Pod      == DataPod \cup Sentinel

VARIABLES
    phase,     \* status.phase, "" at creation
    seen,      \* the phase in the operator's informer cache
    recorded,  \* shards with an artifact in status
    stored,    \* shards with an object under this backup's key
    valid,     \* spec.destination passes Validate
    cluster,   \* the RedisCluster: "healthy", "unhealthy" or "gone"
    addr,      \* pods that have an IP
    label,     \* the pod labelled as primary of each shard
    pc,        \* "idle" or "trigger": between the Running patch and the last
    targets,   \*   pod to ask, by shard
    done,      \*   shards whose instance manager has answered
    changes, aborts

vars == <<phase, seen, recorded, stored, valid, cluster, addr, label, pc, targets,
          done, changes, aborts>>
envVars == <<valid, cluster, addr, label, changes>>

Terminal == {"Completed", "Failed"}
Unstarted == {"", "Pending"}

Init ==
    /\ phase = "" /\ seen = "" /\ recorded = {} /\ stored = {}
    /\ valid \in BOOLEAN /\ cluster \in {"healthy", "unhealthy"}
    /\ addr = Pod
    /\ label \in {[s \in Shard |-> s - 1], [s \in Shard |-> DataPods - s]}
    /\ pc = "idle" /\ targets = << >> /\ done = {}
    /\ changes = 0 /\ aborts = 0
-----------------------------------------------------------------------------
\* selectTargetPod: any pod of the cluster but the primary, sentinels
\* included, or else the primary.
selectTargetPod ==
    LET others == IF PreferReplica THEN addr \ {0} ELSE {}
    IN IF others # {} THEN others ELSE addr \cap {0}

\* selectClusterBackupTargets: the primary status.shards records for each
\* shard, without the shards whose primary has no address; if that leaves
\* nothing, the pods labelled as primaries.
selectClusterBackupTargets ==
    LET reachable(f) == [s \in {t \in Shard : f[t] \in addr} |-> f[s]]
        recordedPrimary == [s \in Shard |-> s - 1]
    IN IF DOMAIN reachable(recordedPrimary) # {}
       THEN reachable(recordedPrimary) ELSE reachable(label)

TargetMaps ==
    IF ClusterMode THEN {selectClusterBackupTargets}
    ELSE {[s \in Shard |-> p] : p \in selectTargetPod}

\* Faulty variant: the answers of the run are kept.
Finish_KeepsAnswers(result) ==
    /\ phase' = result
    /\ pc' = "idle" /\ targets' = << >> /\ UNCHANGED done

\* The reconcile ends with a status patch; what it knew is gone.
Finish(result) ==
    /\ phase' = result
    /\ pc' = "idle" /\ targets' = << >> /\ done' = {}

\* The early returns of Reconcile: cluster gone, not healthy, destination
\* invalid, no pod to ask.  Running is left alone: somebody must be waiting.
Decline ==
    /\ pc = "idle" /\ seen \notin Terminal
    /\ \/ cluster = "gone" /\ Finish("Failed")
       \/ cluster = "unhealthy" /\ seen # "Pending" /\ Finish("Pending")
       \/ /\ cluster = "healthy" /\ ~ valid
          /\ Finish("Failed")
       \/ /\ cluster = "healthy" /\ valid
          /\ \A t \in TargetMaps : DOMAIN t = {}
          /\ Finish("Failed")
    /\ UNCHANGED <<recorded, stored, envVars, seen, aborts>>

\* Faulty variant: a Pending backup is not looked at again.
Start_NewOnly ==
    /\ pc = "idle" /\ seen = ""
    /\ cluster = "healthy" /\ valid
    /\ \E t \in TargetMaps : DOMAIN t # {} /\ targets' = t
    /\ phase' = "Running" /\ pc' = "trigger" /\ done' = {}
    /\ UNCHANGED <<recorded, stored, envVars, seen, aborts>>

\* startBackup, startClusterBackup: the patch to Running.
Start ==
    /\ pc = "idle" /\ seen \in Unstarted
    /\ cluster = "healthy" /\ valid
    /\ \E t \in TargetMaps : DOMAIN t # {} /\ targets' = t
    /\ phase' = "Running" /\ pc' = "trigger" /\ done' = {}
    /\ UNCHANGED <<recorded, stored, envVars, seen, aborts>>

\* The shards are asked in order.
Current == Min(DOMAIN targets \ done)

\* Faulty variant: the answer does not wait for the upload.
Uploaded_Early ==
    /\ pc = "trigger" /\ done # DOMAIN targets
    /\ targets[Current] \in addr \cap DataPod
    /\ done' = done \cup {Current}
    /\ UNCHANGED <<phase, recorded, stored, envVars, seen, pc, targets, aborts>>

\* handleBackup: BGSAVE or BGREWRITEAOF, upload, answer.
Uploaded ==
    /\ pc = "trigger" /\ done # DOMAIN targets
    /\ targets[Current] \in addr \cap DataPod
    /\ stored' = stored \cup {Current}
    /\ done' = done \cup {Current}
    /\ UNCHANGED <<phase, recorded, envVars, seen, pc, targets, aborts>>

\* The save, the upload or the request fails, with or without the object
\* stored: the backup has failed, whatever other shards have answered.
UploadFails ==
    /\ pc = "trigger" /\ done # DOMAIN targets
    /\ \/ UNCHANGED stored
       \/ /\ targets[Current] \in addr \cap DataPod
          /\ stored' = stored \cup {Current}
    /\ Finish("Failed")
    /\ UNCHANGED <<recorded, envVars, seen, aborts>>

\* setBackupCompleted
Complete ==
    /\ pc = "trigger" /\ done = DOMAIN targets
    /\ recorded' = done
    /\ Finish("Completed")
    /\ UNCHANGED <<stored, envVars, seen, aborts>>

\* The operator crashes or a status patch fails; the request it waited for is cancelled, possibly
\* after the upload.
OperatorCrash ==
    /\ pc = "trigger" /\ aborts < MaxAborts
    /\ aborts' = aborts + 1
    /\ \/ UNCHANGED stored
       \/ /\ done # DOMAIN targets /\ targets[Current] \in addr \cap DataPod
          /\ stored' = stored \cup {Current}
    /\ Finish(phase)
    /\ UNCHANGED <<recorded, seen, envVars>>

\* The cluster changes its phase, or is deleted; pods lose and get addresses.
ClusterChanges ==
    /\ changes < MaxChanges /\ changes' = changes + 1
    /\ \/ cluster # "gone" /\ cluster' \in {"healthy", "unhealthy", "gone"}
          /\ UNCHANGED addr
       \/ \E p \in Pod : addr' = SymDiff(addr, {p}) /\ UNCHANGED cluster
    /\ UNCHANGED <<phase, seen, recorded, stored, valid, label, pc, targets,
                   done, aborts>>

\* The informer cache catches up.
Sync ==
    /\ seen # phase /\ seen' = phase
    /\ UNCHANGED <<phase, recorded, stored, envVars, pc, targets, done, aborts>>

Reconcile == Decline \/ Start \/ Uploaded \/ UploadFails \/ Complete

Next == Reconcile \/ Sync \/ OperatorCrash \/ ClusterChanges

Spec == Init /\ [][Next]_vars /\ WF_vars(Reconcile) /\ WF_vars(Sync)
-----------------------------------------------------------------------------
TypeOK ==
    /\ {phase, seen} \subseteq {"", "Pending", "Running"} \cup Terminal
    /\ recorded \subseteq Shard /\ stored \subseteq Shard
    /\ cluster \in {"healthy", "unhealthy", "gone"} /\ valid \in BOOLEAN
    /\ addr \subseteq Pod /\ label \in [Shard -> DataPod]
    /\ pc \in {"idle", "trigger"} /\ done \subseteq DOMAIN targets
    /\ DOMAIN targets \subseteq Shard /\ Range(targets) \subseteq Pod
    /\ changes \in 0 .. MaxChanges /\ aborts \in 0 .. MaxAborts

\* A Completed backup has something to restore: it names at least one
\* artifact, and every artifact setBackupCompleted records is in the object
\* store, whatever crashed, failed or was started again before.
CompletedIsStored ==
    phase = "Completed" => recorded # {} /\ recorded \subseteq stored

\* A backup ends, unless its cluster stays unhealthy or the operator crashed
\* while it was Running: Reconcile waits for nobody then.
Finishes == <>[](\/ phase \in Terminal
                 \/ cluster = "unhealthy"
                 \/ phase = "Running" /\ aborts > 0)

\* A backup runs on the primary or on a replica.
RunsOnDataPod == Range(targets) \subseteq DataPod

\* A Completed cluster backup holds every shard.
CompletedIsWhole == phase = "Completed" => recorded = Shard
=============================================================================

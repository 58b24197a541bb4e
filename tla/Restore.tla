------------------------------ MODULE Restore ------------------------------
(***************************************************************************)
(* A new RedisCluster with spec.bootstrap.backupName, restored from the    *)
(* RedisBackup of module Backup: the operator gives the first primary, or  *)
(* in cluster mode the primary of every shard, an init container that      *)
(* downloads an artifact and puts it in place before redis-server starts.  *)
(*                                                                         *)
(* The pods are those primaries; pod p is to serve shard p + 1.  Replicas  *)
(* copy their data from them.  A volume outlives its pod.                  *)
(***************************************************************************)
EXTENDS Backup

CONSTANTS
    Replicas,      \* the choices of spec.replicasPerShard for the new cluster
    MaxLosses,     \* bound: deletions of a pod
    MaxRestarts    \* bound: failures of an init container, restarts of a pod

ASSUME RestoreAssumption ==
    Replicas \subseteq Nat /\ MaxLosses \in Nat /\ MaxRestarts \in Nat

Member == 0 .. Shards - 1
Own(p) == p + 1
Empty  == 0

VARIABLES
    archive,       \* the artifacts are AOF archives, not RDB files
    replicas,      \* spec.replicasPerShard of the restored cluster
    life,          \* life[p]: "absent", "waiting" (for init or a start), "up"
    init,          \* pods with a restore-data init container
    stage,         \* stage[p]: how far that container is
    disk,          \* disk[p]: the shard whose data the volume holds, or Empty
    formed,        \* cluster mode: every slot has been given to its primary
    bootstrapped,  \* status.currentPrimary or status.bootstrapCompleted is set
    losses, restarts

given == <<archive, replicas>>
faults == <<losses, restarts>>
restoreVars == <<given, life, init, stage, disk, formed, bootstrapped, faults>>

RestoreInit ==
    /\ Init /\ archive \in BOOLEAN /\ replicas \in Replicas
    /\ life = [p \in Member |-> "absent"] /\ init = {}
    /\ stage = [p \in Member |-> "none"] /\ disk = [p \in Member |-> Empty]
    /\ formed = FALSE /\ bootstrapped = FALSE /\ losses = 0 /\ restarts = 0
-----------------------------------------------------------------------------
(* The operator *)

shouldRestoreFromBackup(p) == ~ bootstrapped /\ (ClusterMode \/ p = 0)

\* getBootstrapBackup, without an error.
BackupReady == phase = "Completed" /\ valid

\* reconcilePods, createPodWithLabels: in ascending order; an error with the
\* backup ends the reconcile before the pod is created.
CreateMember(p) ==
    /\ life[p] = "absent" /\ \A q \in Member : q < p => life[q] # "absent"
    /\ shouldRestoreFromBackup(p) => BackupReady
    /\ life' = [life EXCEPT ![p] = "waiting"]
    /\ init' = IF shouldRestoreFromBackup(p) THEN init \cup {p} ELSE init \ {p}
    /\ UNCHANGED <<given, stage, disk, formed, bootstrapped, faults>>

\* reconcileClusterBootstrap gives every slot to the primary of its range.
Form ==
    /\ ClusterMode /\ ~ formed
    /\ \A p \in Member : life[p] = "up"
    /\ formed' = TRUE
    /\ UNCHANGED <<given, life, init, stage, disk, bootstrapped, faults>>

\* The end of reconcilePods appoints pod 0; in cluster mode updateStatus sets
\* bootstrapCompleted once every slot is served.
RecordBootstrap ==
    /\ ~ bootstrapped
    /\ IF ClusterMode THEN formed ELSE \A p \in Member : life[p] # "absent"
    /\ bootstrapped' = TRUE
    /\ UNCHANGED <<given, life, init, stage, disk, formed, faults>>
-----------------------------------------------------------------------------
(* The restore-data container: Run, in restore.go *)

Restoring(p, at) == life[p] = "waiting" /\ p \in init /\ stage[p] = at
Reach(p, at) ==
    /\ stage' = [stage EXCEPT ![p] = at]
    /\ UNCHANGED <<given, life, init, formed, bootstrapped, faults>>

\* clusterShardFromPod: the pods of a shard are taken to be consecutive.
shardFromPod(p) == p \div (1 + replicas) + 1
shardPrimary(p) == p % (1 + replicas) = 0
Artifact(p) == IF ClusterMode THEN shardFromPod(p) ELSE 1

\* The container leaves a replica alone.
SkipRestore(p) ==
    /\ Restoring(p, "none") /\ ClusterMode /\ ~ shardPrimary(p)
    /\ Reach(p, "done") /\ UNCHANGED disk

\* Faulty variant: a file that is there already is an error.
Download_NoOverwrite(p) ==
    /\ Restoring(p, "none") /\ (ClusterMode => shardPrimary(p))
    /\ phase = "Completed" /\ Artifact(p) \in recorded \cap stored
    /\ disk[p] = Empty
    /\ Reach(p, "fetched") /\ UNCHANGED disk

\* The artifact is downloaded to a temporary file.  A missing artifact is an
\* error, and the kubelet tries again.
Download(p) ==
    /\ Restoring(p, "none") /\ (ClusterMode => shardPrimary(p))
    /\ phase = "Completed" /\ Artifact(p) \in recorded \cap stored
    /\ Reach(p, "fetched") /\ UNCHANGED disk

\* An RDB file is renamed over the old one, ...
InstallFile(p) ==
    /\ Restoring(p, "fetched") /\ ~ archive
    /\ disk' = [disk EXCEPT ![p] = Artifact(p)]
    /\ Reach(p, "done")

\* ... an AOF archive is unpacked into a staging directory, and the old
\* directory first removed, then replaced.
Unpack(p) ==
    /\ Restoring(p, "fetched") /\ archive
    /\ Reach(p, "staged") /\ UNCHANGED disk
RemoveOld(p) ==
    /\ Restoring(p, "staged")
    /\ disk' = [disk EXCEPT ![p] = Empty]
    /\ Reach(p, "removed")
RenameStaging(p) ==
    /\ Restoring(p, "removed")
    /\ disk' = [disk EXCEPT ![p] = Artifact(p)]
    /\ Reach(p, "done")
-----------------------------------------------------------------------------
(* Kubernetes *)

\* Faulty variant: redis-server does not wait for the container.
StartRedis_Early(p) ==
    /\ life[p] = "waiting"
    /\ life' = [life EXCEPT ![p] = "up"]
    /\ UNCHANGED <<given, init, stage, disk, formed, bootstrapped, faults>>

\* The instance manager starts when the init containers have succeeded.
StartRedis(p) ==
    /\ life[p] = "waiting" /\ (p \in init => stage[p] = "done")
    /\ life' = [life EXCEPT ![p] = "up"]
    /\ UNCHANGED <<given, init, stage, disk, formed, bootstrapped, faults>>

\* The restore-data container fails, or the pod is started again (its node
\* was): the init containers run from the beginning.
PodRestarts(p) ==
    /\ life[p] # "absent" /\ restarts < MaxRestarts
    /\ life' = [life EXCEPT ![p] = "waiting"]
    /\ stage' = [stage EXCEPT ![p] = "none"]
    /\ restarts' = restarts + 1
    /\ UNCHANGED <<given, init, disk, formed, bootstrapped, losses>>

\* The pod is deleted; its volume stays.
MemberLost(p) ==
    /\ life[p] # "absent" /\ losses < MaxLosses
    /\ life' = [life EXCEPT ![p] = "absent"]
    /\ stage' = [stage EXCEPT ![p] = "none"]
    /\ losses' = losses + 1
    /\ UNCHANGED <<given, init, disk, formed, bootstrapped, restarts>>
-----------------------------------------------------------------------------
RestoreStep ==
    \/ Form \/ RecordBootstrap
    \/ \E p \in Member : \/ CreateMember(p) \/ SkipRestore(p) \/ Download(p)
                         \/ InstallFile(p) \/ Unpack(p) \/ RemoveOld(p)
                         \/ RenameStaging(p) \/ StartRedis(p)
RestoreFault == \E p \in Member : PodRestarts(p) \/ MemberLost(p)

RestoreNext == \/ Next /\ UNCHANGED restoreVars
               \/ (RestoreStep \/ RestoreFault) /\ UNCHANGED vars

RestoreFairness == /\ WF_vars(Reconcile) /\ WF_vars(Sync)
                   /\ WF_restoreVars(RestoreStep)

RestoreSpec == /\ RestoreInit
               /\ [][RestoreNext]_<<vars, restoreVars>>
               /\ RestoreFairness
-----------------------------------------------------------------------------
\* redis-server of a shard's primary starts with the data of that shard,
\* however often the restore-data container fails or runs again, and whether
\* its artifact is a file or an archive: only a pod that was deleted before
\* its restore was finished comes back without the container, and empty.  The
\* container must know the pod's shard: see EveryPrimaryRestored.
Loaded(p) == disk[p] = Own(p) \/ (losses > 0 /\ disk[p] = Empty)
Aligned(p) == ClusterMode => shardPrimary(p) /\ shardFromPod(p) = Own(p)
ServesOwnShard ==
    \A p \in Member : life[p] = "up" /\ Aligned(p) => Loaded(p)

\* "Replicas should not bootstrap from backup artifacts; they resync from
\* shard primary": the pods that bootstrap are the primaries of the layout,
\* each from the artifact of its shard.
EveryPrimaryRestored == \A p \in Member : life[p] = "up" => Loaded(p)

\* A cluster that is to be restored from a backup of every shard comes up.
RestoreEnds ==
    <>[](\/ phase # "Completed" \/ recorded # Shard
         \/ bootstrapped /\ \A p \in Member : life[p] = "up")

\* "Restore is a one-time bootstrap action for the very first primary only."
RestoredOnce ==
    [][\A p \in Member : disk[p] # Empty => disk'[p] # Empty]_restoreVars
=============================================================================

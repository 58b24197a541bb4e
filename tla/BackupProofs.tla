---------------------------- MODULE BackupProofs ----------------------------
(***************************************************************************)
(* Proofs about Backup and about Restore, for every number of shards,      *)
(* replicas, pods and faults.                                              *)
(***************************************************************************)
EXTENDS Restore, WellFoundedInduction, TLAPS

\* What makes CompletedIsStored inductive: a run in progress has at least one
\* shard to ask, is recorded as Running, and has an object for every shard
\* that has answered.
RunInv ==
    /\ pc = "trigger" =>
         phase = "Running" /\ DOMAIN targets # {} /\ done \subseteq stored
    /\ CompletedIsStored

LEMMA RunStep == ASSUME RunInv, [Next]_vars PROVE RunInv'
<1> USE DEF RunInv, CompletedIsStored, envVars, Finish, Terminal, Unstarted
<1>1. CASE Decline
  BY <1>1 DEF Decline
<1>2. CASE Start
  BY <1>2, Zenon DEF Start
<1>3. CASE Uploaded
  BY <1>3 DEF Uploaded
<1>4. CASE UploadFails
  BY <1>4 DEF UploadFails
<1>5. CASE Complete
  BY <1>5 DEF Complete
<1>6. CASE OperatorCrash
  BY <1>6 DEF OperatorCrash
<1>7. CASE ClusterChanges
  BY <1>7 DEF ClusterChanges
<1>8. CASE Sync
  BY <1>8 DEF Sync
<1>9. CASE UNCHANGED vars
  BY <1>9 DEF vars
<1> QED
  BY <1>1, <1>2, <1>3, <1>4, <1>5, <1>6, <1>7, <1>8, <1>9 DEF Next, Reconcile

\* Whatever crashes, fails or is started again: a Completed RedisBackup names
\* artifacts, and only artifacts that were uploaded.
THEOREM CompletedMeansStored == Spec => []CompletedIsStored
<1>1. Init => RunInv
  BY Zenon DEF Init, RunInv, CompletedIsStored
<1>2. RunInv /\ [Next]_vars => RunInv'
  BY RunStep
<1>3. RunInv => CompletedIsStored
  BY DEF RunInv
<1> QED
  BY <1>1, <1>2, <1>3, PTL DEF Spec
-----------------------------------------------------------------------------
LEMMA BoundsAreNat == MaxChanges \in Nat /\ MaxAborts \in Nat
BY ShardsAssumption

\* The shard that is asked next is one of those that have not answered.
LEMMA CurrentShard ==
    ASSUME TypeOK, done # DOMAIN targets
    PROVE  Current \in DOMAIN targets \ done
<1> DEFINE S == DOMAIN targets \ done
<1>0. DOMAIN targets \subseteq Shard /\ done \subseteq DOMAIN targets
  BY Zenon DEF TypeOK
<1>1. S \subseteq Nat /\ S # {}
  <2>1. Shard \subseteq Nat
    BY ShardsAssumption DEF Shard
  <2> QED
    BY <1>0, <2>1, Zenon
<1>2. PICK x \in S : \A y \in S : ~ (<<y, x>> \in OpToRel(<, Nat))
  BY <1>1, NatLessThanWellFounded, WFMin, Zenon
<1>3. ASSUME NEW y \in S PROVE x =< y
  <2>1. x \in Nat /\ y \in Nat
    BY <1>1
  <2>2. ~ (y < x)
    BY <1>2, <2>1, Zenon DEF OpToRel
  <2> QED
    BY <2>1, <2>2
<1> QED
  BY <1>3 DEF Current, Min

\* Whatever is asked for an artifact is a pod of the cluster.
LEMMA TargetsAreAddressed ==
    ASSUME TypeOK, NEW t \in TargetMaps
    PROVE  DOMAIN t \subseteq Shard /\ Range(t) \subseteq Pod
<1>1. CASE ClusterMode
  BY <1>1, Zenon DEF TargetMaps, selectClusterBackupTargets, TypeOK, Range
<1>2. CASE ~ ClusterMode
  <2>1. PICK p \in selectTargetPod : t = [s \in Shard |-> p]
    BY <1>2 DEF TargetMaps
  <2>2. p \in Pod
    BY Zenon DEF selectTargetPod, TypeOK
  <2> QED
    BY <2>1, <2>2 DEF Range
<1> QED
  BY <1>1, <1>2

LEMMA TypeStep == ASSUME TypeOK, [Next]_vars PROVE TypeOK'
<1> USE DEF envVars, Terminal, Unstarted
<1>0. DOMAIN << >> = {} /\ Range(<< >>) = {}
  BY DEF Range
<1>1. CASE Decline
  BY <1>0, <1>1, Zenon DEF TypeOK, Decline, Finish
<1>2. CASE Start
  <2>1. PICK t \in TargetMaps : targets' = t
    BY <1>2, Zenon DEF Start
  <2>2. DOMAIN targets' \subseteq Shard /\ Range(targets') \subseteq Pod
    BY <2>1, TargetsAreAddressed
  <2> QED
    BY <1>2, <2>2, Zenon DEF TypeOK, Start
<1>3. CASE Uploaded
  BY <1>3, CurrentShard, Zenon DEF TypeOK, Uploaded
<1>4. CASE UploadFails
  BY <1>0, <1>4, CurrentShard, Zenon DEF TypeOK, UploadFails, Finish
<1>5. CASE Complete
  BY <1>0, <1>5, Zenon DEF TypeOK, Complete, Finish
<1>6. CASE OperatorCrash
  <2>1. stored' \subseteq Shard
    BY <1>6, CurrentShard, Zenon DEF TypeOK, OperatorCrash
  <2>2. aborts' \in 0 .. MaxAborts
    <3>1. aborts \in 0 .. MaxAborts /\ aborts < MaxAborts /\ aborts' = aborts + 1
      BY <1>6, Zenon DEF TypeOK, OperatorCrash
    <3> QED
      BY <3>1, BoundsAreNat
  <2> QED
    BY <1>0, <1>6, <2>1, <2>2, Zenon DEF TypeOK, OperatorCrash, Finish
<1>7. CASE ClusterChanges
  <2>1. changes' \in 0 .. MaxChanges
    <3>1. changes \in 0 .. MaxChanges /\ changes < MaxChanges /\ changes' = changes + 1
      BY <1>7, Zenon DEF TypeOK, ClusterChanges
    <3> QED
      BY <3>1, BoundsAreNat
  <2>2. addr' \subseteq Pod /\ cluster' \in {"healthy", "unhealthy", "gone"}
    BY <1>7, Zenon DEF TypeOK, ClusterChanges, SymDiff
  <2> QED
    BY <1>7, <2>1, <2>2, Zenon DEF TypeOK, ClusterChanges
<1>8. CASE Sync
  BY <1>8, Zenon DEF TypeOK, Sync
<1>9. CASE UNCHANGED vars
  BY <1>9, Zenon DEF TypeOK, vars
<1> QED
  BY <1>1, <1>2, <1>3, <1>4, <1>5, <1>6, <1>7, <1>8, <1>9 DEF Next, Reconcile

\* The variables keep their types: only pods of the cluster are ever asked, and
\* only shards it has are stored, answered for and recorded.
THEOREM BackupTyped == Spec => []TypeOK
<1>1. Init => TypeOK
  <2>1. Init => label \in [Shard -> DataPod]
    <3>1. \A i \in Shard : i - 1 \in DataPod /\ DataPods - i \in DataPod
      BY ShardsAssumption DEF Shard, DataPod
    <3> QED
      BY <3>1, Zenon DEF Init
  <2>2. Init => changes \in 0 .. MaxChanges /\ aborts \in 0 .. MaxAborts
    <3>1. Init => changes = 0 /\ aborts = 0
      BY Zenon DEF Init
    <3> QED
      BY <3>1, BoundsAreNat
  <2>3. DOMAIN << >> = {} /\ Range(<< >>) = {}
    BY DEF Range
  <2> QED
    BY <2>1, <2>2, <2>3, Zenon DEF Init, TypeOK
<1>2. TypeOK /\ [Next]_vars => TypeOK'
  BY TypeStep
<1> QED
  BY <1>1, <1>2, PTL DEF Spec

-----------------------------------------------------------------------------
(* Restore: what it promises of a primary whose shard the restore-data      *)
(* container knows.                                                         *)

Held ==
    /\ life \in [Member -> {"absent", "waiting", "up"}] /\ init \subseteq Member
    /\ stage \in [Member -> {"none", "fetched", "staged", "removed", "done"}]
    /\ disk \in [Member -> Int] /\ losses \in Nat /\ replicas \in Nat
    /\ formed \in BOOLEAN /\ bootstrapped \in BOOLEAN

\* Until a pod is lost, pods that exist have the container, and none is
\* created once the bootstrap is on record; a pod that has it starts
\* redis-server only when it is done; done means its own data.
RestoreInv ==
    /\ Held
    /\ losses = 0 /\ (formed \/ bootstrapped) => \A p \in Member : life[p] # "absent"
    /\ \A p \in Member :
         /\ losses = 0 /\ life[p] # "absent" /\ (ClusterMode \/ p = 0) => p \in init
         /\ life[p] = "absent" => stage[p] = "none"
         /\ p \in init /\ life[p] = "up" => stage[p] = "done"
         /\ Aligned(p) => disk[p] \in {Empty, Own(p)}
         /\ Aligned(p) /\ p \in init /\ stage[p] = "done" => disk[p] = Own(p)

\* Outside cluster mode the only primary is pod 0, and the artifact is its.
LEMMA OwnArtifact ==
    ASSUME NEW p \in Member, Aligned(p)
    PROVE  Artifact(p) = Own(p) /\ (ClusterMode \/ p = 0)
BY ShardsAssumption DEF Artifact, Own, Aligned, Member

\* Every step of the operator, the container and Kubernetes keeps RestoreInv.
LEMMA RestoreInvStep ==
    ASSUME RestoreInv, RestoreStep \/ RestoreFault
    PROVE  RestoreInv'
<1> USE DEF RestoreInv, Held, given, faults
<1> DEFINE Same(p) == Aligned(p)' = Aligned(p)
<1>0. /\ \A p \in Member : Same(p)
      /\ UNCHANGED given
  <2>1. UNCHANGED given
    BY DEF RestoreStep, RestoreFault, Form, RecordBootstrap, CreateMember, SkipRestore,
         Download, InstallFile, Unpack, RemoveOld, RenameStaging, StartRedis, PodRestarts,
         MemberLost, Reach
  <2>2. QED BY <2>1 DEF Aligned, shardPrimary, shardFromPod, Own
<1>a. \A p \in Member : p \in Nat /\ Own(p) \in Nat /\ Own(p) # Empty /\ Empty \in Int
  BY ShardsAssumption DEF Member, Own, Empty
<1> HIDE DEF Same
<1>1. CASE Form
  BY <1>1, <1>0 DEF Form, Same
<1>2. CASE RecordBootstrap
  BY <1>2, <1>0 DEF RecordBootstrap, Same
<1>3. ASSUME NEW p \in Member, CreateMember(p) PROVE RestoreInv'
  <2>1. losses = 0 /\ (ClusterMode \/ p = 0) => shouldRestoreFromBackup(p)
    BY <1>3 DEF CreateMember, shouldRestoreFromBackup
  <2>2. stage[p] # "done"
    BY <1>3 DEF CreateMember
  <2>3. QED BY <2>1, <2>2, <1>3, <1>0 DEF CreateMember, Same
<1>4. ASSUME NEW p \in Member, SkipRestore(p) PROVE RestoreInv'
  <2>1. ~ Aligned(p)
    BY <1>4 DEF SkipRestore, Aligned
  <2>2. QED BY <2>1, <1>4, <1>0 DEF SkipRestore, Reach, Restoring, Same
<1>5. ASSUME NEW p \in Member, Download(p) \/ Unpack(p) PROVE RestoreInv'
  BY <1>5, <1>0 DEF Download, Unpack, Reach, Restoring, Same
<1>6. ASSUME NEW p \in Member, InstallFile(p) \/ RenameStaging(p) PROVE RestoreInv'
  <2>1. Aligned(p) => Artifact(p) = Own(p)
    BY OwnArtifact
  <2>2. Artifact(p) \in Int
    BY <1>a DEF Artifact, shardFromPod
  <2>3. QED BY <2>1, <2>2, <1>6, <1>0 DEF InstallFile, RenameStaging, Reach,
              Restoring, Same
<1>7. ASSUME NEW p \in Member, RemoveOld(p) PROVE RestoreInv'
  BY <1>7, <1>0, <1>a DEF RemoveOld, Reach, Restoring, Same
<1>8. ASSUME NEW p \in Member, StartRedis(p) PROVE RestoreInv'
  BY <1>8, <1>0 DEF StartRedis, Same
<1>9. ASSUME NEW p \in Member, PodRestarts(p) \/ MemberLost(p) PROVE RestoreInv'
  BY <1>9, <1>0 DEF PodRestarts, MemberLost, Same
<1>10. QED BY <1>1, <1>2, <1>3, <1>4, <1>5, <1>6, <1>7, <1>8, <1>9, Zenon
            DEF RestoreStep, RestoreFault

\* A shard's primary whose container knows its shard serves that shard's data,
\* for any number of shards, replicas, restarts and deletions.
THEOREM PrimariesServeTheirShard == RestoreSpec => []ServesOwnShard
<1>1. RestoreInit => RestoreInv
  <2> SUFFICES ASSUME RestoreInit PROVE RestoreInv
    OBVIOUS
  <2> USE DEF RestoreInit
  <2>0. formed \in BOOLEAN /\ bootstrapped \in BOOLEAN
    BY Zenon
  <2>1. Held
    BY <2>0, RestoreAssumption DEF Held, Empty
  <2>2. QED BY <2>1 DEF RestoreInv
<1>2. RestoreInv /\ [RestoreNext]_<<vars, restoreVars>> => RestoreInv'
  <2>1. ASSUME RestoreInv, UNCHANGED restoreVars PROVE RestoreInv'
    <3>1. \A p \in Member : Aligned(p)' = Aligned(p)
      BY <2>1 DEF restoreVars, given, Aligned, shardPrimary, shardFromPod, Own
    <3>2. QED BY <2>1, <3>1 DEF RestoreInv, Held, restoreVars, given, faults
  <2>2. QED BY <2>1, RestoreInvStep DEF RestoreNext
<1>3. RestoreInv => ServesOwnShard
  BY OwnArtifact DEF RestoreInv, Held, ServesOwnShard, Loaded
<1>4. QED BY <1>1, <1>2, <1>3, PTL DEF RestoreSpec
=============================================================================

# redis-operator: TLA+ models and proofs

The operator runs Redis on Kubernetes without StatefulSets.  One controller
process reconciles every `RedisCluster`; inside each data pod an *instance
manager* (PID 1) boots and supervises `redis-server`, reconciles its role from
the `RedisCluster` object, and serves the HTTP endpoints the controller calls.
The two sides share no lock and no log: they coordinate through the object
(`status.currentPrimary`, the `redis.io/fencedInstances` annotation,
`status.instancesStatus`), through cached reads of it, and through HTTP calls
with timeouts.  That is what these modules are about.

## The system's parts

| Part | Source (under `src/`) | Modules |
|---|---|---|
| Controller: poll, status, failover, fencing | `internal/controller/cluster/{reconciler,status,fencing}.go` | `ClusterReconciler`, abstracted by `PrimaryHandover` |
| Controller: pods, scaling, rolling update (standalone) | `internal/controller/cluster/{pods,rolling_update}.go` | `ClusterReconciler` |
| Instance manager: boot, role, status reports | `internal/instance-manager/{run,reconciler}` | `InstanceManager` |
| Instance manager's web server | `internal/instance-manager/webserver` | `InstanceManager` (status, promote), `ShardedRedis` (cluster endpoints), `Backup` (backup endpoint), `Mastership` (health check) |
| The whole standalone-mode cluster | | `ClusterState` (shared state), `Standalone` (composition, properties), `StandaloneProofs` |
| Leader Service | `internal/controller/cluster/services.go` | `LeaderService` |
| Cluster mode: layout | `internal/controller/cluster/cluster_layout.go` | `ShardLayout`, `ShardLayoutProofs` |
| Cluster mode: bootstrap, reshard, handover, rolling update | `internal/controller/cluster/{cluster_bootstrap,cluster_reshard,cluster_handover,rolling_update}.go` | `ShardedRedis` (nodes, endpoints), `ShardedCluster` (operator), `ShardedStepProofs`, `ShardedClusterProofs` |
| Backups | `internal/controller/backup/reconciler.go` | `Backup`, `BackupProofs` |
| Scheduled backups | `internal/controller/backup/scheduled_reconciler.go` | `ScheduledBackup`, `ScheduledBackupProofs` |
| Restore from a backup | `internal/cmd/manager/restore`, `internal/controller/cluster/pods.go` | `Restore`, `BackupProofs` |
| Sentinel mode, primary isolation, hibernation | `internal/controller/cluster/{sentinel,hibernate}.go`, `internal/instance-manager/{run/sentinel,webserver/server}.go` | `Mastership` on `LeaderService` |
| Volumes, resize, maintenance window | `internal/controller/cluster/{pvcs,maintenance,rolling_update}.go` | `Volumes`, `VolumesProofs` |
| Auth and connection Secrets, rotation | `internal/controller/cluster/{secrets,connection_secret}.go`, `internal/instance-manager/reconciler` | `Credentials` |
| Webhook certificates | `internal/cmd/manager/controller/{pki,pki_reconciler}.go` | `WebhookPKI`, `WebhookPKIProofs` |
| Replica mode; PodDisruptionBudget, RBAC, admission webhooks, metrics, API types, command line | | see *Not modelled* |

How they interact: the controller polls every instance manager over HTTP, writes
what it learns to the status, and decides.  The instance managers watch the same
object and obey it: a fenced pod stops its `redis-server`, the pod named by
`currentPrimary` becomes the master, the others follow it.  In cluster mode Redis
itself gossips, elects and owns slots; the controller only sends it commands
through the same endpoints and reads back what it says.  Backups read the cluster's
status and call one more endpoint, and a restore puts what they stored before a
new pod's first start.  In sentinel mode Redis Sentinel elects the master, and the
controller copies its choice to the status.  Volumes, credentials and webhook
certificates are protocols of their own: with the storage driver, with the kubelet
that projects Secrets, and between operator processes that start together.

## Modules

**`ClusterState`** declares the state: the fields of the `RedisCluster` that
steer the protocol, the life of each pod and its `redis-server`, the local
variables of the controller's one reconcile of this cluster, and the counters
that bound the runs.  Pods are named by their ordinal; an address is named by
the pod that has it, or `Gone`.  Deleting a pod object is one step (grace
periods are not modelled).

**`InstanceManager`** has one action per step of a pod that others can see:
`BootRead` and `BootStart` (the two halves of `Run`, between which the cluster
may change), `InstanceRead` and `InstanceActs` (the two halves of `Reconcile`:
what it got from its cache and what it does with it, arbitrarily later),
`LatePromote` (a promote request that outlived its caller), and the faults
`RedisExits` and `PodLost`.

**`ClusterReconciler`** is `reconcile()` as a program with a counter `pc`: one
action per call that another party can observe or that can fail.
`StartReconcile`, `Poll`, `UpdateStatus` (with the decision it leads to), then
either `SetFence`, `PromoteInstance` / `PromoteRefused` / `PromoteSkipped` /
`PromoteTimesOut`, `PublishPrimary`, `UpdateLeaderService`, `ClearFence`; or
`CreatePod`, `ScalePods`, and one of `RollReplica`, `RollPrimary`, `RollDone`.
`ReconcileAborts` is a crash, or a failed API call, between any two of them.

**`PrimaryHandover`** is what this promises: the primary is replaced only while
it is fenced, and the fence of the pod that is the primary is never lifted.

**`LeaderService`** follows the selector of the leader Service through the calls
of a reconcile that touch it: `reconcileServices` resets it to the role label,
`updateLeaderServiceSelector` narrows it to the primary, hibernation removes the
pods.  Reads come from a cache that lags behind, and patches are merge patches
computed against what was read.

**`ShardLayout`** is `planShardLayout` as operators over the observed state: who
owns which slots, which ordinal claims which shard, who inherits from a doomed
owner, where followers go.  It holds no state.  A scan in some order (`ClaimMatches`,
`ClaimRest`, `PlaceFollowers`, `FillPrimaries`, `AppointHeirs`, `JoinAll`) is a fold, and what
its loop does for one pod or shard is an operator of its own (`ClaimMatch`, `ClaimUnused`,
`Place`, `Fill`, `Appoint`, `Join`), about which the proofs reason.

**`ShardedRedis`** is the environment of cluster mode: what a Redis node knows
(slots it owns or imports, where its keys are, whom it follows, whether it has
joined), the endpoints that change that, the slot-by-slot loop of
`/v1/cluster/migrate-range`, Redis' own failover, and pods that start and fail.
Redis and Kubernetes are external to the repository: their actions are read off
what the operator's calls and answers assume.

**`ShardedCluster`** is the operator on top of it.  `Poll` gathers the answers
and decides what the reconcile will do (`Decide`, in the order of `reconcile()`:
resume a handover, then MEET, ADDSLOTS, REPLICATE, reshard, pods); the calls are
then made one at a time, each of which may fail or be the last one the operator
makes (`Cut`).  `Meet`, `AddSlots`, `Replicate`, `Promote`, `BeginHandover`,
`FinishHandover`, `MigrateRange` and `reconcilePods` are those calls.  While some pod
has an older template `reconcilePods` goes on to `rollingUpdateClusterMode`, which
deletes one pod, or makes the calls `SetFence`, `Promote` and `ClearFence`, from the
`status.shards` the poll has put together (`shardStatus`).

**`Backup`** is one `RedisBackup`: `Start` or `Decline`, one upload per shard in
order, `Complete`, with the cluster changing underneath, a cached copy of the
backup, and `OperatorCrash` at any point.

**`ScheduledBackup`** is one schedule over discrete time: what is due, the backup
created for it, the record of that in the status, and retention over a cached
list.  A run may start from an old copy of the schedule (`SyncSchedule` brings
the copy up to date).  A cron expression is a period.

**`Restore`** continues a completed backup: a new cluster whose primaries have the
init container that downloads an artifact and installs it, a file by rename, an
archive by `Unpack`, `RemoveOld`, `RenameStaging`, with a restart or a deletion of
the pod between any two of them.  `Form` and `RecordBootstrap` are the cluster
coming up and the record of it, after which pods get no container.

**`Mastership`** adds to `LeaderService` the role of every `redis-server`: who
starts as a master, `reconcileRole`, the failover (`Promote`), the liveness probe that
stops a master cut off from the API server and its peers (`RememberPeers`,
`IsolationStops`), and the sentinels: `RunSentinel` writes their configuration at
every start, `Hear`, `Elect`, `Reconfigure` and `Gossip` are Redis Sentinel's own
part, and `AskSentinel` is the operator following the first sentinel to answer.

**`Volumes`** is the claims of a standalone cluster, their growth and the restarts
it needs, and the maintenance window: `reconcileMaintenance`, `Failover` or `GoOn` (with
the early return), `recyclePVCsForMissingPods`, `reconcilePVCs`, `reconcilePods`,
`restartPodsForPendingResize`, over a pod list that lags.  A failover and the switchover
of a restart go on through `promoteInstance`, `publishPrimary` and `clearFence`, between
which the reconcile may be cut off.
A volume either holds the data or is empty; a replica copies what its primary has.

**`Credentials`** is the password: the operator generates the auth Secret, records
it in the spec (`PersistRef`), then the versions it has seen in the status (`RecordVersions`),
and publishes the connection Secret; the kubelet projects it late,
pod by pod; each instance manager sets `requirepass`, then `masterauth`, through a
client that keeps the password the process started with.

**`WebhookPKI`** is `EnsureWebhookPKI` call by call, run by every operator process
at its start and then by the leader; a certificate is the CA that signed it and the time it has
left.  Time passes in units in which interval, threshold and validity are constants; the leader's
next run comes on time (`Tick`) or late (`LateTick`), and `missed` counts the failed runs and the
late units of time since the last complete look at the certificate.

The `MC*` modules give TLC its instances.  `MCStandalone`, `MCShardedCluster` and
`MCBackup` choose a *course* in the initial state (which cluster, and what may befall
it), so that one run explores several scenarios without multiplying them; `MCMastership`,
`MCCredentials` and `MCVolumes` bound which disturbances come together.

Definitions whose names contain an underscore followed by a capital
(`SetFence_Unfenced`) are faulty variants of the definition they are named
after; no specification uses them.  They show that a property would notice.

## What is checked

All runs that pass are exhaustive for their bounds.  A run marked "violation" checks
a sentence of the repository that the code does not keep; see *Findings*.

| Run (cfg) | Properties | Instance |
|---|---|---|
| `Failover` | `TypeOK`, `FenceHeld`, `HandoverSpec`, `RivalOnlyUnderFence`, `OnlyOutdatedReplaced`, `NoUnapprovedReplacement` | 2 pods from creation, 2 faults, 1 scaling, 1 crash of the operator; or 3 running pods, supervised, 1 template change |
| `Converge` | `PrimaryPodKept`, `ScaleSettles`, `Converges` | 2 pods from creation, 2 faults, or 1 fault and 1 template change; or 3 running pods, 1 fault, 1 scaling |
| `Leader` | `TypeOK`, `Routed`, `OneMaster`, `Led` | 2 pods; standalone: 2 changes (lost pods, cut-off nodes, hibernation) and 1 aborted reconcile; with 2 sentinels: 2 changes (elections and restarts of sentinels, too), or 1 and 1 aborted reconcile |
| `Shards` | `TypeOK`, `KeysFound`, `HandoverKeepsRunning`, `OwnersOutliveScaleDown`, `OwnersStay`, `Settles` | 4 slots; a cluster of 3 shards growing to 4, from creation with 1 fault or 1 cut, running with both; 4 shards of 2 pods to 3, 1 cut; replicas 1 to 0 with 1 fault and 1 cut, or with 1 cut and an annotation deleted by hand; rolling updates of 3 primaries (1 fault, 1 cut), of two of 3 shards with replicas, of one of them (1 cut) |
| `Backup` | `TypeOK`, `CompletedIsStored`, `ServesOwnShard`, `Finishes`, `RestoreEnds` | 2 shards, 4 pods, 3 changes, 2 crashes; then a restore with 0 or 1 replicas per shard, 1 lost pod, 1 restart |
| `Schedule` | `TypeOK`, `OnePerOccurrence`, `KeepsNewest`, `CatchesUp` | period 2, 5 ticks, 1 edit, 1 crash, 1 run on an old copy |
| `PKI` | `TypeOK`, `NoDrift`, `NeverExpires`, `Trusted` | 2 operator processes, an interval of 2, a threshold of 5 and a validity of 6 units of time, 3 faults |
| `Credentials` | `TypeOK`, `RotationLands`, `ConnectionCurrent`, `ReachesPoll` | 2 pods, 2 names, one the user's, 2 passwords; 1 edit and 1 aborted reconcile, or 1 restart or lost connection |
| `Volumes` | `TypeOK`, `OneFencePerCut`, `ResizeEnds`, `ReplacedReturn` | 2 instances, 2 sizes, 2 windows, 1 fault or 1 aborted reconcile, at most 3 of these changes together |
| `FenceLeft` (violation) | `FencesLifted` | 2 running pods, 1 fault, 1 crash |
| `OwnerDeleted` (violation) | `NoOwnerDeleted` | 3 shards, replicas 1 to 0, 2 faults |
| `RestorePrimaries` (violation) | `EveryPrimaryRestored` | as `Backup` |

Each property is stated in a comment above it.  The ones to read first:

- `HandoverSpec`: the detailed operator implements `PrimaryHandover`.
- `RivalOnlyUnderFence`: a running replica becomes a master only if it is the
  primary, the primary is fenced, or the step carries out an older decision.
- `Converges`: whatever happened, there is in the end one master that everybody
  follows, on the current template, and no fence.
- `KeysFound`: while slots move, a slot's keys are on its owner or on the node
  importing it, which are the two places Redis looks for them.
- `PrimaryPodKept`: with more than one instance the operator does not delete the pod of the
  primary, unless the pod is outdated and there are two instances or was a disturbance.
- `OnlyOutdatedReplaced`, `NoUnapprovedReplacement`: no delay makes an undisturbed operator
  fail over from an up-to-date primary of three, or replace one without the approval.
- `OwnersOutliveScaleDown`: when every instance has answered the poll, scaling down deletes no
  pod that serves slots (a rolling update may have deleted a pod that stays, so that the
  highest ordinals are not the surplus: that case is excepted).
- `Settles`: cluster mode reaches the layout of the spec on the current template, unless the
  fence of a rolling update stays or keeps being set (`UpdateFences`).
- `ServesOwnShard`: a restored primary serves its shard's data, whatever was interrupted.
- `OneMaster`, `Led`: in the end one running master, the one on record and, in
  sentinel mode, the one the sentinels agree on.
- `RotationLands`: the last password reaches every server and replication link.
- `ResizeEnds`: outside a window every resize ends, with all pods up and file systems that fit,
  unless a switchover was cut off and left its fence behind (`Stranded`).
- `OneFencePerCut`: that takes a reconcile cut off at one particular point, each time.
- `ReplacedReturn`: in a window that replaces claims every lost pod returns, unless one is fenced.
- `NeverExpires`: the certificate does not expire as long as the failed runs and late units since the
  last look at it, an interval for each, stay within the threshold.
- `NoDrift`: certificate and trust agree although several processes write both.

**Bounds.**  Two pods are the smallest cluster with a failover; three have a choice
of candidate and a bystander to re-point.  Two faults let the second hit the
recovery from the first (a failover that has to be repeated); one crash hits every
point of the protocol, because it may come between any two calls.  In cluster mode
three shards are the least the API admits, and slots are few but enough that every
range boundary moves; in the courses that scale down some owners start at the replica's ordinal, as an
earlier failover would leave them.  A rolling update of three covers replica, replica,
primary; in cluster mode two outdated shards show the order of shards, one the order within
it.  Two operator processes are enough for a race to create the CA, two
passwords for one rotation, two sizes for one resize, during which a window opens
and closes, and a second one opens.  The certificate's units let one look be missed, not two.  Deadlock is checked except in `Backup` (with `RestorePrimaries`) and
`Schedule`, where a finished backup and the end of the clock are the end.

**Fairness and timing.**  The controller is requeued 30 s after every reconcile, or
woken earlier, so its next step is eventually taken.  In `Standalone`, so is the next step of each pod:
of the kubelet (address, restart) or of the instance manager, which every status write
wakes.  `Liveness` further assumes that if a pod's `redis-server` is stopped again
and again, polls see it down again and again: CrashLoopBackOff makes the pauses
longer than the interval of the polls.  `TimelyNext`, used only by
`Converge` and `FenceLeft`, says an instance manager that read the object acts on it before the
controller starts its next reconcile; this is an assumption on
speeds (a changed annotation or pod wakes the controller at once), not something the code
enforces, and the safety runs do without it.  In
`ShardedCluster` reconciles recur and each of them ends, as their requests are served
or time out; what the pods do shares one weak fairness condition, weaker than one
for each.  The other modules have weak fairness of
each actor: the operator's reconcile, the cache, each pod's kubelet and instance
manager, the storage driver (`Expand`), PVC protection (`Vanish`), a sentinel that
starts or hears of an election.  `Volumes` makes the same assumption about CrashLoopBackOff as
`Standalone`.  In `WebhookPKI` runs end and time goes on while no run is due; that
a leader looks in time is not assumed, `NeverExpires` counts how often it did not.  Faults, crashes, edits and timeouts are never
forced.

## What is proved

TLAPS checks these for every number of pods and shards, every bound, and any
timing; the assumptions are those on the constants (`PodsAssumption`,
`BoundsAssumption` and the like, each next to its declaration).

- `FenceHeldThroughout`: `Spec => [](TypeOK /\ FenceHeld)`.  `FenceHeld` says which
  pod is fenced, and who the primary and the candidate are, at each program point
  of a handover.  Type correctness is needed to prove it and it to prove type
  correctness, so the two form one inductive invariant; nothing else is needed, because
  no other party writes the fence or the primary (`OthersLeaveHandover`).
- `ImplementsHandover`: `Spec => HandoverSpec`.  Each step of the operator maps, under
  that invariant, to a step of `PrimaryHandover` or a stutter (`HandoverStep`).
- `RivalsNeedAFence`: `Spec => RivalOnlyUnderFence`, by cases over who acts:
  the instance (`InstanceRival`), the operator (`OperatorRival`), a deletion.
- `PrimaryKeepsItsPod`: `PrimaryPodKept`, from creation or from a running cluster.  That
  scaling spares the primary is local; that a rolling update does is not: it deletes the
  primary when its pod list shows no replica.  `OneMissing`, its inductive invariant, says that
  an undisturbed cluster is short of at most one pod, and that the list taken before the pods
  were created lacks no other (`NeverAlone`: from three instances on a replica is listed).
- `OnlyOutdatedPrimaryReplaced`: `OnlyOutdatedReplaced` for any number of instances from three
  on.  The invariant `AllSound` says that the primary and whatever may become a candidate is
  *sound*: it runs, or it is outdated.  A failover starts only from a primary that a poll
  found unreachable, and a sound primary that is up to date answers.
- `ReplacementIsApproved`: `NoUnapprovedReplacement`.  `Approval` adds to `AllSound` that without
  the approval the primary is up and nobody is about to stop it, so that neither failover
  nor switchover can have begun.
- `SlotRangesPartition`: for any number of slots and shards the ranges of
  `calculateClusterSlotRanges` are disjoint, cover the slots, and differ by at most one in size.
- `LayoutSound`: whatever the instances answered and the labels say, `planShardLayout` gives every
  pod a shard, lets no doomed pod lead one, and lets a pod that stays and serves slots lead its
  shard.  Each fold is a recursive function of the set it works through; what it
  preserves follows by induction on that set (well-foundedness of strict inclusion among finite
  sets) from what one step preserves.
- `ShardsTyped`, `HandoverKeepsServing`, `OwnersOutlive`: `TypeOK`, `HandoverKeepsRunning` and
  `OwnersOutliveScaleDown` of cluster mode, for every finite set of courses (shapes, faults, cuts, rolling
  updates).  The invariant is `PlanInv`: the requests still to be sent agree with the annotations.
  A reconcile that goes on to the pods found no handover and begins none; one that begins
  or finishes a handover does nothing after it, and the one it finishes is the one there is
  (`Orderly`).  Without an update the pods are the lowest ordinals (`Lowest`), and if every
  instance answered, those that served slots survive `reconcilePods` (`OwnersStayIn`): a
  reconcile gets there only if no range has to move, and then by `LayoutSound` and
  `SlotRangesPartition` every owner is the primary of a shard that stays.
- `CompletedMeansStored`: a backup recorded as completed is stored.  The invariant
  `RunInv` adds what holds during the run: it is recorded as Running, has a shard
  to ask, and every shard that answered has its object.
- `RetentionKeepsNewest`: `KeepsNewest` for any period, limits and crashes; if a run may start from an
  old copy of the schedule, for limits of at least one, as otherwise the name of a deleted backup may be given
  out again (`NamesDistinct`).  `ListInv` says what
  a stale list is still good for: a listed backup that is gone was made before the last
  recorded run, so its name is not used again; a listed result is final; and of two listed backups with
  the same result the older goes first.  The backups kept are those after the latest one beyond the
  limit (`Latest`, by well-foundedness of the naturals).
- `OneBackupPerOccurrence`: `OnePerOccurrence`, from `OccInv`: after a run that was cut off
  before it was recorded, its occurrence has at most as many backups as there were crashes
  and runs on an old copy.
- `PrimariesServeTheirShard`: `ServesOwnShard` for any number of shards, replicas,
  restarts and deletions.  `RestoreInv` adds that, until a pod is lost, every pod that
  exists has the container, and that a finished container means the pod's own data.
- `CertificatesMatchTrust` and `RenewedInTime`: `NoDrift` and `NeverExpires` for any
  number of processes.  `OneCA` adds that every run past `ensureCA` holds the stored
  CA; `InTime`, that the certificate has the threshold left, less an interval for the next run and
  one for each that was missed, plus what remains until the next run (`Ahead`).
- `FencesAreLifted`: `OneFencePerCut` for any number of instances, windows, faults and aborts.  The
  invariant adds to `TypeOK` that a handover moves away from the primary until it is published
  (`FromPrimary`), and does not count the fence that the handover is about to lift (`Left`): a step
  of the operator adds none to the others, a cut adds one.

Type correctness is a theorem of its own for each of the six specifications with proofs
(`StandaloneTyped`, `ShardsTyped`, `BackupTyped`, `ScheduleTyped`, `VolumesTyped`, `PKITyped`).
`BackupProofs` holds the theorems about `Restore`, too.  Cluster mode takes three modules:
`ShardLayoutProofs` (ranges and layout, no state), `ShardedStepProofs` (the invariant, and
every step that plans no requests), `ShardedClusterProofs` (what a poll and a rolling update plan, and
the theorems).

Only model-checked:

- all liveness (`Converges`, `ScaleSettles`, `Settles`, `Led`, `Finishes`, `RestoreEnds`, `CatchesUp`, `Trusted`,
  `RotationLands`, `ConnectionCurrent`, `ReachesPoll`, `ResizeEnds`, `ReplacedReturn`), and `Routed` and `OneMaster`, which say what
  holds in the end: fairness is out of the prover's reach;
- `KeysFound` and `OwnersStay`: they are true of the courses that are checked and not of all (keys
  are lost when the number of shards is edited back during a migration), so a theorem
  would need a description of those courses;
- `TypeOK` of `Mastership` and of `Credentials`.

## Findings

Three runs refute sentences of the repository, which `PROJECT.json` quotes:

- `FenceLeft`: an operator that stops between the status patch and `clearFence`
  leaves the former primary fenced, and nothing lifts the fence.
- `OwnerDeleted`: with slots uncovered, scaling down deletes pods that own slots.
- `RestorePrimaries`: the restore container counts the pods of a shard as
  consecutive, the layout makes the first pods the primaries; with replicas the second
  shard's primary is taken for a replica and starts empty.

Other expectations one may have of the code are stated as definitions next to the
checked ones, and TLC finds a counterexample when they are added to a configuration:

| Definition | What happens |
|---|---|
| `FencedFormerStaysDown` (`Standalone`) | a fenced former primary whose container restarts boots a master: `Run` does not read the fence |
| `RollsOnlyReachable` (`Standalone`) | a rolling update goes on while an expected instance has no status |
| `PrimaryPodKept` with two instances and a template change | a pod list without the replica just created makes `rollingUpdate` delete the primary |
| `ScaleSettles` with a template change and a scaling to one instance | the surplus pod cannot boot without the primary's address, and `checkReachability` ends every reconcile before the primary is created again |
| `LeaderStays` (`LeaderService`) | every reconcile widens the leader Service before narrowing it |
| `RunsOnDataPod` (`Backup`, prefer-replica) | a backup may be asked of a sentinel pod |
| `CompletedIsWhole` (`Backup`) | a cluster backup completes without the shards that have no address |
| `NoBulkRestart` (`ShardedCluster`; `docs/upgrade.md:36`) | a pod just recreated has no status, too few statuses count as reachable, and the reconcile that recreates one primary deletes the next: all shards may be down at once |
| `SwitchedOver` (`ShardedCluster`; `docs/upgrade.md:34`) | `status.shards` lacks the replica just deleted, so the primary is taken to have none and is deleted without a switchover |
| `PodsMatch` (`ShardedCluster`) | four shards without replicas never shrink to three, and a scale-up taken back before the new pod joined is never undone |
| `RestoredOnce` (`Restore`; "a one-time bootstrap action", `pods.go:509`) | a pod that restarts before the bootstrap is on record, or keeps its container after it, runs the restore again |
| `SentinelDecides` (`Mastership`; `docs/runbooks/standalone-to-sentinel-migration.md:17`) | the operator follows the first sentinel to answer, which may be one restarted with an older master, and the instance managers undo the election until it is repeated |
| `DriftEnds` (`WebhookPKI`; `pki_reconciler.go:14`) | after the CA Secret is deleted the configurations get the new CA, and the certificate signed by the old one is kept until it is due |
| the CA is rotated before expiry (`config/webhook/README.md:17`) | `ensureCA` loads a stored CA and never looks at its dates; there is nothing to model |
| `NeverLockedOut` (`Credentials`; `docs/runbooks/secret-rotation.md:6`, `:107`) | after a rotation an instance manager that has lost its connections authenticates with the password it started with, and needs a restart; `RotationLands` excepts it |
| `DataSurvives` (`Volumes`; `README.md:145`) | with `reusePVC: false`, one eviction of the primary in a window: failover is suspended, its claim is replaced, it returns empty and the replicas copy that |
| `SwitchesOverFirst` (`Volumes`; `rolling_update.go:199`) | a pod list that lacks the replica makes a resize restart the primary without a switchover |
| at most one backup for each occurrence, crash or not | an operator that stops before it patches `lastScheduleTime`, or whose next reconcile reads a cached schedule without it, makes another; `OnePerOccurrence` allows one for each |

Three more cases are noted as hazards, as the repository makes no statement about them:
a slot nobody owns when a migration is cut between its two `SETSLOT NODE` calls
(`Stranded`, which `Settles` excepts), the fence of a cluster-mode rolling update left behind
when the reconcile is cut or the promotion refused (`UpdateFences`), and keys lost when the number of shards
is edited back during a migration (`KeysFound` is checked for one edit).

## Abstractions

- A pod object is its ordinal, its template revision and its life; deletion is one
  step; data survive a restart of the container.  Addresses are not reused.
- Replication is a pointer to the master; data and offsets are left out.
  Where candidates are ranked by offset the model may take any of them.
- In cluster mode `reconcilePods` is one step, and the fence and handover annotations
  are read as they are: both are written together under optimistic locking.  A write
  that loses to another one of the object is an error and a reconcile that starts again, as in `Cut`.
  The pod list is read as it is, too, and the template changes before a course begins.
- Administrators do not edit fences, except for the removal in the course
  `ThinByHand` of `Shards`.
- One reconcile of a cluster runs at a time, as controller-runtime guarantees.
- `Restore`: clouds, checksums and archive formats are left out; a download
  succeeds or the container fails.  `MCBackup` restores backups that completed with
  no crash and at most one change, as a restore depends on nothing but the artifacts.
- `Credentials`: the connection Secret and `spec.authSecret` are read as they are, the auth
  Secret through a cache.  A
  generated auth Secret that is deleted once `spec.authSecret` names it is not
  made again, which `ReachesPoll` excepts.  `redis-server` starts without
  `requirepass` until the first reconcile sets it.  The ACL file is left out.
- `Volumes`: claims are read as they are, pods through a cache; any live replica may be
  chosen by a failover, and the loop that recycles claims is one step.  A claim that is
  deleted while its pod runs goes when the pod does, after the window, too.  Ephemeral storage is left out, and evictions happen at any time, with or
  without a disruption budget.

## Not modelled

- A rolling update of cluster mode during a change of shape: each has courses of its
  own, together the state space is beyond exhaustive checking.
- Replica mode: it follows a primary outside the cluster, of which the repository
  has only the address; what promotion promises depends on that cluster.
- `/v1/demote`, which the operator never calls; live changes of Redis parameters, ACL
  and TLS files, each of which copies a value and steers nothing else.
- PodDisruptionBudget, RBAC, the replica, any and sentinel Services: one object computed from the
  spec.  Admission webhooks: predicates over one object.
- Metrics, events, conditions that nothing reads; API types, generated code, wiring.

Proofs that could follow: `KeysFound` for courses with one change of shape, and the types of
`Mastership` and `Credentials`.

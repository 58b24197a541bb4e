---------------------------- MODULE ShardedRedis ----------------------------
(***************************************************************************)
(* Cluster mode without the operator: the pods of one RedisCluster, the    *)
(* Redis Cluster they form, and the instance managers' part in it: the     *)
(* fence and the migration of a range of slots.                            *)
(***************************************************************************)
EXTENDS ShardLayout, Sequences

\* The courses of events explored.  Each says the spec.shards and
\* spec.replicasPerShard at first and those they are edited to (and back),
\* whether the cluster exists at the start, which of its shards are then led
\* by their first replica and which of its pods a change of the pod template
\* has left outdated, and bounds the edits of the spec, the exits of
\* a redis-server, the reconciles and requests cut short, and the deletions
\* of the handover annotation by hand.
CONSTANT Courses

ASSUME CoursesAssumption ==
    /\ IsFiniteSet(Courses)
    /\ \A c \in Courses :
         /\ \A sh \in {c.from, c.to} :
              sh.shards \in Nat /\ sh.shards >= 3 /\ sh.replicas \in Nat
         /\ c.running \in BOOLEAN /\ c.swapped \subseteq 0 .. c.from.shards - 1
         /\ c.from.replicas = 0 => c.swapped = {}
         /\ c.outdated \subseteq 0 .. c.from.shards * (c.from.replicas + 1) - 1
         /\ {c.edits, c.faults, c.cuts, c.unfences} \subseteq Nat

VARIABLES
    course,    \* the course of events, which never changes
    shape,     \* [shards, replicas]: the spec
    pod,       \* pod[p]: "absent", "pending" (no IP), "down", "up"
    label,     \* label[p]: the shard and shard-role labels
    ready,     \* pods whose Ready condition is true
    outdated,  \* pods whose spec hash is not the one of the spec
    of,        \* of[p]: whom Redis p replicates, NoPod for a master
    synced,    \* replicas with a copy of their master
    owner,     \* owner[s]: the node that serves slot s, NoPod for none
    import,    \* import[s]: the node that slot s is being moved to
    keys,      \* keys[s]: the nodes with keys of slot s
    joined,    \* nodes that belong to the Redis Cluster
    asked,     \* nodes that a CLUSTER MEET is on its way to
    wants,     \* nodes with a CLUSTER FAILOVER under way
    fenced,    \* the fencing annotation
    handover,  \* the handover annotation
    job,       \* the migrate-range request being served
    spent      \* how much of each bound is used up

spec == <<course, shape>>
redis == <<of, synced, owner, import, keys, joined, asked, wants>>
cloud == <<pod, label, ready, outdated>>

Count(sh) == sh.shards * (sh.replicas + 1)
Pod == UNION ({0 .. Count(c.from) - 1 : c \in Courses}
              \cup {0 .. Count(c.to) - 1 : c \in Courses})

desired  == Count(shape)       \* DesiredDataInstances
Doomed   == {p \in Pod : p >= desired}
Existing == {p \in Pod : pod[p] # "absent"}
Up(p)    == p # NoPod /\ pod[p] = "up"
Served(p) == {s \in Slot : owner[s] = p}
Owners   == {p \in Pod : Served(p) # {}}

NoHandover == [owner |-> NoPod, heir |-> NoPod]
NoJob      == [from |-> NoPod, to |-> NoPod, todo |-> {}, stage |-> "none"]
Spend(b)   == spent' = [spent EXCEPT ![b] = @ + 1]

\* A cluster as the bootstrap of a new one leaves it, but for failovers.
Formed ==
    LET n == course.from.shards
        old == 0 .. Count(course.from) - 1
        lead(i) == IF i \in course.swapped THEN n + i ELSE i
        leads(p) == p \in old /\ p = lead(p % n)
        home(s) == lead(CHOOSE i \in 0 .. n - 1 : s \in SlotRange(n, i))
    IN /\ pod = [p \in Pod |-> IF p \in old THEN "up" ELSE "absent"]
       /\ label = [p \in Pod |-> IF p \in old
                                 THEN [shard |-> p % n, primary |-> leads(p)]
                                 ELSE [shard |-> None, primary |-> FALSE]]
       /\ ready = old /\ joined = old /\ outdated = course.outdated
       /\ of = [p \in Pod |-> IF p \in old /\ ~ leads(p) THEN lead(p % n)
                              ELSE NoPod]
       /\ synced = {p \in old : ~ leads(p)}
       /\ owner = [s \in Slot |-> home(s)]
       /\ keys = [s \in Slot |-> {home(s)}]

Absent ==
    /\ pod = [p \in Pod |-> "absent"]
    /\ label = [p \in Pod |-> [shard |-> None, primary |-> FALSE]]
    /\ ready = {} /\ joined = {0} /\ synced = {} /\ outdated = {}
    /\ of = [p \in Pod |-> NoPod]
    /\ owner = [s \in Slot |-> NoPod]
    /\ keys = [s \in Slot |-> {}]

RedisInit ==
    /\ course \in Courses /\ shape = course.from
    /\ IF course.running THEN Formed ELSE Absent
    /\ import = [s \in Slot |-> NoPod]
    /\ asked = {} /\ wants = {} /\ fenced = {}
    /\ handover = NoHandover /\ job = NoJob
    /\ spent = [b \in {"edits", "faults", "cuts", "unfences"} |-> 0]

-----------------------------------------------------------------------------
(* Kubernetes and the user *)

\* requiresHardFence: the owner of a planned handover keeps running.
requiresHardFence(p) == p \in fenced /\ handover.owner # p

\* The kubelet gives the pod its address and starts its container, in which Run
\* starts redis-server: it does not look at the fence.
PodStarts(p) ==
    /\ \/ pod[p] = "pending" /\ pod' = [pod EXCEPT ![p] = "down"]
       \/ pod[p] = "down" /\ pod' = [pod EXCEPT ![p] = "up"]
    /\ UNCHANGED <<spec, label, ready, outdated, redis, fenced, handover, job,
                   spent>>

\* The readiness probe: handleReadyz fails while the pod is fenced.
Probe(p) ==
    LET ok == Up(p) /\ p \notin fenced
    IN /\ p \in Existing /\ (p \in ready) # ok
       /\ ready' = IF ok THEN ready \cup {p} ELSE ready \ {p}
       /\ UNCHANGED <<spec, pod, label, outdated, redis, fenced, handover, job,
                      spent>>

\* The redis-server of p is gone, and with it what it had under way.
Halt(p) ==
    /\ pod' = [pod EXCEPT ![p] = "down"]
    /\ synced' = synced \ {p}
    /\ wants' = wants \ {p}
    /\ asked' = asked \ {p}
    /\ UNCHANGED <<spec, label, ready, outdated, of, owner, import, keys, joined,
                   fenced, handover, job>>

RedisExits(p) ==
    /\ Up(p) /\ spent.faults < course.faults
    /\ Halt(p) /\ Spend("faults")

\* InstanceReconciler.Reconcile: a hard-fenced pod stops its redis-server.
StopFenced(p) ==
    /\ Up(p) /\ requiresHardFence(p)
    /\ Halt(p) /\ UNCHANGED spent

\* Deleting the handover annotation turns the handover into a hard fence.
EmergencyFence ==
    /\ handover # NoHandover /\ spent.unfences < course.unfences
    /\ handover' = NoHandover
    /\ Spend("unfences")
    /\ UNCHANGED <<spec, cloud, redis, fenced, job>>

EditSpec ==
    /\ spent.edits < course.edits
    /\ shape' = IF shape = course.from THEN course.to ELSE course.from
    /\ Spend("edits")
    /\ UNCHANGED <<course, cloud, redis, fenced, handover, job>>

-----------------------------------------------------------------------------
(* Redis Cluster *)

Handshake(p) ==
    /\ p \in asked /\ Up(p)
    /\ asked' = asked \ {p} /\ joined' = joined \cup {p}
    /\ UNCHANGED <<spec, cloud, of, synced, owner, import, keys, wants, fenced,
                   handover, job, spent>>

CopyFinishes(p) ==
    /\ Up(p) /\ Up(of[p]) /\ p \notin synced
    /\ synced' = synced \cup {p}
    /\ UNCHANGED <<spec, cloud, of, owner, import, keys, joined, asked, wants,
                   fenced, handover, job, spent>>

\* p takes the slots of its master m; the other replicas, and m, follow p.
TakeOver(p, m) ==
    /\ owner' = [s \in Slot |-> IF owner[s] = m THEN p ELSE owner[s]]
    /\ keys' = [s \in Slot |-> IF m \in keys[s] THEN (keys[s] \ {m}) \cup {p}
                               ELSE keys[s]]
    /\ of' = [q \in Pod |-> IF q = p THEN NoPod
                            ELSE IF q = m \/ of[q] = m THEN p ELSE of[q]]
    /\ synced' = {q \in synced : of[q] # m}
    /\ wants' = wants \ {p}
    /\ UNCHANGED <<spec, cloud, import, joined, asked, fenced, handover, job,
                   spent>>

\* A master that is down is replaced if most masters are up.
RedisFailover(p) ==
    LET m == of[p]
    IN /\ Up(p) /\ m \in Owners /\ ~ Up(m) /\ p \in synced
       /\ 2 * Cardinality({q \in Owners : Up(q)}) > Cardinality(Owners)
       /\ TakeOver(p, m)

\* CLUSTER FAILOVER: agreed with the master, or given up.
ManualFailover(p) ==
    /\ p \in wants /\ Up(of[p]) /\ p \in synced
    /\ TakeOver(p, of[p])
FailoverExpires(p) ==
    /\ p \in wants /\ (Up(of[p]) => spent.cuts < course.cuts)
    /\ wants' = wants \ {p}
    /\ IF Up(of[p]) THEN Spend("cuts") ELSE UNCHANGED spent
    /\ UNCHANGED <<spec, cloud, of, synced, owner, import, keys, joined, asked,
                   fenced, handover, job>>

-----------------------------------------------------------------------------
(* handleClusterMigrateRange: slot by slot, each command may fail. *)

jobSlot == Min(job.todo)

\* A command on the source or the target: an error of either ends the request.
At(stage) == /\ job.stage = stage /\ Up(job.from) /\ Up(job.to)
             /\ UNCHANGED <<spec, cloud, of, synced, joined, asked, wants,
                            fenced, handover, spent>>

\* SETSLOT IMPORTING on the target, MIGRATING on the source.
OpenSlot_SkipKeys ==
    /\ At("open") /\ owner[jobSlot] = job.from
    /\ import' = [import EXCEPT ![jobSlot] = job.to]
    /\ job' = [job EXCEPT !.stage = "source"]
    /\ UNCHANGED <<owner, keys>>
OpenSlot ==
    /\ At("open") /\ owner[jobSlot] = job.from
    /\ import' = [import EXCEPT ![jobSlot] = job.to]
    /\ job' = [job EXCEPT !.stage = "keys"]
    /\ UNCHANGED <<owner, keys>>

\* MIGRATE: a batch of the keys, or the last of them.
MoveKeys ==
    /\ At("keys")
    /\ \/ keys' = [keys EXCEPT ![jobSlot] = @ \cup {job.to}] /\ keys' # keys
          /\ UNCHANGED job
       \/ keys' = [keys EXCEPT ![jobSlot] = (@ \ {job.from}) \cup {job.to}]
          /\ job' = [job EXCEPT !.stage = "source"]
    /\ UNCHANGED <<owner, import>>

\* SETSLOT NODE on the source: it stops serving the slot.
AssignOnSource ==
    /\ At("source")
    /\ owner' = [owner EXCEPT ![jobSlot] = NoPod]
    /\ job' = [job EXCEPT !.stage = "target"]
    /\ UNCHANGED <<import, keys>>

\* SETSLOT NODE on the target: it starts serving the slot.
AssignOnTarget ==
    /\ At("target")
    /\ owner' = [owner EXCEPT ![jobSlot] = job.to]
    /\ import' = [import EXCEPT ![jobSlot] = NoPod]
    /\ job' = IF job.todo = {jobSlot} THEN [job EXCEPT !.stage = "done"]
              ELSE [job EXCEPT !.todo = @ \ {jobSlot}, !.stage = "open"]
    /\ UNCHANGED keys

MigrateStep == OpenSlot \/ MoveKeys \/ AssignOnSource \/ AssignOnTarget

RedisNext ==
    \/ \E p \in Pod :
         PodStarts(p) \/ Probe(p) \/ RedisExits(p) \/ StopFenced(p)
         \/ Handshake(p) \/ CopyFinishes(p) \/ RedisFailover(p)
         \/ ManualFailover(p) \/ FailoverExpires(p)
    \/ EmergencyFence \/ EditSpec \/ MigrateStep
=============================================================================

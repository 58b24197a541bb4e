--------------------------- MODULE ShardedCluster ---------------------------
(***************************************************************************)
(* Cluster mode: the operator's reconcile of a sharded cluster.  One       *)
(* reconcile polls the instances, plans the requests of                    *)
(* reconcileClusterBootstrap or reconcileClusterReshard from the answers,  *)
(* sends them one by one while the cluster changes under it, and, when     *)
(* both are satisfied, creates, labels and deletes pods, and replaces one  *)
(* that is outdated.                                                       *)
(***************************************************************************)
EXTENDS ShardedRedis

VARIABLES
    pc,      \* "idle", "calls", "migrating", "pods" or "rolling"
    calls,   \* requests still to be sent
    then,    \* what follows them: "return" or "pods"
    silent,  \* pods that did not answer the poll
    served,  \* pods that served slots when polled
    labels,  \* the labels the layout gives the pods that stay
    shards   \* status.shards, as long as a pod is outdated

plan == <<pc, calls, then, silent, served, labels, shards>>
vars == <<spec, cloud, redis, fenced, handover, job, spent, plan>>

\* pollInstanceStatuses: a pod without an IP is not asked.
Answers ==
    [p \in {q \in Existing : pod[q] # "pending"} |->
       IF ~ Up(p) THEN Silent
       ELSE [connected |-> TRUE,
             role |-> IF of[p] = NoPod THEN "master" ELSE "slave",
             of |-> of[p], slots |-> Served(p),
             link |-> p \in synced /\ Up(of[p])]]

Of(A, p) == IF p \in DOMAIN A THEN A[p] ELSE Silent
Covered(A) == UNION {A[p].slots : p \in DOMAIN A}

\* deriveClusterStatus: every node says "ok", and every slot is covered.  A
\* node that has not joined the others says "fail".
clusterOK(A) ==
    /\ Covered(A) = Slot
    /\ {p \in DOMAIN A : A[p].connected} \subseteq joined

\* The shards of the status: pods without an answer, or an address, are in none.
shardStatus(A, L, n) ==
    LET leads(p) == LET s == L.shardOf[p] IN
                      (isPrimary(L, p) /\ ~ handingOver(L, s)) \/ L.ownerOf[s] = p
        members(s) == {p \in DOMAIN A : L.shardOf[p] = s}
    IN [s \in 0 .. n - 1 |-> [primary |-> {p \in members(s) : leads(p)},
                             replicas |-> {p \in members(s) : ~ leads(p)}]]

Call(op, p, q, S) == [op |-> op, pod |-> p, arg |-> q, slots |-> S]
Decision(cs, next) == [calls |-> cs, then |-> next]
Wait == Decision(<< >>, "return")

-----------------------------------------------------------------------------
(* reconcileClusterBootstrap *)

resumeClusterHandover(A) ==
    LET o == handover.owner
        h == handover.heir
        source == Of(A, o)
        target == Of(A, h)
        finish == Decision(<<Call("finish", o, NoPod, {})>>, "return")
    IN IF ~ {o, h} \subseteq Existing \/ o \notin fenced \/ h \in fenced
       THEN finish
       ELSE IF ~ (source.connected /\ target.connected) THEN Wait
       ELSE IF /\ target.role = "master" /\ target.slots # {}
               /\ source.role = "slave" /\ source.of = h /\ source.slots = {}
       THEN finish
       ELSE IF \/ source.role # "master" \/ target.role # "slave"
               \/ target.of # o \/ ~ target.link \/ o \in ready
       THEN Wait
       ELSE Decision(<<Call("promote", h, NoPod, {})>>, "return")

\* The first pod meets all others, known or not.
meetCalls_Once(A) ==
    IF Covered(A) # {} THEN << >>
    ELSE [p \in 1 .. desired - 1 |-> Call("meet", p, NoPod, {})]
meetCalls(A) == [p \in 1 .. desired - 1 |-> Call("meet", p, NoPod, {})]

\* Slots nobody serves go to the primary of their shard, up to the first
\* shard that has none.
slotCalls(A, L, n) ==
    LET short == {s \in 0 .. n - 1 : L.primaryOf[s] = NoPod}
        todo == {s \in 0 .. n - 1 : /\ \A t \in short : s < t
                                    /\ ~ SlotRange(n, s) \subseteq Covered(A)}
        add(s) == Call("addslots", L.primaryOf[s], NoPod, SlotRange(n, s) \ Covered(A))
    IN [i \in 1 .. Cardinality(todo) |-> add(InOrder(todo)[i])]

\* Every pod that is no primary and serves no slot follows the primary of its
\* shard, or of the one it is to move to; no one follows a shard that is
\* being handed over.
replicaCalls(A, L) ==
    LET shard(p) == IF p \in DOMAIN L.moves THEN L.moves[p] ELSE L.shardOf[p]
        todo == {p \in 0 .. desired - 1 :
                   /\ ~ isPrimary(L, p) /\ A[p].slots = {}
                   /\ ~ handingOver(L, shard(p))
                   /\ ~ (A[p].role = "slave"
                         /\ A[p].of = L.primaryOf[shard(p)])}
        follow(p) == Call("replicate", p, L.primaryOf[shard(p)], {})
    IN [i \in 1 .. Cardinality(todo) |-> follow(InOrder(todo)[i])]

-----------------------------------------------------------------------------
(* reconcileClusterReshard: one request brings the first misplaced run of   *)
(* slots closer to the primary of its range.                                *)

handOverShard_GoesOn(A, o, h) ==
    IF A[h].role # "slave" \/ A[h].of # o
    THEN Decision(<<Call("replicate", h, o, {})>>, "return")
    ELSE IF ~ A[h].link THEN Wait
    ELSE Decision(<<Call("begin", o, h, {})>>, "pods")
handOverShard(A, o, h) ==
    IF A[h].role # "slave" \/ A[h].of # o
    THEN Decision(<<Call("replicate", h, o, {})>>, "return")
    ELSE IF ~ A[h].link THEN Wait
    ELSE Decision(<<Call("begin", o, h, {})>>, "return")

reconcileClusterReshard(A, L, n) ==
    LET primaries == {L.primaryOf[s] : s \in 0 .. n - 1}
        target(s) == L.primaryOf[CHOOSE i \in 0 .. n - 1 : s \in SlotRange(n, i)]
        holder(s) == CHOOSE p \in DOMAIN A : s \in A[p].slots
        misplaced == {s \in Slot : holder(s) # target(s)}
        first == Min(misplaced)
        o == holder(first)
        h == target(first)
        segment == {s \in misplaced :
                      \A t \in first .. s : holder(t) = o /\ target(t) = h}
        ready_ == Decision(<< >>, "pods")
    IN IF Cardinality(DOMAIN A) < desired \/ ~ clusterOK(A) THEN ready_
       ELSE IF NoPod \in primaries THEN Wait
       ELSE IF \E p \in primaries : ~ Of(A, p).connected
       THEN IF Cardinality(DOMAIN A) > desired THEN Wait ELSE ready_
       ELSE IF misplaced = {} THEN ready_
       ELSE IF o \in Doomed /\ A[h].slots = {} THEN handOverShard(A, o, h)
       ELSE Decision(<<Call("migrate", o, h, segment)>>, "return")

\* Bootstrap, then resharding, then the reachability check.
Decide(A, L) ==
    LET n == shape.shards
        meets == meetCalls(A)
        more == slotCalls(A, L, n)
                \o (IF \E s \in 0 .. n - 1 : L.primaryOf[s] = NoPod THEN << >>
                    ELSE replicaCalls(A, L))
        settled == /\ \A s \in 0 .. n - 1 : L.primaryOf[s] # NoPod
                   /\ more = << >> /\ clusterOK(A)
        reshard == reconcileClusterReshard(A, L, n)
        unreached == /\ Cardinality(DOMAIN A) >= desired
                     /\ Cardinality({p \in DOMAIN A : A[p].connected}) < desired
        after == IF reshard.then = "pods" /\ unreached THEN Wait ELSE reshard
    IN IF handover # NoHandover THEN resumeClusterHandover(A)
       ELSE IF \E p \in 0 .. desired - 1 : ~ Of(A, p).connected THEN after
       ELSE IF settled THEN Decision(meets \o after.calls, after.then)
       ELSE Decision(meets \o more, "return")

Poll ==
    LET A == Answers
    IN /\ pc = "idle"
       /\ \E L, M \in planShardLayout(shape.shards, shape.replicas,
                                      [p \in Existing |-> label[p]], A) :
            /\ LET D == Decide(A, L) IN calls' = D.calls /\ then' = D.then
            /\ labels' = [p \in 0 .. desired - 1 |->
                            [shard |-> M.shardOf[p], primary |-> isPrimary(M, p)]]
            /\ shards' = IF outdated = {} THEN << >>
                         ELSE shardStatus(A, L, shape.shards)
       /\ pc' = "calls"
       /\ silent' = {p \in Existing : ~ Of(A, p).connected}
       /\ served' = {p \in DOMAIN A : A[p].slots # {}}
       /\ UNCHANGED <<spec, cloud, redis, fenced, handover, job, spent>>

Forget == /\ calls' = << >> /\ then' = "return" /\ labels' = << >>
          /\ silent' = {} /\ served' = {} /\ shards' = << >>
Return == pc' = "idle" /\ Forget

-----------------------------------------------------------------------------
(* The requests, as the instance managers and Redis take them.             *)

Sends(op) == pc = "calls" /\ calls # << >> /\ Head(calls).op = op
Sent == /\ calls' = Tail(calls)
        /\ UNCHANGED <<spec, cloud, spent, pc, then, silent, served, labels, shards>>

\* A node refuses a slot it believes taken, REPLICATE of a node it does not
\* know or when it serves slots, FAILOVER when it is no replica; a handover
\* does not begin between pods that are fenced.  The patch that ends one has an
\* optimistic lock: it conflicts with the deletion of its annotation.
Accepted(c) ==
    CASE c.op = "meet" -> Up(0)
      [] c.op = "addslots" -> /\ Up(c.pod) /\ of[c.pod] = NoPod
                              /\ \A s \in c.slots : /\ owner[s] = NoPod
                                                    /\ import[s] = NoPod
      [] c.op = "replicate" -> /\ Up(c.pod) /\ {c.pod, c.arg} \subseteq joined
                               /\ Served(c.pod) = {} /\ of[c.arg] = NoPod
      [] c.op = "promote" -> Up(c.pod) /\ of[c.pod] # NoPod
      [] c.op = "begin" -> {c.pod, c.arg} \cap fenced = {}
      [] c.op = "finish" -> handover.owner = c.pod
      [] c.op = "migrate" -> Up(c.pod)
      [] OTHER -> TRUE

\* handleClusterMeet, through pod 0, which answers at once: the handshake with a
\* server that is down is lost.
Meet ==
    LET p == Head(calls).pod
    IN /\ Sends("meet") /\ Accepted(Head(calls))
       /\ asked' = IF p \in joined \/ ~ Up(p) THEN asked ELSE asked \cup {p}
       /\ UNCHANGED <<of, synced, owner, import, keys, joined, wants, fenced,
                      handover, job>> /\ Sent

\* handleClusterAddSlots
AddSlots ==
    LET c == Head(calls)
    IN /\ Sends("addslots") /\ Accepted(c)
       /\ owner' = [s \in Slot |-> IF s \in c.slots THEN c.pod ELSE owner[s]]
       /\ keys' = [s \in Slot |-> IF s \in c.slots THEN {c.pod} ELSE keys[s]]
       /\ UNCHANGED <<of, synced, import, joined, asked, wants, fenced, handover,
                      job>> /\ Sent

\* handleClusterReplicate
Replicate ==
    LET c == Head(calls)
    IN /\ Sends("replicate") /\ Accepted(c)
       /\ of' = [of EXCEPT ![c.pod] = c.arg]
       /\ synced' = synced \ {c.pod}
       /\ UNCHANGED <<owner, import, keys, joined, asked, wants, fenced, handover,
                      job>> /\ Sent

\* handlePromote: CLUSTER FAILOVER answers before it is done.
Promote ==
    LET p == Head(calls).pod
    IN /\ Sends("promote") /\ Accepted(Head(calls))
       /\ wants' = wants \cup {p}
       /\ UNCHANGED <<of, synced, owner, import, keys, joined, asked, fenced,
                      handover, job>> /\ Sent

\* beginClusterHandover, finishClusterHandover: one patch of both annotations.
BeginHandover_FenceOnly ==
    LET c == Head(calls)
    IN /\ Sends("begin") /\ Accepted(c)
       /\ fenced' = fenced \cup {c.pod}
       /\ UNCHANGED <<redis, job, handover>> /\ Sent
BeginHandover ==
    LET c == Head(calls)
    IN /\ Sends("begin") /\ Accepted(c)
       /\ fenced' = fenced \cup {c.pod}
       /\ handover' = [owner |-> c.pod, heir |-> c.arg]
       /\ UNCHANGED <<redis, job>> /\ Sent
FinishHandover_FenceOnly ==
    LET p == Head(calls).pod
    IN /\ Sends("finish") /\ Accepted(Head(calls))
       /\ fenced' = fenced \ {p}
       /\ UNCHANGED <<redis, job, handover>> /\ Sent
FinishHandover_KeepsFence ==
    /\ Sends("finish") /\ Accepted(Head(calls))
    /\ handover' = NoHandover
    /\ UNCHANGED <<redis, job, fenced>> /\ Sent
FinishHandover ==
    LET p == Head(calls).pod
    IN /\ Sends("finish") /\ Accepted(Head(calls))
       /\ fenced' = fenced \ {p}
       /\ handover' = NoHandover
       /\ UNCHANGED <<redis, job>> /\ Sent

\* The request runs in the source's instance manager.
MigrateRange ==
    LET c == Head(calls)
    IN /\ Sends("migrate") /\ Accepted(c)
       /\ job' = [from |-> c.pod, to |-> c.arg, todo |-> c.slots,
                  stage |-> "open"]
       /\ pc' = "migrating" /\ calls' = Tail(calls)
       /\ UNCHANGED <<spec, cloud, redis, fenced, handover, spent, then, silent,
                      served, labels, shards>>
MigrateEnds ==
    /\ pc = "migrating"
    /\ \/ job.stage = "done" \/ ~ (Up(job.from) /\ Up(job.to))
       \/ job.stage = "open" /\ owner[jobSlot] # job.from
    /\ job' = NoJob /\ Return
    /\ UNCHANGED <<spec, cloud, redis, fenced, handover, spent>>

\* A refused request ends the reconcile.
Refused ==
    /\ pc = "calls" /\ calls # << >> /\ ~ Accepted(Head(calls))
    /\ Return
    /\ UNCHANGED <<spec, cloud, redis, fenced, handover, job, spent>>

CallsDone ==
    /\ pc = "calls" /\ calls = << >>
    /\ IF then = "pods"
       THEN pc' = "pods" /\ UNCHANGED <<calls, then, silent, served, labels, shards>>
       ELSE Return
    /\ UNCHANGED <<spec, cloud, redis, fenced, handover, job, spent>>

\* The pods in gone are deleted, and those in new created.
Replace(gone, new) ==
    /\ pod' = [p \in Pod |-> IF p \in gone THEN "absent"
                             ELSE IF p \in new THEN "pending" ELSE pod[p]]
    /\ ready' = ready \ gone /\ outdated' = outdated \ gone
    /\ synced' = synced \ gone /\ wants' = wants \ gone /\ asked' = asked \ gone
    /\ UNCHANGED <<spec, of, owner, import, keys, joined, fenced, handover, job,
                   spent>>

\* reconcilePods: creates and labels the pods wanted, deletes the highest.
Surplus(S, k) == {p \in S : Cardinality({q \in S : q > p}) < k}
reconcilePods ==
    LET wanted == DOMAIN labels
        gone == Surplus(Existing, Cardinality(Existing) - Cardinality(wanted))
    IN /\ pc = "pods"
       /\ Replace(gone, wanted \ Existing)
       /\ label' = [p \in Pod |-> IF p \in wanted THEN labels[p] ELSE label[p]]
       /\ IF outdated = {} THEN Return
          ELSE pc' = "rolling" /\ UNCHANGED <<calls, then, silent, served, labels,
                                              shards>>

-----------------------------------------------------------------------------
(* rollingUpdateClusterMode: the last shard with an outdated pod, its       *)
(* replicas first.                                                          *)

DeletePod(p) == Replace({p}, {}) /\ Return /\ UNCHANGED label

\* The primary is fenced for the time of the request to promote a replica.
FailOver(p, candidate) ==
    /\ calls' = <<Call("fence", p, NoPod, {}), Call("promote", candidate, NoPod, {}),
                  Call("unfence", p, NoPod, {})>>
    /\ pc' = "calls" /\ then' = "return"
    /\ UNCHANGED <<spec, cloud, redis, fenced, handover, job, spent, silent, served,
                   labels, shards>>

rollingUpdateClusterMode ==
    LET primary(s)  == shards[s].primary \cap Existing
        replicas(s) == shards[s].replicas \cap Existing
        behind == {s \in DOMAIN shards :
                     (primary(s) \cup replicas(s)) \cap outdated # {}}
        last == Max(behind)
        old == replicas(last) \cap outdated
    IN /\ pc = "rolling"
       /\ \/ behind = {} /\ Return
             /\ UNCHANGED <<spec, cloud, redis, fenced, handover, job, spent>>
          \/ behind # {} /\ old # {} /\ DeletePod(Max(old))
          \/ /\ behind # {} /\ old = {}
             /\ \E p \in primary(last) :
                  IF replicas(last) = {} THEN DeletePod(p)
                  ELSE FailOver(p, Max(replicas(last)))

\* setFence, which ends a planned handover of the pod; clearFence.
SetFence ==
    LET p == Head(calls).pod
    IN /\ Sends("fence")
       /\ fenced' = fenced \cup {p}
       /\ handover' = IF handover.owner = p THEN NoHandover ELSE handover
       /\ UNCHANGED <<redis, job>> /\ Sent
ClearFence ==
    LET p == Head(calls).pod
    IN /\ Sends("unfence")
       /\ fenced' = fenced \ {p}
       /\ UNCHANGED <<redis, job, handover>> /\ Sent

\* An error, a timeout or a restart of the operator ends the reconcile; a
\* migration ends with the request it serves.
Cut ==
    /\ pc # "idle" /\ spent.cuts < course.cuts
    /\ Return /\ job' = NoJob /\ Spend("cuts")
    /\ UNCHANGED <<spec, cloud, redis, fenced, handover>>

Step ==
    Meet \/ AddSlots \/ Replicate \/ Promote \/ BeginHandover \/ FinishHandover
    \/ MigrateRange \/ MigrateEnds \/ Refused \/ CallsDone \/ reconcilePods
    \/ rollingUpdateClusterMode \/ SetFence \/ ClearFence

Init == RedisInit /\ pc = "idle" /\ calls = << >> /\ then = "return"
        /\ labels = << >> /\ silent = {} /\ served = {} /\ shards = << >>

Next == Poll \/ Step \/ Cut \/ (RedisNext /\ UNCHANGED plan)

Spec == Init /\ [][Next]_vars

\* As long as a pod has something to do, some pod does it: it starts, is
\* probed, joins, copies or takes over.
Progress ==
    \E p \in Pod : PodStarts(p) \/ Probe(p) \/ Handshake(p) \/ CopyFinishes(p)
                  \/ RedisFailover(p) \/ ManualFailover(p) \/ StopFenced(p)

\* Reconciles recur (an idle operator polls again, which it always can) and
\* end: each has finitely many steps, and requests are served or time out.
Fairness ==
    /\ []<>(pc # "idle") /\ []<>(pc = "idle")
    /\ WF_vars(UNCHANGED plan /\ Progress)

FairSpec == Spec /\ Fairness

-----------------------------------------------------------------------------

\* Types, and that the annotations and the request under way are consistent:
\* the owner of a handover is fenced, and only a reconcile that waits for it
\* has a migration under way.
TypeOK ==
    /\ course \in Courses /\ shape \in {course.from, course.to}
    /\ pod \in [Pod -> {"absent", "pending", "down", "up"}]
    /\ label \in [Pod -> [shard : Int, primary : BOOLEAN]]
    /\ outdated \subseteq Existing
    /\ \A S \in {ready, synced, joined, asked, wants, fenced, silent, served} :
         S \subseteq Pod
    /\ of \in [Pod -> Pod \cup {NoPod}]
    /\ owner \in [Slot -> Pod \cup {NoPod}]
    /\ import \in [Slot -> Pod \cup {NoPod}]
    /\ keys \in [Slot -> SUBSET Pod]
    /\ pc \in {"idle", "calls", "migrating", "pods", "rolling"}
    /\ (job # NoJob) <=> (pc = "migrating")
    /\ handover # NoHandover => handover.owner \in fenced
    /\ \A p \in synced : of[p] # NoPod

\* The course is a rolling update.
Updates == course.outdated # {}

\* reconcilePods deletes a pod that served slots when polled only if some pod
\* did not answer: while every instance does, reconcileClusterReshard lets no
\* owner of slots be deleted.  A rolling update deletes pods itself; when the
\* spec shrinks before such a pod is back, the highest ones are not the surplus.
OwnersOutliveScaleDown ==
    [][\A p \in Pod : pc = "pods" /\ pod[p] # "absent" /\ pod'[p] = "absent"
                        => \/ p \notin served \/ silent # {}
                           \/ Updates /\ ~ (DOMAIN labels \subseteq Existing)]_vars

\* "Scale-down hands a doomed slot owner to a surviving pod before deletion."
NoOwnerDeleted ==
    [][\A p \in Pod : pod[p] # "absent" /\ pod'[p] = "absent"
                        => p \notin served]_vars

\* "Changing spec.replicasPerShard no longer remaps existing primaries": as
\* long as the number of shards stays, a slot leaves a node only if the node
\* is down or is to be deleted.
OwnersStay ==
    [][course.from.shards = course.to.shards /\ ~ Updates =>
         \A s \in Slot : LET p == owner[s] IN
           p # NoPod /\ owner'[s] # p => ~ Up(p) \/ p \in Doomed
             \/ (handover.owner = p /\ handover.heir = owner'[s])]_vars

\* reconcilePods has deleted the pod that serves slot s, which a scale-down
\* does only after a redis-server exited (NoOwnerDeleted).
OwnerLost(s) == owner[s] \in Doomed \ Existing /\ spent.faults > 0

\* The keys of a slot are where the Redis Cluster looks for them: with the
\* node that serves it, or the one handleClusterMigrateRange moves it to, and
\* neither is deleted for good unless an instance was down: a pod deleted by a
\* rolling update comes back with its volume.
KeysFound ==
    \A s \in Slot :
      /\ keys[s] \subseteq {owner[s], import[s]}
      /\ keys[s] \subseteq Existing \/ OwnerLost(s) \/ (Updates /\ owner[s] < desired)

\* A planned handover leaves Redis running: the instance manager stops no
\* redis-server that serves slots unless its handover annotation was deleted.
\* A rolling update fences without one.
HandoverKeepsRunning ==
    \A p \in Owners : p \in fenced =>
      handover.owner = p \/ spent.unfences > 0 \/ Updates

\* The pods are those the spec asks for and know each other, each slot is served by the primary
\* of its range, its keys are there, and no pod is outdated.
Balanced ==
    LET n == shape.shards
    IN /\ Existing = 0 .. desired - 1 /\ Existing \subseteq joined
       /\ \A s \in Slot : owner[s] \in Existing /\ keys[s] = {owner[s]}
       /\ Cardinality(Owners) = n
       /\ \A i \in 0 .. n - 1 : \E p \in Pod : Served(p) = SlotRange(n, i)
       /\ \A p \in Owners : Cardinality({q \in Existing : of[q] = p}) = shape.replicas
       /\ fenced = {} /\ handover = NoHandover /\ outdated = {}

\* However the reconciles are cut short, the cluster ends up balanced, unless
\* a migration was cut between the two SETSLOT NODE commands of a slot, the
\* owner of a slot was deleted, a handover was stopped by hand, or the fence of
\* a rolling update stays, because the update was cut or Redis had elected the
\* candidate before it was asked, or is set again and again, because each time
\* it stops the primary before the candidate has taken over.
Stranded == \E s \in Slot : owner[s] = NoPod /\ import[s] # NoPod
UpdateFences == Updates /\ fenced # {}
Settles ==
    \/ <>[](\/ Balanced \/ Stranded \/ spent.unfences > 0
            \/ \E s \in Slot : OwnerLost(s))
    \/ []<>UpdateFences

\* "This ensures controlled rolling behavior instead of bulk restarts": a
\* rolling update takes the owner of at most one shard down.
NoBulkRestart == Updates => Cardinality({p \in Owners : ~ Up(p)}) <= 1

\* "then the primary is switched over and updated last": a rolling update
\* deletes no owner of slots of a shard that is to have replicas.
SwitchedOver ==
    [][\A p \in Owners : pc = "rolling" /\ pod'[p] = "absent" /\ p \in Existing
                           => shape.replicas = 0]_vars

\* "reconcilePods ensures pods match the desired state: scale up, scale down"
PodsMatch == <>[](Existing = 0 .. desired - 1)
=============================================================================

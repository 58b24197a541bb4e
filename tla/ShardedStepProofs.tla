-------------------------- MODULE ShardedStepProofs -------------------------
(***************************************************************************)
(* The inductive invariant of ShardedCluster, that it holds initially, and *)
(* that every step keeps it but the two that plan requests: the poll and   *)
(* the rolling update, which ShardedClusterProofs adds.                    *)
(***************************************************************************)
EXTENDS ShardedCluster, FiniteSetTheorems, WellFoundedInduction, TLAPS

-----------------------------------------------------------------------------
(* The pods *)

LEMMA CountIsPositive ==
    ASSUME NEW c \in Courses, NEW sh \in {c.from, c.to}
    PROVE  /\ sh.shards \in Nat /\ sh.shards >= 3 /\ sh.replicas \in Nat
           /\ Count(sh) \in Nat /\ Count(sh) >= sh.shards
<1>1. sh.shards \in Nat /\ sh.shards >= 3 /\ sh.replicas \in Nat
  BY CoursesAssumption
<1>2. ASSUME NEW n \in Nat, NEW r \in Nat
      PROVE  n * (r + 1) \in Nat /\ n * (r + 1) >= n
  OBVIOUS
<1> QED
  BY <1>1, <1>2 DEF Count

\* Every course has its pods among Pod, whose ordinals are naturals.
LEMMA PodFacts ==
    /\ Pod \in SUBSET Nat /\ IsFiniteSet(Pod) /\ NoPod \notin Pod
    /\ \A c \in Courses : \A sh \in {c.from, c.to} : 0 .. Count(sh) - 1 \subseteq Pod
<1> DEFINE f == [c \in Courses |-> 0 .. Count(c.from) - 1]
           t == [c \in Courses |-> 0 .. Count(c.to) - 1]
           F == {0 .. Count(c.from) - 1 : c \in Courses}
           T == {0 .. Count(c.to) - 1 : c \in Courses}
<1>1. \A c \in Courses : Count(c.from) \in Nat /\ Count(c.to) \in Nat
  BY CountIsPositive
<1>2. f \in Surjection(Courses, F) /\ t \in Surjection(Courses, T)
  BY DEF Surjection
<1>3. \A I \in F \cup T : I \in SUBSET Nat /\ IsFiniteSet(I)
  <2>1. ASSUME NEW c \in Courses, NEW sh \in {c.from, c.to}
        PROVE  0 .. Count(sh) - 1 \in SUBSET Nat /\ IsFiniteSet(0 .. Count(sh) - 1)
    <3>1. PICK k \in Int : k = Count(sh) - 1
      BY CountIsPositive
    <3>2. IsFiniteSet(0 .. k)
      BY FS_Interval
    <3> QED
      BY <3>1, <3>2
  <2> QED
    BY <2>1, Zenon
<1>4. Pod = UNION (F \cup T)
  BY DEF Pod
<1>5. IsFiniteSet(Pod)
  <2> HIDE DEF f, t, F, T
  <2>1. IsFiniteSet(F) /\ IsFiniteSet(T)
    BY <1>2, FS_Surjection, CoursesAssumption
  <2>2. IsFiniteSet(F \cup T)
    BY <2>1, FS_Union, Zenon
  <2> QED
    BY <1>3, <1>4, <2>2, FS_UNION
<1>6. Pod \in SUBSET Nat /\ NoPod \notin Pod
  <2> HIDE DEF f, t, F, T
  <2> QED
    BY <1>3, <1>4 DEF NoPod
<1>7. ASSUME NEW c \in Courses, NEW sh \in {c.from, c.to}
      PROVE  0 .. Count(sh) - 1 \subseteq Pod
  BY <1>4, Zenon
<1> QED
  BY <1>5, <1>6, <1>7

-----------------------------------------------------------------------------
(* The requests of a reconcile *)

PodOrNone == Pod \cup {NoPod}
IsSeq(cs) == \E S : cs \in Seq(S)
Has(cs, S) == \E i \in 1 .. Len(cs) : cs[i].op \in S

CallOK(c) ==
    /\ c.pod \in PodOrNone
    /\ c.op \in {"meet", "begin", "fence"} => c.pod \in Pod
    /\ c.op \in {"begin", "migrate"} => c.arg \in PodOrNone
    /\ c.op = "migrate" => c.slots # {} /\ c.slots \subseteq Slot
CallsOK(cs) == IsSeq(cs) /\ \A i \in 1 .. Len(cs) : CallOK(cs[i])

\* Requests that change neither annotation and migrate nothing.
Plain(cs) ==
    /\ CallsOK(cs)
    /\ \A i \in 1 .. Len(cs) : cs[i].op \in {"meet", "addslots", "replicate"}

LEMMA EmptyPlain == Plain(<< >>)
<1>1. << >> \in Seq({}) /\ Len(<< >>) = 0
  OBVIOUS
<1>2. 1 .. 0 = {}
  OBVIOUS
<1> QED
  BY <1>1, <1>2 DEF Plain, CallsOK, IsSeq

LEMMA SeqFacts ==
    ASSUME NEW cs, IsSeq(cs)
    PROVE  /\ Len(cs) \in Nat
           /\ cs # << >> =>
                /\ IsSeq(Tail(cs)) /\ Len(cs) >= 1 /\ Head(cs) = cs[1]
                /\ Len(Tail(cs)) = Len(cs) - 1
                /\ \A i \in 1 .. Len(cs) - 1 : Tail(cs)[i] = cs[i + 1]
<1>1. PICK S : cs \in Seq(S)
  BY DEF IsSeq
<1>2. cs # << >> => Tail(cs) \in Seq(S)
  BY <1>1
<1> QED
  BY <1>1, <1>2 DEF IsSeq

\* Plain requests and a last one.
EndsWith(cs, a, c) == cs = a \o <<c>>

-----------------------------------------------------------------------------
(* The inductive invariant *)

Labels(d) == [0 .. d - 1 -> [shard : Int, primary : BOOLEAN]]

\* The types of what TypeOK leaves out: the requests still to be sent, the
\* annotation, the migration, the bounds, and the labels of a plan.
PlanTyped ==
    /\ CallsOK(calls)
    /\ handover \in [owner : PodOrNone, heir : PodOrNone]
    /\ job \in [from : PodOrNone, to : PodOrNone, todo : SUBSET Slot,
                stage : {"none", "open", "keys", "source", "target", "done"}]
    /\ job # NoJob => job.todo # {} /\ job.stage # "none"
    /\ spent \in [{"edits", "faults", "cuts", "unfences"} -> Nat]
    /\ pc # "idle" => \E d \in Nat : labels \in Labels(d) /\ 0 .. d - 1 \in SUBSET Pod
    /\ then \in {"return", "pods"} /\ (pc = "pods" => then = "pods")

\* The reconcile is past its requests to begin or finish a handover, or will
\* send none.
Beyond == then = "pods" \/ pc \in {"pods", "rolling"} \/ Has(calls, {"fence", "unfence"})

\* The annotations agree with the requests under way.  A reconcile that goes
\* on to the pods found no handover and begins none; one that begins or
\* finishes a handover does nothing else afterwards, and the one it finishes
\* is the one there is.  Fences without a handover are those of an update.
Orderly ==
    /\ Beyond => handover = NoHandover /\ ~ Has(calls, {"begin"})
    /\ (outdated # {} \/ pc = "rolling" \/ Has(calls, {"fence", "unfence"})) => Updates
    /\ spent.unfences = 0 /\ ~ Updates =>
         /\ \A p \in fenced : handover.owner = p
         /\ \A i \in 1 .. Len(calls) :
              /\ calls[i].op = "begin" => i = Len(calls) /\ handover = NoHandover
              /\ calls[i].op = "finish" => i = Len(calls) /\ calls[i].pod = handover.owner

\* Without an update the pods are always the lowest, and the owners of slots
\* survive reconcilePods if every instance answered the poll.
Lowest == ~ Updates => \E k \in Nat : Existing = 0 .. k - 1
OwnersStayIn ==
    (/\ pc \in {"calls", "pods"} /\ then = "pods" /\ silent = {}
     /\ DOMAIN labels \subseteq Existing) => served \subseteq DOMAIN labels

PlanInv == PlanTyped /\ Orderly /\ Lowest /\ OwnersStayIn

\* TypeOK with its sets listed one by one.
TypeFlat ==
    /\ course \in Courses /\ shape \in {course.from, course.to}
    /\ pod \in [Pod -> {"absent", "pending", "down", "up"}]
    /\ label \in [Pod -> [shard : Int, primary : BOOLEAN]]
    /\ outdated \subseteq Existing
    /\ ready \subseteq Pod /\ synced \subseteq Pod /\ joined \subseteq Pod
    /\ asked \subseteq Pod /\ wants \subseteq Pod /\ fenced \subseteq Pod
    /\ silent \subseteq Pod /\ served \subseteq Pod
    /\ of \in [Pod -> PodOrNone]
    /\ owner \in [Slot -> PodOrNone] /\ import \in [Slot -> PodOrNone]
    /\ keys \in [Slot -> SUBSET Pod]
    /\ pc \in {"idle", "calls", "migrating", "pods", "rolling"}
    /\ (job # NoJob) <=> (pc = "migrating")
    /\ handover # NoHandover => handover.owner \in fenced
    /\ \A p \in synced : of[p] # NoPod

-----------------------------------------------------------------------------
(* Steps of the pods and of Redis *)

JobOK(j) ==
    /\ j \in [from : PodOrNone, to : PodOrNone, todo : SUBSET Slot,
              stage : {"none", "open", "keys", "source", "target", "done"}]
    /\ j # NoJob => j.todo # {} /\ j.stage # "none"

Spending == {"edits", "faults", "cuts", "unfences"}

LEMMA SpendFacts ==
    ASSUME PlanTyped, NEW b \in Spending, Spend(b)
    PROVE  /\ spent' \in [Spending -> Nat]
           /\ b # "unfences" => spent'["unfences"] = spent["unfences"]
           /\ b = "unfences" => spent'["unfences"] # 0
BY DEF PlanTyped, Spend, Spending

\* A step that leaves the annotations and the reconcile alone.
LEMMA QuietStep ==
    ASSUME PlanInv, UNCHANGED <<plan, course, outdated, fenced, handover>>,
           Existing' = Existing, JobOK(job'),
           spent' \in [Spending -> Nat], spent'["unfences"] = spent["unfences"]
    PROVE  PlanInv'
<1>1. PlanTyped'
  BY Zenon DEF PlanInv, PlanTyped, plan, JobOK, Spending, PodOrNone, NoJob, Labels
<1>2. Orderly'
  BY DEF PlanInv, Orderly, Beyond, plan, Updates, NoHandover, Has
<1>3. Lowest' /\ OwnersStayIn'
  BY Zenon DEF PlanInv, Lowest, OwnersStayIn, plan, Updates
<1> QED
  BY <1>1, <1>2, <1>3 DEF PlanInv

LEMMA SpentFacts ==
    ASSUME PlanTyped, UNCHANGED spent
    PROVE  spent' \in [Spending -> Nat] /\ spent'["unfences"] = spent["unfences"]
BY DEF PlanTyped, Spending

LEMMA JobFacts ==
    ASSUME PlanTyped, UNCHANGED job
    PROVE  JobOK(job')
BY DEF PlanTyped, JobOK

LEMMA PodStartsStep ==
    ASSUME TypeFlat, PlanInv, NEW p \in Pod, PodStarts(p), UNCHANGED plan
    PROVE  TypeFlat' /\ PlanInv'
<1>1. /\ UNCHANGED <<course, outdated, fenced, handover, job, spent>>
      /\ pod' \in [Pod -> {"absent", "pending", "down", "up"}]
      /\ \A q \in Pod : pod'[q] = "absent" <=> pod[q] = "absent"
  BY DEF PodStarts, TypeFlat, spec
<1>2. Existing' = Existing
  BY <1>1 DEF Existing
<1>3. TypeFlat'
  BY <1>1, <1>2 DEF TypeFlat, PodStarts, spec, redis, plan, PodOrNone, NoJob, NoHandover
<1> QED
  BY <1>1, <1>2, <1>3, QuietStep, SpentFacts, JobFacts DEF PlanInv

LEMMA ProbeStep ==
    ASSUME TypeFlat, PlanInv, NEW p \in Pod, Probe(p), UNCHANGED plan
    PROVE  TypeFlat' /\ PlanInv'
<1>1. /\ UNCHANGED <<course, outdated, fenced, handover, job, spent, pod>>
      /\ ready' \subseteq Pod
  BY DEF Probe, TypeFlat, spec
<1>2. Existing' = Existing
  BY <1>1 DEF Existing
<1>3. TypeFlat'
  BY <1>1, <1>2 DEF TypeFlat, Probe, spec, redis, plan, PodOrNone, NoJob, NoHandover
<1> QED
  BY <1>1, <1>2, <1>3, QuietStep, SpentFacts, JobFacts DEF PlanInv

LEMMA HaltStep ==
    ASSUME TypeFlat, NEW p \in Pod, Up(p), Halt(p), UNCHANGED plan
    PROVE  TypeFlat' /\ Existing' = Existing
<1>1. /\ pod' \in [Pod -> {"absent", "pending", "down", "up"}]
      /\ \A q \in Pod : pod'[q] = "absent" <=> pod[q] = "absent"
  BY DEF Halt, TypeFlat, Up
<1>2. Existing' = Existing
  BY <1>1 DEF Existing
<1> QED
  BY <1>1, <1>2 DEF TypeFlat, Halt, spec, plan, PodOrNone, NoJob, NoHandover

LEMMA RedisExitsStep ==
    ASSUME TypeFlat, PlanInv, NEW p \in Pod, RedisExits(p), UNCHANGED plan
    PROVE  TypeFlat' /\ PlanInv'
<1>1. UNCHANGED <<course, outdated, fenced, handover, job>>
  BY DEF RedisExits, Halt, spec
<1>2. TypeFlat' /\ Existing' = Existing
  BY HaltStep DEF RedisExits
<1>3. spent' \in [Spending -> Nat] /\ spent'["unfences"] = spent["unfences"]
  BY SpendFacts DEF RedisExits, Spending, PlanInv
<1> QED
  BY <1>1, <1>2, <1>3, QuietStep, JobFacts DEF PlanInv

LEMMA StopFencedStep ==
    ASSUME TypeFlat, PlanInv, NEW p \in Pod, StopFenced(p), UNCHANGED plan
    PROVE  TypeFlat' /\ PlanInv'
<1>1. UNCHANGED <<course, outdated, fenced, handover, job, spent>>
  BY DEF StopFenced, Halt, spec
<1>2. TypeFlat' /\ Existing' = Existing
  BY HaltStep DEF StopFenced
<1> QED
  BY <1>1, <1>2, QuietStep, SpentFacts, JobFacts DEF PlanInv

LEMMA HandshakeStep ==
    ASSUME TypeFlat, PlanInv, NEW p \in Pod, Handshake(p), UNCHANGED plan
    PROVE  TypeFlat' /\ PlanInv'
<1>1. UNCHANGED <<course, outdated, fenced, handover, job, spent, pod>>
  BY DEF Handshake, spec, cloud
<1>2. Existing' = Existing
  BY <1>1 DEF Existing
<1>3. TypeFlat'
  BY <1>1, <1>2 DEF TypeFlat, Handshake, spec, cloud, plan, PodOrNone, NoJob, NoHandover
<1> QED
  BY <1>1, <1>2, <1>3, QuietStep, SpentFacts, JobFacts DEF PlanInv

LEMMA CopyFinishesStep ==
    ASSUME TypeFlat, PlanInv, NEW p \in Pod, CopyFinishes(p), UNCHANGED plan
    PROVE  TypeFlat' /\ PlanInv'
<1>1. UNCHANGED <<course, outdated, fenced, handover, job, spent, pod>>
  BY DEF CopyFinishes, spec, cloud
<1>2. Existing' = Existing
  BY <1>1 DEF Existing
<1>3. of[p] # NoPod
  BY DEF CopyFinishes, Up
<1>4. TypeFlat'
  BY <1>1, <1>2, <1>3 DEF TypeFlat, CopyFinishes, spec, cloud, plan, PodOrNone, NoJob, NoHandover
<1> QED
  BY <1>1, <1>2, <1>4, QuietStep, SpentFacts, JobFacts DEF PlanInv

LEMMA TakeOverStep ==
    ASSUME TypeFlat, PlanInv, NEW p \in Pod, NEW m \in Pod, m = of[p],
           TakeOver(p, m), UNCHANGED plan
    PROVE  TypeFlat' /\ PlanInv'
<1>1. UNCHANGED <<course, outdated, fenced, handover, job, spent, pod>>
  BY DEF TakeOver, spec, cloud
<1>2. Existing' = Existing
  BY <1>1 DEF Existing
<1>3. NoPod \notin Pod
  BY PodFacts
<1>4. of' \in [Pod -> PodOrNone] /\ \A q \in synced' : of'[q] # NoPod
  BY <1>3 DEF TakeOver, TypeFlat, PodOrNone
<1>5. owner' \in [Slot -> PodOrNone] /\ keys' \in [Slot -> SUBSET Pod]
  BY DEF TakeOver, TypeFlat, PodOrNone
<1>6. TypeFlat'
  BY <1>1, <1>2, <1>4, <1>5, Zenon
     DEF TypeFlat, TakeOver, spec, cloud, plan, PodOrNone, NoJob, NoHandover
<1> QED
  BY <1>1, <1>2, <1>6, QuietStep, SpentFacts, JobFacts DEF PlanInv

LEMMA FailoverStep ==
    ASSUME TypeFlat, PlanInv, NEW p \in Pod, RedisFailover(p) \/ ManualFailover(p),
           UNCHANGED plan
    PROVE  TypeFlat' /\ PlanInv'
<1>1. CASE RedisFailover(p)
  <2>1. of[p] \in Pod /\ TakeOver(p, of[p])
    BY <1>1 DEF RedisFailover, Owners
  <2> QED
    BY <2>1, TakeOverStep
<1>2. CASE ManualFailover(p)
  <2>1. of[p] \in Pod /\ TakeOver(p, of[p])
    BY <1>2 DEF ManualFailover, Up, TypeFlat, PodOrNone
  <2> QED
    BY <2>1, TakeOverStep
<1> QED
  BY <1>1, <1>2

LEMMA FailoverExpiresStep ==
    ASSUME TypeFlat, PlanInv, NEW p \in Pod, FailoverExpires(p), UNCHANGED plan
    PROVE  TypeFlat' /\ PlanInv'
<1>1. UNCHANGED <<course, outdated, fenced, handover, job, pod>>
  BY DEF FailoverExpires, spec, cloud
<1>2. Existing' = Existing
  BY <1>1 DEF Existing
<1>3. TypeFlat'
  BY <1>1, <1>2 DEF TypeFlat, FailoverExpires, spec, cloud, plan, PodOrNone, NoJob, NoHandover
<1>4. spent' \in [Spending -> Nat] /\ spent'["unfences"] = spent["unfences"]
  <2>1. Spend("cuts") \/ UNCHANGED spent
    BY DEF FailoverExpires
  <2>2. CASE Spend("cuts")
    BY <2>2, SpendFacts DEF Spending, PlanInv
  <2>3. CASE UNCHANGED spent
    BY <2>3, SpentFacts DEF PlanInv
  <2> QED
    BY <2>1, <2>2, <2>3
<1> QED
  BY <1>1, <1>2, <1>3, <1>4, QuietStep, JobFacts DEF PlanInv

LEMMA EmergencyFenceStep ==
    ASSUME TypeFlat, PlanInv, EmergencyFence, UNCHANGED plan
    PROVE  TypeFlat' /\ PlanInv'
<1>1. UNCHANGED <<course, shape, cloud, redis, fenced, job>> /\ handover' = NoHandover
  BY DEF EmergencyFence, spec
<1>2. Existing' = Existing
  BY <1>1 DEF Existing, cloud
<1>3. TypeFlat'
  BY <1>1, <1>2 DEF TypeFlat, cloud, redis, plan, PodOrNone, NoJob, NoHandover
<1>4. spent' \in [Spending -> Nat] /\ spent'["unfences"] # 0
  BY SpendFacts DEF EmergencyFence, Spending, PlanInv
<1>5. PlanTyped'
  <2>1. NoHandover \in [owner : PodOrNone, heir : PodOrNone]
    BY DEF NoHandover, PodOrNone
  <2> QED
    BY <1>1, <1>4, <2>1, Zenon DEF PlanInv, PlanTyped, plan, Spending, PodOrNone, NoJob, Labels
<1>6. Orderly'
  BY <1>1, <1>4 DEF PlanInv, Orderly, Beyond, plan, cloud, Updates, NoHandover, Has
<1>7. Lowest' /\ OwnersStayIn'
  BY <1>1, <1>2, Zenon DEF PlanInv, Lowest, OwnersStayIn, plan, Updates
<1> QED
  BY <1>3, <1>5, <1>6, <1>7 DEF PlanInv

LEMMA EditSpecStep ==
    ASSUME TypeFlat, PlanInv, EditSpec, UNCHANGED plan
    PROVE  TypeFlat' /\ PlanInv'
<1>1. /\ UNCHANGED <<course, cloud, redis, fenced, handover, job>>
      /\ shape' \in {course.from, course.to}
  BY DEF EditSpec
<1>2. Existing' = Existing
  BY <1>1 DEF Existing, cloud
<1>3. TypeFlat'
  BY <1>1, <1>2 DEF TypeFlat, cloud, redis, plan, PodOrNone, NoJob, NoHandover
<1>4. spent' \in [Spending -> Nat] /\ spent'["unfences"] = spent["unfences"]
  BY SpendFacts DEF EditSpec, Spending, PlanInv
<1>5. outdated' = outdated
  BY <1>1 DEF cloud
<1> QED
  BY <1>1, <1>2, <1>3, <1>4, <1>5, QuietStep, JobFacts DEF PlanInv

\* A command of a migration: both ends run, and the slot is one of the request.
LEMMA AtFacts ==
    ASSUME TypeFlat, PlanTyped, NEW stage \in {"open", "keys", "source", "target"},
           At(stage)
    PROVE  /\ job # NoJob /\ JobOK(job) /\ pc = "migrating"
           /\ job.from \in Pod /\ job.to \in Pod
           /\ jobSlot \in job.todo /\ jobSlot \in Slot
<1>1. JobOK(job) /\ job.stage = stage
  BY DEF PlanTyped, JobOK, At
<1>2. job # NoJob
  BY <1>1 DEF NoJob
<1>3. job.from \in Pod /\ job.to \in Pod
  BY <1>1 DEF JobOK, At, Up, PodOrNone
<1>4. job.todo \in SUBSET Slot /\ job.todo # {} /\ Slot \in SUBSET Nat
  BY <1>1, <1>2, SlotsAssumption DEF JobOK, Slot
<1>5. jobSlot \in job.todo
  <2>1. PICK x \in job.todo : \A y \in job.todo : <<y, x>> \notin OpToRel(<, Nat)
    BY <1>4, NatLessThanWellFounded, WFMin, Zenon
  <2>2. ASSUME NEW y \in job.todo PROVE x =< y
    <3>1. x \in Nat /\ y \in Nat
      BY <1>4, Zenon
    <3>2. ~ (y < x)
      BY <2>1, <3>1, Zenon DEF OpToRel
    <3> QED
      BY <3>1, <3>2
  <2> QED
    BY <2>2 DEF jobSlot, Min
<1> QED
  BY <1>1, <1>2, <1>3, <1>4, <1>5 DEF TypeFlat

\* What a command of a migration must leave in order.
LEMMA MigrateFrame ==
    ASSUME TypeFlat, PlanInv, NEW stage \in {"open", "keys", "source", "target"},
           At(stage), UNCHANGED plan, JobOK(job'), job' # NoJob,
           owner' \in [Slot -> PodOrNone], import' \in [Slot -> PodOrNone],
           keys' \in [Slot -> SUBSET Pod]
    PROVE  TypeFlat' /\ PlanInv'
<1>1. UNCHANGED <<course, shape, cloud, of, synced, joined, asked, wants, fenced,
                  handover, spent>>
  BY DEF At, spec
<1>2. Existing' = Existing /\ outdated' = outdated
  BY <1>1 DEF Existing, cloud
<1>3. pc' = "migrating" /\ PlanTyped
  BY AtFacts DEF plan, PlanInv
<1>4. TypeFlat'
  BY <1>1, <1>2, <1>3 DEF TypeFlat, cloud, plan, PodOrNone, NoJob, NoHandover
<1> QED
  BY <1>1, <1>2, <1>3, <1>4, QuietStep, SpentFacts

LEMMA MigrateStepStep ==
    ASSUME TypeFlat, PlanInv, MigrateStep, UNCHANGED plan
    PROVE  TypeFlat' /\ PlanInv'
<1> USE DEF PodOrNone
<1>0. PlanTyped
  BY DEF PlanInv
<1>1. CASE OpenSlot
  <2>1. At("open")
    BY <1>1 DEF OpenSlot
  <2>2. /\ JobOK(job) /\ job # NoJob /\ job.to \in Pod /\ jobSlot \in Slot
    BY <1>0, <2>1, AtFacts
  <2>3. job' = [job EXCEPT !.stage = "keys"]
    BY <1>1 DEF OpenSlot
  <2>4. JobOK(job') /\ job' # NoJob
    BY <2>2, <2>3 DEF JobOK, NoJob
  <2>5. import' \in [Slot -> PodOrNone]
    BY <1>1, <2>2 DEF OpenSlot, TypeFlat
  <2>6. owner' \in [Slot -> PodOrNone] /\ keys' \in [Slot -> SUBSET Pod]
    BY <1>1 DEF OpenSlot, TypeFlat
  <2> QED
    BY <2>1, <2>4, <2>5, <2>6, MigrateFrame
<1>2. CASE MoveKeys
  <2>1. At("keys")
    BY <1>2 DEF MoveKeys
  <2>2. /\ JobOK(job) /\ job # NoJob /\ job.to \in Pod /\ jobSlot \in Slot
    BY <1>0, <2>1, AtFacts
  <2>3. job' = job \/ job' = [job EXCEPT !.stage = "source"]
    BY <1>2 DEF MoveKeys
  <2>4. JobOK(job') /\ job' # NoJob
    BY <2>2, <2>3 DEF JobOK, NoJob
  <2>5. keys' \in [Slot -> SUBSET Pod]
    BY <1>2, <2>2 DEF MoveKeys, TypeFlat
  <2>6. owner' \in [Slot -> PodOrNone] /\ import' \in [Slot -> PodOrNone]
    BY <1>2 DEF MoveKeys, TypeFlat
  <2> QED
    BY <2>1, <2>4, <2>5, <2>6, MigrateFrame
<1>3. CASE AssignOnSource
  <2>1. At("source")
    BY <1>3 DEF AssignOnSource
  <2>2. /\ JobOK(job) /\ job # NoJob /\ jobSlot \in Slot
    BY <1>0, <2>1, AtFacts
  <2>3. job' = [job EXCEPT !.stage = "target"]
    BY <1>3 DEF AssignOnSource
  <2>4. JobOK(job') /\ job' # NoJob
    BY <2>2, <2>3 DEF JobOK, NoJob
  <2>5. owner' \in [Slot -> PodOrNone]
    BY <1>3, <2>2 DEF AssignOnSource, TypeFlat
  <2>6. import' \in [Slot -> PodOrNone] /\ keys' \in [Slot -> SUBSET Pod]
    BY <1>3 DEF AssignOnSource, TypeFlat
  <2> QED
    BY <2>1, <2>4, <2>5, <2>6, MigrateFrame
<1>4. CASE AssignOnTarget
  <2>1. At("target")
    BY <1>4 DEF AssignOnTarget
  <2>2. /\ JobOK(job) /\ job # NoJob /\ job.to \in Pod /\ jobSlot \in Slot
        /\ jobSlot \in job.todo
    BY <1>0, <2>1, AtFacts
  <2>3. \/ job' = [job EXCEPT !.stage = "done"]
        \/ /\ job.todo # {jobSlot}
           /\ job' = [job EXCEPT !.todo = job.todo \ {jobSlot}, !.stage = "open"]
    BY <1>4 DEF AssignOnTarget
  <2>4. JobOK(job') /\ job' # NoJob
    <3>1. CASE job' = [job EXCEPT !.stage = "done"]
      BY <2>2, <3>1 DEF JobOK, NoJob
    <3>2. CASE /\ job.todo # {jobSlot}
               /\ job' = [job EXCEPT !.todo = job.todo \ {jobSlot}, !.stage = "open"]
      <4>1. job.todo \ {jobSlot} # {} /\ job.todo \ {jobSlot} \in SUBSET Slot
        BY <2>2, <3>2 DEF JobOK
      <4>2. job' = [from |-> job.from, to |-> job.to, todo |-> job.todo \ {jobSlot},
                    stage |-> "open"]
        BY <2>2, <3>2, Zenon DEF JobOK
      <4>3. job' # NoJob
        BY <4>2 DEF NoJob
      <4> QED
        BY <2>2, <4>1, <4>2, <4>3 DEF JobOK
    <3> QED
      BY <2>3, <3>1, <3>2
  <2>5. owner' \in [Slot -> PodOrNone] /\ import' \in [Slot -> PodOrNone]
    BY <1>4, <2>2 DEF AssignOnTarget, TypeFlat
  <2>6. keys' \in [Slot -> SUBSET Pod]
    BY <1>4 DEF AssignOnTarget, TypeFlat
  <2> QED
    BY <2>1, <2>4, <2>5, <2>6, MigrateFrame
<1> QED
  BY <1>1, <1>2, <1>3, <1>4 DEF MigrateStep

LEMMA RedisStep ==
    ASSUME TypeFlat, PlanInv, RedisNext, UNCHANGED plan
    PROVE  TypeFlat' /\ PlanInv'
<1>1. ASSUME NEW p \in Pod,
             PodStarts(p) \/ Probe(p) \/ RedisExits(p) \/ StopFenced(p)
             \/ Handshake(p) \/ CopyFinishes(p) \/ RedisFailover(p)
             \/ ManualFailover(p) \/ FailoverExpires(p)
      PROVE  TypeFlat' /\ PlanInv'
  BY <1>1, PodStartsStep, ProbeStep, RedisExitsStep, StopFencedStep, HandshakeStep,
     CopyFinishesStep, FailoverStep, FailoverExpiresStep
<1> QED
  BY <1>1, EmergencyFenceStep, EditSpecStep, MigrateStepStep DEF RedisNext

-----------------------------------------------------------------------------
(* Steps of the reconcile *)

\* The end of a reconcile, whatever becomes of the migration it waits for.
LEMMA ReturnStep ==
    ASSUME TypeFlat, PlanInv, Return, job' = NoJob,
           UNCHANGED <<spec, cloud, redis, fenced, handover>>,
           spent' \in [Spending -> Nat], spent'["unfences"] = spent["unfences"]
    PROVE  TypeFlat' /\ PlanInv'
<1>1. /\ pc' = "idle" /\ calls' = << >> /\ then' = "return" /\ labels' = << >>
      /\ silent' = {} /\ served' = {}
  BY DEF Return, Forget
<1>2. Existing' = Existing /\ outdated' = outdated
  BY DEF Existing, cloud
<1>3. TypeFlat'
  BY <1>1, <1>2 DEF TypeFlat, spec, cloud, redis, PodOrNone, NoJob, NoHandover
<1>4. JobOK(NoJob)
  BY Zenon DEF JobOK, NoJob, PodOrNone
<1>5. CallsOK(<< >>)
  BY EmptyPlain DEF Plain
<1>6. PlanTyped'
  BY <1>1, <1>4, <1>5 DEF PlanInv, PlanTyped, JobOK, Spending, PodOrNone, NoJob
<1>7. ~ Has(<< >>, {"fence", "unfence"}) /\ Len(<< >>) = 0 /\ 1 .. 0 = {}
  BY DEF Has
<1>8. Orderly'
  BY <1>1, <1>2, <1>7, Zenon DEF PlanInv, Orderly, Beyond, Updates, spec
<1>9. Lowest' /\ OwnersStayIn'
  BY <1>1, <1>2 DEF PlanInv, Lowest, OwnersStayIn, Updates, spec
<1> QED
  BY <1>3, <1>6, <1>8, <1>9 DEF PlanInv

LEMMA CutStep ==
    ASSUME TypeFlat, PlanInv, Cut
    PROVE  TypeFlat' /\ PlanInv'
<1>1. spent' \in [Spending -> Nat] /\ spent'["unfences"] = spent["unfences"]
  BY SpendFacts DEF Cut, Spending, PlanInv
<1> QED
  BY <1>1, ReturnStep DEF Cut

LEMMA MigrateEndsStep ==
    ASSUME TypeFlat, PlanInv, MigrateEnds
    PROVE  TypeFlat' /\ PlanInv'
BY ReturnStep, SpentFacts DEF MigrateEnds, PlanInv

LEMMA RefusedStep ==
    ASSUME TypeFlat, PlanInv, Refused
    PROVE  TypeFlat' /\ PlanInv'
<1>1. job' = NoJob
  BY DEF Refused, TypeFlat
<1> QED
  BY <1>1, ReturnStep, SpentFacts DEF Refused, PlanInv

LEMMA CallsDoneStep ==
    ASSUME TypeFlat, PlanInv, CallsDone
    PROVE  TypeFlat' /\ PlanInv'
<1>1. CASE then # "pods"
  <2>1. job' = NoJob /\ Return
    BY <1>1 DEF CallsDone, TypeFlat
  <2> QED
    BY <2>1, ReturnStep, SpentFacts DEF CallsDone, PlanInv
<1>2. CASE then = "pods"
  <2>1. /\ pc = "calls" /\ pc' = "pods"
        /\ UNCHANGED <<calls, then, silent, served, labels, shards, spec, cloud,
                       redis, fenced, handover, job, spent>>
    BY <1>2 DEF CallsDone
  <2>2. Existing' = Existing /\ outdated' = outdated /\ course' = course
    BY <2>1 DEF Existing, cloud, spec
  <2>3. TypeFlat'
    BY <2>1, <2>2, Zenon DEF TypeFlat, spec, cloud, redis, PodOrNone, NoJob, NoHandover
  <2>4. PlanTyped'
    BY <1>2, <2>1, Zenon DEF PlanInv, PlanTyped, PodOrNone, NoJob, Labels
  <2>5. Orderly'
    BY <1>2, <2>1, <2>2 DEF PlanInv, Orderly, Beyond, Updates, NoHandover, Has
  <2>6. Lowest' /\ OwnersStayIn'
    BY <1>2, <2>1, <2>2, Zenon DEF PlanInv, Lowest, OwnersStayIn, Updates
  <2> QED
    BY <2>3, <2>4, <2>5, <2>6 DEF PlanInv
<1> QED
  BY <1>1, <1>2

LEMMA TailFacts ==
    ASSUME NEW cs, CallsOK(cs), cs # << >>
    PROVE  /\ CallOK(Head(cs)) /\ CallsOK(Tail(cs)) /\ Len(cs) \in Nat /\ Len(cs) >= 1
           /\ Head(cs) = cs[1] /\ Len(Tail(cs)) = Len(cs) - 1
           /\ \A i \in 1 .. Len(cs) - 1 : Tail(cs)[i] = cs[i + 1]
<1>1. /\ IsSeq(Tail(cs)) /\ Len(cs) \in Nat /\ Len(cs) >= 1 /\ Head(cs) = cs[1]
      /\ Len(Tail(cs)) = Len(cs) - 1
      /\ \A i \in 1 .. Len(cs) - 1 : Tail(cs)[i] = cs[i + 1]
  BY SeqFacts DEF CallsOK
<1>2. PICK k \in Nat : Len(cs) = k + 1
  <2>1. Len(cs) \in Nat /\ Len(cs) >= 1
    BY <1>1
  <2>2. Len(cs) - 1 \in Nat /\ Len(cs) = (Len(cs) - 1) + 1
    BY <2>1
  <2> QED
    BY <2>2, Zenon
<1>3. CallOK(cs[1])
  BY <1>2 DEF CallsOK
<1>4. ASSUME NEW i \in 1 .. k PROVE CallOK(Tail(cs)[i])
  <2>1. i + 1 \in 1 .. k + 1
    OBVIOUS
  <2>2. CallOK(cs[i + 1])
    BY <1>2, <2>1 DEF CallsOK
  <2> QED
    BY <1>1, <1>2, <2>2
<1>5. CallsOK(Tail(cs))
  BY <1>1, <1>2, <1>4 DEF CallsOK
<1> QED
  BY <1>1, <1>3, <1>5

LEMMA TailLen ==
    ASSUME NEW cs, CallsOK(cs), cs # << >>
    PROVE  \E k \in Nat : /\ Len(cs) = k + 1 /\ Len(Tail(cs)) = k
                          /\ \A i \in 1 .. k : Tail(cs)[i] = cs[i + 1]
<1>1. /\ Len(cs) \in Nat /\ Len(cs) >= 1 /\ Len(Tail(cs)) = Len(cs) - 1
  BY TailFacts
<1>2. \A i \in 1 .. Len(cs) - 1 : Tail(cs)[i] = cs[i + 1]
  BY TailFacts
<1>3. Len(cs) - 1 \in Nat /\ Len(cs) = (Len(cs) - 1) + 1
  BY <1>1
<1> QED
  BY <1>1, <1>2, <1>3, Zenon

LEMMA TailHas ==
    ASSUME NEW cs, CallsOK(cs), cs # << >>, NEW S
    PROVE  /\ Has(Tail(cs), S) => Has(cs, S)
           /\ Head(cs).op \in S => Has(cs, S)
<1>1. PICK k \in Nat : /\ Len(cs) = k + 1 /\ Len(Tail(cs)) = k
                       /\ \A i \in 1 .. k : Tail(cs)[i] = cs[i + 1]
  BY TailLen
<1>2. ASSUME NEW i \in 1 .. k, Tail(cs)[i].op \in S PROVE Has(cs, S)
  <2>1. i + 1 \in 1 .. k + 1 /\ cs[i + 1].op \in S
    BY <1>1, <1>2
  <2> QED
    BY <1>1, <2>1 DEF Has
<1>3. Head(cs).op \in S => Has(cs, S)
  <2>1. 1 \in 1 .. k + 1 /\ Head(cs) = cs[1]
    BY TailFacts
  <2> QED
    BY <1>1, <2>1 DEF Has
<1> QED
  BY <1>1, <1>2, <1>3 DEF Has

\* A request is sent: what is to be shown of what it does to the annotations.
LEMMA SentStep ==
    ASSUME TypeFlat, PlanInv, pc = "calls", calls # << >>, Sent, job' = job,
           handover' \in [owner : PodOrNone, heir : PodOrNone],
           Beyond => handover' = NoHandover,
           spent.unfences = 0 /\ ~ Updates =>
             /\ \A p \in fenced' : handover'.owner = p
             /\ handover' = handover \/ Len(calls) = 1
    PROVE  PlanInv'
<1>1. /\ calls' = Tail(calls)
      /\ UNCHANGED <<course, cloud, spent, pc, then, silent, served, labels>>
  BY DEF Sent, spec
<1>2. Existing' = Existing /\ outdated' = outdated
  BY <1>1 DEF Existing, cloud
<1>3. CallsOK(calls)
  BY DEF PlanInv, PlanTyped
<1>4. PICK k \in Nat : /\ Len(calls) = k + 1 /\ Len(Tail(calls)) = k
                       /\ \A i \in 1 .. k : Tail(calls)[i] = calls[i + 1]
  BY <1>3, TailLen
<1>5. PlanTyped'
  <2>1. CallsOK(Tail(calls))
    BY <1>3, TailFacts
  <2> QED
    BY <1>1, <2>1, Zenon DEF PlanInv, PlanTyped, PodOrNone, NoJob, Labels
<1>6. /\ Has(Tail(calls), {"fence", "unfence"}) => Has(calls, {"fence", "unfence"})
      /\ Has(Tail(calls), {"begin"}) => Has(calls, {"begin"})
  BY <1>3, TailHas
<1>7. Beyond' => Beyond
  BY <1>1, <1>6 DEF Beyond
<1>8. Beyond' => handover' = NoHandover /\ ~ Has(calls', {"begin"})
  BY <1>1, <1>6, <1>7 DEF PlanInv, Orderly
<1>9. (outdated' # {} \/ pc' = "rolling" \/ Has(calls', {"fence", "unfence"})) => Updates'
  BY <1>1, <1>2, <1>6 DEF PlanInv, Orderly, Updates
<1>10. ASSUME spent.unfences = 0, ~ Updates, NEW i \in 1 .. Len(Tail(calls))
       PROVE  /\ Tail(calls)[i].op = "begin" =>
                   i = Len(Tail(calls)) /\ handover' = NoHandover
              /\ Tail(calls)[i].op = "finish" =>
                   i = Len(Tail(calls)) /\ Tail(calls)[i].pod = handover'.owner
  <2>1. i \in 1 .. k /\ i + 1 \in 1 .. k + 1 /\ Tail(calls)[i] = calls[i + 1]
    BY <1>4
  <2>2. Len(calls) # 1 /\ handover' = handover
    BY <1>4, <1>10, <2>1
  <2>3. /\ calls[i + 1].op = "begin" => i + 1 = k + 1 /\ handover = NoHandover
        /\ calls[i + 1].op = "finish" => i + 1 = k + 1 /\ calls[i + 1].pod = handover.owner
    BY <1>4, <1>10, <2>1 DEF PlanInv, Orderly
  <2> QED
    BY <1>4, <2>1, <2>2, <2>3
<1>11. Orderly'
  <2>1. spent'.unfences = spent.unfences /\ (Updates' <=> Updates)
    BY <1>1 DEF Updates
  <2>2. spent'.unfences = 0 /\ ~ Updates' => \A p \in fenced' : handover'.owner = p
    BY <2>1
  <2>3. ASSUME spent'.unfences = 0, ~ Updates', NEW i \in 1 .. Len(calls')
        PROVE  /\ calls'[i].op = "begin" => i = Len(calls') /\ handover' = NoHandover
               /\ calls'[i].op = "finish" =>
                    i = Len(calls') /\ calls'[i].pod = handover'.owner
    BY <1>1, <1>10, <2>1, <2>3
  <2>4. NoHandover' = NoHandover
    BY DEF NoHandover
  <2> QED
    BY <1>8, <1>9, <2>2, <2>3, <2>4 DEF Orderly
<1>12. Lowest' /\ OwnersStayIn'
  BY <1>1, <1>2 DEF PlanInv, Lowest, OwnersStayIn, Updates
<1> QED
  BY <1>5, <1>11, <1>12 DEF PlanInv

\* Requests that leave the annotations alone.
LEMMA PlainSentStep ==
    ASSUME TypeFlat, PlanInv, pc = "calls", calls # << >>, Sent,
           UNCHANGED <<job, handover, fenced>>
    PROVE  PlanInv'
<1>1. handover' \in [owner : PodOrNone, heir : PodOrNone]
  BY DEF PlanInv, PlanTyped
<1>2. Beyond => handover' = NoHandover
  BY DEF PlanInv, Orderly
<1>3. spent.unfences = 0 /\ ~ Updates =>
        /\ \A p \in fenced' : handover'.owner = p
        /\ handover' = handover \/ Len(calls) = 1
  BY DEF PlanInv, Orderly
<1> QED
  BY <1>1, <1>2, <1>3, SentStep

LEMMA HeadFacts ==
    ASSUME PlanInv, NEW op, Sends(op)
    PROVE  /\ pc = "calls" /\ calls # << >> /\ CallOK(Head(calls)) /\ Head(calls).op = op
           /\ Has(calls, {"begin"}) \/ op # "begin"
           /\ Has(calls, {"fence", "unfence"}) \/ op \notin {"fence", "unfence"}
<1>1. pc = "calls" /\ calls # << >> /\ Head(calls).op = op /\ CallsOK(calls)
  BY DEF Sends, PlanInv, PlanTyped
<1> QED
  BY <1>1, TailFacts, TailHas

LEMMA SentTyped ==
    ASSUME TypeFlat, Sent, pc = "calls", job' = job,
           asked' \subseteq Pod, wants' \subseteq Pod, fenced' \subseteq Pod,
           synced' \subseteq Pod, joined' = joined, import' = import,
           of' \in [Pod -> PodOrNone], owner' \in [Slot -> PodOrNone],
           keys' \in [Slot -> SUBSET Pod],
           \A p \in synced' : of'[p] # NoPod,
           handover' # NoHandover => handover'.owner \in fenced'
    PROVE  TypeFlat'
<1>1. UNCHANGED <<course, shape, cloud, spent, pc, then, silent, served, labels>>
  BY DEF Sent, spec
<1>2. Existing' = Existing
  BY <1>1, Zenon DEF Existing, cloud
<1> QED
  BY <1>1, <1>2, Zenon DEF TypeFlat, cloud, PodOrNone, NoJob, NoHandover

LEMMA MeetStep ==
    ASSUME TypeFlat, PlanInv, Meet
    PROVE  TypeFlat' /\ PlanInv'
<1>1. Sends("meet") /\ Sent
  BY DEF Meet
<1>2. pc = "calls" /\ calls # << >> /\ CallOK(Head(calls)) /\ Head(calls).op = "meet"
  BY <1>1, HeadFacts
<1>3. asked' \subseteq Pod
  BY <1>2 DEF Meet, CallOK, TypeFlat
<1>4. UNCHANGED <<of, synced, owner, import, keys, joined, wants, fenced, handover, job>>
  BY DEF Meet
<1>5. TypeFlat'
  BY <1>1, <1>2, <1>3, <1>4, SentTyped, Zenon DEF TypeFlat
<1> QED
  BY <1>1, <1>2, <1>4, <1>5, PlainSentStep

LEMMA AddSlotsStep ==
    ASSUME TypeFlat, PlanInv, AddSlots
    PROVE  TypeFlat' /\ PlanInv'
<1>1. Sends("addslots") /\ Sent /\ Accepted(Head(calls))
  BY DEF AddSlots
<1>2. /\ pc = "calls" /\ calls # << >> /\ CallOK(Head(calls))
      /\ Head(calls).op = "addslots"
  BY <1>1, HeadFacts
<1>3. Head(calls).pod \in Pod
  BY <1>1, <1>2 DEF Accepted, Up, CallOK, PodOrNone
<1>4. owner' \in [Slot -> PodOrNone] /\ keys' \in [Slot -> SUBSET Pod]
  BY <1>3 DEF AddSlots, TypeFlat, PodOrNone
<1>5. UNCHANGED <<of, synced, import, joined, asked, wants, fenced, handover, job>>
  BY Zenon DEF AddSlots
<1>6. TypeFlat'
  BY <1>1, <1>2, <1>4, <1>5, SentTyped, Zenon DEF TypeFlat
<1> QED
  BY <1>1, <1>2, <1>5, <1>6, PlainSentStep

LEMMA ReplicateStep ==
    ASSUME TypeFlat, PlanInv, Replicate
    PROVE  TypeFlat' /\ PlanInv'
<1>1. Sends("replicate") /\ Sent /\ Accepted(Head(calls))
  BY DEF Replicate
<1>2. /\ pc = "calls" /\ calls # << >> /\ CallOK(Head(calls))
      /\ Head(calls).op = "replicate"
  BY <1>1, HeadFacts
<1>3. Head(calls).pod \in Pod /\ Head(calls).arg \in Pod
  BY <1>1, <1>2 DEF Accepted, TypeFlat
<1>4. of' \in [Pod -> PodOrNone] /\ synced' \subseteq Pod /\ \A p \in synced' : of'[p] # NoPod
  BY <1>3 DEF Replicate, TypeFlat, PodOrNone
<1>5. UNCHANGED <<owner, import, keys, joined, asked, wants, fenced, handover, job>>
  BY DEF Replicate
<1>6. TypeFlat'
  BY <1>1, <1>2, <1>4, <1>5, SentTyped, Zenon DEF TypeFlat
<1> QED
  BY <1>1, <1>2, <1>5, <1>6, PlainSentStep

LEMMA PromoteStep ==
    ASSUME TypeFlat, PlanInv, Promote
    PROVE  TypeFlat' /\ PlanInv'
<1>1. Sends("promote") /\ Sent /\ Accepted(Head(calls))
  BY DEF Promote
<1>2. pc = "calls" /\ calls # << >> /\ CallOK(Head(calls)) /\ Head(calls).op = "promote"
  BY <1>1, HeadFacts
<1>3. Head(calls).pod \in Pod
  BY <1>1, <1>2 DEF Accepted, Up, CallOK, PodOrNone
<1>4. wants' \subseteq Pod
  BY <1>3 DEF Promote, TypeFlat
<1>5. UNCHANGED <<of, synced, owner, import, keys, joined, asked, fenced, handover, job>>
  BY DEF Promote
<1>6. TypeFlat'
  BY <1>1, <1>2, <1>4, <1>5, SentTyped, Zenon DEF TypeFlat
<1> QED
  BY <1>1, <1>2, <1>5, <1>6, PlainSentStep

LEMMA BeginHandoverStep ==
    ASSUME TypeFlat, PlanInv, BeginHandover
    PROVE  TypeFlat' /\ PlanInv'
<1>1. /\ Sends("begin") /\ Sent /\ UNCHANGED <<redis, job>>
      /\ fenced' = fenced \cup {Head(calls).pod}
      /\ handover' = [owner |-> Head(calls).pod, heir |-> Head(calls).arg]
  BY Zenon DEF BeginHandover
<1>2. /\ pc = "calls" /\ calls # << >> /\ CallOK(Head(calls)) /\ Head(calls).op = "begin"
      /\ Has(calls, {"begin"})
  BY <1>1, HeadFacts
<1>3. /\ Head(calls).pod \in Pod
      /\ handover' \in [owner : PodOrNone, heir : PodOrNone]
      /\ handover'.owner = Head(calls).pod
  BY <1>1, <1>2 DEF CallOK, PodOrNone
<1>4. ~ Beyond
  BY <1>2 DEF PlanInv, Orderly
<1>5. ASSUME spent.unfences = 0, ~ Updates
      PROVE  (\A p \in fenced' : handover'.owner = p) /\ Len(calls) = 1
  <2>1. CallsOK(calls) /\ NoPod \notin Pod /\ fenced \subseteq Pod
    BY PodFacts DEF PlanInv, PlanTyped, TypeFlat
  <2>2. Head(calls) = calls[1] /\ 1 \in 1 .. Len(calls)
    BY <1>2, <2>1, TailFacts
  <2>3. 1 = Len(calls) /\ handover = NoHandover /\ \A p \in fenced : handover.owner = p
    BY <1>2, <1>5, <2>2, Zenon DEF PlanInv, Orderly
  <2>4. fenced = {}
    BY <2>1, <2>3 DEF NoHandover
  <2> QED
    BY <1>1, <1>3, <2>3, <2>4
<1>6. TypeFlat'
  <2>1. fenced' \subseteq Pod /\ handover'.owner \in fenced'
    BY <1>1, <1>3, Zenon DEF TypeFlat
  <2>2. UNCHANGED <<of, synced, owner, import, keys, joined, asked, wants>>
    BY <1>1 DEF redis
  <2> QED
    BY <1>1, <1>2, <2>1, <2>2, SentTyped, Zenon DEF TypeFlat
<1>7. PlanInv'
  BY <1>1, <1>2, <1>3, <1>4, <1>5, SentStep
<1> QED
  BY <1>6, <1>7

LEMMA FinishHandoverStep ==
    ASSUME TypeFlat, PlanInv, FinishHandover
    PROVE  TypeFlat' /\ PlanInv'
<1>1. /\ Sends("finish") /\ Sent /\ UNCHANGED <<redis, job>>
      /\ fenced' = fenced \ {Head(calls).pod} /\ handover' = NoHandover
  BY DEF FinishHandover
<1>2. /\ pc = "calls" /\ calls # << >> /\ CallOK(Head(calls)) /\ Head(calls).op = "finish"
  BY <1>1, HeadFacts
<1>3. handover' \in [owner : PodOrNone, heir : PodOrNone]
  BY <1>1 DEF NoHandover, PodOrNone
<1>4. ASSUME spent.unfences = 0, ~ Updates
      PROVE  (\A p \in fenced' : handover'.owner = p) /\ Len(calls) = 1
  <2>1. CallsOK(calls)
    BY DEF PlanInv, PlanTyped
  <2>2. Head(calls) = calls[1] /\ 1 \in 1 .. Len(calls)
    BY <1>2, <2>1, TailFacts
  <2>3. /\ 1 = Len(calls) /\ Head(calls).pod = handover.owner
        /\ \A p \in fenced : handover.owner = p
    BY <1>2, <1>4, <2>2, Zenon DEF PlanInv, Orderly
  <2>4. fenced' = {}
    BY <1>1, <2>3
  <2> QED
    BY <2>3, <2>4
<1>5. TypeFlat'
  <2>1. fenced' \subseteq Pod
    BY <1>1, Zenon DEF TypeFlat
  <2>2. UNCHANGED <<of, synced, owner, import, keys, joined, asked, wants>>
    BY <1>1 DEF redis
  <2> QED
    BY <1>1, <1>2, <2>1, <2>2, SentTyped, Zenon DEF TypeFlat
<1>6. PlanInv'
  BY <1>1, <1>2, <1>3, <1>4, SentStep
<1> QED
  BY <1>5, <1>6

LEMMA FenceStep ==
    ASSUME TypeFlat, PlanInv, SetFence \/ ClearFence
    PROVE  TypeFlat' /\ PlanInv'
<1>1. /\ Sent /\ UNCHANGED <<redis, job>>
      /\ \/ Sends("fence") /\ fenced' = fenced \cup {Head(calls).pod}
         \/ Sends("unfence") /\ fenced' = fenced \ {Head(calls).pod}
      /\ handover' \in {NoHandover, handover}
  <2>1. CASE SetFence
    <3>1. /\ Sent /\ UNCHANGED <<redis, job>>
          /\ Sends("fence") /\ fenced' = fenced \cup {Head(calls).pod}
      BY <2>1 DEF SetFence
    <3>2. handover' = NoHandover \/ handover' = handover
      BY <2>1 DEF SetFence
    <3> QED
      BY <3>1, <3>2
  <2>2. CASE ClearFence
    BY <2>2 DEF ClearFence
  <2> QED
    BY <2>1, <2>2
<1>2. /\ pc = "calls" /\ calls # << >> /\ CallOK(Head(calls))
      /\ Has(calls, {"fence", "unfence"})
      /\ Head(calls).op = "fence" \/ fenced' = fenced \ {Head(calls).pod}
  BY <1>1, HeadFacts, SMTT(30)
<1>3. Beyond /\ handover = NoHandover /\ Updates
  BY <1>2, SMTT(30) DEF PlanInv, Orderly, Beyond
<1>4. handover' = NoHandover /\ handover' \in [owner : PodOrNone, heir : PodOrNone]
  BY <1>1, <1>3 DEF NoHandover, PodOrNone
<1>5. TypeFlat'
  <2>1. fenced' \subseteq Pod
    BY <1>1, <1>2, Zenon DEF TypeFlat, CallOK
  <2>2. UNCHANGED <<of, synced, owner, import, keys, joined, asked, wants>>
    BY <1>1, Zenon DEF redis
  <2> QED
    BY <1>1, <1>2, <1>4, <2>1, <2>2, SentTyped, Zenon DEF TypeFlat
<1>6. PlanInv'
  BY <1>1, <1>2, <1>3, <1>4, SentStep, SMTT(30)
<1> QED
  BY <1>5, <1>6

LEMMA MigrateRangeStep ==
    ASSUME TypeFlat, PlanInv, MigrateRange
    PROVE  TypeFlat' /\ PlanInv'
<1>1. /\ Sends("migrate") /\ pc' = "migrating" /\ calls' = Tail(calls)
      /\ job' = [from |-> Head(calls).pod, to |-> Head(calls).arg,
                 todo |-> Head(calls).slots, stage |-> "open"]
      /\ UNCHANGED <<course, shape, cloud, redis, fenced, handover, spent, then, silent,
                     served, labels, shards>>
  BY Zenon DEF MigrateRange, spec
<1>2. pc = "calls" /\ calls # << >> /\ CallOK(Head(calls)) /\ Head(calls).op = "migrate"
  BY <1>1, HeadFacts, SMTT(30)
<1>3. JobOK(job') /\ job' # NoJob
  BY <1>1, <1>2, Zenon DEF CallOK, JobOK, NoJob
<1>4. Existing' = Existing /\ outdated' = outdated
  BY <1>1 DEF Existing, cloud
<1>5. TypeFlat'
  BY <1>1, <1>3, <1>4, Zenon DEF TypeFlat, cloud, redis, PodOrNone, NoJob, NoHandover
<1>6. CallsOK(calls)
  BY DEF PlanInv, PlanTyped
<1>7. PlanTyped'
  <2>1. CallsOK(Tail(calls))
    BY <1>2, <1>6, TailFacts
  <2> QED
    BY <1>1, <1>2, <1>3, <2>1, Zenon DEF PlanInv, PlanTyped, PodOrNone, NoJob, Labels, JobOK
<1>8. /\ Has(Tail(calls), {"fence", "unfence"}) => Has(calls, {"fence", "unfence"})
      /\ Has(Tail(calls), {"begin"}) => Has(calls, {"begin"})
  BY <1>2, <1>6, TailHas
<1>9. PICK k \in Nat : /\ Len(calls) = k + 1 /\ Len(Tail(calls)) = k
                       /\ \A i \in 1 .. k : Tail(calls)[i] = calls[i + 1]
  BY <1>2, <1>6, TailLen
<1>10. ASSUME spent.unfences = 0, ~ Updates, NEW i \in 1 .. k
       PROVE  /\ Tail(calls)[i].op = "begin" => i = k /\ handover = NoHandover
              /\ Tail(calls)[i].op = "finish" =>
                   i = k /\ Tail(calls)[i].pod = handover.owner
  <2>1. i + 1 \in 1 .. k + 1 /\ Tail(calls)[i] = calls[i + 1]
    BY <1>9
  <2>2. /\ calls[i + 1].op = "begin" => i + 1 = k + 1 /\ handover = NoHandover
        /\ calls[i + 1].op = "finish" => i + 1 = k + 1 /\ calls[i + 1].pod = handover.owner
    BY <1>9, <1>10, <2>1, Zenon DEF PlanInv, Orderly
  <2>3. i + 1 = k + 1 => i = k
    OBVIOUS
  <2>4. Tail(calls)[i].op = "begin" => i = k /\ handover = NoHandover
    BY <2>1, <2>2, <2>3, Zenon
  <2>5. Tail(calls)[i].op = "finish" => i = k /\ Tail(calls)[i].pod = handover.owner
    BY <2>1, <2>2, <2>3, Zenon
  <2> QED
    BY <2>4, <2>5, Zenon
<1>11. Orderly'
  <2>1. /\ NoHandover' = NoHandover /\ (Updates' <=> Updates)
    BY <1>1, Zenon DEF NoHandover, Updates
  <2>2. Beyond' => Beyond
    BY <1>1, <1>8 DEF Beyond
  <2>3. Beyond' => handover' = NoHandover /\ ~ Has(calls', {"begin"})
    BY <1>1, <1>8, <2>2 DEF PlanInv, Orderly
  <2>4. (outdated' # {} \/ pc' = "rolling" \/ Has(calls', {"fence", "unfence"})) => Updates'
    BY <1>1, <1>4, <1>8, <2>1, Zenon DEF PlanInv, Orderly
  <2>5. spent'.unfences = 0 /\ ~ Updates' => \A p \in fenced' : handover'.owner = p
    BY <1>1, <2>1, Zenon DEF PlanInv, Orderly
  <2>6. ASSUME spent'.unfences = 0, ~ Updates', NEW i \in 1 .. Len(calls')
        PROVE  /\ calls'[i].op = "begin" => i = Len(calls') /\ handover' = NoHandover
               /\ calls'[i].op = "finish" =>
                    i = Len(calls') /\ calls'[i].pod = handover'.owner
    BY <1>1, <1>9, <1>10, <2>1, <2>6, Zenon
  <2> QED
    BY <2>1, <2>3, <2>4, <2>5, <2>6 DEF Orderly
<1>12. Lowest' /\ OwnersStayIn'
  BY <1>1, <1>4 DEF PlanInv, Lowest, OwnersStayIn, Updates
<1> QED
  BY <1>5, <1>7, <1>11, <1>12, SMTT(30) DEF PlanInv

-----------------------------------------------------------------------------
(* reconcilePods *)

\* The surplus over d pods has none of the ordinals below d.
LEMMA SurplusIsHigh ==
    ASSUME NEW E \in SUBSET Nat, IsFiniteSet(E), NEW d \in Nat, NEW p \in E, p < d
    PROVE  p \notin Surplus(E, Cardinality(E) - d)
<1> DEFINE lo == {q \in E : q =< p}
           hi == {q \in E : q > p}
<1>1. p \in Nat /\ IsFiniteSet(lo) /\ IsFiniteSet(hi)
  BY FS_Subset
<1>2. lo \cup hi = E /\ lo \cap hi = {}
  <2>1. ASSUME NEW q \in E PROVE (q =< p \/ q > p) /\ ~ (q =< p /\ q > p)
    <3>1. q \in Nat /\ p \in Nat
      OBVIOUS
    <3> QED
      BY <3>1
  <2> QED
    BY <2>1, Zenon
<1>3. lo \in SUBSET (0 .. p)
  <2>1. ASSUME NEW q \in E, q =< p PROVE q \in 0 .. p
    <3>1. q \in Nat /\ p \in Nat
      OBVIOUS
    <3> QED
      BY <2>1, <3>1
  <2> QED
    BY <2>1, Zenon
<1>4. IsFiniteSet(0 .. p) /\ Cardinality(0 .. p) = p + 1
  BY <1>1, FS_Interval
<1> HIDE DEF lo, hi
<1>5. Cardinality(lo) =< p + 1
  BY <1>3, <1>4, FS_Subset, Zenon
<1>6. Cardinality(E) = Cardinality(lo) + Cardinality(hi) - Cardinality({})
  BY <1>1, <1>2, FS_Union
<1>7. /\ Cardinality(lo) \in Nat /\ Cardinality(hi) \in Nat /\ Cardinality(E) \in Nat
      /\ Cardinality({}) = 0
  BY <1>1, FS_CardinalityType, FS_EmptySet
<1>8. ~ (Cardinality(hi) < Cardinality(E) - d)
  BY <1>1, <1>5, <1>6, <1>7
<1> QED
  BY <1>8 DEF Surplus, hi

\* Of the k lowest pods, the surplus over d holds all from d on.
LEMMA SurplusOfLowest ==
    ASSUME NEW k \in Nat, NEW d \in Nat, NEW p \in 0 .. k - 1, p >= d
    PROVE  p \in Surplus(0 .. k - 1, k - d)
<1>1. {q \in 0 .. k - 1 : q > p} = p + 1 .. k - 1
  OBVIOUS
<1>2. Cardinality(p + 1 .. k - 1) = k - 1 - p
  <2>1. p + 1 \in Int /\ k - 1 \in Int
    OBVIOUS
  <2>2. Cardinality(p + 1 .. k - 1) =
          IF p + 1 > k - 1 THEN 0 ELSE (k - 1) - (p + 1) + 1
    BY <2>1, FS_Interval
  <2> QED
    BY <2>2
<1>3. k - 1 - p < k - d
  OBVIOUS
<1> QED
  BY <1>1, <1>2, <1>3, Zenon DEF Surplus

\* What becomes of the pods when gone are deleted and new created.
LEMMA ReplaceFacts ==
    ASSUME TypeFlat, NEW gone, NEW new, Replace(gone, new)
    PROVE  /\ pod' \in [Pod -> {"absent", "pending", "down", "up"}]
           /\ Existing' = (Existing \ gone) \cup ((new \cap Pod) \ gone)
           /\ outdated' = outdated \ gone /\ outdated' \subseteq Existing'
           /\ ready' \subseteq Pod /\ synced' \subseteq Pod /\ wants' \subseteq Pod
           /\ asked' \subseteq Pod /\ \A p \in synced' : of'[p] # NoPod
           /\ UNCHANGED <<course, shape, of, owner, import, keys, joined, fenced,
                          handover, job, spent>>
<1>1. /\ UNCHANGED <<course, shape, of, owner, import, keys, joined, fenced, handover,
                     job, spent>>
      /\ ready' = ready \ gone /\ outdated' = outdated \ gone
      /\ synced' = synced \ gone /\ wants' = wants \ gone /\ asked' = asked \ gone
  BY DEF Replace, spec
<1>2. /\ pod' = [p \in Pod |-> IF p \in gone THEN "absent"
                               ELSE IF p \in new THEN "pending" ELSE pod[p]]
  BY DEF Replace
<1>3. pod' \in [Pod -> {"absent", "pending", "down", "up"}]
  BY <1>2, Zenon DEF TypeFlat
<1>4. \A p \in Pod : pod'[p] # "absent" <=>
                       p \notin gone /\ (p \in new \/ pod[p] # "absent")
  BY <1>2
<1>5. Existing' = (Existing \ gone) \cup ((new \cap Pod) \ gone)
  BY <1>4, SMTT(30) DEF Existing
<1>6. outdated' \subseteq Existing'
  BY <1>1, <1>5, Zenon DEF TypeFlat
<1> QED
  BY <1>1, <1>3, <1>5, <1>6, Zenon DEF TypeFlat

\* The pods left by reconcilePods, and those it does not delete.
LEMMA PodsFacts ==
    ASSUME TypeFlat, PlanInv, reconcilePods
    PROVE  \E d \in Nat, gone \in SUBSET Existing :
             /\ labels \in Labels(d) /\ DOMAIN labels = 0 .. d - 1
             /\ 0 .. d - 1 \in SUBSET Pod
             /\ Replace(gone, DOMAIN labels \ Existing)
             /\ gone \cap (0 .. d - 1) = {}
             /\ Lowest /\ ~ Updates => Existing' = 0 .. d - 1
<1>1. PICK d \in Nat : labels \in Labels(d) /\ 0 .. d - 1 \in SUBSET Pod
  BY DEF reconcilePods, PlanInv, PlanTyped
<1>2. DOMAIN labels = 0 .. d - 1
  BY <1>1 DEF Labels
<1>3. IsFiniteSet(0 .. d - 1) /\ Cardinality(0 .. d - 1) = d
  BY <1>1, FS_Interval
<1>4. PICK gone : gone = Surplus(Existing, Cardinality(Existing) - d)
  OBVIOUS
<1>5. Replace(gone, DOMAIN labels \ Existing)
  BY <1>2, <1>3, <1>4 DEF reconcilePods
<1>6. Existing \in SUBSET Pod /\ Existing \in SUBSET Nat /\ IsFiniteSet(Existing)
  <2>1. Existing \in SUBSET Pod
    BY DEF Existing
  <2> QED
    BY <2>1, PodFacts, FS_Subset, Zenon
<1>7. gone \subseteq Existing
  BY <1>4 DEF Surplus
<1>8. gone \cap (0 .. d - 1) = {}
  <2>1. ASSUME NEW p \in gone, p \in 0 .. d - 1 PROVE FALSE
    <3>1. p \in Existing /\ p < d
      BY <1>7, <2>1
    <3> QED
      BY <1>4, <1>6, <2>1, <3>1, SurplusIsHigh
  <2> QED
    BY <2>1
<1>9. ASSUME Lowest, ~ Updates PROVE Existing' = 0 .. d - 1
  <2>1. PICK k \in Nat : Existing = 0 .. k - 1
    BY <1>9 DEF Lowest
  <2>2. Cardinality(Existing) = k
    BY <2>1, FS_Interval
  <2>3. \A p \in Existing : p >= d => p \in gone
    BY <1>4, <2>1, <2>2, SurplusOfLowest, Zenon
  <2>4. Existing' = (Existing \ gone) \cup (((DOMAIN labels \ Existing) \cap Pod) \ gone)
    BY <1>5, ReplaceFacts
  <2>5. ASSUME NEW p PROVE p \in Existing' <=> p \in 0 .. d - 1
    <3>1. CASE p \in 0 .. d - 1
      BY <1>1, <1>2, <1>8, <2>4, <3>1
    <3>2. CASE p \notin 0 .. d - 1
      <4>1. p \in Existing => p \in Nat /\ p >= d
        BY <1>6, <3>2
      <4> QED
        BY <1>2, <2>3, <2>4, <3>2, <4>1
    <3> QED
      BY <3>1, <3>2
  <2> QED
    BY <2>5, Zenon
<1> QED
  BY <1>1, <1>2, <1>5, <1>7, <1>8, <1>9

LEMMA ReconcilePodsStep ==
    ASSUME TypeFlat, PlanInv, reconcilePods
    PROVE  TypeFlat' /\ PlanInv'
<1>1. PICK d \in Nat, gone \in SUBSET Existing :
        /\ labels \in Labels(d) /\ DOMAIN labels = 0 .. d - 1
        /\ 0 .. d - 1 \in SUBSET Pod
        /\ Replace(gone, DOMAIN labels \ Existing)
        /\ Lowest /\ ~ Updates => Existing' = 0 .. d - 1
  BY PodsFacts, Zenon
<1>2. /\ pod' \in [Pod -> {"absent", "pending", "down", "up"}]
      /\ outdated' = outdated \ gone /\ outdated' \subseteq Existing'
      /\ ready' \subseteq Pod /\ synced' \subseteq Pod /\ wants' \subseteq Pod
      /\ asked' \subseteq Pod /\ \A p \in synced' : of'[p] # NoPod
      /\ UNCHANGED <<course, shape, of, owner, import, keys, joined, fenced,
                     handover, job, spent>>
  BY <1>1, ReplaceFacts
<1>3. label' \in [Pod -> [shard : Int, primary : BOOLEAN]]
  <2>1. label' = [p \in Pod |-> IF p \in DOMAIN labels THEN labels[p] ELSE label[p]]
    BY DEF reconcilePods
  <2>2. ASSUME NEW p \in Pod
        PROVE  (IF p \in DOMAIN labels THEN labels[p] ELSE label[p])
                 \in [shard : Int, primary : BOOLEAN]
    <3>1. CASE p \in DOMAIN labels
      BY <1>1, <3>1 DEF Labels
    <3>2. CASE p \notin DOMAIN labels
      BY <3>2 DEF TypeFlat
    <3> QED
      BY <3>1, <3>2
  <2> QED
    BY <2>1, <2>2, SMTT(30)
<1>4. pc = "pods" /\ handover = NoHandover /\ job = NoJob
  BY Zenon DEF reconcilePods, PlanInv, Orderly, Beyond, TypeFlat
<1>5. (Updates' <=> Updates) /\ Lowest'
  <2>1. Updates' <=> Updates
    BY <1>2, Zenon DEF Updates
  <2> QED
    BY <1>1, <2>1 DEF Lowest, PlanInv
<1>6. outdated # {} => Updates
  BY DEF PlanInv, Orderly
<1>7. CASE outdated = {}
  <2>1. /\ pc' = "idle" /\ calls' = << >> /\ then' = "return" /\ labels' = << >>
        /\ silent' = {} /\ served' = {}
    BY <1>7 DEF reconcilePods, Return, Forget
  <2>2. TypeFlat'
    BY <1>2, <1>3, <1>4, <2>1, Zenon DEF TypeFlat, PodOrNone, NoJob, NoHandover
  <2>3. CallsOK(<< >>)
    BY EmptyPlain DEF Plain
  <2>4. PlanTyped'
    BY <1>2, <2>1, <2>3, Zenon DEF PlanInv, PlanTyped, PodOrNone, NoJob
  <2>5. ~ Has(<< >>, {"fence", "unfence"}) /\ Len(<< >>) = 0 /\ 1 .. 0 = {}
    BY DEF Has
  <2>6. Orderly'
    BY <1>2, <1>5, <1>7, <2>1, <2>5, Zenon DEF PlanInv, Orderly, Beyond
  <2>7. OwnersStayIn'
    BY <2>1 DEF OwnersStayIn
  <2> QED
    BY <1>5, <2>2, <2>4, <2>6, <2>7 DEF PlanInv
<1>8. CASE outdated # {}
  <2>1. pc' = "rolling" /\ UNCHANGED <<calls, then, silent, served, labels, shards>>
    BY <1>8, Zenon DEF reconcilePods
  <2>2. TypeFlat'
    BY <1>2, <1>3, <1>4, <2>1, Zenon DEF TypeFlat, PodOrNone, NoJob, NoHandover
  <2>3. PlanTyped'
    BY <1>1, <1>2, <1>4, <2>1, Zenon DEF PlanInv, PlanTyped, PodOrNone, NoJob, Labels
  <2>4. Orderly'
    <3>1. NoHandover' = NoHandover /\ handover' = NoHandover
      BY <1>2, <1>4 DEF NoHandover
    <3>2. ~ Has(calls', {"begin"})
      BY <1>4, <2>1, Zenon DEF PlanInv, Orderly, Beyond
    <3> QED
      BY <1>5, <1>6, <1>8, <3>1, <3>2 DEF Orderly
  <2>5. OwnersStayIn'
    BY <2>1 DEF OwnersStayIn
  <2> QED
    BY <1>5, <2>2, <2>3, <2>4, <2>5 DEF PlanInv
<1> QED
  BY <1>7, <1>8

-----------------------------------------------------------------------------
(* rollingUpdateClusterMode *)

LEMMA DeletePodStep ==
    ASSUME TypeFlat, PlanInv, pc = "rolling", NEW p, DeletePod(p)
    PROVE  TypeFlat' /\ PlanInv'
<1>1. /\ Replace({p}, {}) /\ label' = label
      /\ pc' = "idle" /\ calls' = << >> /\ then' = "return" /\ labels' = << >>
      /\ silent' = {} /\ served' = {}
  BY DEF DeletePod, Return, Forget
<1>2. PICK gone, new : gone = {p} /\ new = {} /\ Replace(gone, new)
  BY <1>1
<1>3. /\ pod' \in [Pod -> {"absent", "pending", "down", "up"}]
      /\ outdated' \subseteq Existing'
      /\ ready' \subseteq Pod /\ synced' \subseteq Pod /\ wants' \subseteq Pod
      /\ asked' \subseteq Pod /\ \A q \in synced' : of'[q] # NoPod
      /\ UNCHANGED <<course, shape, of, owner, import, keys, joined, fenced,
                     handover, job, spent>>
  BY <1>2, ReplaceFacts
<1>4. Updates /\ Updates' /\ job = NoJob
  BY <1>3, Zenon DEF PlanInv, Orderly, TypeFlat, Updates
<1>5. TypeFlat'
  BY <1>1, <1>3, <1>4, Zenon DEF TypeFlat, PodOrNone, NoJob, NoHandover
<1>6. CallsOK(<< >>)
  BY EmptyPlain DEF Plain
<1>7. PlanTyped'
  BY <1>1, <1>3, <1>6, Zenon DEF PlanInv, PlanTyped, PodOrNone, NoJob
<1>8. ~ Has(<< >>, {"fence", "unfence"})
  BY DEF Has
<1>9. Orderly'
  BY <1>1, <1>4, <1>8, Zenon DEF Orderly, Beyond
<1>10. Lowest' /\ OwnersStayIn'
  BY <1>1, <1>4 DEF Lowest, OwnersStayIn
<1> QED
  BY <1>5, <1>7, <1>9, <1>10 DEF PlanInv

LEMMA FailOverStep ==
    ASSUME TypeFlat, PlanInv, pc = "rolling", NEW p \in Pod, NEW q \in Pod,
           FailOver(p, q)
    PROVE  TypeFlat' /\ PlanInv'
<1> DEFINE f == Call("fence", p, NoPod, {})
           g == Call("promote", q, NoPod, {})
           u == Call("unfence", p, NoPod, {})
<1>1. /\ calls' = <<f, g, u>> /\ pc' = "calls" /\ then' = "return"
      /\ UNCHANGED <<course, shape, cloud, redis, fenced, handover, job, spent, silent,
                     served, labels, shards>>
  BY DEF FailOver, spec
<1>2. /\ CallOK(f) /\ CallOK(g) /\ CallOK(u)
      /\ f.op = "fence" /\ g.op = "promote" /\ u.op = "unfence"
  BY DEF Call, CallOK, PodOrNone
<1> HIDE DEF f, g, u
<1>3. PICK cs : cs = <<f, g, u>>
  BY Zenon
<1>4. cs \in Seq({f, g, u}) /\ Len(cs) = 3 /\ cs[1] = f /\ cs[2] = g /\ cs[3] = u
  BY <1>3
<1>5. \A i \in 1 .. 3 : i = 1 \/ i = 2 \/ i = 3
  OBVIOUS
<1>6. CallsOK(cs) /\ ~ Has(cs, {"begin"})
  <2>1. IsSeq(cs)
    BY <1>4 DEF IsSeq
  <2>2. \A i \in 1 .. 3 : CallOK(cs[i]) /\ cs[i].op # "begin"
    BY <1>2, <1>4, <1>5
  <2> QED
    BY <1>4, <2>1, <2>2 DEF CallsOK, Has
<1>7. Existing' = Existing /\ outdated' = outdated
  BY <1>1 DEF Existing, cloud
<1>8. Updates /\ Updates' /\ handover = NoHandover /\ job = NoJob
  BY <1>1, Zenon DEF PlanInv, Orderly, Beyond, TypeFlat, Updates
<1>9. TypeFlat'
  BY <1>1, <1>7, <1>8, Zenon DEF TypeFlat, cloud, redis, PodOrNone, NoJob, NoHandover
<1>10. PlanTyped'
  BY <1>1, <1>3, <1>6, Zenon DEF PlanInv, PlanTyped, PodOrNone, NoJob, Labels
<1>11. Orderly'
  BY <1>1, <1>3, <1>6, <1>8 DEF Orderly, Beyond, NoHandover
<1>12. Lowest' /\ OwnersStayIn'
  BY <1>1, <1>8 DEF Lowest, OwnersStayIn
<1> QED
  BY <1>9, <1>10, <1>11, <1>12 DEF PlanInv

-----------------------------------------------------------------------------
(* The initial states *)

LEMMA FormedPods ==
    ASSUME NEW c \in Courses, NEW i \in 0 .. c.from.shards - 1
    PROVE  /\ i \in 0 .. Count(c.from) - 1
           /\ i \in c.swapped => c.from.shards + i \in 0 .. Count(c.from) - 1
<1>1. /\ c.from.shards \in Nat /\ c.from.shards >= 3 /\ c.from.replicas \in Nat
      /\ Count(c.from) \in Nat /\ Count(c.from) >= c.from.shards
  BY CountIsPositive
<1>2. i \in c.swapped => c.from.replicas # 0
  BY CoursesAssumption
<1>3. ASSUME NEW n \in Nat, NEW r \in Nat, r # 0
      PROVE  n * (r + 1) >= n + n
  <2>1. PICK k \in Nat : r = k + 1
    BY <1>3
  <2>2. n * (r + 1) = n * k + n + n /\ n * k \in Nat
    BY <2>1
  <2> QED
    BY <2>2
<1>4. i \in c.swapped => Count(c.from) >= c.from.shards + c.from.shards
  BY <1>1, <1>2, <1>3 DEF Count
<1> QED
  BY <1>1, <1>4

LEMMA InitFormed ==
    ASSUME Init, course.running,
           \A s \in Slot : \E i \in 0 .. course.from.shards - 1 :
             s \in SlotRange(course.from.shards, i)
    PROVE  TypeFlat /\ PlanInv
<1> DEFINE n == course.from.shards
           old == 0 .. Count(course.from) - 1
           lead(i) == IF i \in course.swapped THEN n + i ELSE i
           leads(p) == p \in old /\ p = lead(p % n)
           home(s) == lead(CHOOSE i \in 0 .. n - 1 : s \in SlotRange(n, i))
<1>1. /\ pod = [p \in Pod |-> IF p \in old THEN "up" ELSE "absent"]
      /\ label = [p \in Pod |-> IF p \in old
                                THEN [shard |-> p % n, primary |-> leads(p)]
                                ELSE [shard |-> None, primary |-> FALSE]]
      /\ ready = old /\ joined = old /\ outdated = course.outdated
      /\ of = [p \in Pod |-> IF p \in old /\ ~ leads(p) THEN lead(p % n)
                             ELSE NoPod]
      /\ synced = {p \in old : ~ leads(p)}
      /\ owner = [s \in Slot |-> home(s)]
      /\ keys = [s \in Slot |-> {home(s)}]
  BY Zenon DEF Init, RedisInit, Formed
<1>2. /\ course \in Courses /\ shape = course.from
      /\ import = [s \in Slot |-> NoPod]
      /\ asked = {} /\ wants = {} /\ fenced = {}
      /\ handover = NoHandover /\ job = NoJob
      /\ spent = [b \in {"edits", "faults", "cuts", "unfences"} |-> 0]
      /\ pc = "idle" /\ calls = << >> /\ then = "return"
      /\ labels = << >> /\ silent = {} /\ served = {} /\ shards = << >>
  BY Zenon DEF Init, RedisInit
<1>3. n \in Nat /\ n >= 3 /\ old \subseteq Pod /\ Pod \in SUBSET Nat /\ NoPod \notin Pod
  BY <1>2, CountIsPositive, PodFacts, SMTT(30)
<1>4. \A i \in 0 .. n - 1 : lead(i) \in Pod
  BY <1>2, <1>3, FormedPods, SMTT(30)
<1>5. \A p \in Pod : p % n \in 0 .. n - 1
  BY <1>3
<1>6. ASSUME NEW s \in Slot PROVE home(s) \in Pod
  <2>1. \E i \in 0 .. n - 1 : s \in SlotRange(n, i)
    OBVIOUS
  <2> HIDE DEF lead
  <2> QED
    BY <1>4, <2>1
<1>7. Existing = old
  BY <1>1, <1>3, Zenon DEF Existing
<1>8. course.outdated \subseteq old
  BY <1>2, CoursesAssumption, Zenon DEF Count
<1>9. Count(course.from) \in Nat
  BY <1>2, CountIsPositive
<1>10. TypeFlat
  <2> HIDE DEF old, lead, home, n
  <2>1. label \in [Pod -> [shard : Int, primary : BOOLEAN]]
    <3>1. ASSUME NEW p \in Pod
          PROVE  label[p] \in [shard : Int, primary : BOOLEAN]
      <4>1. p % n \in Int /\ None \in Int
        BY <1>3, <1>5, SMTT(30) DEF None
      <4> QED
        BY <1>1, <4>1
    <3>2. label = [p \in Pod |-> label[p]]
      BY <1>1, Zenon
    <3> QED
      BY <3>1, <3>2, Zenon
  <2>2. of \in [Pod -> PodOrNone]
    BY <1>1, <1>4, <1>5 DEF PodOrNone
  <2>3. \A p \in synced : of[p] # NoPod
    BY <1>1, <1>3, <1>4, <1>5, Zenon
  <2>4. owner \in [Slot -> PodOrNone] /\ keys \in [Slot -> SUBSET Pod]
    BY <1>1, <1>6, Zenon DEF PodOrNone
  <2>5. pod \in [Pod -> {"absent", "pending", "down", "up"}]
    BY <1>1
  <2>6. import \in [Slot -> PodOrNone]
    BY <1>2 DEF PodOrNone
  <2>7. synced \subseteq Pod /\ ready \subseteq Pod /\ joined \subseteq Pod
    BY <1>1, <1>3, Zenon
  <2>8. outdated \subseteq Existing
    BY <1>1, <1>7, <1>8, Zenon
  <2> QED
    BY <1>2, <2>1, <2>2, <2>3, <2>4, <2>5, <2>6, <2>7, <2>8, Zenon DEF TypeFlat
<1>11. PlanTyped
  <2>1. CallsOK(calls)
    BY <1>2, EmptyPlain, Zenon DEF Plain
  <2> QED
    BY <1>2, <2>1, Zenon DEF PlanTyped, PodOrNone, NoHandover, NoJob
<1>12. ~ Has(calls, {"fence", "unfence"}) /\ Len(calls) = 0 /\ 1 .. 0 = {}
  BY <1>2 DEF Has
<1>13. Orderly
  BY <1>1, <1>2, <1>12, Zenon DEF Orderly, Beyond, Updates
<1>14. Lowest
  BY <1>7, <1>9 DEF Lowest
<1>15. OwnersStayIn
  BY <1>2 DEF OwnersStayIn
<1> QED
  BY <1>10, <1>11, <1>13, <1>14, <1>15 DEF PlanInv

LEMMA InitAbsent ==
    ASSUME Init, ~ course.running
    PROVE  TypeFlat /\ PlanInv
<1>1. /\ pod = [p \in Pod |-> "absent"]
      /\ label = [p \in Pod |-> [shard |-> None, primary |-> FALSE]]
      /\ ready = {} /\ joined = {0} /\ synced = {} /\ outdated = {}
      /\ of = [p \in Pod |-> NoPod]
      /\ owner = [s \in Slot |-> NoPod]
      /\ keys = [s \in Slot |-> {}]
  BY DEF Init, RedisInit, Absent
<1>2. /\ course \in Courses /\ shape = course.from
      /\ import = [s \in Slot |-> NoPod]
      /\ asked = {} /\ wants = {} /\ fenced = {}
      /\ handover = NoHandover /\ job = NoJob
      /\ spent = [b \in {"edits", "faults", "cuts", "unfences"} |-> 0]
      /\ pc = "idle" /\ calls = << >> /\ then = "return"
      /\ labels = << >> /\ silent = {} /\ served = {} /\ shards = << >>
  BY DEF Init, RedisInit
<1>3. 0 \in Pod
  <2>1. Count(course.from) \in Nat /\ Count(course.from) >= 3
    BY <1>2, CountIsPositive
  <2>2. 0 .. Count(course.from) - 1 \subseteq Pod
    BY <1>2, PodFacts
  <2> QED
    BY <2>1, <2>2
<1>4. Existing = {}
  BY <1>1 DEF Existing
<1>5. TypeFlat
  <2>1. label \in [Pod -> [shard : Int, primary : BOOLEAN]]
    <3>1. None \in Int
      BY DEF None
    <3> QED
      BY <1>1, <3>1
  <2>2. /\ of \in [Pod -> PodOrNone] /\ import \in [Slot -> PodOrNone]
        /\ owner \in [Slot -> PodOrNone] /\ keys \in [Slot -> SUBSET Pod]
    BY <1>1, <1>2 DEF PodOrNone
  <2>3. pod \in [Pod -> {"absent", "pending", "down", "up"}]
    BY <1>1
  <2> QED
    BY <1>1, <1>2, <1>3, <2>1, <2>2, <2>3, Zenon DEF TypeFlat
<1>6. PlanTyped
  <2>1. CallsOK(calls)
    BY <1>2, EmptyPlain DEF Plain
  <2> QED
    BY <1>2, <2>1, Zenon DEF PlanTyped, PodOrNone, NoHandover, NoJob
<1>7. ~ Has(calls, {"fence", "unfence"}) /\ Len(calls) = 0 /\ 1 .. 0 = {}
  BY <1>2 DEF Has
<1>8. Orderly
  BY <1>1, <1>2, <1>7, Zenon DEF Orderly, Beyond, Updates
<1>9. Lowest
  <2>1. 0 .. 0 - 1 = {}
    OBVIOUS
  <2> QED
    BY <1>4, <2>1 DEF Lowest
<1>10. OwnersStayIn
  BY <1>2 DEF OwnersStayIn
<1> QED
  BY <1>5, <1>6, <1>8, <1>9, <1>10, SMTT(30) DEF PlanInv

-----------------------------------------------------------------------------
(* Which pods reconcilePods deletes *)

\* The pods a step other than reconcilePods deletes while a reconcile is at
\* its pods: none.
LEMMA OnlyPodsDeletes ==
    ASSUME TypeFlat, PlanInv, [Next]_vars, pc = "pods", NEW p \in Pod,
           pod[p] # "absent", pod'[p] = "absent"
    PROVE  reconcilePods
<1>1. CASE UNCHANGED vars \/ Poll \/ Cut \/ Step
  <2>1. ~ (UNCHANGED vars \/ Poll \/ Cut)
    BY Zenon DEF vars, cloud, Poll, Cut
  <2>2. ~ (Meet \/ AddSlots \/ Replicate \/ Promote \/ BeginHandover \/ FinishHandover
           \/ MigrateRange \/ SetFence \/ ClearFence)
    BY Zenon DEF Meet, AddSlots, Replicate, Promote, BeginHandover, FinishHandover,
           MigrateRange, SetFence, ClearFence, Sends
  <2>3. ~ (MigrateEnds \/ Refused \/ CallsDone \/ rollingUpdateClusterMode)
    BY Zenon DEF MigrateEnds, Refused, CallsDone, rollingUpdateClusterMode
  <2> QED
    BY <1>1, <2>1, <2>2, <2>3 DEF Step
<1>2. CASE RedisNext
  <2>1. ASSUME NEW q \in Pod,
               PodStarts(q) \/ Probe(q) \/ RedisExits(q) \/ StopFenced(q)
        PROVE  FALSE
    BY <2>1, Zenon DEF PodStarts, Probe, RedisExits, StopFenced, Halt, TypeFlat
  <2>2. ASSUME NEW q \in Pod,
               Handshake(q) \/ CopyFinishes(q) \/ RedisFailover(q)
               \/ ManualFailover(q) \/ FailoverExpires(q)
        PROVE  FALSE
    BY <2>2, Zenon DEF Handshake, CopyFinishes, RedisFailover, ManualFailover, TakeOver,
                FailoverExpires, cloud
  <2>3. ~ (EmergencyFence \/ EditSpec \/ MigrateStep)
    BY DEF EmergencyFence, EditSpec, MigrateStep, OpenSlot, MoveKeys, AssignOnSource,
           AssignOnTarget, At, cloud
  <2> QED
    BY <1>2, <2>1, <2>2, <2>3 DEF RedisNext
<1> QED
  BY <1>1, <1>2 DEF Next

\* A pod that served slots when polled survives reconcilePods if every
\* instance answered, unless a rolling update has deleted a pod that stays.
LEMMA OwnerKept ==
    ASSUME TypeFlat, PlanInv, [Next]_vars, NEW p \in Pod, pc = "pods",
           pod[p] # "absent", pod'[p] = "absent", p \in served, silent = {},
           ~ (Updates /\ ~ (DOMAIN labels \subseteq Existing))
    PROVE  FALSE
<1>1. reconcilePods
  BY OnlyPodsDeletes
<1>2. PICK d \in Nat, gone \in SUBSET Existing :
        /\ DOMAIN labels = 0 .. d - 1 /\ 0 .. d - 1 \in SUBSET Pod
        /\ Replace(gone, DOMAIN labels \ Existing)
        /\ gone \cap (0 .. d - 1) = {}
  BY <1>1, PodsFacts, Zenon
<1>3. p \in Existing /\ p \notin Existing'
  BY DEF Existing
<1>4. Existing' = (Existing \ gone) \cup (((DOMAIN labels \ Existing) \cap Pod) \ gone)
  BY <1>2, ReplaceFacts
<1>5. p \in gone /\ p \notin 0 .. d - 1
  BY <1>2, <1>3, <1>4
<1>6. then = "pods"
  BY DEF PlanInv, PlanTyped
<1>7. ~ (DOMAIN labels \subseteq Existing)
  BY <1>2, <1>5, <1>6 DEF PlanInv, OwnersStayIn
<1>8. PICK k \in Nat : Existing = 0 .. k - 1
  BY <1>7 DEF PlanInv, Lowest
<1>9. k < d
  BY <1>2, <1>7, <1>8
<1> QED
  BY <1>3, <1>5, <1>8, <1>9
=============================================================================

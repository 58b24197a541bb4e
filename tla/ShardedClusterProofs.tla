------------------------ MODULE ShardedClusterProofs ------------------------
(***************************************************************************)
(* Proofs about ShardedCluster, for every finite set of courses and every  *)
(* number of slots: what a poll and a rolling update plan to request, the  *)
(* invariance of PlanInv, and the three theorems that follow from it.      *)
(***************************************************************************)
EXTENDS ShardedStepProofs, ShardLayoutProofs

\* TypeFlat is what TypeOK says.
LEMMA TypeOKFlat == TypeOK <=> TypeFlat
BY DEF TypeOK, TypeFlat, PodOrNone

-----------------------------------------------------------------------------
(* Sequences of requests *)

LEMMA SingleCall ==
    ASSUME NEW c, CallOK(c)
    PROVE  CallsOK(<<c>>) /\ Len(<<c>>) = 1 /\ <<c>>[1] = c
<1>1. <<c>> \in Seq({c}) /\ Len(<<c>>) = 1 /\ <<c>>[1] = c
  OBVIOUS
<1>2. \A i \in 1 .. 1 : i = 1
  OBVIOUS
<1>3. IsSeq(<<c>>)
  BY <1>1, Zenon DEF IsSeq
<1> QED
  BY <1>1, <1>2, <1>3 DEF CallsOK

LEMMA Concat ==
    ASSUME NEW a, NEW b, IsSeq(a), IsSeq(b)
    PROVE  /\ IsSeq(a \o b) /\ Len(a \o b) = Len(a) + Len(b)
           /\ Len(a) \in Nat /\ Len(b) \in Nat
           /\ \A i \in 1 .. Len(a) + Len(b) :
                (a \o b)[i] = IF i =< Len(a) THEN a[i] ELSE b[i - Len(a)]
<1>1. PICK S, T : a \in Seq(S) /\ b \in Seq(T)
  BY DEF IsSeq
<1>2. a \in Seq(S \cup T) /\ b \in Seq(S \cup T)
  BY <1>1
<1> QED
  BY <1>2 DEF IsSeq

LEMMA ConcatPlain ==
    ASSUME NEW a, NEW b, Plain(a), Plain(b)
    PROVE  Plain(a \o b)
<1>1. IsSeq(a) /\ IsSeq(b)
  BY DEF Plain, CallsOK
<1>2. ASSUME NEW i \in 1 .. Len(a \o b)
      PROVE  CallOK((a \o b)[i]) /\ (a \o b)[i].op \in {"meet", "addslots", "replicate"}
  <2>1. PICK m \in Nat, k \in Nat : m = Len(a) /\ k = Len(b) /\ i \in 1 .. m + k
    BY <1>1, Concat, Zenon
  <2>2. CASE i =< m
    BY <1>1, <2>1, <2>2, Concat DEF Plain, CallsOK
  <2>3. CASE ~ (i =< m)
    <3>1. i - m \in 1 .. k
      BY <2>1, <2>3
    <3>2. (a \o b)[i] = b[i - m]
      BY <1>1, <2>1, <2>3, Concat
    <3> QED
      BY <2>1, <3>1, <3>2 DEF Plain, CallsOK
  <2> QED
    BY <2>2, <2>3
<1> QED
  BY <1>1, <1>2, Concat DEF Plain, CallsOK

LEMMA ThenLast ==
    ASSUME NEW a, Plain(a), NEW c, CallOK(c), NEW cs, EndsWith(cs, a, c)
    PROVE  /\ CallsOK(cs) /\ Len(cs) \in Nat
           /\ \A i \in 1 .. Len(cs) :
                \/ cs[i].op \in {"meet", "addslots", "replicate"}
                \/ i = Len(cs) /\ cs[i] = c
<1>0. cs = a \o <<c>>
  BY DEF EndsWith
<1>1. IsSeq(a) /\ IsSeq(<<c>>) /\ Len(<<c>>) = 1 /\ <<c>>[1] = c
  BY SingleCall DEF Plain, CallsOK
<1>2. PICK m \in Nat : m = Len(a) /\ Len(cs) = m + 1
  BY <1>0, <1>1, Concat
<1>3. ASSUME NEW i \in 1 .. m + 1
      PROVE  /\ CallOK(cs[i])
             /\ cs[i].op \in {"meet", "addslots", "replicate"} \/ (i = m + 1 /\ cs[i] = c)
  <2>1. CASE i =< m
    BY <1>0, <1>1, <1>2, <2>1, Concat DEF Plain, CallsOK
  <2>2. CASE i = m + 1
    <3>1. cs[i] = <<c>>[i - m] /\ i - m = 1
      BY <1>0, <1>1, <1>2, <2>2, Concat
    <3> QED
      BY <1>1, <2>2, <3>1
  <2>3. i =< m \/ i = m + 1
    OBVIOUS
  <2> QED
    BY <2>1, <2>2, <2>3
<1> QED
  BY <1>0, <1>1, <1>2, <1>3, Concat DEF CallsOK

LEMMA FunIsSeq ==
    ASSUME NEW k \in Nat, NEW f, f = [i \in 1 .. k |-> f[i]]
    PROVE  IsSeq(f) /\ Len(f) = k
<1>1. f \in Seq({f[i] : i \in 1 .. k}) /\ Len(f) = k
  OBVIOUS
<1> QED
  BY <1>1, Zenon DEF IsSeq

-----------------------------------------------------------------------------
(* What a poll plans *)

\* A layout that planShardLayout returns for the answers polled.
PlannedFor(L, A) ==
    L \in planShardLayout(shape.shards, shape.replicas,
                          [p \in Existing |-> label[p]], A)

LEMMA ShapeFacts ==
    ASSUME TypeOK
    PROVE  /\ shape.shards \in Nat \ {0} /\ shape.replicas \in Nat
           /\ desired \in Nat /\ desired >= 3
           /\ desired = shape.shards * (shape.replicas + 1)
           /\ 0 .. desired - 1 \in SUBSET Pod
<1>1. course \in Courses /\ shape \in {course.from, course.to}
  BY DEF TypeOK
<1>2. /\ shape.shards \in Nat /\ shape.shards >= 3 /\ shape.replicas \in Nat
      /\ Count(shape) \in Nat /\ Count(shape) >= shape.shards
  BY <1>1, CountIsPositive
<1>3. 0 .. Count(shape) - 1 \subseteq Pod
  BY <1>1, PodFacts
<1> QED
  BY <1>2, <1>3 DEF desired, Count

LEMMA PlannedFacts ==
    ASSUME TypeOK, NEW A, NEW L, PlannedFor(L, A)
    PROVE  /\ \A s \in 0 .. shape.shards - 1 :
                L.primaryOf[s] \in (0 .. desired - 1) \cup {NoPod}
           /\ \A p \in 0 .. desired - 1 : L.shardOf[p] \in Nat
<1> DEFINE n == shape.shards
           r == shape.replicas
           lb == [p \in Existing |-> label[p]]
           names == (0 .. n * (r + 1) - 1) \cup DOMAIN lb
<1>1. /\ n \in Nat \ {0} /\ r \in Nat /\ desired = n * (r + 1)
  BY ShapeFacts
<1>2. DOMAIN lb = Existing /\ Existing \in SUBSET Pod
  BY DEF Existing
<1>3. DOMAIN lb \in SUBSET Nat /\ IsFiniteSet(DOMAIN lb)
  BY <1>2, PodFacts, FS_Subset, Zenon
<1>4. L \in planShardLayout(n, r, lb, A)
  BY DEF PlannedFor
<1> HIDE DEF lb, n, r
<1>5. /\ L.shardOf \in [names -> 0 .. n + Cardinality(names)]
      /\ L.primaryOf \in [0 .. n + Cardinality(names) ->
                            (0 .. n * (r + 1) - 1) \cup {NoPod}]
  BY <1>1, <1>3, <1>4, LayoutSound, Zenon
<1>6. names \in SUBSET Nat /\ IsFiniteSet(names)
  <2>1. n * (r + 1) - 1 \in Int
    BY <1>1
  <2>2. IsFiniteSet(0 .. n * (r + 1) - 1) /\ 0 .. n * (r + 1) - 1 \in SUBSET Nat
    BY <2>1, FS_Interval
  <2> QED
    BY <1>3, <2>2, FS_Union, Zenon
<1>7. Cardinality(names) \in Nat
  BY <1>6, FS_CardinalityType
<1>8. 0 .. desired - 1 \in SUBSET names
  BY <1>1
<1> HIDE DEF names
<1>9. 0 .. n - 1 \in SUBSET (0 .. n + Cardinality(names))
  BY <1>1, <1>7
<1>10. \A p \in 0 .. desired - 1 : L.shardOf[p] \in Nat
  BY <1>5, <1>7, <1>8, <1>1
<1>11. \A s \in 0 .. n - 1 : L.primaryOf[s] \in (0 .. desired - 1) \cup {NoPod}
  BY <1>1, <1>5, <1>9, Zenon
<1> QED
  BY <1>10, <1>11 DEF n

LEMMA SilentFacts ==
    Silent.slots = {} /\ ~ Silent.connected
<1>1. Silent.slots = {}
  BY DEF Silent
<1>2. ~ Silent.connected
  BY DEF Silent
<1> QED
  BY <1>1, <1>2

LEMMA AnswersFacts ==
    ASSUME TypeOK, NEW A, A = Answers
    PROVE  /\ DOMAIN A \in SUBSET Existing /\ Existing \in SUBSET Pod
           /\ \A p \in DOMAIN A : \/ A[p].slots = {} /\ ~ A[p].connected
                                  \/ A[p].slots = Served(p) /\ A[p].connected
                                     /\ pod[p] = "up"
           /\ \A p \in DOMAIN A : A[p].slots \subseteq Served(p)
           /\ \A p \in Existing \ DOMAIN A : pod[p] = "pending"
<1>1. /\ DOMAIN A = {q \in Existing : pod[q] # "pending"}
      /\ \A p \in DOMAIN A :
           A[p] = IF ~ Up(p) THEN Silent
                  ELSE [connected |-> TRUE,
                        role |-> IF of[p] = NoPod THEN "master" ELSE "slave",
                        of |-> of[p], slots |-> Served(p),
                        link |-> p \in synced /\ Up(of[p])]
  BY DEF Answers
<1>2. Existing \in SUBSET Pod
  BY DEF Existing
<1>3. ASSUME NEW p \in DOMAIN A
      PROVE  \/ A[p].slots = {} /\ ~ A[p].connected
             \/ A[p].slots = Served(p) /\ A[p].connected /\ pod[p] = "up"
  <2>1. CASE Up(p)
    <3>1. A[p] = [connected |-> TRUE,
                  role |-> IF of[p] = NoPod THEN "master" ELSE "slave",
                  of |-> of[p], slots |-> Served(p),
                  link |-> p \in synced /\ Up(of[p])]
      BY <1>1, <2>1, Zenon
    <3>2. A[p].slots = Served(p)
      BY <3>1
    <3>3. A[p].connected
      BY <3>1
    <3> QED
      BY <2>1, <3>2, <3>3 DEF Up
  <2>2. CASE ~ Up(p)
    <3>1. A[p] = Silent
      BY <1>1, <2>2, Zenon
    <3> QED
      BY <3>1, SilentFacts
  <2> QED
    BY <2>1, <2>2
<1> QED
  BY <1>1, <1>2, <1>3

LEMMA BootstrapPlain ==
    ASSUME TypeOK, NEW A, NEW L, PlannedFor(L, A)
    PROVE  /\ Plain(meetCalls(A)) /\ Plain(slotCalls(A, L, shape.shards))
           /\ Plain(replicaCalls(A, L))
<1> USE DEF PodOrNone
<1>1. Plain(meetCalls(A))
  <2>1. desired - 1 \in Nat /\ \A p \in 1 .. desired - 1 : p \in Pod
    BY ShapeFacts
  <2>2. meetCalls(A) = [i \in 1 .. desired - 1 |-> meetCalls(A)[i]]
    BY DEF meetCalls
  <2>3. IsSeq(meetCalls(A)) /\ Len(meetCalls(A)) = desired - 1
    BY <2>1, <2>2, FunIsSeq
  <2>4. ASSUME NEW i \in 1 .. desired - 1
        PROVE  CallOK(meetCalls(A)[i]) /\ meetCalls(A)[i].op = "meet"
    BY <2>1 DEF meetCalls, Call, CallOK
  <2> QED
    BY <2>3, <2>4 DEF Plain, CallsOK
<1>2. Plain(slotCalls(A, L, shape.shards))
  <2> DEFINE n == shape.shards
             short == {s \in 0 .. n - 1 : L.primaryOf[s] = NoPod}
             todo == {s \in 0 .. n - 1 : /\ \A t \in short : s < t
                                         /\ ~ SlotRange(n, s) \subseteq Covered(A)}
             add(s) == Call("addslots", L.primaryOf[s], NoPod,
                            SlotRange(n, s) \ Covered(A))
             cs == slotCalls(A, L, n)
  <2>1. cs = [i \in 1 .. Cardinality(todo) |-> add(InOrder(todo)[i])]
    BY DEF slotCalls
  <2>2. todo \in SUBSET (0 .. n - 1)
    OBVIOUS
  <2> HIDE DEF todo, cs
  <2>3. n \in Nat /\ IsFiniteSet(todo) /\ todo \in SUBSET Nat /\ Cardinality(todo) \in Nat
    <3>1. n \in Nat
      BY ShapeFacts
    <3>2. IsFiniteSet(0 .. n - 1) /\ 0 .. n - 1 \in SUBSET Nat
      BY <3>1, FS_Interval
    <3> QED
      BY <2>2, <3>1, <3>2, FS_Subset, FS_CardinalityType, Zenon
  <2>4. cs = [i \in 1 .. Cardinality(todo) |-> cs[i]]
    BY <2>1
  <2>5. IsSeq(cs) /\ Len(cs) = Cardinality(todo)
    BY <2>3, <2>4, FunIsSeq
  <2>6. ASSUME NEW i \in 1 .. Cardinality(todo)
        PROVE  CallOK(cs[i]) /\ cs[i].op = "addslots"
    <3>1. PICK s \in todo : s = InOrder(todo)[i]
      BY <2>3, InOrderMember, Zenon
    <3>2. L.primaryOf[s] \in PodOrNone
      BY <2>2, PlannedFacts, ShapeFacts
    <3>3. cs[i] = add(s)
      BY <2>1, <3>1
    <3> QED
      BY <3>2, <3>3 DEF Call, CallOK
  <2> QED
    BY <2>5, <2>6 DEF Plain, CallsOK, cs
<1>3. Plain(replicaCalls(A, L))
  <2> DEFINE shard(p) == IF p \in DOMAIN L.moves THEN L.moves[p] ELSE L.shardOf[p]
             todo == {p \in 0 .. desired - 1 :
                        /\ ~ isPrimary(L, p) /\ A[p].slots = {}
                        /\ ~ handingOver(L, shard(p))
                        /\ ~ (A[p].role = "slave"
                              /\ A[p].of = L.primaryOf[shard(p)])}
             follow(p) == Call("replicate", p, L.primaryOf[shard(p)], {})
             cs == replicaCalls(A, L)
  <2>1. cs = [i \in 1 .. Cardinality(todo) |-> follow(InOrder(todo)[i])]
    BY DEF replicaCalls
  <2>2. todo \in SUBSET (0 .. desired - 1)
    OBVIOUS
  <2> HIDE DEF todo, cs, shard
  <2>3. /\ IsFiniteSet(todo) /\ todo \in SUBSET Nat /\ Cardinality(todo) \in Nat
        /\ todo \in SUBSET Pod
    <3>1. desired \in Nat /\ 0 .. desired - 1 \in SUBSET Pod
      BY ShapeFacts
    <3>2. IsFiniteSet(0 .. desired - 1) /\ 0 .. desired - 1 \in SUBSET Nat
      BY <3>1, FS_Interval
    <3> QED
      BY <2>2, <3>1, <3>2, FS_Subset, FS_CardinalityType, Zenon
  <2>4. cs = [i \in 1 .. Cardinality(todo) |-> cs[i]]
    BY <2>1
  <2>5. IsSeq(cs) /\ Len(cs) = Cardinality(todo)
    BY <2>3, <2>4, FunIsSeq
  <2>6. ASSUME NEW i \in 1 .. Cardinality(todo)
        PROVE  CallOK(cs[i]) /\ cs[i].op = "replicate"
    <3>1. PICK p \in todo : p = InOrder(todo)[i]
      BY <2>3, InOrderMember, Zenon
    <3>2. cs[i] = follow(p)
      BY <2>1, <3>1
    <3> QED
      BY <2>3, <3>2 DEF Call, CallOK
  <2> QED
    BY <2>5, <2>6 DEF Plain, CallsOK, cs
<1> QED
  BY <1>1, <1>2, <1>3

\* What reconcileClusterReshard may ask for: nothing, or one request.
ReshardOK(D) ==
    \/ D = Decision(<< >>, "pods")
    \/ D = Decision(<< >>, "return")
    \/ \E c : /\ CallOK(c) /\ c.op \in {"replicate", "begin", "migrate"}
              /\ D = Decision(<<c>>, "return")

LEMMA HandOverForm ==
    ASSUME NEW A, NEW o \in Pod, NEW h \in PodOrNone
    PROVE  ReshardOK(handOverShard(A, o, h))
<1>1. CallOK(Call("replicate", h, o, {})) /\ CallOK(Call("begin", o, h, {}))
  BY DEF CallOK, Call, PodOrNone
<1>2. Call("replicate", h, o, {}).op = "replicate" /\ Call("begin", o, h, {}).op = "begin"
  BY DEF Call
<1>3. \/ handOverShard(A, o, h) = Decision(<<Call("replicate", h, o, {})>>, "return")
      \/ handOverShard(A, o, h) = Decision(<< >>, "return")
      \/ handOverShard(A, o, h) = Decision(<<Call("begin", o, h, {})>>, "return")
  BY Zenon DEF handOverShard, Wait
<1> QED
  BY <1>1, <1>2, <1>3 DEF ReshardOK

\* In a poll that covers all slots, who serves a slot is well defined.
LEMMA HolderFacts ==
    ASSUME TypeOK, NEW A, A = Answers, Covered(A) = Slot, NEW s \in Slot,
           NEW o, o = CHOOSE p \in DOMAIN A : s \in A[p].slots
    PROVE  /\ o \in DOMAIN A /\ o \in Pod
           /\ \A p \in DOMAIN A : s \in A[p].slots => p = o
<1>1. /\ DOMAIN A \in SUBSET Pod
      /\ \A p \in DOMAIN A : A[p].slots \subseteq Served(p)
  BY AnswersFacts
<1>2. \E p \in DOMAIN A : s \in A[p].slots
  BY DEF Covered
<1>3. o \in DOMAIN A /\ s \in A[o].slots
  BY <1>2
<1>4. \A p \in DOMAIN A : s \in A[p].slots => owner[s] = p
  BY <1>1 DEF Served
<1> QED
  BY <1>1, <1>3, <1>4

LEMMA ReshardForm ==
    ASSUME TypeOK, NEW A, A = Answers, NEW L, PlannedFor(L, A),
           NEW D, D = reconcileClusterReshard(A, L, shape.shards)
    PROVE  /\ ReshardOK(D)
           /\ (/\ D.then = "pods" /\ clusterOK(A)
               /\ \A s \in 0 .. shape.shards - 1 : L.primaryOf[s] # NoPod
               /\ \A p \in 0 .. desired - 1 : Of(A, p).connected)
              => \A p \in DOMAIN A : A[p].slots # {} => p \in 0 .. desired - 1
<1> DEFINE n == shape.shards
           primaries == {L.primaryOf[s] : s \in 0 .. n - 1}
           home(s) == CHOOSE i \in 0 .. n - 1 : s \in SlotRange(n, i)
           target(s) == L.primaryOf[home(s)]
           holder(s) == CHOOSE p \in DOMAIN A : s \in A[p].slots
           misplaced == {s \in Slot : holder(s) # target(s)}
           first == Min(misplaced)
           o == holder(first)
           h == target(first)
           segment == {s \in misplaced :
                         \A t \in first .. s : holder(t) = o /\ target(t) = h}
           few == Cardinality(DOMAIN A) < desired
           many == Cardinality(DOMAIN A) > desired
           cut == \E p \in primaries : ~ Of(A, p).connected
           give == o \in Doomed /\ A[h].slots = {}
<1>1. D = IF few \/ ~ clusterOK(A) THEN Decision(<< >>, "pods")
          ELSE IF NoPod \in primaries THEN Decision(<< >>, "return")
          ELSE IF cut
          THEN IF many THEN Decision(<< >>, "return") ELSE Decision(<< >>, "pods")
          ELSE IF misplaced = {} THEN Decision(<< >>, "pods")
          ELSE IF give THEN handOverShard(A, o, h)
          ELSE Decision(<<Call("migrate", o, h, segment)>>, "return")
  BY Zenon DEF reconcileClusterReshard, Wait
<1>2. ASSUME NEW s \in Slot
      PROVE  home(s) \in 0 .. n - 1 /\ target(s) \in (0 .. desired - 1) \cup {NoPod}
  <2>1. home(s) \in 0 .. n - 1
    <3>1. \E i \in 0 .. n - 1 : s \in SlotRange(n, i)
      BY ShapeFacts, SlotRangesPartition
    <3> QED
      BY <3>1
  <2> HIDE DEF home
  <2> QED
    BY <2>1, PlannedFacts
<1>3. ASSUME NEW s \in Slot, clusterOK(A)
      PROVE  /\ holder(s) \in DOMAIN A /\ holder(s) \in Pod
             /\ \A p \in DOMAIN A : s \in A[p].slots => p = holder(s)
  <2>1. Covered(A) = Slot
    BY <1>3 DEF clusterOK
  <2> QED
    BY <2>1, HolderFacts
<1>4. misplaced \in SUBSET Slot /\ Slot \in SUBSET Nat
  BY SlotsAssumption DEF Slot
<1>5. ASSUME misplaced # {}
      PROVE  first \in misplaced /\ first \in Slot /\ first \in Nat
  <2> HIDE DEF misplaced
  <2>1. misplaced \in SUBSET Nat
    BY <1>4
  <2> QED
    BY <1>4, <1>5, <2>1, LowestNat, Zenon
<1>6. ASSUME misplaced # {} PROVE first \in segment
  <2>0. first \in Nat
    BY <1>5, <1>6, Zenon
  <2> HIDE DEF first, holder, target
  <2>1. first .. first = {first}
    BY <2>0
  <2> QED
    BY <1>5, <1>6, <2>1
<1>7. segment \subseteq Slot
  BY Zenon
<1>8. ASSUME misplaced # {}, clusterOK(A)
      PROVE  /\ o \in Pod /\ h \in PodOrNone
             /\ CallOK(Call("migrate", o, h, segment))
             /\ Call("migrate", o, h, segment).op = "migrate"
  <2>1. o \in Pod
    BY <1>3, <1>5, <1>8, Zenon
  <2>2. h \in PodOrNone
    <3>1. h \in (0 .. desired - 1) \cup {NoPod}
      BY <1>2, <1>5, <1>8, Zenon
    <3> HIDE DEF h
    <3> QED
      BY <3>1, ShapeFacts DEF PodOrNone
  <2>3. segment # {}
    BY <1>6, <1>8, Zenon
  <2> HIDE DEF o, h, segment
  <2> QED
    BY <1>7, <2>1, <2>2, <2>3 DEF CallOK, Call, PodOrNone
<1> HIDE DEF o, h, segment, few, many, cut, give, misplaced, primaries
<1>9. ReshardOK(D)
  <2>1. CASE D = Decision(<< >>, "pods") \/ D = Decision(<< >>, "return")
    BY <2>1 DEF ReshardOK
  <2>2. CASE D = handOverShard(A, o, h) /\ misplaced # {} /\ clusterOK(A)
    BY <1>8, <2>2, HandOverForm
  <2>3. CASE /\ D = Decision(<<Call("migrate", o, h, segment)>>, "return")
             /\ misplaced # {} /\ clusterOK(A)
    BY <1>8, <2>3 DEF ReshardOK
  <2> QED
    BY <1>1, <2>1, <2>2, <2>3, Zenon
<1>10. ASSUME D.then = "pods", clusterOK(A),
              \A s \in 0 .. n - 1 : L.primaryOf[s] # NoPod,
              \A p \in 0 .. desired - 1 : Of(A, p).connected,
              NEW p \in DOMAIN A, A[p].slots # {}
       PROVE  p \in 0 .. desired - 1
  <2>1. 0 .. desired - 1 \in SUBSET DOMAIN A
    BY <1>10, SilentFacts DEF Of
  <2>2. ~ few
    <3>1. IsFiniteSet(DOMAIN A) /\ desired \in Nat
      BY AnswersFacts, PodFacts, FS_Subset, ShapeFacts
    <3>2. IsFiniteSet(0 .. desired - 1) /\ Cardinality(0 .. desired - 1) = desired
      BY <3>1, FS_Interval
    <3>3. desired =< Cardinality(DOMAIN A) /\ Cardinality(DOMAIN A) \in Nat
      BY <2>1, <3>1, <3>2, FS_Subset, FS_CardinalityType
    <3> QED
      BY <3>1, <3>3 DEF few
  <2>3. NoPod \notin primaries /\ ~ cut
    <3>1. NoPod \notin primaries
      BY <1>10 DEF primaries
    <3>2. primaries \in SUBSET (0 .. desired - 1)
      BY <3>1, PlannedFacts DEF primaries
    <3> QED
      BY <1>10, <3>1, <3>2 DEF cut
  <2>4. misplaced = {}
    <3>1. SUFFICES ASSUME misplaced # {} PROVE FALSE
      OBVIOUS
    <3>2. \/ D = handOverShard(A, o, h)
          \/ D = Decision(<<Call("migrate", o, h, segment)>>, "return")
      BY <1>1, <1>10, <2>2, <2>3, <3>1, Zenon
    <3>3. handOverShard(A, o, h).then = "return"
      BY DEF handOverShard, Decision, Wait
    <3>4. Decision(<<Call("migrate", o, h, segment)>>, "return").then = "return"
      BY DEF Decision
    <3> QED
      BY <1>10, <3>2, <3>3, <3>4
  <2>5. PICK s \in A[p].slots : TRUE
    BY <1>10
  <2>6. s \in Slot
    BY <1>10, <2>5 DEF clusterOK, Covered
  <2>7. holder(s) = p /\ holder(s) = target(s)
    BY <1>3, <1>10, <2>4, <2>5, <2>6 DEF misplaced
  <2>8. target(s) \in primaries
    BY <1>2, <2>6, Zenon DEF primaries
  <2>9. target(s) \in (0 .. desired - 1) \cup {NoPod}
    BY <1>2, <2>6
  <2> HIDE DEF holder, target
  <2> QED
    BY <2>3, <2>7, <2>8, <2>9
<1> QED
  BY <1>9, <1>10

\* Requests a reconcile may plan when the handover annotation is ho: one that
\* changes the annotations comes last, and is not followed by reconcilePods.
RequestsOK(cs, next, ho) ==
    /\ CallsOK(cs) /\ next \in {"return", "pods"}
    /\ \A i \in 1 .. Len(cs) :
         /\ cs[i].op \notin {"fence", "unfence"}
         /\ cs[i].op = "begin" =>
              i = Len(cs) /\ ho = NoHandover /\ next = "return"
         /\ cs[i].op = "finish" => i = Len(cs) /\ cs[i].pod = ho.owner
    /\ next = "pods" => ho = NoHandover

LEMMA PlainRequests ==
    ASSUME NEW cs, Plain(cs), NEW next \in {"return", "pods"}, NEW ho,
           next = "pods" => ho = NoHandover
    PROVE  RequestsOK(cs, next, ho)
BY DEF Plain, RequestsOK

LastOK(c, ho) ==
    /\ CallOK(c)
    /\ c.op \in {"replicate", "promote", "begin", "finish", "migrate"}
    /\ c.op = "begin" => ho = NoHandover
    /\ c.op = "finish" => c.pod = ho.owner

LEMMA LastRequests ==
    ASSUME NEW a, Plain(a), NEW c, NEW ho, LastOK(c, ho), NEW cs, EndsWith(cs, a, c)
    PROVE  RequestsOK(cs, "return", ho)
<1>1. /\ CallsOK(cs)
      /\ \A i \in 1 .. Len(cs) :
           \/ cs[i].op \in {"meet", "addslots", "replicate"}
           \/ i = Len(cs) /\ cs[i] = c
  BY ThenLast DEF LastOK
<1> QED
  BY <1>1 DEF RequestsOK, LastOK

LEMMA EmptyThen ==
    ASSUME NEW c
    PROVE  EndsWith(<<c>>, << >>, c)
BY DEF EndsWith

LEMMA PlainThenEmpty ==
    ASSUME NEW a, Plain(a)
    PROVE  a \o << >> = a
<1>1. PICK S : a \in Seq(S)
  BY DEF Plain, CallsOK, IsSeq
<1> QED
  BY <1>1

LEMMA DecisionFields ==
    ASSUME NEW cs, NEW next
    PROVE  Decision(cs, next).calls = cs /\ Decision(cs, next).then = next
BY DEF Decision

\* Planned requests, then what reconcileClusterReshard asks for.
LEMMA ReshardRequests ==
    ASSUME NEW D, ReshardOK(D), NEW a, Plain(a)
    PROVE  RequestsOK(a \o D.calls, D.then, NoHandover)
<1>1. CASE D = Decision(<< >>, "pods")
  <2>1. a \o D.calls = a /\ D.then = "pods"
    BY <1>1, DecisionFields, PlainThenEmpty, Zenon
  <2> QED
    BY <2>1, PlainRequests
<1>2. CASE D = Decision(<< >>, "return")
  <2>1. a \o D.calls = a /\ D.then = "return"
    BY <1>2, DecisionFields, PlainThenEmpty, Zenon
  <2> QED
    BY <2>1, PlainRequests
<1>3. ASSUME NEW c, CallOK(c), c.op \in {"replicate", "begin", "migrate"},
             D = Decision(<<c>>, "return")
      PROVE  RequestsOK(a \o D.calls, D.then, NoHandover)
  <2>1. D.calls = <<c>> /\ D.then = "return"
    BY <1>3, DecisionFields
  <2>2. LastOK(c, NoHandover)
    BY <1>3 DEF LastOK
  <2>3. PICK cs : cs = a \o <<c>>
    BY Zenon
  <2>4. EndsWith(cs, a, c)
    BY <2>3 DEF EndsWith
  <2>5. RequestsOK(cs, "return", NoHandover)
    BY <2>2, <2>4, LastRequests
  <2> QED
    BY <2>1, <2>3, <2>5
<1> QED
  BY <1>1, <1>2, <1>3, Zenon DEF ReshardOK

LEMMA ReshardAlone ==
    ASSUME NEW D, ReshardOK(D)
    PROVE  RequestsOK(D.calls, D.then, NoHandover)
<1>1. PICK e : e = << >>
  OBVIOUS
<1>2. Plain(e) /\ RequestsOK(e \o D.calls, D.then, NoHandover)
  BY <1>1, EmptyPlain, ReshardRequests, Zenon
<1>3. e \o D.calls = D.calls
  <2>1. CASE D.calls = << >>
    BY <1>1, <2>1
  <2>2. ASSUME NEW c, D.calls = <<c>> PROVE e \o D.calls = D.calls
    BY <1>1, <2>2
  <2>3. D.calls = << >> \/ \E c : D.calls = <<c>>
    <3>1. CASE \E next : D = Decision(<< >>, next)
      BY <3>1, DecisionFields
    <3>2. ASSUME NEW c, D = Decision(<<c>>, "return") PROVE D.calls = <<c>>
      BY <3>2, DecisionFields
    <3> QED
      BY <3>1, <3>2, Zenon DEF ReshardOK
  <2> QED
    BY <2>1, <2>2, <2>3
<1> QED
  BY <1>2, <1>3

LEMMA ResumeRequests ==
    ASSUME NEW A, handover \in [owner : PodOrNone, heir : PodOrNone],
           NEW D, D = resumeClusterHandover(A)
    PROVE  RequestsOK(D.calls, D.then, handover) /\ D.then = "return"
<1> DEFINE f == Call("finish", handover.owner, NoPod, {})
           g == Call("promote", handover.heir, NoPod, {})
<1>1. \/ D = Decision(<<f>>, "return") \/ D = Decision(<< >>, "return")
      \/ D = Decision(<<g>>, "return")
  BY Zenon DEF resumeClusterHandover, Wait
<1>2. /\ CallOK(f) /\ f.op = "finish" /\ f.pod = handover.owner
      /\ CallOK(g) /\ g.op = "promote"
  BY DEF Call, CallOK
<1> HIDE DEF f, g
<1>6. LastOK(f, handover) /\ LastOK(g, handover)
  BY <1>2 DEF LastOK
<1>3. RequestsOK(<<f>>, "return", handover)
  BY <1>6, EmptyPlain, EmptyThen, LastRequests
<1>4. RequestsOK(<<g>>, "return", handover)
  BY <1>6, EmptyPlain, EmptyThen, LastRequests
<1>5. RequestsOK(<< >>, "return", handover)
  BY EmptyPlain, PlainRequests
<1> QED
  BY <1>1, <1>3, <1>4, <1>5, DecisionFields

\* What a reconcile plans from one poll.
LEMMA DecideSound ==
    ASSUME TypeOK, handover \in [owner : PodOrNone, heir : PodOrNone],
           NEW A, A = Answers, NEW L, PlannedFor(L, A), NEW D, D = Decide(A, L)
    PROVE  /\ RequestsOK(D.calls, D.then, handover)
           /\ (D.then = "pods" /\ \A p \in 0 .. desired - 1 : Of(A, p).connected)
              => \A p \in DOMAIN A : A[p].slots # {} => p \in 0 .. desired - 1
<1> DEFINE n == shape.shards
           meets == meetCalls(A)
           leaderless == \E s \in 0 .. n - 1 : L.primaryOf[s] = NoPod
           more == slotCalls(A, L, n)
                   \o (IF leaderless THEN << >> ELSE replicaCalls(A, L))
           led == \A s \in 0 .. n - 1 : L.primaryOf[s] # NoPod
           settled == led /\ more = << >> /\ clusterOK(A)
           reshard == reconcileClusterReshard(A, L, n)
           unreached == /\ Cardinality(DOMAIN A) >= desired
                        /\ Cardinality({p \in DOMAIN A : A[p].connected}) < desired
           after == IF reshard.then = "pods" /\ unreached THEN Wait ELSE reshard
           partial == \E p \in 0 .. desired - 1 : ~ Of(A, p).connected
           safe == \A p \in DOMAIN A : A[p].slots # {} => p \in 0 .. desired - 1
<1>1. D = IF handover # NoHandover THEN resumeClusterHandover(A)
          ELSE IF partial THEN after
          ELSE IF settled THEN Decision(meets \o after.calls, after.then)
          ELSE Decision(meets \o more, "return")
  BY DEF Decide
<1>2. Plain(meets) /\ Plain(more)
  <2>1. Plain(meets) /\ Plain(slotCalls(A, L, n)) /\ Plain(replicaCalls(A, L))
    BY BootstrapPlain
  <2> QED
    BY <2>1, EmptyPlain, ConcatPlain
<1>3. (/\ reshard.then = "pods" /\ clusterOK(A) /\ led
       /\ \A p \in 0 .. desired - 1 : Of(A, p).connected) => safe
  BY ReshardForm
<1>9. ReshardOK(reshard)
  BY ReshardForm
<1>4. ReshardOK(after) /\ (after.then = "pods" => after = reshard)
  <2>1. ReshardOK(Wait) /\ Wait.then = "return"
    BY DecisionFields DEF ReshardOK, Wait
  <2> HIDE DEF reshard, unreached
  <2>2. after = Wait \/ after = reshard
    BY Zenon
  <2> HIDE DEF after
  <2>4. CASE after = Wait
    BY <2>1, <2>4
  <2>5. CASE after = reshard
    BY <1>9, <2>5
  <2> QED
    BY <2>2, <2>4, <2>5
<1> HIDE DEF meets, more, led, reshard, unreached, after, safe
<1>5. CASE handover # NoHandover
  <2>1. D = resumeClusterHandover(A)
    BY <1>1, <1>5
  <2>2. RequestsOK(D.calls, D.then, handover) /\ D.then = "return"
    BY <2>1, ResumeRequests
  <2> QED
    BY <2>2
<1>6. CASE handover = NoHandover /\ partial
  <2>1. D = after
    BY <1>1, <1>6
  <2>2. RequestsOK(D.calls, D.then, NoHandover)
    BY <1>4, <2>1, ReshardAlone
  <2> QED
    BY <1>6, <2>2
<1>7. CASE handover = NoHandover /\ ~ partial /\ settled
  <2>0. PICK cs : cs = meets \o after.calls
    BY Zenon
  <2>1. D = Decision(cs, after.then)
    BY <1>1, <1>7, <2>0
  <2>2. D.calls = cs /\ D.then = after.then
    BY <2>1, DecisionFields
  <2>3. RequestsOK(meets \o after.calls, after.then, NoHandover)
    BY <1>2, <1>4, ReshardRequests
  <2>4. D.then = "pods" => safe
    BY <1>3, <1>4, <1>7, <2>2, Zenon
  <2> QED
    BY <1>7, <2>0, <2>2, <2>3, <2>4 DEF safe
<1>8. CASE handover = NoHandover /\ ~ partial /\ ~ settled
  <2>0. PICK cs : cs = meets \o more
    BY Zenon
  <2>1. D = Decision(cs, "return")
    BY <1>1, <1>8, <2>0
  <2>2. D.calls = cs /\ D.then = "return"
    BY <2>1, DecisionFields
  <2>3. RequestsOK(cs, "return", handover)
    BY <1>2, <2>0, ConcatPlain, PlainRequests
  <2> QED
    BY <2>2, <2>3
<1> QED
  BY <1>5, <1>6, <1>7, <1>8

LEMMA PollStep ==
    ASSUME TypeFlat, PlanInv, Poll
    PROVE  TypeFlat' /\ PlanInv'
<1>0. TypeOK
  BY TypeOKFlat
<1>1. PICK A : A = Answers
  OBVIOUS
<1>2. PICK L, M :
        /\ PlannedFor(L, A) /\ PlannedFor(M, A)
        /\ calls' = Decide(A, L).calls /\ then' = Decide(A, L).then
        /\ labels' = [p \in 0 .. desired - 1 |->
                        [shard |-> M.shardOf[p], primary |-> isPrimary(M, p)]]
  <2>1. PICK L, M \in planShardLayout(shape.shards, shape.replicas,
                                      [p \in Existing |-> label[p]], Answers) :
          /\ calls' = Decide(Answers, L).calls /\ then' = Decide(Answers, L).then
          /\ labels' = [p \in 0 .. desired - 1 |->
                          [shard |-> M.shardOf[p], primary |-> isPrimary(M, p)]]
    BY Zenon DEF Poll
  <2>2. PlannedFor(L, A) /\ PlannedFor(M, A)
    BY <1>1, <2>1 DEF PlannedFor
  <2> QED
    BY <1>1, <2>1, <2>2
<1>3. /\ pc = "idle" /\ pc' = "calls"
      /\ silent' = {p \in Existing : ~ Of(A, p).connected}
      /\ served' = {p \in DOMAIN A : A[p].slots # {}}
      /\ UNCHANGED <<course, shape, cloud, redis, fenced, handover, job, spent>>
  BY <1>1 DEF Poll, spec
<1>4. Existing' = Existing /\ outdated' = outdated
  BY <1>3 DEF Existing, cloud
<1>5. PICK D : D = Decide(A, L)
  OBVIOUS
<1>6. /\ RequestsOK(D.calls, D.then, handover)
      /\ (D.then = "pods" /\ \A p \in 0 .. desired - 1 : Of(A, p).connected)
         => \A p \in DOMAIN A : A[p].slots # {} => p \in 0 .. desired - 1
  <2>1. handover \in [owner : PodOrNone, heir : PodOrNone]
    BY DEF PlanInv, PlanTyped
  <2> QED
    BY <1>0, <1>1, <1>2, <1>5, <2>1, DecideSound
<1>7. calls' = D.calls /\ then' = D.then
  BY <1>2, <1>5
<1>8. desired \in Nat /\ 0 .. desired - 1 \in SUBSET Pod
  BY <1>0, ShapeFacts
<1>9. labels' \in Labels(desired) /\ DOMAIN labels' = 0 .. desired - 1
  <2>1. \A p \in 0 .. desired - 1 : M.shardOf[p] \in Nat
    BY <1>0, <1>2, PlannedFacts
  <2>2. ASSUME NEW p \in 0 .. desired - 1
        PROVE  [shard |-> M.shardOf[p], primary |-> isPrimary(M, p)]
                 \in [shard : Int, primary : BOOLEAN]
    <3>1. M.shardOf[p] \in Int
      BY <2>1
    <3>2. isPrimary(M, p) \in BOOLEAN
      BY DEF isPrimary
    <3> QED
      BY <3>1, <3>2
  <2> QED
    BY <1>2, <2>2 DEF Labels
<1>10. DOMAIN A \in SUBSET Existing /\ Existing \in SUBSET Pod
  BY <1>0, <1>1, AnswersFacts
<1>11. TypeFlat'
  <2>1. silent' \subseteq Pod /\ served' \subseteq Pod
    BY <1>3, <1>10
  <2>2. NoJob' = NoJob /\ job' = NoJob
    BY <1>3, Zenon DEF TypeFlat, NoJob
  <2> QED
    BY <1>3, <1>4, <2>1, <2>2 DEF TypeFlat, cloud, redis, PodOrNone, NoHandover
<1>12. PlanTyped'
  <2>1. CallsOK(calls') /\ then' \in {"return", "pods"}
    BY <1>6, <1>7 DEF RequestsOK
  <2>2. \E d \in Nat : labels' \in Labels(d) /\ 0 .. d - 1 \in SUBSET Pod
    BY <1>8, <1>9
  <2> QED
    BY <1>3, <2>1, <2>2 DEF PlanInv, PlanTyped, PodOrNone, NoJob, Labels
<1>13. Orderly'
  <2>1. ~ Has(calls', {"fence", "unfence"})
    BY <1>6, <1>7 DEF RequestsOK, Has
  <2>2. then' = "pods" => handover' = NoHandover /\ ~ Has(calls', {"begin"})
    BY <1>3, <1>6, <1>7 DEF RequestsOK, Has
  <2>3. ASSUME NEW i \in 1 .. Len(calls')
        PROVE  /\ calls'[i].op = "begin" => i = Len(calls') /\ handover' = NoHandover
               /\ calls'[i].op = "finish" =>
                    i = Len(calls') /\ calls'[i].pod = handover'.owner
    BY <1>3, <1>6, <1>7 DEF RequestsOK
  <2>4. NoHandover' = NoHandover /\ (Updates' <=> Updates)
    BY <1>3 DEF NoHandover, Updates
  <2>5. Beyond' => then' = "pods"
    BY <1>3, <2>1 DEF Beyond
  <2>6. (outdated' # {} \/ pc' = "rolling" \/ Has(calls', {"fence", "unfence"})) => Updates'
    BY <1>3, <1>4, <2>1, <2>4 DEF PlanInv, Orderly
  <2>7. spent'.unfences = 0 /\ ~ Updates' => \A p \in fenced' : handover'.owner = p
    BY <1>3, <2>4 DEF PlanInv, Orderly
  <2> QED
    BY <2>2, <2>3, <2>4, <2>5, <2>6, <2>7 DEF Orderly
<1>14. Lowest'
  BY <1>3, <1>4 DEF PlanInv, Lowest, Updates
<1>15. OwnersStayIn'
  <2>1. SUFFICES ASSUME then' = "pods", silent' = {}, DOMAIN labels' \subseteq Existing
                 PROVE  served' \subseteq DOMAIN labels'
    BY <1>4 DEF OwnersStayIn
  <2>2. \A p \in 0 .. desired - 1 : Of(A, p).connected
    BY <1>3, <1>9, <2>1
  <2>3. \A p \in DOMAIN A : A[p].slots # {} => p \in 0 .. desired - 1
    BY <1>6, <1>7, <2>1, <2>2
  <2> QED
    BY <1>3, <1>9, <2>3
<1> QED
  BY <1>11, <1>12, <1>13, <1>14, <1>15 DEF PlanInv

-----------------------------------------------------------------------------
(* rollingUpdateClusterMode *)

LEMMA RollingStep ==
    ASSUME TypeFlat, PlanInv, rollingUpdateClusterMode
    PROVE  TypeFlat' /\ PlanInv'
<1> DEFINE primary(s)  == shards[s].primary \cap Existing
           replicas(s) == shards[s].replicas \cap Existing
           behind == {s \in DOMAIN shards :
                        (primary(s) \cup replicas(s)) \cap outdated # {}}
           last == Max(behind)
           old == replicas(last) \cap outdated
<1>1. pc = "rolling"
  BY Zenon DEF rollingUpdateClusterMode
<1>2. \/ Return /\ UNCHANGED <<spec, cloud, redis, fenced, handover, job, spent>>
      \/ DeletePod(Max(old))
      \/ \E p \in primary(last) :
           IF replicas(last) = {} THEN DeletePod(p)
           ELSE FailOver(p, Max(replicas(last)))
  BY Zenon DEF rollingUpdateClusterMode
<1>3. PICK R : R = replicas(last)
  BY Zenon
<1>4. primary(last) \in SUBSET Pod /\ R \in SUBSET Pod
  BY <1>3 DEF Existing
<1>5. R \in SUBSET Nat /\ IsFiniteSet(R)
  BY <1>4, PodFacts, FS_Subset, Zenon
<1> HIDE DEF primary, replicas, last, old
<1>6. CASE Return /\ UNCHANGED <<spec, cloud, redis, fenced, handover, job, spent>>
  <2>1. job' = NoJob
    BY <1>1, <1>6 DEF TypeFlat
  <2> QED
    BY <1>6, <2>1, ReturnStep, SpentFacts DEF PlanInv
<1>7. CASE DeletePod(Max(old))
  BY <1>1, <1>7, DeletePodStep
<1>8. ASSUME NEW p \in primary(last),
             IF R = {} THEN DeletePod(p) ELSE FailOver(p, Max(R))
      PROVE  TypeFlat' /\ PlanInv'
  <2>1. CASE R = {}
    BY <1>1, <1>8, <2>1, DeletePodStep
  <2>2. CASE R # {}
    <3>1. Max(R) \in R
      BY <1>5, <2>2, HighestFinite
    <3>2. p \in Pod /\ Max(R) \in Pod /\ FailOver(p, Max(R))
      BY <1>4, <1>8, <2>2, <3>1
    <3> QED
      BY <1>1, <3>2, FailOverStep
  <2> QED
    BY <2>1, <2>2
<1> QED
  BY <1>2, <1>3, <1>6, <1>7, <1>8

-----------------------------------------------------------------------------
(* The invariant and what follows from it *)

LEMMA InitInv == Init => TypeFlat /\ PlanInv
<1> SUFFICES ASSUME Init PROVE TypeFlat /\ PlanInv
  OBVIOUS
<1>1. course.from.shards \in Nat /\ course.from.shards >= 3
  BY CountIsPositive DEF Init, RedisInit
<1>2. \A s \in Slot : \E i \in 0 .. course.from.shards - 1 :
        s \in SlotRange(course.from.shards, i)
  BY <1>1, SlotRangesPartition
<1> QED
  BY <1>2, InitFormed, InitAbsent

LEMMA NextInv ==
    ASSUME TypeFlat, PlanInv, [Next]_vars
    PROVE  TypeFlat' /\ PlanInv'
<1>1. CASE UNCHANGED vars
  <2>1. /\ UNCHANGED <<course, shape, pod, label, ready, outdated>>
        /\ UNCHANGED <<of, synced, owner, import, keys, joined, asked, wants>>
        /\ UNCHANGED <<fenced, handover, job, spent, plan>>
    BY <1>1 DEF vars, spec, cloud, redis
  <2>2. Existing' = Existing
    BY <2>1 DEF Existing
  <2>3. TypeFlat'
    BY <2>1, <2>2, Zenon DEF TypeFlat, plan, PodOrNone, NoJob, NoHandover
  <2> QED
    BY <2>1, <2>2, <2>3, QuietStep, SpentFacts, JobFacts DEF PlanInv
<1>2. CASE Step
  BY <1>2, MeetStep, AddSlotsStep, ReplicateStep, PromoteStep, BeginHandoverStep,
     FinishHandoverStep, MigrateRangeStep, MigrateEndsStep, RefusedStep, CallsDoneStep,
     ReconcilePodsStep, RollingStep, FenceStep DEF Step
<1>3. CASE Poll \/ Cut \/ (RedisNext /\ UNCHANGED plan)
  BY <1>3, PollStep, CutStep, RedisStep
<1> QED
  BY <1>1, <1>2, <1>3 DEF Next

LEMMA Invariance == Spec => [](TypeFlat /\ PlanInv)
<1>1. Init => TypeFlat /\ PlanInv
  BY InitInv
<1>2. (TypeFlat /\ PlanInv) /\ [Next]_vars => (TypeFlat /\ PlanInv)'
  BY NextInv
<1> QED
  BY <1>1, <1>2, PTL DEF Spec

\* Type correctness: whatever the courses, the owner of a planned handover is fenced until the
\* handover is finished, and only a reconcile that waits for it has a
\* migration under way.
THEOREM ShardsTyped == Spec => []TypeOK
<1>1. TypeFlat => TypeOK
  BY TypeOKFlat
<1> QED
  BY <1>1, Invariance, PTL

\* Whatever the courses, beginClusterHandover and finishClusterHandover leave
\* a pod fenced only together with its handover annotation: outside of a
\* rolling update, and unless the annotation was deleted by hand, no instance
\* manager stops a redis-server that serves slots.
THEOREM HandoverKeepsServing == Spec => []HandoverKeepsRunning
<1>1. PlanInv => HandoverKeepsRunning
  <2> SUFFICES ASSUME PlanInv, NEW p \in Owners, p \in fenced,
                      ~ (spent.unfences > 0), ~ Updates
               PROVE  handover.owner = p
    BY DEF HandoverKeepsRunning
  <2>1. spent.unfences \in Nat
    BY DEF PlanInv, PlanTyped
  <2>2. spent.unfences = 0
    BY <2>1
  <2> QED
    BY <2>2 DEF PlanInv, Orderly
<1> QED
  BY <1>1, Invariance, PTL

\* Whatever the courses, reconcilePods deletes a pod that served slots when
\* polled only if some instance did not answer, or if a rolling update has
\* just deleted one of the pods that stay.
THEOREM OwnersOutlive == Spec => OwnersOutliveScaleDown
<1> DEFINE Safe(p) == pc = "pods" /\ pod[p] # "absent" /\ pod'[p] = "absent"
                        => \/ p \notin served \/ silent # {}
                           \/ Updates /\ ~ (DOMAIN labels \subseteq Existing)
<1>1. ASSUME TypeFlat, PlanInv, [Next]_vars, NEW p \in Pod PROVE Safe(p)
  BY <1>1, OwnerKept
<1>2. (TypeFlat /\ PlanInv) /\ [Next]_vars => [\A p \in Pod : Safe(p)]_vars
  BY <1>1
<1> QED
  BY <1>2, Invariance, PTL DEF Spec, OwnersOutliveScaleDown
=============================================================================

-------------------------- MODULE ShardLayoutProofs -------------------------
(***************************************************************************)
(* Proofs about calculateClusterSlotRanges and planShardLayout, for every  *)
(* number of slots, shards and replicas and every set of pods: the ranges  *)
(* partition the slots, and a planned layout deletes no pod that leads a   *)
(* shard.  The layout is made by folds, and each fold is a recursive       *)
(* function: what it preserves follows by induction on the set folded      *)
(* over, from what one step preserves.                                     *)
(***************************************************************************)
EXTENDS ShardLayout, FiniteSetTheorems, WellFoundedInduction, TLAPS

-----------------------------------------------------------------------------
(* Lowest and highest elements *)

LEMMA LowestNat ==
    ASSUME NEW S \in SUBSET Nat, S # {}
    PROVE  Min(S) \in S /\ \A y \in S : Min(S) =< y
<1>1. PICK x \in S : \A y \in S : ~ (<<y, x>> \in OpToRel(<, Nat))
  BY NatLessThanWellFounded, WFMin, Zenon
<1>2. ASSUME NEW y \in S PROVE x =< y
  <2>1. x \in Nat /\ y \in Nat
    OBVIOUS
  <2>2. ~ (y < x)
    BY <1>1, <2>1, Zenon DEF OpToRel
  <2> QED
    BY <2>1, <2>2
<1> QED
  BY <1>2, Zenon DEF Min

LEMMA HighestNat ==
    ASSUME NEW S \in SUBSET Nat, S # {}, NEW b \in Nat, \A x \in S : x =< b
    PROVE  Max(S) \in S /\ \A y \in S : Max(S) >= y
<1> DEFINE T == {b - y : y \in S}
<1>1. T \subseteq Nat /\ T # {}
  <2>1. ASSUME NEW y \in S PROVE b - y \in Nat
    <3>1. y \in Nat /\ y =< b
      OBVIOUS
    <3> QED
      BY <3>1
  <2> QED
    BY <2>1, Zenon
<1>2. PICK t \in T : \A u \in T : ~ (<<u, t>> \in OpToRel(<, Nat))
  BY <1>1, NatLessThanWellFounded, WFMin, Zenon
<1>3. PICK x \in S : t = b - x
  BY <1>2, Zenon
<1>4. ASSUME NEW y \in S PROVE x >= y
  <2>1. x \in Nat /\ y \in Nat /\ b - y \in T /\ b - y \in Nat /\ b - x \in Nat
    BY <1>1
  <2>2. ~ (b - y < b - x)
    BY <1>2, <1>3, <2>1, Zenon DEF OpToRel
  <2> QED
    BY <2>1, <2>2
<1> QED
  BY <1>4, Zenon DEF Max

\* Induction over the subsets of a finite set: G holds every subset if it
\* holds those from which the removal of any element leads into G.
LEMMA SubsetInduction ==
    ASSUME NEW S, IsFiniteSet(S), NEW G,
           ASSUME NEW T \in SUBSET S, \A x \in T : T \ {x} \in G
           PROVE  T \in G
    PROVE  \A T \in SUBSET S : T \in G
<1> SUFFICES ASSUME NEW T0 \in SUBSET S, T0 \notin G PROVE FALSE
  OBVIOUS
<1> DEFINE Bad == {T \in SUBSET S : T \notin G}
           Sizes == {Cardinality(T) : T \in Bad}
<1>1. \A T \in SUBSET S : IsFiniteSet(T) /\ Cardinality(T) \in Nat
  BY FS_Subset, FS_CardinalityType
<1>2. Sizes \in SUBSET Nat /\ Sizes # {}
  BY <1>1
<1>3. PICK T \in Bad : \A U \in Bad : Cardinality(T) =< Cardinality(U)
  <2>1. Min(Sizes) \in Sizes /\ \A y \in Sizes : Min(Sizes) =< y
    <3> HIDE DEF Sizes
    <3> QED
      BY <1>2, LowestNat
  <2>2. PICK m \in Sizes : \A y \in Sizes : m =< y
    BY <2>1, Zenon
  <2>3. PICK T \in Bad : m = Cardinality(T)
    BY <2>2
  <2>4. ASSUME NEW U \in Bad PROVE m =< Cardinality(U)
    <3>1. Cardinality(U) \in Sizes
      OBVIOUS
    <3> HIDE DEF Sizes
    <3> QED
      BY <2>2, <3>1
  <2> QED
    BY <2>3, <2>4
<1>4. ASSUME NEW x \in T PROVE T \ {x} \in G
  <2>1. Cardinality(T \ {x}) = Cardinality(T) - 1 /\ T \ {x} \in SUBSET S
    BY <1>1, FS_RemoveElement, Zenon
  <2>2. Cardinality(T) \in Nat
    BY <1>1
  <2>3. T \ {x} \notin Bad
    BY <1>3, <2>1, <2>2
  <2> QED
    BY <2>1, <2>3
<1> QED
  BY <1>4

LEMMA HighestFinite ==
    ASSUME NEW S \in SUBSET Nat, IsFiniteSet(S), S # {}
    PROVE  Max(S) \in S /\ \A y \in S : Max(S) >= y
<1> DEFINE G == {T \in SUBSET S : \E b \in Nat : \A x \in T : x =< b}
<1>1. ASSUME NEW T \in SUBSET S, \A x \in T : T \ {x} \in G PROVE T \in G
  <2>1. CASE T = {}
    BY <2>1
  <2>2. ASSUME NEW x \in T PROVE T \in G
    <3>1. PICK b \in Nat : \A y \in T \ {x} : y =< b
      BY <1>1
    <3>2. b + x \in Nat /\ \A y \in T : y =< b + x
      BY <3>1
    <3> QED
      BY <3>2
  <2> QED
    BY <2>1, <2>2
<1>2. \A T \in SUBSET S : T \in G
  <2> HIDE DEF G
  <2> QED
    BY <1>1, SubsetInduction, Zenon
<1>3. PICK b \in Nat : \A x \in S : x =< b
  BY <1>2
<1> QED
  BY <1>3, HighestNat, Zenon

LEMMA InOrderMember ==
    ASSUME NEW S \in SUBSET Nat, IsFiniteSet(S), NEW i \in 1 .. Cardinality(S)
    PROVE  InOrder(S)[i] \in S
<1> DEFINE below(T, x) == {y \in T : y < x}
           G == {T \in SUBSET S : \A j \in 1 .. Cardinality(T) :
                   \E x \in T : Cardinality(below(T, x)) = j - 1}
<1>1. ASSUME NEW T \in SUBSET S, \A x \in T : T \ {x} \in G PROVE T \in G
  <2>1. IsFiniteSet(T)
    BY FS_Subset, Zenon
  <2>2. CASE T = {}
    <3>1. 1 .. Cardinality(T) = {}
      BY <2>2, FS_EmptySet
    <3> QED
      BY <3>1
  <2>3. CASE T # {}
    <3>1. PICK m \in T : \A y \in T : m >= y
      BY <2>1, <2>3, HighestFinite, Zenon
    <3> DEFINE U == T \ {m}
    <3>0. IsFiniteSet(U) /\ Cardinality(U) = Cardinality(T) - 1
      BY <2>1, FS_RemoveElement
    <3>2. PICK k \in Nat : k + 1 = Cardinality(T) /\ k = Cardinality(U)
      <4> HIDE DEF U
      <4>1. Cardinality(U) \in Nat /\ Cardinality(T) \in Nat
        BY <2>1, <3>0, FS_CardinalityType
      <4> QED
        BY <3>0, <4>1
    <3>3. below(T, m) = U
      <4>1. T \in SUBSET Nat
        OBVIOUS
      <4>2. ASSUME NEW y \in T PROVE y < m <=> y # m
        BY <3>1, <4>1
      <4> QED
        BY <4>1, <4>2, Zenon
    <3>4. ASSUME NEW j \in 1 .. k + 1
          PROVE  \E x \in T : Cardinality(below(T, x)) = j - 1
      <4>1. CASE j = k + 1
        <5>1. Cardinality(below(T, m)) = Cardinality(U)
          BY <3>3
        <5>2. Cardinality(below(T, m)) = j - 1
          <6> HIDE DEF below, U
          <6> QED
            BY <3>2, <4>1, <5>1
        <5> QED
          BY <5>2, Zenon
      <4>2. CASE j # k + 1
        <5>1. j \in 1 .. k /\ U \in G
          BY <1>1, <4>2
        <5>2. PICK x \in U : Cardinality(below(U, x)) = j - 1
          BY <3>2, <5>1, Zenon
        <5>3. below(U, x) = below(T, x)
          BY <3>1
        <5> QED
          BY <5>2, <5>3, Zenon
      <4> QED
        BY <4>1, <4>2
    <3> QED
      BY <3>2, <3>4, Zenon
  <2> QED
    BY <2>2, <2>3
<1>2. S \in G
  <2> HIDE DEF G
  <2>1. \A T \in SUBSET S : T \in G
    BY <1>1, SubsetInduction, Zenon
  <2> QED
    BY <2>1
<1>3. \E x \in S : Cardinality({y \in S : y < x}) = i - 1
  BY <1>2
<1> QED
  BY <1>3, Zenon DEF InOrder

-----------------------------------------------------------------------------
(* calculateClusterSlotRanges *)

\* The first slot of range j of n, and the one after the last for j = n.
Start(n, j) == j * (Slots \div n) + (IF j < Slots % n THEN j ELSE Slots % n)

LEMMA RangeIsInterval ==
    ASSUME NEW n, NEW i
    PROVE  SlotRange(n, i) = Start(n, i) .. Start(n, i + 1) - 1
BY DEF SlotRange, Start

LEMMA Starts ==
    ASSUME NEW n \in Nat \ {0}
    PROVE  /\ \A j \in 0 .. n : Start(n, j) \in Nat
           /\ Start(n, 0) = 0 /\ Start(n, n) = Slots
           /\ \A j \in 0 .. n - 1 : Start(n, j + 1) \in
                {Start(n, j) + Slots \div n, Start(n, j) + Slots \div n + 1}
           /\ \A j, k \in 0 .. n : j =< k => Start(n, j) =< Start(n, k)
<1>1. PICK b \in Nat, e \in Nat :
        b = Slots \div n /\ e = Slots % n /\ e < n /\ Slots = n * b + e
  BY SlotsAssumption
<1> DEFINE st(j) == j * b + (IF j < e THEN j ELSE e)
<1>2. \A j : Start(n, j) = st(j)
  BY <1>1 DEF Start
<1>3. ASSUME NEW j \in Nat, NEW k \in Nat, j =< k PROVE j * b =< k * b /\ j * b \in Nat
  <2>1. PICK d \in Nat : k = j + d
    BY <1>3
  <2>2. k * b = j * b + d * b /\ j * b \in Nat /\ d * b \in Nat
    BY <2>1
  <2> QED
    BY <2>2
<1>4. \A j \in 0 .. n : st(j) \in Nat
  <2> SUFFICES ASSUME NEW j \in 0 .. n PROVE st(j) \in Nat
    OBVIOUS
  <2>1. j * b \in Nat /\ j \in Nat
    BY <1>3
  <2> QED
    BY <2>1
<1>5. st(0) = 0 /\ st(n) = Slots
  BY <1>1
<1>6. \A j \in 0 .. n - 1 : st(j + 1) \in {st(j) + b, st(j) + b + 1}
  <2> SUFFICES ASSUME NEW j \in 0 .. n - 1
               PROVE  st(j + 1) \in {st(j) + b, st(j) + b + 1}
    OBVIOUS
  <2>1. PICK jb \in Nat : jb = j * b /\ (j + 1) * b = jb + b /\ j \in Nat
    BY <1>3
  <2> QED
    BY <2>1
<1>7. ASSUME NEW j \in 0 .. n, NEW k \in 0 .. n, j =< k PROVE st(j) =< st(k)
  <2>1. PICK jb \in Nat, kb \in Nat : jb = j * b /\ kb = k * b /\ jb =< kb
    BY <1>3, <1>7
  <2> QED
    BY <1>7, <2>1
<1> HIDE DEF st
<1> QED
  BY <1>1, <1>2, <1>4, <1>5, <1>6, <1>7

\* calculateClusterSlotRanges divides the slots among any number of shards:
\* each slot is in exactly one range, and no range has more than one slot
\* more than another.
THEOREM SlotRangesPartition ==
    ASSUME NEW n \in Nat \ {0}
    PROVE  /\ \A s \in Slot : \E i \in 0 .. n - 1 : s \in SlotRange(n, i)
           /\ \A i \in 0 .. n - 1 :
                /\ SlotRange(n, i) \subseteq Slot
                /\ Cardinality(SlotRange(n, i)) \in
                     {Slots \div n, Slots \div n + 1}
                /\ \A j \in 0 .. n - 1 :
                     i # j => SlotRange(n, i) \cap SlotRange(n, j) = {}
<1>1. ASSUME NEW s \in Slot PROVE \E i \in 0 .. n - 1 : s \in SlotRange(n, i)
  <2> DEFINE J == {j \in 1 .. n : s < Start(n, j)}
             m == Min(J)
  <2>1. n \in J /\ J \in SUBSET Nat
    BY Starts, SlotsAssumption DEF Slot
  <2>2. m \in J /\ \A j \in J : m =< j
    <3> HIDE DEF J
    <3> QED
      BY <2>1, LowestNat
  <2>3. m - 1 \notin J /\ m \in 1 .. n /\ s < Start(n, m)
    <3> HIDE DEF m
    <3> QED
      BY <2>2
  <2>4. Start(n, m - 1) =< s
    <3> HIDE DEF m
    <3>1. m - 1 \in 0 .. n /\ Start(n, m - 1) \in Nat
      BY <2>3, Starts
    <3>2. CASE m = 1
      BY <3>2, Starts DEF Slot
    <3>3. CASE m # 1
      BY <2>3, <3>1, <3>3, SlotsAssumption DEF Slot
    <3> QED
      BY <3>2, <3>3
  <2>5. s \in Start(n, m - 1) .. Start(n, m - 1 + 1) - 1
    <3> HIDE DEF m
    <3>1. m - 1 + 1 = m /\ m - 1 \in 0 .. n /\ m \in 0 .. n
      BY <2>3
    <3>2. Start(n, m - 1) \in Nat /\ Start(n, m) \in Nat
      BY <3>1, Starts
    <3> QED
      BY <2>3, <2>4, <3>1, <3>2 DEF Slot
  <2>6. m - 1 \in 0 .. n - 1
    <3> HIDE DEF m
    <3> QED
      BY <2>3
  <2>7. s \in SlotRange(n, m - 1)
    BY <2>5, RangeIsInterval, Zenon
  <2> QED
    BY <2>6, <2>7
<1>2. ASSUME NEW i \in 0 .. n - 1
      PROVE  /\ SlotRange(n, i) \subseteq Slot
             /\ Cardinality(SlotRange(n, i)) \in {Slots \div n, Slots \div n + 1}
  <2>1. PICK a \in Nat, b \in Nat, d \in Nat :
          /\ a = Start(n, i) /\ b = Start(n, i + 1) /\ d = Slots \div n
          /\ b \in {a + d, a + d + 1} /\ b =< Slots
    <3>1. i \in 0 .. n /\ i + 1 \in 0 .. n /\ i + 1 =< n /\ n \in 0 .. n
      OBVIOUS
    <3>2. Slots \div n \in Nat
      BY SlotsAssumption
    <3>3. Start(n, i) \in Nat /\ Start(n, i + 1) \in Nat
      BY <3>1, Starts
    <3>4. Start(n, i + 1) \in {Start(n, i) + Slots \div n, Start(n, i) + Slots \div n + 1}
      BY Starts
    <3>5. Start(n, i + 1) =< Slots
      BY <3>1, Starts
    <3> QED
      BY <3>2, <3>3, <3>4, <3>5
  <2>2. SlotRange(n, i) = a .. b - 1
    BY <2>1, RangeIsInterval
  <2>3. Cardinality(SlotRange(n, i)) \in {d, d + 1}
    <3>1. a \in Int /\ b - 1 \in Int
      BY <2>1
    <3>2. Cardinality(a .. b - 1) = IF a > b - 1 THEN 0 ELSE b - 1 - a + 1
      BY <3>1, FS_Interval
    <3>3. (IF a > b - 1 THEN 0 ELSE b - 1 - a + 1) \in {d, d + 1}
      BY <2>1
    <3> QED
      BY <2>2, <3>2, <3>3
  <2>4. a .. b - 1 \subseteq Slot
    BY <2>1, SlotsAssumption DEF Slot
  <2> QED
    BY <2>1, <2>2, <2>3, <2>4
<1>3. ASSUME NEW i \in 0 .. n - 1, NEW j \in 0 .. n - 1, i < j
      PROVE  SlotRange(n, i) \cap SlotRange(n, j) = {}
  <2>1. /\ Start(n, i + 1) =< Start(n, j)
        /\ \A k \in {i, i + 1, j, j + 1} : Start(n, k) \in Nat
    <3>1. i + 1 \in 0 .. n /\ j \in 0 .. n /\ i + 1 =< j /\ i \in 0 .. n /\ j + 1 \in 0 .. n
      BY <1>3
    <3> QED
      BY <3>1, Starts
  <2> QED
    BY <2>1, RangeIsInterval
<1>4. ASSUME NEW i \in 0 .. n - 1, NEW j \in 0 .. n - 1, i # j
      PROVE  SlotRange(n, i) \cap SlotRange(n, j) = {}
  <2>1. i < j \/ j < i
    BY <1>4
  <2> QED
    BY <1>3, <2>1
<1> QED
  BY <1>1, <1>2, <1>4

-----------------------------------------------------------------------------
(* Folds *)

\* The recursion of a fold over a finite set S, in the order in which pick
\* takes the elements out of it, has a solution.
Picks(pick, S)    == \A T \in SUBSET S : T # {} => pick[T] \in T
Steps(step, S, G) == \A x \in S : \A L \in G : step[x][L] \in G
Solves(g, S, base, pick, step) ==
    \A T \in SUBSET S :
      g[T] = IF T = {} THEN base ELSE step[pick[T]][g[T \ {pick[T]}]]
LEMMA FoldExists ==
    ASSUME NEW S, IsFiniteSet(S), NEW G, NEW base \in G,
           NEW pick, Picks(pick, S), NEW step, Steps(step, S, G)
    PROVE  \E g \in [SUBSET S -> G] : Solves(g, S, base, pick, step)
<1> DEFINE Val(g, T) == IF T = {} THEN base ELSE step[pick[T]][g[T \ {pick[T]}]]
           Upto(k) == \E g \in [SUBSET S -> G] : \A T \in SUBSET S :
                        Cardinality(T) =< k => g[T] = Val(g, T)
           Bad == {k \in Nat : ~ Upto(k)}
<1>1. \A T \in SUBSET S : IsFiniteSet(T) /\ Cardinality(T) \in Nat
  BY FS_Subset, FS_CardinalityType
<1>2. ASSUME NEW g \in [SUBSET S -> G], NEW T \in SUBSET S
      PROVE  Val(g, T) \in G
  BY DEF Picks, Steps
<1>3. Upto(0)
  <2>1. [T \in SUBSET S |-> base] \in [SUBSET S -> G]
    OBVIOUS
  <2>2. ASSUME NEW T \in SUBSET S, Cardinality(T) =< 0 PROVE T = {}
    <3>1. Cardinality(T) = 0
      BY <1>1, <2>2
    <3> QED
      BY <1>1, <3>1, FS_EmptySet
  <2> QED
    BY <2>1, <2>2, Zenon
<1>4. ASSUME NEW k \in Nat, Upto(k) PROVE Upto(k + 1)
  <2>1. PICK g \in [SUBSET S -> G] : \A T \in SUBSET S :
          Cardinality(T) =< k => g[T] = Val(g, T)
    BY <1>4, Zenon
  <2> DEFINE f == [T \in SUBSET S |-> IF Cardinality(T) = k + 1 THEN Val(g, T) ELSE g[T]]
  <2>2. f \in [SUBSET S -> G]
    BY <1>2, Zenon
  <2>3. ASSUME NEW T \in SUBSET S, Cardinality(T) =< k + 1 PROVE f[T] = Val(f, T)
    <3>1. CASE T = {}
      <4>1. Cardinality(T) = 0 /\ 0 # k + 1 /\ 0 =< k
        BY <3>1, FS_EmptySet
      <4> QED
        BY <2>1, <3>1, <4>1, Zenon
    <3>2. CASE T # {}
      <4>1. /\ pick[T] \in T /\ T \ {pick[T]} \in SUBSET S
            /\ Cardinality(T \ {pick[T]}) = Cardinality(T) - 1
        BY <1>1, <3>2, FS_RemoveElement, Zenon DEF Picks
      <4>2. f[T \ {pick[T]}] = g[T \ {pick[T]}]
        <5>1. PICK c \in Nat : c = Cardinality(T) /\ c =< k + 1
          BY <1>1, <2>3
        <5>2. Cardinality(T \ {pick[T]}) # k + 1
          BY <4>1, <5>1
        <5> QED
          BY <4>1, <5>2
      <4>3. f[T] = Val(g, T)
        <5>1. CASE Cardinality(T) = k + 1
          BY <5>1
        <5>2. CASE Cardinality(T) # k + 1
          <6>1. PICK c \in Nat : c = Cardinality(T)
            BY <1>1
          <6>2. c =< k + 1 /\ c # k + 1
            BY <2>3, <5>2, <6>1
          <6>3. Cardinality(T) =< k
            BY <6>1, <6>2
          <6> QED
            BY <2>1, <5>2, <6>3, Zenon
        <5> QED
          BY <5>1, <5>2
      <4> QED
        BY <3>2, <4>2, <4>3, Zenon
    <3> QED
      BY <3>1, <3>2, Zenon
  <2> QED
    BY <2>2, <2>3, Zenon
<1> HIDE DEF Upto
<1>5. Bad = {}
  <2> SUFFICES ASSUME Bad # {} PROVE FALSE
    OBVIOUS
  <2>1. PICK m \in Bad : \A y \in Bad : m =< y
    <3>1. Bad \in SUBSET Nat
      OBVIOUS
    <3> HIDE DEF Bad
    <3> QED
      BY <3>1, LowestNat, Zenon
  <2>2. m # 0
    BY <1>3
  <2>3. PICK k \in Nat : m = k + 1
    <3>1. m \in Nat /\ m - 1 \in Nat
      BY <2>2
    <3> QED
      BY <3>1
  <2>4. k \notin Bad
    <3> HIDE DEF Bad
    <3> QED
      BY <2>1, <2>3
  <2> QED
    BY <1>4, <2>3, <2>4
<1>6. Upto(Cardinality(S))
  BY <1>1, <1>5
<1> QED
  BY <1>1, <1>6, FS_Subset, Zenon DEF Upto, Solves

\* What a fold computes is in G if it starts there and each step stays there.
LEMMA FoldInduction ==
    ASSUME NEW S, IsFiniteSet(S), NEW G, NEW h, h[{}] \in G,
           \A T \in SUBSET S : T # {} => \E x \in T : h[T \ {x}] \in G => h[T] \in G
    PROVE  h[S] \in G
<1> DEFINE Good == {T \in SUBSET S : h[T] \in G}
<1>1. ASSUME NEW T \in SUBSET S, \A x \in T : T \ {x} \in Good PROVE T \in Good
  BY <1>1, Zenon
<1> HIDE DEF Good
<1>2. \A T \in SUBSET S : T \in Good
  BY <1>1, SubsetInduction, Zenon
<1> QED
  BY <1>2 DEF Good

-----------------------------------------------------------------------------
(* planShardLayout: what each step does to a layout of the pods in names,   *)
(* of which those in doomed are to be deleted.                              *)

Shards(names, n) == 0 .. n + Cardinality(names)
Layout(names, doomed, n) ==
    [shardOf : [names -> Shards(names, n) \cup {None}],
     primaryOf : [Shards(names, n) -> (names \ doomed) \cup {NoPod}],
     ownerOf : [Shards(names, n) -> names \cup {NoPod}],
     moves : {<< >>}]

\* A primary belongs to the shard it leads.
LeadsOwn(L) ==
    \A s \in DOMAIN L.primaryOf :
      L.primaryOf[s] # NoPod => L.shardOf[L.primaryOf[s]] = s

\* From L to M no pod loses the lead of its shard.
Keeps(L, M) == \A p \in DOMAIN L.shardOf : isPrimary(L, p) => isPrimary(M, p)

LEMMA ShardsFacts ==
    ASSUME NEW names \in SUBSET Nat, IsFiniteSet(names), NEW n \in Nat \ {0}
    PROVE  /\ Shards(names, n) \in SUBSET Nat /\ None \notin Shards(names, n)
           /\ 0 .. n - 1 \subseteq Shards(names, n) /\ NoPod \notin names
           /\ IsFiniteSet(Shards(names, n))
           /\ Cardinality(names) \in Nat
           /\ Cardinality(Shards(names, n)) = n + Cardinality(names) + 1
<1>1. PICK k \in Nat : k = Cardinality(names)
  BY FS_CardinalityType
<1>2. Shards(names, n) = 0 .. n + k
  BY <1>1 DEF Shards
<1>3. IsFiniteSet(0 .. n + k) /\ Cardinality(0 .. n + k) = n + k + 1
  <2>1. 0 \in Int /\ n + k \in Int /\ ~ (0 > n + k)
    OBVIOUS
  <2> QED
    BY <2>1, FS_Interval
<1> QED
  BY <1>1, <1>2, <1>3 DEF None, NoPod

LEMMA AssignTyped ==
    ASSUME NEW names, NEW doomed, NEW n, NEW L \in Layout(names, doomed, n),
           NEW p \in names, NEW s \in Shards(names, n), NEW lead \in BOOLEAN,
           lead => p \notin doomed, NEW M, M = Assign(L, p, s, lead)
    PROVE  /\ M \in Layout(names, doomed, n)
           /\ M.shardOf = [L.shardOf EXCEPT ![p] = s]
           /\ M.primaryOf = [L.primaryOf EXCEPT ![s] = IF lead THEN p ELSE @]
<1> DEFINE A == [names -> Shards(names, n) \cup {None}]
           B == [Shards(names, n) -> (names \ doomed) \cup {NoPod}]
           C == [Shards(names, n) -> names \cup {NoPod}]
           D == {<< >>}
<1>1. L \in [shardOf : A, primaryOf : B, ownerOf : C, moves : D]
  BY DEF Layout
<1>2. L.shardOf \in A /\ L.primaryOf \in B
  BY DEF Layout
<1>3. /\ [L.shardOf EXCEPT ![p] = s] \in A
      /\ [L.primaryOf EXCEPT ![s] = IF lead THEN p ELSE @] \in B
  BY <1>2
<1> HIDE DEF A, B, C, D
<1>4. Assign(L, p, s, lead).shardOf = [L.shardOf EXCEPT ![p] = s]
  BY <1>1 DEF Assign
<1>5. Assign(L, p, s, lead).primaryOf
        = [L.primaryOf EXCEPT ![s] = IF lead THEN p ELSE @]
  BY <1>1 DEF Assign
<1>6. Assign(L, p, s, lead) \in [shardOf : A, primaryOf : B, ownerOf : C, moves : D]
  BY <1>1, <1>3, Zenon DEF Assign
<1> QED
  BY <1>4, <1>5, <1>6 DEF Layout, A, B, C, D

\* A pod that leads no shard gets one, which it leads only if nobody does.
LEMMA AssignSound ==
    ASSUME NEW names \in SUBSET Nat, IsFiniteSet(names), NEW doomed,
           NEW n \in Nat \ {0},
           NEW L \in Layout(names, doomed, n), LeadsOwn(L),
           NEW p \in names, ~ isPrimary(L, p),
           NEW s \in Shards(names, n), NEW lead \in BOOLEAN,
           lead => p \notin doomed /\ L.primaryOf[s] = NoPod,
           NEW M, M = Assign(L, p, s, lead)
    PROVE  /\ M \in Layout(names, doomed, n) /\ LeadsOwn(M) /\ Keeps(L, M)
           /\ Assigned(M) = Assigned(L) \cup {p}
           /\ lead => isPrimary(M, p)
<1>1. /\ M \in Layout(names, doomed, n)
      /\ M.shardOf = [L.shardOf EXCEPT ![p] = s]
      /\ M.primaryOf = [L.primaryOf EXCEPT ![s] = IF lead THEN p ELSE @]
  BY AssignTyped
<1>2. /\ L.shardOf \in [names -> Shards(names, n) \cup {None}]
      /\ L.primaryOf \in [Shards(names, n) -> (names \ doomed) \cup {NoPod}]
      /\ DOMAIN L.shardOf = names /\ DOMAIN M.shardOf = names
      /\ DOMAIN L.primaryOf = Shards(names, n) /\ DOMAIN M.primaryOf = Shards(names, n)
  BY <1>1 DEF Layout
<1>3. None \notin Shards(names, n) /\ NoPod \notin names
  BY ShardsFacts
<1>4. \A t \in Shards(names, n) : L.primaryOf[t] # p
  BY <1>2, <1>3 DEF LeadsOwn, isPrimary
<1>5. ASSUME NEW t \in Shards(names, n), M.primaryOf[t] # NoPod
      PROVE  M.shardOf[M.primaryOf[t]] = t
  <2>1. CASE t = s /\ lead
    BY <1>1, <1>2, <2>1
  <2>2. CASE ~ (t = s /\ lead)
    <3>1. M.primaryOf[t] = L.primaryOf[t]
      BY <1>1, <1>2, <2>2
    <3> QED
      BY <1>1, <1>2, <1>4, <1>5, <3>1 DEF LeadsOwn
  <2> QED
    BY <2>1, <2>2
<1>6. ASSUME NEW q \in names, isPrimary(L, q) PROVE isPrimary(M, q)
  <2>1. q # p /\ M.shardOf[q] = L.shardOf[q] /\ L.shardOf[q] \in Shards(names, n)
    BY <1>1, <1>2, <1>6 DEF isPrimary
  <2>2. M.primaryOf[L.shardOf[q]] = q
    BY <1>1, <1>2, <1>3, <1>6, <2>1 DEF isPrimary
  <2> QED
    BY <1>6, <2>1, <2>2 DEF isPrimary
<1>7. Assigned(M) = Assigned(L) \cup {p}
  BY <1>1, <1>2, <1>3 DEF Assigned
<1>8. lead => isPrimary(M, p)
  BY <1>1, <1>2, <1>3 DEF isPrimary
<1> QED
  BY <1>1, <1>2, <1>5, <1>6, <1>7, <1>8, Zenon DEF LeadsOwn, Keeps

LEMMA ClaimTyped ==
    ASSUME NEW names, NEW doomed, NEW n, NEW L \in Layout(names, doomed, n),
           NEW p \in names, NEW s \in Shards(names, n),
           NEW lead \in BOOLEAN, lead <=> p \notin doomed,
           NEW M, M = Assign(L, p, s, lead), NEW N, N = Claim(L, p, s, doomed)
    PROVE  /\ N \in Layout(names, doomed, n)
           /\ N.shardOf = M.shardOf /\ N.primaryOf = M.primaryOf
<1> DEFINE A == [names -> Shards(names, n) \cup {None}]
           B == [Shards(names, n) -> (names \ doomed) \cup {NoPod}]
           C == [Shards(names, n) -> names \cup {NoPod}]
           D == {<< >>}
<1>0. M \in Layout(names, doomed, n)
  BY AssignTyped, Zenon
<1>2. N = [M EXCEPT !.ownerOf[s] = p]
  BY DEF Claim
<1>3. M \in [shardOf : A, primaryOf : B, ownerOf : C, moves : D]
  BY <1>0 DEF Layout
<1>4. [M.ownerOf EXCEPT ![s] = p] \in C
  BY <1>3
<1> HIDE DEF A, B, C, D
<1>5. [M EXCEPT !.ownerOf[s] = p] \in [shardOf : A, primaryOf : B, ownerOf : C, moves : D]
  BY <1>3, <1>4
<1>6. /\ [M EXCEPT !.ownerOf[s] = p].shardOf = M.shardOf
      /\ [M EXCEPT !.ownerOf[s] = p].primaryOf = M.primaryOf
  BY <1>3
<1> QED
  BY <1>2, <1>5, <1>6 DEF Layout, A, B, C, D

\* A pod without a shard claims one that no pod belongs to.
LEMMA ClaimSound ==
    ASSUME NEW names \in SUBSET Nat, IsFiniteSet(names), NEW doomed,
           NEW n \in Nat \ {0},
           NEW L \in Layout(names, doomed, n), LeadsOwn(L),
           NEW p \in names, p \notin Assigned(L),
           NEW s \in Shards(names, n), s \notin Range(L.shardOf),
           NEW N, N = Claim(L, p, s, doomed)
    PROVE  /\ N \in Layout(names, doomed, n) /\ LeadsOwn(N) /\ Keeps(L, N)
           /\ Assigned(N) = Assigned(L) \cup {p}
           /\ p \notin doomed => isPrimary(N, p)
<1>0. PICK lead \in BOOLEAN : lead <=> p \notin doomed
  BY Zenon
<1> DEFINE M == Assign(L, p, s, lead)
<1>1. /\ N \in Layout(names, doomed, n)
      /\ N.shardOf = M.shardOf /\ N.primaryOf = M.primaryOf
  <2> HIDE DEF M
  <2>1. M = Assign(L, p, s, lead)
    BY DEF M
  <2> QED
    BY <1>0, <2>1, ClaimTyped
<1>2. ~ isPrimary(L, p)
  BY DEF Assigned, isPrimary, Layout
<1>3. L.primaryOf[s] = NoPod
  <2>1. L.primaryOf[s] \in names \cup {NoPod} /\ DOMAIN L.shardOf = names
        /\ s \in DOMAIN L.primaryOf
    BY DEF Layout
  <2> QED
    BY <2>1 DEF LeadsOwn, Range
<1>4. /\ LeadsOwn(M) /\ Keeps(L, M) /\ Assigned(M) = Assigned(L) \cup {p}
      /\ p \notin doomed => isPrimary(M, p)
  BY <1>0, <1>2, <1>3, AssignSound
<1> HIDE DEF M
<1>5. LeadsOwn(N) /\ Assigned(N) = Assigned(M) /\ \A q : isPrimary(N, q) = isPrimary(M, q)
  BY <1>1, <1>4 DEF LeadsOwn, Assigned, isPrimary
<1> QED
  BY <1>1, <1>4, <1>5 DEF Keeps

\* There are more shards than pods: some shard is nobody's.
LEMMA UnusedShard ==
    ASSUME NEW names \in SUBSET Nat, IsFiniteSet(names), NEW doomed,
           NEW n \in Nat \ {0}, NEW L \in Layout(names, doomed, n),
           NEW s, s = Min(DOMAIN L.ownerOf \ Range(L.shardOf))
    PROVE  s \in Shards(names, n) /\ s \notin Range(L.shardOf)
<1> DEFINE K == Shards(names, n)
           U == K \ Range(L.shardOf)
<1>1. DOMAIN L.ownerOf = K /\ DOMAIN L.shardOf = names
  BY DEF Layout
<1>2. U # {}
  <2> SUFFICES ASSUME U = {} PROVE FALSE
    OBVIOUS
  <2> DEFINE f == [k \in K |-> CHOOSE p \in names : L.shardOf[p] = k]
  <2>1. ASSUME NEW k \in K PROVE f[k] \in names /\ L.shardOf[f[k]] = k
    <3>1. \E p \in names : L.shardOf[p] = k
      BY <1>1 DEF Range
    <3> QED
      BY <3>1
  <2>2. f \in [K -> names]
    BY <2>1
  <2>3. IsFiniteSet(K) /\ Cardinality(names) < Cardinality(K)
    BY ShardsFacts
  <2> HIDE DEF f, K
  <2>4. \E x, y \in K : x # y /\ f[x] = f[y]
    BY <2>2, <2>3, FS_PigeonHole
  <2> QED
    BY <2>1, <2>4
<1>3. U \in SUBSET Nat
  BY ShardsFacts
<1>4. Min(U) \in U
  <2> HIDE DEF U
  <2> QED
    BY <1>2, <1>3, LowestNat, Zenon
<1> QED
  BY <1>1, <1>4

\* A total and transitive relation on a finite set has a last element.
LEMMA LastExists ==
    ASSUME NEW S, IsFiniteSet(S), NEW R,
           \A x, y \in S : <<x, y>> \in R \/ <<y, x>> \in R,
           \A x, y, z \in S : <<x, y>> \in R /\ <<y, z>> \in R => <<x, z>> \in R
    PROVE  \A T \in SUBSET S : T # {} => \E m \in T : \A k \in T : <<k, m>> \in R
<1> DEFINE G == {T \in SUBSET S : T # {} => \E m \in T : \A k \in T : <<k, m>> \in R}
<1>1. ASSUME NEW T \in SUBSET S, \A x \in T : T \ {x} \in G PROVE T \in G
  <2> SUFFICES ASSUME NEW x \in T PROVE \E m \in T : \A k \in T : <<k, m>> \in R
    OBVIOUS
  <2>1. CASE T \ {x} = {}
    <3>1. \A k \in T : <<k, x>> \in R
      BY <2>1
    <3> QED
      BY <3>1
  <2>2. CASE T \ {x} # {}
    <3>1. PICK m \in T \ {x} : \A k \in T \ {x} : <<k, m>> \in R
      BY <1>1, <2>2
    <3>2. CASE <<x, m>> \in R
      BY <3>1, <3>2
    <3>3. CASE <<m, x>> \in R
      <4>1. \A k \in T : <<k, x>> \in R
        BY <3>1, <3>3, Zenon
      <4> QED
        BY <4>1
    <3> QED
      BY <3>2, <3>3
  <2> QED
    BY <2>1, <2>2
<1> HIDE DEF G
<1>2. \A T \in SUBSET S : T \in G
  BY <1>1, SubsetInduction, Zenon
<1> QED
  BY <1>2 DEF G

\* rankOwnersByOverlap orders the pairs of an owner and a range.
LEMMA MatchesHaveLast ==
    ASSUME NEW names \in SUBSET Nat, NEW n \in Nat \ {0}, NEW st,
           NEW S \in SUBSET (names \X (0 .. n - 1)), IsFiniteSet(S),
           NEW T \in SUBSET S, T # {}
    PROVE  \E m \in T : \A k \in T : Before(k, m, n, st)
<1> DEFINE ov(m) == Cardinality(st[m[1]].slots \cap SlotRange(n, m[2]))
           R == {x \in S \X S : Before(x[1], x[2], n, st)}
<1>1. ASSUME NEW m \in S PROVE ov(m) \in Nat /\ m[1] \in Nat /\ m[2] \in Nat
  <2>1. m[1] \in Nat /\ m[2] \in 0 .. n - 1
    BY Zenon
  <2>2. IsFiniteSet(SlotRange(n, m[2]))
    <3>1. m[2] \in 0 .. n /\ m[2] + 1 \in 0 .. n
      BY <2>1
    <3>2. Start(n, m[2]) \in Int /\ Start(n, m[2] + 1) - 1 \in Int
      BY <3>1, Starts
    <3> QED
      BY <3>2, FS_Interval, RangeIsInterval
  <2>3. IsFiniteSet(st[m[1]].slots \cap SlotRange(n, m[2]))
    BY <2>2, FS_Intersection, Zenon
  <2>4. ov(m) \in Nat
    BY <2>3, FS_CardinalityType
  <2> QED
    BY <2>1, <2>4
<1>2. ASSUME NEW a, NEW b
      PROVE  Before(a, b, n, st) <=>
               \/ ov(a) > ov(b)
               \/ ov(a) = ov(b) /\ a[2] < b[2]
               \/ ov(a) = ov(b) /\ a[2] = b[2] /\ a[1] <= b[1]
  BY DEF Before
<1> HIDE DEF ov
<1>3. ASSUME NEW x \in S, NEW y \in S
      PROVE  Before(x, y, n, st) \/ Before(y, x, n, st)
  BY <1>1, <1>2
<1>4. ASSUME NEW x \in S, NEW y \in S, NEW z \in S,
             Before(x, y, n, st), Before(y, z, n, st)
      PROVE  Before(x, z, n, st)
  <2>1. \A m \in {x, y, z} : ov(m) \in Nat /\ m[1] \in Nat /\ m[2] \in Nat
    BY <1>1
  <2> QED
    BY <1>2, <1>4, <2>1
<1>5. \A x, y \in S : <<x, y>> \in R <=> Before(x, y, n, st)
  OBVIOUS
<1> HIDE DEF R
<1>6. \E m \in T : \A k \in T : <<k, m>> \in R
  <2>1. \A x, y \in S : <<x, y>> \in R \/ <<y, x>> \in R
    BY <1>3, <1>5, Zenon
  <2>2. \A x, y, z \in S : <<x, y>> \in R /\ <<y, z>> \in R => <<x, z>> \in R
    BY <1>4, <1>5
  <2>3. \A U \in SUBSET S : U # {} => \E m \in U : \A k \in U : <<k, m>> \in R
    BY <2>1, <2>2, LastExists, Zenon
  <2> QED
    BY <2>3
<1> QED
  BY <1>5, <1>6, Zenon

-----------------------------------------------------------------------------
(* ClaimOwners: a pod that has a shard and stays leads it. *)

Led(L, doomed) == \A p \in Assigned(L) : p \in doomed \/ isPrimary(L, p)
LedLayout(names, doomed, n) ==
    {L \in Layout(names, doomed, n) : LeadsOwn(L) /\ Led(L, doomed)}

LEMMA ClaimLed ==
    ASSUME NEW names \in SUBSET Nat, IsFiniteSet(names), NEW doomed,
           NEW n \in Nat \ {0},
           NEW L \in LedLayout(names, doomed, n),
           NEW p \in names, p \notin Assigned(L),
           NEW s \in Shards(names, n), s \notin Range(L.shardOf),
           NEW N, N = Claim(L, p, s, doomed)
    PROVE  N \in LedLayout(names, doomed, n) /\ Assigned(N) = Assigned(L) \cup {p}
<1>1. L \in Layout(names, doomed, n) /\ LeadsOwn(L) /\ Led(L, doomed)
  BY DEF LedLayout
<1>2. /\ N \in Layout(names, doomed, n) /\ LeadsOwn(N) /\ Keeps(L, N)
      /\ Assigned(N) = Assigned(L) \cup {p}
      /\ p \notin doomed => isPrimary(N, p)
  BY <1>1, ClaimSound
<1>3. Led(N, doomed)
  BY <1>1, <1>2 DEF Led, Keeps, Assigned
<1> QED
  BY <1>2, <1>3 DEF LedLayout

LEMMA MatchLed ==
    ASSUME NEW names \in SUBSET Nat, IsFiniteSet(names), NEW doomed,
           NEW n \in Nat \ {0},
           NEW L \in LedLayout(names, doomed, n),
           NEW m \in names \X (0 .. n - 1)
    PROVE  ClaimMatch(m, L, doomed) \in LedLayout(names, doomed, n)
<1>1. m[1] \in names /\ m[2] \in Shards(names, n)
  BY ShardsFacts
<1>2. CASE m[1] \in Assigned(L) \/ m[2] \in Range(L.shardOf)
  BY <1>2 DEF ClaimMatch
<1>3. CASE ~ (m[1] \in Assigned(L) \/ m[2] \in Range(L.shardOf))
  BY <1>1, <1>3, ClaimLed, Zenon DEF ClaimMatch
<1> QED
  BY <1>2, <1>3

lastMatch(T, n, st) == CHOOSE m \in T : \A k \in T : Before(k, m, n, st)
MatchFold(L0, S, doomed, n, st) ==
    CHOOSE f : f = [T \in SUBSET S |-> IF T = {} THEN L0
                      ELSE ClaimMatch(lastMatch(T, n, st),
                                      f[T \ {lastMatch(T, n, st)}], doomed)]
LEMMA MatchFoldLed ==
    ASSUME NEW names \in SUBSET Nat, IsFiniteSet(names), NEW doomed,
           NEW n \in Nat \ {0}, NEW st,
           NEW S \in SUBSET (names \X (0 .. n - 1)),
           NEW L0 \in LedLayout(names, doomed, n)
    PROVE  MatchFold(L0, S, doomed, n, st)[S] \in LedLayout(names, doomed, n)
<1> DEFINE G == LedLayout(names, doomed, n)
           last(T) == lastMatch(T, n, st)
           pick == [T \in SUBSET S |-> last(T)]
           step == [m \in S |-> [L \in G |-> ClaimMatch(m, L, doomed)]]
           body(f) == [T \in SUBSET S |-> IF T = {} THEN L0
                         ELSE ClaimMatch(last(T), f[T \ {last(T)}], doomed)]
           h == CHOOSE f : f = body(f)
<1>1. IsFiniteSet(S)
  <2>1. IsFiniteSet(0 .. n - 1)
    BY FS_Interval
  <2>2. IsFiniteSet(names \X (0 .. n - 1))
    BY <2>1, FS_Product
  <2> QED
    BY <2>2, FS_Subset
<1>2. ASSUME NEW T \in SUBSET S, T # {} PROVE last(T) \in T
  <2>1. \E m \in T : \A k \in T : Before(k, m, n, st)
    BY <1>1, <1>2, MatchesHaveLast, Zenon
  <2> QED
    BY <2>1 DEF lastMatch
<1>3. ASSUME NEW m \in S, NEW L \in G PROVE ClaimMatch(m, L, doomed) \in G
  BY MatchLed
<1> HIDE DEF G, last
<1>4. PICK g \in [SUBSET S -> G] : Solves(g, S, L0, pick, step)
  <2>1. Picks(pick, S) /\ Steps(step, S, G)
    BY <1>2, <1>3 DEF Picks, Steps
  <2>2. L0 \in G
    BY DEF G
  <2> HIDE DEF pick, step
  <2> QED
    BY <1>1, <2>1, <2>2, FoldExists, Zenon
<1>5. g = body(g)
  <2>1. ASSUME NEW T \in SUBSET S
        PROVE  g[T] = IF T = {} THEN L0 ELSE ClaimMatch(last(T), g[T \ {last(T)}], doomed)
    <3>1. CASE T = {}
      BY <1>4, <3>1, Zenon DEF Solves
    <3>2. CASE T # {}
      <4>1. last(T) \in S /\ g[T \ {last(T)}] \in G
        BY <1>2, <3>2
      <4> QED
        BY <1>4, <3>2, <4>1, Zenon DEF Solves
    <3> QED
      BY <3>1, <3>2
  <2> QED
    BY <2>1
<1>6. h = body(h)
  <2> HIDE DEF body
  <2> QED
    BY <1>5
<1>7. h[S] \in G
  <2> HIDE DEF h
  <2>1. h[{}] = L0
    BY <1>6
  <2>2. ASSUME NEW T \in SUBSET S, T # {}
        PROVE  \E x \in T : h[T \ {x}] \in G => h[T] \in G
    <3>1. last(T) \in T /\ h[T] = ClaimMatch(last(T), h[T \ {last(T)}], doomed)
      BY <1>2, <1>6, <2>2, Zenon
    <3>2. h[T \ {last(T)}] \in G => h[T] \in G
      BY <1>3, <3>1
    <3> QED
      BY <3>1, <3>2, Zenon
  <2>3. L0 \in G
    BY DEF G
  <2> QED
    BY <1>1, <2>1, <2>2, <2>3, FoldInduction, Zenon
<1> QED
  BY <1>7 DEF MatchFold, h, body, last, G

-----------------------------------------------------------------------------
(* Types of the other steps *)

LEMMA UnusedTyped ==
    ASSUME NEW names \in SUBSET Nat, IsFiniteSet(names), NEW doomed,
           NEW n \in Nat \ {0}, NEW L \in Layout(names, doomed, n), NEW p \in names
    PROVE  ClaimUnused(p, L, doomed) \in Layout(names, doomed, n)
<1>1. PICK s : s = Min(DOMAIN L.ownerOf \ Range(L.shardOf))
  OBVIOUS
<1>2. s \in Shards(names, n)
  BY <1>1, UnusedShard
<1>3. PICK lead \in BOOLEAN : lead <=> p \notin doomed
  BY Zenon
<1>4. PICK M : M = Assign(L, p, s, lead)
  OBVIOUS
<1>5. PICK N : N = Claim(L, p, s, doomed)
  OBVIOUS
<1>6. N \in Layout(names, doomed, n)
  BY <1>2, <1>3, <1>4, <1>5, ClaimTyped
<1> QED
  BY <1>1, <1>5, <1>6 DEF ClaimUnused

\* A pod that is placed follows a shard of its own choice, or stays free.
LEMMA PlaceForm ==
    ASSUME NEW names \in SUBSET Nat, IsFiniteSet(names), NEW doomed,
           NEW n \in Nat \ {0}, NEW lbl, NEW st,
           NEW L \in Layout(names, doomed, n), NEW p \in names,
           NEW M, M = Place(p, L, names, doomed, n, lbl, st)
    PROVE  \/ M = L
           \/ \E s \in Shards(names, n), lead \in BOOLEAN :
                /\ lead => p \notin doomed /\ L.primaryOf[s] = NoPod
                /\ M = Assign(L, p, s, lead)
<1> DEFINE s == IF st[p].role = "slave" /\ st[p].of \in names /\ st[st[p].of].connected
                THEN L.shardOf[st[p].of] ELSE None
           observable == st[p].connected /\ (st[p].role = "slave" => st[p].of # NoPod)
           l == lbl[p]
<1>1. s # None => s \in Shards(names, n)
  BY DEF Layout
<1>2. l.shard \in 0 .. n - 1 => l.shard \in Shards(names, n)
  BY ShardsFacts
<1>3. M = IF s # None
          THEN Assign(L, p, s, L.primaryOf[s] = NoPod /\ p \notin doomed)
          ELSE IF ~ observable /\ l.shard \in 0 .. n - 1
          THEN Assign(L, p, l.shard,
                      l.primary /\ L.primaryOf[l.shard] = NoPod /\ p \notin doomed)
          ELSE L
  BY DEF Place
<1> HIDE DEF s, observable, l
<1>4. CASE s # None
  <2>1. PICK lead \in BOOLEAN : lead <=> L.primaryOf[s] = NoPod /\ p \notin doomed
    BY Zenon
  <2>2. M = Assign(L, p, s, lead)
    BY <1>3, <1>4, <2>1
  <2> QED
    BY <1>1, <1>4, <2>1, <2>2
<1>5. CASE s = None /\ ~ observable /\ l.shard \in 0 .. n - 1
  <2>1. PICK lead \in BOOLEAN :
          lead <=> (l.primary /\ L.primaryOf[l.shard] = NoPod /\ p \notin doomed)
    BY Zenon
  <2>2. M = Assign(L, p, l.shard, lead)
    BY <1>3, <1>5, <2>1
  <2> QED
    BY <1>2, <1>5, <2>1, <2>2
<1>6. CASE s = None /\ ~ (~ observable /\ l.shard \in 0 .. n - 1)
  BY <1>3, <1>6
<1> QED
  BY <1>4, <1>5, <1>6

LEMMA PlaceTyped ==
    ASSUME NEW names \in SUBSET Nat, IsFiniteSet(names), NEW doomed,
           NEW n \in Nat \ {0}, NEW lbl, NEW st,
           NEW L \in Layout(names, doomed, n), NEW p \in names
    PROVE  Place(p, L, names, doomed, n, lbl, st) \in Layout(names, doomed, n)
<1>1. PICK M : M = Place(p, L, names, doomed, n, lbl, st)
  OBVIOUS
<1>2. CASE M = L
  BY <1>1, <1>2
<1>3. ASSUME NEW s \in Shards(names, n), NEW lead \in BOOLEAN, lead => p \notin doomed,
             M = Assign(L, p, s, lead)
      PROVE  M \in Layout(names, doomed, n)
  BY <1>3, AssignTyped, Zenon
<1>4. M = L \/ \E s \in Shards(names, n), lead \in BOOLEAN :
                 /\ lead => p \notin doomed /\ L.primaryOf[s] = NoPod
                 /\ M = Assign(L, p, s, lead)
  BY <1>1, PlaceForm
<1> QED
  BY <1>1, <1>2, <1>3, <1>4

LEMMA FillForm ==
    ASSUME NEW names \in SUBSET Nat, IsFiniteSet(names), NEW doomed,
           NEW n \in Nat \ {0},
           NEW L \in Layout(names, doomed, n), NEW s \in 0 .. n - 1,
           NEW M, M = Fill(s, L, names, doomed)
    PROVE  \/ M = L
           \/ \E p \in names, lead \in BOOLEAN :
                /\ p \notin doomed /\ p \notin Assigned(L) /\ L.primaryOf[s] = NoPod
                /\ M = Assign(L, p, s, lead)
<1> DEFINE free == names \ (Assigned(L) \cup doomed)
<1>1. CASE L.primaryOf[s] # NoPod \/ free = {}
  BY <1>1, Zenon DEF Fill
<1>2. CASE L.primaryOf[s] = NoPod /\ free # {}
  <2>1. Min(free) \in free
    <3>1. free \in SUBSET Nat
      BY Zenon
    <3> HIDE DEF free
    <3> QED
      BY <1>2, <3>1, LowestNat
  <2>2. M = Assign(L, Min(free), s, TRUE)
    BY <1>2, Zenon DEF Fill
  <2>3. PICK lead \in BOOLEAN : lead
    BY Zenon
  <2>4. M = Assign(L, Min(free), s, lead)
    BY <2>2, <2>3
  <2> QED
    BY <1>2, <2>1, <2>4, Zenon
<1> QED
  BY <1>1, <1>2

LEMMA FillTyped ==
    ASSUME NEW names \in SUBSET Nat, IsFiniteSet(names), NEW doomed,
           NEW n \in Nat \ {0},
           NEW L \in Layout(names, doomed, n), NEW s \in 0 .. n - 1
    PROVE  Fill(s, L, names, doomed) \in Layout(names, doomed, n)
<1>1. PICK M : M = Fill(s, L, names, doomed)
  OBVIOUS
<1>2. CASE M = L
  BY <1>1, <1>2
<1>3. ASSUME NEW p \in names, NEW lead \in BOOLEAN, p \notin doomed,
             M = Assign(L, p, s, lead)
      PROVE  M \in Layout(names, doomed, n)
  <2>1. s \in Shards(names, n)
    BY ShardsFacts
  <2> QED
    BY <1>3, <2>1, AssignTyped, Zenon
<1>4. M = L \/ \E p \in names, lead \in BOOLEAN :
        /\ p \notin doomed /\ p \notin Assigned(L) /\ L.primaryOf[s] = NoPod
        /\ M = Assign(L, p, s, lead)
  BY <1>1, FillForm
<1> QED
  BY <1>1, <1>2, <1>3, <1>4

LEMMA SpareSurvivorForm ==
    ASSUME NEW names \in SUBSET Nat, NEW doomed, NEW n,
           NEW L \in Layout(names, doomed, n), NEW h \in spareSurvivor(L, doomed)
    PROVE  h \in names /\ h \notin doomed /\ ~ isPrimary(L, h)
<1> DEFINE spare(s) == {p \in Members(L, s) : p # L.primaryOf[s]} \ doomed
<1>1. PICK s \in DOMAIN L.ownerOf : spare(s) # {} /\ h = Min(spare(s))
  BY DEF spareSurvivor
<1>2. spare(s) \in SUBSET names
  BY DEF Members, Layout
<1>3. Min(spare(s)) \in spare(s)
  <2> HIDE DEF spare
  <2> QED
    BY <1>1, <1>2, LowestNat
<1>4. h \in Members(L, s) /\ h # L.primaryOf[s] /\ h \notin doomed
  BY <1>1, <1>3
<1> QED
  BY <1>1, <1>2, <1>3, <1>4, Zenon DEF Members, isPrimary

LEMMA AppointForm ==
    ASSUME NEW names \in SUBSET Nat, IsFiniteSet(names), NEW doomed,
           NEW n \in Nat \ {0},
           NEW L \in Layout(names, doomed, n), NEW M \in Appoint(L, doomed, n)
    PROVE  \/ M = L
           \/ \E p \in names, s \in Shards(names, n), lead \in BOOLEAN :
                /\ p \notin doomed /\ ~ isPrimary(L, p) /\ L.primaryOf[s] = NoPod
                /\ M = Assign(L, p, s, lead)
<1> DEFINE needs == {s \in 0 .. n - 1 : L.primaryOf[s] = NoPod /\ L.ownerOf[s] # NoPod}
<1>1. CASE needs = {} \/ spareSurvivor(L, doomed) = {}
  BY <1>1, Zenon DEF Appoint
<1>2. CASE ~ (needs = {} \/ spareSurvivor(L, doomed) = {})
  <2>1. PICK h \in spareSurvivor(L, doomed) : M = Assign(L, h, Min(needs), TRUE)
    BY <1>2, Zenon DEF Appoint
  <2>2. Min(needs) \in needs
    <3>1. needs \in SUBSET Nat
      OBVIOUS
    <3> HIDE DEF needs
    <3> QED
      BY <1>2, <3>1, LowestNat
  <2>3. PICK lead \in BOOLEAN : lead
    BY Zenon
  <2>4. M = Assign(L, h, Min(needs), lead)
    BY <2>1, <2>3
  <2>5. h \in names /\ h \notin doomed /\ ~ isPrimary(L, h)
    BY SpareSurvivorForm
  <2>6. Min(needs) \in Shards(names, n) /\ L.primaryOf[Min(needs)] = NoPod
    BY <2>2, ShardsFacts
  <2> HIDE DEF needs
  <2> QED
    BY <2>4, <2>5, <2>6
<1> QED
  BY <1>1, <1>2

LEMMA JoinForm ==
    ASSUME NEW names \in SUBSET Nat, IsFiniteSet(names), NEW doomed,
           NEW n \in Nat \ {0},
           NEW L \in Layout(names, doomed, n), NEW p \in names,
           NEW M, M = Join(p, L, n)
    PROVE  \E s \in Shards(names, n), lead \in BOOLEAN :
             ~ lead /\ M = Assign(L, p, s, lead)
<1> DEFINE size(s) == Cardinality(Members(L, s))
           smallest == {s \in 0 .. n - 1 : \A t \in 0 .. n - 1 : size(s) <= size(t)}
           sizes == {size(s) : s \in 0 .. n - 1}
<1>1. ASSUME NEW s PROVE size(s) \in Nat
  <2>1. Members(L, s) \in SUBSET names
    BY DEF Members, Layout
  <2> QED
    BY <2>1, FS_Subset, FS_CardinalityType
<1>2. sizes \in SUBSET Nat /\ sizes # {}
  <2>1. 0 \in 0 .. n - 1
    OBVIOUS
  <2> HIDE DEF size
  <2> QED
    BY <1>1, <2>1
<1>3. PICK m \in sizes : \A k \in sizes : m =< k
  <2> HIDE DEF sizes
  <2> QED
    BY <1>2, LowestNat, Zenon
<1>4. smallest # {}
  <2> HIDE DEF size
  <2> QED
    BY <1>3
<1>5. Min(smallest) \in smallest
  <2>1. smallest \in SUBSET Nat
    OBVIOUS
  <2> HIDE DEF smallest
  <2> QED
    BY <1>4, <2>1, LowestNat
<1>6. Min(smallest) \in Shards(names, n)
  BY <1>5, ShardsFacts
<1>7. M = Assign(L, p, Min(smallest), FALSE)
  BY DEF Join
<1>8. PICK lead \in BOOLEAN : ~ lead
  BY Zenon
<1>9. M = Assign(L, p, Min(smallest), lead)
  BY <1>7, <1>8, Zenon
<1> HIDE DEF smallest
<1> QED
  BY <1>6, <1>8, <1>9

LEMMA AppointTyped ==
    ASSUME NEW names \in SUBSET Nat, IsFiniteSet(names), NEW doomed,
           NEW n \in Nat \ {0},
           NEW Ls \in SUBSET Layout(names, doomed, n)
    PROVE  UNION {Appoint(L, doomed, n) : L \in Ls} \in SUBSET Layout(names, doomed, n)
<1> SUFFICES ASSUME NEW L \in Ls, NEW M \in Appoint(L, doomed, n)
             PROVE  M \in Layout(names, doomed, n)
  OBVIOUS
<1>1. ASSUME NEW p \in names, NEW s \in Shards(names, n), NEW lead \in BOOLEAN,
             p \notin doomed, M = Assign(L, p, s, lead)
      PROVE  M \in Layout(names, doomed, n)
  BY <1>1, AssignTyped, Zenon
<1>2. \/ M = L
      \/ \E p \in names, s \in Shards(names, n), lead \in BOOLEAN :
           p \notin doomed /\ M = Assign(L, p, s, lead)
  BY AppointForm
<1> QED
  BY <1>1, <1>2

LEMMA JoinTyped ==
    ASSUME NEW names \in SUBSET Nat, IsFiniteSet(names), NEW doomed,
           NEW n \in Nat \ {0},
           NEW L \in Layout(names, doomed, n), NEW p \in names
    PROVE  Join(p, L, n) \in Layout(names, doomed, n)
<1>1. PICK M : M = Join(p, L, n)
  OBVIOUS
<1>2. ASSUME NEW s \in Shards(names, n), NEW lead \in BOOLEAN, ~ lead,
             M = Assign(L, p, s, lead)
      PROVE  M \in Layout(names, doomed, n)
  BY <1>2, AssignTyped, Zenon
<1>3. \E s \in Shards(names, n), lead \in BOOLEAN : ~ lead /\ M = Assign(L, p, s, lead)
  BY <1>1, JoinForm
<1> QED
  BY <1>1, <1>2, <1>3

-----------------------------------------------------------------------------
(* The folds over the steps *)

UnusedFold(L0, S, doomed) ==
    CHOOSE f : f = [T \in SUBSET S |-> IF T = {} THEN L0
                      ELSE ClaimUnused(Max(T), f[T \ {Max(T)}], doomed)]
UnusedFoldSolved(h, L0, S, doomed) ==
    /\ h[{}] = L0
    /\ \A T \in SUBSET S : T # {} =>
         Max(T) \in T /\ h[T] = ClaimUnused(Max(T), h[T \ {Max(T)}], doomed)
LEMMA UnusedFoldUnfolds ==
    ASSUME NEW names \in SUBSET Nat, IsFiniteSet(names), NEW doomed,
           NEW n \in Nat \ {0}, NEW S \in SUBSET names,
           NEW L0 \in Layout(names, doomed, n), NEW h, h = UnusedFold(L0, S, doomed)
    PROVE  UnusedFoldSolved(h, L0, S, doomed)
<1> DEFINE G == Layout(names, doomed, n)
           pick == [T \in SUBSET S |-> Max(T)]
           step == [x \in S |-> [L \in G |-> ClaimUnused(x, L, doomed)]]
           body(f) == [T \in SUBSET S |-> IF T = {} THEN L0 ELSE ClaimUnused(Max(T), f[T \ {Max(T)}], doomed)]
<1>1. IsFiniteSet(S) /\ S \in SUBSET Nat
  BY FS_Subset, FS_Interval, Zenon
<1>2. ASSUME NEW T \in SUBSET S, T # {} PROVE Max(T) \in T
  BY <1>1, <1>2, FS_Subset, HighestFinite, Zenon
<1>3. ASSUME NEW x \in S, NEW L \in G PROVE ClaimUnused(x, L, doomed) \in G
  BY UnusedTyped
<1>4. L0 \in G
  OBVIOUS
<1> HIDE DEF G
<1>5. PICK g \in [SUBSET S -> G] : Solves(g, S, L0, pick, step)
  <2>1. Picks(pick, S) /\ Steps(step, S, G)
    BY <1>2, <1>3 DEF Picks, Steps
  <2> HIDE DEF pick, step
  <2> QED
    BY <1>1, <1>4, <2>1, FoldExists, Zenon
<1>6. g = body(g)
  <2>1. ASSUME NEW T \in SUBSET S
        PROVE  g[T] = IF T = {} THEN L0 ELSE ClaimUnused(Max(T), g[T \ {Max(T)}], doomed)
    <3>1. CASE T = {}
      BY <1>5, <3>1, Zenon DEF Solves
    <3>2. CASE T # {}
      <4>1. Max(T) \in S /\ g[T \ {Max(T)}] \in G
        BY <1>2, <3>2, Zenon
      <4> QED
        BY <1>5, <3>2, <4>1, Zenon DEF Solves
    <3> QED
      BY <3>1, <3>2
  <2> QED
    BY <2>1
<1>7. h = CHOOSE f : f = body(f)
  BY DEF UnusedFold
<1>8. h = body(h)
  <2> HIDE DEF body
  <2> QED
    BY <1>6, <1>7
<1> QED
  BY <1>2, <1>8, Zenon DEF UnusedFoldSolved

PlaceFold(L0, S, names, doomed, n, lb, st) ==
    CHOOSE f : f = [T \in SUBSET S |-> IF T = {} THEN L0
                      ELSE Place(Max(T), f[T \ {Max(T)}], names, doomed, n, lb, st)]
PlaceFoldSolved(h, L0, S, names, doomed, n, lb, st) ==
    /\ h[{}] = L0
    /\ \A T \in SUBSET S : T # {} =>
         Max(T) \in T /\ h[T] = Place(Max(T), h[T \ {Max(T)}], names, doomed, n, lb, st)
LEMMA PlaceFoldUnfolds ==
    ASSUME NEW names \in SUBSET Nat, IsFiniteSet(names), NEW doomed,
           NEW n \in Nat \ {0}, NEW lb, NEW st, NEW S \in SUBSET names,
           NEW L0 \in Layout(names, doomed, n), NEW h, h = PlaceFold(L0, S, names, doomed, n, lb, st)
    PROVE  PlaceFoldSolved(h, L0, S, names, doomed, n, lb, st)
<1> DEFINE G == Layout(names, doomed, n)
           pick == [T \in SUBSET S |-> Max(T)]
           step == [x \in S |-> [L \in G |-> Place(x, L, names, doomed, n, lb, st)]]
           body(f) == [T \in SUBSET S |-> IF T = {} THEN L0 ELSE Place(Max(T), f[T \ {Max(T)}], names, doomed, n, lb, st)]
<1>1. IsFiniteSet(S) /\ S \in SUBSET Nat
  BY FS_Subset, FS_Interval, Zenon
<1>2. ASSUME NEW T \in SUBSET S, T # {} PROVE Max(T) \in T
  BY <1>1, <1>2, FS_Subset, HighestFinite, Zenon
<1>3. ASSUME NEW x \in S, NEW L \in G PROVE Place(x, L, names, doomed, n, lb, st) \in G
  BY PlaceTyped
<1>4. L0 \in G
  OBVIOUS
<1> HIDE DEF G
<1>5. PICK g \in [SUBSET S -> G] : Solves(g, S, L0, pick, step)
  <2>1. Picks(pick, S) /\ Steps(step, S, G)
    BY <1>2, <1>3 DEF Picks, Steps
  <2> HIDE DEF pick, step
  <2> QED
    BY <1>1, <1>4, <2>1, FoldExists, Zenon
<1>6. g = body(g)
  <2>1. ASSUME NEW T \in SUBSET S
        PROVE  g[T] = IF T = {} THEN L0 ELSE Place(Max(T), g[T \ {Max(T)}], names, doomed, n, lb, st)
    <3>1. CASE T = {}
      BY <1>5, <3>1, Zenon DEF Solves
    <3>2. CASE T # {}
      <4>1. Max(T) \in S /\ g[T \ {Max(T)}] \in G
        BY <1>2, <3>2, Zenon
      <4> QED
        BY <1>5, <3>2, <4>1, Zenon DEF Solves
    <3> QED
      BY <3>1, <3>2
  <2> QED
    BY <2>1
<1>7. h = CHOOSE f : f = body(f)
  BY DEF PlaceFold
<1>8. h = body(h)
  <2> HIDE DEF body
  <2> QED
    BY <1>6, <1>7
<1> QED
  BY <1>2, <1>8, Zenon DEF PlaceFoldSolved

FillFold(L0, S, names, doomed) ==
    CHOOSE f : f = [T \in SUBSET S |-> IF T = {} THEN L0
                      ELSE Fill(Max(T), f[T \ {Max(T)}], names, doomed)]
FillFoldSolved(h, L0, S, names, doomed) ==
    /\ h[{}] = L0
    /\ \A T \in SUBSET S : T # {} =>
         Max(T) \in T /\ h[T] = Fill(Max(T), h[T \ {Max(T)}], names, doomed)
LEMMA FillFoldUnfolds ==
    ASSUME NEW names \in SUBSET Nat, IsFiniteSet(names), NEW doomed,
           NEW n \in Nat \ {0}, NEW S \in SUBSET (0 .. n - 1),
           NEW L0 \in Layout(names, doomed, n), NEW h, h = FillFold(L0, S, names, doomed)
    PROVE  FillFoldSolved(h, L0, S, names, doomed)
<1> DEFINE G == Layout(names, doomed, n)
           pick == [T \in SUBSET S |-> Max(T)]
           step == [x \in S |-> [L \in G |-> Fill(x, L, names, doomed)]]
           body(f) == [T \in SUBSET S |-> IF T = {} THEN L0 ELSE Fill(Max(T), f[T \ {Max(T)}], names, doomed)]
<1>1. IsFiniteSet(S) /\ S \in SUBSET Nat
  <2>1. IsFiniteSet(0 .. n - 1)
    BY FS_Interval
  <2>2. S \in SUBSET Nat
    OBVIOUS
  <2>3. IsFiniteSet(S)
    BY <2>1, FS_Subset, Zenon
  <2> QED
    BY <2>2, <2>3
<1>2. ASSUME NEW T \in SUBSET S, T # {} PROVE Max(T) \in T
  BY <1>1, <1>2, FS_Subset, HighestFinite, Zenon
<1>3. ASSUME NEW x \in S, NEW L \in G PROVE Fill(x, L, names, doomed) \in G
  BY FillTyped
<1>4. L0 \in G
  OBVIOUS
<1> HIDE DEF G
<1>5. PICK g \in [SUBSET S -> G] : Solves(g, S, L0, pick, step)
  <2>1. Picks(pick, S) /\ Steps(step, S, G)
    BY <1>2, <1>3 DEF Picks, Steps
  <2> HIDE DEF pick, step
  <2> QED
    BY <1>1, <1>4, <2>1, FoldExists, Zenon
<1>6. g = body(g)
  <2>1. ASSUME NEW T \in SUBSET S
        PROVE  g[T] = IF T = {} THEN L0 ELSE Fill(Max(T), g[T \ {Max(T)}], names, doomed)
    <3>1. CASE T = {}
      BY <1>5, <3>1, Zenon DEF Solves
    <3>2. CASE T # {}
      <4>1. Max(T) \in S /\ g[T \ {Max(T)}] \in G
        BY <1>2, <3>2, Zenon
      <4> QED
        BY <1>5, <3>2, <4>1, Zenon DEF Solves
    <3> QED
      BY <3>1, <3>2
  <2> QED
    BY <2>1
<1>7. h = CHOOSE f : f = body(f)
  BY DEF FillFold
<1>8. h = body(h)
  <2> HIDE DEF body
  <2> QED
    BY <1>6, <1>7
<1> QED
  BY <1>2, <1>8, Zenon DEF FillFoldSolved

AppointFold(L0, S, doomed, n) ==
    CHOOSE f : f = [T \in SUBSET S |-> IF T = {} THEN L0
                      ELSE UNION {Appoint(L1, doomed, n) : L1 \in f[T \ {Max(T)}]}]
AppointFoldSolved(h, L0, S, doomed, n) ==
    /\ h[{}] = L0
    /\ \A T \in SUBSET S : T # {} =>
         Max(T) \in T /\ h[T] = UNION {Appoint(L1, doomed, n) : L1 \in h[T \ {Max(T)}]}
LEMMA AppointFoldUnfolds ==
    ASSUME NEW names \in SUBSET Nat, IsFiniteSet(names), NEW doomed,
           NEW n \in Nat \ {0}, NEW S \in SUBSET (1 .. n),
           NEW L0 \in SUBSET Layout(names, doomed, n), NEW h, h = AppointFold(L0, S, doomed, n)
    PROVE  AppointFoldSolved(h, L0, S, doomed, n)
<1> DEFINE G == SUBSET Layout(names, doomed, n)
           pick == [T \in SUBSET S |-> Max(T)]
           step == [x \in S |-> [L \in G |-> UNION {Appoint(L1, doomed, n) : L1 \in L}]]
           body(f) == [T \in SUBSET S |-> IF T = {} THEN L0 ELSE UNION {Appoint(L1, doomed, n) : L1 \in f[T \ {Max(T)}]}]
<1>1. IsFiniteSet(S) /\ S \in SUBSET Nat
  <2>1. IsFiniteSet(1 .. n)
    BY FS_Interval
  <2>2. S \in SUBSET Nat
    OBVIOUS
  <2>3. IsFiniteSet(S)
    BY <2>1, FS_Subset, Zenon
  <2> QED
    BY <2>2, <2>3
<1>2. ASSUME NEW T \in SUBSET S, T # {} PROVE Max(T) \in T
  BY <1>1, <1>2, FS_Subset, HighestFinite, Zenon
<1>3. ASSUME NEW x \in S, NEW L \in G PROVE UNION {Appoint(L1, doomed, n) : L1 \in L} \in G
  BY AppointTyped
<1>4. L0 \in G
  OBVIOUS
<1> HIDE DEF G
<1>5. PICK g \in [SUBSET S -> G] : Solves(g, S, L0, pick, step)
  <2>1. Picks(pick, S) /\ Steps(step, S, G)
    BY <1>2, <1>3 DEF Picks, Steps
  <2> HIDE DEF pick, step
  <2> QED
    BY <1>1, <1>4, <2>1, FoldExists, Zenon
<1>6. g = body(g)
  <2>1. ASSUME NEW T \in SUBSET S
        PROVE  g[T] = IF T = {} THEN L0 ELSE UNION {Appoint(L1, doomed, n) : L1 \in g[T \ {Max(T)}]}
    <3>1. CASE T = {}
      BY <1>5, <3>1, Zenon DEF Solves
    <3>2. CASE T # {}
      <4>1. Max(T) \in S /\ g[T \ {Max(T)}] \in G
        BY <1>2, <3>2, Zenon
      <4> QED
        BY <1>5, <3>2, <4>1, Zenon DEF Solves
    <3> QED
      BY <3>1, <3>2
  <2> QED
    BY <2>1, Zenon
<1>7. h = CHOOSE f : f = body(f)
  BY DEF AppointFold
<1>8. h = body(h)
  <2> HIDE DEF body
  <2> QED
    BY <1>6, <1>7
<1> QED
  BY <1>2, <1>8, Zenon DEF AppointFoldSolved

JoinFold(L0, S, n) ==
    CHOOSE f : f = [T \in SUBSET S |-> IF T = {} THEN L0
                      ELSE Join(Max(T), f[T \ {Max(T)}], n)]
JoinFoldSolved(h, L0, S, n) ==
    /\ h[{}] = L0
    /\ \A T \in SUBSET S : T # {} =>
         Max(T) \in T /\ h[T] = Join(Max(T), h[T \ {Max(T)}], n)
LEMMA JoinFoldUnfolds ==
    ASSUME NEW names \in SUBSET Nat, IsFiniteSet(names), NEW doomed,
           NEW n \in Nat \ {0}, NEW S \in SUBSET names,
           NEW L0 \in Layout(names, doomed, n), NEW h, h = JoinFold(L0, S, n)
    PROVE  JoinFoldSolved(h, L0, S, n)
<1> DEFINE G == Layout(names, doomed, n)
           pick == [T \in SUBSET S |-> Max(T)]
           step == [x \in S |-> [L \in G |-> Join(x, L, n)]]
           body(f) == [T \in SUBSET S |-> IF T = {} THEN L0 ELSE Join(Max(T), f[T \ {Max(T)}], n)]
<1>1. IsFiniteSet(S) /\ S \in SUBSET Nat
  BY FS_Subset, FS_Interval, Zenon
<1>2. ASSUME NEW T \in SUBSET S, T # {} PROVE Max(T) \in T
  BY <1>1, <1>2, FS_Subset, HighestFinite, Zenon
<1>3. ASSUME NEW x \in S, NEW L \in G PROVE Join(x, L, n) \in G
  BY JoinTyped
<1>4. L0 \in G
  OBVIOUS
<1> HIDE DEF G
<1>5. PICK g \in [SUBSET S -> G] : Solves(g, S, L0, pick, step)
  <2>1. Picks(pick, S) /\ Steps(step, S, G)
    BY <1>2, <1>3 DEF Picks, Steps
  <2> HIDE DEF pick, step
  <2> QED
    BY <1>1, <1>4, <2>1, FoldExists, Zenon
<1>6. g = body(g)
  <2>1. ASSUME NEW T \in SUBSET S
        PROVE  g[T] = IF T = {} THEN L0 ELSE Join(Max(T), g[T \ {Max(T)}], n)
    <3>1. CASE T = {}
      BY <1>5, <3>1, Zenon DEF Solves
    <3>2. CASE T # {}
      <4>1. Max(T) \in S /\ g[T \ {Max(T)}] \in G
        BY <1>2, <3>2, Zenon
      <4> QED
        BY <1>5, <3>2, <4>1, Zenon DEF Solves
    <3> QED
      BY <3>1, <3>2
  <2> QED
    BY <2>1
<1>7. h = CHOOSE f : f = body(f)
  BY DEF JoinFold
<1>8. h = body(h)
  <2> HIDE DEF body
  <2> QED
    BY <1>6, <1>7
<1> QED
  BY <1>2, <1>8, Zenon DEF JoinFoldSolved

\* The steps of planShardLayout as these folds.
LEMMA ClaimMatchesFolds ==
    ASSUME NEW L0, NEW S, NEW doomed, NEW n, NEW st
    PROVE  ClaimMatches(L0, S, doomed, n, st) = MatchFold(L0, S, doomed, n, st)[S]
  BY DEF ClaimMatches, MapThenFoldSet, MatchFold, lastMatch

LEMMA ClaimRestFolds ==
    ASSUME NEW L0, NEW S, NEW doomed
    PROVE  ClaimRest(L0, S, doomed) = UnusedFold(L0, S, doomed)[S]
  BY DEF ClaimRest, Ascending, MapThenFoldSet, UnusedFold

LEMMA JoinAllFolds ==
    ASSUME NEW L0, NEW S, NEW n
    PROVE  JoinAll(L0, S, n) = JoinFold(L0, S, n)[S]
  BY DEF JoinAll, Ascending, MapThenFoldSet, JoinFold

-----------------------------------------------------------------------------
(* The steps of planShardLayout *)

\* Every owner of slots has a shard, and leads it if it stays.
LEMMA ClaimOwnersLed ==
    ASSUME NEW names \in SUBSET Nat, IsFiniteSet(names), NEW doomed,
           NEW n \in Nat \ {0}, NEW st, NEW owners \in SUBSET names,
           NEW L0 \in LedLayout(names, doomed, n),
           NEW M, M = ClaimOwners(L0, owners, doomed, n, st)
    PROVE  M \in LedLayout(names, doomed, n) /\ owners \subseteq Assigned(M)
<1> DEFINE R == Matches(owners, n, st)
<1>1. PICK L1 : L1 = MatchFold(L0, R, doomed, n, st)[R]
  OBVIOUS
<1> DEFINE S == owners \ Assigned(L1)
<1>2. PICK h : h = UnusedFold(L1, S, doomed)
  OBVIOUS
<1>3. M = h[S]
  <2>1. M = UnusedFold(L1, owners \ Assigned(L1), doomed)[owners \ Assigned(L1)]
    BY <1>1, ClaimMatchesFolds, ClaimRestFolds, Zenon DEF ClaimOwners
  <2> QED
    BY <1>2, <2>1
<1>4. L1 \in LedLayout(names, doomed, n)
  <2>1. R \in SUBSET (names \X (0 .. n - 1))
    BY Zenon DEF Matches
  <2> HIDE DEF R
  <2> QED
    BY <1>1, <2>1, MatchFoldLed, Zenon
<1>5. S \in SUBSET names /\ S \cap Assigned(L1) = {} /\ IsFiniteSet(S)
  BY FS_Subset, Zenon
<1>6. /\ h[{}] = L1
      /\ \A T \in SUBSET S : T # {} =>
           Max(T) \in T /\ h[T] = ClaimUnused(Max(T), h[T \ {Max(T)}], doomed)
  <2>1. L1 \in Layout(names, doomed, n)
    BY <1>4 DEF LedLayout
  <2> HIDE DEF S
  <2>2. UnusedFoldSolved(h, L1, S, doomed)
    BY <1>2, <1>5, <2>1, UnusedFoldUnfolds
  <2> QED
    BY <2>2 DEF UnusedFoldSolved
<1> DEFINE Good == {T \in SUBSET S : /\ h[T] \in LedLayout(names, doomed, n)
                                     /\ Assigned(h[T]) = Assigned(L1) \cup T}
<1> HIDE DEF S, R
<1>7. ASSUME NEW T \in SUBSET S, \A x \in T : T \ {x} \in Good PROVE T \in Good
  <2>1. CASE T = {}
    BY <1>4, <1>6, <2>1
  <2>2. CASE T # {}
    <3>1. PICK x \in T : h[T] = ClaimUnused(x, h[T \ {x}], doomed)
      BY <1>6, <2>2, Zenon
    <3>2. PICK L \in LedLayout(names, doomed, n) :
            L = h[T \ {x}] /\ Assigned(L) = Assigned(L1) \cup (T \ {x})
      BY <1>7, Zenon
    <3>3. x \in names /\ x \notin Assigned(L)
      BY <1>5, <3>2
    <3>4. PICK s : s = Min(DOMAIN L.ownerOf \ Range(L.shardOf))
      OBVIOUS
    <3>5. s \in Shards(names, n) /\ s \notin Range(L.shardOf)
      <4>1. L \in Layout(names, doomed, n)
        BY DEF LedLayout
      <4> QED
        BY <3>4, <4>1, UnusedShard
    <3>6. PICK N : N = Claim(L, x, s, doomed)
      OBVIOUS
    <3>7. N \in LedLayout(names, doomed, n) /\ Assigned(N) = Assigned(L) \cup {x}
      BY <3>3, <3>5, <3>6, ClaimLed
    <3>8. h[T] = N
      BY <3>1, <3>2, <3>4, <3>6 DEF ClaimUnused
    <3>9. Assigned(L1) \cup (T \ {x}) \cup {x} = Assigned(L1) \cup T
      OBVIOUS
    <3> QED
      BY <3>2, <3>7, <3>8, <3>9
  <2> QED
    BY <2>1, <2>2
<1>8. S \in Good
  <2> HIDE DEF Good
  <2>1. \A T \in SUBSET S : T \in Good
    BY <1>5, <1>7, SubsetInduction, Zenon
  <2> QED
    BY <2>1
<1> QED
  BY <1>3, <1>8 DEF S

\* The later steps take the lead of its shard from no pod.
Kept(L0, names, doomed, n) ==
    {L \in Layout(names, doomed, n) : LeadsOwn(L) /\ Keeps(L0, L)}

LEMMA AssignKept ==
    ASSUME NEW names \in SUBSET Nat, IsFiniteSet(names), NEW doomed,
           NEW n \in Nat \ {0}, NEW L0 \in Layout(names, doomed, n),
           NEW L \in Kept(L0, names, doomed, n),
           NEW p \in names, ~ isPrimary(L, p),
           NEW s \in Shards(names, n), NEW lead \in BOOLEAN,
           lead => p \notin doomed /\ L.primaryOf[s] = NoPod,
           NEW M, M = Assign(L, p, s, lead)
    PROVE  M \in Kept(L0, names, doomed, n) /\ Assigned(M) = Assigned(L) \cup {p}
<1>1. L \in Layout(names, doomed, n) /\ LeadsOwn(L) /\ Keeps(L0, L)
  BY DEF Kept
<1>2. /\ M \in Layout(names, doomed, n) /\ LeadsOwn(M) /\ Keeps(L, M)
      /\ Assigned(M) = Assigned(L) \cup {p}
  BY <1>1, AssignSound
<1>3. DOMAIN L0.shardOf = DOMAIN L.shardOf
  BY <1>1 DEF Layout
<1>4. Keeps(L0, M)
  BY <1>1, <1>2, <1>3 DEF Keeps
<1> QED
  BY <1>2, <1>4 DEF Kept

LEMMA UnassignedLeadsNone ==
    ASSUME NEW names, NEW doomed, NEW n, NEW L \in Layout(names, doomed, n),
           NEW p \in names, p \notin Assigned(L)
    PROVE  ~ isPrimary(L, p)
BY DEF Layout, Assigned, isPrimary

LEMMA PlaceFollowersKept ==
    ASSUME NEW names \in SUBSET Nat, IsFiniteSet(names), NEW doomed,
           NEW n \in Nat \ {0}, NEW lb, NEW st,
           NEW L0 \in Layout(names, doomed, n), LeadsOwn(L0),
           NEW M, M = PlaceFollowers(L0, names, doomed, n, lb, st)
    PROVE  M \in Kept(L0, names, doomed, n)
<1> DEFINE S == names \ Assigned(L0)
<1>1. PICK h : h = PlaceFold(L0, S, names, doomed, n, lb, st)
  OBVIOUS
<1>2. M = h[S]
  <2>1. M = PlaceFold(L0, names \ Assigned(L0), names, doomed, n, lb, st)
              [names \ Assigned(L0)]
    BY DEF PlaceFollowers, Ascending, MapThenFoldSet, PlaceFold
  <2> QED
    BY <1>1, <2>1
<1>3. S \in SUBSET names /\ S \cap Assigned(L0) = {} /\ IsFiniteSet(S)
  BY FS_Subset
<1> HIDE DEF S
<1>4. /\ h[{}] = L0
      /\ \A T \in SUBSET S : T # {} =>
           Max(T) \in T /\ h[T] = Place(Max(T), h[T \ {Max(T)}], names, doomed, n, lb, st)
  <2>1. PlaceFoldSolved(h, L0, S, names, doomed, n, lb, st)
    BY <1>1, <1>3, PlaceFoldUnfolds
  <2> QED
    BY <2>1, Zenon DEF PlaceFoldSolved
<1> DEFINE Good == {T \in SUBSET S : /\ h[T] \in Kept(L0, names, doomed, n)
                                     /\ Assigned(h[T]) \subseteq Assigned(L0) \cup T}
<1>5. ASSUME NEW T \in SUBSET S, \A x \in T : T \ {x} \in Good PROVE T \in Good
  <2>1. CASE T = {}
    BY <1>4, <2>1 DEF Kept, Keeps
  <2>2. CASE T # {}
    <3>1. PICK x \in T : h[T] = Place(x, h[T \ {x}], names, doomed, n, lb, st)
      BY <1>4, <2>2
    <3>2. PICK L \in Kept(L0, names, doomed, n) :
            L = h[T \ {x}] /\ Assigned(L) \subseteq Assigned(L0) \cup (T \ {x})
      BY <1>5, Zenon
    <3>3. x \in names /\ L \in Layout(names, doomed, n) /\ x \notin Assigned(L)
      BY <1>3, <3>2 DEF Kept
    <3>4. ~ isPrimary(L, x)
      BY <3>3, UnassignedLeadsNone
    <3>5. \/ h[T] = L
          \/ \E s \in Shards(names, n), lead \in BOOLEAN :
               /\ lead => x \notin doomed /\ L.primaryOf[s] = NoPod
               /\ h[T] = Assign(L, x, s, lead)
      BY <3>1, <3>2, <3>3, PlaceForm
    <3>6. CASE h[T] = L
      BY <3>2, <3>6
    <3>7. ASSUME NEW s \in Shards(names, n), NEW lead \in BOOLEAN,
                 lead => x \notin doomed /\ L.primaryOf[s] = NoPod,
                 h[T] = Assign(L, x, s, lead)
          PROVE  T \in Good
      <4>1. h[T] \in Kept(L0, names, doomed, n) /\ Assigned(h[T]) = Assigned(L) \cup {x}
        BY <3>3, <3>4, <3>7, AssignKept
      <4> QED
        BY <3>2, <4>1
    <3> QED
      BY <3>5, <3>6, <3>7
  <2> QED
    BY <2>1, <2>2
<1>6. S \in Good
  <2> HIDE DEF Good
  <2>1. \A T \in SUBSET S : T \in Good
    BY <1>3, <1>5, SubsetInduction, Zenon
  <2> QED
    BY <2>1
<1> QED
  BY <1>2, <1>6

LEMMA FillPrimariesKept ==
    ASSUME NEW names \in SUBSET Nat, IsFiniteSet(names), NEW doomed,
           NEW n \in Nat \ {0},
           NEW L0 \in Layout(names, doomed, n), LeadsOwn(L0),
           NEW M, M = FillPrimaries(L0, names, doomed, n)
    PROVE  M \in Kept(L0, names, doomed, n)
<1> DEFINE S == 0 .. n - 1
           G == Kept(L0, names, doomed, n)
<1>1. PICK h : h = FillFold(L0, S, names, doomed)
  OBVIOUS
<1>2. M = h[S]
  <2>1. M = FillFold(L0, 0 .. n - 1, names, doomed)[0 .. n - 1]
    BY DEF FillPrimaries, Ascending, MapThenFoldSet, FillFold
  <2> QED
    BY <1>1, <2>1
<1>3. IsFiniteSet(S) /\ S \in SUBSET (0 .. n - 1)
  BY FS_Interval
<1>4. /\ h[{}] = L0
      /\ \A T \in SUBSET S : T # {} =>
           Max(T) \in T /\ h[T] = Fill(Max(T), h[T \ {Max(T)}], names, doomed)
  <2> HIDE DEF S
  <2>1. FillFoldSolved(h, L0, S, names, doomed)
    BY <1>1, <1>3, FillFoldUnfolds
  <2> QED
    BY <2>1 DEF FillFoldSolved
<1>5. ASSUME NEW L \in G, NEW s \in S PROVE Fill(s, L, names, doomed) \in G
  <2>1. PICK N : N = Fill(s, L, names, doomed)
    OBVIOUS
  <2>2. L \in Layout(names, doomed, n)
    BY DEF Kept
  <2>3. \/ N = L
        \/ \E p \in names, lead \in BOOLEAN :
             /\ p \notin doomed /\ p \notin Assigned(L) /\ L.primaryOf[s] = NoPod
             /\ N = Assign(L, p, s, lead)
    BY <2>1, <2>2, FillForm
  <2>4. ASSUME NEW p \in names, NEW lead \in BOOLEAN, p \notin doomed,
               p \notin Assigned(L), L.primaryOf[s] = NoPod, N = Assign(L, p, s, lead)
        PROVE  N \in G
    <3>1. ~ isPrimary(L, p) /\ s \in Shards(names, n)
      BY <2>2, <2>4, UnassignedLeadsNone, ShardsFacts
    <3> QED
      BY <2>4, <3>1, AssignKept
  <2> QED
    BY <2>1, <2>3, <2>4
<1>6. L0 \in G
  BY DEF Kept, Keeps
<1> HIDE DEF G, S
<1>7. h[S] \in G
  <2>1. ASSUME NEW T \in SUBSET S, T # {}
        PROVE  \E x \in T : h[T \ {x}] \in G => h[T] \in G
    <3>1. /\ Max(T) \in T
          /\ h[T \ {Max(T)}] \in G => h[T] \in G
      BY <1>4, <1>5, <2>1
    <3> QED
      BY <3>1
  <2> QED
    BY <1>3, <1>4, <1>6, <2>1, FoldInduction, Zenon
<1> QED
  BY <1>2, <1>7 DEF G

LEMMA AppointHeirsKept ==
    ASSUME NEW names \in SUBSET Nat, IsFiniteSet(names), NEW doomed,
           NEW n \in Nat \ {0},
           NEW L0 \in Layout(names, doomed, n), LeadsOwn(L0)
    PROVE  AppointHeirs(L0, doomed, n) \in SUBSET Kept(L0, names, doomed, n)
<1> DEFINE S == 1 .. n
           G == SUBSET Kept(L0, names, doomed, n)
<1>1. PICK h : h = AppointFold({L0}, S, doomed, n)
  OBVIOUS
<1>2. AppointHeirs(L0, doomed, n) = h[S]
  <2>1. AppointHeirs(L0, doomed, n) = AppointFold({L0}, 1 .. n, doomed, n)[1 .. n]
    BY DEF AppointHeirs, Ascending, MapThenFoldSet, AppointFold
  <2> QED
    BY <1>1, <2>1
<1>3. IsFiniteSet(S) /\ S \in SUBSET (1 .. n)
  BY FS_Interval
<1>4. /\ h[{}] = {L0}
      /\ \A T \in SUBSET S : T # {} =>
           /\ Max(T) \in T
           /\ h[T] = UNION {Appoint(L, doomed, n) : L \in h[T \ {Max(T)}]}
  <2> HIDE DEF S
  <2>1. {L0} \in SUBSET Layout(names, doomed, n)
    OBVIOUS
  <2>2. AppointFoldSolved(h, {L0}, S, doomed, n)
    BY <1>1, <1>3, <2>1, AppointFoldUnfolds
  <2> QED
    BY <2>2, Zenon DEF AppointFoldSolved
<1>5. ASSUME NEW L \in Kept(L0, names, doomed, n), NEW M \in Appoint(L, doomed, n)
      PROVE  M \in Kept(L0, names, doomed, n)
  <2>1. L \in Layout(names, doomed, n)
    BY DEF Kept
  <2>2. \/ M = L
        \/ \E p \in names, s \in Shards(names, n), lead \in BOOLEAN :
             /\ p \notin doomed /\ ~ isPrimary(L, p) /\ L.primaryOf[s] = NoPod
             /\ M = Assign(L, p, s, lead)
    BY <2>1, AppointForm
  <2>3. ASSUME NEW p \in names, NEW s \in Shards(names, n), NEW lead \in BOOLEAN,
               p \notin doomed, ~ isPrimary(L, p), L.primaryOf[s] = NoPod,
               M = Assign(L, p, s, lead)
        PROVE  M \in Kept(L0, names, doomed, n)
    BY <2>3, AssignKept
  <2> QED
    BY <2>2, <2>3
<1>6. {L0} \in G
  BY DEF Kept, Keeps
<1>7. h[S] \in G
  <2>1. ASSUME NEW T \in SUBSET S, T # {}
        PROVE  \E x \in T : h[T \ {x}] \in G => h[T] \in G
    <3>1. Max(T) \in T /\ h[T] = UNION {Appoint(L, doomed, n) : L \in h[T \ {Max(T)}]}
      BY <1>4, <2>1, Zenon
    <3>2. h[T \ {Max(T)}] \in G => h[T] \in G
      BY <1>5, <3>1, Zenon
    <3> QED
      BY <3>1, <3>2, Zenon
  <2>2. h[{}] \in G
    BY <1>4, <1>6
  <2> HIDE DEF S, G
  <2> QED
    BY <1>3, <2>1, <2>2, FoldInduction
<1> QED
  BY <1>2, <1>7

LEMMA JoinFoldKept ==
    ASSUME NEW names \in SUBSET Nat, IsFiniteSet(names), NEW doomed,
           NEW n \in Nat \ {0}, NEW L0 \in Layout(names, doomed, n),
           NEW L1 \in Kept(L0, names, doomed, n),
           NEW S \in SUBSET names, S \cap Assigned(L1) = {},
           NEW M, M = JoinFold(L1, S, n)[S]
    PROVE  /\ M \in Kept(L0, names, doomed, n)
           /\ Assigned(M) = Assigned(L1) \cup S
<1>1. PICK h : h = JoinFold(L1, S, n)
  OBVIOUS
<1>2. IsFiniteSet(S)
  BY FS_Subset
<1>3. /\ h[{}] = L1
      /\ \A T \in SUBSET S : T # {} =>
           Max(T) \in T /\ h[T] = Join(Max(T), h[T \ {Max(T)}], n)
  <2>1. L1 \in Layout(names, doomed, n)
    BY DEF Kept
  <2>2. JoinFoldSolved(h, L1, S, n)
    BY <1>1, <2>1, JoinFoldUnfolds, Zenon
  <2> QED
    BY <2>2 DEF JoinFoldSolved
<1> DEFINE Good == {T \in SUBSET S : /\ h[T] \in Kept(L0, names, doomed, n)
                                     /\ Assigned(h[T]) = Assigned(L1) \cup T}
<1>4. ASSUME NEW T \in SUBSET S, \A x \in T : T \ {x} \in Good PROVE T \in Good
  <2>1. CASE T = {}
    BY <1>3, <2>1
  <2>2. CASE T # {}
    <3>1. PICK x \in T : h[T] = Join(x, h[T \ {x}], n)
      BY <1>3, <2>2, Zenon
    <3>2. PICK L \in Kept(L0, names, doomed, n) :
            L = h[T \ {x}] /\ Assigned(L) = Assigned(L1) \cup (T \ {x})
      BY <1>4, Zenon
    <3>3. x \in names /\ L \in Layout(names, doomed, n) /\ x \notin Assigned(L)
      BY <3>2, Zenon DEF Kept
    <3>4. ~ isPrimary(L, x)
      BY <3>3, UnassignedLeadsNone
    <3>5. \E s \in Shards(names, n), lead \in BOOLEAN :
            ~ lead /\ h[T] = Assign(L, x, s, lead)
      BY <3>1, <3>2, <3>3, JoinForm
    <3>6. ASSUME NEW s \in Shards(names, n), NEW lead \in BOOLEAN, ~ lead,
                 h[T] = Assign(L, x, s, lead)
          PROVE  T \in Good
      <4>1. h[T] \in Kept(L0, names, doomed, n) /\ Assigned(h[T]) = Assigned(L) \cup {x}
        BY <3>3, <3>4, <3>6, AssignKept
      <4>2. Assigned(L1) \cup (T \ {x}) \cup {x} = Assigned(L1) \cup T
        OBVIOUS
      <4> QED
        BY <3>2, <4>1, <4>2
    <3> QED
      BY <3>5, <3>6
  <2> QED
    BY <2>1, <2>2
<1>5. S \in Good
  <2> HIDE DEF Good
  <2>1. \A T \in SUBSET S : T \in Good
    BY <1>2, <1>4, SubsetInduction, Zenon
  <2> QED
    BY <2>1
<1> QED
  BY <1>1, <1>5

LEMMA BalanceKept ==
    ASSUME NEW names \in SUBSET Nat, IsFiniteSet(names), NEW doomed,
           NEW n \in Nat \ {0}, NEW L0 \in Layout(names, doomed, n), LeadsOwn(L0),
           NEW M, M = Balance(L0, names, doomed, n)
    PROVE  M \in Kept(L0, names, doomed, n) /\ Assigned(M) = names
<1> DEFINE S0 == names \ (Assigned(L0) \cup doomed)
<1>1. PICK L1 : L1 = JoinFold(L0, S0, n)[S0]
  OBVIOUS
<1> DEFINE S1 == names \ Assigned(L1)
<1>2. M = JoinFold(L1, S1, n)[S1]
  BY <1>1, JoinAllFolds, Zenon DEF Balance
<1>3. L0 \in Kept(L0, names, doomed, n)
  BY DEF Kept, Keeps
<1>4. S0 \in SUBSET names /\ S0 \cap Assigned(L0) = {}
  OBVIOUS
<1>5. S1 \in SUBSET names /\ S1 \cap Assigned(L1) = {}
  OBVIOUS
<1> HIDE DEF S0
<1>6. L1 \in Kept(L0, names, doomed, n)
  BY <1>1, <1>3, <1>4, JoinFoldKept
<1>7. Assigned(L1) \subseteq names
  BY <1>6 DEF Kept, Layout, Assigned
<1>8. Assigned(L1) \cup S1 = names
  BY <1>7
<1> HIDE DEF S1
<1>9. M \in Kept(L0, names, doomed, n) /\ Assigned(M) = Assigned(L1) \cup S1
  BY <1>2, <1>5, <1>6, JoinFoldKept
<1> QED
  BY <1>8, <1>9

\* planShardLayout, whatever the instances answered and the labels say:
\* every pod gets a shard; no pod that is to be deleted leads one, and none
\* leads two; and a pod that serves slots leads its shard unless it is to be
\* deleted, so that a change of the number of replicas remaps no primary.
THEOREM LayoutSound ==
    ASSUME NEW n \in Nat \ {0}, NEW replicas \in Nat, NEW given, NEW polled,
           DOMAIN given \in SUBSET Nat, IsFiniteSet(DOMAIN given),
           NEW L \in planShardLayout(n, replicas, given, polled)
    PROVE  LET wanted == 0 .. n * (replicas + 1) - 1
               names  == wanted \cup DOMAIN given
               shards_ == 0 .. n + Cardinality(names)
           IN /\ L.shardOf \in [names -> shards_]
              /\ L.primaryOf \in [shards_ -> wanted \cup {NoPod}]
              /\ LeadsOwn(L)
              /\ \A p \in wanted \cap DOMAIN polled :
                   polled[p].slots # {} => isPrimary(L, p)
<1> DEFINE wanted == 0 .. n * (replicas + 1) - 1
           names  == wanted \cup DOMAIN given
           doomed == names \ wanted
           st == [p \in names \cup DOMAIN polled |->
                    IF p \in DOMAIN polled THEN polled[p] ELSE Silent]
           lb == [p \in names |-> IF p \in DOMAIN given THEN given[p]
                                  ELSE [shard |-> None, primary |-> FALSE]]
           owners == {p \in names : st[p].slots # {}}
           L0 == [shardOf |-> [p \in names |-> None],
                  primaryOf |-> [s \in Shards(names, n) |-> NoPod],
                  ownerOf |-> [s \in Shards(names, n) |-> NoPod],
                  moves |-> << >>]
<1>1. names \in SUBSET Nat /\ IsFiniteSet(names) /\ owners \in SUBSET names
  <2>1. n * (replicas + 1) - 1 \in Int
    OBVIOUS
  <2>2. IsFiniteSet(wanted) /\ wanted \in SUBSET Nat
    BY <2>1, FS_Interval
  <2> HIDE DEF wanted
  <2> QED
    BY <2>2, FS_Union, Zenon
<1>2. PICK L1, L2, L3, M, N :
        /\ L1 = ClaimOwners(L0, owners, doomed, n, st)
        /\ L2 = PlaceFollowers(L1, names, doomed, n, lb, st)
        /\ L3 = FillPrimaries(L2, names, doomed, n)
        /\ M \in AppointHeirs(L3, doomed, n)
        /\ N = Balance(M, names, doomed, n)
        /\ L = [N EXCEPT !.moves = planReplicaMoves(N, doomed, n, replicas, st)]
  BY Zenon DEF planShardLayout, Shards
<1>3. L0 \in LedLayout(names, doomed, n)
  <2>1. L0 \in Layout(names, doomed, n)
    <3> HIDE DEF wanted
    <3> QED
      BY DEF Layout
  <2>2. Assigned(L0) = {} /\ LeadsOwn(L0)
    BY DEF Assigned, LeadsOwn
  <2> QED
    BY <2>1, <2>2, Zenon DEF LedLayout, Led
<1> HIDE DEF L0, st, lb, owners, doomed, names
<1>4. L1 \in LedLayout(names, doomed, n) /\ owners \subseteq Assigned(L1)
  BY <1>1, <1>2, <1>3, ClaimOwnersLed
<1>5. L1 \in Layout(names, doomed, n) /\ LeadsOwn(L1) /\ Led(L1, doomed)
  BY <1>4 DEF LedLayout
<1>6. L2 \in Kept(L1, names, doomed, n)
  BY <1>1, <1>2, <1>5, PlaceFollowersKept
<1>7. L2 \in Layout(names, doomed, n) /\ LeadsOwn(L2) /\ Keeps(L1, L2)
  BY <1>6 DEF Kept
<1>8. L3 \in Kept(L2, names, doomed, n)
  BY <1>1, <1>2, <1>7, FillPrimariesKept
<1>9. L3 \in Layout(names, doomed, n) /\ LeadsOwn(L3) /\ Keeps(L2, L3)
  BY <1>8 DEF Kept
<1>10. M \in Kept(L3, names, doomed, n)
  BY <1>1, <1>2, <1>9, AppointHeirsKept
<1>11. M \in Layout(names, doomed, n) /\ LeadsOwn(M) /\ Keeps(L3, M)
  BY <1>10 DEF Kept
<1>12. N \in Kept(M, names, doomed, n) /\ Assigned(N) = names
  BY <1>1, <1>2, <1>11, BalanceKept
<1>13. N \in Layout(names, doomed, n) /\ LeadsOwn(N) /\ Keeps(M, N)
  BY <1>12 DEF Kept
<1>14. L.shardOf = N.shardOf /\ L.primaryOf = N.primaryOf
  BY <1>2, <1>13 DEF Layout
<1>15. L.shardOf \in [names -> Shards(names, n)]
  BY <1>12, <1>13, <1>14 DEF Layout, Assigned
<1>16. L.primaryOf \in [Shards(names, n) -> wanted \cup {NoPod}]
  <2> HIDE DEF wanted
  <2>1. names \ doomed \subseteq wanted
    BY DEF doomed
  <2> QED
    BY <1>13, <1>14, <2>1 DEF Layout
<1>17. LeadsOwn(L)
  BY <1>13, <1>14 DEF LeadsOwn
<1>18. ASSUME NEW p \in wanted \cap DOMAIN polled, polled[p].slots # {}
       PROVE  isPrimary(L, p)
  <2> HIDE DEF wanted
  <2>1. p \in names /\ p \notin doomed /\ p \in owners
    BY <1>18 DEF names, doomed, owners, st
  <2>2. isPrimary(L1, p)
    BY <1>4, <1>5, <2>1 DEF Led
  <2>3. \A K \in {L1, L2, L3, M} : DOMAIN K.shardOf = names
    BY <1>5, <1>7, <1>9, <1>11 DEF Layout
  <2>4. isPrimary(N, p)
    BY <1>7, <1>9, <1>11, <1>13, <2>1, <2>2, <2>3 DEF Keeps
  <2> QED
    BY <1>14, <2>4 DEF isPrimary
<1> QED
  BY <1>15, <1>16, <1>17, <1>18, Zenon DEF Shards, names

=============================================================================

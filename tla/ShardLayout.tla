---------------------------- MODULE ShardLayout ----------------------------
(***************************************************************************)
(* Cluster mode: which slots belong to which shard, and planShardLayout,   *)
(* which derives from one poll of the instances which pod belongs to which *)
(* shard and which pod is to be its primary.  A range of slots is the set  *)
(* of its slots; a node ID is the pod that has it.                         *)
(***************************************************************************)
EXTENDS Integers, FiniteSets, FiniteSetsExt, Folds, Functions

CONSTANT Slots   \* number of hash slots (16384)

ASSUME SlotsAssumption == Slots \in Nat \ {0}

Slot  == 0 .. Slots - 1
NoPod == -1
None  == -1   \* no shard

\* calculateClusterSlotRanges(n)[i]: the remainder goes to the first ranges.
SlotRange(n, i) ==
    LET base == Slots \div n
        extra == Slots % n
        start(j) == j * base + (IF j < extra THEN j ELSE extra)
    IN start(i) .. start(i + 1) - 1

\* What pollInstanceStatuses knows of a pod that did not answer.
Silent == [connected |-> FALSE, role |-> "", of |-> NoPod, slots |-> {},
           link |-> FALSE]

\* Folds op over S in ascending order.
Ascending(op(_, _), base, S) == MapThenFoldSet(op, base, LAMBDA x : x, Max, S)

\* The elements of S in ascending order.
InOrder(S) ==
    [i \in 1 .. Cardinality(S) |->
       CHOOSE x \in S : Cardinality({y \in S : y < x}) = i - 1]

Members(L, s) == {p \in DOMAIN L.shardOf : L.shardOf[p] = s}
Assigned(L)   == {p \in DOMAIN L.shardOf : L.shardOf[p] # None}

isPrimary(L, p) == L.shardOf[p] # None /\ L.primaryOf[L.shardOf[p]] = p

handingOver(L, s) == L.ownerOf[s] # NoPod /\ L.ownerOf[s] # L.primaryOf[s]

\* Assigns p to shard s, as its primary if lead.
Assign(L, p, s, lead) ==
    [L EXCEPT !.shardOf[p] = s, !.primaryOf[s] = IF lead THEN p ELSE @]

\* rankOwnersByOverlap: the pairs of an owner and a range it serves slots of;
\* Before(a, b) if a comes first.
Matches(owners, n, st) ==
    {m \in owners \X (0 .. n - 1) :
       st[m[1]].slots \cap SlotRange(n, m[2]) # {}}
Before(a, b, n, st) ==
    LET overlap(m) == Cardinality(st[m[1]].slots \cap SlotRange(n, m[2]))
    IN \/ overlap(a) > overlap(b)
       \/ overlap(a) = overlap(b) /\ a[2] < b[2]
       \/ overlap(a) = overlap(b) /\ a[2] = b[2] /\ a[1] <= b[1]

\* Owner p gets shard s, which it leads unless it is to be deleted.
Claim(L, p, s, doomed) ==
    [Assign(L, p, s, p \notin doomed) EXCEPT !.ownerOf[s] = p]
ClaimMatch(m, L, doomed) ==
    IF m[1] \in Assigned(L) \/ m[2] \in Range(L.shardOf) THEN L
    ELSE Claim(L, m[1], m[2], doomed)
ClaimUnused(p, L, doomed) ==
    Claim(L, p, Min(DOMAIN L.ownerOf \ Range(L.shardOf)), doomed)

ClaimMatches(L0, S, doomed, n, st) ==
    LET match(m, L) == ClaimMatch(m, L, doomed)
        last(T) == CHOOSE m \in T : \A k \in T : Before(k, m, n, st)
    IN MapThenFoldSet(match, L0, LAMBDA m : m, last, S)
ClaimRest(L0, S, doomed) ==
    LET rest(p, L) == ClaimUnused(p, L, doomed)
    IN Ascending(rest, L0, S)

\* Every owner claims the range it serves most of; what is left claims the
\* lowest unused shard, which may lie beyond the last.
ClaimOwners_InOrder(L0, owners, doomed, n, st) == ClaimRest(L0, owners, doomed)
ClaimOwners(L0, owners, doomed, n, st) ==
    LET L1 == ClaimMatches(L0, Matches(owners, n, st), doomed, n, st)
    IN ClaimRest(L1, owners \ Assigned(L1), doomed)

\* A replica follows its primary; a pod that cannot be observed keeps the
\* shard its labels name.
Place(p, L, names, doomed, n, label, st) ==
    LET s == IF st[p].role = "slave" /\ st[p].of \in names /\ st[st[p].of].connected
             THEN L.shardOf[st[p].of] ELSE None
        observable == st[p].connected /\ (st[p].role = "slave" => st[p].of # NoPod)
        l == label[p]
    IN IF s # None
       THEN Assign(L, p, s, L.primaryOf[s] = NoPod /\ p \notin doomed)
       ELSE IF ~ observable /\ l.shard \in 0 .. n - 1
       THEN Assign(L, p, l.shard,
                   l.primary /\ L.primaryOf[l.shard] = NoPod /\ p \notin doomed)
       ELSE L
PlaceFollowers(L0, names, doomed, n, label, st) ==
    LET place(p, L) == Place(p, L, names, doomed, n, label, st)
    IN Ascending(place, L0, names \ Assigned(L0))

\* A shard without a primary gets a free pod that stays.
Fill(s, L, names, doomed) ==
    LET free == names \ (Assigned(L) \cup doomed)
    IN IF L.primaryOf[s] # NoPod \/ free = {} THEN L
       ELSE Assign(L, Min(free), s, TRUE)
FillPrimaries(L0, names, doomed, n) ==
    LET fill(s, L) == Fill(s, L, names, doomed)
    IN Ascending(fill, L0, 0 .. n - 1)

\* spareSurvivor: from the shard with most members, as the map is iterated.
spareSurvivor(L, doomed) ==
    LET spare(s) == {p \in Members(L, s) : p # L.primaryOf[s]} \ doomed
        size(s) == Cardinality(Members(L, s))
        rich == {s \in DOMAIN L.ownerOf : spare(s) # {} /\ size(s) > 1}
    IN {Min(spare(s)) : s \in {t \in rich : \A u \in rich : size(u) <= size(t)}}

\* An owner that must go gets an heir from another shard, if there is one.
Appoint(L, doomed, n) ==
    LET needs == {s \in 0 .. n - 1 : L.primaryOf[s] = NoPod /\ L.ownerOf[s] # NoPod}
    IN IF needs = {} \/ spareSurvivor(L, doomed) = {} THEN {L}
       ELSE {Assign(L, h, Min(needs), TRUE) : h \in spareSurvivor(L, doomed)}
AppointHeirs(L0, doomed, n) ==
    LET appoint(i, Ls) == UNION {Appoint(L, doomed, n) : L \in Ls}
    IN Ascending(appoint, {L0}, 1 .. n)

\* The other free pods join the smallest shard, those that stay first.
Join(p, L, n) ==
    LET size(s) == Cardinality(Members(L, s))
        smallest == {s \in 0 .. n - 1 : \A t \in 0 .. n - 1 : size(s) <= size(t)}
    IN Assign(L, p, Min(smallest), FALSE)
JoinAll(L0, S, n) ==
    LET join(p, L) == Join(p, L, n)
    IN Ascending(join, L0, S)
Balance(L0, names, doomed, n) ==
    LET L1 == JoinAll(L0, names \ (Assigned(L0) \cup doomed), n)
    IN JoinAll(L1, names \ Assigned(L1), n)

\* planReplicaMoves: which replica is to follow which other shard, so that
\* every shard has its share of the pods that stay.
planReplicaMoves(L, doomed, n, replicas, st) ==
    LET mine(s) == {p \in Members(L, s) \ doomed : ~ isPrimary(L, p)}
        movable(p) == st[p].connected /\ st[p].role = "slave"
                      /\ st[p].of # NoPod /\ st[p].slots = {}
        count(M, s) == Cardinality({p \in mine(s) : p \notin DOMAIN M})
                       + Cardinality({p \in DOMAIN M : M[p] = s})
        steps == {x \in (0 .. n - 1) \X (0 .. n - 1) \X Assigned(L) :
                    x[3] \in mine(x[2]) /\ movable(x[3])}
        later(x, y) == \/ x[1] > y[1]
                       \/ x[1] = y[1] /\ x[2] > y[2]
                       \/ x[1] = y[1] /\ x[2] = y[2] /\ x[3] <= y[3]
        last(S) == CHOOSE x \in S : \A y \in S : later(x, y)
        move(x, M) ==
          IF count(M, x[1]) < replicas /\ count(M, x[2]) > replicas
             /\ x[3] \notin DOMAIN M
          THEN [p \in DOMAIN M \cup {x[3]} |-> IF p = x[3] THEN x[1] ELSE M[p]]
          ELSE M
    IN IF \E s \in 0 .. n - 1 : L.primaryOf[s] = NoPod \/ handingOver(L, s)
       THEN << >>
       ELSE MapThenFoldSet(move, << >>, LAMBDA x : x, last, steps)

\* The layouts planShardLayout may return for n shards of replicas + 1 pods,
\* given the labels of the pods that exist and the answers polled.
planShardLayout(n, replicas, label, polled) ==
    LET wanted == 0 .. n * (replicas + 1) - 1
        names  == wanted \cup DOMAIN label
        doomed == names \ wanted
        st == [p \in names \cup DOMAIN polled |->
                 IF p \in DOMAIN polled THEN polled[p] ELSE Silent]
        lb == [p \in names |-> IF p \in DOMAIN label THEN label[p]
                               ELSE [shard |-> None, primary |-> FALSE]]
        shards == 0 .. n + Cardinality(names)
        owners == {p \in names : st[p].slots # {}}
        L0 == [shardOf |-> [p \in names |-> None],
               primaryOf |-> [s \in shards |-> NoPod],
               ownerOf |-> [s \in shards |-> NoPod],
               moves |-> << >>]
        L1 == ClaimOwners(L0, owners, doomed, n, st)
        L2 == PlaceFollowers(L1, names, doomed, n, lb, st)
        L3 == FillPrimaries(L2, names, doomed, n)
    IN {[L EXCEPT !.moves = planReplicaMoves(L, doomed, n, replicas, st)] :
          L \in {Balance(M, names, doomed, n) :
                   M \in AppointHeirs(L3, doomed, n)}}
=============================================================================

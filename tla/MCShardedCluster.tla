-------------------------- MODULE MCShardedCluster --------------------------
EXTENDS ShardedCluster

Shape(n, r) == [shards |-> n, replicas |-> r]
Course(from, to, running, swapped, faults, cuts, unfences) ==
    [from |-> from, to |-> to, running |-> running, swapped |-> swapped,
     outdated |-> {}, edits |-> 1, faults |-> faults, cuts |-> cuts, unfences |-> unfences]

\* A cluster of three shards is created and grows to four, with a fault, or
\* with a cut; or it has come up before, and meets both.
Grow(running, faults, cuts) ==
    Course(Shape(3, 0), Shape(4, 0), running, {}, faults, cuts, 0)
\* A cluster of four shards, two of them failed over, shrinks to three.
Shrink == Course(Shape(4, 1), Shape(3, 1), TRUE, {2, 3}, 0, 1, 0)
\* A cluster two of whose shards are failed over gives up its replicas.
Thin == Course(Shape(3, 1), Shape(3, 0), TRUE, {0, 1}, 1, 1, 0)
ThinByHand == Course(Shape(3, 1), Shape(3, 0), TRUE, {0, 1}, 0, 1, 1)

\* A rolling update of a cluster without replicas, and the end of one of a
\* cluster with replicas: its last two shards, and its last.
Update(sh, behind, faults, cuts) ==
    [Course(sh, sh, TRUE, {}, faults, cuts, 0) EXCEPT
       !.outdated = behind, !.edits = 0]
RollPrimaries == Update(Shape(3, 0), 0 .. 2, 1, 1)
RollTwoShards == Update(Shape(3, 1), {0, 1, 3, 4}, 0, 0)
RollLastShard == Update(Shape(3, 1), {0, 3}, 0, 1)

AllCourses == {Grow(FALSE, 1, 0), Grow(FALSE, 0, 1), Grow(TRUE, 1, 1), Shrink, Thin,
               ThinByHand, RollPrimaries, RollTwoShards, RollLastShard}
ThinTwice == {Course(Shape(3, 1), Shape(3, 0), TRUE, {}, 2, 0, 0)}
=============================================================================

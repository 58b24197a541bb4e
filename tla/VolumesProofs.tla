--------------------------- MODULE VolumesProofs ---------------------------
\* The volumes fit their claims, and every fence outside the primary is that of a
\* reconcile that was cut off, for any number of instances, sizes, windows,
\* faults and aborted reconciles.
EXTENDS Volumes, FiniteSetTheorems, TLAPS

Copies == [open : BOOLEAN, reuse : BOOLEAN, size : NoClaim .. size]
Handovers == [from : Pod, to : Pod, planned : BOOLEAN]

\* A running cluster is typed.
LEMMA InitTyped == Init => TypeOK
  <1> SUFFICES ASSUME Init PROVE TypeOK
    OBVIOUS
  <1> USE VolumesAssumption DEF Init, NoClaim
  <1>1. 0 \in Pod
    BY DEF Pod
  <1>2. ASSUME NEW p \in Pod PROVE Fits(p)
    BY <1>2 DEF Fits
  <1>3. copy \in Copies /\ handover \in Handovers
    BY <1>1 DEF Unread, NoHandover, Copies, Handovers
  <1>4. reuse \in BOOLEAN /\ pc \notin {"decide", "claims", "recycle"}
    BY Zenon
  <1>5. /\ claim \in [Pod -> NoClaim .. MaxSize] /\ fs \in [Pod -> NoClaim .. MaxSize]
        /\ pod \in [Pod -> {"absent", "pending", "down", "up"}]
    OBVIOUS
  <1>6. size \in 1 .. MaxSize /\ windows \in 0 .. MaxWindows
        /\ faults \in 0 .. MaxFaults /\ aborts \in 0 .. MaxAborts
    OBVIOUS
  <1> QED
    BY <1>1, <1>2, <1>3, <1>4, <1>5, <1>6, Zenon DEF TypeOK, Copies, Handovers

\* What a reconcile holds when it ends is typed.
LEMMA DoneTyped ==
  ASSUME TypeOK, Done, size' = size
  PROVE  /\ pc' = "idle" /\ maint' \in BOOLEAN /\ copy' \in Copies /\ copy' \in Copies'
         /\ polled' \subseteq Pod /\ toRestart' \subseteq Pod /\ handover' \in Handovers
  <1>1. 0 \in Pod
    BY VolumesAssumption DEF Pod
  <1>2. Unread \in Copies
    BY DEF Unread, Copies, NoClaim, TypeOK
  <1>3. NoHandover \in Handovers
    BY <1>1 DEF NoHandover, Handovers
  <1>4. Copies' = Copies
    BY DEF Copies
  <1> QED
    BY <1>2, <1>3, <1>4, Zenon DEF Done

\* So is what the first calls of a failover or a switchover leave.
LEMMA HandoverTyped ==
  ASSUME TypeOK, size' = size, NEW connected \in SUBSET Pod, NEW planned \in BOOLEAN,
         BeginHandover(connected, planned) \/ NoCandidate
  PROVE  /\ fenced' \subseteq Pod /\ pc' \in {"idle", "promote"}
         /\ maint' \in BOOLEAN /\ copy' \in Copies' /\ handover' \in Handovers
         /\ polled' \subseteq Pod /\ toRestart' \subseteq Pod
  <1>1. fenced' \subseteq Pod
    BY DEF BeginHandover, NoCandidate, TypeOK
  <1>2. CASE NoCandidate
    BY <1>1, <1>2, DoneTyped DEF NoCandidate
  <1>3. CASE BeginHandover(connected, planned)
    BY <1>1, <1>3 DEF BeginHandover, TypeOK, Copies, Handovers
  <1> QED
    BY <1>2, <1>3

\* Every step of the operator's that leaves the pods alone preserves the types.
LEMMA CallsTyped ==
  ASSUME TypeOK,
         \/ reconcileMaintenance \/ Failover \/ GoOn \/ recyclePVCsForMissingPods
         \/ promoteInstance \/ publishPrimary \/ clearFence
  PROVE  TypeOK'
  <1> USE VolumesAssumption DEF NoClaim, spec, bounds
  <1>a. /\ Current \in [open : BOOLEAN, reuse : BOOLEAN, size : NoClaim .. size]
        /\ Current.size # NoClaim
    BY DEF Current, TypeOK
  <1>1. CASE reconcileMaintenance
    BY <1>1, <1>a DEF reconcileMaintenance, TypeOK, Fits, HasIP, status, volumes
  <1>2. CASE Failover
    <2> DEFINE connected == cached \cap Up
    <2>1. connected \in SUBSET Pod /\ FALSE \in BOOLEAN /\ size' = size
      BY <1>2 DEF Failover, Up
    <2>2. BeginHandover(connected, FALSE)
      BY <1>2 DEF Failover
    <2>3. /\ fenced' \subseteq Pod /\ pc' \in {"idle", "promote"}
          /\ maint' \in BOOLEAN /\ copy' \in Copies' /\ handover' \in Handovers
          /\ polled' \subseteq Pod /\ toRestart' \subseteq Pod
      <3> HIDE DEF connected
      <3> QED
        BY <2>1, <2>2, HandoverTyped
    <2>4. \A p \in Pod : Fits(p)'
      BY <1>2 DEF Failover, TypeOK, Fits, HasIP, volumes
    <2> QED
      BY <1>2, <2>3, <2>4 DEF Failover, TypeOK, volumes, Copies, Handovers
  <1>3. CASE GoOn
    <2>1. \A p \in Pod : Fits(p)'
      BY <1>3 DEF GoOn, TypeOK, Fits, HasIP, volumes
    <2>2. CASE Done
      <3>1. size' = size
        BY <1>3 DEF GoOn
      <3> QED
        BY <1>3, <2>1, <2>2, <3>1, DoneTyped
        DEF GoOn, TypeOK, volumes, status, Copies, Handovers
    <2>3. CASE /\ pc' = "recycle" /\ polled' = cached \cap Up
               /\ copy' \in {copy, Current}
               /\ UNCHANGED <<maint, toRestart, handover>>
      <3>1. copy' \in [open : BOOLEAN, reuse : BOOLEAN, size : NoClaim .. size]
            /\ copy'.size # NoClaim
        BY <1>a, <1>3, <2>3 DEF GoOn, TypeOK
      <3>2. polled' \subseteq Pod
        BY <2>3 DEF Up
      <3> QED
        BY <1>3, <2>1, <2>3, <3>1, <3>2 DEF GoOn, TypeOK, volumes, status
    <2> QED
      BY <1>3, <2>2, <2>3 DEF GoOn
  <1>4. CASE recyclePVCsForMissingPods
    BY <1>4 DEF recyclePVCsForMissingPods, TypeOK, Fits, HasIP, status
  <1>5. CASE promoteInstance \/ publishPrimary \/ clearFence
    <2>1. \A p \in Pod : Fits(p)'
      BY <1>5 DEF promoteInstance, publishPrimary, clearFence, TypeOK, Fits, HasIP,
                  volumes
    <2>2. primary' \in Pod /\ fenced' \subseteq Pod /\ size' = size
      BY <1>5 DEF promoteInstance, publishPrimary, clearFence, TypeOK, status
    <2>3. CASE Done
      BY <1>5, <2>1, <2>2, <2>3, DoneTyped
      DEF promoteInstance, publishPrimary, clearFence, TypeOK, volumes, status,
          Copies, Handovers
    <2>4. CASE /\ pc' \in {"publish", "unfence"}
               /\ UNCHANGED <<maint, copy, polled, toRestart, handover>>
      BY <1>5, <2>1, <2>2, <2>4
      DEF promoteInstance, publishPrimary, clearFence, TypeOK, volumes, status
    <2> QED
      BY <1>5, <2>3, <2>4 DEF promoteInstance, publishPrimary, clearFence
  <1> QED
    BY <1>1, <1>2, <1>3, <1>4, <1>5

\* So do the steps that grow claims, and create and delete pods.
LEMMA PodsTyped ==
  ASSUME TypeOK, reconcilePVCs \/ reconcilePods \/ restartPodsForPendingResize
  PROVE  TypeOK'
  <1> USE VolumesAssumption DEF NoClaim, spec, bounds
  <1>a. size' = size
    BY DEF reconcilePVCs, Claims, reconcilePods, restartPodsForPendingResize
  <1>1. CASE reconcilePVCs
    <2> USE <1>1 DEF reconcilePVCs, Claims
    <2>1. copy.size \in 1 .. size /\ size \in 1 .. MaxSize
      BY DEF TypeOK
    <2>2. ASSUME NEW p \in Pod
          PROVE /\ claim'[p] \in NoClaim .. MaxSize /\ fs'[p] \in NoClaim .. MaxSize
                /\ Fits(p)'
      BY <2>1, <2>2 DEF TypeOK, Fits, HasIP
    <2>3. claim' \in [Pod -> NoClaim .. MaxSize] /\ fs' \in [Pod -> NoClaim .. MaxSize]
      BY <2>2
    <2>4. resizing' \in BOOLEAN
      OBVIOUS
    <2>5. /\ pc' \in {"idle", "pods"} /\ maint' \in BOOLEAN
          /\ polled' \subseteq Pod /\ toRestart' \subseteq Pod
          /\ copy' \in Copies' /\ handover' \in Handovers
      <3>1. CASE Done
        BY <1>a, <3>1, DoneTyped
      <3>2. CASE /\ pc' = "pods" /\ toRestart' = pending
                 /\ UNCHANGED <<maint, copy, polled, handover>>
        BY <1>a, <3>2 DEF TypeOK, Copies, Handovers
      <3> QED
        BY <3>1, <3>2
    <2> QED
      BY <2>2, <2>3, <2>4, <2>5 DEF TypeOK, Copies, Handovers
  <1>2. CASE reconcilePods
    <2> USE <1>2 DEF reconcilePods
    <2>1. /\ pc' \in {"idle", "restart"} /\ maint' \in BOOLEAN
          /\ polled' \subseteq Pod /\ toRestart' \subseteq Pod
          /\ copy' \in Copies' /\ handover' \in Handovers
      <3>1. CASE Done
        BY <1>a, <3>1, DoneTyped
      <3>2. CASE pc' = "restart" /\ UNCHANGED <<maint, copy, polled, toRestart, handover>>
        BY <1>a, <3>2 DEF TypeOK, Copies, Handovers
      <3> QED
        BY <3>1, <3>2
    <2>2. pod' \in [Pod -> {"absent", "pending", "down", "up"}] /\ HasIP' \subseteq HasIP
      BY DEF TypeOK, HasIP
    <2>3. \A p \in Pod : Fits(p)'
      BY <2>2 DEF TypeOK, Fits, volumes
    <2> QED
      BY <2>1, <2>2, <2>3 DEF TypeOK, status, volumes, Copies, Handovers
  <1>3. CASE restartPodsForPendingResize
    <2>1. \/ \E p : Delete(p)
          \/ UNCHANGED <<pod, fenced>> /\ Done
          \/ (BeginHandover(polled, TRUE) \/ NoCandidate) /\ UNCHANGED pod
      BY <1>3, Zenon DEF restartPodsForPendingResize
    <2>2. /\ fenced' \subseteq Pod /\ pc' \in {"idle", "promote"}
          /\ maint' \in BOOLEAN /\ copy' \in Copies' /\ handover' \in Handovers
          /\ polled' \subseteq Pod /\ toRestart' \subseteq Pod
      <3>1. CASE Done /\ fenced' = fenced
        BY <1>a, <3>1, DoneTyped DEF TypeOK
      <3>2. CASE BeginHandover(polled, TRUE) \/ NoCandidate
        <4>1. polled \in SUBSET Pod /\ TRUE \in BOOLEAN
          BY DEF TypeOK
        <4> QED
          BY <1>a, <3>2, <4>1, HandoverTyped
      <3> QED
        BY <2>1, <3>1, <3>2 DEF Delete
    <2>3. /\ pod' \in [Pod -> {"absent", "pending", "down", "up"}]
          /\ HasIP' \subseteq HasIP
      <3>1. CASE pod' = pod
        BY <3>1 DEF TypeOK, HasIP
      <3>2. ASSUME NEW p, pod' = [pod EXCEPT ![p] = "absent"]
            PROVE  /\ pod' \in [Pod -> {"absent", "pending", "down", "up"}]
                   /\ HasIP' \subseteq HasIP
        BY <3>2 DEF TypeOK, HasIP
      <3> QED
        BY <2>1, <3>1, <3>2 DEF Delete
    <2>4. \A p \in Pod : Fits(p)'
      BY <1>3, <2>3 DEF restartPodsForPendingResize, TypeOK, Fits, volumes
    <2> QED
      BY <1>3, <2>2, <2>3, <2>4
      DEF restartPodsForPendingResize, TypeOK, volumes, Copies, Handovers
  <1> QED
    BY <1>1, <1>2, <1>3

\* Every step of Kubernetes and of the instances preserves the types: only a
\* claim deleted before can vanish, and a resynchronisation only copies.
LEMMA InstancesTyped ==
  ASSUME TypeOK, NEW p \in Pod,
         Mount(p) \/ Boot(p) \/ Fence(p) \/ Resync(p) \/ Expand(p) \/ Vanish(p) \/ Fault(p)
  PROVE  TypeOK'
  <1> USE VolumesAssumption DEF NoClaim, spec, status, reconciler, bounds
  <1>1. CASE Mount(p)
    <2>1. \A q \in Pod : Fits(q)'
      BY <1>1 DEF Mount, TypeOK, Fits, HasIP
    <2> QED
      BY <1>1, <2>1 DEF Mount, TypeOK
  <1>2. CASE Boot(p) \/ Fence(p)
    <2>1. HasIP' \subseteq HasIP
      BY <1>2 DEF Boot, Fence, HasIP, TypeOK
    <2>2. \A q \in Pod : Fits(q)'
      BY <1>2, <2>1 DEF Boot, Fence, TypeOK, Fits, volumes
    <2> QED
      BY <1>2, <2>2 DEF Boot, Fence, TypeOK, volumes
  <1>3. CASE Resync(p)
    <2>1. \A q \in Pod : Fits(q)'
      BY <1>3 DEF Resync, Up, TypeOK, Fits, HasIP, volumes
    <2> QED
      BY <1>3, <2>1 DEF Resync, TypeOK, volumes
  <1>4. CASE Expand(p)
    BY <1>4 DEF Expand, TypeOK, Fits, HasIP
  <1>5. CASE Vanish(p)
    <2>1. \A q \in Pod : Fits(q)'
      BY <1>5 DEF Vanish, TypeOK, Fits, HasIP
    <2> QED
      BY <1>5, <2>1 DEF Vanish, TypeOK
  <1>6. CASE Fault(p)
    <2>1. HasIP' \subseteq HasIP
      BY <1>6 DEF Fault, HasIP, Up, TypeOK
    <2>2. \A q \in Pod : Fits(q)'
      BY <1>6, <2>1 DEF Fault, TypeOK, Fits, volumes
    <2> QED
      BY <1>6, <2>2 DEF Fault, TypeOK, volumes
  <1> QED
    BY <1>1, <1>2, <1>3, <1>4, <1>5, <1>6

\* So do the rest: a crash of the operator, its cache, and the user.
LEMMA OthersTyped ==
  ASSUME TypeOK, Abort \/ CacheSync \/ Grow \/ Window
  PROVE  TypeOK'
  <1> USE VolumesAssumption DEF NoClaim, spec, status, volumes, bounds
  <1>1. CASE Abort
    <2>1. size' = size /\ Done /\ aborts' \in 0 .. MaxAborts
      BY <1>1 DEF Abort, TypeOK
    <2>2. \A q \in Pod : Fits(q)'
      BY <1>1 DEF Abort, TypeOK, Fits, HasIP
    <2> QED
      BY <1>1, <2>1, <2>2, DoneTyped DEF Abort, TypeOK, Copies, Handovers
  <1>2. CASE CacheSync
    BY <1>2 DEF CacheSync, Existing, reconciler, TypeOK, Fits, HasIP
  <1>3. CASE Grow
    <2>1. \A q \in Pod : Fits(q)'
      BY <1>3 DEF Grow, TypeOK, Fits, HasIP
    <2>2. size' \in 1 .. MaxSize /\ NoClaim .. size \subseteq NoClaim .. size'
      BY <1>3 DEF Grow, TypeOK
    <2>3. copy' \in [open : BOOLEAN, reuse : BOOLEAN, size : NoClaim .. size']
      BY <1>3, <2>2 DEF Grow, reconciler, TypeOK
    <2> QED
      BY <1>3, <2>1, <2>2, <2>3 DEF Grow, reconciler, TypeOK
  <1>4. CASE Window
    <2>1. window' \in BOOLEAN /\ reuse' \in BOOLEAN
      BY <1>4, Zenon DEF Window, TypeOK
    <2> QED
      BY <1>4, <2>1 DEF Window, reconciler, TypeOK, Fits, HasIP
  <1> QED
    BY <1>1, <1>2, <1>3, <1>4

LEMMA StepTyped == TypeOK /\ [Next]_vars => TypeOK'
  <1>1. TypeOK /\ UNCHANGED vars => TypeOK'
    BY DEF vars, spec, status, volumes, reconciler, bounds, TypeOK, Fits, HasIP
  <1> QED
    BY <1>1, CallsTyped, PodsTyped, InstancesTyped, OthersTyped DEF Next, Operator

\* The variables keep their types: no file system is ever larger than its
\* volume, no claim is ahead of the spec, and no pod runs without a claim.
THEOREM VolumesTyped == Spec => []TypeOK
  BY InitTyped, StepTyped, PTL DEF Spec

----------------------------------------------------------------------------
\* Until its successor is published, the pod a handover fenced is the primary.
FromPrimary == pc \in {"promote", "publish"} => handover.from = primary

\* The fences outside the primary, but for the one about to be lifted.
Left == (fenced \ {primary}) \ (IF pc = "unfence" THEN {handover.from} ELSE {})

Inv == TypeOK /\ FromPrimary /\ Cardinality(Left) <= aborts

\* Of finitely many pods, a part has no more elements than the whole.
LEMMA NoMore ==
  ASSUME NEW T \in SUBSET Pod, NEW S \in SUBSET T
  PROVE  /\ Cardinality(S) \in Nat /\ Cardinality(T) \in Nat
         /\ Cardinality(S) <= Cardinality(T)
  <1>1. IsFiniteSet(Pod)
    BY VolumesAssumption, FS_Interval DEF Pod
  <1>2. IsFiniteSet(T)
    BY <1>1, FS_Subset
  <1> QED
    BY <1>2, FS_Subset, FS_CardinalityType

\* One pod more makes a set larger by one at most.
LEMMA OneMore ==
  ASSUME NEW S, NEW x, S \cup {x} \in SUBSET Pod
  PROVE  Cardinality(S \cup {x}) <= Cardinality(S) + 1
  <1>1. IsFiniteSet(Pod)
    BY VolumesAssumption, FS_Interval DEF Pod
  <1>2. S \in SUBSET Pod
    OBVIOUS
  <1>3. IsFiniteSet(S)
    BY <1>1, <1>2, FS_Subset
  <1>4. Cardinality(S) \in Nat
    BY <1>3, FS_CardinalityType
  <1>5. Cardinality(S \cup {x}) = IF x \in S THEN Cardinality(S) ELSE Cardinality(S) + 1
    BY <1>3, FS_AddElement
  <1> QED
    BY <1>4, <1>5

\* A step that leaves no more fences outside the primary, and does not lower the
\* number of aborts, keeps the count.
LEMMA CountKept ==
  ASSUME Inv, TypeOK', FromPrimary', Left' \subseteq Left, aborts' >= aborts
  PROVE  Inv'
  <1>1. Left \in SUBSET Pod
    BY DEF Left, Inv, TypeOK
  <1>2. /\ Cardinality(Left') \in Nat /\ Cardinality(Left) \in Nat
        /\ Cardinality(Left') <= Cardinality(Left)
    BY <1>1, NoMore
  <1>3. aborts \in Nat /\ aborts' \in Nat
    BY VolumesAssumption DEF Inv, TypeOK
  <1>4. (Cardinality(Left) <= aborts)'
    BY <1>2, <1>3 DEF Inv
  <1> QED
    BY <1>4 DEF Inv

\* The first calls of a handover fence the primary.
LEMMA BeginKept ==
  ASSUME Inv, TypeOK', NEW connected, NEW planned,
         BeginHandover(connected, planned) \/ NoCandidate,
         pc # "unfence", primary' = primary, aborts' = aborts
  PROVE  Inv'
  <1>1. pc' \in {"idle", "promote"} /\ FromPrimary'
    BY DEF BeginHandover, NoCandidate, Done, FromPrimary
  <1>2. Left' \subseteq Left
    BY <1>1 DEF Left, BeginHandover, NoCandidate
  <1>3. aborts' >= aborts
    BY VolumesAssumption DEF Inv, TypeOK
  <1> QED
    BY <1>1, <1>2, <1>3, CountKept

\* Every step keeps the count: publishing a primary moves the handover's fence
\* outside it, where it is about to be lifted; a reconcile cut off there leaves
\* one fence more, and is one abort more.
LEMMA FencesStep ==
  ASSUME Inv, [Next]_vars
  PROVE  Inv'
  <1>t. TypeOK'
    BY StepTyped DEF Inv
  <1>n. aborts \in Nat
    BY VolumesAssumption DEF Inv, TypeOK
  <1>1. CASE UNCHANGED <<primary, fenced, pc, handover, aborts>>
    <2>1. FromPrimary' /\ Left' = Left
      BY <1>1 DEF Inv, FromPrimary, Left
    <2> QED
      BY <1>1, <1>t, <1>n, <2>1, CountKept
  <1>2. ASSUME UNCHANGED <<primary, fenced, aborts>>, pc # "unfence",
               Done \/ pc' \in {"decide", "recycle", "claims", "pods", "restart"}
        PROVE  Inv'
    <2>1. pc' \notin {"promote", "publish", "unfence"}
      BY <1>2 DEF Done
    <2>2. FromPrimary' /\ Left' \subseteq Left
      BY <1>2, <2>1 DEF FromPrimary, Left
    <2> QED
      BY <1>2, <1>t, <1>n, <2>2, CountKept
  <1>3. CASE \/ reconcileMaintenance \/ GoOn \/ recyclePVCsForMissingPods
             \/ reconcilePVCs \/ reconcilePods
    <2>1. UNCHANGED <<primary, fenced, aborts>> /\ pc # "unfence"
      BY <1>3 DEF reconcileMaintenance, GoOn, recyclePVCsForMissingPods, reconcilePVCs,
                  Claims, reconcilePods, status, bounds
    <2>2. Done \/ pc' \in {"decide", "recycle", "claims", "pods", "restart"}
      BY <1>3 DEF reconcileMaintenance, GoOn, recyclePVCsForMissingPods, reconcilePVCs,
                  Claims, reconcilePods
    <2> QED
      BY <1>2, <2>1, <2>2
  <1>4. CASE Failover
    BY <1>4, <1>t, BeginKept DEF Failover, bounds
  <1>5. CASE restartPodsForPendingResize
    <2>1. pc # "unfence" /\ primary' = primary /\ aborts' = aborts
      BY <1>5 DEF restartPodsForPendingResize, bounds
    <2>2. \/ Done /\ fenced' = fenced
          \/ BeginHandover(polled, TRUE) \/ NoCandidate
      BY <1>5, Zenon DEF restartPodsForPendingResize, Delete
    <2> QED
      BY <1>2, <1>t, <2>1, <2>2, BeginKept
  <1>6. CASE promoteInstance
    <2>1. UNCHANGED <<primary, fenced, aborts>> /\ pc = "promote"
      BY <1>6 DEF promoteInstance, status, bounds
    <2>2. CASE Done
      BY <1>2, <2>1, <2>2
    <2>3. CASE pc' = "publish" /\ handover' = handover
      <3>1. FromPrimary' /\ Left' \subseteq Left
        BY <2>1, <2>3 DEF Inv, FromPrimary, Left
      <3> QED
        BY <1>t, <1>n, <2>1, <3>1, CountKept
    <2> QED
      BY <1>6, <2>2, <2>3 DEF promoteInstance
  <1>7. CASE publishPrimary
    <2>1. FromPrimary' /\ aborts' = aborts
      BY <1>7 DEF publishPrimary, FromPrimary, bounds
    <2>2. Left' \subseteq Left
      BY <1>7 DEF publishPrimary, Left, Inv, FromPrimary
    <2> QED
      BY <1>t, <1>n, <2>1, <2>2, CountKept
  <1>8. CASE clearFence
    <2>1. FromPrimary' /\ aborts' = aborts
      BY <1>8 DEF clearFence, Done, FromPrimary, bounds
    <2>2. Left' \subseteq Left
      BY <1>8 DEF clearFence, Done, Left
    <2> QED
      BY <1>t, <1>n, <2>1, <2>2, CountKept
  <1>9. CASE Abort
    <2>1. aborts' = aborts + 1 /\ FromPrimary'
      BY <1>9 DEF Abort, Done, FromPrimary
    <2>2. Left' \subseteq Left \cup {handover.from}
      <3>1. pc' # "unfence" /\ primary' = primary /\ fenced' = fenced
        BY <1>9 DEF Abort, Done, status
      <3>2. Left' = fenced \ {primary}
        BY <3>1 DEF Left
      <3> QED
        BY <3>2, Zenon DEF Left
    <2>3. Left \cup {handover.from} \in SUBSET Pod
      <3>1. handover.from \in Pod
        BY DEF Inv, TypeOK
      <3>2. Left \subseteq fenced /\ fenced \subseteq Pod
        BY Zenon DEF Left, Inv, TypeOK
      <3> QED
        BY <3>1, <3>2
    <2>4. Cardinality(Left \cup {handover.from}) <= Cardinality(Left) + 1
      BY <2>3, OneMore
    <2>5. (Cardinality(Left) <= aborts)'
      <3>1. /\ Cardinality(Left') \in Nat /\ Cardinality(Left \cup {handover.from}) \in Nat
            /\ Cardinality(Left') <= Cardinality(Left \cup {handover.from})
        BY <2>2, <2>3, NoMore
      <3>2. Cardinality(Left) \in Nat
        BY <2>3, NoMore
      <3> QED
        BY <1>n, <2>1, <2>4, <3>1, <3>2 DEF Inv
    <2> QED
      BY <1>t, <2>1, <2>5 DEF Inv
  <1>10. CASE \/ CacheSync \/ Grow \/ Window \/ UNCHANGED vars
              \/ \E p \in Pod : \/ Mount(p) \/ Boot(p) \/ Fence(p) \/ Resync(p)
                                \/ Expand(p) \/ Vanish(p) \/ Fault(p)
    <2>1. UNCHANGED <<primary, fenced, pc, handover, aborts>>
      BY <1>10 DEF CacheSync, Grow, Window, Mount, Boot, Fence, Resync, Expand, Vanish,
                   Fault, vars, status, reconciler, bounds
    <2> QED
      BY <1>1, <2>1
  <1> QED
    BY <1>3, <1>4, <1>5, <1>6, <1>7, <1>8, <1>9, <1>10 DEF Next, Operator

\* A fence stays on a pod that is not the primary only where a reconcile was cut
\* off: failover and switchover leave no more of them than there were such ends.
THEOREM FencesAreLifted == Spec => []OneFencePerCut
  <1>1. Init => Inv
    <2>1. ASSUME Init PROVE Inv
      <3>1. Left = {} /\ FromPrimary /\ aborts = 0
        BY <2>1 DEF Init, Left, FromPrimary
      <3> QED
        BY <2>1, <3>1, InitTyped, FS_EmptySet DEF Inv
    <2> QED
      BY <2>1
  <1>2. Inv => OneFencePerCut
    <2>1. ASSUME Inv, pc # "unfence" PROVE fenced \ {primary} = Left
      BY <2>1 DEF Left
    <2> QED
      BY <2>1 DEF Inv, OneFencePerCut
  <1> QED
    BY <1>1, <1>2, FencesStep, PTL DEF Spec
=============================================================================

-------------------------- MODULE StandaloneProofs --------------------------
(***************************************************************************)
(* Proofs about Standalone for every number of pods and every bound: type  *)
(* correctness, that the operator implements PrimaryHandover, when it may  *)
(* delete the pod of the primary, and when it may replace the primary.     *)
(***************************************************************************)
EXTENDS Standalone, FiniteSetTheorems, WellFoundedInduction, TLAPS

LEMMA PodFacts == /\ Pod \subseteq Int
                  /\ 0 \in Pod
                  /\ NoPod \notin Pod /\ Gone \notin Pod
                  /\ Idle \notin Pod /\ Stop \notin Pod
BY PodsAssumption DEF Pod, NoPod, Gone, Idle, Stop

\* A set of pods that is not empty has a lowest and a highest ordinal.
LEMMA LowestAndHighest ==
    ASSUME NEW S \in SUBSET Pod, S # {}
    PROVE  Min(S) \in S /\ Max(S) \in S
<1>1. \A x \in Pod : x \in Nat /\ MaxPods - x \in Nat
  BY PodsAssumption DEF Pod
<1>2. Min(S) \in S
  <2>1. PICK x \in S : \A y \in S : ~ (<<y, x>> \in OpToRel(<, Nat))
    BY <1>1, NatLessThanWellFounded, WFMin, Zenon
  <2>2. ASSUME NEW y \in S PROVE x =< y
    <3>1. x \in Nat /\ y \in Nat
      BY <1>1
    <3>2. ~ (y < x)
      BY <2>1, <3>1, Zenon DEF OpToRel
    <3> QED
      BY <3>1, <3>2
  <2> QED
    BY <2>2 DEF Min
<1>3. Max(S) \in S
  <2> DEFINE T == {MaxPods - y : y \in S}
  <2>1. T \subseteq Nat /\ T # {}
    BY <1>1
  <2>2. PICK t \in T : \A u \in T : ~ (<<u, t>> \in OpToRel(<, Nat))
    BY <2>1, NatLessThanWellFounded, WFMin, Zenon
  <2>3. PICK x \in S : t = MaxPods - x
    BY <2>2, Zenon
  <2>4. ASSUME NEW y \in S PROVE x >= y
    <3>1. x \in Nat /\ y \in Nat /\ MaxPods \in Nat /\ MaxPods - y \in T
      BY <1>1, PodsAssumption
    <3>2. MaxPods - y \in Nat /\ MaxPods - x \in Nat
      BY <1>1
    <3>3. ~ (MaxPods - y < MaxPods - x)
      BY <2>2, <2>3, <3>1, <3>2, Zenon DEF OpToRel
    <3> QED
      BY <3>1, <3>3
  <2> QED
    BY <2>4 DEF Max
<1> QED
  BY <1>2, <1>3

\* Init establishes TypeOK.
LEMMA TypeInit == Init => TypeOK
<1> SUFFICES ASSUME Init PROVE TypeOK
  OBVIOUS
<1> USE PodsAssumption, BoundsAssumption DEF Init
<1>1. /\ pod \in [Pod -> PodState] /\ podRev \in [Pod -> 0 .. MaxRevision]
      /\ of \in [Pod -> Pod \cup {NoPod, Gone}]
      /\ plan \in [Pod -> Pod \cup {NoPod, Idle, Stop}]
  BY DEF PodState
<1>2. /\ desired \in 1 .. MaxPods /\ revision \in 0 .. MaxRevision
      /\ faults \in 0 .. MaxFaults /\ aborts \in 0 .. MaxAborts
      /\ scalings \in 0 .. MaxScalings
  OBVIOUS
<1>3. /\ primary \in Pod \cup {NoPod} /\ former \in Pod \cup {NoPod}
      /\ cand \in Pod \cup {NoPod}
  OBVIOUS
<1>4. approved \in BOOLEAN
  BY Zenon
<1>5. /\ fenced \subseteq Pod /\ reported \subseteq Pod
      /\ inflight \subseteq Pod /\ listed \subseteq Pod /\ polled \subseteq listed
      /\ connected \subseteq Pod /\ mem \subseteq Pod
  OBVIOUS
<1> QED
  BY <1>1, <1>2, <1>3, <1>4, <1>5 DEF TypeOK

\* Every step of the user preserves TypeOK.
LEMMA TypeUser == TypeOK /\ UserStep => TypeOK'
<1> SUFFICES ASSUME TypeOK, UserStep PROVE TypeOK'
  OBVIOUS
<1> USE PodsAssumption, BoundsAssumption
        DEF TypeOK, specVars, apiVars, podVars, ctlVars, boundVars
<1>1. CASE ChangeTemplate
  BY <1>1 DEF ChangeTemplate
<1>2. CASE ApproveUpdate
  BY <1>2 DEF ApproveUpdate
<1>3. CASE \E n \in 1 .. MaxPods : Scale(n)
  BY <1>3 DEF Scale
<1> QED
  BY <1>1, <1>2, <1>3 DEF UserStep

\* Every step of an instance, and every fault that hits one, preserves TypeOK.
LEMMA TypeInstance ==
    ASSUME TypeOK, NEW p \in Pod,
           InstanceStep(p) \/ RedisExits(p) \/ PodLost(p)
    PROVE  TypeOK'
<1> USE BoundsAssumption, PodFacts
        DEF TypeOK, specVars, apiVars, podVars, ctlVars, boundVars, PodState
<1>1. CASE AssignIP(p)
  BY <1>1 DEF AssignIP
<1>2. CASE BootRead(p)
  BY <1>2 DEF BootRead
<1>3. CASE BootStart(p)
  BY <1>3 DEF BootStart
<1>4. CASE InstanceRead(p)
  BY <1>4 DEF InstanceRead
<1>5. CASE InstanceStops(p)
  BY <1>5 DEF InstanceStops, ProcessGone
<1>6. CASE InstanceLeads(p)
  BY <1>6 DEF InstanceLeads
<1>7. CASE InstanceFollows(p)
  BY <1>7 DEF InstanceFollows
<1>8. CASE InstanceRetries(p)
  BY <1>8 DEF InstanceRetries
<1>9. CASE LatePromote(p)
  BY <1>9 DEF LatePromote
<1>10. CASE RedisExits(p)
  BY <1>10 DEF RedisExits, ProcessGone
<1>11. CASE PodLost(p)
  BY <1>11 DEF PodLost, DeletePods
<1> QED
  BY <1>1, <1>2, <1>3, <1>4, <1>5, <1>6, <1>7, <1>8, <1>9, <1>10, <1>11, Zenon
     DEF InstanceStep, InstanceActs

\* Polling and the decision taken from it preserve TypeOK.
LEMMA TypePoll ==
    ASSUME TypeOK, StartReconcile \/ (\E p \in Pod : Poll(p) \/ PollTimesOut(p))
           \/ UpdateStatus \/ ReconcileAborts
    PROVE  TypeOK'
<1> USE BoundsAssumption, PodFacts
        DEF TypeOK, specVars, apiVars, podVars, ctlVars, boundVars, PodState,
            Return, Goto
<1>1. CASE StartReconcile
  BY <1>1 DEF StartReconcile, HasIP
<1>2. CASE \E p \in Pod : Poll(p)
  BY <1>2 DEF Poll
<1>3. CASE \E p \in Pod : PollTimesOut(p)
  BY <1>3 DEF PollTimesOut
<1>4. CASE UpdateStatus
  BY <1>4, Zenon DEF UpdateStatus, MergedStatus, Existing
<1>5. CASE ReconcileAborts
  BY <1>5, SMTT(30) DEF ReconcileAborts
<1> QED
  BY <1>1, <1>2, <1>3, <1>4, <1>5

\* Every step of a failover or switchover preserves TypeOK.
LEMMA TypeFailover ==
    ASSUME TypeOK, FenceHeld, FailoverStep \/ PromoteTimesOut
    PROVE  TypeOK'
<1> USE BoundsAssumption, PodFacts
        DEF TypeOK, specVars, apiVars, podVars, ctlVars, boundVars, PodState,
            Return, Goto, FenceHeld
<1>1. CASE SetFence
  BY <1>1, Zenon DEF SetFence
<1>2. CASE PromoteInstance
  BY <1>2 DEF PromoteInstance
<1>3. CASE PromoteRefused
  BY <1>3 DEF PromoteRefused, HasIP
<1>4. CASE PromoteSkipped
  BY <1>4, Zenon DEF PromoteSkipped, HasIP
<1>5. CASE PromoteTimesOut
  BY <1>5 DEF PromoteTimesOut
<1>6. CASE PublishPrimary
  BY <1>6 DEF PublishPrimary
<1>7. CASE UpdateLeaderService
  BY <1>7 DEF UpdateLeaderService
<1>8. CASE ClearFence
  BY <1>8, Zenon DEF ClearFence
<1> QED
  BY <1>1, <1>2, <1>3, <1>4, <1>5, <1>6, <1>7, <1>8
     DEF FailoverStep

\* Deleting pods keeps the types of the pod variables.
LEMMA DeleteTypes ==
    ASSUME TypeOK, NEW S, DeletePods(S)
    PROVE  /\ pod' \in [Pod -> PodState] /\ podRev' = podRev
           /\ of' \in [Pod -> Pod \cup {NoPod, Gone}]
           /\ plan' \in [Pod -> Pod \cup {NoPod, Idle, Stop}]
           /\ inflight' \subseteq Pod
BY DEF TypeOK, DeletePods, PodState

\* Creating, scaling and rolling pods preserve TypeOK.
LEMMA TypePods ==
    ASSUME TypeOK, PodsStep
    PROVE  TypeOK'
<1> USE BoundsAssumption, PodFacts
        DEF TypeOK, specVars, apiVars, podVars, ctlVars, boundVars, PodState,
            Return, Goto
<1>1. CASE CreatePod
  BY <1>1, Zenon DEF CreatePod
<1>2. CASE ScalePods
  BY <1>2, DeleteTypes DEF ScalePods
<1>3. CASE ConsumeApproval
  BY <1>3, Zenon DEF ConsumeApproval
<1>4. CASE \E seen \in CachedPods : RollReplica(seen)
  BY <1>4, DeleteTypes DEF RollReplica
<1>5. CASE \E seen \in CachedPods : RollPrimary(seen)
  BY <1>5, DeleteTypes, Zenon DEF RollPrimary
<1>6. CASE \E seen \in CachedPods : RollDone(seen)
  BY <1>6 DEF RollDone
<1> QED
  BY <1>1, <1>2, <1>3, <1>4, <1>5, <1>6
     DEF PodsStep
-----------------------------------------------------------------------------
\* What FenceHeld and PrimaryHandover look at.
handoverVars == <<primary, fenced, pc, former, cand>>

\* The user and the instances touch none of it.
LEMMA OthersLeaveHandover ==
    UserStep \/ (\E p \in Pod : InstanceStep(p) \/ RedisExits(p)
                                \/ PodLost(p) \/ PollTimesOut(p))
      => UNCHANGED handoverVars
<1> USE DEF specVars, apiVars, podVars, ctlVars, boundVars, handoverVars
<1>1. UserStep => UNCHANGED handoverVars
  BY DEF UserStep, ChangeTemplate, ApproveUpdate, Scale
<1>2. ASSUME NEW p \in Pod
      PROVE  InstanceStep(p) => UNCHANGED handoverVars
  BY DEF InstanceStep, AssignIP, BootRead, BootStart, InstanceRead,
         InstanceActs, InstanceStops, InstanceLeads, InstanceFollows,
         InstanceRetries, LatePromote
<1>3. ASSUME NEW p \in Pod
      PROVE  RedisExits(p) \/ PodLost(p) \/ PollTimesOut(p)
               => UNCHANGED handoverVars
  BY Zenon DEF RedisExits, PodLost, PollTimesOut
<1> QED
  BY <1>1, <1>2, <1>3

\* One step of the system keeps FenceHeld and is a step of PrimaryHandover.
LEMMA HandoverStep ==
    ASSUME TypeOK, FenceHeld, [Next]_vars
    PROVE  FenceHeld' /\ [Handover!Next]_<<primary, fenced>>
<1> USE PodFacts DEF TypeOK, FenceHeld, specVars, apiVars, podVars, ctlVars,
        boundVars, Return, Goto, Handover!Next, Handover!Bootstrap,
        Handover!Fence, Handover!Replace, Handover!Release
<1>1. CASE UserStep \/ (\E p \in Pod : InstanceStep(p) \/ RedisExits(p)
                                       \/ PodLost(p) \/ PollTimesOut(p))
  BY <1>1, OthersLeaveHandover DEF handoverVars
<1>2. CASE UNCHANGED vars
  BY <1>2 DEF vars
<1>3. CASE StartReconcile \/ (\E p \in Pod : Poll(p))
  BY <1>3 DEF StartReconcile, Poll
<1>4. CASE UpdateStatus
  BY <1>4 DEF UpdateStatus, shouldTriggerFailover
<1>5. CASE SetFence
  BY <1>5, Zenon DEF SetFence
<1>6. CASE PromoteInstance \/ PromoteRefused \/ PromoteSkipped
           \/ PromoteTimesOut
  BY <1>6 DEF PromoteInstance, PromoteRefused, PromoteSkipped,
              PromoteTimesOut
<1>7. CASE PublishPrimary
  BY <1>7 DEF PublishPrimary
<1>8. CASE UpdateLeaderService
  BY <1>8 DEF UpdateLeaderService
<1>9. CASE ClearFence
  BY <1>9 DEF ClearFence
<1>10. CASE CreatePod \/ ScalePods \/ ConsumeApproval
  BY <1>10 DEF CreatePod, ScalePods, ConsumeApproval
<1>11. ASSUME NEW seen \in CachedPods,
              RollReplica(seen) \/ RollPrimary(seen) \/ RollDone(seen)
       PROVE  FenceHeld' /\ UNCHANGED <<primary, fenced>>
  BY <1>11 DEF RollReplica, RollPrimary, RollDone, CachedPods, Existing,
               Outdated
<1>12. CASE ReconcileAborts
  BY <1>12 DEF ReconcileAborts
<1> QED
  BY <1>1, <1>2, <1>3, <1>4, <1>5, <1>6, <1>7, <1>8, <1>9, <1>10, <1>11,
     <1>12, Zenon
     DEF Next, OperatorStep, FailoverStep, PodsStep, Fault

\* TypeOK needs FenceHeld: a promote request goes to a pod only because the
\* candidate is one.
LEMMA TypeStep ==
    ASSUME TypeOK, FenceHeld, [Next]_vars
    PROVE  TypeOK'
<1>1. CASE UNCHANGED vars
  BY <1>1 DEF TypeOK, vars, specVars, apiVars, podVars, ctlVars, boundVars
<1>2. CASE Next
  BY <1>2, TypeUser, TypeInstance, TypePoll, TypeFailover, TypePods
     DEF Next, OperatorStep, Fault
<1> QED
  BY <1>1, <1>2

\* For every number of pods and every number of faults and crashes: the
\* variables keep their types and, through every retry, the pod a failover or
\* switchover replaces is fenced from before the promotion until after the
\* status patch.
THEOREM FenceHeldThroughout == Spec => [](TypeOK /\ FenceHeld)
<1>1. Init => TypeOK /\ FenceHeld
  BY TypeInit DEF Init, FenceHeld
<1>2. TypeOK /\ FenceHeld /\ [Next]_vars => (TypeOK /\ FenceHeld)'
  BY TypeStep, HandoverStep
<1> QED
  BY <1>1, <1>2, PTL DEF Spec

\* The variables keep their types: whatever fails or arrives late, the primary,
\* the candidate and the fenced instances are pods.
THEOREM StandaloneTyped == Spec => []TypeOK
  BY FenceHeldThroughout, PTL

\* The operator implements PrimaryHandover: status.currentPrimary changes only
\* while the outgoing primary is fenced, and the fence on a primary is never
\* lifted.
THEOREM ImplementsHandover == Spec => HandoverSpec
<1>1. Init => Handover!Init
  BY DEF Init, Handover!Init
<1>2. TypeOK /\ FenceHeld /\ [Next]_vars
        => [Handover!Next]_<<primary, fenced>>
  BY HandoverStep
<1> QED
  BY <1>1, <1>2, FenceHeldThroughout, PTL DEF Spec, HandoverSpec, Handover!Spec
-----------------------------------------------------------------------------
\* The excuses RivalOnlyUnderFence accepts for a replica that turns master.
Excused(p) == p = primary \/ primary \in fenced \/ plan[p] = p \/ p \in inflight

NoRival == \A p \in Pod :
    p \in Masters' /\ pod[p] = "up" /\ p \notin Masters => Excused(p)

\* A step that leaves the pods alone, or only deletes some, makes no master.
LEMMA DeletionMakesNoMaster ==
    ASSUME TypeOK, NEW S, DeletePods(S) \/ UNCHANGED podVars
    PROVE  NoRival
BY PodFacts DEF NoRival, DeletePods, podVars, TypeOK, PodState, Masters, Gone,
                NoPod

\* The steps of an instance.
LEMMA InstanceRival ==
    ASSUME TypeOK, NEW p \in Pod,
           InstanceStep(p) \/ RedisExits(p) \/ PodLost(p)
    PROVE  NoRival
<1> USE PodFacts DEF TypeOK, PodState, NoRival, Masters, Excused, apiVars
<1>1. CASE AssignIP(p) \/ BootRead(p) \/ BootStart(p) \/ InstanceRead(p)
  BY <1>1 DEF AssignIP, BootRead, BootStart, InstanceRead
<1>2. CASE InstanceStops(p)
  BY <1>2 DEF InstanceStops, ProcessGone
<1>3. CASE InstanceLeads(p)
  BY <1>3 DEF InstanceLeads
<1>4. CASE InstanceFollows(p)
  BY <1>4 DEF InstanceFollows
<1>5. CASE InstanceRetries(p)
  BY <1>5 DEF InstanceRetries
<1>6. CASE LatePromote(p)
  BY <1>6 DEF LatePromote
<1>7. CASE RedisExits(p)
  BY <1>7 DEF RedisExits, ProcessGone
<1>8. CASE PodLost(p)
  BY <1>8, DeletionMakesNoMaster DEF PodLost
<1> QED
  BY <1>1, <1>2, <1>3, <1>4, <1>5, <1>6, <1>7, <1>8
     DEF InstanceStep, InstanceActs

\* The steps of the operator.
LEMMA OperatorRival ==
    ASSUME TypeOK, FenceHeld, OperatorStep \/ PromoteTimesOut
                              \/ ReconcileAborts
                              \/ (\E p \in Pod : PollTimesOut(p))
    PROVE  NoRival
<1>1. CASE PromoteInstance
  BY <1>1 DEF PromoteInstance, FenceHeld, TypeOK, NoRival, Masters, Excused
<1>2. CASE PromoteTimesOut
  BY <1>2 DEF PromoteTimesOut, NoRival, Masters
<1>3. CASE CreatePod
  BY <1>3 DEF CreatePod, TypeOK, PodState, NoRival, Masters
<1>4. CASE \/ StartReconcile \/ UpdateStatus \/ SetFence \/ PromoteRefused
           \/ PromoteSkipped \/ PublishPrimary \/ UpdateLeaderService
           \/ ClearFence \/ ConsumeApproval \/ ReconcileAborts
           \/ \E p \in Pod : Poll(p) \/ PollTimesOut(p)
  <2>1. UNCHANGED podVars
    BY <1>4 DEF StartReconcile, UpdateStatus, SetFence, PromoteRefused,
                PromoteSkipped, PublishPrimary, UpdateLeaderService,
                ClearFence, ConsumeApproval, ReconcileAborts, Poll,
                PollTimesOut
  <2> QED
    BY <2>1, DeletionMakesNoMaster
<1>5. CASE ScalePods
  BY <1>5, DeletionMakesNoMaster DEF ScalePods
<1>6. CASE \E seen \in CachedPods :
             RollReplica(seen) \/ RollPrimary(seen) \/ RollDone(seen)
  BY <1>6, DeletionMakesNoMaster DEF RollReplica, RollPrimary, RollDone
<1> QED
  BY <1>1, <1>2, <1>3, <1>4, <1>5, <1>6
     DEF OperatorStep, FailoverStep, PodsStep

\* For every number of pods: a running replica turns into a master only as the
\* primary, while the primary is fenced, or by acting late on a decision of
\* the past.
THEOREM RivalsNeedAFence == Spec => RivalOnlyUnderFence
<1>1. ASSUME TypeOK, UserStep
      PROVE  NoRival
  BY <1>1, DeletionMakesNoMaster
     DEF UserStep, ChangeTemplate, ApproveUpdate, Scale
<1>2. TypeOK /\ FenceHeld /\ Next => NoRival
  BY <1>1, InstanceRival, OperatorRival DEF Next, Fault
<1>3. TypeOK /\ FenceHeld /\ [Next]_vars
        => [\A p \in Pod :
              p \in Masters' /\ pod[p] = "up" /\ p \notin Masters
                => p = primary \/ primary \in fenced \/ plan[p] = p
                   \/ p \in inflight]_vars
  BY <1>2 DEF NoRival, Excused
<1> QED
  BY <1>3, FenceHeldThroughout, PTL DEF Spec, RivalOnlyUnderFence
-----------------------------------------------------------------------------
\* What is about to be done is done by an instance manager that runs, and no
\* pod is ahead of the template.
PodsInv == \A p \in Pod : /\ plan[p] # Idle => pod[p] = "up"
                          /\ podRev[p] <= revision

Basic == TypeOK /\ FenceHeld /\ PodsInv

\* An instance manager about to stop its Redis runs.
LEMMA StopsRunning ==
    ASSUME PodsInv, NEW p \in Pod, plan[p] = Stop
    PROVE  pod[p] = "up" /\ p \in Existing
<1>1. plan[p] # Idle
  BY DEF Stop, Idle
<1> QED
  BY <1>1 DEF PodsInv, Existing

\* What creating the lowest missing pod does.
LEMMA CreateFacts ==
    ASSUME TypeOK, CreatePod
    PROVE  \E m \in Pod :
             /\ pc = "create" /\ pod[m] = "absent"
             /\ pod' = [pod EXCEPT ![m] = "pending"]
             /\ podRev' = [podRev EXCEPT ![m] = revision]
             /\ UNCHANGED <<specVars, apiVars, of, plan, inflight, ctlVars, boundVars>>
<1>1. Missing \in SUBSET Pod /\ Missing # {}
  BY DEF CreatePod, Missing
<1>2. Min(Missing) \in Missing
  BY <1>1, LowestAndHighest
<1>3. Min(Missing) \in Pod /\ pod[Min(Missing)] = "absent"
  BY <1>2 DEF Missing
<1> QED
  BY <1>3, Zenon DEF CreatePod

\* What replacing an outdated replica does.
LEMMA RollReplicaFacts ==
    ASSUME TypeOK, NEW seen \in CachedPods, RollReplica(seen)
    PROVE  \E m \in Pod \ {primary} :
             /\ pc = "roll" /\ DeletePods({m}) /\ Return
             /\ UNCHANGED <<specVars, apiVars, boundVars>>
<1>1. seen \in SUBSET Pod
  BY DEF CachedPods, Existing, TypeOK
<1>2. OutdatedReplicas(seen) \in SUBSET Pod /\ OutdatedReplicas(seen) # {}
  BY <1>1 DEF RollReplica, OutdatedReplicas, Outdated
<1>3. Max(OutdatedReplicas(seen)) \in OutdatedReplicas(seen)
  BY <1>2, LowestAndHighest
<1>4. Max(OutdatedReplicas(seen)) \in Pod \ {primary}
  BY <1>2, <1>3 DEF OutdatedReplicas
<1> QED
  BY <1>4, Zenon DEF RollReplica

LEMMA PodsInvStep ==
    ASSUME TypeOK, FenceHeld, PodsInv, [Next]_vars
    PROVE  PodsInv'
<1> USE PodFacts DEF TypeOK, PodState, PodsInv, specVars, apiVars, podVars,
                     ctlVars, boundVars
<1>1. CASE UNCHANGED vars
  BY <1>1 DEF vars
<1>2. CASE UserStep
  <2>1. UNCHANGED podVars /\ revision' \in Int /\ revision <= revision'
    BY <1>2, BoundsAssumption DEF UserStep, ChangeTemplate, ApproveUpdate, Scale
  <2> QED
    BY <2>1, BoundsAssumption
<1>3. ASSUME NEW p \in Pod, InstanceStep(p) \/ RedisExits(p)
      PROVE  PodsInv'
  <2>1. CASE AssignIP(p) \/ BootRead(p) \/ BootStart(p) \/ LatePromote(p)
    BY <2>1 DEF AssignIP, BootRead, BootStart, LatePromote
  <2>2. CASE InstanceRead(p)
    BY <2>2 DEF InstanceRead
  <2>3. CASE InstanceStops(p) \/ RedisExits(p)
    BY <2>3 DEF InstanceStops, RedisExits, ProcessGone
  <2>4. CASE InstanceLeads(p) \/ InstanceFollows(p) \/ InstanceRetries(p)
    BY <2>4 DEF InstanceLeads, InstanceFollows, InstanceRetries
  <2> QED
    BY <1>3, <2>1, <2>2, <2>3, <2>4, Zenon DEF InstanceStep, InstanceActs
<1>4. ASSUME NEW S, DeletePods(S), revision' = revision
      PROVE  PodsInv'
  BY <1>4 DEF DeletePods
<1>5. CASE CreatePod
  <2>1. PICK m \in Pod : /\ pod[m] = "absent" /\ pod' = [pod EXCEPT ![m] = "pending"]
                         /\ podRev' = [podRev EXCEPT ![m] = revision]
                         /\ UNCHANGED <<plan, revision>>
    <3> HIDE DEF TypeOK
    <3> QED
      BY <1>5, CreateFacts
  <2> QED
    BY <2>1, BoundsAssumption
<1>6. CASE \/ StartReconcile \/ UpdateStatus \/ FailoverStep \/ ConsumeApproval
           \/ PromoteTimesOut \/ ReconcileAborts
           \/ \E p \in Pod : Poll(p) \/ PollTimesOut(p)
  <2>1. UNCHANGED <<pod, podRev, plan, revision>>
    BY <1>6, Zenon DEF StartReconcile, UpdateStatus, FailoverStep, SetFence,
                PromoteInstance, PromoteRefused, PromoteSkipped, PublishPrimary,
                UpdateLeaderService, ClearFence, ConsumeApproval,
                PromoteTimesOut, ReconcileAborts, Poll, PollTimesOut
  <2> QED
    BY <2>1
<1>7. CASE ScalePods \/ \E p \in Pod : PodLost(p)
  BY <1>4, <1>7, Zenon DEF ScalePods, PodLost
<1>8. ASSUME NEW seen, RollReplica(seen) \/ RollPrimary(seen) \/ RollDone(seen)
      PROVE  PodsInv'
  <2>1. revision' = revision /\ (UNCHANGED podVars \/ \E S : DeletePods(S))
    BY <1>8 DEF RollReplica, RollPrimary, RollDone
  <2> QED
    BY <1>4, <2>1
<1> QED
  BY <1>1, <1>2, <1>3, <1>5, <1>6, <1>7, <1>8
     DEF Next, OperatorStep, PodsStep, Fault

LEMMA BasicStep == ASSUME Basic, [Next]_vars PROVE Basic'
BY TypeStep, HandoverStep, PodsInvStep DEF Basic

LEMMA BasicInit == Init \/ Running => Basic
<1>1. Init => Basic
  BY TypeInit, BoundsAssumption DEF Init, Basic, FenceHeld, PodsInv
<1>2. ASSUME Running PROVE Basic
  <2> USE PodsAssumption, BoundsAssumption, PodFacts DEF Running
  <2>1. /\ pod \in [Pod -> PodState] /\ podRev \in [Pod -> 0 .. MaxRevision]
        /\ of \in [Pod -> Pod \cup {NoPod, Gone}]
        /\ plan \in [Pod -> Pod \cup {NoPod, Idle, Stop}]
    BY <1>2 DEF PodState
  <2>2. /\ desired \in 1 .. MaxPods /\ revision \in 0 .. MaxRevision
        /\ faults \in 0 .. MaxFaults /\ aborts \in 0 .. MaxAborts
        /\ scalings \in 0 .. MaxScalings
    BY <1>2
  <2>3. /\ primary \in Pod \cup {NoPod} /\ former \in Pod \cup {NoPod}
        /\ cand \in Pod \cup {NoPod}
    BY <1>2
  <2>4. approved \in BOOLEAN
    BY <1>2, Zenon
  <2>5. /\ fenced \subseteq Pod /\ inflight \subseteq Pod
        /\ listed \subseteq Pod /\ polled \subseteq listed
        /\ connected \subseteq Pod /\ mem \subseteq Pod
    BY <1>2
  <2>6. reported \subseteq Pod
    BY <1>2, <2>2 DEF Pod
  <2>7. TypeOK
    BY <1>2, <2>1, <2>2, <2>3, <2>4, <2>5, <2>6 DEF TypeOK
  <2>8. FenceHeld /\ PodsInv
    BY <1>2 DEF FenceHeld, PodsInv
  <2> QED
    BY <2>7, <2>8 DEF Basic
<1> QED
  BY <1>1, <1>2
-----------------------------------------------------------------------------
Wanted == 0 .. desired - 1

\* As long as nothing disturbs a cluster of three or more, at most one pod is
\* missing once it has come up, and the list reconcilePods works with lacks no
\* other; while it comes up that list is empty.
OneMissing ==
    Undisturbed /\ desired >= 3 =>
      /\ Existing \subseteq Wanted /\ listed \subseteq Wanted
      /\ primary = NoPod => /\ pc \in {"idle", "poll", "create"} /\ listed = {}
                            /\ pc # "create" => Existing = {}
      /\ primary # NoPod =>
           \E q \in Pod : /\ Missing \subseteq {q}
                          /\ pc \in {"create", "roll"} /\ listed # {}
                               => Wanted \subseteq listed \cup {q}
      /\ pc = "roll" => Missing = {}

\* A pod that no poll can find unreachable unless it is outdated.
Sound(p) == pod[p] # "absent" /\ (pod[p] = "up" \/ podRev[p] # revision)

\* The primary is sound, and so is everything a candidate may be taken from:
\* only outdated pods are fenced or about to stop.
AllSound ==
    /\ primary \in Pod /\ Sound(primary)
    /\ \A p \in Pod : plan[p] = Stop => podRev[p] # revision
    /\ \A p \in fenced :
         /\ podRev[p] # revision
         /\ p = (IF pc \in {"selector", "unfence"} THEN former ELSE primary)
    /\ pc \in {"fence", "promote", "publish"} => podRev[primary] # revision
    /\ pc = "poll" =>
         /\ \A p \in connected \cup (reported \ mem) : Sound(p)
         /\ \/ podRev[primary] # revision
            \/ primary \in listed /\ (primary \in polled => primary \in connected)
    /\ pc \in {"create", "roll", "fence", "promote"} =>
         \A p \in mem \cup reported : Sound(p)
    /\ pc \in {"promote", "publish"} => Sound(cand)

PrimarySound == Undisturbed /\ desired >= 3 => AllSound

\* The primary runs, is going to run, and the operator knows it.
Steady ==
    /\ pod[primary] = "up" /\ plan[primary] # Stop /\ fenced = {}
    /\ pc \in {"idle", "poll", "create", "roll"}
    /\ pc = "poll" =>
         primary \in listed /\ (primary \in polled => primary \in connected)

\* The approval stands from the switchover on, until the new primary is steady:
\* rollingUpdate sees whoever is about to stop, and the candidate is not.
Approval ==
    /\ approved \/ Steady
    /\ pc \in {"create", "roll"} =>
         primary \in listed /\ \A p \in Pod : plan[p] = Stop => p \in listed
    /\ mode = "switchover" /\ pc \in {"fence", "promote"} =>
         \A p \in Pod \ {primary} : plan[p] # Stop
    /\ mode = "switchover" /\ pc \in {"publish", "selector", "unfence"} =>
         pod[cand] = "up" /\ plan[cand] # Stop
    /\ pc = "consume" =>
         pod[primary] = "up" /\ plan[primary] # Stop /\ fenced = {}

ApprovalHeld == Undisturbed /\ desired >= 3 /\ Supervised => Approval

CalmStep == \/ ChangeTemplate \/ ApproveUpdate
            \/ (\E p \in Pod : InstanceStep(p)) \/ OperatorStep

\* A step without a disturbance is not a fault and does not change the scale.
LEMMA Calm ==
    ASSUME TypeOK, [Next]_vars, Undisturbed'
    PROVE  /\ Undisturbed /\ desired' = desired
           /\ CalmStep \/ UNCHANGED vars
<1> USE DEF TypeOK, Undisturbed, specVars, apiVars, podVars, ctlVars, boundVars
<1>1. CASE UNCHANGED vars
  BY <1>1 DEF vars
<1>2. CASE ChangeTemplate \/ ApproveUpdate
  BY <1>2 DEF ChangeTemplate, ApproveUpdate, CalmStep
<1>3. ASSUME NEW n \in 1 .. MaxPods, Scale(n) PROVE FALSE
  BY <1>3 DEF Scale
<1>4. ASSUME NEW p \in Pod, InstanceStep(p)
      PROVE  Undisturbed /\ desired' = desired
  BY <1>4, Zenon DEF InstanceStep, AssignIP, BootRead, BootStart, InstanceRead,
              InstanceActs, InstanceStops, InstanceLeads, InstanceFollows,
              InstanceRetries, LatePromote
<1>5. ASSUME StartReconcile \/ (\E p \in Pod : Poll(p)) \/ UpdateStatus
             \/ FailoverStep
      PROVE  Undisturbed /\ desired' = desired
  BY <1>5, Zenon DEF StartReconcile, Poll, UpdateStatus, FailoverStep, SetFence,
              PromoteInstance, PromoteRefused, PromoteSkipped, PublishPrimary,
              UpdateLeaderService, ClearFence
<1>6. ASSUME PodsStep PROVE Undisturbed /\ desired' = desired
  BY <1>6, Zenon DEF PodsStep, CreatePod, ScalePods, ConsumeApproval, RollReplica,
              RollPrimary, RollDone
<1>7. ASSUME Fault PROVE FALSE
  <2>1. faults' = faults + 1 \/ aborts' = aborts + 1
    BY <1>7, Zenon DEF Fault, RedisExits, PodLost, PollTimesOut, PromoteTimesOut,
                ReconcileAborts
  <2> QED
    BY <2>1, BoundsAssumption
<1> QED
  BY <1>1, <1>2, <1>3, <1>4, <1>5, <1>6, <1>7, SMTT(30)
     DEF Next, UserStep, OperatorStep, CalmStep

\* No pod is beyond spec.instances, so none is deleted for it.
LEMMA NoSurplus ==
    ASSUME TypeOK, OneMissing, Undisturbed, desired >= 3
    PROVE  Highest(Cardinality(listed) - desired, listed) = {}
<1>0. desired \in Nat /\ desired - 1 \in Int /\ 0 \in Int
  BY PodsAssumption DEF TypeOK
<1>1. IsFiniteSet(Wanted) /\ Cardinality(Wanted) = desired
  BY <1>0, FS_Interval DEF Wanted
<1>2. IsFiniteSet(listed) /\ Cardinality(listed) <= Cardinality(Wanted)
  BY <1>1, FS_Subset DEF OneMissing
<1>3. \A p : Cardinality({q \in listed : q > p}) \in Nat
  BY <1>2, FS_Subset, FS_CardinalityType
<1>4. Cardinality(listed) \in Nat
  BY <1>2, FS_CardinalityType
<1>5. Cardinality(listed) - desired <= 0 /\ Cardinality(listed) - desired \in Int
  BY <1>0, <1>1, <1>2, <1>4
<1>6. ASSUME NEW p \in listed
      PROVE  ~ (Cardinality({q \in listed : q > p}) < Cardinality(listed) - desired)
  <2> DEFINE n == Cardinality({q \in listed : q > p})
             m == Cardinality(listed) - desired
  <2>1. n \in Nat /\ m \in Int /\ m <= 0
    BY <1>3, <1>5
  <2> HIDE DEF n, m
  <2>2. ~ (n < m)
    BY <2>1
  <2> QED
    BY <2>2 DEF n, m
<1> QED
  BY <1>6 DEF Highest

LEMMA ScaleDeletesNothing ==
    ASSUME TypeOK, OneMissing, Undisturbed, desired >= 3, ScalePods
    PROVE  UNCHANGED podVars
<1>1. DeletePods({})
  BY NoSurplus DEF ScalePods
<1> QED
  BY <1>1 DEF DeletePods, TypeOK, podVars

\* An instance manager neither creates nor deletes pods.
LEMMA InstanceKeepsPods ==
    ASSUME Basic, NEW p \in Pod, InstanceStep(p)
    PROVE  /\ UNCHANGED <<ctlVars, primary, desired>>
           /\ \A q \in Pod : pod'[q] = "absent" <=> pod[q] = "absent"
<1> USE DEF Basic, TypeOK, PodState, specVars, apiVars, podVars, ctlVars, boundVars
<1>1. CASE InstanceStops(p)
  BY <1>1, PodFacts DEF PodsInv, Stop, Idle, InstanceStops
<1>2. CASE ~ InstanceStops(p)
  BY <1>2, Zenon DEF InstanceStep, AssignIP, BootRead, BootStart, InstanceRead,
              InstanceActs, InstanceLeads, InstanceFollows,
              InstanceRetries, LatePromote
<1> QED
  BY <1>1, <1>2

\* rollingUpdate never sees the primary alone.
LEMMA NeverAlone ==
    ASSUME Basic, OneMissing, Undisturbed, desired >= 3, pc = "roll",
           NEW seen \in CachedPods
    PROVE  Outdated(seen) = {primary} => seen # {primary}
<1>1. desired \in Nat /\ {0, 1, 2} \subseteq Wanted /\ {0, 1, 2} \subseteq Pod
      /\ \A p \in Wanted : p \in Pod /\ p < desired
  BY PodsAssumption DEF Basic, TypeOK, Wanted, Pod
<1>2. CASE seen = Existing
  <2>1. Wanted \subseteq Existing
    BY <1>1 DEF OneMissing, Missing, Existing
  <2> QED
    BY <1>1, <1>2, <2>1
<1>3. CASE seen = listed /\ listed = {}
  BY <1>3 DEF Outdated
<1>4. CASE seen = listed /\ listed # {}
  <2>1. PICK q \in Pod : Wanted \subseteq listed \cup {q}
    BY <1>4 DEF OneMissing
  <2> QED
    BY <1>1, <1>4, <2>1
<1> QED
  BY <1>2, <1>3, <1>4 DEF CachedPods

LEMMA OneMissingStep ==
    ASSUME Basic, OneMissing, [Next]_vars
    PROVE  OneMissing'
<1> SUFFICES ASSUME Undisturbed', desired' >= 3 PROVE OneMissing'
  BY DEF OneMissing
<1>0. /\ Undisturbed /\ desired' = desired /\ desired >= 3
      /\ CalmStep \/ UNCHANGED vars
  BY Calm DEF Basic
<1> USE DEF specVars, apiVars, podVars, ctlVars, boundVars
<1>1. ASSUME UNCHANGED <<ctlVars, primary>>,
             \A q \in Pod : pod'[q] = "absent" <=> pod[q] = "absent"
      PROVE  OneMissing'
  <2>1. Existing' = Existing /\ Missing' = Missing /\ Wanted' = Wanted
    BY <1>0, <1>1 DEF Existing, Missing, Wanted
  <2> QED
    BY <1>0, <1>1, <2>1 DEF OneMissing
<1>2. CASE \/ UNCHANGED vars \/ ChangeTemplate \/ ApproveUpdate
           \/ \E p \in Pod : InstanceStep(p)
  BY <1>1, <1>2, InstanceKeepsPods DEF vars, ChangeTemplate, ApproveUpdate
<1>3. ASSUME UNCHANGED pod, listed' \subseteq Existing,
             pc' \notin {"create", "roll"}, primary' # NoPod,
             primary # NoPod
      PROVE  OneMissing'
  <2>1. Existing' = Existing /\ Missing' = Missing /\ Wanted' = Wanted
    BY <1>0, <1>3 DEF Existing, Missing, Wanted
  <2> QED
    BY <1>0, <1>3, <2>1 DEF OneMissing
<1>4. CASE StartReconcile
  <2>1. /\ UNCHANGED pod /\ listed' \subseteq Existing /\ pc' = "poll"
        /\ primary' = primary
    BY <1>4 DEF StartReconcile, HasIP, Existing
  <2>2. CASE primary = NoPod
    <3>1. Existing' = Existing /\ Missing' = Missing /\ Wanted' = Wanted
      BY <1>0, <2>1 DEF Existing, Missing, Wanted
    <3>2. Existing = {}
      BY <1>0, <1>4, <2>2 DEF OneMissing, StartReconcile
    <3> QED
      BY <1>0, <2>1, <2>2, <3>1, <3>2 DEF OneMissing
  <2> QED
    BY <1>3, <2>1, <2>2
<1>5. CASE \E p \in Pod : Poll(p)
  <2>1. UNCHANGED <<pc, listed, primary, pod>>
    BY <1>5 DEF Poll
  <2>2. Existing' = Existing /\ Missing' = Missing /\ Wanted' = Wanted
    BY <1>0, <2>1 DEF Existing, Missing, Wanted
  <2> QED
    BY <1>0, <2>1, <2>2 DEF OneMissing
<1>6. CASE UpdateStatus
  <2>1. /\ pc = "poll" /\ UNCHANGED <<pod, primary>>
        /\ \/ pc' \in {"fence", "idle"} /\ listed' = {}
           \/ pc' = "create" /\ listed' = Existing
        /\ pc' = "fence" => primary # NoPod
    BY <1>6 DEF UpdateStatus, Return, shouldTriggerFailover
  <2>2. Existing' = Existing /\ Missing' = Missing /\ Wanted' = Wanted
    BY <1>0, <2>1 DEF Existing, Missing, Wanted
  <2>3. \A q : Missing \subseteq {q} => Wanted \subseteq Existing \cup {q}
    <3>1. \A p \in Wanted : p \in Pod /\ p < desired
      BY PodsAssumption DEF Basic, TypeOK, Wanted, Pod
    <3> QED
      BY <3>1 DEF Missing, Existing
  <2> QED
    BY <1>0, <2>1, <2>2, <2>3 DEF OneMissing
<1>7. CASE FailoverStep
  <2>1. /\ UNCHANGED pod /\ pc' \notin {"create", "roll"}
        /\ primary # NoPod /\ primary' # NoPod
        /\ listed' \in {{}, listed} /\ pc \notin {"create", "roll"}
    <3> USE PodFacts DEF Basic, FenceHeld, TypeOK, Return, Goto
    <3>1. CASE SetFence
      BY <3>1 DEF SetFence
    <3>2. CASE PromoteInstance \/ PromoteRefused \/ PromoteSkipped
      BY <3>2 DEF PromoteInstance, PromoteRefused, PromoteSkipped
    <3>3. CASE PublishPrimary \/ UpdateLeaderService
      BY <3>3 DEF PublishPrimary, UpdateLeaderService
    <3>4. CASE ClearFence
      BY <3>4 DEF ClearFence
    <3> QED
      BY <1>7, <3>1, <3>2, <3>3, <3>4, SMTT(30) DEF FailoverStep
  <2>2. Existing' = Existing /\ Missing' = Missing /\ Wanted' = Wanted
    BY <1>0, <2>1 DEF Existing, Missing, Wanted
  <2> QED
    BY <1>0, <2>1, <2>2 DEF OneMissing
<1>8. CASE CreatePod
  <2>1. /\ Min(Missing) \in Pod /\ Min(Missing) < desired
        /\ pod' = [pod EXCEPT ![Min(Missing)] = "pending"]
        /\ UNCHANGED <<pc, listed, primary>> /\ pc = "create"
    BY <1>8, LowestAndHighest DEF CreatePod, Missing
  <2>2. /\ Existing' = Existing \cup {Min(Missing)} /\ Missing' \subseteq Missing
        /\ Wanted' = Wanted
    BY <1>0, <2>1 DEF Basic, TypeOK, Existing, Missing, Wanted
  <2>3. Min(Missing) \in Wanted
    BY <2>1 DEF Basic, TypeOK, Wanted, Pod
  <2> QED
    BY <1>0, <2>1, <2>2, <2>3 DEF OneMissing
<1>9. CASE ScalePods
  <2>1. UNCHANGED <<podVars, listed>> /\ pc = "create" /\ pc' = "roll"
        /\ Missing = {}
    BY <1>0, <1>9, ScaleDeletesNothing, Zenon DEF Basic, ScalePods, Goto
  <2>2. Existing' = Existing /\ Missing' = Missing /\ Wanted' = Wanted
    BY <1>0, <2>1 DEF Existing, Missing, Wanted
  <2>3. CASE primary = NoPod
    BY <1>0, <1>9, <2>1, <2>2, <2>3, PodFacts DEF OneMissing, ScalePods, NoPod
  <2>4. CASE primary # NoPod
    BY <1>0, <1>9, <2>1, <2>2, <2>4 DEF OneMissing, ScalePods
  <2> QED
    BY <2>3, <2>4
<1>10. CASE ConsumeApproval
  BY <1>0, <1>10 DEF ConsumeApproval, Return, OneMissing, Existing, Missing, Wanted
<1>11. ASSUME NEW seen \in CachedPods, RollReplica(seen)
       PROVE  OneMissing'
  <2> DEFINE v == Max(OutdatedReplicas(seen))
  <2>1. v \in Pod
    BY <1>11, LowestAndHighest
       DEF RollReplica, Basic, TypeOK, OutdatedReplicas, Outdated, CachedPods, Existing
  <2>2. Missing = {} /\ primary # NoPod
    BY <1>0, <1>11 DEF OneMissing, RollReplica
  <2>3. /\ Existing' \subseteq Existing /\ Missing' \subseteq {v}
        /\ Wanted' = Wanted
    BY <1>0, <1>11, <2>2 DEF RollReplica, DeletePods, Existing, Missing, Wanted
  <2>4. pc' = "idle" /\ listed' = {} /\ primary' = primary
    BY <1>11 DEF RollReplica, Return
  <2> QED
    BY <1>0, <2>1, <2>2, <2>3, <2>4 DEF OneMissing
<1>12. ASSUME NEW seen \in CachedPods, RollPrimary(seen) \/ RollDone(seen)
       PROVE  OneMissing'
  <2>0. pc = "roll" /\ Missing = {} /\ primary # NoPod
    BY <1>0, <1>12 DEF OneMissing, RollPrimary, RollDone
  <2>1. /\ UNCHANGED <<podVars, primary>> /\ pc' \in {"idle", "fence"}
        /\ listed' \in {{}, listed}
    BY <1>0, <1>12, <2>0, NeverAlone DEF RollPrimary, RollDone, Return
  <2>2. Existing' = Existing /\ Missing' = Missing /\ Wanted' = Wanted
    BY <1>0, <2>1 DEF Existing, Missing, Wanted
  <2> QED
    BY <1>0, <2>0, <2>1, <2>2 DEF OneMissing
<1> QED
  BY <1>0, <1>2, <1>4, <1>5, <1>6, <1>7, <1>8, <1>9, <1>10, <1>11, <1>12
     DEF CalmStep, OperatorStep, PodsStep

LEMMA OneMissingInit == Init \/ Running => OneMissing
<1>1. ASSUME Init PROVE OneMissing
  BY <1>1 DEF Init, OneMissing, Existing
<1>2. ASSUME Running PROVE OneMissing
  <2>1. Existing = Wanted
    BY <1>2, PodsAssumption DEF Running, Existing, Wanted, Pod
  <2>2. Missing = {}
    BY <1>2 DEF Running, Missing
  <2>3. primary \in Pod /\ primary # NoPod /\ listed = {} /\ pc = "idle"
    BY <1>2, PodFacts DEF Running, NoPod
  <2> QED
    BY <2>1, <2>2, <2>3 DEF OneMissing
<1> QED
  BY <1>1, <1>2

\* Only a fault, or rollingUpdate with a list of the primary alone, deletes the
\* pod of the primary.
LEMMA PrimaryDeleted ==
    ASSUME Basic, OneMissing, Next,
           primary \in Existing, pod'[primary] = "absent"
    PROVE  \/ desired = 1 \/ faults' > faults
           \/ podRev[primary] # revision /\ (desired = 2 \/ ~ Undisturbed)
<1>0. primary \in Pod /\ pod[primary] # "absent" /\ pod[primary] \in PodState
      /\ faults \in Int /\ desired \in 1 .. MaxPods
  BY SMTT(30) DEF Existing, Basic, TypeOK
<1>1. CASE UserStep \/ (\E p \in Pod : InstanceStep(p))
  BY <1>0, <1>1, InstanceKeepsPods
     DEF UserStep, ChangeTemplate, ApproveUpdate, Scale, podVars
<1>2. CASE Fault
  <2>1. CASE \E p \in Pod : PodLost(p)
    BY <1>0, <2>1 DEF PodLost
  <2>2. CASE ~ \E p \in Pod : PodLost(p)
    <3>1. pod' = pod \/ \E p \in Pod : pod' = [pod EXCEPT ![p] = "down"]
      BY <1>2, <2>2 DEF Fault, RedisExits, PollTimesOut, PromoteTimesOut,
                        ReconcileAborts, podVars
    <3> QED
      BY <1>0, <3>1, SMTT(30) DEF Basic, TypeOK
  <2> QED
    BY <2>1, <2>2
<1>3. CASE StartReconcile \/ (\E p \in Pod : Poll(p)) \/ UpdateStatus
           \/ FailoverStep \/ ConsumeApproval
  <2>1. UNCHANGED pod
    BY <1>3, Zenon DEF StartReconcile, Poll, UpdateStatus, FailoverStep, SetFence,
                PromoteInstance, PromoteRefused, PromoteSkipped, PublishPrimary,
                UpdateLeaderService, ClearFence, ConsumeApproval, podVars
  <2> QED
    BY <1>0, <2>1
<1>4. CASE CreatePod
  BY <1>0, <1>4, SMTT(30) DEF CreatePod, Basic, TypeOK
<1>5. CASE ScalePods
  BY <1>0, <1>5 DEF ScalePods, DeletePods
<1>6. ASSUME NEW seen \in CachedPods, RollReplica(seen)
      PROVE  FALSE
  <2>1. OutdatedReplicas(seen) \in SUBSET Pod /\ OutdatedReplicas(seen) # {}
    BY <1>6, Zenon DEF RollReplica, Basic, TypeOK, OutdatedReplicas, Outdated, CachedPods,
                Existing
  <2>2. Max(OutdatedReplicas(seen)) # primary
    BY <2>1, LowestAndHighest, SMTT(30) DEF OutdatedReplicas
  <2> QED
    BY <1>0, <1>6, <2>2, Zenon DEF RollReplica, DeletePods
<1>7. ASSUME NEW seen \in CachedPods, RollPrimary(seen)
      PROVE  podRev[primary] # revision /\ (desired \in {1, 2} \/ ~ Undisturbed)
  <2>1. /\ pc = "roll" /\ Outdated(seen) = {primary} /\ seen = {primary}
    BY <1>0, <1>7 DEF RollPrimary, podVars
  <2>2. ~ (Undisturbed /\ desired >= 3)
    BY <1>7, <2>1, NeverAlone, Zenon
  <2>3. podRev[primary] # revision
    BY <2>1, Zenon DEF Outdated
  <2>4. desired \in {1, 2} \/ desired >= 3
    BY <1>0, PodsAssumption
  <2> QED
    BY <2>2, <2>3, <2>4, Zenon
<1>8. ASSUME NEW seen \in CachedPods, RollDone(seen)
      PROVE  FALSE
  BY <1>0, <1>8 DEF RollDone, podVars
<1> QED
  BY <1>1, <1>2, <1>3, <1>4, <1>5, <1>6, <1>7, <1>8
     DEF Next, OperatorStep, PodsStep

\* For every number of instances, faults, crashes and changes of the template
\* and of the scale: the pod of a primary that is up to date is never deleted
\* by the operator while more than one instance is wanted, and without a
\* disturbance that of an outdated one is not either, from three instances on.
THEOREM PrimaryKeepsItsPod == Spec \/ RunningSpec => PrimaryPodKept
<1> DEFINE Kept == \A p \in Pod : p = primary /\ p \in Existing /\ pod'[p] = "absent"
                     => \/ desired = 1 \/ faults' > faults
                        \/ podRev[p] # revision /\ (desired = 2 \/ ~ Undisturbed)
<1>1. Init \/ Running => Basic /\ OneMissing
  BY BasicInit, OneMissingInit
<1>2. Basic /\ OneMissing /\ [Next]_vars => (Basic /\ OneMissing)'
  BY BasicStep, OneMissingStep
<1>3. Basic /\ OneMissing /\ [Next]_vars => [Kept]_vars
  BY PrimaryDeleted
<1> QED
  BY <1>1, <1>2, <1>3, PTL DEF Spec, RunningSpec, PrimaryPodKept
-----------------------------------------------------------------------------
\* Once there is a primary, only the status patch of a failover or switchover
\* names another.
LEMMA PrimaryChanges ==
    ASSUME Next, primary \in Pod, primary' # primary
    PROVE  PublishPrimary
<1> USE DEF specVars, apiVars, podVars, ctlVars, boundVars
<1>1. ~ UserStep
  BY Zenon DEF UserStep, ChangeTemplate, ApproveUpdate, Scale
<1>2. ASSUME NEW p \in Pod PROVE ~ InstanceStep(p)
  BY Zenon DEF InstanceStep, AssignIP, BootRead, BootStart, InstanceRead,
         InstanceActs, InstanceStops, InstanceLeads, InstanceFollows,
         InstanceRetries, LatePromote
<1>3. ~ Fault
  BY Zenon DEF Fault, RedisExits, PodLost, PollTimesOut, PromoteTimesOut,
         ReconcileAborts
<1>4. ~ PodsStep
  BY PodFacts, Zenon DEF PodsStep, CreatePod, ScalePods, ConsumeApproval, RollReplica,
                  RollPrimary, RollDone
<1>5. ~ (StartReconcile \/ (\E p \in Pod : Poll(p)) \/ UpdateStatus)
  BY Zenon DEF StartReconcile, Poll, UpdateStatus
<1>6. FailoverStep => PublishPrimary
  BY DEF FailoverStep, SetFence, PromoteInstance, PromoteRefused,
         PromoteSkipped, UpdateLeaderService, ClearFence
<1> QED
  BY <1>1, <1>2, <1>3, <1>4, <1>5, <1>6, SMTT(30) DEF Next, OperatorStep

\* Only a fenced instance decides to stop.
LEMMA InstancePlans ==
    ASSUME Basic, AllSound, NEW p \in Pod, InstanceStep(p)
    PROVE  \A q \in Pod : plan'[q] = Stop => plan[q] = Stop \/ q \in fenced
<1> USE PodFacts DEF Basic, TypeOK, Stop, Idle,
                     specVars, apiVars, podVars, ctlVars, boundVars
<1>1. CASE InstanceRead(p)
  BY <1>1 DEF InstanceRead, AllSound
<1>2. CASE AssignIP(p) \/ BootRead(p) \/ BootStart(p) \/ LatePromote(p)
  BY <1>2, Zenon DEF AssignIP, BootRead, BootStart, LatePromote
<1>3. CASE InstanceActs(p)
  <2>1. plan' = [plan EXCEPT ![p] = Idle]
    BY <1>3, Zenon DEF InstanceActs, InstanceStops, InstanceLeads, InstanceFollows,
                InstanceRetries, ProcessGone
  <2> QED
    BY <2>1
<1> QED
  BY <1>1, <1>2, <1>3, Zenon DEF InstanceStep

\* A sound pod stays sound unless it is deleted: the template only moves on, and
\* only an outdated pod is stopped.
LEMMA SoundInstance ==
    ASSUME Basic, AllSound, NEW p \in Pod, InstanceStep(p)
    PROVE  AllSound'
<1> USE DEF specVars, apiVars, podVars, ctlVars, boundVars
<1>1. UNCHANGED <<primary, fenced, podRev, revision, ctlVars>>
  BY Zenon DEF InstanceStep, AssignIP, BootRead, BootStart, InstanceRead,
         InstanceActs, InstanceStops, InstanceLeads, InstanceFollows,
         InstanceRetries, LatePromote
<1>2. \A q \in Pod : Sound(q) => Sound(q)'
  <2> USE DEF Basic, TypeOK, PodState, Sound
  <2>1. CASE InstanceStops(p)
    BY <1>1, <2>1 DEF InstanceStops, PodsInv, AllSound, Stop, Idle
  <2>2. CASE ~ InstanceStops(p)
    BY <1>1, <2>2, Zenon DEF InstanceStep, AssignIP, BootRead, BootStart, InstanceRead,
                      InstanceActs, InstanceLeads, InstanceFollows,
                      InstanceRetries, LatePromote
  <2> QED
    BY <2>1, <2>2, Zenon
<1>3. \A q \in Pod : plan'[q] = Stop => plan[q] = Stop \/ q \in fenced
  BY InstancePlans
<1>4. reported' = reported \/ (reported' = reported \cup {p} /\ Sound(p))
  <2>1. CASE InstanceLeads(p) \/ InstanceFollows(p)
    <3>1. plan[p] \in Pod
      BY <2>1 DEF InstanceLeads, InstanceFollows
    <3>2. pod[p] = "up"
      BY <3>1, PodFacts DEF Basic, PodsInv
    <3> QED
      BY <2>1, <3>2, Zenon DEF InstanceLeads, InstanceFollows, Sound
  <2>2. CASE ~ (InstanceLeads(p) \/ InstanceFollows(p))
    BY <2>2, Zenon DEF InstanceStep, AssignIP, BootRead, BootStart, InstanceRead,
                InstanceActs, InstanceStops, InstanceRetries, LatePromote
  <2> QED
    BY <2>1, <2>2
<1>5. /\ \A q \in Pod : plan'[q] = Stop => podRev'[q] # revision'
      /\ Sound(primary)'
  BY <1>1, <1>2, <1>3, Zenon DEF AllSound, Sound
<1>6. /\ pc = "poll" =>
           \A q \in connected' \cup (reported' \ mem') : Sound(q)'
      /\ pc \in {"create", "roll", "fence", "promote"} =>
           \A q \in mem' \cup reported' : Sound(q)'
      /\ pc \in {"promote", "publish"} => Sound(cand)'
  <2>1. connected \cup reported \cup mem \subseteq Pod
    BY DEF Basic, TypeOK
  <2>2. pc \in {"promote", "publish"} => cand \in Pod /\ Sound(cand)
    BY Zenon DEF Basic, FenceHeld, AllSound
  <2>3. pc \in {"promote", "publish"} => Sound(cand)'
    BY <1>1, <1>2, <2>2, Zenon DEF Sound
  <2> QED
    BY <1>1, <1>2, <1>4, <2>1, <2>3, Zenon DEF AllSound
<1> QED
  BY <1>1, <1>5, <1>6, Zenon DEF AllSound

LEMMA SoundUser ==
    ASSUME Basic, AllSound, ChangeTemplate \/ ApproveUpdate \/ UNCHANGED vars
    PROVE  AllSound'
<1> USE DEF specVars, apiVars, podVars, ctlVars, boundVars
<1>1. CASE ChangeTemplate
  <2>1. \A p \in Pod : podRev[p] # revision'
    BY <1>1, BoundsAssumption DEF ChangeTemplate, Basic, TypeOK, PodsInv
  <2>2. UNCHANGED <<apiVars, podVars, ctlVars>>
    BY <1>1 DEF ChangeTemplate
  <2> QED
    BY <2>1, <2>2, PodFacts, Zenon DEF AllSound, Sound, Basic, TypeOK, FenceHeld
<1>2. CASE ApproveUpdate \/ UNCHANGED vars
  BY <1>2, Zenon DEF ApproveUpdate, vars, AllSound, Sound
<1> QED
  BY <1>1, <1>2

LEMMA SoundPoll ==
    ASSUME Basic, AllSound,
           StartReconcile \/ (\E p \in Pod : Poll(p)) \/ UpdateStatus
    PROVE  AllSound'
<1> USE PodFacts DEF Basic, TypeOK, PodState, AllSound, Sound,
        specVars, apiVars, podVars, ctlVars, boundVars
<1>1. CASE StartReconcile
  BY <1>1, Zenon DEF StartReconcile, HasIP
<1>2. ASSUME NEW p \in Pod, Poll(p)
      PROVE  AllSound'
  BY <1>2, Zenon DEF Poll
<1>3. CASE UpdateStatus
  <2>1. \A p \in MergedStatus : Sound(p)
    BY <1>3, Zenon DEF UpdateStatus, MergedStatus
  <2>2. shouldTriggerFailover => podRev[primary] # revision
    BY <1>3, Zenon DEF UpdateStatus, shouldTriggerFailover
  <2>3. /\ UNCHANGED <<revision, primary, fenced, pod, podRev, plan>>
        /\ pc = "poll"
        /\ reported' = MergedStatus
        /\ \/ pc' = "idle"
           \/ pc' = "create" /\ mem' = MergedStatus
           \/ pc' = "fence" /\ mem' = MergedStatus /\ shouldTriggerFailover
    BY <1>3, Zenon DEF UpdateStatus, Return
  <2> QED
    BY <2>1, <2>2, <2>3
<1> QED
  BY <1>1, <1>2, <1>3, Zenon

LEMMA SoundFailover ==
    ASSUME Basic, AllSound, FailoverStep
    PROVE  AllSound'
<1> USE PodFacts DEF Basic, TypeOK, PodState, FenceHeld, AllSound, Sound, Return, Goto,
        specVars, apiVars, podVars, ctlVars, boundVars
<1>1. CASE SetFence
  BY <1>1, Zenon DEF SetFence
<1>2. CASE PromoteInstance \/ PromoteRefused \/ PromoteSkipped
  BY <1>2, Zenon DEF PromoteInstance, PromoteRefused, PromoteSkipped
<1>3. CASE PublishPrimary
  BY <1>3, Zenon DEF PublishPrimary
<1>4. CASE UpdateLeaderService
  BY <1>4, Zenon DEF UpdateLeaderService
<1>5. CASE ClearFence
  BY <1>5, Zenon DEF ClearFence
<1> QED
  BY <1>1, <1>2, <1>3, <1>4, <1>5, Zenon DEF FailoverStep

LEMMA SoundPods ==
    ASSUME Basic, OneMissing, Undisturbed, desired >= 3, AllSound, PodsStep
    PROVE  AllSound'
<1>1. CASE CreatePod
  <2>1. TypeOK /\ PodsInv
    BY DEF Basic
  <2>2. PICK m \in Pod :
          /\ pc = "create" /\ pod[m] = "absent"
          /\ pod' = [pod EXCEPT ![m] = "pending"]
          /\ podRev' = [podRev EXCEPT ![m] = revision]
          /\ UNCHANGED <<specVars, apiVars, of, plan, inflight, ctlVars, boundVars>>
    BY <1>1, <2>1, CreateFacts
  <2>3. UNCHANGED <<revision, primary, fenced, plan, pc, mem, reported>>
    BY <2>2 DEF specVars, apiVars, ctlVars
  <2>4. \A p \in Pod : p # m => pod'[p] = pod[p] /\ podRev'[p] = podRev[p]
    BY <2>1, <2>2 DEF TypeOK
  <2>5. plan[m] = Idle /\ Idle # Stop
    BY <2>1, <2>2 DEF PodsInv, Idle, Stop
  <2>6. primary # m /\ fenced \subseteq {primary} /\ m \notin mem \cup reported
    BY <2>2 DEF AllSound, Sound
  <2>7. mem \cup reported \subseteq Pod
    BY <2>1, SMTT(30) DEF TypeOK
  <2>8. \A p \in Pod \ {m} : Sound(p) => Sound(p)'
    BY <2>3, <2>4, Zenon DEF Sound
  <2> QED
    BY <2>2, <2>3, <2>4, <2>5, <2>6, <2>7, <2>8, Zenon DEF AllSound
<1>2. ASSUME NEW seen \in CachedPods, RollReplica(seen)
      PROVE  AllSound'
  <2>1. TypeOK
    BY DEF Basic
  <2>2. PICK m \in Pod \ {primary} :
          /\ pc = "roll" /\ DeletePods({m}) /\ Return
          /\ UNCHANGED <<specVars, apiVars, boundVars>>
    BY <1>2, <2>1, RollReplicaFacts, Zenon
  <2>3. UNCHANGED <<revision, primary, fenced, podRev>> /\ pc' = "idle"
    BY <2>2, Zenon DEF specVars, apiVars, DeletePods, Return
  <2>4. \A p \in Pod : IF p = m THEN plan'[p] = Idle
                       ELSE pod'[p] = pod[p] /\ plan'[p] = plan[p]
    BY <2>2 DEF DeletePods
  <2>5. fenced \subseteq {primary} /\ Idle # Stop
    BY <2>2 DEF AllSound, Idle, Stop
  <2> QED
    BY <2>2, <2>3, <2>4, <2>5, Zenon DEF AllSound, Sound
<1> USE PodFacts DEF Basic, TypeOK, PodState, AllSound, Sound, Return, Goto,
        specVars, apiVars, podVars, ctlVars, boundVars
<1>3. CASE ScalePods
  <2>1. UNCHANGED podVars
    BY <1>3, ScaleDeletesNothing, Zenon
  <2>2. primary' = primary
    BY <1>3 DEF ScalePods
  <2> QED
    BY <1>3, <2>1, <2>2, Zenon DEF ScalePods
<1>4. CASE ConsumeApproval
  BY <1>4, Zenon DEF ConsumeApproval
<1>5. ASSUME NEW seen \in CachedPods, RollPrimary(seen)
      PROVE  AllSound'
  <2>1. podRev[primary] # revision /\ pc = "roll"
    BY <1>5, Zenon DEF RollPrimary, Outdated
  <2>2. seen # {primary}
    BY <1>5, <2>1, NeverAlone, Zenon DEF RollPrimary
  <2>3. UNCHANGED <<specVars, apiVars, podVars>>
        /\ (pc' = "idle" \/ (pc' = "fence" /\ mem' = mem))
    BY <1>5, <2>2, Zenon DEF RollPrimary
  <2> QED
    BY <2>1, <2>3, Zenon
<1>6. ASSUME NEW seen \in CachedPods, RollDone(seen)
      PROVE  AllSound'
  BY <1>6, Zenon DEF RollDone
<1> QED
  BY <1>1, <1>3, <1>4, <1>2, <1>5, <1>6, Zenon DEF PodsStep

LEMMA PrimarySoundStep ==
    ASSUME Basic, OneMissing, PrimarySound, [Next]_vars
    PROVE  PrimarySound'
<1> SUFFICES ASSUME Undisturbed', desired' >= 3 PROVE AllSound'
  BY DEF PrimarySound
<1>0. /\ Undisturbed /\ desired >= 3
      /\ CalmStep \/ UNCHANGED vars
  BY Calm DEF Basic
<1>1. AllSound
  BY <1>0 DEF PrimarySound
<1> QED
  BY <1>0, <1>1, SoundInstance, SoundUser, SoundPoll, SoundFailover, SoundPods
     DEF CalmStep, OperatorStep

LEMMA PrimarySoundInit == Running => PrimarySound
<1> SUFFICES ASSUME Running, Undisturbed, desired >= 3 PROVE AllSound
  BY DEF PrimarySound
<1>1. primary \in Pod /\ pod[primary] = "up"
  <2>1. primary = 0 /\ 0 \in Pod /\ desired \in Int
    BY PodFacts, PodsAssumption DEF Running
  <2> QED
    BY <2>1 DEF Running
<1>2. \A p \in Pod : plan[p] # Stop
  BY DEF Running, Idle, Stop
<1> QED
  BY <1>1, <1>2 DEF Running, AllSound, Sound

\* For every number of instances from three on and every number of changes of
\* the template: without faults, the operator never replaces a primary that is
\* up to date.
THEOREM OnlyOutdatedPrimaryReplaced == RunningSpec => OnlyOutdatedReplaced
<1> DEFINE I == Basic /\ OneMissing /\ PrimarySound
<1>1. Running => I
  BY BasicInit, OneMissingInit, PrimarySoundInit
<1>2. I /\ [Next]_vars => I'
  BY BasicStep, OneMissingStep, PrimarySoundStep
<1>3. I /\ [Next]_vars
        => [Undisturbed /\ desired >= 3 /\ primary' # primary
              => podRev[primary] # revision]_vars
  <2> SUFFICES ASSUME I, Next, Undisturbed, desired >= 3, primary' # primary
               PROVE  podRev[primary] # revision
    OBVIOUS
  <2>1. AllSound
    BY DEF PrimarySound
  <2>2. PublishPrimary
    BY <2>1, PrimaryChanges DEF AllSound
  <2> QED
    BY <2>1, <2>2 DEF PublishPrimary, AllSound
<1> QED
  BY <1>1, <1>2, <1>3, PTL DEF RunningSpec, OnlyOutdatedReplaced
-----------------------------------------------------------------------------
LEMMA ApprovalInstance ==
    ASSUME Basic, AllSound, Approval, NEW p \in Pod, InstanceStep(p)
    PROVE  Approval'
<1> USE DEF specVars, apiVars, podVars, ctlVars, boundVars
<1>1. UNCHANGED <<primary, fenced, approved, ctlVars>>
  BY Zenon DEF InstanceStep, AssignIP, BootRead, BootStart, InstanceRead,
         InstanceActs, InstanceStops, InstanceLeads, InstanceFollows,
         InstanceRetries, LatePromote
<1>2. \A q \in Pod : pod[q] = "up" /\ plan[q] # Stop => pod'[q] = "up"
  BY Zenon DEF InstanceStep, AssignIP, BootRead, BootStart, InstanceRead, InstanceStops,
         InstanceActs, InstanceLeads, InstanceFollows, InstanceRetries,
         LatePromote, Basic, TypeOK
<1>3. \A q \in Pod : plan'[q] = Stop => plan[q] = Stop \/ q \in fenced
  BY InstancePlans
<1>4. approved \/ Steady => approved' \/ Steady'
  BY <1>1, <1>2, <1>3, Zenon DEF Steady, AllSound
<1>5. pc \in {"publish", "selector", "unfence"} => cand \in Pod \ fenced
  BY Zenon DEF Basic, FenceHeld, AllSound
<1>6. /\ approved' \/ Steady'
      /\ pc' \in {"create", "roll"} =>
           primary' \in listed' /\ \A q \in Pod : plan'[q] = Stop => q \in listed'
      /\ mode' = "switchover" /\ pc' \in {"fence", "promote"} =>
           \A q \in Pod \ {primary'} : plan'[q] # Stop
  BY <1>1, <1>3, <1>4, Zenon DEF Approval, AllSound
<1>7. /\ mode' = "switchover" /\ pc' \in {"publish", "selector", "unfence"} =>
           pod'[cand'] = "up" /\ plan'[cand'] # Stop
      /\ pc' = "consume" =>
           pod'[primary'] = "up" /\ plan'[primary'] # Stop /\ fenced' = {}
  BY <1>1, <1>2, <1>3, <1>5, Zenon DEF Approval, AllSound
<1> QED
  BY <1>6, <1>7, Zenon DEF Approval

LEMMA ApprovalUser ==
    ASSUME Approval, ChangeTemplate \/ ApproveUpdate \/ UNCHANGED vars
    PROVE  Approval'
<1> USE DEF specVars, apiVars, podVars, ctlVars, boundVars, Approval, Steady
<1>1. CASE ChangeTemplate \/ UNCHANGED vars
  BY <1>1, Zenon DEF ChangeTemplate, vars
<1>2. CASE ApproveUpdate
  BY <1>2, Zenon DEF ApproveUpdate
<1> QED
  BY <1>1, <1>2, Zenon

LEMMA ApprovalPoll ==
    ASSUME Basic, AllSound, Approval,
           StartReconcile \/ (\E p \in Pod : Poll(p)) \/ UpdateStatus
    PROVE  Approval'
<1> USE PodFacts DEF Basic, TypeOK, PodState, AllSound, Sound, Approval, Steady,
        specVars, apiVars, podVars, ctlVars, boundVars
<1>1. CASE StartReconcile
  BY <1>1, Zenon DEF StartReconcile, HasIP
<1>2. ASSUME NEW p \in Pod, Poll(p)
      PROVE  Approval'
  BY <1>2, Zenon DEF Poll
<1>3. CASE UpdateStatus
  <2>1. shouldTriggerFailover => approved
    BY <1>3, Zenon DEF UpdateStatus, shouldTriggerFailover
  <2>2. primary \in Existing /\ \A p \in Pod : plan[p] = Stop => p \in Existing
    <3>1. primary \in Existing
      BY Zenon DEF Existing
    <3>2. \A p \in Pod : plan[p] = Stop => p \in Existing
      BY StopsRunning, Zenon
    <3> QED
      BY <3>1, <3>2, Zenon
  <2>3. /\ UNCHANGED <<primary, fenced, approved, pod, plan>>
        /\ pc = "poll"
        /\ \/ pc' = "idle"
           \/ pc' = "create" /\ listed' = Existing
           \/ pc' = "fence" /\ mode' = "failover" /\ shouldTriggerFailover
    BY <1>3, Zenon DEF UpdateStatus, Return
  <2> QED
    BY <2>1, <2>2, <2>3, Zenon
<1> QED
  BY <1>1, <1>2, <1>3, Zenon

LEMMA ApprovalFailover ==
    ASSUME Basic, AllSound, Approval, Supervised, FailoverStep
    PROVE  Approval'
<1> USE PodFacts DEF Basic, TypeOK, PodState, FenceHeld, AllSound, Approval, Steady,
        Return, Goto, specVars, apiVars, podVars, ctlVars, boundVars
<1>0. approved
  BY Zenon DEF FailoverStep, SetFence, PromoteInstance, PromoteRefused,
         PromoteSkipped, PublishPrimary, UpdateLeaderService, ClearFence
<1>1. CASE SetFence
  BY <1>0, <1>1, Zenon DEF SetFence
<1>2. CASE PromoteInstance \/ PromoteRefused \/ PromoteSkipped
  BY <1>0, <1>2, Zenon DEF PromoteInstance, PromoteRefused, PromoteSkipped
<1>3. CASE PublishPrimary
  BY <1>0, <1>3, Zenon DEF PublishPrimary
<1>4. CASE UpdateLeaderService
  BY <1>0, <1>4, Zenon DEF UpdateLeaderService
<1>5. CASE ClearFence
  BY <1>0, <1>5, Zenon DEF ClearFence
<1> QED
  BY <1>1, <1>2, <1>3, <1>4, <1>5, Zenon DEF FailoverStep

LEMMA ApprovalPods ==
    ASSUME Basic, OneMissing, Undisturbed, desired >= 3, Supervised,
           AllSound, Approval, PodsStep
    PROVE  Approval'
<1>1. CASE CreatePod
  <2>1. TypeOK
    BY DEF Basic
  <2>2. PICK m \in Pod :
          /\ pc = "create" /\ pod[m] = "absent"
          /\ pod' = [pod EXCEPT ![m] = "pending"]
          /\ UNCHANGED <<specVars, apiVars, of, plan, inflight, ctlVars, boundVars>>
    BY <1>1, <2>1, CreateFacts
  <2>3. UNCHANGED <<approved, primary, fenced, plan, pc, listed>>
    BY <2>2 DEF specVars, apiVars, ctlVars
  <2>4. primary \in Pod /\ primary # m
    BY <2>2 DEF AllSound, Sound
  <2>5. pod'[primary] = pod[primary]
    BY <2>1, <2>2, <2>4 DEF TypeOK
  <2> QED
    BY <2>2, <2>3, <2>5 DEF Approval, Steady
<1>2. ASSUME NEW seen \in CachedPods, RollReplica(seen)
      PROVE  Approval'
  <2>1. TypeOK
    BY DEF Basic
  <2>2. PICK m \in Pod \ {primary} :
          /\ pc = "roll" /\ DeletePods({m}) /\ Return
          /\ UNCHANGED <<specVars, apiVars, boundVars>>
    BY <1>2, <2>1, RollReplicaFacts, Zenon
  <2>3. UNCHANGED <<approved, primary, fenced>> /\ pc' = "idle"
    BY <2>2, SMTT(30) DEF specVars, apiVars, Return
  <2>4. primary \in Pod
    BY Zenon DEF AllSound
  <2>5. pod'[primary] = pod[primary] /\ plan'[primary] = plan[primary]
    BY <2>2, <2>4, Zenon DEF DeletePods
  <2> QED
    BY <2>2, <2>3, <2>5, Zenon DEF Approval, Steady
<1> USE PodFacts DEF Basic, TypeOK, PodState, AllSound, Sound, Approval, Steady,
        Return, Goto, specVars, apiVars, podVars, ctlVars, boundVars
<1>3. CASE ScalePods
  <2>1. UNCHANGED podVars
    BY <1>3, ScaleDeletesNothing, Zenon
  <2>2. primary' = primary
    BY <1>3, Zenon DEF ScalePods
  <2> QED
    BY <1>3, <2>1, <2>2, Zenon DEF ScalePods
<1>4. CASE ConsumeApproval
  BY <1>4, Zenon DEF ConsumeApproval
<1>5. ASSUME NEW seen \in CachedPods, RollPrimary(seen)
      PROVE  Approval'
  <2>1. pc = "roll" /\ Outdated(seen) = {primary}
    BY <1>5, Zenon DEF RollPrimary
  <2>2. seen # {primary}
    BY <1>5, <2>1, NeverAlone, Zenon
  <2>3. \A p \in Pod \ {primary} : plan[p] # Stop
    <3>1. ASSUME NEW p \in Pod, plan[p] = Stop PROVE p \in seen
      <4>1. p \in Existing
        BY <3>1, StopsRunning, Zenon
      <4>2. p \in listed
        BY <2>1, <3>1, Zenon
      <4> QED
        BY <4>1, <4>2, Zenon DEF CachedPods
    <3> QED
      BY <2>1, <3>1, Zenon DEF Outdated
  <2>4. /\ UNCHANGED <<specVars, apiVars, podVars>>
        /\ pc' = "idle" \/ (pc' = "fence" /\ approved)
    BY <1>5, <2>2, Zenon DEF RollPrimary
  <2> QED
    BY <2>1, <2>3, <2>4, Zenon
<1>6. ASSUME NEW seen \in CachedPods, RollDone(seen)
      PROVE  Approval'
  BY <1>6, Zenon DEF RollDone
<1> QED
  BY <1>1, <1>3, <1>4, <1>2, <1>5, <1>6, Zenon DEF PodsStep

LEMMA ApprovalStep ==
    ASSUME Basic, OneMissing, PrimarySound, ApprovalHeld, [Next]_vars
    PROVE  ApprovalHeld'
<1> SUFFICES ASSUME Undisturbed', desired' >= 3, Supervised PROVE Approval'
  BY DEF ApprovalHeld
<1>0. /\ Undisturbed /\ desired >= 3
      /\ CalmStep \/ UNCHANGED vars
  BY Calm DEF Basic
<1>1. AllSound /\ Approval
  BY <1>0 DEF PrimarySound, ApprovalHeld
<1> QED
  BY <1>0, <1>1, ApprovalInstance, ApprovalUser, ApprovalPoll, ApprovalFailover,
     ApprovalPods DEF CalmStep, OperatorStep

LEMMA ApprovalInit == Running => ApprovalHeld
<1> SUFFICES ASSUME Running, desired >= 3 PROVE Approval
  BY DEF ApprovalHeld
<1>1. primary \in Pod /\ pod[primary] = "up" /\ plan[primary] # Stop
  <2>1. primary = 0 /\ 0 \in Pod /\ desired \in Int
    BY PodFacts, PodsAssumption DEF Running
  <2> QED
    BY <2>1 DEF Running, Idle, Stop
<1> QED
  BY <1>1 DEF Running, Approval, Steady

\* For every number of instances from three on: without faults, a supervised
\* update replaces the primary only while the approval stands.
THEOREM ReplacementIsApproved == RunningSpec => NoUnapprovedReplacement
<1> DEFINE I == Basic /\ OneMissing /\ PrimarySound /\ ApprovalHeld
<1>1. Running => I
  BY BasicInit, OneMissingInit, PrimarySoundInit, ApprovalInit
<1>2. I /\ [Next]_vars => I'
  BY BasicStep, OneMissingStep, PrimarySoundStep, ApprovalStep, SMTT(30)
<1>3. I /\ [Next]_vars
        => [Undisturbed /\ desired >= 3 /\ Supervised /\ primary' # primary
              => approved]_vars
  <2> SUFFICES ASSUME I, Next, Undisturbed, desired >= 3, Supervised,
                      primary' # primary
               PROVE  approved
    OBVIOUS
  <2>1. AllSound /\ Approval
    BY DEF PrimarySound, ApprovalHeld
  <2>2. PublishPrimary
    BY <2>1, PrimaryChanges DEF AllSound
  <2> QED
    BY <2>1, <2>2 DEF PublishPrimary, Approval, Steady
<1> QED
  BY <1>1, <1>2, <1>3, PTL DEF RunningSpec, NoUnapprovedReplacement
=============================================================================

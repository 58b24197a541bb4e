------------------------ MODULE ScheduledBackupProofs ------------------------
(***************************************************************************)
(* Proofs about ScheduledBackup, for every period, limit and bound.        *)
(***************************************************************************)
EXTENDS ScheduledBackup, FiniteSetTheorems, WellFoundedInduction, TLAPS

\* What makes retention safe over a stale list.  Names only grow; a backup
\* that is listed and gone was made before the last recorded run, so its name
\* is not given out again; a listed result is final; and of two listed backups
\* with the same result the older is the first to go.  With limits above 0 the
\* newest backup is never deleted, which keeps its name taken.
ListInv ==
    /\ \A b \in DOMAIN backups \cup DOMAIN seen : b <= fired
    /\ last <= fired /\ fired <= now
    /\ pc = "cleanup" => last = fired
    /\ SuccessLimit > 0 /\ FailedLimit > 0 => fired = 0 \/ fired \in DOMAIN backups
    /\ NamesDistinct =>
         /\ \A b \in DOMAIN seen \ DOMAIN backups : b <= last
         /\ \A b \in DOMAIN seen \cap DOMAIN backups :
              seen[b] # "New" => backups[b] = seen[b]
         /\ \A b, c \in DOMAIN seen :
              seen[b] = seen[c] /\ seen[b] # "New" /\ b < c /\ b \in DOMAIN backups
                => c \in DOMAIN backups

Inv == TypeOK /\ ListInv

-----------------------------------------------------------------------------

LEMMA NextRunLater == ASSUME NEW t \in Nat PROVE NextRun(t) \in Nat /\ NextRun(t) > t
BY ScheduleAssumption DEF NextRun

\* A set of times has a latest one.
LEMMA Latest ==
  ASSUME NEW S \in SUBSET Time, S # {}
  PROVE  \E m \in S : \A b \in S : b <= m
<1> DEFINE T == {MaxTime - b : b \in S}
<1>0. \A b \in S : b \in Int /\ MaxTime - b \in Nat
  BY ScheduleAssumption DEF Time
<1>1. T \subseteq Nat /\ T # {}
  <2>1. T \subseteq Nat
    BY <1>0
  <2>2. PICK b \in S : TRUE
    OBVIOUS
  <2>3. MaxTime - b \in T
    BY <2>2
  <2> QED
    BY <2>1, <2>3
<1>2. PICK x \in T : \A y \in T : ~ (<<y, x>> \in OpToRel(<, Nat))
  BY <1>1, NatLessThanWellFounded, WFMin, Zenon
<1>3. \A y \in T : ~ (y < x)
  BY <1>1, <1>2, Zenon DEF OpToRel
<1>4. PICK m \in S : x = MaxTime - m
  OBVIOUS
<1>5. ASSUME NEW b \in S PROVE b <= m
  <2>1. ~ (MaxTime - b < MaxTime - m)
    BY <1>3, <1>4
  <2> QED
    BY <2>1, <1>0, ScheduleAssumption
<1> QED
  BY <1>5

\* Sets of listed backups are finite, and a subset is no larger.
LEMMA ListedFinite ==
  ASSUME TypeOK, NEW S \in SUBSET Time
  PROVE  /\ IsFiniteSet(S) /\ Cardinality(S) \in Nat
         /\ \A T \in SUBSET S : Cardinality(T) \in Nat /\ Cardinality(T) <= Cardinality(S)
<1>1. IsFiniteSet(Time)
  BY FS_Interval, ScheduleAssumption DEF Time
<1>2. IsFiniteSet(S)
  BY <1>1, FS_Subset
<1>3. \A T \in SUBSET S : IsFiniteSet(T) /\ Cardinality(T) <= Cardinality(S)
  BY <1>2, FS_Subset
<1> QED
  BY <1>2, <1>3, FS_CardinalityType

\* If a listed backup is beyond the limit, so is every older one.
LEMMA OlderIsExcess ==
  ASSUME TypeOK, NEW phase \in {"Completed", "Failed"},
         NEW c \in Excess(phase), NEW b \in Listed(phase), b < c
  PROVE  b \in Excess(phase)
<1> DEFINE After(x) == {d \in Listed(phase) : d > x}
<1>1. Listed(phase) \subseteq Time /\ Time \subseteq Int
  BY ScheduleAssumption DEF TypeOK, Listed, Time
<1>2. c \in Listed(phase) /\ Cardinality(After(c)) >= Limit(phase)
  BY DEF Excess
<1>3. After(c) \subseteq After(b) /\ After(b) \subseteq Time
  <2>1. b \in Int /\ c \in Int /\ \A d \in Listed(phase) : d \in Int
    BY <1>1, <1>2, Zenon
  <2>2. \A d \in Listed(phase) : d > c => d > b
    BY <2>1
  <2> QED
    BY <1>1, <2>2
<1>4. Cardinality(After(b)) \in Nat /\ Cardinality(After(c)) \in Nat
      /\ Cardinality(After(c)) <= Cardinality(After(b))
  BY <1>3, ListedFinite
<1>5. Limit(phase) \in Nat
  BY ScheduleAssumption DEF Limit
<1>6. Cardinality(After(b)) >= Limit(phase)
  BY <1>2, <1>4, <1>5
<1> QED
  BY <1>6 DEF Excess

\* What Cleanup removes: ended backups, of each result the oldest listed.
Gone == DOMAIN backups \ DOMAIN backups'

LEMMA CleanupRemoves ==
  ASSUME TypeOK, Cleanup
  PROVE  /\ DOMAIN backups' \subseteq DOMAIN backups
         /\ \A b \in DOMAIN backups' : backups'[b] = backups[b]
         /\ \A b \in Gone : \E phase \in {"Completed", "Failed"} :
              b \in Excess(phase) /\ Deleted(phase) \subseteq Gone /\ b \in Deleted(phase)
<1> DEFINE ok == Deleted("Completed") = Excess("Completed")
           gone == Deleted("Completed") \cup (IF ok THEN Deleted("Failed") ELSE {})
<1>1. backups' = [b \in DOMAIN backups \ gone |-> backups[b]]
  BY DEF Cleanup, Restrict
<1>2. \A phase \in {"Completed", "Failed"} :
        Deleted(phase) \subseteq Excess(phase) \cap DOMAIN backups
  <2>1. \A phase \in {"Completed", "Failed"} :
          \A b \in Excess(phase) : b \in Int
    BY ScheduleAssumption DEF Excess, Listed, TypeOK, Time
  <2> QED
    BY <2>1 DEF Deleted
<1>3. Gone = gone
  BY <1>1, <1>2 DEF Gone
<1> HIDE DEF gone, ok
<1>4. \A b \in gone : \E phase \in {"Completed", "Failed"} :
        Deleted(phase) \subseteq gone /\ b \in Deleted(phase)
  BY DEF gone
<1> QED
  BY <1>1, <1>2, <1>3, <1>4

-----------------------------------------------------------------------------
(* The invariant *)

LEMMA FireStep == ASSUME Inv, Fire PROVE Inv'
<1>0. /\ now \in Nat /\ last \in Nat /\ fired \in Nat /\ now <= MaxTime
      /\ last <= fired /\ fired <= now /\ view.last < now /\ view.last \in Nat
      /\ lags \in Nat /\ lags' \in 0 .. MaxLags
      /\ \A b \in DOMAIN backups \cup DOMAIN seen : b \in Nat /\ b <= fired
  <2>1. view.last \in Nat /\ NextRun(view.last) <= now
    BY ScheduleAssumption DEF Inv, TypeOK, Time, Fire
  <2> QED
    BY <2>1, NextRunLater, ScheduleAssumption DEF Inv, ListInv, TypeOK, Time, Fire
<1>1. ASSUME NamesDistinct'
      PROVE  now \notin DOMAIN seen /\ NamesDistinct
  <2>1. NamesDistinct
    BY <1>0, <1>1 DEF NamesDistinct, Fire
  <2>2. CASE lags' = 0
    <3>1. last < now
      BY <1>0, <2>2 DEF Fire
    <3> QED
      BY <1>0, <2>1, <3>1 DEF Inv, ListInv, Fire
  <2>3. CASE SuccessLimit > 0 /\ FailedLimit > 0
    BY <1>0, <2>1, <2>3 DEF Inv, ListInv, Fire
  <2> QED
    BY <1>1, <2>2, <2>3 DEF NamesDistinct
<1>2. /\ DOMAIN backups' = DOMAIN backups \cup {now}
      /\ backups'[now] = "New"
      /\ \A b \in DOMAIN backups : backups'[b] = backups[b]
  BY DEF Fire
<1>3. TypeOK'
  <2>1. \A b \in DOMAIN backups' : backups'[b] \in Phase
    BY <1>2 DEF Inv, TypeOK, Range, Phase
  <2>2. Range(backups') \subseteq Phase /\ DOMAIN backups' \subseteq Time
    BY <1>2, <2>1 DEF Inv, TypeOK, Range
  <2> QED
    BY <1>0, <2>2, Zenon DEF Inv, TypeOK, Fire, Range
<1>4. ListInv'
  <2>1. NamesDistinct' =>
          /\ \A b \in DOMAIN seen \ DOMAIN backups' : b <= last
          /\ \A b \in DOMAIN seen \cap DOMAIN backups' :
               seen[b] # "New" => backups'[b] = seen[b]
          /\ \A b, c \in DOMAIN seen :
               seen[b] = seen[c] /\ seen[b] # "New" /\ b < c /\ b \in DOMAIN backups'
                 => c \in DOMAIN backups'
    BY <1>1, <1>2 DEF Inv, ListInv
  <2>2. /\ \A b \in DOMAIN backups' \cup DOMAIN seen : b <= now
        /\ last <= now /\ now <= now /\ now \in DOMAIN backups'
    BY <1>0, <1>2
  <2>3. fired' = now /\ pc' = "record" /\ UNCHANGED <<now, last, seen>>
    BY DEF Fire
  <2> QED
    BY <2>1, <2>2, <2>3, Zenon DEF ListInv
<1> QED
  BY <1>3, <1>4 DEF Inv

LEMMA CleanupStep == ASSUME Inv, Cleanup PROVE Inv'
<1>0. TypeOK /\ ListInv
  BY DEF Inv
<1>1. /\ DOMAIN backups' \subseteq DOMAIN backups
      /\ \A b \in DOMAIN backups' : backups'[b] = backups[b]
  BY <1>0, CleanupRemoves
<1>2. TypeOK'
  <2>1. Range(backups') \subseteq Phase /\ DOMAIN backups' \subseteq Time
    BY <1>0, <1>1 DEF TypeOK, Range
  <2> QED
    BY <1>0, <2>1 DEF TypeOK, Cleanup
<1>3. ASSUME NEW b \in DOMAIN seen, NEW c \in DOMAIN seen, seen[b] = seen[c],
             seen[b] # "New", b < c, b \in DOMAIN backups', c \notin DOMAIN backups'
      PROVE ~ NamesDistinct
  <2> SUFFICES ASSUME NamesDistinct PROVE FALSE
    OBVIOUS
  <2>1. c \in DOMAIN backups
    BY <1>0, <1>1, <1>3 DEF ListInv
  <2>2. PICK phase \in {"Completed", "Failed"} :
          c \in Excess(phase) /\ Deleted(phase) \subseteq Gone /\ c \in Deleted(phase)
    BY <1>0, <1>3, <2>1, CleanupRemoves DEF Gone
  <2>3. b \in Listed(phase)
    BY <1>3, <2>2 DEF Excess, Listed
  <2>4. b \in Excess(phase)
    BY <1>0, <1>3, <2>2, <2>3, OlderIsExcess
  <2>5. b \in Deleted(phase)
    <3>1. \A d \in Excess(phase) : d \in Int
      BY <1>0, ScheduleAssumption DEF Excess, Listed, TypeOK, Time
    <3>2. \A d \in Excess(phase) : d <= b => d <= c
      BY <1>3, <2>2, <2>4, <3>1
    <3> QED
      BY <2>2, <2>4, <3>2 DEF Deleted
  <2> QED
    BY <1>3, <2>2, <2>5 DEF Gone
<1>4. ListInv'
  <2>1. \A b \in DOMAIN seen : b <= last
    BY <1>0 DEF ListInv, Cleanup
  <2>2. NamesDistinct => \A b \in DOMAIN seen \cap DOMAIN backups' :
                           seen[b] # "New" => backups'[b] = seen[b]
    BY <1>0, <1>1 DEF ListInv
  <2>3. SuccessLimit > 0 /\ FailedLimit > 0 => fired = 0 \/ fired \in DOMAIN backups'
    <3> SUFFICES ASSUME SuccessLimit > 0, FailedLimit > 0, fired \in Gone PROVE FALSE
      BY <1>0 DEF ListInv, Gone
    <3>1. PICK phase \in {"Completed", "Failed"} : fired \in Excess(phase)
      BY <1>0, CleanupRemoves
    <3>2. {c \in Listed(phase) : c > fired} = {}
      <4>1. \A c \in DOMAIN seen : c \in Int /\ c <= fired /\ fired \in Int
        BY <1>0, ScheduleAssumption DEF ListInv, TypeOK, Time
      <4> QED
        BY <4>1 DEF Listed
    <3>3. Cardinality({c \in Listed(phase) : c > fired}) = 0
      BY <3>2, FS_EmptySet
    <3> QED
      BY <3>1, <3>3, ScheduleAssumption DEF Excess, Limit
  <2>4. NamesDistinct' => NamesDistinct
    BY DEF NamesDistinct, Cleanup
  <2> QED
    BY <1>0, <1>1, <1>3, <2>1, <2>2, <2>3, <2>4 DEF ListInv, Cleanup
<1> QED
  BY <1>2, <1>4 DEF Inv

LEMMA FinishStep == ASSUME Inv, NEW b \in DOMAIN backups, Finish(b) PROVE Inv'
<1>1. /\ DOMAIN backups' = DOMAIN backups /\ backups[b] = "New"
      /\ backups'[b] \in {"Completed", "Failed"}
      /\ \A c \in DOMAIN backups \ {b} : backups'[c] = backups[c]
  BY DEF Finish
<1>2. TypeOK'
  <2>1. \A c \in DOMAIN backups' : backups'[c] \in Phase
    BY <1>1 DEF Inv, TypeOK, Range, Phase
  <2> QED
    BY <1>1, <2>1 DEF Inv, TypeOK, Range, Finish
<1>3. ListInv'
  BY <1>1 DEF Inv, ListInv, Finish, NamesDistinct
<1> QED
  BY <1>2, <1>3 DEF Inv

LEMMA InvStep == ASSUME Inv, [Next]_vars PROVE Inv'
<1>1. CASE Fire
  BY <1>1, FireStep
<1>2. CASE Record
  BY <1>2 DEF Inv, TypeOK, ListInv, NamesDistinct, Record, Time
<1>3. CASE Cleanup
  BY <1>3, CleanupStep
<1>4. CASE Abort
  BY <1>4, ScheduleAssumption DEF Inv, TypeOK, ListInv, NamesDistinct, Abort
<1>5. CASE Sync
  BY <1>5 DEF Inv, TypeOK, ListInv, NamesDistinct, Sync
<1>10. CASE SyncSchedule
  BY <1>10 DEF Inv, TypeOK, ListInv, NamesDistinct, SyncSchedule
<1>6. CASE Tick
  BY <1>6, ScheduleAssumption DEF Inv, TypeOK, ListInv, NamesDistinct, Tick, Time
<1>7. CASE Edit
  BY <1>7, ScheduleAssumption DEF Inv, TypeOK, ListInv, NamesDistinct, Edit
<1>8. CASE \E b \in DOMAIN backups : Finish(b)
  BY <1>8, FinishStep
<1>9. CASE UNCHANGED vars
  BY <1>9 DEF Inv, TypeOK, ListInv, NamesDistinct, vars
<1> QED
  BY <1>1, <1>2, <1>3, <1>4, <1>5, <1>6, <1>7, <1>8, <1>9, <1>10 DEF Next, Reconcile

-----------------------------------------------------------------------------

\* A backup that Cleanup deletes has ended, and the limit's number of newer
\* ones with the same result remain: those after the newest that is beyond it.
LEMMA CleanupKeeps ==
  ASSUME Inv, NamesDistinct, Cleanup, NEW b \in Gone
  PROVE  /\ backups[b] # "New"
         /\ Cardinality({c \in DOMAIN backups' : backups'[c] = backups[b] /\ c > b})
              >= Limit(backups[b])
<1>0. TypeOK /\ ListInv
  BY DEF Inv
<1>1. PICK phase \in {"Completed", "Failed"} : b \in Excess(phase)
  BY <1>0, CleanupRemoves
<1>2. \A d \in Listed(phase) : d \in Time /\ d \in Int
  BY <1>0, ScheduleAssumption DEF Listed, TypeOK, Time
<1>3. backups[b] = phase
  BY <1>0, <1>1 DEF Gone, ListInv, Excess, Listed
<1>4. PICK m \in Excess(phase) : \A d \in Excess(phase) : d <= m
  <2>1. Excess(phase) \in SUBSET Time /\ Excess(phase) # {}
    BY <1>1, <1>2, Zenon DEF Excess
  <2> QED
    BY <2>1, Latest
<1> DEFINE Kept == {d \in Listed(phase) : d > m}
           Left == {c \in DOMAIN backups' : backups'[c] = backups[b] /\ c > b}
<1>5. Cardinality(Kept) >= Limit(phase)
  BY <1>4 DEF Excess
<1>6. ASSUME NEW d \in Kept PROVE d \in Left
  <2>1. d \in Int /\ m \in Int /\ b \in Int /\ b <= m /\ d > m
    BY <1>1, <1>2, <1>4 DEF Excess
  <2>2. d > b /\ d \notin Excess(phase)
    BY <2>1, <1>4
  <2>3. d \in DOMAIN backups /\ backups[d] = phase
    BY <1>0, <1>1, <2>1, <2>2 DEF Gone, ListInv, Excess, Listed
  <2>4. d \notin Gone
    <3>1. \A other \in {"Completed", "Failed"} : d \in Excess(other) => other = phase
      BY DEF Excess, Listed
    <3> QED
      BY <1>0, <2>2, <3>1, CleanupRemoves
  <2>5. d \in DOMAIN backups' /\ backups'[d] = phase
    BY <1>0, <2>3, <2>4, CleanupRemoves DEF Gone
  <2> QED
    BY <1>3, <2>2, <2>5
<1>7. Left \in SUBSET Time
  BY <1>0, CleanupRemoves DEF TypeOK
<1>8. /\ Cardinality(Left) \in Nat /\ Cardinality(Kept) \in Nat
      /\ Cardinality(Kept) <= Cardinality(Left)
  BY <1>0, <1>6, <1>7, ListedFinite
<1>9. Limit(phase) \in Nat
  BY ScheduleAssumption DEF Limit
<1> QED
  BY <1>3, <1>5, <1>8, <1>9

LEMMA InvHolds == Spec => []Inv
<1>1. Init => Inv
  BY ScheduleAssumption DEF Init, Inv, TypeOK, ListInv, Time, Range, Schedule
<1>2. Inv /\ [Next]_vars => Inv'
  BY InvStep
<1> QED
  BY <1>1, <1>2, PTL DEF Spec

\* The variables keep their types: a backup is named after a time that has
\* come, whatever the cache still lists.
THEOREM ScheduleTyped == Spec => []TypeOK
<1>1. Inv => TypeOK
  BY DEF Inv
<1> QED
  BY <1>1, InvHolds, PTL

\* For every period, limit and number of crashes, and however stale the list
\* and the schedule: as long as no name is given out twice, cleanupOldBackups
\* deletes only ended backups, and keeps the newest of each result up to its
\* limit.
THEOREM RetentionKeepsNewest == Spec => KeepsNewest
<1> DEFINE Keeps ==
      NamesDistinct => \A b \in Gone :
                      /\ backups[b] # "New"
                      /\ Cardinality({c \in DOMAIN backups' :
                                        backups'[c] = backups[b] /\ c > b})
                           >= Limit(backups[b])
<1>1. Inv /\ [Next]_vars => [Keeps]_vars
  <2> SUFFICES ASSUME Inv, Next PROVE Keeps
    OBVIOUS
  <2>1. CASE Cleanup
    BY <2>1, CleanupKeeps
  <2>2. CASE ~ Cleanup
    <3>1. DOMAIN backups \subseteq DOMAIN backups'
      BY <2>2 DEF Next, Reconcile, Fire, Record, Abort, Sync, SyncSchedule, Tick, Edit,
                      Finish
    <3> QED
      BY <3>1 DEF Gone
  <2> QED
    BY <2>1, <2>2
<1>2. [][Keeps]_vars => KeepsNewest
  BY DEF KeepsNewest, Gone
<1> QED
  BY <1>1, <1>2, InvHolds, PTL DEF Spec

-----------------------------------------------------------------------------
(* One backup for each occurrence *)

Window(a) == {b \in DOMAIN backups : a <= b /\ b < NextRun(a)}

\* A run that was not recorded was aborted: as long as its occurrence is the
\* current one there is a backup less than OnePerOccurrence allows.  A run on an
\* old lastScheduleTime raises what it allows by the one it creates.
OccInv ==
    /\ OnePerOccurrence
    /\ pc = "idle" /\ last # fired =>
         \A a \in DOMAIN backups : fired < NextRun(a) => Cardinality(Window(a)) <= aborts + lags

LEMMA NextRunMonotone ==
  ASSUME NEW a \in Nat, NEW t \in Nat, a <= t
  PROVE  NextRun(a) <= NextRun(t)
<1> DEFINE q == a \div Period
           r == t \div Period
<1>1. Period \in Nat /\ Period > 0 /\ q \in Nat /\ r \in Nat
  BY ScheduleAssumption
<1>2. q * Period <= a /\ t < (r + 1) * Period
  BY ScheduleAssumption, NextRunLater DEF NextRun
<1> HIDE DEF q, r
<1>3. q * Period < (r + 1) * Period
  BY <1>1, <1>2
<1>4. q <= r
  BY <1>1, <1>3
<1>5. (q + 1) * Period <= (r + 1) * Period
  BY <1>1, <1>4
<1> QED
  BY <1>5 DEF NextRun, q, r

LEMMA OccurrenceFire == ASSUME Inv, OccInv, Fire PROVE OccInv'
<1>0. /\ now \in Nat /\ last \in Nat /\ fired \in Nat /\ aborts \in Nat
      /\ lags \in Nat /\ lags' \in Nat /\ lags' >= lags /\ aborts' = aborts
      /\ last <= fired /\ fired <= now
      /\ now \in Time /\ DOMAIN backups \subseteq Time
      /\ \A b \in DOMAIN backups : b \in Nat /\ b <= fired
  BY ScheduleAssumption DEF Inv, ListInv, TypeOK, Time, Fire
<1>1. DOMAIN backups' = DOMAIN backups \cup {now} /\ now \notin DOMAIN backups
  BY DEF Fire
<1>2. ASSUME NEW a \in DOMAIN backups
      PROVE  Cardinality({b \in DOMAIN backups' : a <= b /\ b < NextRun(a)})
               <= 1 + aborts + lags'
  <2> DEFINE W == {b \in DOMAIN backups' : a <= b /\ b < NextRun(a)}
  <2>0. /\ Window(a) \in SUBSET Time
        /\ IsFiniteSet(Window(a)) /\ Cardinality(Window(a)) \in Nat
        /\ Cardinality(Window(a)) <= 1 + aborts + lags
    <3>1. Window(a) \in SUBSET Time
      BY <1>0 DEF Window
    <3>2. Cardinality(Window(a)) <= 1 + aborts + lags
      BY DEF OccInv, OnePerOccurrence, Window
    <3> QED
      BY <3>1, <3>2, ListedFinite DEF Inv
  <2>1. CASE now < NextRun(a)
    <3>1. W = Window(a) \cup {now} /\ now \notin Window(a)
      BY <1>0, <1>1, <1>2, <2>1 DEF Window
    <3>2. Cardinality(W) = Cardinality(Window(a)) + 1
      BY <2>0, <3>1, FS_AddElement, Zenon
    <3>3. CASE lags' = lags + 1
      BY <1>0, <2>0, <3>2, <3>3
    <3>4. CASE view.last = last /\ lags' = lags
      <4>1. NextRun(last) <= now
        BY <3>4 DEF Fire
      <4>2. last # fired
        BY <1>0, <1>2, <2>1, <4>1, NextRunMonotone, NextRunLater
      <4>3. fired < NextRun(a)
        BY <1>0, <1>2, <2>1, NextRunLater
      <4>4. Cardinality(Window(a)) <= aborts + lags
        BY <1>2, <4>2, <4>3 DEF OccInv, Fire
      <4> QED
        BY <1>0, <2>0, <3>2, <3>4, <4>4
    <3> QED
      BY <3>3, <3>4 DEF Fire
  <2>2. CASE ~ (now < NextRun(a))
    <3>1. W = Window(a)
      BY <1>1, <2>2 DEF Window
    <3> QED
      BY <1>0, <2>0, <3>1
  <2> QED
    BY <2>1, <2>2
<1>3. Cardinality({b \in DOMAIN backups' : now <= b /\ b < NextRun(now)})
        <= 1 + aborts + lags'
  <2>1. {b \in DOMAIN backups' : now <= b /\ b < NextRun(now)} = {now}
    <3>1. \A b \in DOMAIN backups : ~ (now <= b)
      BY <1>0, <1>1
    <3> QED
      BY <1>0, <1>1, <3>1, NextRunLater
  <2>2. Cardinality({now}) = 1
    BY FS_Singleton
  <2> QED
    BY <1>0, <2>1, <2>2
<1>4. OnePerOccurrence'
  BY <1>0, <1>1, <1>2, <1>3, Zenon DEF OnePerOccurrence, NextRun
<1> QED
  BY <1>4 DEF OccInv, Fire

\* Deleting backups leaves fewer of each occurrence.
LEMMA OccurrenceCleanup == ASSUME Inv, OccInv, Cleanup PROVE OccInv'
<1>0. TypeOK /\ DOMAIN backups' \subseteq DOMAIN backups /\ DOMAIN backups \subseteq Time
      /\ aborts \in Nat /\ lags \in Nat
  BY CleanupRemoves DEF Inv, TypeOK
<1>1. ASSUME NEW a \in DOMAIN backups'
      PROVE  Cardinality({b \in DOMAIN backups' : a <= b /\ b < NextRun(a)}) <= 1 + aborts + lags
  <2> DEFINE W == {b \in DOMAIN backups' : a <= b /\ b < NextRun(a)}
  <2>1. W \in SUBSET Window(a) /\ Window(a) \in SUBSET Time
    BY <1>0 DEF Window
  <2>2. /\ Cardinality(W) \in Nat /\ Cardinality(Window(a)) \in Nat
        /\ Cardinality(W) <= Cardinality(Window(a))
    BY <1>0, <2>1, ListedFinite
  <2>3. Cardinality(Window(a)) <= 1 + aborts + lags
    BY <1>0, <1>1 DEF OccInv, OnePerOccurrence, Window
  <2> QED
    BY <1>0, <2>2, <2>3
<1>2. OnePerOccurrence'
  BY <1>1, Zenon DEF OnePerOccurrence, NextRun, Cleanup
<1> QED
  BY <1>2 DEF OccInv, Inv, ListInv, Cleanup

\* Every other step leaves the names of the backups alone.
LEMMA OccurrenceRest ==
  ASSUME Inv, OccInv, DOMAIN backups' = DOMAIN backups,
         \/ UNCHANGED <<last, pc, fired, aborts, lags>>
         \/ Record \/ Abort
  PROVE  OccInv'
<1>0. /\ aborts \in Nat /\ lags \in Nat /\ lags' = lags /\ DOMAIN backups \subseteq Time
      /\ aborts' = aborts \/ (Abort /\ aborts' = aborts + 1)
  BY DEF Inv, TypeOK, Record, Abort
<1>1. \A a \in DOMAIN backups :
        Cardinality(Window(a)) \in Nat /\ Cardinality(Window(a)) <= 1 + aborts + lags
  BY <1>0, ListedFinite DEF Inv, OccInv, OnePerOccurrence, Window
<1>2. \A a : Window(a)' = Window(a) /\ NextRun(a)' = NextRun(a)
  BY DEF Window, NextRun
<1>3. OnePerOccurrence'
  BY <1>0, <1>1 DEF OnePerOccurrence, NextRun, Window
<1>4. CASE Abort
  <2>1. \A a \in DOMAIN backups : Cardinality(Window(a)) <= aborts' + lags
    BY <1>0, <1>1, <1>4 DEF Abort
  <2> QED
    BY <1>3, <1>4, <2>1 DEF OccInv, Window, NextRun, Abort
<1>5. CASE Record
  BY <1>3, <1>5 DEF OccInv, Record
<1>6. CASE UNCHANGED <<last, pc, fired, aborts, lags>>
  BY <1>3, <1>6 DEF OccInv, Window, NextRun
<1> QED
  BY <1>4, <1>5, <1>6

\* For every period and limit: no occurrence of the schedule has two backups,
\* but for one more each time the operator stopped before it recorded the run,
\* and each time the cache gave it a lastScheduleTime that was out of date.
THEOREM OneBackupPerOccurrence == Spec => []OnePerOccurrence
<1>1. Init => Inv /\ OccInv
  <2>1. Init => Inv
    BY ScheduleAssumption DEF Init, Inv, TypeOK, ListInv, Time, Range, Schedule
  <2> QED
    BY <2>1 DEF Init, OccInv, OnePerOccurrence
<1>2. Inv /\ OccInv /\ [Next]_vars => Inv' /\ OccInv'
  <2> SUFFICES ASSUME Inv, OccInv, [Next]_vars PROVE OccInv'
    BY InvStep
  <2>1. CASE Fire
    BY <2>1, OccurrenceFire
  <2>2. CASE Cleanup
    BY <2>2, OccurrenceCleanup
  <2>3. CASE Record \/ Abort
    <3>1. DOMAIN backups' = DOMAIN backups
      BY <2>3 DEF Record, Abort
    <3> QED
      BY <2>3, <3>1, OccurrenceRest
  <2>4. CASE \/ Sync \/ SyncSchedule \/ Tick \/ Edit \/ UNCHANGED vars
             \/ \E b \in DOMAIN backups : Finish(b)
    <3>1. /\ DOMAIN backups' = DOMAIN backups
          /\ UNCHANGED <<last, pc, fired, aborts, lags>>
      BY <2>4 DEF Sync, SyncSchedule, Tick, Edit, Finish, vars
    <3> QED
      BY <3>1, OccurrenceRest
  <2> QED
    BY <2>1, <2>2, <2>3, <2>4 DEF Next, Reconcile
<1>3. OccInv => OnePerOccurrence
  BY DEF OccInv
<1> QED
  BY <1>1, <1>2, <1>3, PTL DEF Spec
=============================================================================

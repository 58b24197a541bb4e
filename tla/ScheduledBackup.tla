-------------------------- MODULE ScheduledBackup --------------------------
(***************************************************************************)
(* One RedisScheduledBackup and the RedisBackup objects it creates.        *)
(* Time is counted in seconds, the resolution of metav1.Time and of the    *)
(* names of the backups; the schedule fires at the multiples of Period.    *)
(* The status fields nothing reads (phase, nextScheduleTime,               *)
(* lastBackupName, conditions) are left out.                               *)
(***************************************************************************)
EXTENDS Integers, FiniteSets, Functions

CONSTANTS
    Period,        \* seconds between two occurrences of the schedule
    SuccessLimit,  \* spec.successfulBackupsHistoryLimit
    FailedLimit,   \* spec.failedBackupsHistoryLimit
    MaxTime,       \* bound: the clock
    MaxEdits,      \* bound: edits of the spec
    MaxAborts,     \* bound: operator crashes and failed API calls
    MaxLags        \* bound: runs decided on an old lastScheduleTime

ASSUME ScheduleAssumption ==
    /\ Period \in Nat \ {0} /\ SuccessLimit \in Nat /\ FailedLimit \in Nat
    /\ MaxTime \in Nat /\ MaxEdits \in Nat
    /\ MaxAborts \in Nat /\ MaxLags \in Nat

VARIABLES
    now,      \* the clock
    spec,     \* "active", "suspended" or "invalid" (no such occurrence)
    last,     \* status.lastScheduleTime, creation (0) before the first
    view,     \* spec and last in the operator's informer cache
    backups,  \* phase of each RedisBackup, by the time in its name
    seen,     \* the same in the informer cache of the backups
    pc,       \* "idle", "record" or "cleanup"
    fired,    \* time.Now() of the reconcile in progress
    edits, aborts,
    lags      \* runs that an up-to-date cache would not have started

vars == <<now, spec, last, view, backups, seen, pc, fired, edits, aborts, lags>>

Time == 0 .. MaxTime
Phase == {"New", "Completed", "Failed"}
Schedule == {"active", "suspended", "invalid"}
Limit(phase) == IF phase = "Completed" THEN SuccessLimit ELSE FailedLimit

Init ==
    /\ now = 0 /\ spec = "active" /\ last = 0
    /\ view = [spec |-> "active", last |-> 0]
    /\ backups = << >> /\ seen = << >>
    /\ pc = "idle" /\ fired = 0 /\ edits = 0 /\ aborts = 0 /\ lags = 0

\* sched.Next: the first occurrence after t.
NextRun(t) == (t \div Period + 1) * Period
-----------------------------------------------------------------------------
\* Faulty variant: an occurrence that has passed is dropped.
Fire_OnTime ==
    /\ pc = "idle" /\ view.spec = "active"
    /\ NextRun(view.last) = now /\ now \notin DOMAIN backups
    /\ \/ view.last = last /\ lags' = lags
       \/ view.last # last /\ lags < MaxLags /\ lags' = lags + 1
    /\ backups' = [b \in DOMAIN backups \cup {now} |->
                     IF b = now THEN "New" ELSE backups[b]]
    /\ fired' = now /\ pc' = "record"
    /\ UNCHANGED <<now, spec, last, view, seen, edits, aborts>>

\* Reconcile finds the schedule, as the cache has it, due and creates a backup
\* named after the second; a second one in the same second is refused.
Fire ==
    /\ pc = "idle" /\ view.spec = "active"
    /\ NextRun(view.last) <= now /\ now \notin DOMAIN backups
    /\ \/ view.last = last /\ lags' = lags
       \/ view.last # last /\ lags < MaxLags /\ lags' = lags + 1
    /\ backups' = [b \in DOMAIN backups \cup {now} |->
                     IF b = now THEN "New" ELSE backups[b]]
    /\ fired' = now /\ pc' = "record"
    /\ UNCHANGED <<now, spec, last, view, seen, edits, aborts>>

\* Faulty variant: the schedule advances to the occurrence it served.
Record_Occurrence ==
    /\ pc = "record"
    /\ last' = NextRun(last)
    /\ pc' = "cleanup"
    /\ UNCHANGED <<now, spec, view, backups, seen, fired, edits, aborts, lags>>

\* Faulty variant: nextScheduleTime is written to the wrong field.
Record_Next ==
    /\ pc = "record"
    /\ last' = NextRun(fired)
    /\ pc' = "cleanup"
    /\ UNCHANGED <<now, spec, view, backups, seen, fired, edits, aborts, lags>>

\* The status patch: the schedule advances past now.
Record ==
    /\ pc = "record"
    /\ last' = fired
    /\ pc' = "cleanup"
    /\ UNCHANGED <<now, spec, view, backups, seen, fired, edits, aborts, lags>>

Listed(phase) == {b \in DOMAIN seen : seen[b] = phase}

\* Faulty variant: sorted the other way round.
Excess_Newest(phase) ==
    {b \in Listed(phase) :
       Cardinality({c \in Listed(phase) : c < b}) >= Limit(phase)}

\* The listed backups beyond the limit, oldest first.
Excess(phase) ==
    {b \in Listed(phase) :
       Cardinality({c \in Listed(phase) : c > b}) >= Limit(phase)}

\* Deletion in that order stops at the first object that no longer exists.
Deleted(phase) ==
    {b \in Excess(phase) :
       \A c \in Excess(phase) : c <= b => c \in DOMAIN backups}

\* cleanupOldBackups: successful backups first, failed ones only if none of
\* the deletions returned an error.
Cleanup ==
    /\ pc = "cleanup"
    /\ LET ok == Deleted("Completed") = Excess("Completed")
           gone == Deleted("Completed")
                     \cup (IF ok THEN Deleted("Failed") ELSE {})
       IN backups' = Restrict(backups, DOMAIN backups \ gone)
    /\ pc' = "idle"
    /\ UNCHANGED <<now, spec, last, view, seen, fired, edits, aborts, lags>>

\* The operator crashes or a call fails; for cleanup this is only logged.
\* (Bound: not in the last second, in which nothing can be created again.)
Abort ==
    /\ pc # "idle" /\ aborts < MaxAborts /\ now < MaxTime
    /\ aborts' = aborts + 1 /\ pc' = "idle"
    /\ UNCHANGED <<now, spec, last, view, backups, seen, fired, edits, lags>>

\* The informer cache catches up.
Sync ==
    /\ seen # backups /\ seen' = backups
    /\ UNCHANGED <<now, spec, last, view, backups, pc, fired, edits, aborts, lags>>

\* The informer cache of the schedules does.
SyncSchedule ==
    /\ view # [spec |-> spec, last |-> last]
    /\ view' = [spec |-> spec, last |-> last]
    /\ UNCHANGED <<now, spec, last, backups, seen, pc, fired, edits, aborts, lags>>

\* BackupReconciler ends a backup: see module Backup.
Finish(b) ==
    /\ backups[b] = "New"
    /\ \E result \in {"Completed", "Failed"} :
         backups' = [backups EXCEPT ![b] = result]
    /\ UNCHANGED <<now, spec, last, view, seen, pc, fired, edits, aborts, lags>>

Tick ==
    /\ now < MaxTime /\ now' = now + 1
    /\ UNCHANGED <<spec, last, view, backups, seen, pc, fired, edits, aborts, lags>>

\* The user suspends or resumes the schedule, breaks or repairs it.
Edit ==
    /\ edits < MaxEdits /\ edits' = edits + 1
    /\ spec' \in Schedule \ {spec}
    /\ UNCHANGED <<now, last, view, backups, seen, pc, fired, aborts, lags>>

Reconcile == Fire \/ Record \/ Cleanup

Next == \/ Reconcile \/ Abort \/ Sync \/ SyncSchedule \/ Tick \/ Edit
        \/ \E b \in DOMAIN backups : Finish(b)

Spec == /\ Init /\ [][Next]_vars
        /\ WF_vars(Reconcile) /\ WF_vars(SyncSchedule) /\ WF_vars(Tick)
-----------------------------------------------------------------------------
TypeOK ==
    /\ now \in Time /\ last \in Time /\ fired \in Time
    /\ spec \in Schedule /\ view \in [spec : Schedule, last : Time]
    /\ DOMAIN backups \subseteq Time /\ Range(backups) \subseteq Phase
    /\ DOMAIN seen \subseteq Time /\ Range(seen) \subseteq Phase
    /\ pc \in {"idle", "record", "cleanup"}
    /\ edits \in 0 .. MaxEdits /\ aborts \in 0 .. MaxAborts
    /\ lags \in 0 .. MaxLags

\* However many occurrences were missed, one backup makes up for all of them:
\* no occurrence has two backups, but for one more each time the operator
\* stopped between creating a backup and patching lastScheduleTime, and each
\* time it decided on a cached lastScheduleTime that was out of date.
OnePerOccurrence ==
    \A a \in DOMAIN backups :
      Cardinality({b \in DOMAIN backups : a <= b /\ b < NextRun(a)})
        <= 1 + aborts + lags

\* No name is given out twice.  With a limit of 0 a backup may end, be deleted
\* and be created again within one second, by a run that should not have been.
NamesDistinct == lags = 0 \/ (SuccessLimit > 0 /\ FailedLimit > 0)

\* cleanupOldBackups deletes a backup only if it has ended and as many newer
\* ones with the same result remain as the limit says, however stale the list
\* it works from and in whatever order the backups ended.
KeepsNewest ==
    [][NamesDistinct =>
         \A b \in DOMAIN backups \ DOMAIN backups' :
           /\ backups[b] # "New"
           /\ Cardinality({c \in DOMAIN backups' :
                             backups'[c] = backups[b] /\ c > b})
                >= Limit(backups[b])]_vars

\* No occurrence stays missed while the schedule is active.
CatchesUp == <>[](spec = "active" => now < NextRun(last))
=============================================================================

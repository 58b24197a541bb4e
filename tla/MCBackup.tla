------------------------------ MODULE MCBackup ------------------------------
EXTENDS Restore

\* A restore depends on nothing but the backup it is made from.  The cluster
\* that was backed up changes only until the backup has ended, and a backup is
\* restored if it is Completed after no crash and one change at most.
Restorable ==
    /\ phase = "Completed" /\ seen = phase /\ aborts = 0 /\ changes <= 1
    /\ cluster = "healthy" /\ \A s \in Shard : label[s] = s - 1

Explored ==
    /\ RestoreNext
    /\ phase \in Terminal => UNCHANGED changes
    /\ ~ Restorable => UNCHANGED restoreVars

BackupAndRestore ==
    RestoreInit /\ [][Explored]_<<vars, restoreVars>> /\ RestoreFairness
=============================================================================

---------------------------- MODULE MCMastership ----------------------------
EXTENDS Mastership

\* With sentinels an aborted reconcile takes the place of one of the changes.
Explored == MastershipNext /\ (mode = "sentinel" => changes' + aborts' <= MaxChanges)

ExploredSpec == MastershipInit /\ [][Explored]_all /\ Fairness
=============================================================================

--------------------------- MODULE MCCredentials ---------------------------
EXTENDS Credentials

\* A pod's restart or lost connection comes alone; an edit may come together
\* with a reconcile that is cut off.
Explored == Next /\ faults' + edits' <= 1 /\ faults' + aborts' <= 1

ExploredSpec == Init /\ [][Explored]_vars /\ Fairness
=============================================================================

------------------------------ MODULE MCVolumes ------------------------------
EXTENDS Volumes

\* One disturbance, a lost pod or an aborted reconcile, and three at most of
\* these: the disturbance, the resize, a window's opening and its closing.
Explored ==
    Next /\ faults' + aborts' <= 1 /\ faults' + aborts' + windows' + (size' - 1) <= 3

ExploredSpec == Init /\ [][Explored]_vars /\ Fairness
=============================================================================

---------------------------- MODULE MCStandalone ----------------------------
EXTENDS Standalone

\* Two courses of events in one run: a cluster of two from its creation,
\* which is not scaled and meets two faults, or a fault and a change of its
\* template; and a running cluster of three, whose template does not change
\* and which meets one fault.
Pair == desired = 2 /\ scalings = 0
Explored ==
    TimelyNext /\ IF Pair THEN UNCHANGED scalings /\ faults' + revision' <= 2
                  ELSE UNCHANGED revision /\ faults' <= 1

PairOrTrioSpec ==
    /\ (Init /\ desired = 2) \/ (Running /\ desired = 3)
    /\ [][Explored]_vars /\ Liveness
\* The same two, without fairness and without the promptness it needs: the pair
\* from its creation, scaled down and up again, meets faults and aborted
\* reconciles; the trio's template changes and its updates wait for approval.
PairOrTrioNext ==
    Next /\ IF desired = 3 THEN UNCHANGED <<faults, aborts, scalings>>
            ELSE UNCHANGED <<revision, approved>> /\ desired' <= 2

PairOrTrio ==
    /\ (Init /\ desired = 2) \/ (Running /\ desired = 3)
    /\ [][PairOrTrioNext]_vars
=============================================================================

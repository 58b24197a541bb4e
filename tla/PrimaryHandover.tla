-------------------------- MODULE PrimaryHandover --------------------------
(***************************************************************************)
(* What the operator promises about status.currentPrimary and the fences,  *)
(* whatever crashes or times out: the primary is replaced only while the   *)
(* outgoing one is fenced, and the fence on the pod that is the primary is *)
(* never lifted, only the fence on a pod that no longer is.                *)
(***************************************************************************)
EXTENDS Integers

CONSTANTS Pod, NoPod

VARIABLES primary, fenced

Init == primary \in Pod \cup {NoPod} /\ fenced = {}

\* A new cluster gets its first primary.
Bootstrap == primary = NoPod /\ primary' \in Pod /\ UNCHANGED fenced

Fence == /\ primary # NoPod
         /\ fenced' = fenced \cup {primary}
         /\ UNCHANGED primary

Replace == /\ primary \in fenced
           /\ primary' \in Pod \ {primary}
           /\ UNCHANGED fenced

Release == /\ \E p \in fenced \ {primary} : fenced' = fenced \ {p}
           /\ UNCHANGED primary

Next == Bootstrap \/ Fence \/ Replace \/ Release

Spec == Init /\ [][Next]_<<primary, fenced>>
=============================================================================

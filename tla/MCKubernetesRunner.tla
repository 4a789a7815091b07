------------------------- MODULE MCKubernetesRunner -------------------------
(* Instances of KubernetesRunner for TLC. *)
EXTENDS KubernetesRunner

CONSTANTS k1, k2, c1, c2, j1, j2, j3

\* j3 belongs to another pull request than j1 and j2.
MCKeyOf == [j \in Jobs |-> IF j = j3 THEN k2 ELSE k1]

MCChannelOf == [j \in Jobs |-> IF j = j3 THEN c2 ELSE c1]

Quiescent ==
    /\ \A j \in Jobs : enqueuer[j] \in {"accepted", "refused"} /\ pod[j] # "running"
    /\ \A t \in Jobs : ~Queue!Live(t)

Finished == Quiescent /\ UNCHANGED vars

MCSpec == Init /\ [][Next \/ Finished]_vars
MCFairSpec == MCSpec /\ Fairness
=============================================================================

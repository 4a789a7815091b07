-------------------------- MODULE MCRedisJobQueue --------------------------
(* Instances of RedisJobQueue for TLC. *)
EXTENDS RedisJobQueue

CONSTANTS k1, k2, j1, j2, j3, j4

MCKeyOf == [j \in Jobs |-> IF j = j4 THEN k2 ELSE k1]

\* Every call of enqueue() ended and no consumer is left.
Quiescent ==
    /\ \A j \in Jobs : enqueuer[j] \in {"accepted", "refused"}
    /\ \A t \in Jobs : ~Live(t)

Finished == Quiescent /\ UNCHANGED vars

MCSpec == Init /\ [][Next \/ Finished]_vars
MCFairSpec == MCSpec /\ Fairness
=============================================================================

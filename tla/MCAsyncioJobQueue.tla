------------------------- MODULE MCAsyncioJobQueue -------------------------
(* Instances of AsyncioJobQueue for TLC: a busy key, and a second key that *)
(* shows that keys do not block one another.                               *)
EXTENDS AsyncioJobQueue

CONSTANTS k1, k2, j1, j2, j3, j4, j5

MCKeyOf == [j \in Jobs |-> IF j \in {j4, j5} THEN k2 ELSE k1]

\* Nothing is left to do: every job was submitted and every task ended.
Quiescent == submitted = Jobs /\ \A t \in Jobs : ~Live(t)

Finished == Quiescent /\ UNCHANGED vars

MCNext == Next \/ Finished

MCSpec == Init /\ [][MCNext]_vars
MCFairSpec == Init /\ [][MCNext]_vars /\ Fairness

=============================================================================

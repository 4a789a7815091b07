--------------------------- MODULE SerialJobQueue ---------------------------
(***************************************************************************)
(* What a job queue of the webhook server promises: jobs of one pull       *)
(* request key run one at a time, in the order in which they were          *)
(* accepted, each at most once (protocol JobQueue, jobs/queue/base.py).    *)
(* Jobs of different keys are independent.  The queues of the program      *)
(* implement this specification; nothing here mentions tasks or tables.    *)
(***************************************************************************)
EXTENDS Sequences

CONSTANTS Keys,   \* pull request keys (platform, repository, number, namespace)
          Jobs,   \* accepted job payloads, each enqueued at most once
          KeyOf   \* the key of each job

VARIABLES pending,   \* per key, the jobs accepted and not started, oldest first
          running,   \* per key, the jobs being run: empty or a singleton
          finished   \* the jobs that were run to their end, or given up

vars == <<pending, running, finished>>

Init ==
    /\ pending = [k \in Keys |-> <<>>]
    /\ running = [k \in Keys |-> {}]
    /\ finished = {}

\* A new job is accepted behind the jobs of its key.
Accept(j) ==
    /\ j \notin finished
    /\ \A k \in Keys : j \notin running[k]
    /\ \A k \in Keys : \A i \in DOMAIN pending[k] : pending[k][i] # j
    /\ pending' = [pending EXCEPT ![KeyOf[j]] = Append(@, j)]
    /\ UNCHANGED <<running, finished>>

\* The oldest job of an idle key starts.
Start(k) ==
    /\ running[k] = {}
    /\ pending[k] # <<>>
    /\ running' = [running EXCEPT ![k] = {Head(pending[k])}]
    /\ pending' = [pending EXCEPT ![k] = Tail(@)]
    /\ UNCHANGED finished

\* The running job of a key ends and the key becomes idle.
Finish(k) ==
    /\ running[k] # {}
    /\ finished' = finished \cup running[k]
    /\ running' = [running EXCEPT ![k] = {}]
    /\ UNCHANGED pending

\* The running job of a key ends and the next one starts in the same step.
HandOver(k) ==
    /\ running[k] # {}
    /\ pending[k] # <<>>
    /\ finished' = finished \cup running[k]
    /\ running' = [running EXCEPT ![k] = {Head(pending[k])}]
    /\ pending' = [pending EXCEPT ![k] = Tail(@)]

\* The oldest job of an idle key is given up without being run: it could not
\* be read back, or it was lost with the connection that carried it.
Discard(k) ==
    /\ running[k] = {}
    /\ pending[k] # <<>>
    /\ finished' = finished \cup {Head(pending[k])}
    /\ pending' = [pending EXCEPT ![k] = Tail(@)]
    /\ UNCHANGED running

\* The server is replaced: running jobs are lost, and of some idle keys (those
\* of K) the oldest job, which was in flight.
Crash(K) ==
    /\ \A k \in K : running[k] = {} /\ pending[k] # <<>>
    /\ finished' = finished \cup (UNION {running[k] : k \in Keys})
                            \cup {Head(pending[k]) : k \in K}
    /\ running' = [k \in Keys |-> {}]
    /\ pending' = [k \in Keys |-> IF k \in K THEN Tail(pending[k]) ELSE pending[k]]

Next ==
    \/ \E j \in Jobs : Accept(j)
    \/ \E k \in Keys : Start(k) \/ Finish(k) \/ HandOver(k) \/ Discard(k)
    \/ \E K \in SUBSET Keys : Crash(K)

Spec == Init /\ [][Next]_vars
=============================================================================

--------------------------- MODULE RedisJobQueue ---------------------------
(***************************************************************************)
(* The job queue of Kubernetes deployments                                 *)
(* (commands/webhook/jobs/queue/redis.py): one Redis list and, while jobs  *)
(* last, one consumer task per pull request key.                           *)
(*                                                                         *)
(* Unlike the in-process queue, every access to the list is a round trip.  *)
(* A request takes effect in Redis in one step and its answer is processed *)
(* by the event loop in a later one; the answer of BRPOP (a job, or nil    *)
(* when its timeout of 5 seconds expires) may be in flight while enqueue() *)
(* runs.  Redis errors, and restarts of the server, are steps of their own;*)
(* the lists survive both.  The callback is opaque here (KubernetesRunner  *)
(* replaces it).  A task is named by the job whose enqueue() created it.   *)
(***************************************************************************)
EXTENDS Sequences, Naturals, FiniteSets

CONSTANTS Keys, Jobs, KeyOf,
          None,          \* absence of an entry in _consumers, or of a job
          Unreadable,    \* jobs whose payload this release cannot deserialize
          MaxErrors,     \* bound on Redis errors
          MaxRestarts    \* bound on restarts of the server

ASSUME KeyOfAssumption == KeyOf \in [Jobs -> Keys]
ASSUME NoneAssumption == None \notin Jobs
ASSUME UnreadableAssumption == Unreadable \subseteq Jobs
ASSUME BoundsAssumption == MaxErrors \in Nat /\ MaxRestarts \in Nat

VARIABLES
    lists,       \* the Redis list of each key, next job to pop first
    enqueuer,    \* progress of each call of enqueue()
    consumers,   \* self._consumers
    task,        \* state of each consumer task
    job,         \* the job of a task: popped for it, or being run by it
    finished,    \* jobs whose callback ended, and jobs given up in the queue
    errors, restarts

vars == <<lists, enqueuer, consumers, task, job, finished, errors, restarts>>

EnqueuerState == {"new", "pushing", "pushed", "accepted", "refused"}

\* "calling": BRPOP was sent; "blocked": Redis holds it, the list is empty;
\* "popped" and "expired": its answer, a job or nil, is in flight;
\* "awaiting": inside the callback.
TaskState == {"absent", "calling", "blocked", "popped", "expired", "awaiting", "done"}

Init ==
    /\ lists = [k \in Keys |-> <<>>]
    /\ enqueuer = [j \in Jobs |-> "new"]
    /\ consumers = [k \in Keys |-> None]
    /\ task = [t \in Jobs |-> "absent"]
    /\ job = [t \in Jobs |-> None]
    /\ finished = {}
    /\ errors = 0
    /\ restarts = 0

Live(t) == task[t] \notin {"absent", "done"}

-----------------------------------------------------------------------------
(* enqueue()                                                               *)

\* enqueue() sends LPUSH.
EnqueueSendsPush(j) ==
    /\ enqueuer[j] = "new"
    /\ enqueuer' = [enqueuer EXCEPT ![j] = "pushing"]
    /\ UNCHANGED <<lists, consumers, task, job, finished, errors, restarts>>

\* Redis executes LPUSH: a client blocked in BRPOP on the list is served in
\* the same command, otherwise the job waits behind the others.
Push(j) ==
    LET k == KeyOf[j] IN
    \/ \E t \in Jobs :
        /\ task[t] = "blocked" /\ KeyOf[t] = k
        /\ task' = [task EXCEPT ![t] = "popped"]
        /\ job' = [job EXCEPT ![t] = j]
        /\ UNCHANGED lists
    \/ /\ \A t \in Jobs : ~(task[t] = "blocked" /\ KeyOf[t] = k)
       /\ lists' = [lists EXCEPT ![k] = Append(@, j)]
       /\ UNCHANGED <<task, job>>

\* Fault: RPUSH, the job is queued in front of the others.
PushInFront(j) ==
    /\ enqueuer[j] = "pushing"
    /\ \A t \in Jobs : ~(task[t] = "blocked" /\ KeyOf[t] = KeyOf[j])
    /\ lists' = [lists EXCEPT ![KeyOf[j]] = <<j>> \o @]
    /\ enqueuer' = [enqueuer EXCEPT ![j] = "pushed"]
    /\ UNCHANGED <<consumers, task, job, finished, errors, restarts>>

PushArrives(j) ==
    /\ enqueuer[j] = "pushing"
    /\ Push(j)
    /\ enqueuer' = [enqueuer EXCEPT ![j] = "pushed"]
    /\ UNCHANGED <<consumers, finished, errors, restarts>>

\* The connection fails before or after LPUSH took effect: enqueue() raises
\* and the consumer table is not looked at.
PushFails(j) ==
    /\ errors < MaxErrors
    /\ \/ enqueuer[j] = "pushing"
       \/ enqueuer[j] = "pushed"
    /\ errors' = errors + 1
    /\ enqueuer' = [enqueuer EXCEPT ![j] = "refused"]
    /\ UNCHANGED <<lists, consumers, task, job, finished, restarts>>

\* Fault: the finished task of an earlier consumer counts as a live one.
NeedsConsumerUnlessKnown(k) == \A t \in Jobs : KeyOf[t] = k => task[t] = "absent"

\* Fault: the table of consumers is not consulted.
NeedsConsumerAlways(k) == TRUE

\* `key not in self._consumers or self._consumers[key].done()`
NeedsConsumer(k) == consumers[k] = None \/ task[consumers[k]] = "done"

\* enqueue() resumes with the answer of LPUSH; a new task sends BRPOP first.
EnqueueReturns(j) ==
    /\ enqueuer[j] = "pushed"
    /\ enqueuer' = [enqueuer EXCEPT ![j] = "accepted"]
    /\ IF NeedsConsumer(KeyOf[j])
       THEN /\ consumers' = [consumers EXCEPT ![KeyOf[j]] = j]
            /\ task' = [task EXCEPT ![j] = "calling"]
       ELSE UNCHANGED <<consumers, task>>
    /\ UNCHANGED <<lists, job, finished, errors, restarts>>

-----------------------------------------------------------------------------
(* _consume()                                                              *)

\* Redis executes BRPOP: it pops the oldest job, or blocks the client.
BrpopArrives(t) ==
    LET k == KeyOf[t] IN
    /\ task[t] = "calling"
    /\ \/ /\ lists[k] # <<>>
          /\ task' = [task EXCEPT ![t] = "popped"]
          /\ job' = [job EXCEPT ![t] = Head(lists[k])]
          /\ lists' = [lists EXCEPT ![k] = Tail(@)]
       \/ /\ lists[k] = <<>>
          /\ task' = [task EXCEPT ![t] = "blocked"]
          /\ UNCHANGED <<job, lists>>
    /\ UNCHANGED <<enqueuer, consumers, finished, errors, restarts>>

\* BRPOP_TIMEOUT_SECONDS elapse in Redis: nil is sent.
BrpopExpires(t) ==
    /\ task[t] = "blocked"
    /\ task' = [task EXCEPT ![t] = "expired"]
    /\ UNCHANGED <<lists, enqueuer, consumers, job, finished, errors, restarts>>

\* Fault: BLMOVE back to the same list instead of BRPOP, the job stays queued.
ConsumerPeeksJob(t) ==
    /\ task[t] = "popped"
    /\ task' = [task EXCEPT ![t] = "awaiting"]
    /\ lists' = [lists EXCEPT ![KeyOf[t]] = Append(@, job[t])]
    /\ UNCHANGED <<enqueuer, consumers, job, finished, errors, restarts>>

\* The event loop reads a job: the callback is called with it, or it is
\* logged and skipped when it cannot be deserialized.
ConsumerReadsJob(t) ==
    /\ task[t] = "popped"
    /\ \/ /\ job[t] \notin Unreadable
          /\ task' = [task EXCEPT ![t] = "awaiting"]
          /\ UNCHANGED <<job, finished>>
       \/ /\ job[t] \in Unreadable
          /\ task' = [task EXCEPT ![t] = "calling"]
          /\ job' = [job EXCEPT ![t] = None]
          /\ finished' = finished \cup {job[t]}
    /\ UNCHANGED <<lists, enqueuer, consumers, errors, restarts>>

\* `finally: self._consumers.pop(key, None)`, and the task ends.
Leave(t) ==
    /\ task' = [task EXCEPT ![t] = "done"]
    /\ consumers' = [consumers EXCEPT ![KeyOf[t]] = None]

\* Fault: the table entry is kept.
LeaveRegistered(t) ==
    /\ task' = [task EXCEPT ![t] = "absent"]
    /\ UNCHANGED consumers

\* Fault: nil is taken for a job.
ConsumerReadsNilAsJob(t) ==
    /\ task[t] = "expired"
    /\ task' = [task EXCEPT ![t] = "awaiting"]
    /\ UNCHANGED <<lists, enqueuer, consumers, job, finished, errors, restarts>>

\* The event loop reads nil: `break`, then the finally clause.
ConsumerReadsNil(t) ==
    /\ task[t] = "expired"
    /\ Leave(t)
    /\ UNCHANGED <<lists, enqueuer, job, finished, errors, restarts>>

\* BRPOP raises: the consumer ends, and a job already popped for it is lost.
BrpopFails(t) ==
    /\ task[t] \in {"calling", "blocked", "popped", "expired"}
    /\ errors < MaxErrors
    /\ errors' = errors + 1
    /\ Leave(t)
    /\ finished' = finished \cup ({job[t]} \ {None})
    /\ job' = [job EXCEPT ![t] = None]
    /\ UNCHANGED <<lists, enqueuer, restarts>>

\* Fault: an Exception of the callback leaves the loop.
CallbackEndsConsumer(t) ==
    /\ task[t] = "awaiting"
    /\ finished' = finished \cup {job[t]}
    /\ job' = [job EXCEPT ![t] = None]
    /\ Leave(t)
    /\ UNCHANGED <<lists, enqueuer, errors, restarts>>

\* The callback returns, or raises an Exception that is logged; the next
\* BRPOP is sent.
CallbackEnds(t) ==
    /\ task[t] = "awaiting"
    /\ finished' = finished \cup {job[t]}
    /\ job' = [job EXCEPT ![t] = None]
    /\ task' = [task EXCEPT ![t] = "calling"]
    /\ UNCHANGED <<lists, enqueuer, consumers, errors, restarts>>

\* The server process is replaced: tasks, calls in progress and the table
\* vanish, and jobs popped but not run to their end are never run again.
\* Redis keeps the lists.
Restart ==
    /\ restarts < MaxRestarts
    /\ restarts' = restarts + 1
    /\ consumers' = [k \in Keys |-> None]
    /\ task' = [t \in Jobs |-> IF Live(t) THEN "done" ELSE task[t]]
    /\ finished' = finished \cup ({job[t] : t \in Jobs} \ {None})
    /\ job' = [t \in Jobs |-> None]
    /\ enqueuer' = [j \in Jobs |-> IF enqueuer[j] \in {"pushing", "pushed"}
                                   THEN "refused" ELSE enqueuer[j]]
    /\ UNCHANGED <<lists, errors>>

-----------------------------------------------------------------------------

Enqueuing(j) == EnqueueSendsPush(j) \/ PushArrives(j) \/ EnqueueReturns(j) \/ PushFails(j)

\* What a consumer does outside the callback.
Consuming(t) == BrpopArrives(t) \/ BrpopExpires(t) \/ ConsumerReadsJob(t) \/ ConsumerReadsNil(t)

Next ==
    \/ \E j \in Jobs : Enqueuing(j)
    \/ \E t \in Jobs : Consuming(t) \/ BrpopFails(t) \/ CallbackEnds(t)
    \/ Restart

Spec == Init /\ [][Next]_vars

\* Requests sent reach Redis, answers are processed, BRPOP times out, and the
\* callback ends.  Webhooks need not arrive, and nothing need fail.
Fairness ==
    /\ \A j \in Jobs : WF_vars(PushArrives(j)) /\ WF_vars(EnqueueReturns(j))
    /\ \A t \in Jobs : WF_vars(Consuming(t)) /\ WF_vars(CallbackEnds(t))

FairSpec == Spec /\ Fairness

-----------------------------------------------------------------------------
(* Properties.                                                             *)

\* Every variable holds a value of its type, and a task holds a job exactly
\* while one is in flight to it or being run by it.
TypeOK ==
    /\ lists \in [Keys -> Seq(Jobs)]
    /\ enqueuer \in [Jobs -> EnqueuerState]
    /\ consumers \in [Keys -> Jobs \cup {None}]
    /\ task \in [Jobs -> TaskState]
    /\ job \in [Jobs -> Jobs \cup {None}]
    /\ \A t \in Jobs : (job[t] # None) <=> (task[t] \in {"popped", "awaiting"})
    /\ finished \subseteq Jobs
    /\ errors \in Nat
    /\ restarts \in Nat

\* Jobs for the same PR key run one at a time, and only one consumer of a key
\* is ever connected to its list, whatever fails (class RedisJobQueue, "Each
\* unique PR key gets its own consumer task").
OneConsumerPerKey ==
    \A s, t \in Jobs : (Live(s) /\ Live(t) /\ KeyOf[s] = KeyOf[t]) => s = t

\* The jobs of a task that dies with its connection or with the server are
\* lost; no other job is: every accepted job is in its list, or held by a
\* consumer of its key, or was run or given up.
Waiting(j) == \E i \in DOMAIN lists[KeyOf[j]] : lists[KeyOf[j]][i] = j
AcceptedJobsAreSomewhere ==
    \A j \in Jobs : enqueuer[j] \in {"pushed", "accepted"} =>
        \/ Waiting(j) /\ j \notin finished
        \/ j \notin finished /\ \E t \in Jobs : job[t] = j /\ KeyOf[t] = KeyOf[j]
        \/ j \in finished /\ ~Waiting(j) /\ \A t \in Jobs : job[t] # j

\* While nothing has failed, a waiting job has a consumer, or an enqueue()
\* that is about to look for one.
NoStrandedJob ==
    \A k \in Keys : (lists[k] # <<>> /\ errors = 0 /\ restarts = 0) =>
        \/ consumers[k] # None
        \/ \E j \in Jobs : KeyOf[j] = k /\ enqueuer[j] = "pushed"

\* A registered consumer whose last BRPOP has not expired, or an enqueue()
\* about to look for a consumer, will get to the list of key k.
WillBeServed(k) ==
    \/ consumers[k] # None /\ task[consumers[k]] \in {"calling", "popped", "awaiting"}
    \/ consumers[k] = None /\ \E j \in Jobs : KeyOf[j] = k /\ enqueuer[j] = "pushed"

\* A job that waits in its list is run, once a consumer gets to the list and
\* the server stays up: in particular the first enqueue() for its key after a
\* restart, or after an expired consumer left it behind, revives it.
ServedListsDrain ==
    \A j \in Jobs :
        (Waiting(j) /\ WillBeServed(KeyOf[j]) /\ restarts = MaxRestarts) ~> (j \in finished)

\* The jobs a key still has to run: the one popped and in flight, then the list.
InFlight(k) == {t \in Jobs : task[t] = "popped" /\ KeyOf[t] = k}
PendingJobs(k) ==
    IF InFlight(k) = {} THEN lists[k]
    ELSE <<job[CHOOSE t \in InFlight(k) : TRUE]>> \o lists[k]
RunningJobs(k) == {job[t] : t \in {u \in Jobs : task[u] = "awaiting" /\ KeyOf[u] = k}}

Promise == INSTANCE SerialJobQueue
    WITH pending <- [k \in Keys |-> PendingJobs(k)],
         running <- [k \in Keys |-> RunningJobs(k)]

\* The order and the seriality promised by SerialJobQueue survive round trips,
\* unreadable payloads, Redis errors and restarts.
ImplementsPromise == Promise!Spec
=============================================================================

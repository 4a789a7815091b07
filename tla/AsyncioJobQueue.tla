-------------------------- MODULE AsyncioJobQueue --------------------------
(***************************************************************************)
(* The in-process job queue of the webhook server                          *)
(* (commands/webhook/jobs/queue/asyncio.py): one asyncio.Queue and one     *)
(* consumer task per pull request key, both created on demand and both     *)
(* dropped when the queue runs dry.                                        *)
(*                                                                         *)
(* A step is what the event loop runs between two suspension points.       *)
(* put() on an unbounded asyncio.Queue and get() on a non-empty one do not *)
(* suspend, so enqueue is one step, and so is everything a consumer does   *)
(* from the return of one callback to the call of the next one.            *)
(*                                                                         *)
(* Objects have identities, so that two consumers of one key, or a         *)
(* consumer left with a queue that is no longer registered, are states of  *)
(* the model: a queue object and a task are both named by the job whose    *)
(* enqueue created them.                                                   *)
(***************************************************************************)
EXTENDS Sequences, Naturals, FiniteSets

CONSTANTS Keys, Jobs, KeyOf,
          None,              \* absence of an entry in a table
          MaxCancellations   \* bound on callbacks that raise CancelledError

ASSUME KeyOfAssumption == KeyOf \in [Jobs -> Keys]
ASSUME NoneAssumption == None \notin Jobs
ASSUME CancellationsAssumption == MaxCancellations \in Nat

VARIABLES
    queues,         \* self._queues: the queue object registered for a key
    consumers,      \* self._consumers: the task registered for a key
    items,          \* contents of each queue object, oldest first
    task,           \* state of each task
    local,          \* the queue object a task holds in its variable `queue`
    job,            \* the job a task holds in its variable `job`
    submitted,      \* jobs whose enqueue() was called
    finished,       \* jobs whose callback returned or raised
    cancellations   \* callbacks that raised CancelledError, bounded

tables == <<queues, consumers>>
vars == <<queues, consumers, items, task, local, job, submitted, finished,
          cancellations>>

Init ==
    /\ queues = [k \in Keys |-> None]
    /\ consumers = [k \in Keys |-> None]
    /\ items = [q \in Jobs |-> <<>>]
    /\ task = [t \in Jobs |-> "absent"]
    /\ local = [t \in Jobs |-> None]
    /\ job = [t \in Jobs |-> None]
    /\ submitted = {}
    /\ finished = {}
    /\ cancellations = 0

\* A task that the event loop still has to run.
Live(t) == task[t] \in {"scheduled", "awaiting"}

\* Fault: the table of consumers is not consulted.
NeedsConsumerAlways(k) == TRUE

\* `key not in self._consumers or self._consumers[key].done()`
NeedsConsumer(k) == consumers[k] = None \/ task[consumers[k]] = "done"

\* Fault: a new asyncio.Queue replaces the registered one on every call.
EnqueueReplacesQueue(j) ==
    LET k == KeyOf[j] IN
    /\ j \notin submitted
    /\ submitted' = submitted \cup {j}
    /\ queues' = [queues EXCEPT ![k] = j]
    /\ items' = [items EXCEPT ![j] = Append(@, j)]
    /\ IF NeedsConsumer(k)
       THEN /\ consumers' = [consumers EXCEPT ![k] = j]
            /\ task' = [task EXCEPT ![j] = "scheduled"]
       ELSE UNCHANGED <<consumers, task>>
    /\ UNCHANGED <<local, job, finished, cancellations>>

\* enqueue(): register a queue if there is none, put the job, and spawn a
\* consumer unless a live one is registered.
Enqueue(j) ==
    LET k == KeyOf[j]
        q == IF queues[k] = None THEN j ELSE queues[k]
    IN  /\ j \notin submitted
        /\ submitted' = submitted \cup {j}
        /\ queues' = [queues EXCEPT ![k] = q]
        /\ items' = [items EXCEPT ![q] = Append(@, j)]
        /\ IF NeedsConsumer(k)
           THEN /\ consumers' = [consumers EXCEPT ![k] = j]
                /\ task' = [task EXCEPT ![j] = "scheduled"]
           ELSE UNCHANGED <<consumers, task>>
        /\ UNCHANGED <<local, job, finished, cancellations>>

\* Fault: the newest job is taken first (a LifoQueue).
TakeNewestJob(t, q) ==
    /\ items[q] # <<>>
    /\ job' = [job EXCEPT ![t] = items[q][Len(items[q])]]
    /\ items' = [items EXCEPT ![q] = SubSeq(@, 1, Len(@) - 1)]
    /\ task' = [task EXCEPT ![t] = "awaiting"]
    /\ UNCHANGED tables

\* `job = await queue.get()` and the call of the callback, which suspends.
TakeJob(t, q) ==
    /\ items[q] # <<>>
    /\ job' = [job EXCEPT ![t] = Head(items[q])]
    /\ items' = [items EXCEPT ![q] = Tail(@)]
    /\ task' = [task EXCEPT ![t] = "awaiting"]
    /\ UNCHANGED tables

\* Fault: only the task is popped, the drained queue stays registered.
RetireKeepsQueue(t, q) ==
    /\ items[q] = <<>>
    /\ consumers' = [consumers EXCEPT ![KeyOf[t]] = None]
    /\ task' = [task EXCEPT ![t] = "done"]
    /\ job' = [job EXCEPT ![t] = None]
    /\ UNCHANGED <<queues, items>>

\* `while not queue.empty()` fails: both entries are popped, the task ends.
Retire(t, q) ==
    /\ items[q] = <<>>
    /\ queues' = [queues EXCEPT ![KeyOf[t]] = None]
    /\ consumers' = [consumers EXCEPT ![KeyOf[t]] = None]
    /\ task' = [task EXCEPT ![t] = "done"]
    /\ job' = [job EXCEPT ![t] = None]
    /\ UNCHANGED items

\* First step of a consumer: it picks up the queue registered for its key.
ConsumerStarts(t) ==
    LET q == queues[KeyOf[t]] IN
    /\ task[t] = "scheduled"
    /\ q # None
    /\ local' = [local EXCEPT ![t] = q]
    /\ TakeJob(t, q)
    /\ UNCHANGED <<submitted, finished, cancellations>>

\* Fault: `job` is read after the variable was cleared.
CallbackEndsAfterClear(t) ==
    /\ task[t] = "awaiting"
    /\ TakeJob(t, local[t]) \/ Retire(t, local[t])
    /\ finished' = finished \cup {job'[t]}
    /\ UNCHANGED <<local, submitted, cancellations>>

\* Fault: an Exception of the callback leaves the loop.
CallbackEndsConsumer(t) ==
    /\ task[t] = "awaiting"
    /\ finished' = finished \cup {job[t]}
    /\ \/ TakeJob(t, local[t]) \/ Retire(t, local[t])
       \/ /\ task' = [task EXCEPT ![t] = "done"]
          /\ job' = [job EXCEPT ![t] = None]
          /\ UNCHANGED <<queues, consumers, items>>
    /\ UNCHANGED <<local, submitted, cancellations>>

\* The callback returns, or raises an Exception that is logged: the loop
\* condition is evaluated again in the same step.
CallbackEnds(t) ==
    /\ task[t] = "awaiting"
    /\ finished' = finished \cup {job[t]}
    /\ TakeJob(t, local[t]) \/ Retire(t, local[t])
    /\ UNCHANGED <<local, submitted, cancellations>>

\* The callback raises CancelledError, which `except Exception` does not
\* catch: the task ends with both table entries left in place.
CallbackCancelled(t) ==
    /\ task[t] = "awaiting"
    /\ cancellations < MaxCancellations
    /\ cancellations' = cancellations + 1
    /\ finished' = finished \cup {job[t]}
    /\ task' = [task EXCEPT ![t] = "done"]
    /\ job' = [job EXCEPT ![t] = None]
    /\ UNCHANGED <<queues, consumers, items, local, submitted>>

Next ==
    \/ \E j \in Jobs : Enqueue(j)
    \/ \E t \in Jobs : ConsumerStarts(t) \/ CallbackEnds(t) \/ CallbackCancelled(t)

Spec == Init /\ [][Next]_vars

\* The event loop runs every scheduled task, and a review job ends: its
\* subprocesses, requests and agent turns are all bounded.  Nothing obliges
\* a webhook to arrive or a callback to be cancelled.
Fairness ==
    \A t \in Jobs : WF_vars(ConsumerStarts(t)) /\ WF_vars(CallbackEnds(t))

FairSpec == Spec /\ Fairness

-----------------------------------------------------------------------------
(* Properties.                                                             *)

\* Every variable holds a value of its type, and a task holds a job exactly
\* while it is inside the callback.
TypeOK ==
    /\ queues \in [Keys -> Jobs \cup {None}]
    /\ consumers \in [Keys -> Jobs \cup {None}]
    /\ items \in [Jobs -> Seq(Jobs)]
    /\ task \in [Jobs -> {"absent", "scheduled", "awaiting", "done"}]
    /\ local \in [Jobs -> Jobs \cup {None}]
    /\ job \in [Jobs -> Jobs \cup {None}]
    /\ \A t \in Jobs : (job[t] # None) <=> (task[t] = "awaiting")
    /\ submitted \subseteq Jobs
    /\ finished \subseteq Jobs
    /\ cancellations \in Nat

\* Jobs for the same PR key run one at a time: two consumer tasks of one key
\* are never inside the callback together, whatever was cancelled before
\* (class AsyncioJobQueue, "concurrent comments in the same PR never race").
SerialPerKey ==
    \A s, t \in Jobs :
        (task[s] = "awaiting" /\ task[t] = "awaiting" /\ KeyOf[s] = KeyOf[t])
            => s = t

\* A job waits only in the queue object registered for its key, where a
\* consumer that is live, or was cancelled and will be replaced by the next
\* enqueue, is registered as well: no enqueue lands in a queue that its
\* consumer has already left.
NoOrphanQueue ==
    \A q \in Jobs : items[q] # <<>> =>
        /\ queues[KeyOf[q]] = q
        /\ consumers[KeyOf[q]] # None
        /\ LET t == consumers[KeyOf[q]]
           IN  \/ task[t] = "scheduled"
               \/ task[t] = "awaiting" /\ local[t] = q
               \/ task[t] = "done" /\ cancellations > 0

\* A task that has not started yet finds its queue registered and non-empty,
\* so that _consume raises no KeyError and never starts for nothing.
StartFindsWork ==
    \A t \in Jobs : task[t] = "scheduled" =>
        /\ queues[KeyOf[t]] # None
        /\ items[queues[KeyOf[t]]] # <<>>

\* "Idle queues are cleaned up automatically": once every submitted job of a
\* key ended, and nothing was cancelled, neither table has an entry for it.
IdleKeysAreForgotten ==
    \A k \in Keys :
        (cancellations = 0 /\ \A j \in submitted : KeyOf[j] = k => j \in finished)
            => queues[k] = None /\ consumers[k] = None

\* The discipline behind the properties above, inductive together with
\* TypeOK: each table entry belongs to its key, the two tables have the same
\* domain, every live task is the registered one and reads the registered
\* queue, and only registered queues hold jobs.
TablesAgree ==
    \A k \in Keys :
        /\ (queues[k] = None) <=> (consumers[k] = None)
        /\ queues[k] # None => KeyOf[queues[k]] = k /\ queues[k] \in submitted
        /\ consumers[k] # None =>
            /\ KeyOf[consumers[k]] = k
            /\ consumers[k] \in submitted
            /\ \/ Live(consumers[k])
               \/ task[consumers[k]] = "done" /\ cancellations > 0

LiveTasksAreRegistered ==
    \A t \in Jobs :
        /\ Live(t) => consumers[KeyOf[t]] = t
        /\ task[t] = "awaiting" => local[t] = queues[KeyOf[t]] /\ job[t] \in submitted

JobsWaitInRegisteredQueues ==
    /\ \A q \in Jobs : items[q] # <<>> => queues[KeyOf[q]] = q
    /\ \A q \in Jobs : \A i \in DOMAIN items[q] : items[q][i] \in submitted
    /\ finished \subseteq submitted

NamesAreFresh ==
    \A j \in Jobs \ submitted : task[j] = "absent" /\ items[j] = <<>>

ConsumerDiscipline ==
    /\ TablesAgree
    /\ LiveTasksAreRegistered
    /\ StartFindsWork
    /\ JobsWaitInRegisteredQueues
    /\ NamesAreFresh

\* A failing job does not stop the consumer, and a cancelled one is replaced:
\* while nothing more is cancelled, a job whose key has a live consumer is run
\* to its end.  NoOrphanQueue says which keys have none.
EveryJobFinishes ==
    \A j \in Jobs, n \in 0..MaxCancellations :
        (/\ j \in submitted
         /\ consumers[KeyOf[j]] # None
         /\ Live(consumers[KeyOf[j]])
         /\ cancellations = n) ~> (j \in finished \/ cancellations > n)

\* The queue keeps the promise of SerialJobQueue: what waits is what the
\* registered queue holds, what runs is what its tasks are awaiting.
RunningJobs(k) == {job[t] : t \in {u \in Jobs : task[u] = "awaiting" /\ KeyOf[u] = k}}

Promise == INSTANCE SerialJobQueue
    WITH pending <- [k \in Keys |-> IF queues[k] = None THEN <<>> ELSE items[queues[k]]],
         running <- [k \in Keys |-> RunningJobs(k)]

\* Per key: first come, first served, one at a time, at most once.
ImplementsPromise == Promise!Spec
=============================================================================

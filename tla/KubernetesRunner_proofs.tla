----------------------- MODULE KubernetesRunner_proofs -----------------------
(***************************************************************************)
(* Proofs about Kubernetes deployments, for every set of keys, jobs and    *)
(* channels, every backoff limit, and every number of errors, restarts and *)
(* broken connections.                                                     *)
(*                                                                         *)
(* What is known of the queue is not proved again: every step of the       *)
(* composition is a step of the queue, or leaves the queue alone, so that  *)
(* the invariants and the refinement of RedisJobQueue_proofs carry over.   *)
(***************************************************************************)
EXTENDS KubernetesRunner, TLAPS

\* The queue with what has been proved about it.
Proved == INSTANCE RedisJobQueue_proofs

\* The server waits for the end of the job of task t: it knows of its pod.
Expects(t) == call[t] \in {"created", "subscribing", "listening", "told"}

\* A pod that the server did not lose track of has a consumer waiting for it.
TrackedPodsAreAwaited ==
    \A j \in Jobs \ lost : pod[j] = "running" => \E t \in Jobs : job[t] = j /\ Expects(t)

\* A consumer that was told of an end does not leave a running pod behind,
\* unless the server lost track of it.
ToldOfTheEnd ==
    \A t \in Jobs : call[t] = "told" => pod[job[t]] # "running" \/ job[t] \in lost

QueueInv == Proved!IInv /\ Proved!Places

\* The conjuncts of TypeOK on the variables of the runner.
RunnerTypeOK ==
    /\ call \in [Jobs -> CallState]
    /\ heard \in [Jobs -> Jobs \cup {None}]
    /\ pod \in [Jobs -> PodState]
    /\ signalled \subseteq Jobs
    /\ retries \in [Jobs -> 0..BackoffLimit]
    /\ cuts \in 0..MaxCuts
    /\ lost \subseteq Jobs
    /\ \A t \in Jobs : /\ (call[t] # "idle") <=> (task[t] = "awaiting")
                       /\ (heard[t] # None) <=> (call[t] = "told")

IInv == QueueInv /\ RunnerTypeOK /\ TrackedPodsAreAwaited /\ ToldOfTheEnd

-----------------------------------------------------------------------------
(* The queue inside the composition.                                       *)

\* The two instances of the queue speak of the same steps.
LEMMA SameEnqueuing ==
    ASSUME NEW j \in Jobs, Queue!Enqueuing(j)
    PROVE  Proved!Enqueuing(j)
  BY DEF Queue!Enqueuing, Queue!EnqueueSendsPush, Queue!PushArrives, Queue!Push,
         Queue!EnqueueReturns, Queue!PushFails, Queue!NeedsConsumer,
         Proved!Enqueuing, Proved!EnqueueSendsPush, Proved!PushArrives, Proved!Push,
         Proved!EnqueueReturns, Proved!PushFails, Proved!NeedsConsumer

LEMMA SameConsuming ==
    ASSUME NEW t \in Jobs
    PROVE  /\ Queue!BrpopArrives(t) => Proved!BrpopArrives(t)
           /\ Queue!BrpopExpires(t) => Proved!BrpopExpires(t)
           /\ Queue!ConsumerReadsNil(t) => Proved!ConsumerReadsNil(t)
           /\ Queue!ConsumerReadsJob(t) => Proved!ConsumerReadsJob(t)
           /\ Queue!BrpopFails(t) => Proved!BrpopFails(t)
           /\ Queue!CallbackEnds(t) => Proved!CallbackEnds(t)
<1>1. Queue!BrpopArrives(t) => Proved!BrpopArrives(t)
  BY DEF Queue!BrpopArrives, Proved!BrpopArrives
<1>2. Queue!BrpopExpires(t) => Proved!BrpopExpires(t)
  BY DEF Queue!BrpopExpires, Proved!BrpopExpires
<1>3. Queue!ConsumerReadsNil(t) => Proved!ConsumerReadsNil(t)
  BY DEF Queue!ConsumerReadsNil, Queue!Leave, Proved!ConsumerReadsNil, Proved!Leave
<1>4. Queue!ConsumerReadsJob(t) => Proved!ConsumerReadsJob(t)
  BY DEF Queue!ConsumerReadsJob, Proved!ConsumerReadsJob
<1>5. Queue!BrpopFails(t) => Proved!BrpopFails(t)
  BY DEF Queue!BrpopFails, Queue!Leave, Proved!BrpopFails, Proved!Leave
<1>6. Queue!CallbackEnds(t) => Proved!CallbackEnds(t)
  BY DEF Queue!CallbackEnds, Proved!CallbackEnds
<1>. QED BY <1>1, <1>2, <1>3, <1>4, <1>5, <1>6

LEMMA SameRestart == Queue!Restart => Proved!Restart
  BY DEF Queue!Restart, Queue!Live, Proved!Restart, Proved!Live

LEMMA SameInit == Queue!Init => Proved!Init
  BY DEF Queue!Init, Proved!Init

LEMMA SameType == Queue!TypeOK <=> Proved!TypeOK
  BY DEF Queue!TypeOK, Queue!EnqueuerState, Queue!TaskState,
         Proved!TypeOK, Proved!EnqueuerState, Proved!TaskState

-----------------------------------------------------------------------------
(* Steps of the queue.                                                     *)

\* Every step of the composition is a step of the queue or leaves it alone.
LEMMA QueueSteps == [Next]_vars => [Queue!Next]_(Queue!vars)
<1>. SUFFICES ASSUME [Next]_vars
              PROVE  [Queue!Next]_(Queue!vars)
  OBVIOUS
<1>1. ASSUME NEW j \in Jobs, Enqueuing(j)
      PROVE  Queue!Next
  BY <1>1 DEF Enqueuing, Queue!Next
<1>2. ASSUME NEW t \in Jobs, QueueConsuming(t) \/ BrpopFails(t) \/ Execute(t) \/ Return(t)
      PROVE  Queue!Next
  BY <1>2 DEF QueueConsuming, BrpopFails, Execute, Return, Queue!Next, Queue!Consuming
<1>3. ASSUME UNCHANGED queueVars
      PROVE  UNCHANGED Queue!vars
  BY <1>3 DEF queueVars, Queue!vars
<1>4. ASSUME NEW t \in Jobs, Executing(t) \/ ConnectionBreaks(t)
      PROVE  [Queue!Next]_(Queue!vars)
  BY <1>2, <1>3, <1>4
  DEF Executing, ConnectionBreaks, ApiCreatesJob, ApiRefusesJob, ApiAnswers,
      SubscribeArrives, ReadSignal, TimeOut
<1>5. ASSUME NEW j \in Jobs, PodSignals(j) \/ PodEndsSilently(j) \/ PodIsReplaced(j)
      PROVE  [Queue!Next]_(Queue!vars)
  BY <1>3, <1>5 DEF PodSignals, PodEndsSilently, PodIsReplaced
<1>6. CASE Restart
  BY <1>6 DEF Restart, Queue!Next
<1>7. CASE UNCHANGED vars
  BY <1>3, <1>7 DEF vars
<1>. QED BY <1>1, <1>2, <1>4, <1>5, <1>6, <1>7 DEF Next

LEMMA SameSteps == [Queue!Next]_(Queue!vars) => [Proved!Next]_(Proved!vars)
<1>1. Queue!Next => Proved!Next
  BY SameEnqueuing, SameConsuming, SameRestart
  DEF Queue!Next, Queue!Consuming, Proved!Next, Proved!Consuming
<1>. QED BY <1>1 DEF Queue!vars, Proved!vars

LEMMA InitQueueInv == Init => QueueInv
<1>1. Proved!Init => QueueInv
  BY Proved!InitIInv, Proved!InitPlaces, KeyOfAssumption, NoneAssumption,
     UnreadableAssumption, BoundsAssumption DEF QueueInv
<1>. QED BY <1>1, SameInit DEF Init

LEMMA QueueInvPreserved == QueueInv /\ [Next]_vars => QueueInv'
<1>1. Proved!IInv /\ [Proved!Next]_(Proved!vars) => Proved!IInv'
  BY Proved!StepPreserves, KeyOfAssumption, NoneAssumption,
     UnreadableAssumption, BoundsAssumption
<1>2. Proved!IInv /\ Proved!Places /\ [Proved!Next]_(Proved!vars) => Proved!Places'
  BY Proved!StepKeepsPlaces, KeyOfAssumption, NoneAssumption,
     UnreadableAssumption, BoundsAssumption
<1>. QED BY <1>1, <1>2, QueueSteps, SameSteps DEF QueueInv

\* What the runner relies on: the tables have their types, a task awaiting its
\* callback holds a job of its key, and a key has no other such task.
LEMMA QueueFacts ==
    ASSUME QueueInv
    PROVE  /\ task \in [Jobs -> {"absent", "calling", "blocked", "popped", "expired",
                                 "awaiting", "done"}]
           /\ job \in [Jobs -> Jobs \cup {None}]
           /\ \A t \in Jobs : (job[t] # None) <=> (task[t] \in {"popped", "awaiting"})
           /\ \A t \in Jobs : job[t] # None => KeyOf[job[t]] = KeyOf[t]
           /\ \A s, t \in Jobs :
                (task[s] = "awaiting" /\ task[t] = "awaiting" /\ KeyOf[s] = KeyOf[t]) => s = t
<1>1. Proved!TypeOK /\ Proved!LiveTasksAreRegistered /\ Proved!TasksHoldTheirKey
  BY DEF QueueInv, Proved!IInv, Proved!Places
<1>2. \A t \in Jobs : task[t] = "awaiting" => consumers[KeyOf[t]] = t
  BY <1>1 DEF Proved!LiveTasksAreRegistered, Proved!Live
<1>. QED
  BY <1>1, <1>2 DEF Proved!TypeOK, Proved!TaskState, Proved!TasksHoldTheirKey

\* The steps of the queue outside the callback neither start nor end a
\* callback, and leave the job of a running one alone.
LEMMA QueueFrame ==
    ASSUME QueueInv, NEW t \in Jobs,
           Queue!Enqueuing(t) \/ QueueConsuming(t) \/ Queue!BrpopFails(t)
    PROVE  \A u \in Jobs : /\ task'[u] = "awaiting" <=> task[u] = "awaiting"
                           /\ task[u] = "awaiting" => job'[u] = job[u]
<1>1. /\ task \in [Jobs -> {"absent", "calling", "blocked", "popped", "expired",
                            "awaiting", "done"}]
      /\ job \in [Jobs -> Jobs \cup {None}]
      /\ consumers \in [Keys -> Jobs \cup {None}]
  BY QueueFacts DEF QueueInv, Proved!IInv, Proved!TypeOK
<1>2. CASE Queue!Enqueuing(t)
  <2>1. CASE Queue!PushArrives(t)
    BY <1>1, <2>1 DEF Queue!PushArrives, Queue!Push
  <2>2. CASE Queue!EnqueueReturns(t) /\ Queue!NeedsConsumer(KeyOf[t])
    <3>1. task[t] # "awaiting"
      <4>1. task[t] = "awaiting" => consumers[KeyOf[t]] = t
        BY DEF QueueInv, Proved!IInv, Proved!LiveTasksAreRegistered, Proved!Live
      <4>. QED BY <2>2, <4>1, NoneAssumption DEF Queue!NeedsConsumer
    <3>2. task' = [task EXCEPT ![t] = "calling"] /\ UNCHANGED job
      BY <2>2 DEF Queue!EnqueueReturns
    <3>. QED BY <1>1, <3>1, <3>2
  <2>3. CASE UNCHANGED <<task, job>>
    BY <2>3
  <2>. QED
    BY <1>2, <2>1, <2>2, <2>3
    DEF Queue!Enqueuing, Queue!EnqueueSendsPush, Queue!EnqueueReturns, Queue!PushFails
<1>3. CASE Queue!BrpopArrives(t) \/ Queue!BrpopExpires(t) \/ Queue!ConsumerReadsNil(t)
  BY <1>1, <1>3 DEF Queue!BrpopArrives, Queue!BrpopExpires, Queue!ConsumerReadsNil, Queue!Leave
<1>4. CASE Queue!BrpopFails(t)
  BY <1>1, <1>4 DEF Queue!BrpopFails, Queue!Leave
<1>. QED BY <1>2, <1>3, <1>4 DEF QueueConsuming

-----------------------------------------------------------------------------
(* Steps of the runner.                                                    *)

LEMMA InitIInv == Init => IInv
<1>. SUFFICES ASSUME Init
              PROVE  IInv
  OBVIOUS
<1>1. QueueInv
  BY InitQueueInv
<1>2. \A t \in Jobs : task[t] = "absent"
  BY DEF Init, Queue!Init
<1>3. RunnerTypeOK
  BY <1>2, NoneAssumption, LimitsAssumption DEF Init, RunnerTypeOK, CallState, PodState
<1>4. TrackedPodsAreAwaited /\ ToldOfTheEnd
  BY DEF Init, TrackedPodsAreAwaited, ToldOfTheEnd
<1>. QED BY <1>1, <1>3, <1>4 DEF IInv

\* The steps of the queue outside the callback.
LEMMA QueuePreserves ==
    ASSUME IInv, QueueInv', NEW t \in Jobs, UNCHANGED runnerVars,
           Queue!Enqueuing(t) \/ QueueConsuming(t) \/ Queue!BrpopFails(t)
    PROVE  IInv'
<1>1. \A u \in Jobs : /\ task'[u] = "awaiting" <=> task[u] = "awaiting"
                      /\ task[u] = "awaiting" => job'[u] = job[u]
  BY QueueFrame DEF IInv
<1>2. UNCHANGED <<call, heard, pod, signalled, retries, cuts, lost>>
  BY DEF runnerVars
<1>3. \A u \in Jobs : call[u] # "idle" => job'[u] = job[u]
  BY <1>1 DEF IInv, RunnerTypeOK
<1>4. RunnerTypeOK'
  BY <1>1, <1>2 DEF IInv, RunnerTypeOK
<1>5. TrackedPodsAreAwaited' /\ ToldOfTheEnd'
  BY <1>2, <1>3 DEF IInv, TrackedPodsAreAwaited, ToldOfTheEnd, Expects
<1>. QED BY <1>4, <1>5 DEF IInv

\* A job is read: _execute() starts, or the job is skipped as unreadable.
LEMMA ExecutePreserves ==
    ASSUME IInv, QueueInv', NEW t \in Jobs, Execute(t)
    PROVE  IInv'
<1>. USE NoneAssumption
<1>1. /\ task[t] = "popped" /\ call[t] = "idle"
      /\ UNCHANGED <<heard, pod, signalled, retries, cuts, lost>>
  BY DEF Execute, Queue!ConsumerReadsJob, IInv, RunnerTypeOK
<1>2. /\ \/ task'[t] = "awaiting" /\ job'[t] = job[t] /\ call'[t] = "posting"
         \/ task'[t] = "calling" /\ call'[t] = "idle"
      /\ \A u \in Jobs \ {t} : task'[u] = task[u] /\ job'[u] = job[u] /\ call'[u] = call[u]
      /\ call' \in [Jobs -> CallState]
  <2>1. /\ task \in [Jobs -> {"absent", "calling", "blocked", "popped", "expired",
                              "awaiting", "done"}]
        /\ job \in [Jobs -> Jobs \cup {None}] /\ call \in [Jobs -> CallState]
    BY QueueFacts DEF IInv, RunnerTypeOK
  <2>. QED BY <1>1, <2>1 DEF Execute, Queue!ConsumerReadsJob, CallState
<1>3. RunnerTypeOK'
  BY <1>1, <1>2 DEF IInv, RunnerTypeOK
<1>4. TrackedPodsAreAwaited'
  <2> SUFFICES ASSUME NEW j \in Jobs \ lost, pod[j] = "running"
               PROVE  \E u \in Jobs : job'[u] = j /\ Expects(u)'
    BY <1>1 DEF TrackedPodsAreAwaited
  <2>1. PICK u \in Jobs : job[u] = j /\ Expects(u)
    BY DEF IInv, TrackedPodsAreAwaited
  <2>2. u # t
    BY <1>1, <2>1 DEF Expects
  <2>. QED BY <1>2, <2>1, <2>2 DEF Expects
<1>5. ToldOfTheEnd'
  BY <1>1, <1>2 DEF IInv, ToldOfTheEnd
<1>. QED BY <1>3, <1>4, <1>5 DEF IInv

\* What the end of _execute() changes.
LEMMA ReturnFacts ==
    ASSUME IInv, NEW t \in Jobs, Return(t)
    PROVE  /\ task[t] = "awaiting" /\ job[t] \in Jobs
           /\ task'[t] = "calling" /\ job'[t] = None /\ call'[t] = "idle" /\ heard'[t] = None
           /\ \A u \in Jobs \ {t} : /\ task'[u] = task[u] /\ job'[u] = job[u]
                                    /\ call'[u] = call[u] /\ heard'[u] = heard[u]
           /\ call' \in [Jobs -> CallState] /\ heard' \in [Jobs -> Jobs \cup {None}]
<1>1. /\ task \in [Jobs -> {"absent", "calling", "blocked", "popped", "expired",
                            "awaiting", "done"}]
      /\ job \in [Jobs -> Jobs \cup {None}]
      /\ \A u \in Jobs : (job[u] # None) <=> (task[u] \in {"popped", "awaiting"})
  BY QueueFacts DEF IInv
<1>2. call \in [Jobs -> CallState] /\ heard \in [Jobs -> Jobs \cup {None}]
  BY DEF IInv, RunnerTypeOK
<1>. QED BY <1>1, <1>2 DEF Return, Queue!CallbackEnds, CallState

\* A return keeps the invariant when the pod of the job has ended, or the
\* server loses track of it, or never knew of it.
LEMMA ReturnPreserves ==
    ASSUME IInv, QueueInv', NEW t \in Jobs, Return(t),
           pod' \in [Jobs -> PodState], \A j \in Jobs : pod'[j] = "running" => pod[j] = "running",
           lost \subseteq lost', lost' \subseteq Jobs,
           pod'[job[t]] # "running" \/ job[t] \in lost' \/ ~Expects(t),
           UNCHANGED <<signalled, retries>>, cuts' \in 0..MaxCuts
    PROVE  IInv'
<1>. USE NoneAssumption
<1>1. /\ task[t] = "awaiting" /\ job[t] \in Jobs
      /\ task'[t] = "calling" /\ job'[t] = None /\ call'[t] = "idle" /\ heard'[t] = None
      /\ \A u \in Jobs \ {t} : /\ task'[u] = task[u] /\ job'[u] = job[u]
                               /\ call'[u] = call[u] /\ heard'[u] = heard[u]
      /\ call' \in [Jobs -> CallState] /\ heard' \in [Jobs -> Jobs \cup {None}]
  BY ReturnFacts
<1>2. RunnerTypeOK'
  <2>1. \A u \in Jobs : /\ (call'[u] # "idle") <=> (task'[u] = "awaiting")
                        /\ (heard'[u] # None) <=> (call'[u] = "told")
    BY <1>1 DEF IInv, RunnerTypeOK
  <2>. QED BY <1>1, <2>1 DEF IInv, RunnerTypeOK
<1>3. TrackedPodsAreAwaited'
  <2> SUFFICES ASSUME NEW j \in Jobs \ lost', pod'[j] = "running"
               PROVE  \E u \in Jobs : job'[u] = j /\ Expects(u)'
    BY DEF TrackedPodsAreAwaited
  <2>1. PICK u \in Jobs : job[u] = j /\ Expects(u)
    BY DEF IInv, TrackedPodsAreAwaited
  <2>2. u # t
    BY <2>1
  <2>. QED BY <1>1, <2>1, <2>2 DEF Expects
<1>4. ToldOfTheEnd'
  <2> SUFFICES ASSUME NEW u \in Jobs, call'[u] = "told"
               PROVE  pod'[job'[u]] # "running" \/ job'[u] \in lost'
    BY DEF ToldOfTheEnd
  <2>1. u # t /\ job'[u] = job[u] /\ call[u] = "told"
    BY <1>1
  <2>2. task[u] = "awaiting" /\ job[u] \in Jobs
    BY <2>1, QueueFacts DEF IInv, RunnerTypeOK
  <2>. QED BY <2>1, <2>2 DEF IInv, ToldOfTheEnd
<1>. QED BY <1>2, <1>3, <1>4 DEF IInv

\* The steps on the way to the subscription.
LEMMA WaitingPreserves ==
    ASSUME IInv, QueueInv', NEW t \in Jobs,
           ApiCreatesJob(t) \/ ApiAnswers(t) \/ SubscribeArrives(t)
    PROVE  IInv'
<1>. USE NoneAssumption
<1>1. /\ call[t] # "idle" /\ call[t] # "told" /\ job[t] \in Jobs
      /\ UNCHANGED <<task, job, heard, signalled, retries, cuts, lost>>
  <2>1. call[t] # "idle" /\ call[t] # "told"
    BY DEF ApiCreatesJob, ApiAnswers, SubscribeArrives
  <2>. QED BY <2>1, QueueFacts
       DEF ApiCreatesJob, ApiAnswers, SubscribeArrives, queueVars, IInv, RunnerTypeOK
<1>2. /\ call'[t] \in {"created", "subscribing", "listening"}
      /\ \A u \in Jobs \ {t} : call'[u] = call[u]
      /\ call' \in [Jobs -> CallState]
  BY DEF ApiCreatesJob, ApiAnswers, SubscribeArrives, IInv, RunnerTypeOK, CallState
<1>3. /\ pod' \in [Jobs -> PodState]
      /\ \A j \in Jobs \ {job[t]} : pod'[j] = pod[j]
  BY <1>1 DEF ApiCreatesJob, ApiAnswers, SubscribeArrives, IInv, RunnerTypeOK, PodState
<1>4. RunnerTypeOK'
  BY <1>1, <1>2, <1>3 DEF IInv, RunnerTypeOK
<1>5. TrackedPodsAreAwaited'
  <2> SUFFICES ASSUME NEW j \in Jobs \ lost, pod'[j] = "running"
               PROVE  \E u \in Jobs : job[u] = j /\ Expects(u)'
    BY <1>1 DEF TrackedPodsAreAwaited
  <2>1. CASE j = job[t]
    BY <1>2, <2>1 DEF Expects
  <2>2. CASE j # job[t]
    <3>1. PICK u \in Jobs : job[u] = j /\ Expects(u)
      BY <1>3, <2>2 DEF IInv, TrackedPodsAreAwaited
    <3>. QED BY <1>2, <2>2, <3>1 DEF Expects
  <2>. QED BY <2>1, <2>2
<1>6. ToldOfTheEnd'
  <2> SUFFICES ASSUME NEW u \in Jobs, call'[u] = "told"
               PROVE  pod'[job[u]] # "running" \/ job[u] \in lost
    BY <1>1 DEF ToldOfTheEnd
  <2>1. u # t /\ call[u] = "told"
    BY <1>2
  <2>2. job[u] # job[t] /\ job[u] \in Jobs
    BY <1>1, <2>1, QueueFacts DEF IInv, RunnerTypeOK
  <2>. QED BY <1>3, <2>1, <2>2 DEF IInv, ToldOfTheEnd
<1>. QED BY <1>4, <1>5, <1>6 DEF IInv

\* A pod ends: the consumers listening to its channel are told, or nobody is.
LEMMA PodEndPreserves ==
    ASSUME IInv, QueueInv', NEW j \in Jobs, PodSignals(j) \/ PodEndsSilently(j)
    PROVE  IInv'
<1>. USE NoneAssumption
<1>1. /\ pod' \in [Jobs -> PodState] /\ pod'[j] # "running"
      /\ \A i \in Jobs \ {j} : pod'[i] = pod[i]
      /\ UNCHANGED <<task, job, retries, cuts>>
  BY DEF PodSignals, PodEndsSilently, PodEnds, queueVars, IInv, RunnerTypeOK, PodState
<1>2. CASE PodEndsSilently(j)
  <2>1. UNCHANGED <<call, heard, signalled, lost>>
    BY <1>2 DEF PodEndsSilently
  <2>2. RunnerTypeOK'
    BY <1>1, <2>1 DEF IInv, RunnerTypeOK
  <2>3. TrackedPodsAreAwaited'
    BY <1>1, <2>1 DEF IInv, TrackedPodsAreAwaited, Expects
  <2>4. ToldOfTheEnd'
    <3> SUFFICES ASSUME NEW u \in Jobs, call[u] = "told"
                 PROVE  pod'[job[u]] # "running" \/ job[u] \in lost
      BY <1>1, <2>1 DEF ToldOfTheEnd
    <3>1. job[u] \in Jobs
      BY QueueFacts DEF IInv, RunnerTypeOK
    <3>. QED BY <1>1, <3>1 DEF IInv, ToldOfTheEnd
  <2>. QED BY <2>2, <2>3, <2>4 DEF IInv
<1>3. CASE PodSignals(j)
  <2>1. /\ signalled' = signalled \cup {j}
        /\ call' = [t \in Jobs |-> IF Hears(t, j) THEN "told" ELSE call[t]]
        /\ heard' = [t \in Jobs |-> IF Hears(t, j) THEN j ELSE heard[t]]
        /\ lost' = lost \cup ({job[t] : t \in {u \in Jobs : Hears(u, j)}} \ {j})
    BY <1>3 DEF PodSignals
  <2>2. \A u \in Jobs : Hears(u, j) => call[u] = "listening" /\ job[u] \in Jobs
    BY QueueFacts DEF Hears, IInv, RunnerTypeOK
  <2>3. RunnerTypeOK'
    <3>1. lost' \subseteq Jobs
      BY <2>1, <2>2 DEF IInv, RunnerTypeOK
    <3>2. call' \in [Jobs -> CallState] /\ heard' \in [Jobs -> Jobs \cup {None}]
      BY <2>1 DEF IInv, RunnerTypeOK, CallState
    <3>3. \A u \in Jobs : /\ (call'[u] # "idle") <=> (task'[u] = "awaiting")
                          /\ (heard'[u] # None) <=> (call'[u] = "told")
      BY <1>1, <2>1, <2>2 DEF IInv, RunnerTypeOK
    <3>. QED BY <1>1, <2>1, <3>1, <3>2, <3>3 DEF IInv, RunnerTypeOK
  <2>4. TrackedPodsAreAwaited'
    <3> SUFFICES ASSUME NEW i \in Jobs \ lost', pod'[i] = "running"
                 PROVE  \E u \in Jobs : job[u] = i /\ Expects(u)'
      BY <1>1 DEF TrackedPodsAreAwaited
    <3>1. i # j /\ i \notin lost
      BY <1>1, <2>1
    <3>2. PICK u \in Jobs : job[u] = i /\ Expects(u)
      BY <1>1, <3>1 DEF IInv, TrackedPodsAreAwaited
    <3>. QED BY <2>1, <3>2 DEF Expects
  <2>5. ToldOfTheEnd'
    <3> SUFFICES ASSUME NEW u \in Jobs, call'[u] = "told"
                 PROVE  pod'[job[u]] # "running" \/ job[u] \in lost'
      BY <1>1 DEF ToldOfTheEnd
    <3>1. CASE Hears(u, j)
      BY <1>1, <2>1, <3>1
    <3>2. CASE ~Hears(u, j)
      <4>1. call[u] = "told"
        BY <2>1, <3>2
      <4>2. job[u] \in Jobs
        BY <4>1, QueueFacts DEF IInv, RunnerTypeOK
      <4>. QED BY <1>1, <2>1, <4>1, <4>2 DEF IInv, ToldOfTheEnd
    <3>. QED BY <3>1, <3>2
  <2>. QED BY <2>3, <2>4, <2>5 DEF IInv
<1>. QED BY <1>2, <1>3

\* A replaced pod is one the server lost track of.
LEMMA ReplacementPreserves ==
    ASSUME IInv, QueueInv', NEW j \in Jobs, PodIsReplaced(j)
    PROVE  IInv'
<1>1. /\ pod' = [pod EXCEPT ![j] = "running"] /\ lost' = lost \cup {j}
      /\ signalled' = signalled \ {j}
      /\ retries[j] < BackoffLimit /\ retries' = [retries EXCEPT ![j] = @ + 1]
      /\ UNCHANGED <<task, job, call, heard, cuts>>
  BY DEF PodIsReplaced, queueVars
<1>2. retries' \in [Jobs -> 0..BackoffLimit]
  BY <1>1, LimitsAssumption DEF IInv, RunnerTypeOK
<1>3. RunnerTypeOK'
  BY <1>1, <1>2 DEF IInv, RunnerTypeOK, PodState
<1>4. \A i \in Jobs \ {j} : pod'[i] = pod[i]
  BY <1>1 DEF IInv, RunnerTypeOK
<1>5. TrackedPodsAreAwaited'
  BY <1>1, <1>4 DEF IInv, TrackedPodsAreAwaited, Expects
<1>6. ToldOfTheEnd'
  <2> SUFFICES ASSUME NEW u \in Jobs, call[u] = "told"
               PROVE  pod'[job[u]] # "running" \/ job[u] \in lost'
    BY <1>1 DEF ToldOfTheEnd
  <2>1. job[u] \in Jobs
    BY QueueFacts DEF IInv, RunnerTypeOK
  <2>. QED BY <1>1, <1>4, <2>1 DEF IInv, ToldOfTheEnd
<1>. QED BY <1>3, <1>5, <1>6 DEF IInv

\* A restarted server lost track of all it was waiting for.
LEMMA RestartPreserves ==
    ASSUME IInv, QueueInv', Restart
    PROVE  IInv'
<1>. USE NoneAssumption
<1>1. /\ lost' = lost \cup ({job[t] : t \in Jobs} \ {None})
      /\ \A t \in Jobs : call'[t] = "idle" /\ heard'[t] = None /\ task'[t] # "awaiting"
      /\ call' \in [Jobs -> CallState] /\ heard' \in [Jobs -> Jobs \cup {None}]
      /\ UNCHANGED <<pod, signalled, retries, cuts>>
  <2>1. \A t \in Jobs : task'[t] # "awaiting"
    BY DEF Restart, Queue!Restart, Queue!Live
  <2>. QED BY <2>1 DEF Restart, CallState
<1>2. RunnerTypeOK'
  <2>1. lost' \subseteq Jobs
    <3>1. job \in [Jobs -> Jobs \cup {None}]
      BY QueueFacts DEF IInv
    <3>. QED BY <1>1, <3>1 DEF IInv, RunnerTypeOK
  <2>. QED BY <1>1, <2>1 DEF IInv, RunnerTypeOK
<1>3. TrackedPodsAreAwaited'
  <2> SUFFICES ASSUME NEW j \in Jobs \ lost', pod[j] = "running"
               PROVE  FALSE
    BY <1>1 DEF TrackedPodsAreAwaited
  <2>1. PICK u \in Jobs : job[u] = j
    BY <1>1 DEF IInv, TrackedPodsAreAwaited
  <2>. QED BY <1>1, <2>1
<1>4. ToldOfTheEnd'
  BY <1>1 DEF ToldOfTheEnd
<1>. QED BY <1>2, <1>3, <1>4 DEF IInv

LEMMA StepPreserves == IInv /\ [Next]_vars => IInv'
<1>. SUFFICES ASSUME IInv, [Next]_vars
              PROVE  IInv'
  OBVIOUS
<1>1. QueueInv'
  BY QueueInvPreserved DEF IInv
<1>2. ASSUME NEW t \in Jobs, Enqueuing(t) \/ QueueConsuming(t) \/ BrpopFails(t)
      PROVE  IInv'
  BY <1>1, <1>2, QueuePreserves DEF Enqueuing, QueueConsuming, BrpopFails
<1>3. ASSUME NEW t \in Jobs, Execute(t)
      PROVE  IInv'
  BY <1>1, <1>3, ExecutePreserves
<1>4. ASSUME NEW t \in Jobs, Executing(t)
      PROVE  IInv'
  <2>1. CASE ApiCreatesJob(t) \/ ApiAnswers(t) \/ SubscribeArrives(t)
    BY <1>1, <2>1, WaitingPreserves
  <2>2. CASE ApiRefusesJob(t) \/ ReadSignal(t) \/ TimeOut(t)
    <3>1. /\ Return(t) /\ UNCHANGED <<signalled, retries, cuts, lost>>
      BY <2>2 DEF ApiRefusesJob, ReadSignal, TimeOut
    <3>2. job[t] \in Jobs
      BY <3>1, ReturnFacts
    <3>3. /\ pod' \in [Jobs -> PodState]
          /\ \A j \in Jobs : pod'[j] = "running" => pod[j] = "running"
      BY <2>2, <3>2 DEF ApiRefusesJob, ReadSignal, TimeOut, IInv, RunnerTypeOK, PodState
    <3>4. pod'[job[t]] # "running" \/ job[t] \in lost' \/ ~Expects(t)
      BY <2>2, <3>2 DEF ApiRefusesJob, ReadSignal, TimeOut, IInv, RunnerTypeOK,
                        ToldOfTheEnd, Expects
    <3>5. cuts' \in 0..MaxCuts /\ lost \subseteq lost' /\ lost' \subseteq Jobs
      BY <3>1 DEF IInv, RunnerTypeOK
    <3>. QED BY <1>1, <3>1, <3>3, <3>4, <3>5, ReturnPreserves
  <2>. QED BY <1>4, <2>1, <2>2 DEF Executing
<1>5. ASSUME NEW t \in Jobs, ConnectionBreaks(t)
      PROVE  IInv'
  <2>1. /\ Return(t) /\ UNCHANGED <<pod, signalled, retries>>
        /\ cuts < MaxCuts /\ cuts' = cuts + 1 /\ lost' = lost \cup {job[t]}
    BY <1>5 DEF ConnectionBreaks
  <2>2. job[t] \in Jobs
    BY <2>1, ReturnFacts
  <2>3. /\ cuts' \in 0..MaxCuts /\ lost \subseteq lost' /\ lost' \subseteq Jobs
        /\ pod' \in [Jobs -> PodState]
    BY <2>1, <2>2, LimitsAssumption DEF IInv, RunnerTypeOK
  <2>. QED BY <1>1, <2>1, <2>2, <2>3, ReturnPreserves
<1>6. ASSUME NEW j \in Jobs, PodSignals(j) \/ PodEndsSilently(j) \/ PodIsReplaced(j)
      PROVE  IInv'
  BY <1>1, <1>6, PodEndPreserves, ReplacementPreserves
<1>7. CASE Restart
  BY <1>1, <1>7, RestartPreserves
<1>8. CASE UNCHANGED vars
  BY <1>1, <1>8
  DEF vars, queueVars, runnerVars, IInv, RunnerTypeOK, TrackedPodsAreAwaited, ToldOfTheEnd,
      Expects
<1>. QED BY <1>2, <1>3, <1>4, <1>5, <1>6, <1>7, <1>8 DEF Next

LEMMA Invariance == Spec => []IInv
  BY InitIInv, StepPreserves, PTL DEF Spec

-----------------------------------------------------------------------------
(* Theorems.                                                               *)

\* Every variable keeps its type, a call of _execute() is in progress exactly
\* while its task awaits the callback, and a signal is in flight exactly to
\* the calls that were told.
THEOREM TypeCorrect == Spec => []TypeOK
<1>1. IInv => TypeOK
  <2> SUFFICES ASSUME IInv
               PROVE  TypeOK
    OBVIOUS
  <2>1. Queue!TypeOK
    BY SameType DEF IInv, QueueInv, Proved!IInv
  <2>. QED BY <2>1 DEF IInv, RunnerTypeOK, TypeOK
<1>. QED BY <1>1, Invariance, PTL

\* Two pods of one pull request run together only if the server lost track of
\* one of them: refused Jobs, silent or crashed pods, timeouts and errors of
\* the queue never make them overlap.
THEOREM TrackedPodsAreSerial == Spec => []OneTrackedPodPerPR
<1>1. IInv => OneTrackedPodPerPR
  <2> SUFFICES ASSUME IInv, NEW i \in Jobs \ lost, NEW j \in Jobs \ lost,
                      pod[i] = "running", pod[j] = "running", KeyOf[i] = KeyOf[j]
               PROVE  i = j
    BY DEF OneTrackedPodPerPR
  <2>1. PICK s \in Jobs : job[s] = i /\ Expects(s)
    BY DEF IInv, TrackedPodsAreAwaited
  <2>2. PICK t \in Jobs : job[t] = j /\ Expects(t)
    BY DEF IInv, TrackedPodsAreAwaited
  <2>3. task[s] = "awaiting" /\ task[t] = "awaiting"
    BY <2>1, <2>2 DEF IInv, RunnerTypeOK, Expects
  <2>4. KeyOf[s] = KeyOf[i] /\ KeyOf[t] = KeyOf[j]
    BY <2>1, <2>2, NoneAssumption, QueueFacts DEF IInv
  <2>5. s = t
    BY <2>3, <2>4, QueueFacts DEF IInv
  <2>. QED BY <2>1, <2>2, <2>5
<1>. QED BY <1>1, Invariance, PTL

\* A consumer that listens on the channel of a pod that the server did not
\* lose track of waits for that pod's job.
LEMMA ListenersWaitForTheirPod ==
    ASSUME IInv, \A i, j \in Jobs : ChannelOf[i] = ChannelOf[j] => KeyOf[i] = KeyOf[j],
           NEW t \in Jobs, NEW j \in Jobs \ lost, pod[j] = "running", Hears(t, j)
    PROVE  job[t] = j
<1>1. call[t] = "listening" /\ ChannelOf[job[t]] = ChannelOf[j]
  BY DEF Hears
<1>2. task[t] = "awaiting" /\ job[t] \in Jobs /\ KeyOf[job[t]] = KeyOf[t]
  BY <1>1, QueueFacts, NoneAssumption DEF IInv, RunnerTypeOK
<1>3. PICK u \in Jobs : job[u] = j /\ Expects(u)
  BY DEF IInv, TrackedPodsAreAwaited
<1>4. task[u] = "awaiting" /\ KeyOf[u] = KeyOf[j]
  BY <1>3, QueueFacts, NoneAssumption DEF IInv, RunnerTypeOK, Expects
<1>5. u = t
  BY <1>1, <1>2, <1>4, QueueFacts DEF IInv
<1>. QED BY <1>3, <1>5

\* The signals in flight are mistaken for no other than those of lost pods.
LEMMA MistakesPreserved ==
    ASSUME \A i, j \in Jobs : ChannelOf[i] = ChannelOf[j] => KeyOf[i] = KeyOf[j],
           IInv, OnlyLostPodsAreMistaken, [Next]_vars
    PROVE  OnlyLostPodsAreMistaken'
<1> SUFFICES ASSUME NEW t \in Jobs, call'[t] = "told", heard'[t] # job'[t]
             PROVE  heard'[t] \in lost' /\ KeyOf[heard'[t]] = KeyOf[t]
  BY DEF OnlyLostPodsAreMistaken
<1>1. CASE \E j \in Jobs : PodSignals(j) /\ Hears(t, j)
  <2>1. PICK j \in Jobs : PodSignals(j) /\ Hears(t, j)
    BY <1>1
  <2>2. heard'[t] = j /\ job'[t] = job[t] /\ lost \subseteq lost' /\ pod[j] = "running"
    BY <2>1 DEF PodSignals, PodEnds, queueVars
  <2>3. j \in lost
    BY <2>1, <2>2, ListenersWaitForTheirPod
  <2>4. KeyOf[j] = KeyOf[t]
    <3>1. KeyOf[job[t]] = KeyOf[t] /\ job[t] \in Jobs
      BY <2>1, QueueFacts, NoneAssumption DEF Hears, IInv, RunnerTypeOK
    <3>. QED BY <2>1, <3>1 DEF Hears
  <2>. QED BY <2>2, <2>3, <2>4
<1>2. CASE call[t] = "told" /\ heard'[t] = heard[t] /\ job'[t] = job[t] /\ lost \subseteq lost'
  BY <1>2 DEF OnlyLostPodsAreMistaken
<1>3. ASSUME NEW u \in Jobs, Return(u)
      PROVE  call[t] = "told" /\ heard'[t] = heard[t] /\ job'[t] = job[t]
  BY <1>3, ReturnFacts
<1>4. ASSUME NEW u \in Jobs, Executing(u) \/ ConnectionBreaks(u)
      PROVE  call[t] = "told" /\ heard'[t] = heard[t] /\ job'[t] = job[t] /\ lost \subseteq lost'
  <2>1. CASE ApiCreatesJob(u) \/ ApiAnswers(u) \/ SubscribeArrives(u)
    BY <2>1 DEF ApiCreatesJob, ApiAnswers, SubscribeArrives, queueVars, IInv, RunnerTypeOK
  <2>. QED
    BY <1>3, <1>4, <2>1 DEF Executing, ApiRefusesJob, ReadSignal, TimeOut, ConnectionBreaks
<1>5. ASSUME NEW u \in Jobs, Enqueuing(u) \/ QueueConsuming(u) \/ BrpopFails(u)
      PROVE  call[t] = "told" /\ heard'[t] = heard[t] /\ job'[t] = job[t] /\ lost \subseteq lost'
  <2>1. UNCHANGED <<call, heard, lost>>
    BY <1>5 DEF Enqueuing, QueueConsuming, BrpopFails, runnerVars
  <2>2. task[t] = "awaiting"
    BY <2>1 DEF IInv, RunnerTypeOK
  <2>. QED BY <1>5, <2>1, <2>2, QueueFrame DEF Enqueuing, BrpopFails, IInv
<1>6. ASSUME NEW u \in Jobs, Execute(u)
      PROVE  call[t] = "told" /\ heard'[t] = heard[t] /\ job'[t] = job[t] /\ lost \subseteq lost'
  <2>1. task[u] = "popped" /\ UNCHANGED <<heard, lost>>
    BY <1>6 DEF Execute, Queue!ConsumerReadsJob
  <2>2. call[t] = "told"
    BY <1>6 DEF Execute, IInv, RunnerTypeOK
  <2>3. t # u
    BY <2>1, <2>2 DEF IInv, RunnerTypeOK
  <2>. QED
    BY <1>6, <2>1, <2>2, <2>3, QueueFacts DEF Execute, Queue!ConsumerReadsJob, IInv
<1>7. ASSUME NEW j \in Jobs, PodSignals(j) \/ PodEndsSilently(j) \/ PodIsReplaced(j),
             ~(PodSignals(j) /\ Hears(t, j))
      PROVE  call[t] = "told" /\ heard'[t] = heard[t] /\ job'[t] = job[t] /\ lost \subseteq lost'
  BY <1>7 DEF PodSignals, PodEndsSilently, PodIsReplaced, queueVars
<1>8. ~Restart
  BY DEF Restart
<1>9. CASE UNCHANGED vars
  BY <1>2, <1>9 DEF vars, queueVars, runnerVars
<1>. QED BY <1>1, <1>2, <1>4, <1>5, <1>6, <1>7, <1>8, <1>9 DEF Next

\* A consumer is released by the signal of the job it waits for, unless the
\* signal comes from a pod of its pull request that the server lost track of.
\* It takes that the channels tell pull requests apart: build_job_channel_key
\* leaves out only the namespace, which one deployment does not vary.
THEOREM SignalsReachTheirConsumer ==
    ASSUME \A i, j \in Jobs : ChannelOf[i] = ChannelOf[j] => KeyOf[i] = KeyOf[j]
    PROVE  Spec => []OnlyLostPodsAreMistaken
<1>1. Init => OnlyLostPodsAreMistaken
  BY DEF Init, OnlyLostPodsAreMistaken
<1>2. IInv /\ OnlyLostPodsAreMistaken /\ [Next]_vars => OnlyLostPodsAreMistaken'
  BY MistakesPreserved
<1>. QED BY <1>1, <1>2, Invariance, PTL DEF Spec

\* The runner only restricts the queue: RedisJobQueue, whose callback is free
\* to end whenever it likes, is implemented by the composition with real pods.
THEOREM ImplementsQueue == Spec => Queue!Spec
<1>1. Init => Queue!Init
  BY DEF Init
<1>. QED BY <1>1, QueueSteps, PTL DEF Spec, Queue!Spec

LEMMA SamePromise == Proved!ImplementsPromise => Queue!ImplementsPromise
<1>1. Proved!Promise!Init => Queue!Promise!Init
  BY DEF Proved!Promise!Init, Queue!Promise!Init, Proved!PendingJobs, Queue!PendingJobs,
         Proved!RunningJobs, Queue!RunningJobs, Proved!InFlight, Queue!InFlight
<1>2. [Proved!Promise!Next]_(Proved!Promise!vars) => [Queue!Promise!Next]_(Queue!Promise!vars)
  BY Zenon
  DEF Proved!Promise!Next, Proved!Promise!Accept, Proved!Promise!Start,
      Proved!Promise!Finish, Proved!Promise!HandOver, Proved!Promise!Discard,
      Proved!Promise!Crash, Proved!Promise!vars, Proved!PendingJobs, Proved!RunningJobs,
      Proved!InFlight,
      Queue!Promise!Next, Queue!Promise!Accept, Queue!Promise!Start,
      Queue!Promise!Finish, Queue!Promise!HandOver, Queue!Promise!Discard,
      Queue!Promise!Crash, Queue!Promise!vars, Queue!PendingJobs, Queue!RunningJobs,
      Queue!InFlight
<1>. QED
  BY <1>1, <1>2, PTL
  DEF Proved!ImplementsPromise, Queue!ImplementsPromise, Proved!Promise!Spec, Queue!Promise!Spec

\* So the order and the seriality promised by SerialJobQueue hold of pull
\* requests whose jobs are pods.
THEOREM KeepsPromise == Spec => Queue!ImplementsPromise
<1>1. Init => Proved!Init
  BY SameInit DEF Init
<1>2. Proved!Spec => Proved!ImplementsPromise
  BY Proved!Refinement, KeyOfAssumption, NoneAssumption, UnreadableAssumption, BoundsAssumption
<1>. QED BY <1>1, <1>2, QueueSteps, SameSteps, SamePromise, PTL DEF Spec, Proved!Spec
=============================================================================

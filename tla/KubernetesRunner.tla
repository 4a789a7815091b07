-------------------------- MODULE KubernetesRunner --------------------------
(***************************************************************************)
(* Kubernetes deployments as a whole: the Redis queue, with the callback   *)
(* KubernetesRunner._execute (commands/webhook/jobs/runner/kubernetes.py), *)
(* the Kubernetes Jobs it creates, whose pods run jobs/main.py, and the    *)
(* Redis pub/sub channel on which a pod tells the consumer that it ended.  *)
(*                                                                         *)
(* Pub/sub has no memory: a signal reaches the consumers subscribed when   *)
(* it is published, and no other.  Pods belong to the cluster: they go on  *)
(* when the server restarts or loses a connection.                         *)
(*                                                                         *)
(* Real time is kept as an order only: await_job_completion waits 10       *)
(* seconds longer than activeDeadlineSeconds, so its timeout is assumed to *)
(* fire after the cluster has stopped the pods of the job.                 *)
(***************************************************************************)
EXTENDS Sequences, Naturals, FiniteSets

CONSTANTS Keys, Jobs, KeyOf, None, Unreadable, MaxErrors, MaxRestarts,
          Channels,
          ChannelOf,      \* channel of a job: its key without the namespace
          BackoffLimit,   \* times the cluster replaces a failed pod of a job
          MaxCuts         \* bound on connections of _execute that break

ASSUME KeyOfAssumption == KeyOf \in [Jobs -> Keys]
ASSUME NoneAssumption == None \notin Jobs
ASSUME UnreadableAssumption == Unreadable \subseteq Jobs
ASSUME BoundsAssumption == MaxErrors \in Nat /\ MaxRestarts \in Nat
ASSUME ChannelAssumption == ChannelOf \in [Jobs -> Channels]
ASSUME LimitsAssumption == BackoffLimit \in Nat /\ MaxCuts \in Nat

VARIABLES
    lists, enqueuer, consumers, task, job, finished, errors, restarts,
    call,      \* progress of _execute() in each consumer task
    heard,     \* the job whose signal is in flight to a consumer task
    pod,       \* state of the Kubernetes Job of each job
    signalled, \* jobs whose latest pod published its status
    retries,   \* pods of a job replaced so far
    cuts,
    lost       \* history: jobs whose pod the server lost track of

queueVars == <<lists, enqueuer, consumers, task, job, finished, errors, restarts>>
runnerVars == <<call, heard, pod, signalled, retries, cuts, lost>>
vars == <<queueVars, runnerVars>>

Queue == INSTANCE RedisJobQueue

\* "posting": the POST was sent; "created": its answer is in flight;
\* "subscribing": SUBSCRIBE was sent; "told": the signal is in flight.
CallState == {"idle", "posting", "created", "subscribing", "listening", "told"}

\* "over": the deadline of the Job passed, no pod will run for it any more.
PodState == {"none", "running", "succeeded", "failed", "over"}

Init ==
    /\ Queue!Init
    /\ call = [t \in Jobs |-> "idle"]
    /\ heard = [t \in Jobs |-> None]
    /\ pod = [j \in Jobs |-> "none"]
    /\ signalled = {}
    /\ retries = [j \in Jobs |-> 0]
    /\ cuts = 0
    /\ lost = {}

-----------------------------------------------------------------------------
(* KubernetesRunner._execute()                                             *)

\* The consumer takes a job; _execute() builds its spec and sends the POST.
Execute(t) ==
    /\ Queue!ConsumerReadsJob(t)
    /\ call' = IF task'[t] = "awaiting" THEN [call EXCEPT ![t] = "posting"] ELSE call
    /\ UNCHANGED <<heard, pod, signalled, retries, cuts, lost>>

\* _execute() returns, or raises an exception that the consumer logs.
Return(t) ==
    /\ Queue!CallbackEnds(t)
    /\ call' = [call EXCEPT ![t] = "idle"]
    /\ heard' = [heard EXCEPT ![t] = None]

ApiCreatesJob(t) ==
    /\ call[t] = "posting"
    /\ call' = [call EXCEPT ![t] = "created"]
    /\ pod' = [pod EXCEPT ![job[t]] = "running"]
    /\ UNCHANGED <<queueVars, heard, signalled, retries, cuts, lost>>

\* A status of 400 or more, or no connection: raised, nothing was created.
ApiRefusesJob(t) ==
    /\ call[t] = "posting"
    /\ Return(t)
    /\ UNCHANGED <<pod, signalled, retries, cuts, lost>>

\* The answer arrives: await_job_completion() sends SUBSCRIBE.
ApiAnswers(t) ==
    /\ call[t] = "created"
    /\ call' = [call EXCEPT ![t] = "subscribing"]
    /\ UNCHANGED <<queueVars, heard, pod, signalled, retries, cuts, lost>>

SubscribeArrives(t) ==
    /\ call[t] = "subscribing"
    /\ call' = [call EXCEPT ![t] = "listening"]
    /\ UNCHANGED <<queueVars, heard, pod, signalled, retries, cuts, lost>>

\* Fault: the signal is read, and not consumed.
ReadAgain(t) ==
    /\ call[t] = "told"
    /\ Queue!CallbackEnds(t)
    /\ call' = [call EXCEPT ![t] = "idle"]
    /\ UNCHANGED <<heard, pod, signalled, retries, cuts, lost>>

\* get_message() returns the signal.
ReadSignal(t) ==
    /\ call[t] = "told"
    /\ Return(t)
    /\ UNCHANGED <<pod, signalled, retries, cuts, lost>>

\* Fault: no margin over activeDeadlineSeconds.
TimeOutEarly(t) ==
    /\ call[t] = "listening"
    /\ Return(t)
    /\ UNCHANGED <<pod, signalled, retries, cuts, lost>>

\* Fault: get_message() is polled without a deadline.
PollForEver(t) == call[t] = "listening" /\ UNCHANGED vars

\* active_deadline_seconds + DEFAULT_JOB_TIMEOUT_MARGIN_SECONDS elapsed.
TimeOut(t) ==
    /\ call[t] = "listening"
    /\ pod[job[t]] # "running"
    /\ Return(t)
    /\ pod' = [pod EXCEPT ![job[t]] = "over"]
    /\ UNCHANGED <<signalled, retries, cuts, lost>>

\* The answer of the POST does not come within 30 seconds, or the pub/sub
\* connection breaks: raised, though the Job exists.
ConnectionBreaks(t) ==
    /\ call[t] \in {"created", "subscribing", "listening", "told"}
    /\ cuts < MaxCuts
    /\ cuts' = cuts + 1
    /\ lost' = lost \cup {job[t]}
    /\ Return(t)
    /\ UNCHANGED <<pod, signalled, retries>>

-----------------------------------------------------------------------------
(* The pods: jobs/main.py under a Kubernetes Job                           *)

\* Fault: the channel does not tell pull requests apart.
HearsRepository(t, j) == call[t] = "listening"

\* Consumer t is subscribed to the channel on which the pod of j publishes.
Hears(t, j) == call[t] = "listening" /\ ChannelOf[job[t]] = ChannelOf[j]

\* run_job_main() ends with a result, or exits with code 1.
PodEnds(j) ==
    /\ pod[j] = "running"
    /\ \E status \in {"succeeded", "failed"} : pod' = [pod EXCEPT ![j] = status]

\* _publish_completion() tells how the job ended.
PodSignals(j) ==
    /\ PodEnds(j)
    /\ signalled' = signalled \cup {j}
    /\ call' = [t \in Jobs |-> IF Hears(t, j) THEN "told" ELSE call[t]]
    /\ heard' = [t \in Jobs |-> IF Hears(t, j) THEN j ELSE heard[t]]
    /\ lost' = lost \cup ({job[t] : t \in {u \in Jobs : Hears(u, j)}} \ {j})
    /\ UNCHANGED <<queueVars, retries, cuts>>

\* The pod crashes or meets its deadline, run_job_main() returns early, or
\* the RedisError of publish() is logged.
PodEndsSilently(j) ==
    /\ PodEnds(j)
    /\ UNCHANGED <<queueVars, call, heard, signalled, retries, cuts, lost>>

\* The pod exited with an error and the Job has attempts left.
PodIsReplaced(j) ==
    /\ pod[j] = "failed"
    /\ retries[j] < BackoffLimit
    /\ retries' = [retries EXCEPT ![j] = @ + 1]
    /\ pod' = [pod EXCEPT ![j] = "running"]
    /\ signalled' = signalled \ {j}
    /\ lost' = lost \cup {j}
    /\ UNCHANGED <<queueVars, call, heard, cuts>>

\* The server process is replaced; the pods go on.
Restart ==
    /\ Queue!Restart
    /\ call' = [t \in Jobs |-> "idle"]
    /\ heard' = [t \in Jobs |-> None]
    /\ lost' = lost \cup ({job[t] : t \in Jobs} \ {None})
    /\ UNCHANGED <<pod, signalled, retries, cuts>>

-----------------------------------------------------------------------------

Enqueuing(j) == Queue!Enqueuing(j) /\ UNCHANGED runnerVars

QueueConsuming(t) ==
    /\ Queue!BrpopArrives(t) \/ Queue!BrpopExpires(t) \/ Queue!ConsumerReadsNil(t)
    /\ UNCHANGED runnerVars

BrpopFails(t) == Queue!BrpopFails(t) /\ UNCHANGED runnerVars

\* What the server does, or is told, while _execute() lasts.
Executing(t) ==
    \/ ApiCreatesJob(t) \/ ApiRefusesJob(t) \/ ApiAnswers(t)
    \/ SubscribeArrives(t) \/ ReadSignal(t) \/ TimeOut(t)

Next ==
    \/ \E j \in Jobs : Enqueuing(j)
    \/ \E t \in Jobs : QueueConsuming(t) \/ BrpopFails(t)
    \/ \E t \in Jobs : Execute(t) \/ Executing(t) \/ ConnectionBreaks(t)
    \/ \E j \in Jobs : PodSignals(j) \/ PodEndsSilently(j) \/ PodIsReplaced(j)
    \/ Restart

Spec == Init /\ [][Next]_vars

\* Requests of _execute() are answered or time out, and activeDeadlineSeconds
\* ends every pod that has not ended by itself; the queue as in RedisJobQueue.
Fairness ==
    /\ \A j \in Jobs : WF_vars(Queue!PushArrives(j) /\ UNCHANGED runnerVars)
                      /\ WF_vars(Queue!EnqueueReturns(j) /\ UNCHANGED runnerVars)
    /\ \A t \in Jobs : WF_vars(Execute(t) \/ QueueConsuming(t))
    /\ \A t \in Jobs : WF_vars(Executing(t))
    /\ \A j \in Jobs : WF_vars(PodSignals(j) \/ PodEndsSilently(j))

FairSpec == Spec /\ Fairness

-----------------------------------------------------------------------------
(* Properties.                                                             *)

\* Every variable holds a value of its type; a call of _execute() is in
\* progress exactly while its task awaits the callback, and a signal is in
\* flight exactly to the calls that were told.
TypeOK ==
    /\ Queue!TypeOK
    /\ call \in [Jobs -> CallState]
    /\ heard \in [Jobs -> Jobs \cup {None}]
    /\ pod \in [Jobs -> PodState]
    /\ signalled \subseteq Jobs
    /\ retries \in [Jobs -> 0..BackoffLimit]
    /\ cuts \in 0..MaxCuts
    /\ lost \subseteq Jobs
    /\ \A t \in Jobs : /\ (call[t] # "idle") <=> (task[t] = "awaiting")
                       /\ (heard[t] # None) <=> (call[t] = "told")

\* "When multiple webhook events arrive for the same PR, only one K8s Job
\* runs at a time" (docs/deployment/kubernetes.md, Job Serialization).
OnePodPerPR ==
    \A i, j \in Jobs :
        (pod[i] = "running" /\ pod[j] = "running" /\ KeyOf[i] = KeyOf[j]) => i = j

\* What holds of it: the pods of a pull request overlap only if the server
\* lost track of one, by a restart or a broken connection while it waited, by
\* a replacement of the pod, or by a signal mistaken for that pod's.  Jobs
\* refused by the API, pods that crash or stay silent, timeouts and errors of
\* BRPOP and LPUSH never make them overlap.
OneTrackedPodPerPR ==
    \A i, j \in Jobs \ lost :
        (pod[i] = "running" /\ pod[j] = "running" /\ KeyOf[i] = KeyOf[j]) => i = j

\* A consumer is released by the signal of the job it waits for, the channel
\* being "safe to use without a UUID" (build_job_channel_key), unless the
\* signal comes from a pod of its pull request that the server lost track of.
OnlyLostPodsAreMistaken ==
    \A t \in Jobs : (call[t] = "told" /\ heard[t] # job[t]) =>
        heard[t] \in lost /\ KeyOf[heard[t]] = KeyOf[t]

\* No consumer is blocked for ever by a job: _execute() returns whatever its
\* pod does.  This is the fairness RedisJobQueue assumes of its callback.
ExecutionsEnd == \A t \in Jobs : (task[t] = "awaiting") ~> (task[t] # "awaiting")

\* The queue composed with real pods still drains what a consumer gets to, in
\* particular all that waited for a key when the server restarted.
QueueDrains == Queue!ServedListsDrain
=============================================================================

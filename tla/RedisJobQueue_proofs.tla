------------------------ MODULE RedisJobQueue_proofs ------------------------
(***************************************************************************)
(* Proofs about the Redis queue, for every set of keys, jobs and           *)
(* unreadable jobs, and every number of errors and restarts.               *)
(***************************************************************************)
EXTENDS RedisJobQueue, TLAPS

\* A live task is the one registered for its key.
LiveTasksAreRegistered == \A t \in Jobs : Live(t) => consumers[KeyOf[t]] = t

\* Redis holds a BRPOP only on an empty list.
BlockedOnEmptyList == \A t \in Jobs : task[t] = "blocked" => lists[KeyOf[t]] = <<>>

\* A job whose LPUSH did not reach Redis is nowhere.
UnpushedJobsAreNowhere ==
    \A j \in Jobs : enqueuer[j] \in {"new", "pushing"} =>
        /\ j \notin finished
        /\ \A t \in Jobs : job[t] # j
        /\ \A k \in Keys : \A i \in DOMAIN lists[k] : lists[k][i] # j

IInv ==
    /\ TypeOK
    /\ LiveTasksAreRegistered
    /\ BlockedOnEmptyList
    /\ UnpushedJobsAreNowhere

LEMMA InitIInv == Init => IInv
  BY KeyOfAssumption, NoneAssumption
  DEF Init, IInv, TypeOK, LiveTasksAreRegistered, BlockedOnEmptyList,
      UnpushedJobsAreNowhere, Live, EnqueuerState, TaskState

\* Appending adds one element.
LEMMA AppendFacts ==
    ASSUME NEW s \in Seq(Jobs), NEW e \in Jobs
    PROVE  /\ Append(s, e) \in Seq(Jobs)
           /\ \A i \in DOMAIN Append(s, e) :
                Append(s, e)[i] = e \/ (i \in DOMAIN s /\ Append(s, e)[i] = s[i])
  OBVIOUS

\* The head and the elements of the tail of a list are elements of it.
LEMMA TailFacts ==
    ASSUME NEW s \in Seq(Jobs), s # <<>>
    PROVE  /\ Head(s) \in Jobs /\ Tail(s) \in Seq(Jobs)
           /\ 1 \in DOMAIN s /\ Head(s) = s[1]
           /\ \A i \in DOMAIN Tail(s) : i + 1 \in DOMAIN s /\ Tail(s)[i] = s[i + 1]
           /\ <<Head(s)>> \o Tail(s) = s
  OBVIOUS

-----------------------------------------------------------------------------
(* The invariant.                                                          *)

LEMMA PushPreserves ==
    ASSUME IInv, NEW j \in Jobs, PushArrives(j)
    PROVE  IInv'
<1>. USE KeyOfAssumption, NoneAssumption
<1>. DEFINE k == KeyOf[j]
<1>1. /\ enqueuer[j] = "pushing" /\ enqueuer' = [enqueuer EXCEPT ![j] = "pushed"]
      /\ UNCHANGED <<consumers, finished, errors, restarts>>
      /\ k \in Keys /\ lists[k] \in Seq(Jobs)
  BY DEF PushArrives, IInv, TypeOK
<1>2. CASE \E t \in Jobs :
              /\ task[t] = "blocked" /\ KeyOf[t] = k
              /\ task' = [task EXCEPT ![t] = "popped"]
              /\ job' = [job EXCEPT ![t] = j]
              /\ UNCHANGED lists
  <2>1. PICK t \in Jobs :
              /\ task[t] = "blocked" /\ KeyOf[t] = k
              /\ task' = [task EXCEPT ![t] = "popped"]
              /\ job' = [job EXCEPT ![t] = j]
              /\ UNCHANGED lists
    BY <1>2
  <2>2. TypeOK'
    BY <1>1, <2>1 DEF IInv, TypeOK, TaskState, EnqueuerState
  <2>3. LiveTasksAreRegistered' /\ BlockedOnEmptyList'
    BY <1>1, <2>1 DEF IInv, TypeOK, LiveTasksAreRegistered, BlockedOnEmptyList, Live
  <2>4. UnpushedJobsAreNowhere'
    BY <1>1, <2>1 DEF IInv, TypeOK, UnpushedJobsAreNowhere
  <2>. QED BY <2>2, <2>3, <2>4 DEF IInv
<1>3. CASE /\ \A t \in Jobs : ~(task[t] = "blocked" /\ KeyOf[t] = k)
           /\ lists' = [lists EXCEPT ![k] = Append(@, j)]
           /\ UNCHANGED <<task, job>>
  <2>1. TypeOK'
    BY <1>1, <1>3, AppendFacts DEF IInv, TypeOK, EnqueuerState
  <2>2. LiveTasksAreRegistered' /\ BlockedOnEmptyList'
    BY <1>1, <1>3 DEF IInv, TypeOK, LiveTasksAreRegistered, BlockedOnEmptyList, Live
  <2>3. UnpushedJobsAreNowhere'
    <3>1. \A i \in DOMAIN lists'[k] :
             lists'[k][i] = j \/ (i \in DOMAIN lists[k] /\ lists'[k][i] = lists[k][i])
      <4>1. lists'[k] = Append(lists[k], j)
        BY <1>1, <1>3 DEF IInv, TypeOK
      <4>. QED BY <1>1, <4>1, AppendFacts
    <3>2. \A m \in Keys \ {k} : lists'[m] = lists[m]
      BY <1>1, <1>3 DEF IInv, TypeOK
    <3>3. \A i \in Jobs : enqueuer'[i] \in {"new", "pushing"} =>
             i # j /\ enqueuer[i] \in {"new", "pushing"}
      BY <1>1 DEF IInv, TypeOK
    <3>. HIDE DEF k
    <3>. QED BY <1>1, <1>3, <3>1, <3>2, <3>3 DEF IInv, UnpushedJobsAreNowhere
  <2>. QED BY <2>1, <2>2, <2>3 DEF IInv
<1>. QED BY <1>2, <1>3 DEF PushArrives, Push

\* enqueue() before and after the push.
LEMMA EnqueuingPreserves ==
    ASSUME IInv, NEW j \in Jobs, Enqueuing(j)
    PROVE  IInv'
<1>. USE KeyOfAssumption, NoneAssumption
<1>1. CASE EnqueueSendsPush(j)
  BY <1>1
  DEF EnqueueSendsPush, IInv, TypeOK, LiveTasksAreRegistered, BlockedOnEmptyList,
      UnpushedJobsAreNowhere, Live, EnqueuerState
<1>2. CASE PushArrives(j)
  BY <1>2, PushPreserves
<1>3. CASE PushFails(j)
  BY <1>3
  DEF PushFails, IInv, TypeOK, LiveTasksAreRegistered, BlockedOnEmptyList,
      UnpushedJobsAreNowhere, Live, EnqueuerState
<1>4. CASE EnqueueReturns(j)
  <2>1. /\ enqueuer[j] = "pushed" /\ enqueuer' = [enqueuer EXCEPT ![j] = "accepted"]
        /\ UNCHANGED <<lists, job, finished, errors, restarts>>
    BY <1>4 DEF EnqueueReturns
  <2>2. UnpushedJobsAreNowhere'
    BY <2>1 DEF IInv, TypeOK, UnpushedJobsAreNowhere
  <2>3. CASE NeedsConsumer(KeyOf[j])
    <3>1. /\ consumers' = [consumers EXCEPT ![KeyOf[j]] = j]
          /\ task' = [task EXCEPT ![j] = "calling"]
      BY <1>4, <2>3 DEF EnqueueReturns
    <3>2. \A t \in Jobs : KeyOf[t] = KeyOf[j] => ~Live(t)
      BY <2>3 DEF NeedsConsumer, IInv, TypeOK, LiveTasksAreRegistered, Live
    <3>3. task[j] \in {"absent", "done"}
      BY <3>2 DEF Live
    <3>4. TypeOK'
      BY <2>1, <3>1, <3>3 DEF IInv, TypeOK, TaskState, EnqueuerState
    <3>5. LiveTasksAreRegistered' /\ BlockedOnEmptyList'
      BY <2>1, <3>1, <3>2
      DEF IInv, TypeOK, LiveTasksAreRegistered, BlockedOnEmptyList, Live
    <3>. QED BY <2>2, <3>4, <3>5 DEF IInv
  <2>4. CASE ~NeedsConsumer(KeyOf[j])
    BY <1>4, <2>1, <2>2, <2>4
    DEF EnqueueReturns, IInv, TypeOK, LiveTasksAreRegistered, BlockedOnEmptyList, Live,
        EnqueuerState
  <2>. QED BY <2>3, <2>4
<1>. QED BY <1>1, <1>2, <1>3, <1>4 DEF Enqueuing

LEMMA BrpopPreserves ==
    ASSUME IInv, NEW t \in Jobs, BrpopArrives(t)
    PROVE  IInv'
<1>. USE KeyOfAssumption, NoneAssumption
<1>. DEFINE k == KeyOf[t]
<1>1. /\ task[t] = "calling" /\ k \in Keys /\ lists[k] \in Seq(Jobs)
      /\ UNCHANGED <<enqueuer, consumers, finished, errors, restarts>>
  BY DEF BrpopArrives, IInv, TypeOK
<1>2. CASE /\ lists[k] # <<>>
           /\ task' = [task EXCEPT ![t] = "popped"]
           /\ job' = [job EXCEPT ![t] = Head(lists[k])]
           /\ lists' = [lists EXCEPT ![k] = Tail(@)]
  <2>1. /\ Head(lists[k]) \in Jobs /\ Tail(lists[k]) \in Seq(Jobs)
        /\ 1 \in DOMAIN lists[k] /\ Head(lists[k]) = lists[k][1]
        /\ \A i \in DOMAIN Tail(lists[k]) :
              i + 1 \in DOMAIN lists[k] /\ Tail(lists[k])[i] = lists[k][i + 1]
    BY <1>1, <1>2, TailFacts
  <2>2. /\ lists'[k] = Tail(lists[k]) /\ \A m \in Keys \ {k} : lists'[m] = lists[m]
        /\ job'[t] = Head(lists[k]) /\ \A u \in Jobs \ {t} : job'[u] = job[u]
        /\ task'[t] = "popped" /\ \A u \in Jobs \ {t} : task'[u] = task[u]
    BY <1>1, <1>2 DEF IInv, TypeOK
  <2>3. TypeOK'
    BY <1>1, <1>2, <2>1 DEF IInv, TypeOK, TaskState
  <2>4. LiveTasksAreRegistered'
    BY <1>1, <2>2 DEF IInv, LiveTasksAreRegistered, Live
  <2>5. BlockedOnEmptyList'
    BY <1>1, <1>2, <2>2 DEF IInv, TypeOK, BlockedOnEmptyList
  <2>6. UnpushedJobsAreNowhere'
    <3> SUFFICES ASSUME NEW j \in Jobs, enqueuer[j] \in {"new", "pushing"}
                 PROVE  /\ j \notin finished
                        /\ \A u \in Jobs : job'[u] # j
                        /\ \A m \in Keys : \A i \in DOMAIN lists'[m] : lists'[m][i] # j
      BY <1>1 DEF UnpushedJobsAreNowhere
    <3>1. /\ j \notin finished /\ \A u \in Jobs : job[u] # j
          /\ \A m \in Keys : \A i \in DOMAIN lists[m] : lists[m][i] # j
      BY DEF IInv, UnpushedJobsAreNowhere
    <3>. HIDE DEF k
    <3>2. \A u \in Jobs : job'[u] # j
      BY <1>1, <2>1, <2>2, <3>1
    <3>3. \A i \in DOMAIN lists'[k] : lists'[k][i] # j
      BY <1>1, <2>1, <2>2, <3>1
    <3>4. \A m \in Keys : m # k => lists'[m] = lists[m]
      BY <2>2
    <3>. QED BY <3>1, <3>2, <3>3, <3>4
  <2>. QED BY <2>3, <2>4, <2>5, <2>6 DEF IInv
<1>3. CASE /\ lists[k] = <<>>
           /\ task' = [task EXCEPT ![t] = "blocked"]
           /\ UNCHANGED <<job, lists>>
  BY <1>1, <1>3
  DEF IInv, TypeOK, LiveTasksAreRegistered, BlockedOnEmptyList, UnpushedJobsAreNowhere,
      Live, TaskState
<1>. QED BY <1>2, <1>3 DEF BrpopArrives

\* The steps of a consumer that leave the lists and the enqueuers alone, and
\* after which the consumer is live still.
LEMMA ConsumerGoesOn ==
    ASSUME IInv, NEW t \in Jobs,
           BrpopExpires(t) \/ ConsumerReadsJob(t) \/ CallbackEnds(t)
    PROVE  IInv'
<1>. USE KeyOfAssumption, NoneAssumption
<1>1. CASE BrpopExpires(t)
  BY <1>1
  DEF BrpopExpires, IInv, TypeOK, LiveTasksAreRegistered, BlockedOnEmptyList,
      UnpushedJobsAreNowhere, Live, TaskState
<1>2. CASE ConsumerReadsJob(t)
  <2>1. /\ task[t] = "popped" /\ job[t] \in Jobs
        /\ UNCHANGED <<lists, enqueuer, consumers, errors, restarts>>
    BY <1>2 DEF ConsumerReadsJob, IInv, TypeOK
  <2>2. TypeOK'
    <3>1. /\ task \in [Jobs -> TaskState] /\ job \in [Jobs -> Jobs \cup {None}]
          /\ \A u \in Jobs : (job[u] # None) <=> (task[u] \in {"popped", "awaiting"})
      BY DEF IInv, TypeOK
    <3>2. CASE job' = job /\ finished' = finished /\ task' = [task EXCEPT ![t] = "awaiting"]
      <4>1. task' \in [Jobs -> TaskState] /\ job' \in [Jobs -> Jobs \cup {None}]
        BY <3>1, <3>2 DEF TaskState
      <4>2. \A u \in Jobs : (job'[u] # None) <=> (task'[u] \in {"popped", "awaiting"})
        BY <2>1, <3>1, <3>2
      <4>. QED BY <2>1, <3>2, <4>1, <4>2 DEF IInv, TypeOK
    <3>3. CASE /\ job' = [job EXCEPT ![t] = None] /\ task' = [task EXCEPT ![t] = "calling"]
               /\ finished' = finished \cup {job[t]}
      <4>1. task' \in [Jobs -> TaskState] /\ job' \in [Jobs -> Jobs \cup {None}]
        BY <3>1, <3>3 DEF TaskState
      <4>2. \A u \in Jobs : (job'[u] # None) <=> (task'[u] \in {"popped", "awaiting"})
        BY <3>1, <3>3
      <4>. QED BY <2>1, <3>3, <4>1, <4>2 DEF IInv, TypeOK
    <3>. QED BY <1>2, <3>2, <3>3 DEF ConsumerReadsJob
  <2>3. LiveTasksAreRegistered' /\ BlockedOnEmptyList'
    BY <1>2, <2>1
    DEF ConsumerReadsJob, IInv, TypeOK, LiveTasksAreRegistered, BlockedOnEmptyList, Live
  <2>4. UnpushedJobsAreNowhere'
    BY <1>2, <2>1 DEF ConsumerReadsJob, IInv, TypeOK, UnpushedJobsAreNowhere
  <2>. QED BY <2>2, <2>3, <2>4 DEF IInv
<1>3. CASE CallbackEnds(t)
  BY <1>3
  DEF CallbackEnds, IInv, TypeOK, LiveTasksAreRegistered, BlockedOnEmptyList,
      UnpushedJobsAreNowhere, Live, TaskState
<1>. QED BY <1>1, <1>2, <1>3

\* The steps after which the consumer is not live.
LEMMA ConsumerLeaves ==
    ASSUME IInv, NEW t \in Jobs, ConsumerReadsNil(t) \/ BrpopFails(t)
    PROVE  IInv'
<1>. USE KeyOfAssumption, NoneAssumption
<1>1. /\ Live(t) /\ KeyOf[t] \in Keys
      /\ task' = [task EXCEPT ![t] = "done"]
      /\ consumers' = [consumers EXCEPT ![KeyOf[t]] = None]
      /\ UNCHANGED <<lists, enqueuer, restarts>>
      /\ errors' \in Nat
  BY DEF ConsumerReadsNil, BrpopFails, Leave, Live, IInv, TypeOK
<1>2. /\ job'[t] = None /\ job' \in [Jobs -> Jobs \cup {None}]
      /\ \A u \in Jobs \ {t} : job'[u] = job[u]
      /\ finished' \subseteq finished \cup ({job[t]} \ {None})
  BY DEF ConsumerReadsNil, BrpopFails, IInv, TypeOK
<1>3. /\ task'[t] = "done" /\ \A u \in Jobs \ {t} : task'[u] = task[u]
  BY <1>1 DEF IInv, TypeOK
<1>4. TypeOK'
  <2>1. \A u \in Jobs : (job'[u] # None) <=> (task'[u] \in {"popped", "awaiting"})
    BY <1>2, <1>3 DEF IInv, TypeOK
  <2>2. finished' \subseteq Jobs
    BY <1>2 DEF IInv, TypeOK
  <2>. QED BY <1>1, <1>2, <2>1, <2>2 DEF IInv, TypeOK, TaskState
<1>5. LiveTasksAreRegistered'
  <2> SUFFICES ASSUME NEW u \in Jobs, u # t, Live(u)
               PROVE  consumers'[KeyOf[u]] = u
    BY <1>3 DEF LiveTasksAreRegistered, Live
  <2>1. consumers[KeyOf[u]] = u /\ consumers[KeyOf[t]] = t /\ KeyOf[u] \in Keys
    BY <1>1 DEF IInv, LiveTasksAreRegistered
  <2>. QED BY <1>1, <2>1 DEF IInv, TypeOK
<1>6. BlockedOnEmptyList'
  BY <1>1, <1>3 DEF IInv, BlockedOnEmptyList
<1>7. UnpushedJobsAreNowhere'
  BY <1>1, <1>2 DEF IInv, UnpushedJobsAreNowhere
<1>. QED BY <1>4, <1>5, <1>6, <1>7 DEF IInv

LEMMA RestartPreserves ==
    ASSUME IInv, Restart
    PROVE  IInv'
<1>. USE KeyOfAssumption, NoneAssumption
<1>1. TypeOK'
  BY DEF Restart, IInv, TypeOK, EnqueuerState, TaskState, Live
<1>2. \A t \in Jobs : ~Live(t)' /\ task'[t] # "blocked"
  BY DEF Restart, IInv, TypeOK, Live
<1>3. UnpushedJobsAreNowhere'
  BY DEF Restart, IInv, TypeOK, UnpushedJobsAreNowhere
<1>. QED BY <1>1, <1>2, <1>3 DEF IInv, LiveTasksAreRegistered, BlockedOnEmptyList, Live

LEMMA StepPreserves == IInv /\ [Next]_vars => IInv'
<1>. SUFFICES ASSUME IInv, [Next]_vars
              PROVE  IInv'
  OBVIOUS
<1>1. ASSUME NEW j \in Jobs, Enqueuing(j)
      PROVE  IInv'
  BY <1>1, EnqueuingPreserves
<1>2. ASSUME NEW t \in Jobs, Consuming(t) \/ BrpopFails(t) \/ CallbackEnds(t)
      PROVE  IInv'
  BY <1>2, BrpopPreserves, ConsumerGoesOn, ConsumerLeaves DEF Consuming
<1>3. CASE Restart
  BY <1>3, RestartPreserves
<1>4. CASE UNCHANGED vars
  BY <1>4 DEF vars, IInv, TypeOK, LiveTasksAreRegistered, BlockedOnEmptyList,
              UnpushedJobsAreNowhere, Live
<1>. QED BY <1>1, <1>2, <1>3, <1>4 DEF Next

LEMMA Invariance == Spec => []IInv
  BY InitIInv, StepPreserves, PTL DEF Spec

\* Every variable keeps its type, and a task holds a job exactly while one is
\* in flight to it or being run.
THEOREM TypeCorrect == Spec => []TypeOK
  BY Invariance, PTL DEF IInv

\* One consumer per pull request key, whatever errors and restarts do.
THEOREM SingleConsumer == Spec => []OneConsumerPerKey
<1>1. IInv => OneConsumerPerKey
  BY DEF IInv, LiveTasksAreRegistered, OneConsumerPerKey
<1>. QED BY <1>1, Invariance, PTL

-----------------------------------------------------------------------------
(* Where a job is.                                                         *)

\* A list holds jobs of its key, and a consumer works for its own key.
ListsHoldTheirKey == \A k \in Keys : \A i \in DOMAIN lists[k] : KeyOf[lists[k][i]] = k
TasksHoldTheirKey == \A t \in Jobs : job[t] # None => KeyOf[job[t]] = KeyOf[t]

\* A job that waits does so once, and neither runs nor has run.
WaitsOnce ==
    \A k \in Keys : \A i \in DOMAIN lists[k] :
        /\ lists[k][i] \notin finished
        /\ \A t \in Jobs : job[t] # lists[k][i]
        /\ \A n \in DOMAIN lists[k] : lists[k][n] = lists[k][i] => n = i

HeldJobsAreUnfinished == \A t \in Jobs : job[t] \notin finished

\* A job that was pushed, and not refused, is somewhere.
PushedJobsAreSomewhere ==
    \A j \in Jobs : enqueuer[j] \in {"pushed", "accepted"} =>
        \/ \E i \in DOMAIN lists[KeyOf[j]] : lists[KeyOf[j]][i] = j
        \/ \E t \in Jobs : job[t] = j
        \/ j \in finished

Places ==
    /\ ListsHoldTheirKey
    /\ TasksHoldTheirKey
    /\ WaitsOnce
    /\ HeldJobsAreUnfinished
    /\ PushedJobsAreSomewhere

LEMMA InitPlaces == Init => Places
  BY KeyOfAssumption, NoneAssumption
  DEF Init, Places, ListsHoldTheirKey, TasksHoldTheirKey, WaitsOnce,
      HeldJobsAreUnfinished, PushedJobsAreSomewhere

\* No two tasks hold the same job.
LEMMA HeldOnce ==
    ASSUME IInv, Places, NEW t \in Jobs, NEW u \in Jobs, job[t] # None, job[t] = job[u]
    PROVE  t = u
<1>1. Live(t) /\ Live(u)
  BY DEF IInv, TypeOK, Live
<1>2. KeyOf[t] = KeyOf[u]
  BY DEF Places, TasksHoldTheirKey
<1>. QED BY <1>1, <1>2 DEF IInv, LiveTasksAreRegistered

\* The steps that move no job.
LEMMA NothingMoves ==
    ASSUME IInv, Places, UNCHANGED <<lists, job, finished>>,
           \A j \in Jobs : enqueuer'[j] \in {"pushed", "accepted"} =>
              enqueuer[j] \in {"pushed", "accepted"}
    PROVE  Places'
  BY DEF Places, ListsHoldTheirKey, TasksHoldTheirKey, WaitsOnce,
         HeldJobsAreUnfinished, PushedJobsAreSomewhere

\* The steps that end what a task holds: run to its end, skipped or lost.
LEMMA JobEnds ==
    ASSUME IInv, Places, NEW t \in Jobs, job[t] # None,
           finished' = finished \cup {job[t]}, job' = [job EXCEPT ![t] = None],
           UNCHANGED <<lists, enqueuer>>
    PROVE  Places'
<1>. USE KeyOfAssumption, NoneAssumption
<1>1. /\ job'[t] = None /\ \A u \in Jobs \ {t} : job'[u] = job[u]
      /\ finished \subseteq Jobs
      /\ \A k \in Keys : \A i \in DOMAIN lists[k] : lists[k][i] \in Jobs
  BY DEF IInv, TypeOK
<1>2. ListsHoldTheirKey' /\ TasksHoldTheirKey'
  BY <1>1 DEF Places, ListsHoldTheirKey, TasksHoldTheirKey
<1>3. WaitsOnce'
  BY <1>1 DEF Places, WaitsOnce
<1>4. HeldJobsAreUnfinished'
  <2> SUFFICES ASSUME NEW u \in Jobs, u # t
               PROVE  job[u] \notin finished \cup {job[t]}
    BY <1>1, Zenon DEF HeldJobsAreUnfinished, IInv, TypeOK
  <2>. QED BY HeldOnce DEF Places, HeldJobsAreUnfinished
<1>5. PushedJobsAreSomewhere'
  BY <1>1 DEF Places, PushedJobsAreSomewhere
<1>. QED BY <1>2, <1>3, <1>4, <1>5 DEF Places

LEMMA PushMovesJob ==
    ASSUME IInv, Places, NEW j \in Jobs, PushArrives(j)
    PROVE  Places'
<1>. USE KeyOfAssumption, NoneAssumption
<1>. DEFINE k == KeyOf[j]
<1>1. /\ k \in Keys /\ lists[k] \in Seq(Jobs) /\ UNCHANGED finished
      /\ \A i \in Jobs \ {j} : enqueuer'[i] = enqueuer[i]
  BY DEF PushArrives, IInv, TypeOK
<1>2. /\ j \notin finished /\ \A t \in Jobs : job[t] # j
      /\ \A m \in Keys : \A i \in DOMAIN lists[m] : lists[m][i] # j
  BY DEF PushArrives, IInv, UnpushedJobsAreNowhere
<1>3. CASE \E t \in Jobs :
              /\ task[t] = "blocked" /\ KeyOf[t] = k
              /\ task' = [task EXCEPT ![t] = "popped"]
              /\ job' = [job EXCEPT ![t] = j]
              /\ UNCHANGED lists
  <2>1. PICK t \in Jobs : /\ task[t] = "blocked" /\ KeyOf[t] = k
                          /\ job' = [job EXCEPT ![t] = j] /\ UNCHANGED lists
    BY <1>3
  <2>2. job[t] = None /\ job'[t] = j /\ \A u \in Jobs \ {t} : job'[u] = job[u]
    BY <2>1 DEF IInv, TypeOK
  <2>3. ListsHoldTheirKey' /\ TasksHoldTheirKey'
    BY <2>1, <2>2 DEF Places, ListsHoldTheirKey, TasksHoldTheirKey
  <2>4. WaitsOnce'
    BY <1>1, <1>2, <2>1, <2>2 DEF Places, WaitsOnce
  <2>5. HeldJobsAreUnfinished'
    BY <1>1, <1>2, <2>2 DEF Places, HeldJobsAreUnfinished
  <2>6. PushedJobsAreSomewhere'
    <3> SUFFICES ASSUME NEW i \in Jobs, i # j, enqueuer[i] \in {"pushed", "accepted"}
                 PROVE  \/ \E n \in DOMAIN lists[KeyOf[i]] : lists[KeyOf[i]][n] = i
                        \/ \E u \in Jobs : job'[u] = i
                        \/ i \in finished
      BY <1>1, <2>1, <2>2 DEF PushedJobsAreSomewhere
    <3>. QED BY <2>2 DEF Places, PushedJobsAreSomewhere
  <2>. QED BY <2>3, <2>4, <2>5, <2>6 DEF Places
<1>4. CASE /\ \A t \in Jobs : ~(task[t] = "blocked" /\ KeyOf[t] = k)
           /\ lists' = [lists EXCEPT ![k] = Append(@, j)]
           /\ UNCHANGED <<task, job>>
  <2>1. lists'[k] = Append(lists[k], j) /\ \A m \in Keys \ {k} : lists'[m] = lists[m]
    BY <1>1, <1>4 DEF IInv, TypeOK
  <2>2. /\ \A i \in DOMAIN lists'[k] :
              \/ i = Len(lists[k]) + 1 /\ lists'[k][i] = j
              \/ i \in DOMAIN lists[k] /\ lists'[k][i] = lists[k][i]
        /\ Len(lists[k]) + 1 \in DOMAIN lists'[k] /\ lists'[k][Len(lists[k]) + 1] = j
        /\ \A i \in DOMAIN lists[k] : i \in DOMAIN lists'[k] /\ lists'[k][i] = lists[k][i]
    BY <1>1, <2>1
  <2>. HIDE DEF k
  <2>3. ListsHoldTheirKey' /\ TasksHoldTheirKey'
    BY <1>4, <2>1, <2>2 DEF Places, ListsHoldTheirKey, TasksHoldTheirKey, k
  <2>4. WaitsOnce'
    <3>1. ASSUME NEW m \in Keys, m # k, NEW i \in DOMAIN lists'[m]
          PROVE  /\ lists'[m][i] \notin finished' /\ \A t \in Jobs : job'[t] # lists'[m][i]
                 /\ \A n \in DOMAIN lists'[m] : lists'[m][n] = lists'[m][i] => n = i
      BY <1>1, <1>4, <2>1, <3>1 DEF Places, WaitsOnce
    <3>2. ASSUME NEW i \in DOMAIN lists'[k]
          PROVE  /\ lists'[k][i] \notin finished' /\ \A t \in Jobs : job'[t] # lists'[k][i]
                 /\ \A n \in DOMAIN lists'[k] : lists'[k][n] = lists'[k][i] => n = i
      BY <1>1, <1>2, <1>4, <2>2, <3>2 DEF Places, WaitsOnce
    <3>. QED BY <3>1, <3>2 DEF WaitsOnce
  <2>5. HeldJobsAreUnfinished'
    BY <1>1, <1>4 DEF Places, HeldJobsAreUnfinished
  <2>6. PushedJobsAreSomewhere'
    <3> SUFFICES ASSUME NEW i \in Jobs, enqueuer'[i] \in {"pushed", "accepted"}
                 PROVE  \/ \E n \in DOMAIN lists'[KeyOf[i]] : lists'[KeyOf[i]][n] = i
                        \/ \E u \in Jobs : job'[u] = i
                        \/ i \in finished'
      BY DEF PushedJobsAreSomewhere
    <3>1. CASE i = j
      BY <2>2, <3>1 DEF k
    <3>2. CASE i # j
      <4>1. \/ \E n \in DOMAIN lists[KeyOf[i]] : lists[KeyOf[i]][n] = i
            \/ \E u \in Jobs : job[u] = i
            \/ i \in finished
        BY <1>1, <3>2 DEF Places, PushedJobsAreSomewhere
      <4>2. KeyOf[i] \in Keys
        OBVIOUS
      <4>. QED BY <1>1, <1>4, <2>1, <2>2, <4>1, <4>2
    <3>. QED BY <3>1, <3>2
  <2>. QED BY <2>3, <2>4, <2>5, <2>6 DEF Places
<1>. QED BY <1>3, <1>4 DEF PushArrives, Push

LEMMA BrpopMovesJob ==
    ASSUME IInv, Places, NEW t \in Jobs, BrpopArrives(t)
    PROVE  Places'
<1>. USE KeyOfAssumption, NoneAssumption
<1>. DEFINE k == KeyOf[t]
<1>1. /\ k \in Keys /\ lists[k] \in Seq(Jobs) /\ job[t] = None
      /\ UNCHANGED <<enqueuer, finished>>
  BY DEF BrpopArrives, IInv, TypeOK
<1>2. CASE lists[k] = <<>>
  BY <1>1, <1>2, NothingMoves DEF BrpopArrives
<1>3. CASE lists[k] # <<>>
  <2>1. /\ lists' = [lists EXCEPT ![k] = Tail(@)]
        /\ job' = [job EXCEPT ![t] = Head(lists[k])]
    BY <1>3 DEF BrpopArrives
  <2>2. /\ lists'[k] = Tail(lists[k]) /\ \A m \in Keys \ {k} : lists'[m] = lists[m]
        /\ job'[t] = lists[k][1] /\ \A u \in Jobs \ {t} : job'[u] = job[u]
    BY <1>1, <1>3, <2>1, TailFacts DEF IInv, TypeOK
  <2>3. /\ \A i \in DOMAIN lists'[k] :
              i + 1 \in DOMAIN lists[k] /\ i + 1 # 1 /\ lists'[k][i] = lists[k][i + 1]
        /\ \A i \in DOMAIN lists[k] :
              i = 1 \/ (i - 1 \in DOMAIN lists'[k] /\ lists'[k][i - 1] = lists[k][i])
        /\ 1 \in DOMAIN lists[k]
        /\ \A i, n \in DOMAIN lists'[k] : i + 1 = n + 1 => i = n
    BY <1>1, <1>3, <2>2
  <2>4. /\ lists[k][1] \notin finished /\ \A u \in Jobs : job[u] # lists[k][1]
        /\ \A n \in DOMAIN lists[k] : lists[k][n] = lists[k][1] => n = 1
        /\ KeyOf[lists[k][1]] = k
    BY <1>1, <2>3 DEF Places, WaitsOnce, ListsHoldTheirKey
  <2>5. \A m \in Keys \ {k} : \A i \in DOMAIN lists[m] : lists[m][i] # lists[k][1]
    BY <2>4 DEF Places, ListsHoldTheirKey
  <2>. HIDE DEF k
  <2>6. ListsHoldTheirKey' /\ TasksHoldTheirKey'
    <3>1. ASSUME NEW i \in DOMAIN lists'[k]
          PROVE  KeyOf[lists'[k][i]] = k
      <4>1. i + 1 \in DOMAIN lists[k] /\ lists'[k][i] = lists[k][i + 1]
        BY <2>3, <3>1
      <4>. QED BY <1>1, <4>1 DEF Places, ListsHoldTheirKey
    <3>2. \A u \in Jobs : job'[u] # None => KeyOf[job'[u]] = KeyOf[u]
      BY <2>2, <2>4 DEF Places, TasksHoldTheirKey, k
    <3>3. ASSUME NEW m \in Keys, m # k, NEW i \in DOMAIN lists'[m]
          PROVE  KeyOf[lists'[m][i]] = m
      BY <2>2, <3>3 DEF Places, ListsHoldTheirKey
    <3>. QED BY <3>1, <3>2, <3>3 DEF ListsHoldTheirKey, TasksHoldTheirKey
  <2>7. WaitsOnce'
    <3>1. ASSUME NEW m \in Keys, m # k, NEW i \in DOMAIN lists'[m]
          PROVE  /\ lists'[m][i] \notin finished' /\ \A u \in Jobs : job'[u] # lists'[m][i]
                 /\ \A n \in DOMAIN lists'[m] : lists'[m][n] = lists'[m][i] => n = i
      BY <1>1, <2>2, <2>5, <3>1 DEF Places, WaitsOnce
    <3>2. ASSUME NEW i \in DOMAIN lists'[k]
          PROVE  /\ lists'[k][i] \notin finished' /\ \A u \in Jobs : job'[u] # lists'[k][i]
                 /\ \A n \in DOMAIN lists'[k] : lists'[k][n] = lists'[k][i] => n = i
      <4>1. i + 1 \in DOMAIN lists[k] /\ i + 1 # 1 /\ lists'[k][i] = lists[k][i + 1]
        BY <2>3, <3>2
      <4>2. /\ lists[k][i + 1] \notin finished /\ \A u \in Jobs : job[u] # lists[k][i + 1]
            /\ \A n \in DOMAIN lists[k] : lists[k][n] = lists[k][i + 1] => n = i + 1
        BY <1>1, <4>1 DEF Places, WaitsOnce
      <4>3. lists[k][i + 1] # lists[k][1]
        BY <2>4, <4>1
      <4>. QED BY <1>1, <2>2, <2>3, <3>2, <4>1, <4>2, <4>3
    <3>. QED BY <3>1, <3>2 DEF WaitsOnce
  <2>8. HeldJobsAreUnfinished'
    BY <1>1, <2>2, <2>4 DEF Places, HeldJobsAreUnfinished
  <2>9. PushedJobsAreSomewhere'
    <3> SUFFICES ASSUME NEW j \in Jobs, enqueuer[j] \in {"pushed", "accepted"}
                 PROVE  \/ \E n \in DOMAIN lists'[KeyOf[j]] : lists'[KeyOf[j]][n] = j
                        \/ \E u \in Jobs : job'[u] = j
                        \/ j \in finished
      BY <1>1 DEF PushedJobsAreSomewhere
    <3>1. CASE \E u \in Jobs : job[u] = j
      BY <1>1, <2>2, <3>1
    <3>2. CASE \E i \in DOMAIN lists[KeyOf[j]] : lists[KeyOf[j]][i] = j
      <4>1. CASE KeyOf[j] = k
        <5>1. PICK i \in DOMAIN lists[k] : lists[k][i] = j
          BY <3>2, <4>1
        <5>2. CASE i = 1
          BY <2>2, <5>1, <5>2
        <5>3. CASE i - 1 \in DOMAIN lists'[k] /\ lists'[k][i - 1] = lists[k][i]
          BY <4>1, <5>1, <5>3
        <5>. QED BY <2>3, <5>1, <5>2, <5>3
      <4>2. CASE KeyOf[j] # k
        <5>1. KeyOf[j] \in Keys
          OBVIOUS
        <5>. QED BY <2>2, <3>2, <4>2, <5>1
      <4>. QED BY <4>1, <4>2
    <3>. QED BY <3>1, <3>2 DEF Places, PushedJobsAreSomewhere
  <2>. QED BY <2>6, <2>7, <2>8, <2>9 DEF Places
<1>. QED BY <1>2, <1>3

\* A restart ends whatever tasks hold, and leaves the lists alone.
LEMMA RestartEndsHeldJobs ==
    ASSUME IInv, Places, Restart
    PROVE  Places'
<1>. USE KeyOfAssumption, NoneAssumption
<1>1. /\ UNCHANGED lists /\ \A t \in Jobs : job'[t] = None
      /\ finished' = finished \cup ({job[t] : t \in Jobs} \ {None})
      /\ \A j \in Jobs : enqueuer'[j] \in {"pushed", "accepted"} => enqueuer[j] = enqueuer'[j]
  BY DEF Restart
<1>2. finished \subseteq Jobs /\ \A k \in Keys : \A i \in DOMAIN lists[k] : lists[k][i] \in Jobs
  BY DEF IInv, TypeOK
<1>3. ListsHoldTheirKey' /\ TasksHoldTheirKey'
  BY <1>1 DEF Places, ListsHoldTheirKey, TasksHoldTheirKey
<1>4. WaitsOnce'
  BY <1>1, <1>2 DEF Places, WaitsOnce
<1>5. HeldJobsAreUnfinished'
  BY <1>1, <1>2 DEF HeldJobsAreUnfinished
<1>6. PushedJobsAreSomewhere'
  BY <1>1 DEF Places, PushedJobsAreSomewhere
<1>. QED BY <1>3, <1>4, <1>5, <1>6 DEF Places

LEMMA StepKeepsPlaces == IInv /\ Places /\ [Next]_vars => Places'
<1>. SUFFICES ASSUME IInv, Places, [Next]_vars
              PROVE  Places'
  OBVIOUS
<1>1. ASSUME NEW j \in Jobs, Enqueuing(j)
      PROVE  Places'
  <2>1. CASE PushArrives(j)
    BY <2>1, PushMovesJob
  <2>2. CASE EnqueueSendsPush(j) \/ EnqueueReturns(j) \/ PushFails(j)
    <3>1. UNCHANGED <<lists, job, finished>>
      BY <2>2 DEF EnqueueSendsPush, EnqueueReturns, PushFails
    <3>2. \A i \in Jobs : enqueuer'[i] \in {"pushed", "accepted"} =>
             enqueuer[i] \in {"pushed", "accepted"}
      BY <2>2 DEF EnqueueSendsPush, EnqueueReturns, PushFails, IInv, TypeOK
    <3>. QED BY <3>1, <3>2, NothingMoves
  <2>. QED BY <1>1, <2>1, <2>2 DEF Enqueuing
<1>2. ASSUME NEW t \in Jobs, Consuming(t) \/ BrpopFails(t) \/ CallbackEnds(t)
      PROVE  Places'
  <2>1. CASE BrpopArrives(t)
    BY <2>1, BrpopMovesJob
  <2>2. CASE BrpopExpires(t) \/ ConsumerReadsNil(t)
    BY <2>2, NothingMoves DEF BrpopExpires, ConsumerReadsNil
  <2>3. CASE ConsumerReadsJob(t) \/ BrpopFails(t) \/ CallbackEnds(t)
    <3>1. /\ UNCHANGED <<lists, enqueuer>> /\ job \in [Jobs -> Jobs \cup {None}]
          /\ \/ UNCHANGED <<job, finished>>
             \/ /\ job' = [job EXCEPT ![t] = None]
                /\ finished' = finished \cup ({job[t]} \ {None})
      BY <2>3, NoneAssumption DEF ConsumerReadsJob, BrpopFails, CallbackEnds, IInv, TypeOK
    <3>2. CASE job[t] = None \/ UNCHANGED <<job, finished>>
      BY <3>1, <3>2, NothingMoves
    <3>3. CASE job[t] # None /\ ~UNCHANGED <<job, finished>>
      BY <3>1, <3>3, JobEnds
    <3>. QED BY <3>2, <3>3
  <2>. QED BY <1>2, <2>1, <2>2, <2>3 DEF Consuming
<1>3. CASE Restart
  BY <1>3, RestartEndsHeldJobs
<1>4. CASE UNCHANGED vars
  BY <1>4, NothingMoves DEF vars
<1>. QED BY <1>1, <1>2, <1>3, <1>4 DEF Next

\* The jobs of a consumer that dies are lost, and no other: an accepted job
\* waits in the list of its key, or is held by one consumer of its key, or has
\* been run or given up, and never two of these.
THEOREM NoJobVanishes == Spec => []AcceptedJobsAreSomewhere
<1>1. Spec => []Places
  BY InitPlaces, StepKeepsPlaces, Invariance, PTL DEF Spec
<1>2. IInv /\ Places => AcceptedJobsAreSomewhere
  <2> SUFFICES ASSUME IInv, Places, NEW j \in Jobs, enqueuer[j] \in {"pushed", "accepted"}
               PROVE  \/ Waiting(j) /\ j \notin finished
                      \/ j \notin finished /\ \E t \in Jobs : job[t] = j /\ KeyOf[t] = KeyOf[j]
                      \/ j \in finished /\ ~Waiting(j) /\ \A t \in Jobs : job[t] # j
    BY DEF AcceptedJobsAreSomewhere
  <2>1. j # None /\ KeyOf[j] \in Keys
    BY KeyOfAssumption, NoneAssumption
  <2>. QED
    BY <2>1 DEF Places, WaitsOnce, HeldJobsAreUnfinished, TasksHoldTheirKey,
                PushedJobsAreSomewhere, Waiting
<1>. QED BY <1>1, <1>2, Invariance, PTL

-----------------------------------------------------------------------------
(* Refinement of SerialJobQueue.                                           *)

\* The abstract state, as in the instance Promise.
Pending == [k \in Keys |-> PendingJobs(k)]
Running == [k \in Keys |-> RunningJobs(k)]

\* A job in front of a list.
InFront(a, s) == <<a>> \o s

LEMMA InFrontFacts ==
    ASSUME NEW s \in Seq(Jobs), NEW a \in Jobs
    PROVE  /\ InFront(a, s) # <<>> /\ Head(InFront(a, s)) = a /\ Tail(InFront(a, s)) = s
           /\ \A e \in Jobs : Append(InFront(a, s), e) = InFront(a, Append(s, e))
           /\ \A i \in DOMAIN InFront(a, s) :
                InFront(a, s)[i] = a \/ \E n \in DOMAIN s : InFront(a, s)[i] = s[n]
<1>1. InFront(a, s) # <<>> /\ Head(InFront(a, s)) = a /\ Tail(InFront(a, s)) = s
  BY DEF InFront
<1>2. ASSUME NEW e \in Jobs
      PROVE  Append(InFront(a, s), e) = InFront(a, Append(s, e))
  BY DEF InFront
<1>3. \A i \in DOMAIN InFront(a, s) :
        (i = 1 /\ InFront(a, s)[i] = a) \/ (i - 1 \in DOMAIN s /\ InFront(a, s)[i] = s[i - 1])
  BY DEF InFront
<1>. QED BY <1>1, <1>2, <1>3

\* What a key looks like to the promise is told by its one live task.
View ==
    \A k \in Keys :
        /\ (\A t \in Jobs : KeyOf[t] = k => ~Live(t)) =>
              InFlight(k) = {} /\ PendingJobs(k) = lists[k] /\ RunningJobs(k) = {}
        /\ \A t \in Jobs : KeyOf[t] = k =>
              /\ task[t] = "popped" =>
                    /\ InFlight(k) = {t} /\ RunningJobs(k) = {}
                    /\ PendingJobs(k) = InFront(job[t], lists[k])
              /\ task[t] = "awaiting" =>
                    InFlight(k) = {} /\ PendingJobs(k) = lists[k] /\ RunningJobs(k) = {job[t]}
              /\ task[t] \in {"calling", "blocked", "expired"} =>
                    InFlight(k) = {} /\ PendingJobs(k) = lists[k] /\ RunningJobs(k) = {}

LEMMA InvariantGivesView == IInv => View
<1>. SUFFICES ASSUME IInv
              PROVE  View
  OBVIOUS
<1>1. ASSUME NEW s \in Jobs, NEW t \in Jobs, Live(s), Live(t), KeyOf[s] = KeyOf[t]
      PROVE  s = t
  BY <1>1 DEF IInv, LiveTasksAreRegistered
<1>2. ASSUME NEW k \in Keys, InFlight(k) = {}
      PROVE  PendingJobs(k) = lists[k]
  BY <1>2 DEF PendingJobs
<1>3. ASSUME NEW k \in Keys, \A t \in Jobs : KeyOf[t] = k => ~Live(t)
      PROVE  InFlight(k) = {} /\ RunningJobs(k) = {}
  BY <1>3 DEF InFlight, RunningJobs, Live
<1>4. ASSUME NEW k \in Keys, NEW t \in Jobs, KeyOf[t] = k, Live(t)
      PROVE  /\ task[t] = "popped" => InFlight(k) = {t}
             /\ task[t] # "popped" => InFlight(k) = {}
             /\ task[t] = "awaiting" => RunningJobs(k) = {job[t]}
             /\ task[t] # "awaiting" => RunningJobs(k) = {}
  <2>1. \A u \in Jobs : task[u] \in {"popped", "awaiting"} /\ KeyOf[u] = k => u = t
    BY <1>1, <1>4 DEF Live
  <2>2. {u \in Jobs : task[u] = "awaiting" /\ KeyOf[u] = k} =
            IF task[t] = "awaiting" THEN {t} ELSE {}
    BY <1>4, <2>1
  <2>. QED BY <1>4, <2>1, <2>2 DEF InFlight, RunningJobs
<1>5. ASSUME NEW k \in Keys, NEW t \in Jobs, InFlight(k) = {t}
      PROVE  PendingJobs(k) = InFront(job[t], lists[k])
  <2>1. (CHOOSE u \in InFlight(k) : TRUE) = t
    BY <1>5
  <2>. QED BY <1>5, <2>1 DEF PendingJobs, InFront
<1>. QED BY <1>2, <1>3, <1>4, <1>5 DEF View, Live

LEMMA NextView == IInv' => View'
  BY InvariantGivesView, PTL

\* A key whose list and tasks are left alone looks the same.
LEMMA OtherKeys ==
    ASSUME NEW m \in Keys, lists'[m] = lists[m],
           \A u \in Jobs : KeyOf[u] = m => task'[u] = task[u] /\ job'[u] = job[u]
    PROVE  PendingJobs(m)' = PendingJobs(m) /\ RunningJobs(m)' = RunningJobs(m)
<1>1. InFlight(m)' = InFlight(m)
  BY DEF InFlight
<1>2. PendingJobs(m)' = PendingJobs(m)
  <2>1. CASE InFlight(m) = {}
    BY <1>1, <2>1 DEF PendingJobs
  <2>2. CASE InFlight(m) # {}
    <3>. DEFINE u == CHOOSE t \in InFlight(m) : TRUE
    <3>1. u \in InFlight(m)
      BY <2>2
    <3>2. u \in Jobs /\ KeyOf[u] = m
      BY <3>1 DEF InFlight
    <3>3. PendingJobs(m) = <<job[u]>> \o lists[m]
      BY <2>2 DEF PendingJobs
    <3>4. PendingJobs(m)' = <<job'[u]>> \o lists'[m]
      BY <1>1, <2>2 DEF PendingJobs
    <3>. HIDE DEF u
    <3>. QED BY <3>2, <3>3, <3>4
  <2>. QED BY <2>1, <2>2
<1>3. {u \in Jobs : task'[u] = "awaiting" /\ KeyOf[u] = m}
        = {u \in Jobs : task[u] = "awaiting" /\ KeyOf[u] = m}
  OBVIOUS
<1>4. \A u \in {v \in Jobs : task[v] = "awaiting" /\ KeyOf[v] = m} : job'[u] = job[u]
  OBVIOUS
<1>. QED BY <1>2, <1>3, <1>4 DEF RunningJobs

\* A step of one consumer changes what its key looks like, and nothing else.
LEMMA OneKeyChanges ==
    ASSUME NEW k \in Keys,
           \A m \in Keys \ {k} :
              PendingJobs(m)' = PendingJobs(m) /\ RunningJobs(m)' = RunningJobs(m)
    PROVE  /\ Pending' = [Pending EXCEPT ![k] = PendingJobs(k)']
           /\ Running' = [Running EXCEPT ![k] = RunningJobs(k)']
           /\ Pending[k] = PendingJobs(k) /\ Running[k] = RunningJobs(k)
  BY DEF Pending, Running

LEMMA NothingChanges ==
    ASSUME \A m \in Keys : PendingJobs(m)' = PendingJobs(m) /\ RunningJobs(m)' = RunningJobs(m),
           finished' = finished
    PROVE  UNCHANGED Promise!vars
  BY DEF Promise!vars

\* The push is where the promise accepts a job: behind those of its key, also
\* when a blocked consumer gets it at once.
LEMMA PushAccepts ==
    ASSUME IInv, IInv', NEW j \in Jobs, PushArrives(j)
    PROVE  Promise!Accept(j)
<1>. USE KeyOfAssumption, NoneAssumption
<1>. DEFINE k == KeyOf[j]
<1>1. /\ enqueuer[j] = "pushing" /\ UNCHANGED finished
      /\ k \in Keys /\ lists[k] \in Seq(Jobs)
  BY DEF PushArrives, IInv, TypeOK
<1>2. View /\ View'
  BY InvariantGivesView, NextView
<1>3. /\ j \notin finished /\ \A t \in Jobs : job[t] # j
      /\ \A m \in Keys : \A i \in DOMAIN lists[m] : lists[m][i] # j
  BY <1>1 DEF IInv, UnpushedJobsAreNowhere
<1>4. \A m \in Keys : j \notin RunningJobs(m)
  BY <1>3 DEF RunningJobs
<1>5. ASSUME NEW m \in Keys
      PROVE  \A i \in DOMAIN PendingJobs(m) : PendingJobs(m)[i] # j
  <2>1. CASE InFlight(m) = {}
    BY <1>3, <2>1 DEF PendingJobs
  <2>2. CASE InFlight(m) # {}
    <3>1. PICK t \in InFlight(m) : TRUE
      BY <2>2
    <3>2. t \in Jobs /\ KeyOf[t] = m /\ task[t] = "popped"
      BY <3>1 DEF InFlight
    <3>3. PendingJobs(m) = InFront(job[t], lists[m])
      BY <1>2, <3>2 DEF View
    <3>4. job[t] \in Jobs /\ lists[m] \in Seq(Jobs)
      BY <3>2 DEF IInv, TypeOK
    <3>. QED BY <1>3, <3>2, <3>3, <3>4, InFrontFacts
  <2>. QED BY <2>1, <2>2
<1>6. /\ PendingJobs(k)' = Append(PendingJobs(k), j) /\ RunningJobs(k)' = RunningJobs(k)
      /\ \A m \in Keys \ {k} :
            PendingJobs(m)' = PendingJobs(m) /\ RunningJobs(m)' = RunningJobs(m)
  <2>1. CASE \E t \in Jobs :
                /\ task[t] = "blocked" /\ KeyOf[t] = k
                /\ task' = [task EXCEPT ![t] = "popped"]
                /\ job' = [job EXCEPT ![t] = j]
                /\ UNCHANGED lists
    <3>1. PICK t \in Jobs :
                /\ task[t] = "blocked" /\ KeyOf[t] = k
                /\ task' = [task EXCEPT ![t] = "popped"]
                /\ job' = [job EXCEPT ![t] = j]
                /\ UNCHANGED lists
      BY <2>1
    <3>2. /\ task'[t] = "popped" /\ \A u \in Jobs \ {t} : task'[u] = task[u]
          /\ job'[t] = j /\ \A u \in Jobs \ {t} : job'[u] = job[u]
      BY <3>1 DEF IInv, TypeOK
    <3>3. lists[k] = <<>> /\ lists'[k] = <<>>
      BY <3>1 DEF IInv, BlockedOnEmptyList
    <3>. HIDE DEF k
    <3>4. PendingJobs(k) = <<>> /\ RunningJobs(k) = {}
      BY <1>1, <1>2, <3>1, <3>3 DEF View
    <3>5. PendingJobs(k)' = InFront(j, <<>>) /\ RunningJobs(k)' = {}
      <4>1. PendingJobs(k)' = InFront(job'[t], lists'[k]) /\ RunningJobs(k)' = {}
        BY <1>1, <1>2, <3>1, <3>2 DEF View, InFront
      <4>. QED BY <3>2, <3>3, <4>1
    <3>6. InFront(j, <<>>) = Append(<<>>, j)
      BY DEF InFront
    <3>7. ASSUME NEW m \in Keys \ {k}
          PROVE  PendingJobs(m)' = PendingJobs(m) /\ RunningJobs(m)' = RunningJobs(m)
      BY <3>1, <3>2, OtherKeys
    <3>. QED BY <3>4, <3>5, <3>6, <3>7
  <2>2. CASE /\ lists' = [lists EXCEPT ![k] = Append(@, j)]
             /\ UNCHANGED <<task, job>>
    <3>1. /\ lists'[k] = Append(lists[k], j)
          /\ \A m \in Keys \ {k} : lists'[m] = lists[m]
      BY <1>1, <2>2 DEF IInv, TypeOK
    <3>2. InFlight(k)' = InFlight(k) /\ RunningJobs(k)' = RunningJobs(k)
      BY <2>2 DEF InFlight, RunningJobs
    <3>. HIDE DEF k
    <3>3. CASE InFlight(k) = {}
      BY <3>1, <3>2, <3>3, <2>2, OtherKeys DEF PendingJobs
    <3>4. CASE InFlight(k) # {}
      <4>1. PICK t \in InFlight(k) : TRUE
        BY <3>4
      <4>2. t \in Jobs /\ KeyOf[t] = k /\ task[t] = "popped" /\ task'[t] = "popped"
        BY <4>1, <2>2 DEF InFlight
      <4>3. /\ PendingJobs(k) = InFront(job[t], lists[k])
            /\ PendingJobs(k)' = InFront(job[t], Append(lists[k], j))
        BY <1>1, <1>2, <2>2, <3>1, <4>2 DEF View
      <4>4. job[t] \in Jobs
        BY <4>2 DEF IInv, TypeOK
      <4>5. PendingJobs(k)' = Append(PendingJobs(k), j)
        BY <1>1, <4>3, <4>4, InFrontFacts
      <4>. QED BY <2>2, <3>1, <3>2, <4>5, OtherKeys
    <3>. QED BY <3>3, <3>4
  <2>. QED BY <2>1, <2>2 DEF PushArrives, Push
<1>. HIDE DEF k
<1>7. /\ Pending' = [Pending EXCEPT ![k] = Append(Pending[k], j)] /\ Running' = Running
  <2>1. Running' = [Running EXCEPT ![k] = Running[k]]
    BY <1>1, <1>6, OneKeyChanges
  <2>2. Running' = Running
    BY <1>1, <2>1 DEF Running
  <2>. QED BY <1>1, <1>6, <2>2, OneKeyChanges
<1>8. /\ \A m \in Keys : j \notin Running[m]
      /\ \A m \in Keys : \A i \in DOMAIN Pending[m] : Pending[m][i] # j
  BY <1>4, <1>5 DEF Pending, Running
<1>. QED BY <1>1, <1>3, <1>7, <1>8 DEF Promise!Accept, Pending, Running, k

-----------------------------------------------------------------------------
(* The other steps.                                                        *)

\* What a step of consumer t leaves alone for the keys of other consumers.
LEMMA OnlyItsKey ==
    ASSUME NEW t \in Jobs, KeyOf[t] \in Keys,
           \A m \in Keys \ {KeyOf[t]} : lists'[m] = lists[m],
           \A u \in Jobs \ {t} : task'[u] = task[u] /\ job'[u] = job[u]
    PROVE  \A m \in Keys \ {KeyOf[t]} :
              PendingJobs(m)' = PendingJobs(m) /\ RunningJobs(m)' = RunningJobs(m)
  BY OtherKeys

\* A job is read: it starts, or is discarded as unreadable.
LEMMA ReadsJobRefines ==
    ASSUME IInv, IInv', NEW t \in Jobs, ConsumerReadsJob(t)
    PROVE  Promise!Next
<1>. USE KeyOfAssumption, NoneAssumption
<1>. DEFINE k == KeyOf[t]
<1>1. /\ task[t] = "popped" /\ k \in Keys /\ job[t] \in Jobs /\ lists[k] \in Seq(Jobs)
      /\ UNCHANGED lists
      /\ \A u \in Jobs \ {t} : task'[u] = task[u] /\ job'[u] = job[u]
  BY DEF ConsumerReadsJob, IInv, TypeOK
<1>2. View /\ View'
  BY InvariantGivesView, NextView
<1>3. \A m \in Keys \ {k} : PendingJobs(m)' = PendingJobs(m) /\ RunningJobs(m)' = RunningJobs(m)
  BY <1>1, OnlyItsKey
<1>. HIDE DEF k
<1>4. PendingJobs(k) = InFront(job[t], lists[k]) /\ RunningJobs(k) = {}
  BY <1>1, <1>2 DEF View, k
<1>5. PendingJobs(k) # <<>> /\ Head(PendingJobs(k)) = job[t] /\ Tail(PendingJobs(k)) = lists[k]
  <2>1. /\ InFront(job[t], lists[k]) # <<>> /\ Head(InFront(job[t], lists[k])) = job[t]
        /\ Tail(InFront(job[t], lists[k])) = lists[k]
    BY <1>1, InFrontFacts
  <2>. QED BY <1>4, <2>1
<1>6. CASE job[t] \notin Unreadable
  <2>1. task'[t] = "awaiting" /\ job'[t] = job[t] /\ UNCHANGED finished
    BY <1>6 DEF ConsumerReadsJob, IInv, TypeOK
  <2>2. PendingJobs(k)' = lists'[k] /\ RunningJobs(k)' = {job'[t]}
    BY <1>1, <1>2, <2>1 DEF View, k, InFront
  <2>3. /\ Pending' = [Pending EXCEPT ![k] = Tail(Pending[k])] /\ Pending[k] # <<>>
        /\ Running' = [Running EXCEPT ![k] = {Head(Pending[k])}] /\ Running[k] = {}
    BY <1>1, <1>3, <1>4, <1>5, <2>1, <2>2, OneKeyChanges
  <2>4. Promise!Start(k)
    BY <2>1, <2>3, <1>1 DEF Promise!Start, Pending, Running
  <2>. QED BY <1>1, <2>4 DEF Promise!Next
<1>7. CASE job[t] \in Unreadable
  <2>1. task'[t] = "calling" /\ job'[t] = None /\ finished' = finished \cup {job[t]}
    BY <1>7 DEF ConsumerReadsJob, IInv, TypeOK
  <2>2. PendingJobs(k)' = lists[k] /\ RunningJobs(k)' = {}
    BY <1>1, <1>2, <2>1 DEF View, k
  <2>3. /\ Pending' = [Pending EXCEPT ![k] = PendingJobs(k)'] /\ Pending[k] = PendingJobs(k)
        /\ Running' = [Running EXCEPT ![k] = RunningJobs(k)'] /\ Running[k] = RunningJobs(k)
    BY <1>1, <1>3, OneKeyChanges
  <2>4. Running' = Running
    BY <1>1, <1>4, <2>2, <2>3 DEF Running
  <2>5. /\ Pending' = [Pending EXCEPT ![k] = Tail(Pending[k])] /\ Pending[k] # <<>>
        /\ Running[k] = {} /\ finished' = finished \cup {Head(Pending[k])}
    BY <1>4, <1>5, <2>1, <2>2, <2>3
  <2>6. Promise!Discard(k)
    BY <2>4, <2>5, <1>1 DEF Promise!Discard, Pending, Running
  <2>. QED BY <1>1, <2>6 DEF Promise!Next
<1>. QED BY <1>6, <1>7

\* The callback ends: the key is idle until the answer of the next BRPOP.
LEMMA CallbackEndsRefines ==
    ASSUME IInv, IInv', NEW t \in Jobs, CallbackEnds(t)
    PROVE  Promise!Next
<1>. USE KeyOfAssumption, NoneAssumption
<1>. DEFINE k == KeyOf[t]
<1>1. /\ task[t] = "awaiting" /\ k \in Keys /\ UNCHANGED lists
      /\ task'[t] = "calling" /\ finished' = finished \cup {job[t]}
      /\ \A u \in Jobs \ {t} : task'[u] = task[u] /\ job'[u] = job[u]
  <2>1. /\ task \in [Jobs -> TaskState] /\ job \in [Jobs -> Jobs \cup {None}] /\ k \in Keys
    BY DEF IInv, TypeOK
  <2>. QED BY <2>1 DEF CallbackEnds
<1>2. View /\ View'
  BY InvariantGivesView, NextView
<1>3. \A m \in Keys \ {k} : PendingJobs(m)' = PendingJobs(m) /\ RunningJobs(m)' = RunningJobs(m)
  BY <1>1, OnlyItsKey
<1>. HIDE DEF k
<1>4. /\ PendingJobs(k) = lists[k] /\ RunningJobs(k) = {job[t]}
      /\ PendingJobs(k)' = lists[k] /\ RunningJobs(k)' = {}
  BY <1>1, <1>2 DEF View, k
<1>5. /\ Pending' = [Pending EXCEPT ![k] = Pending[k]]
      /\ Running' = [Running EXCEPT ![k] = {}] /\ Running[k] = {job[t]}
  BY <1>1, <1>3, <1>4, OneKeyChanges
<1>6. Pending' = Pending
  BY <1>1, <1>5 DEF Pending
<1>7. Promise!Finish(k)
  BY <1>1, <1>5, <1>6 DEF Promise!Finish, Pending, Running
<1>. QED BY <1>1, <1>7 DEF Promise!Next

\* A consumer that fails gives up the job in flight to it, if there is one.
LEMMA BrpopFailsRefines ==
    ASSUME IInv, IInv', NEW t \in Jobs, BrpopFails(t)
    PROVE  [Promise!Next]_(Promise!vars)
<1>. USE KeyOfAssumption, NoneAssumption
<1>. DEFINE k == KeyOf[t]
<1>1. /\ task[t] \in {"calling", "blocked", "popped", "expired"} /\ k \in Keys
      /\ UNCHANGED lists /\ lists[k] \in Seq(Jobs)
      /\ task'[t] = "done" /\ finished' = finished \cup ({job[t]} \ {None})
      /\ \A u \in Jobs \ {t} : task'[u] = task[u] /\ job'[u] = job[u]
  <2>1. /\ task \in [Jobs -> TaskState] /\ job \in [Jobs -> Jobs \cup {None}] /\ k \in Keys
        /\ lists[k] \in Seq(Jobs)
    BY DEF IInv, TypeOK
  <2>. QED BY <2>1 DEF BrpopFails, Leave
<1>2. View /\ View'
  BY InvariantGivesView, NextView
<1>3. \A m \in Keys \ {k} : PendingJobs(m)' = PendingJobs(m) /\ RunningJobs(m)' = RunningJobs(m)
  BY <1>1, OnlyItsKey
<1>4. \A u \in Jobs : KeyOf[u] = k => ~Live(u)'
  <2>1. \A u \in Jobs : KeyOf[u] = k /\ Live(u) => u = t
    BY <1>1 DEF IInv, LiveTasksAreRegistered, Live
  <2>. QED BY <1>1, <2>1 DEF Live
<1>. HIDE DEF k
<1>5. PendingJobs(k)' = lists[k] /\ RunningJobs(k)' = {}
  BY <1>1, <1>2, <1>4 DEF View
<1>6. CASE task[t] = "popped"
  <2>1. /\ PendingJobs(k) = InFront(job[t], lists[k]) /\ RunningJobs(k) = {}
        /\ job[t] \in Jobs
    BY <1>1, <1>2, <1>6 DEF View, k, IInv, TypeOK
  <2>2. /\ InFront(job[t], lists[k]) # <<>> /\ Head(InFront(job[t], lists[k])) = job[t]
        /\ Tail(InFront(job[t], lists[k])) = lists[k]
    BY <1>1, <2>1, InFrontFacts
  <2>3. /\ Pending' = [Pending EXCEPT ![k] = PendingJobs(k)'] /\ Pending[k] = PendingJobs(k)
        /\ Running' = [Running EXCEPT ![k] = RunningJobs(k)'] /\ Running[k] = RunningJobs(k)
    BY <1>1, <1>3, OneKeyChanges
  <2>4. Running' = Running
    BY <1>1, <1>5, <2>1, <2>3 DEF Running
  <2>5. /\ Pending' = [Pending EXCEPT ![k] = Tail(Pending[k])] /\ Pending[k] # <<>>
        /\ Running[k] = {} /\ finished' = finished \cup {Head(Pending[k])}
    BY <1>1, <1>5, <2>1, <2>2, <2>3
  <2>6. Promise!Discard(k)
    BY <2>4, <2>5, <1>1 DEF Promise!Discard, Pending, Running
  <2>. QED BY <1>1, <2>6 DEF Promise!Next
<1>7. CASE task[t] # "popped"
  <2>1. PendingJobs(k) = lists[k] /\ RunningJobs(k) = {}
    BY <1>1, <1>2, <1>7 DEF View, k
  <2>2. finished' = finished
    BY <1>1, <1>7 DEF IInv, TypeOK
  <2>. QED BY <1>3, <1>5, <2>1, <2>2, NothingChanges
<1>. QED BY <1>6, <1>7

\* The other steps of a consumer: what Redis pops is still pending.
LEMMA ConsumingStutters ==
    ASSUME IInv, IInv', NEW t \in Jobs,
           BrpopArrives(t) \/ BrpopExpires(t) \/ ConsumerReadsNil(t)
    PROVE  UNCHANGED Promise!vars
<1>. USE KeyOfAssumption, NoneAssumption
<1>. DEFINE k == KeyOf[t]
<1>1. /\ k \in Keys /\ task \in [Jobs -> TaskState] /\ job \in [Jobs -> Jobs \cup {None}]
      /\ lists \in [Keys -> Seq(Jobs)]
  BY DEF IInv, TypeOK
<1>2. /\ task[t] \in {"calling", "blocked", "expired"} /\ UNCHANGED finished
      /\ \A m \in Keys \ {k} : lists'[m] = lists[m]
      /\ \A u \in Jobs \ {t} : task'[u] = task[u] /\ job'[u] = job[u]
  BY <1>1 DEF BrpopArrives, BrpopExpires, ConsumerReadsNil, Leave
<1>3. View /\ View'
  BY InvariantGivesView, NextView
<1>4. \A m \in Keys \ {k} : PendingJobs(m)' = PendingJobs(m) /\ RunningJobs(m)' = RunningJobs(m)
  BY <1>1, <1>2, OnlyItsKey
<1>. HIDE DEF k
<1>5. PendingJobs(k) = lists[k] /\ RunningJobs(k) = {}
  BY <1>1, <1>2, <1>3 DEF View, k
<1>6. PendingJobs(k)' = lists[k] /\ RunningJobs(k)' = {}
  <2>1. CASE task'[t] \in {"blocked", "expired"} /\ UNCHANGED lists
    BY <1>1, <1>3, <2>1 DEF View, k
  <2>2. CASE /\ task'[t] = "popped" /\ lists[k] # <<>>
             /\ job'[t] = Head(lists[k]) /\ lists'[k] = Tail(lists[k])
    <3>1. PendingJobs(k)' = InFront(job'[t], lists'[k]) /\ RunningJobs(k)' = {}
      BY <1>1, <1>3, <2>2 DEF View, k, InFront
    <3>2. InFront(Head(lists[k]), Tail(lists[k])) = lists[k]
      BY <1>1, <2>2, TailFacts DEF InFront
    <3>. QED BY <2>2, <3>1, <3>2
  <2>3. CASE task'[t] = "done" /\ UNCHANGED lists
    <3>1. \A u \in Jobs : KeyOf[u] = k /\ Live(u) => u = t
      BY <1>2 DEF IInv, LiveTasksAreRegistered, Live, k
    <3>2. \A u \in Jobs : KeyOf[u] = k => ~Live(u)'
      BY <1>2, <2>3, <3>1 DEF Live
    <3>. QED BY <1>1, <1>3, <2>3, <3>2 DEF View
  <2>. QED BY <1>1, <2>1, <2>2, <2>3
       DEF BrpopArrives, BrpopExpires, ConsumerReadsNil, Leave, k
<1>. QED BY <1>1, <1>2, <1>4, <1>5, <1>6, NothingChanges

\* enqueue() before the push, after it, and failing: nothing the promise sees.
LEMMA EnqueuingStutters ==
    ASSUME IInv, IInv', NEW j \in Jobs,
           EnqueueSendsPush(j) \/ EnqueueReturns(j) \/ PushFails(j)
    PROVE  UNCHANGED Promise!vars
<1>. USE KeyOfAssumption, NoneAssumption
<1>1. UNCHANGED <<lists, job, finished>>
  BY DEF EnqueueSendsPush, EnqueueReturns, PushFails
<1>2. CASE UNCHANGED task
  BY <1>1, <1>2, OtherKeys, NothingChanges
<1>3. CASE EnqueueReturns(j) /\ NeedsConsumer(KeyOf[j])
  <2>. DEFINE k == KeyOf[j]
  <2>1. View /\ View'
    BY InvariantGivesView, NextView
  <2>2. /\ k \in Keys /\ task'[j] = "calling" /\ \A u \in Jobs \ {j} : task'[u] = task[u]
    BY <1>3 DEF EnqueueReturns, IInv, TypeOK
  <2>3. \A u \in Jobs : KeyOf[u] = k => ~Live(u)
    BY <1>3 DEF NeedsConsumer, IInv, TypeOK, LiveTasksAreRegistered, Live
  <2>4. \A m \in Keys \ {k} : PendingJobs(m)' = PendingJobs(m) /\ RunningJobs(m)' = RunningJobs(m)
    BY <1>1, <2>2, OnlyItsKey
  <2>. HIDE DEF k
  <2>5. PendingJobs(k) = lists[k] /\ RunningJobs(k) = {}
    BY <2>1, <2>2, <2>3 DEF View
  <2>6. PendingJobs(k)' = lists[k] /\ RunningJobs(k)' = {}
    BY <1>1, <2>1, <2>2 DEF View, k
  <2>. QED BY <1>1, <2>4, <2>5, <2>6, NothingChanges
<1>. QED BY <1>2, <1>3 DEF EnqueueSendsPush, EnqueueReturns, PushFails

\* A restart is a crash: it loses what runs, and what is in flight to consumers.
LEMMA RestartCrashes ==
    ASSUME IInv, IInv', Restart
    PROVE  Promise!Next
<1>. USE KeyOfAssumption, NoneAssumption
<1>. DEFINE K == {k \in Keys : InFlight(k) # {}}
<1>1. View /\ View'
  BY InvariantGivesView, NextView
<1>2. /\ UNCHANGED lists /\ \A t \in Jobs : ~Live(t)'
      /\ finished' = finished \cup ({job[t] : t \in Jobs} \ {None})
  BY DEF Restart, IInv, TypeOK, Live
<1>3. Running' = [k \in Keys |-> {}] /\ Pending' = [k \in Keys |-> lists[k]]
  BY <1>1, <1>2 DEF View, Running, Pending
<1>4. ASSUME NEW k \in Keys, NEW t \in InFlight(k)
      PROVE  /\ t \in Jobs /\ KeyOf[t] = k /\ task[t] = "popped" /\ job[t] \in Jobs
             /\ Running[k] = {} /\ Pending[k] # <<>>
             /\ Head(Pending[k]) = job[t] /\ Tail(Pending[k]) = lists[k]
  <2>1. t \in Jobs /\ KeyOf[t] = k /\ task[t] = "popped"
    BY <1>4 DEF InFlight
  <2>2. Running[k] = {} /\ Pending[k] = InFront(job[t], lists[k])
    BY <1>1, <2>1 DEF View, Pending, Running
  <2>3. job[t] \in Jobs /\ lists[k] \in Seq(Jobs)
    BY <2>1 DEF IInv, TypeOK
  <2>4. /\ InFront(job[t], lists[k]) # <<>> /\ Head(InFront(job[t], lists[k])) = job[t]
        /\ Tail(InFront(job[t], lists[k])) = lists[k]
    BY <2>3, InFrontFacts
  <2>. QED BY <2>1, <2>2, <2>3, <2>4
<1>5. \A k \in K : Running[k] = {} /\ Pending[k] # <<>>
  BY <1>4
<1>6. Pending' = [k \in Keys |-> IF k \in K THEN Tail(Pending[k]) ELSE Pending[k]]
  <2>1. \A k \in Keys \ K : Pending[k] = lists[k]
    BY DEF Pending, PendingJobs
  <2>2. \A k \in K : Tail(Pending[k]) = lists[k]
    BY <1>4
  <2>. QED BY <1>3, <2>1, <2>2
<1>. DEFINE Held == {job[t] : t \in Jobs} \ {None}
            Ran == UNION {Running[k] : k \in Keys}
            Heads == {Head(Pending[k]) : k \in K}
<1>7. Held \subseteq Ran \cup Heads
  <2>1. ASSUME NEW t \in Jobs, job[t] # None
        PROVE  job[t] \in Ran \/ job[t] \in Heads
    <3>1. KeyOf[t] \in Keys /\ task[t] \in {"popped", "awaiting"}
      BY <2>1 DEF IInv, TypeOK
    <3>2. CASE task[t] = "awaiting"
      <4>1. Running[KeyOf[t]] = {job[t]}
        BY <1>1, <3>1, <3>2 DEF View, Running
      <4>2. job[t] \in Ran
        BY <3>1, <4>1
      <4>. QED BY <4>2
    <3>3. CASE task[t] = "popped"
      <4>1. t \in InFlight(KeyOf[t])
        BY <3>3 DEF InFlight
      <4>2. KeyOf[t] \in K /\ Head(Pending[KeyOf[t]]) = job[t]
        BY <1>4, <3>1, <4>1
      <4>3. job[t] \in Heads
        <5>. HIDE DEF K
        <5>. QED BY <4>2, Zenon
      <4>. QED BY <4>3
    <3>. QED BY <3>1, <3>2, <3>3
  <2>. HIDE DEF Ran, Heads
  <2>. QED BY <2>1
<1>8. Ran \subseteq Held
  <2>1. ASSUME NEW k \in Keys, NEW j \in Running[k]
        PROVE  j \in Held
    <3>1. PICK t \in Jobs : task[t] = "awaiting" /\ j = job[t]
      BY <2>1 DEF Running, RunningJobs
    <3>. QED BY <3>1 DEF IInv, TypeOK
  <2>. HIDE DEF Held
  <2>. QED BY <2>1
<1>9. Heads \subseteq Held
  <2>1. ASSUME NEW k \in K
        PROVE  Head(Pending[k]) \in Held
    <3>1. PICK t \in InFlight(k) : TRUE
      BY <2>1
    <3>2. t \in Jobs /\ job[t] \in Jobs /\ Head(Pending[k]) = job[t]
      BY <1>4, <2>1, <3>1
    <3>. QED BY <3>2
  <2>. HIDE DEF Held, K
  <2>. QED BY <2>1, Zenon
<1>10. finished' = finished \cup Ran \cup Heads
  <2>. HIDE DEF Ran, Heads
  <2>1. finished' = finished \cup Held
    BY <1>2
  <2>. HIDE DEF Held
  <2>. QED BY <1>7, <1>8, <1>9, <2>1
<1>11. Promise!Crash(K)
  <2>. HIDE DEF K
  <2>. QED BY <1>3, <1>5, <1>6, <1>10 DEF Promise!Crash, Pending, Running
<1>. QED BY <1>11 DEF Promise!Next

LEMMA StepRefines == IInv /\ IInv' /\ [Next]_vars => [Promise!Next]_(Promise!vars)
<1>. SUFFICES ASSUME IInv, IInv', [Next]_vars
              PROVE  [Promise!Next]_(Promise!vars)
  OBVIOUS
<1>1. ASSUME NEW j \in Jobs, Enqueuing(j)
      PROVE  [Promise!Next]_(Promise!vars)
  BY <1>1, PushAccepts, EnqueuingStutters DEF Enqueuing, Promise!Next
<1>2. ASSUME NEW t \in Jobs, Consuming(t)
      PROVE  [Promise!Next]_(Promise!vars)
  BY <1>2, ReadsJobRefines, ConsumingStutters DEF Consuming
<1>3. ASSUME NEW t \in Jobs, BrpopFails(t) \/ CallbackEnds(t)
      PROVE  [Promise!Next]_(Promise!vars)
  BY <1>3, BrpopFailsRefines, CallbackEndsRefines
<1>4. CASE Restart
  BY <1>4, RestartCrashes
<1>5. CASE UNCHANGED vars
  <2>1. \A m \in Keys : PendingJobs(m)' = PendingJobs(m) /\ RunningJobs(m)' = RunningJobs(m)
    BY <1>5, OtherKeys DEF vars
  <2>. QED BY <1>5, <2>1, NothingChanges DEF vars
<1>. QED BY <1>1, <1>2, <1>3, <1>4, <1>5 DEF Next

\* The Redis queue implements the promise of SerialJobQueue, through round
\* trips, unreadable payloads, errors and restarts.
THEOREM Refinement == Spec => ImplementsPromise
<1>1. Init => Promise!Init
  BY DEF Init, Promise!Init, PendingJobs, RunningJobs, InFlight
<1>. QED
  BY <1>1, StepRefines, Invariance, PTL DEF Spec, ImplementsPromise, Promise!Spec
=============================================================================

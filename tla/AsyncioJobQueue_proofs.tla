----------------------- MODULE AsyncioJobQueue_proofs -----------------------
(***************************************************************************)
(* Proofs about the in-process job queue, for every set of keys and jobs   *)
(* and every bound on cancellations.  The invariant is the conjunction of  *)
(* TypeOK and ConsumerDiscipline; each conjunct needs the others.          *)
(***************************************************************************)
EXTENDS AsyncioJobQueue, TLAPS

IInv == TypeOK /\ ConsumerDiscipline

LEMMA InitIInv == Init => IInv
  BY KeyOfAssumption, NoneAssumption, CancellationsAssumption
  DEF Init, IInv, TypeOK, ConsumerDiscipline, TablesAgree, LiveTasksAreRegistered,
      StartFindsWork, JobsWaitInRegisteredQueues, NamesAreFresh, Live

\* Appending makes a queue non-empty and adds one element, at its end.
LEMMA AppendFacts ==
    ASSUME NEW s \in Seq(Jobs), NEW e \in Jobs
    PROVE  /\ Append(s, e) # <<>>
           /\ \A i \in DOMAIN Append(s, e) :
                Append(s, e)[i] = e \/ (i \in DOMAIN s /\ Append(s, e)[i] = s[i])
  OBVIOUS

\* The head and the elements of the tail of a queue are elements of it.
LEMMA TailFacts ==
    ASSUME NEW s \in Seq(Jobs), s # <<>>
    PROVE  /\ Head(s) \in Jobs /\ Tail(s) \in Seq(Jobs)
           /\ \E i \in DOMAIN s : Head(s) = s[i]
           /\ \A i \in DOMAIN Tail(s) : \E n \in DOMAIN s : Tail(s)[i] = s[n]
<1>1. Head(s) \in Jobs /\ Tail(s) \in Seq(Jobs) /\ 1 \in DOMAIN s /\ Head(s) = s[1]
  OBVIOUS
<1>2. \A i \in DOMAIN Tail(s) : i + 1 \in DOMAIN s /\ Tail(s)[i] = s[i + 1]
  OBVIOUS
<1>. QED BY <1>1, <1>2

-----------------------------------------------------------------------------
(* enqueue()                                                               *)

LEMMA EnqueuePreserves ==
    ASSUME IInv, NEW j \in Jobs, Enqueue(j)
    PROVE  IInv'
<1>. USE KeyOfAssumption, NoneAssumption
<1>. DEFINE k == KeyOf[j]
            q == IF queues[k] = None THEN j ELSE queues[k]
<1>1. /\ k \in Keys /\ q \in Jobs /\ q # None
      /\ KeyOf[j] = k /\ KeyOf[q] = k /\ q \in submitted \cup {j} /\ j \notin submitted
  BY DEF IInv, TypeOK, Enqueue, ConsumerDiscipline, TablesAgree
<1>2. /\ submitted' = submitted \cup {j}
      /\ queues' = [queues EXCEPT ![k] = q]
      /\ items' = [items EXCEPT ![q] = Append(@, j)]
      /\ UNCHANGED <<local, job, finished, cancellations>>
  BY DEF Enqueue
<1>3. /\ consumers' = IF NeedsConsumer(k) THEN [consumers EXCEPT ![k] = j] ELSE consumers
      /\ task' = IF NeedsConsumer(k) THEN [task EXCEPT ![j] = "scheduled"] ELSE task
  BY DEF Enqueue
<1>4. task[j] = "absent" /\ items[j] = <<>>
  BY <1>1 DEF IInv, ConsumerDiscipline, NamesAreFresh
<1>5. /\ items'[q] # <<>>
      /\ \A i \in DOMAIN items'[q] :
            items'[q][i] = j \/ (i \in DOMAIN items[q] /\ items'[q][i] = items[q][i])
      /\ \A p \in Jobs \ {q} : items'[p] = items[p]
  <2>1. items \in [Jobs -> Seq(Jobs)] /\ items[q] \in Seq(Jobs)
    BY <1>1 DEF IInv, TypeOK
  <2>2. items'[q] = Append(items[q], j) /\ \A p \in Jobs \ {q} : items'[p] = items[p]
    BY <1>1, <1>2, <2>1
  <2>3. /\ Append(items[q], j) # <<>>
        /\ \A i \in DOMAIN Append(items[q], j) :
              Append(items[q], j)[i] = j
                \/ (i \in DOMAIN items[q] /\ Append(items[q], j)[i] = items[q][i])
    <3>. HIDE DEF q
    <3>. QED BY <2>1, AppendFacts
  <2>. QED BY <2>2, <2>3, Zenon
<1>6. ~NeedsConsumer(k) => consumers[k] # None /\ Live(consumers[k])
  BY <1>1 DEF NeedsConsumer, IInv, ConsumerDiscipline, TablesAgree
<1>7. \A t \in Jobs : t # j => (task'[t] = task[t] /\ (Live(t))' = Live(t))
  BY <1>3 DEF Live, IInv, TypeOK
<1>8. (queues'[k] = q) /\ (\A m \in Keys \ {k} : queues'[m] = queues[m] /\ consumers'[m] = consumers[m])
  BY <1>1, <1>2, <1>3 DEF IInv, TypeOK
<1>9. queues[k] # None => q = queues[k]
  OBVIOUS
<1>10. NeedsConsumer(k) => consumers'[k] = j /\ task'[j] = "scheduled" /\ (Live(j))'
  BY <1>1, <1>3 DEF IInv, TypeOK, Live
<1>11. queues[k] = None <=> consumers[k] = None
  BY <1>1 DEF IInv, ConsumerDiscipline, TablesAgree
<1>. HIDE DEF k, q
<1>12. TypeOK'
  <2>1. \A t \in Jobs : (job'[t] # None) <=> (task'[t] = "awaiting")
    BY <1>1, <1>2, <1>3, <1>4 DEF IInv, TypeOK
  <2>. QED BY <1>1, <1>2, <1>3, <2>1 DEF IInv, TypeOK
<1>13. TablesAgree'
  <2> SUFFICES ASSUME NEW m \in Keys
               PROVE  (/\ (queues[m] = None) <=> (consumers[m] = None)
                       /\ queues[m] # None => KeyOf[queues[m]] = m /\ queues[m] \in submitted
                       /\ consumers[m] # None =>
                            /\ KeyOf[consumers[m]] = m
                            /\ consumers[m] \in submitted
                            /\ \/ Live(consumers[m])
                               \/ task[consumers[m]] = "done" /\ cancellations > 0)'
    BY DEF TablesAgree
  <2>1. CASE m # k
    <3>1. queues'[m] = queues[m] /\ consumers'[m] = consumers[m]
      BY <1>8, <2>1
    <3>2. /\ (queues[m] = None) <=> (consumers[m] = None)
          /\ queues[m] # None => KeyOf[queues[m]] = m /\ queues[m] \in submitted
          /\ consumers[m] # None =>
                /\ KeyOf[consumers[m]] = m
                /\ consumers[m] \in submitted
                /\ \/ task[consumers[m]] \in {"scheduled", "awaiting"}
                   \/ task[consumers[m]] = "done" /\ cancellations > 0
      BY DEF IInv, ConsumerDiscipline, TablesAgree, Live
    <3>3. consumers[m] # None => task'[consumers[m]] = task[consumers[m]]
      BY <1>1, <1>7, <3>2 DEF IInv, TypeOK
    <3>4. cancellations' = cancellations /\ submitted \subseteq submitted'
      BY <1>2
    <3>5. consumers[m] # None =>
                \/ task'[consumers'[m]] \in {"scheduled", "awaiting"}
                \/ task'[consumers'[m]] = "done" /\ cancellations' > 0
      BY <3>1, <3>2, <3>3, <3>4
    <3>6. consumers'[m] # None =>
                /\ KeyOf[consumers'[m]] = m
                /\ consumers'[m] \in submitted'
      BY <3>1, <3>2, <3>4
    <3>7. /\ (queues'[m] = None) <=> (consumers'[m] = None)
          /\ queues'[m] # None => KeyOf[queues'[m]] = m /\ queues'[m] \in submitted'
      BY <3>1, <3>2, <3>4
    <3>. QED
      BY <3>1, <3>5, <3>6, <3>7 DEF Live
  <2>2. CASE m = k /\ NeedsConsumer(k)
    <3>1. queues'[m] = q /\ consumers'[m] = j /\ task'[j] = "scheduled"
      BY <1>8, <1>10, <2>2
    <3>. QED
      BY <1>1, <1>2, <2>2, <3>1 DEF Live
  <2>3. CASE m = k /\ ~NeedsConsumer(k)
    <3>1. queues'[m] = queues[m] /\ consumers'[m] = consumers[m] /\ task' = task
      BY <1>3, <1>6, <1>8, <1>9, <1>11, <2>3
    <3>. QED
      BY <1>2, <3>1, <2>3 DEF IInv, ConsumerDiscipline, TablesAgree, Live
  <2>. QED BY <2>1, <2>2, <2>3
<1>14. LiveTasksAreRegistered'
  <2> SUFFICES ASSUME NEW t \in Jobs
               PROVE  (/\ Live(t) => consumers[KeyOf[t]] = t
                       /\ task[t] = "awaiting" =>
                            local[t] = queues[KeyOf[t]] /\ job[t] \in submitted)'
    BY DEF LiveTasksAreRegistered
  <2>1. CASE t = j
    <3>1. ~NeedsConsumer(k) => task'[j] = "absent"
      BY <1>3, <1>4
    <3>. QED BY <1>1, <1>10, <2>1, <3>1 DEF Live, k
  <2>2. CASE t # j /\ KeyOf[t] # k
    BY <1>2, <1>7, <1>8, <2>2 DEF IInv, ConsumerDiscipline, LiveTasksAreRegistered
  <2>3. CASE t # j /\ KeyOf[t] = k
    <3>1. Live(t) => consumers[k] = t /\ ~NeedsConsumer(k)
      <4>1. Live(t) => consumers[k] = t
        BY <2>3 DEF IInv, ConsumerDiscipline, LiveTasksAreRegistered
      <4>. QED BY <4>1 DEF NeedsConsumer, Live
    <3>2. Live(t) => consumers'[k] = t /\ queues'[k] = queues[k]
      BY <1>3, <1>8, <1>9, <1>11, <3>1
    <3>3. task[t] = "awaiting" => Live(t)
      BY DEF Live
    <3>. QED
      BY <1>2, <1>7, <2>3, <3>2, <3>3 DEF IInv, ConsumerDiscipline, LiveTasksAreRegistered
  <2>. QED BY <2>1, <2>2, <2>3
<1>15. StartFindsWork'
  <2> SUFFICES ASSUME NEW t \in Jobs, task'[t] = "scheduled"
               PROVE  queues'[KeyOf[t]] # None /\ items'[queues'[KeyOf[t]]] # <<>>
    BY DEF StartFindsWork
  <2>1. CASE KeyOf[t] = k
    BY <1>1, <1>5, <1>8, <2>1
  <2>2. CASE KeyOf[t] # k
    <3>1. t # j /\ task[t] = "scheduled"
      BY <1>7, <2>2 DEF k
    <3>2. queues[KeyOf[t]] # None /\ items[queues[KeyOf[t]]] # <<>>
      BY <3>1 DEF IInv, ConsumerDiscipline, StartFindsWork
    <3>3. queues'[KeyOf[t]] = queues[KeyOf[t]] /\ KeyOf[t] \in Keys
      BY <1>8, <2>2
    <3>4. queues[KeyOf[t]] \in Jobs /\ KeyOf[queues[KeyOf[t]]] = KeyOf[t]
      BY <3>2, <3>3 DEF IInv, TypeOK, ConsumerDiscipline, TablesAgree
    <3>5. queues[KeyOf[t]] # q
      BY <1>1, <2>2, <3>4
    <3>. QED BY <1>5, <3>2, <3>3, <3>4, <3>5
  <2>. QED BY <2>1, <2>2
<1>16. JobsWaitInRegisteredQueues'
  <2>1. ASSUME NEW p \in Jobs, items'[p] # <<>>
        PROVE  queues'[KeyOf[p]] = p
    <3>1. CASE p = q
      BY <1>1, <1>8, <3>1
    <3>2. CASE p # q
      <4>1. items[p] # <<>> /\ queues[KeyOf[p]] = p
        BY <1>5, <2>1, <3>2 DEF IInv, ConsumerDiscipline, JobsWaitInRegisteredQueues
      <4>2. KeyOf[p] # k
        BY <1>9, <3>2, <4>1, NoneAssumption DEF q
      <4>. QED BY <1>8, <4>1, <4>2
    <3>. QED BY <3>1, <3>2
  <2>2. ASSUME NEW p \in Jobs, NEW i \in DOMAIN items'[p]
        PROVE  items'[p][i] \in submitted'
    BY <1>2, <1>5 DEF IInv, ConsumerDiscipline, JobsWaitInRegisteredQueues
  <2>. QED
    BY <1>2, <2>1, <2>2 DEF IInv, ConsumerDiscipline, JobsWaitInRegisteredQueues
<1>17. NamesAreFresh'
  <2> SUFFICES ASSUME NEW i \in Jobs, i \notin submitted, i # j
               PROVE  task'[i] = "absent" /\ items'[i] = <<>>
    BY <1>2 DEF NamesAreFresh
  <2>1. i # q
    BY <1>1
  <2>. QED
    BY <1>5, <1>7, <2>1 DEF IInv, ConsumerDiscipline, NamesAreFresh
<1>. QED BY <1>12, <1>13, <1>14, <1>15, <1>16, <1>17 DEF IInv, ConsumerDiscipline

-----------------------------------------------------------------------------
(* _consume()                                                              *)

\* Two live tasks of one key are the same task.
LEMMA OneLiveTaskPerKey ==
    ASSUME IInv, NEW s \in Jobs, NEW t \in Jobs, Live(s), Live(t), KeyOf[s] = KeyOf[t]
    PROVE  s = t
  BY DEF IInv, ConsumerDiscipline, LiveTasksAreRegistered

\* The registered consumer of a key takes a job from the registered queue.
LEMMA TakePreserves ==
    ASSUME IInv, NEW t \in Jobs, NEW q \in Jobs,
           Live(t), queues[KeyOf[t]] = q, TakeJob(t, q),
           local' \in [Jobs -> Jobs \cup {None}],
           local'[t] = q, \A u \in Jobs \ {t} : local'[u] = local[u],
           finished' \subseteq submitted, UNCHANGED <<submitted, cancellations>>
    PROVE  IInv'
<1>. USE KeyOfAssumption, NoneAssumption
<1>1. /\ items[q] # <<>> /\ items[q] \in Seq(Jobs) /\ UNCHANGED <<queues, consumers>>
      /\ job' = [job EXCEPT ![t] = Head(items[q])]
      /\ items' = [items EXCEPT ![q] = Tail(@)]
      /\ task' = [task EXCEPT ![t] = "awaiting"]
  BY DEF TakeJob, tables, IInv, TypeOK
<1>2. /\ Head(items[q]) \in Jobs /\ Tail(items[q]) \in Seq(Jobs)
      /\ \E i \in DOMAIN items[q] : Head(items[q]) = items[q][i]
      /\ \A i \in DOMAIN Tail(items[q]) : \E n \in DOMAIN items[q] : Tail(items[q])[i] = items[q][n]
  BY <1>1, TailFacts
<1>3. /\ items'[q] = Tail(items[q]) /\ \A p \in Jobs \ {q} : items'[p] = items[p]
      /\ job'[t] = Head(items[q]) /\ \A u \in Jobs \ {t} : job'[u] = job[u]
      /\ task'[t] = "awaiting" /\ \A u \in Jobs \ {t} : task'[u] = task[u]
  BY <1>1 DEF IInv, TypeOK
<1>4. \A u \in Jobs : Live(u)' <=> Live(u)
  BY <1>3 DEF Live
<1>5. Head(items[q]) \in submitted
  BY <1>2 DEF IInv, ConsumerDiscipline, JobsWaitInRegisteredQueues
<1>6. KeyOf[t] \in Keys /\ KeyOf[q] = KeyOf[t] /\ t \in submitted /\ q \in submitted
      /\ consumers[KeyOf[t]] = t
  BY DEF IInv, TypeOK, ConsumerDiscipline, TablesAgree, LiveTasksAreRegistered
<1>7. TypeOK'
  BY <1>1, <1>2 DEF IInv, TypeOK
<1>8. TablesAgree'
  <2>1. ASSUME NEW k \in Keys, consumers[k] # None
        PROVE  (Live(consumers[k]) \/ (task[consumers[k]] = "done" /\ cancellations > 0))'
    <3>1. consumers[k] \in Jobs /\ consumers'[k] = consumers[k]
      BY <1>1, <2>1 DEF IInv, TypeOK
    <3>2. Live(consumers[k]) \/ (task[consumers[k]] = "done" /\ cancellations > 0)
      BY <2>1 DEF IInv, ConsumerDiscipline, TablesAgree
    <3>3. CASE Live(consumers[k])
      BY <1>4, <3>1, <3>3 DEF Live
    <3>4. CASE task[consumers[k]] = "done" /\ cancellations > 0
      <4>1. consumers[k] # t
        BY <3>4 DEF Live
      <4>. QED BY <1>3, <3>1, <3>4, <4>1
    <3>. QED BY <3>2, <3>3, <3>4
  <2>. QED
    BY <1>1, <2>1 DEF IInv, ConsumerDiscipline, TablesAgree
<1>9. LiveTasksAreRegistered'
  <2>1. ASSUME NEW u \in Jobs, task'[u] = "awaiting"
        PROVE  local'[u] = queues'[KeyOf[u]] /\ job'[u] \in submitted'
    <3>1. CASE u = t
      BY <1>1, <1>3, <1>5, <3>1
    <3>2. CASE u # t
      BY <1>1, <1>3, <2>1, <3>2 DEF IInv, ConsumerDiscipline, LiveTasksAreRegistered
    <3>. QED BY <3>1, <3>2
  <2>. QED
    BY <1>1, <1>4, <2>1 DEF IInv, ConsumerDiscipline, LiveTasksAreRegistered
<1>10. StartFindsWork'
  <2> SUFFICES ASSUME NEW u \in Jobs, task'[u] = "scheduled"
               PROVE  queues'[KeyOf[u]] # None /\ items'[queues'[KeyOf[u]]] # <<>>
    BY DEF StartFindsWork
  <2>1. u # t /\ task[u] = "scheduled"
    BY <1>3
  <2>2. KeyOf[u] # KeyOf[t]
    BY <2>1, OneLiveTaskPerKey DEF Live
  <2>3. queues[KeyOf[u]] # None /\ items[queues[KeyOf[u]]] # <<>>
    BY <2>1 DEF IInv, ConsumerDiscipline, StartFindsWork
  <2>4. queues[KeyOf[u]] \in Jobs /\ queues[KeyOf[u]] # q
    BY <1>6, <2>2, <2>3 DEF IInv, TypeOK, ConsumerDiscipline, TablesAgree
  <2>. QED BY <1>1, <1>3, <2>3, <2>4
<1>11. JobsWaitInRegisteredQueues'
  <2>1. \A p \in Jobs : items'[p] # <<>> => queues'[KeyOf[p]] = p
    BY <1>1, <1>3, <1>6 DEF IInv, ConsumerDiscipline, JobsWaitInRegisteredQueues
  <2>2. ASSUME NEW p \in Jobs, NEW i \in DOMAIN items'[p]
        PROVE  items'[p][i] \in submitted'
    <3>1. \A n \in DOMAIN items[p] : items[p][n] \in submitted
      BY DEF IInv, ConsumerDiscipline, JobsWaitInRegisteredQueues
    <3>2. CASE p = q
      <4>1. i \in DOMAIN Tail(items[q]) /\ items'[p][i] = Tail(items[q])[i]
        BY <1>3, <2>2, <3>2
      <4>2. PICK n \in DOMAIN items[q] : Tail(items[q])[i] = items[q][n]
        BY <1>2, <4>1
      <4>. QED BY <1>1, <3>1, <3>2, <4>1, <4>2
    <3>3. CASE p # q
      BY <1>3, <2>2, <3>1, <3>3
    <3>. QED BY <3>2, <3>3
  <2>. QED BY <2>1, <2>2 DEF JobsWaitInRegisteredQueues
<1>12. NamesAreFresh'
  BY <1>3, <1>6 DEF IInv, ConsumerDiscipline, NamesAreFresh
<1>. QED BY <1>7, <1>8, <1>9, <1>10, <1>11, <1>12 DEF IInv, ConsumerDiscipline

\* The consumer of a drained queue leaves both tables.
LEMMA RetirePreserves ==
    ASSUME IInv, NEW t \in Jobs, task[t] = "awaiting", Retire(t, local[t]),
           finished' \subseteq submitted, UNCHANGED <<local, submitted, cancellations>>
    PROVE  IInv'
<1>. USE KeyOfAssumption, NoneAssumption
<1>. DEFINE k == KeyOf[t]
<1>1. /\ k \in Keys /\ KeyOf[t] = k
      /\ consumers[k] = t /\ local[t] = queues[k] /\ t \in submitted
  BY DEF IInv, TypeOK, ConsumerDiscipline, TablesAgree, LiveTasksAreRegistered, Live
<1>2. queues[k] \in Jobs /\ items[queues[k]] = <<>> /\ UNCHANGED items
  BY <1>1 DEF Retire, IInv, TypeOK, ConsumerDiscipline, TablesAgree
<1>3. /\ queues' = [queues EXCEPT ![k] = None]
      /\ consumers' = [consumers EXCEPT ![k] = None]
      /\ task' = [task EXCEPT ![t] = "done"]
      /\ job' = [job EXCEPT ![t] = None]
  BY DEF Retire
<1>. HIDE DEF k
<1>4. /\ queues'[k] = None /\ consumers'[k] = None
      /\ \A m \in Keys \ {k} : queues'[m] = queues[m] /\ consumers'[m] = consumers[m]
      /\ task'[t] = "done" /\ \A u \in Jobs \ {t} : task'[u] = task[u] /\ job'[u] = job[u]
  BY <1>1, <1>3 DEF IInv, TypeOK
<1>5. ASSUME NEW u \in Jobs, u # t, Live(u)
      PROVE  KeyOf[u] # k
  BY <1>1, <1>5, OneLiveTaskPerKey DEF Live
<1>6. TypeOK'
  BY <1>2, <1>3 DEF IInv, TypeOK
<1>7. TablesAgree'
  <2> SUFFICES ASSUME NEW m \in Keys, m # k
               PROVE  (/\ (queues[m] = None) <=> (consumers[m] = None)
                       /\ queues[m] # None => KeyOf[queues[m]] = m /\ queues[m] \in submitted
                       /\ consumers[m] # None =>
                            /\ KeyOf[consumers[m]] = m
                            /\ consumers[m] \in submitted
                            /\ \/ Live(consumers[m])
                               \/ task[consumers[m]] = "done" /\ cancellations > 0)'
    BY <1>4 DEF TablesAgree
  <2>1. consumers[m] # None => consumers[m] \in Jobs /\ consumers[m] # t
    BY <1>1 DEF IInv, TypeOK, ConsumerDiscipline, TablesAgree
  <2>2. consumers[m] # None => task'[consumers[m]] = task[consumers[m]]
    BY <1>4, <2>1
  <2>3. queues'[m] = queues[m] /\ consumers'[m] = consumers[m]
    BY <1>4
  <2>. QED
    BY <2>1, <2>2, <2>3 DEF IInv, ConsumerDiscipline, TablesAgree, Live
<1>8. LiveTasksAreRegistered'
  <2> SUFFICES ASSUME NEW u \in Jobs, Live(u)'
               PROVE  (/\ consumers[KeyOf[u]] = u
                       /\ task[u] = "awaiting" =>
                            local[u] = queues[KeyOf[u]] /\ job[u] \in submitted)'
    BY DEF LiveTasksAreRegistered, Live
  <2>1. u # t /\ Live(u)
    BY <1>4 DEF Live
  <2>2. KeyOf[u] \in Keys \ {k}
    BY <1>5, <2>1
  <2>. QED
    BY <1>4, <2>1, <2>2 DEF IInv, ConsumerDiscipline, LiveTasksAreRegistered
<1>9. StartFindsWork'
  <2> SUFFICES ASSUME NEW u \in Jobs, task'[u] = "scheduled"
               PROVE  queues'[KeyOf[u]] # None /\ items'[queues'[KeyOf[u]]] # <<>>
    BY DEF StartFindsWork
  <2>1. u # t /\ task[u] = "scheduled"
    BY <1>4
  <2>2. KeyOf[u] \in Keys \ {k}
    BY <1>5, <2>1 DEF Live
  <2>. QED
    BY <1>2, <1>4, <2>1, <2>2 DEF IInv, ConsumerDiscipline, StartFindsWork
<1>10. JobsWaitInRegisteredQueues'
  <2>1. ASSUME NEW p \in Jobs, items'[p] # <<>>
        PROVE  queues'[KeyOf[p]] = p
    <3>1. queues[KeyOf[p]] = p /\ items[p] # <<>>
      BY <1>2, <2>1 DEF IInv, ConsumerDiscipline, JobsWaitInRegisteredQueues
    <3>2. KeyOf[p] \in Keys \ {k}
      BY <1>2, <3>1
    <3>. QED BY <1>4, <3>1, <3>2
  <2>. QED
    BY <1>2, <2>1 DEF IInv, ConsumerDiscipline, JobsWaitInRegisteredQueues
<1>11. NamesAreFresh'
  BY <1>1, <1>2, <1>4 DEF IInv, ConsumerDiscipline, NamesAreFresh
<1>. QED BY <1>6, <1>7, <1>8, <1>9, <1>10, <1>11 DEF IInv, ConsumerDiscipline

\* A cancelled consumer leaves both entries behind, registered but done.
LEMMA CancelPreserves ==
    ASSUME IInv, NEW t \in Jobs, CallbackCancelled(t)
    PROVE  IInv'
<1>. USE KeyOfAssumption, NoneAssumption
<1>1. /\ task[t] = "awaiting" /\ cancellations' = cancellations + 1
      /\ finished' = finished \cup {job[t]}
      /\ task' = [task EXCEPT ![t] = "done"]
      /\ job' = [job EXCEPT ![t] = None]
      /\ UNCHANGED <<queues, consumers, items, local, submitted>>
  BY DEF CallbackCancelled
<1>2. job[t] \in submitted /\ cancellations' > 0 /\ cancellations' \in Nat /\ t \in submitted
  BY <1>1 DEF IInv, TypeOK, ConsumerDiscipline, LiveTasksAreRegistered, TablesAgree, Live
<1>3. /\ task'[t] = "done"
      /\ \A u \in Jobs \ {t} : task'[u] = task[u] /\ job'[u] = job[u]
  BY <1>1 DEF IInv, TypeOK
<1>4. TypeOK'
  BY <1>1, <1>2 DEF IInv, TypeOK
<1>5. TablesAgree'
  <2>1. ASSUME NEW k \in Keys, consumers[k] # None
        PROVE  (Live(consumers[k]) \/ (task[consumers[k]] = "done" /\ cancellations > 0))'
    BY <1>1, <1>2, <1>3, <2>1 DEF IInv, TypeOK, ConsumerDiscipline, TablesAgree, Live
  <2>. QED
    BY <1>1, <2>1 DEF IInv, ConsumerDiscipline, TablesAgree
<1>6. LiveTasksAreRegistered'
  BY <1>1, <1>3 DEF IInv, ConsumerDiscipline, LiveTasksAreRegistered, Live
<1>7. StartFindsWork'
  BY <1>1, <1>3 DEF IInv, ConsumerDiscipline, StartFindsWork
<1>8. JobsWaitInRegisteredQueues'
  BY <1>1, <1>2 DEF IInv, ConsumerDiscipline, JobsWaitInRegisteredQueues
<1>9. NamesAreFresh'
  BY <1>1, <1>2, <1>3 DEF IInv, ConsumerDiscipline, NamesAreFresh
<1>. QED BY <1>4, <1>5, <1>6, <1>7, <1>8, <1>9 DEF IInv, ConsumerDiscipline

-----------------------------------------------------------------------------
(* Theorems.                                                               *)

LEMMA StepPreserves == IInv /\ [Next]_vars => IInv'
<1>. SUFFICES ASSUME IInv, [Next]_vars
              PROVE  IInv'
  OBVIOUS
<1>1. ASSUME NEW j \in Jobs, Enqueue(j)
      PROVE  IInv'
  BY <1>1, EnqueuePreserves
<1>2. ASSUME NEW t \in Jobs, ConsumerStarts(t)
      PROVE  IInv'
  <2>1. /\ queues[KeyOf[t]] \in Jobs /\ Live(t) /\ TakeJob(t, queues[KeyOf[t]])
        /\ local' = [local EXCEPT ![t] = queues[KeyOf[t]]]
        /\ UNCHANGED <<submitted, finished, cancellations>>
    BY <1>2, KeyOfAssumption DEF ConsumerStarts, Live, IInv, TypeOK
  <2>2. /\ local' \in [Jobs -> Jobs \cup {None}] /\ local'[t] = queues[KeyOf[t]]
        /\ \A u \in Jobs \ {t} : local'[u] = local[u]
        /\ finished' \subseteq submitted
    BY <2>1 DEF IInv, TypeOK, ConsumerDiscipline, JobsWaitInRegisteredQueues
  <2>. QED BY <2>1, <2>2, TakePreserves
<1>3. ASSUME NEW t \in Jobs, CallbackEnds(t)
      PROVE  IInv'
  <2>1. /\ task[t] = "awaiting" /\ finished' = finished \cup {job[t]}
        /\ UNCHANGED <<local, submitted, cancellations>>
    BY <1>3 DEF CallbackEnds
  <2>2. /\ Live(t) /\ local[t] = queues[KeyOf[t]] /\ local[t] \in Jobs
        /\ finished' \subseteq submitted
    BY <2>1, KeyOfAssumption
    DEF Live, IInv, TypeOK, ConsumerDiscipline, TablesAgree, LiveTasksAreRegistered,
        JobsWaitInRegisteredQueues
  <2>3. CASE TakeJob(t, local[t])
    <3>1. local' \in [Jobs -> Jobs \cup {None}] /\ local' = local
      BY <2>1 DEF IInv, TypeOK
    <3>. QED BY <2>1, <2>2, <2>3, <3>1, TakePreserves
  <2>4. CASE Retire(t, local[t])
    BY <2>1, <2>2, <2>4, RetirePreserves
  <2>. QED BY <1>3, <2>3, <2>4 DEF CallbackEnds
<1>4. ASSUME NEW t \in Jobs, CallbackCancelled(t)
      PROVE  IInv'
  BY <1>4, CancelPreserves
<1>5. CASE UNCHANGED vars
  BY <1>5 DEF vars, IInv, TypeOK, ConsumerDiscipline, TablesAgree, LiveTasksAreRegistered,
              StartFindsWork, JobsWaitInRegisteredQueues, NamesAreFresh, Live
<1>. QED BY <1>1, <1>2, <1>3, <1>4, <1>5 DEF Next

LEMMA Invariance == Spec => []IInv
  BY InitIInv, StepPreserves, PTL DEF Spec

\* Every variable of the queue keeps its type, and a task holds a job exactly
\* while it is inside the callback.
THEOREM TypeCorrect == Spec => []TypeOK
  BY Invariance, PTL DEF IInv

\* The bookkeeping of _queues and _consumers is never torn.
THEOREM Discipline == Spec => []ConsumerDiscipline
  BY Invariance, PTL DEF IInv

\* Jobs for the same pull request run one at a time, for any number of keys,
\* jobs and cancelled callbacks.
THEOREM SerialExecution == Spec => []SerialPerKey
<1>1. IInv => SerialPerKey
  BY OneLiveTaskPerKey DEF SerialPerKey, Live
<1>. QED BY <1>1, Invariance, PTL

\* No job is left in a queue that nobody reads or will read.
THEOREM NoOrphans == Spec => []NoOrphanQueue
<1>1. IInv => NoOrphanQueue
  <2> SUFFICES ASSUME IInv, NEW q \in Jobs, items[q] # <<>>
               PROVE  /\ queues[KeyOf[q]] = q
                      /\ consumers[KeyOf[q]] # None
                      /\ \/ task[consumers[KeyOf[q]]] = "scheduled"
                         \/ (task[consumers[KeyOf[q]]] = "awaiting" /\ local[consumers[KeyOf[q]]] = q)
                         \/ (task[consumers[KeyOf[q]]] = "done" /\ cancellations > 0)
    BY DEF NoOrphanQueue
  <2>. DEFINE k == KeyOf[q]
              t == consumers[k]
  <2>1. queues[k] = q /\ k \in Keys /\ q # None
    BY KeyOfAssumption, NoneAssumption DEF IInv, ConsumerDiscipline, JobsWaitInRegisteredQueues
  <2>2. /\ t # None /\ t \in Jobs /\ KeyOf[t] = k
        /\ Live(t) \/ (task[t] = "done" /\ cancellations > 0)
    BY <2>1 DEF IInv, TypeOK, ConsumerDiscipline, TablesAgree
  <2>3. task[t] = "awaiting" => local[t] = q
    BY <2>1, <2>2 DEF IInv, ConsumerDiscipline, LiveTasksAreRegistered
  <2>. QED BY <2>1, <2>2, <2>3 DEF Live
<1>. QED BY <1>1, Invariance, PTL

-----------------------------------------------------------------------------
(* Where a job is.                                                         *)

\* A queue object holds jobs of its key, and a consumer works for its own key.
QueuesHoldTheirKey == \A q \in Jobs : \A i \in DOMAIN items[q] : KeyOf[items[q][i]] = KeyOf[q]
TasksHoldTheirKey == \A t \in Jobs : job[t] # None => KeyOf[job[t]] = KeyOf[t]

\* A job that waits does so once, and neither runs nor has run.
WaitsOnce ==
    \A q \in Jobs : \A i \in DOMAIN items[q] :
        /\ items[q][i] \notin finished
        /\ \A t \in Jobs : job[t] # items[q][i]
        /\ \A n \in DOMAIN items[q] : items[q][n] = items[q][i] => n = i

HeldJobsAreUnfinished == \A t \in Jobs : job[t] \notin finished

Places ==
    /\ QueuesHoldTheirKey
    /\ TasksHoldTheirKey
    /\ WaitsOnce
    /\ HeldJobsAreUnfinished

LEMMA InitPlaces == Init => Places
  BY NoneAssumption
  DEF Init, Places, QueuesHoldTheirKey, TasksHoldTheirKey, WaitsOnce, HeldJobsAreUnfinished

\* No two tasks hold the same job.
LEMMA HeldOnce ==
    ASSUME IInv, Places, NEW t \in Jobs, NEW u \in Jobs, job[t] # None, job[t] = job[u]
    PROVE  t = u
<1>1. Live(t) /\ Live(u)
  BY DEF IInv, TypeOK, Live
<1>2. KeyOf[t] = KeyOf[u]
  BY DEF Places, TasksHoldTheirKey
<1>. QED BY <1>1, <1>2, OneLiveTaskPerKey

\* A job that was never submitted is nowhere.
LEMMA UnsubmittedJobsAreNowhere ==
    ASSUME IInv, NEW j \in Jobs, j \notin submitted
    PROVE  /\ j \notin finished /\ \A t \in Jobs : job[t] # j
           /\ \A q \in Jobs : \A i \in DOMAIN items[q] : items[q][i] # j
<1>1. \A t \in Jobs : job[t] # None => job[t] \in submitted
  BY DEF IInv, TypeOK, ConsumerDiscipline, LiveTasksAreRegistered
<1>. QED BY <1>1, NoneAssumption DEF IInv, ConsumerDiscipline, JobsWaitInRegisteredQueues

LEMMA EnqueueKeepsPlaces ==
    ASSUME IInv, Places, NEW j \in Jobs, Enqueue(j)
    PROVE  Places'
<1>. USE KeyOfAssumption, NoneAssumption
<1>. DEFINE q == IF queues[KeyOf[j]] = None THEN j ELSE queues[KeyOf[j]]
<1>1. /\ items' = [items EXCEPT ![q] = Append(@, j)] /\ UNCHANGED <<job, finished>>
      /\ j \notin submitted
  BY DEF Enqueue
<1>2. q \in Jobs /\ KeyOf[q] = KeyOf[j] /\ items[q] \in Seq(Jobs)
  BY DEF IInv, TypeOK, ConsumerDiscipline, TablesAgree
<1>. HIDE DEF q
<1>3. items'[q] = Append(items[q], j) /\ \A p \in Jobs \ {q} : items'[p] = items[p]
  BY <1>1, <1>2 DEF IInv, TypeOK
<1>4. \A i \in DOMAIN items'[q] :
         \/ i = Len(items[q]) + 1 /\ items'[q][i] = j
         \/ i \in DOMAIN items[q] /\ items'[q][i] = items[q][i]
  BY <1>2, <1>3
<1>5. /\ j \notin finished /\ \A t \in Jobs : job[t] # j
      /\ \A p \in Jobs : \A i \in DOMAIN items[p] : items[p][i] # j
  BY <1>1, UnsubmittedJobsAreNowhere
<1>6. QueuesHoldTheirKey'
  <2>1. ASSUME NEW i \in DOMAIN items'[q]
        PROVE  KeyOf[items'[q][i]] = KeyOf[q]
    BY <1>2, <1>4 DEF Places, QueuesHoldTheirKey
  <2>2. ASSUME NEW p \in Jobs, p # q, NEW i \in DOMAIN items'[p]
        PROVE  KeyOf[items'[p][i]] = KeyOf[p]
    BY <1>3, <2>2 DEF Places, QueuesHoldTheirKey
  <2>. QED BY <2>1, <2>2 DEF QueuesHoldTheirKey
<1>7. WaitsOnce'
  <2>1. ASSUME NEW i \in DOMAIN items'[q]
        PROVE  /\ items'[q][i] \notin finished' /\ \A t \in Jobs : job'[t] # items'[q][i]
               /\ \A n \in DOMAIN items'[q] : items'[q][n] = items'[q][i] => n = i
    BY <1>1, <1>2, <1>4, <1>5 DEF Places, WaitsOnce
  <2>2. ASSUME NEW p \in Jobs, p # q, NEW i \in DOMAIN items'[p]
        PROVE  /\ items'[p][i] \notin finished' /\ \A t \in Jobs : job'[t] # items'[p][i]
               /\ \A n \in DOMAIN items'[p] : items'[p][n] = items'[p][i] => n = i
    BY <1>1, <1>3, <2>2 DEF Places, WaitsOnce
  <2>. QED BY <2>1, <2>2 DEF WaitsOnce
<1>8. TasksHoldTheirKey' /\ HeldJobsAreUnfinished'
  BY <1>1 DEF Places, TasksHoldTheirKey, HeldJobsAreUnfinished
<1>. QED BY <1>6, <1>7, <1>8 DEF Places

\* The elements of a queue behind its head keep their order.
LEMMA TailShifts ==
    ASSUME NEW s \in Seq(Jobs), s # <<>>
    PROVE  /\ \A i \in DOMAIN Tail(s) : i + 1 \in DOMAIN s /\ i + 1 # 1 /\ Tail(s)[i] = s[i + 1]
           /\ \A i, n \in DOMAIN Tail(s) : i + 1 = n + 1 => i = n
           /\ 1 \in DOMAIN s
  OBVIOUS

\* The next job of a queue passes from it to the consumer of its key, and the
\* job the consumer held, if any, is finished.
LEMMA TakeKeepsPlaces ==
    ASSUME IInv, Places, NEW t \in Jobs, NEW q \in Jobs, queues[KeyOf[t]] = q, TakeJob(t, q),
           finished' = finished \cup ({job[t]} \ {None})
    PROVE  Places'
<1>. USE KeyOfAssumption, NoneAssumption
<1>1. /\ items[q] # <<>> /\ items[q] \in Seq(Jobs)
      /\ job' = [job EXCEPT ![t] = Head(items[q])]
      /\ items' = [items EXCEPT ![q] = Tail(@)]
  BY DEF TakeJob, IInv, TypeOK
<1>2. KeyOf[q] = KeyOf[t]
  BY DEF IInv, TypeOK, ConsumerDiscipline, TablesAgree
<1>3. /\ items'[q] = Tail(items[q]) /\ \A p \in Jobs \ {q} : items'[p] = items[p]
      /\ job'[t] = items[q][1] /\ \A u \in Jobs \ {t} : job'[u] = job[u]
      /\ finished \subseteq Jobs
  BY <1>1 DEF IInv, TypeOK
<1>4. /\ \A i \in DOMAIN items'[q] :
            i + 1 \in DOMAIN items[q] /\ i + 1 # 1 /\ items'[q][i] = items[q][i + 1]
      /\ \A i, n \in DOMAIN items'[q] : i + 1 = n + 1 => i = n
      /\ 1 \in DOMAIN items[q]
  <2>. DEFINE s == items[q]
  <2>1. s \in Seq(Jobs) /\ s # <<>>
    BY <1>1
  <2>. HIDE DEF s
  <2>2. /\ \A i \in DOMAIN Tail(s) : i + 1 \in DOMAIN s /\ i + 1 # 1 /\ Tail(s)[i] = s[i + 1]
        /\ \A i, n \in DOMAIN Tail(s) : i + 1 = n + 1 => i = n
        /\ 1 \in DOMAIN s
    BY <2>1, TailShifts
  <2>. QED BY <1>3, <2>2 DEF s
<1>5. /\ items[q][1] \notin finished /\ \A u \in Jobs : job[u] # items[q][1]
      /\ \A n \in DOMAIN items[q] : items[q][n] = items[q][1] => n = 1
      /\ KeyOf[items[q][1]] = KeyOf[q]
  BY <1>4 DEF Places, WaitsOnce, QueuesHoldTheirKey
<1>6. \A p \in Jobs \ {q} : \A i \in DOMAIN items[p] : items[p][i] # items[q][1]
  <2> SUFFICES ASSUME NEW p \in Jobs \ {q}, NEW i \in DOMAIN items[p], items[p][i] = items[q][1]
               PROVE  FALSE
    OBVIOUS
  <2>1. KeyOf[p] = KeyOf[q]
    BY <1>5 DEF Places, QueuesHoldTheirKey
  <2>2. items[p] # <<>>
    OBVIOUS
  <2>. QED BY <1>2, <2>1, <2>2 DEF IInv, ConsumerDiscipline, JobsWaitInRegisteredQueues
<1>7. QueuesHoldTheirKey'
  <2>1. ASSUME NEW i \in DOMAIN items'[q]
        PROVE  KeyOf[items'[q][i]] = KeyOf[q]
    BY <1>4 DEF Places, QueuesHoldTheirKey
  <2>2. ASSUME NEW p \in Jobs, p # q, NEW i \in DOMAIN items'[p]
        PROVE  KeyOf[items'[p][i]] = KeyOf[p]
    BY <1>3, <2>2 DEF Places, QueuesHoldTheirKey
  <2>. QED BY <2>1, <2>2 DEF QueuesHoldTheirKey
<1>8. TasksHoldTheirKey'
  BY <1>2, <1>3, <1>5 DEF Places, TasksHoldTheirKey
<1>9. WaitsOnce'
  <2>1. ASSUME NEW i \in DOMAIN items'[q]
        PROVE  /\ items'[q][i] \notin finished' /\ \A u \in Jobs : job'[u] # items'[q][i]
               /\ \A n \in DOMAIN items'[q] : items'[q][n] = items'[q][i] => n = i
    <3>1. i + 1 \in DOMAIN items[q] /\ i + 1 # 1 /\ items'[q][i] = items[q][i + 1]
      BY <1>4, <2>1
    <3>2. /\ items[q][i + 1] \notin finished /\ \A u \in Jobs : job[u] # items[q][i + 1]
          /\ \A n \in DOMAIN items[q] : items[q][n] = items[q][i + 1] => n = i + 1
      BY <3>1 DEF Places, WaitsOnce
    <3>3. items[q][i + 1] # items[q][1]
      BY <1>5, <3>1
    <3>. QED BY <1>3, <1>4, <2>1, <3>1, <3>2, <3>3
  <2>2. ASSUME NEW p \in Jobs, p # q, NEW i \in DOMAIN items'[p]
        PROVE  /\ items'[p][i] \notin finished' /\ \A u \in Jobs : job'[u] # items'[p][i]
               /\ \A n \in DOMAIN items'[p] : items'[p][n] = items'[p][i] => n = i
    BY <1>3, <1>6, <2>2 DEF Places, WaitsOnce
  <2>. QED BY <2>1, <2>2 DEF WaitsOnce
<1>10. HeldJobsAreUnfinished'
  <2>1. ASSUME NEW u \in Jobs, u # t
        PROVE  job[u] \notin finished \cup ({job[t]} \ {None})
    BY <2>1, HeldOnce DEF Places, HeldJobsAreUnfinished
  <2>2. items[q][1] \notin finished \cup ({job[t]} \ {None})
    BY <1>5
  <2>. QED BY <1>3, <2>1, <2>2 DEF HeldJobsAreUnfinished
<1>. QED BY <1>7, <1>8, <1>9, <1>10 DEF Places

\* The task that ends leaves its last job finished.
LEMMA LastJobEnds ==
    ASSUME IInv, Places, NEW t \in Jobs, job[t] # None, UNCHANGED items,
           finished' = finished \cup {job[t]}, job' = [job EXCEPT ![t] = None]
    PROVE  Places'
<1>. USE KeyOfAssumption, NoneAssumption
<1>1. /\ job'[t] = None /\ \A u \in Jobs \ {t} : job'[u] = job[u]
      /\ finished \subseteq Jobs
      /\ \A q \in Jobs : \A i \in DOMAIN items[q] : items[q][i] \in Jobs
  BY DEF IInv, TypeOK
<1>2. QueuesHoldTheirKey' /\ TasksHoldTheirKey'
  BY <1>1 DEF Places, QueuesHoldTheirKey, TasksHoldTheirKey
<1>3. WaitsOnce'
  BY <1>1 DEF Places, WaitsOnce
<1>4. HeldJobsAreUnfinished'
  <2>1. ASSUME NEW u \in Jobs, u # t
        PROVE  job[u] \notin finished \cup {job[t]}
    BY <2>1, HeldOnce DEF Places, HeldJobsAreUnfinished
  <2>2. None \notin finished \cup {job[t]}
    BY <1>1
  <2>. QED BY <1>1, <2>1, <2>2 DEF HeldJobsAreUnfinished
<1>. QED BY <1>2, <1>3, <1>4 DEF Places

LEMMA StepKeepsPlaces == IInv /\ Places /\ [Next]_vars => Places'
<1>. SUFFICES ASSUME IInv, Places, [Next]_vars
              PROVE  Places'
  OBVIOUS
<1>1. ASSUME NEW j \in Jobs, Enqueue(j)
      PROVE  Places'
  BY <1>1, EnqueueKeepsPlaces
<1>2. ASSUME NEW t \in Jobs, ConsumerStarts(t)
      PROVE  Places'
  <2>1. /\ queues[KeyOf[t]] \in Jobs /\ TakeJob(t, queues[KeyOf[t]])
        /\ job[t] = None /\ UNCHANGED finished
    BY <1>2, KeyOfAssumption DEF ConsumerStarts, IInv, TypeOK
  <2>. QED BY <2>1, TakeKeepsPlaces
<1>3. ASSUME NEW t \in Jobs, CallbackEnds(t)
      PROVE  Places'
  <2>1. /\ local[t] = queues[KeyOf[t]] /\ local[t] \in Jobs
        /\ job[t] # None /\ finished' = finished \cup {job[t]}
    BY <1>3, KeyOfAssumption
    DEF CallbackEnds, Live, IInv, TypeOK, ConsumerDiscipline, TablesAgree,
        LiveTasksAreRegistered
  <2>2. CASE TakeJob(t, local[t])
    BY <2>1, <2>2, TakeKeepsPlaces
  <2>3. CASE Retire(t, local[t])
    BY <2>1, <2>3, LastJobEnds DEF Retire
  <2>. QED BY <1>3, <2>2, <2>3 DEF CallbackEnds
<1>4. ASSUME NEW t \in Jobs, CallbackCancelled(t)
      PROVE  Places'
  <2>1. job[t] # None
    BY <1>4 DEF CallbackCancelled, IInv, TypeOK
  <2>. QED BY <1>4, <2>1, LastJobEnds DEF CallbackCancelled
<1>5. CASE UNCHANGED vars
  BY <1>5 DEF vars, Places, QueuesHoldTheirKey, TasksHoldTheirKey, WaitsOnce,
              HeldJobsAreUnfinished
<1>. QED BY <1>1, <1>2, <1>3, <1>4, <1>5 DEF Next

\* Idle queues are cleaned up: when every submitted job of a key ended and
\* nothing was cancelled, neither table has an entry for the key.
THEOREM IdleKeysLeaveTables == Spec => []IdleKeysAreForgotten
<1>1. Spec => []Places
  BY InitPlaces, StepKeepsPlaces, Invariance, PTL DEF Spec
<1>2. IInv /\ Places => IdleKeysAreForgotten
  <2> SUFFICES ASSUME IInv, Places, NEW k \in Keys, cancellations = 0,
                      \A j \in submitted : KeyOf[j] = k => j \in finished,
                      consumers[k] # None
               PROVE  FALSE
    BY DEF IdleKeysAreForgotten, IInv, ConsumerDiscipline, TablesAgree
  <2>. DEFINE t == consumers[k]
  <2>1. t \in Jobs /\ KeyOf[t] = k /\ Live(t)
    BY DEF IInv, TypeOK, ConsumerDiscipline, TablesAgree
  <2>. HIDE DEF t
  <2>2. CASE task[t] = "awaiting"
    <3>1. job[t] # None /\ job[t] \in submitted /\ KeyOf[job[t]] = k
      BY <2>1, <2>2 DEF IInv, TypeOK, ConsumerDiscipline, LiveTasksAreRegistered,
                        Places, TasksHoldTheirKey
    <3>. QED BY <2>1, <3>1 DEF Places, HeldJobsAreUnfinished
  <2>3. CASE task[t] = "scheduled"
    <3>. DEFINE q == queues[k]
    <3>1. q # None /\ items[q] # <<>>
      BY <2>1, <2>3 DEF IInv, ConsumerDiscipline, StartFindsWork
    <3>2. q \in Jobs /\ KeyOf[q] = k /\ items[q] \in Seq(Jobs)
      BY <3>1 DEF IInv, TypeOK, ConsumerDiscipline, TablesAgree
    <3>. HIDE DEF q
    <3>3. 1 \in DOMAIN items[q]
      BY <3>1, <3>2
    <3>4. /\ items[q][1] \in submitted /\ KeyOf[items[q][1]] = k
          /\ items[q][1] \notin finished
      BY <3>2, <3>3 DEF IInv, ConsumerDiscipline, JobsWaitInRegisteredQueues,
                        Places, QueuesHoldTheirKey, WaitsOnce
    <3>. QED BY <3>4
  <2>. QED BY <2>1, <2>2, <2>3 DEF Live
<1>. QED BY <1>1, <1>2, Invariance, PTL

-----------------------------------------------------------------------------
(* Refinement of SerialJobQueue.                                           *)

\* The abstract value of the waiting jobs, as in the instance Promise.
Waiting == [k \in Keys |-> IF queues[k] = None THEN <<>> ELSE items[queues[k]]]
Running == [k \in Keys |-> RunningJobs(k)]

\* What a key runs is what its one awaiting task holds.
LEMMA RunningFacts ==
    ASSUME IInv
    PROVE  /\ \A t \in Jobs : task[t] = "awaiting" => RunningJobs(KeyOf[t]) = {job[t]}
           /\ \A k \in Keys : (\A t \in Jobs : KeyOf[t] = k => task[t] # "awaiting")
                                => RunningJobs(k) = {}
           /\ \A k \in Keys : RunningJobs(k) \subseteq submitted
<1>1. ASSUME NEW t \in Jobs, task[t] = "awaiting"
      PROVE  RunningJobs(KeyOf[t]) = {job[t]}
  <2>1. {u \in Jobs : task[u] = "awaiting" /\ KeyOf[u] = KeyOf[t]} = {t}
    BY <1>1, OneLiveTaskPerKey DEF Live
  <2>. QED BY <2>1 DEF RunningJobs
<1>2. ASSUME NEW k \in Keys, \A t \in Jobs : KeyOf[t] = k => task[t] # "awaiting"
      PROVE  RunningJobs(k) = {}
  BY <1>2 DEF RunningJobs
<1>3. ASSUME NEW k \in Keys
      PROVE  RunningJobs(k) \subseteq submitted
  BY DEF RunningJobs, IInv, ConsumerDiscipline, LiveTasksAreRegistered
<1>. QED BY <1>1, <1>2, <1>3

\* A step that changes only tasks of one key leaves what other keys run.
LEMMA OtherKeysKeepRunning ==
    ASSUME NEW t \in Jobs, NEW k \in Keys, k # KeyOf[t],
           \A u \in Jobs \ {t} : task'[u] = task[u] /\ job'[u] = job[u]
    PROVE  RunningJobs(k)' = RunningJobs(k)
<1>1. {u \in Jobs : task'[u] = "awaiting" /\ KeyOf[u] = k}
        = {u \in Jobs : task[u] = "awaiting" /\ KeyOf[u] = k}
  OBVIOUS
<1>2. \A u \in {v \in Jobs : task[v] = "awaiting" /\ KeyOf[v] = k} : job'[u] = job[u]
  OBVIOUS
<1>. QED BY <1>1, <1>2 DEF RunningJobs

LEMMA EnqueueAccepts ==
    ASSUME IInv, NEW j \in Jobs, Enqueue(j)
    PROVE  Promise!Accept(j)
<1>. USE KeyOfAssumption, NoneAssumption
<1>. DEFINE k == KeyOf[j]
            q == IF queues[k] = None THEN j ELSE queues[k]
<1>1. /\ k \in Keys /\ q \in Jobs /\ KeyOf[q] = k /\ j \notin submitted
      /\ task[j] = "absent" /\ items[j] = <<>>
  BY DEF Enqueue, IInv, TypeOK, ConsumerDiscipline, TablesAgree, NamesAreFresh
<1>2. /\ queues' = [queues EXCEPT ![k] = q]
      /\ items' = [items EXCEPT ![q] = Append(@, j)]
      /\ UNCHANGED <<job, finished>>
      /\ \A t \in Jobs : (task'[t] = "awaiting") <=> (task[t] = "awaiting")
  BY <1>1 DEF Enqueue, IInv, TypeOK
<1>3. j \notin finished /\ \A m \in Keys : j \notin Running[m]
  BY <1>1, RunningFacts DEF Running, IInv, ConsumerDiscipline, JobsWaitInRegisteredQueues
<1>4. \A m \in Keys : \A i \in DOMAIN Waiting[m] : Waiting[m][i] # j
  BY <1>1 DEF Waiting, IInv, TypeOK, ConsumerDiscipline, JobsWaitInRegisteredQueues
<1>5. Waiting' = [Waiting EXCEPT ![k] = Append(@, j)]
  <2>1. Waiting'[k] = Append(Waiting[k], j)
    BY <1>1, <1>2 DEF Waiting, IInv, TypeOK
  <2>2. ASSUME NEW m \in Keys, m # k
        PROVE  Waiting'[m] = Waiting[m]
    <3>1. queues'[m] = queues[m] /\ (queues[m] # None => queues[m] \in Jobs /\ queues[m] # q)
      BY <1>1, <1>2, <2>2 DEF IInv, TypeOK, ConsumerDiscipline, TablesAgree
    <3>2. queues[m] # None => items'[queues[m]] = items[queues[m]]
      BY <1>1, <1>2, <3>1 DEF IInv, TypeOK
    <3>. HIDE DEF k, q
    <3>. QED BY <3>1, <3>2 DEF Waiting
  <2>3. Waiting' \in [Keys -> {Waiting'[m] : m \in Keys}] /\ DOMAIN Waiting' = Keys /\ DOMAIN Waiting = Keys
    BY DEF Waiting
  <2>4. k \in Keys
    BY <1>1
  <2>. HIDE DEF k, q, Waiting
  <2>5. ASSUME NEW m \in Keys
        PROVE  Waiting'[m] = [Waiting EXCEPT ![k] = Append(@, j)][m]
    BY <2>1, <2>2, <2>3
  <2>6. Waiting' = [m \in Keys |-> Waiting'[m]]
    BY <2>3
  <2>7. Waiting' = [m \in Keys |-> [Waiting EXCEPT ![k] = Append(@, j)][m]]
    BY <2>5, <2>6
  <2>8. DOMAIN [Waiting EXCEPT ![k] = Append(@, j)] = Keys
    BY <2>3
  <2>. QED BY <2>3, <2>7, <2>8
<1>6. Running' = Running
  <2>1. \A m \in Keys : RunningJobs(m)' = RunningJobs(m)
    BY <1>2 DEF RunningJobs
  <2>. QED BY <2>1 DEF Running
<1>. QED
  BY <1>2, <1>3, <1>4, <1>5, <1>6 DEF Promise!Accept, Waiting, Running

\* A task that takes a job moves the head of its key's waiting jobs to the
\* running one, whether it has just started or has just ended another job.
LEMMA TakeMapping ==
    ASSUME IInv, NEW t \in Jobs, NEW q \in Jobs,
           Live(t), queues[KeyOf[t]] = q, TakeJob(t, q)
    PROVE  /\ KeyOf[t] \in Keys /\ Waiting[KeyOf[t]] # <<>>
           /\ Waiting' = [Waiting EXCEPT ![KeyOf[t]] = Tail(@)]
           /\ Running' = [Running EXCEPT ![KeyOf[t]] = {Head(Waiting[KeyOf[t]])}]
<1>. USE KeyOfAssumption, NoneAssumption
<1>. DEFINE k == KeyOf[t]
<1>1. /\ k \in Keys /\ KeyOf[q] = k /\ items[q] # <<>> /\ Waiting[k] = items[q]
      /\ UNCHANGED <<queues, consumers>>
      /\ items'[q] = Tail(items[q]) /\ \A p \in Jobs \ {q} : items'[p] = items[p]
      /\ job'[t] = Head(items[q]) /\ task'[t] = "awaiting"
      /\ \A u \in Jobs \ {t} : task'[u] = task[u] /\ job'[u] = job[u]
  <2>1. k \in Keys /\ KeyOf[q] = k /\ Waiting[k] = items[q]
    BY DEF IInv, TypeOK, ConsumerDiscipline, TablesAgree, Waiting
  <2>2. /\ items \in [Jobs -> Seq(Jobs)] /\ job \in [Jobs -> Jobs \cup {None}]
        /\ DOMAIN task = Jobs
    BY DEF IInv, TypeOK
  <2>. QED BY <2>1, <2>2 DEF TakeJob, tables
<1>2. \A m \in Keys \ {k} : Waiting'[m] = Waiting[m]
  <2>1. \A m \in Keys \ {k} : queues[m] # None => queues[m] \in Jobs \ {q}
    BY <1>1 DEF IInv, TypeOK, ConsumerDiscipline, TablesAgree
  <2>. HIDE DEF k
  <2>. QED BY <1>1, <2>1 DEF Waiting
<1>3. \A m \in Keys \ {k} : RunningJobs(m)' = RunningJobs(m)
  BY <1>1, OtherKeysKeepRunning
<1>4. RunningJobs(k)' = {Head(items[q])}
  <2>1. {u \in Jobs : task'[u] = "awaiting" /\ KeyOf[u] = k} = {t}
    BY <1>1, OneLiveTaskPerKey DEF Live
  <2>. QED BY <1>1, <2>1 DEF RunningJobs
<1>5. Waiting'[k] = Tail(Waiting[k])
  BY <1>1 DEF Waiting
<1>. HIDE DEF k
<1>6. Waiting' = [Waiting EXCEPT ![k] = Tail(@)]
  <2>1. DOMAIN Waiting = Keys /\ Waiting' = [m \in Keys |-> Waiting'[m]]
    BY DEF Waiting
  <2>. QED BY <1>1, <1>2, <1>5, <2>1
<1>7. Running' = [Running EXCEPT ![k] = {Head(Waiting[k])}]
  BY <1>1, <1>3, <1>4 DEF Running
<1>. QED BY <1>1, <1>6, <1>7 DEF k

\* A task that leaves the callback without taking a job leaves its key idle;
\* the queue of the key, registered or not, still holds the same jobs.
LEMMA IdleMapping ==
    ASSUME IInv, NEW t \in Jobs, task[t] = "awaiting",
           Retire(t, local[t]) \/ CallbackCancelled(t)
    PROVE  /\ KeyOf[t] \in Keys
           /\ Waiting' = Waiting
           /\ Running' = [Running EXCEPT ![KeyOf[t]] = {}]
<1>. USE KeyOfAssumption, NoneAssumption
<1>. DEFINE k == KeyOf[t]
<1>1. /\ k \in Keys /\ local[t] = queues[k] /\ local[t] \in Jobs
      /\ UNCHANGED items /\ task'[t] = "done"
      /\ \A u \in Jobs \ {t} : task'[u] = task[u] /\ job'[u] = job[u]
      /\ \A m \in Keys \ {k} : queues'[m] = queues[m]
      /\ queues'[k] = queues[k] \/ (queues'[k] = None /\ items[queues[k]] = <<>>)
  BY DEF Retire, CallbackCancelled, IInv, TypeOK, ConsumerDiscipline, TablesAgree,
         LiveTasksAreRegistered, Live
<1>2. Waiting' = Waiting
  <2>1. ASSUME NEW m \in Keys
        PROVE  (IF queues'[m] = None THEN <<>> ELSE items'[queues'[m]])
                 = (IF queues[m] = None THEN <<>> ELSE items[queues[m]])
    <3>1. CASE m = k
      BY <1>1, <3>1
    <3>2. CASE m # k
      BY <1>1, <3>2
    <3>. QED BY <3>1, <3>2
  <2>. QED BY <2>1 DEF Waiting
<1>3. \A m \in Keys \ {k} : RunningJobs(m)' = RunningJobs(m)
  BY <1>1, OtherKeysKeepRunning
<1>4. RunningJobs(k)' = {}
  <2>1. {u \in Jobs : task'[u] = "awaiting" /\ KeyOf[u] = k} = {}
    BY <1>1, OneLiveTaskPerKey DEF Live
  <2>. QED BY <2>1 DEF RunningJobs
<1>. HIDE DEF k
<1>5. Running' = [Running EXCEPT ![k] = {}]
  BY <1>1, <1>3, <1>4 DEF Running
<1>. QED BY <1>1, <1>2, <1>5 DEF k

LEMMA StepRefines == IInv /\ [Next]_vars => [Promise!Next]_(Promise!vars)
<1>. SUFFICES ASSUME IInv, [Next]_vars
              PROVE  [Promise!Next]_(Promise!vars)
  OBVIOUS
<1>1. ASSUME NEW j \in Jobs, Enqueue(j)
      PROVE  Promise!Next
  BY <1>1, EnqueueAccepts DEF Promise!Next
<1>2. ASSUME NEW t \in Jobs, ConsumerStarts(t)
      PROVE  Promise!Next
  <2>. DEFINE k == KeyOf[t]
  <2>1. /\ queues[k] \in Jobs /\ Live(t) /\ task[t] = "scheduled"
        /\ TakeJob(t, queues[k]) /\ UNCHANGED finished /\ k \in Keys
    BY <1>2, KeyOfAssumption DEF ConsumerStarts, Live, IInv, TypeOK
  <2>2. /\ Waiting[k] # <<>> /\ Waiting' = [Waiting EXCEPT ![k] = Tail(@)]
        /\ Running' = [Running EXCEPT ![k] = {Head(Waiting[k])}]
    BY <2>1, TakeMapping
  <2>3. Running[k] = {}
    <3>1. \A u \in Jobs : KeyOf[u] = k => task[u] # "awaiting"
      BY <2>1, OneLiveTaskPerKey DEF Live
    <3>. HIDE DEF k
    <3>. QED BY <2>1, <3>1, RunningFacts DEF Running
  <2>4. Promise!Start(k)
    BY <2>1, <2>2, <2>3 DEF Promise!Start, Waiting, Running
  <2>. QED BY <2>1, <2>4 DEF Promise!Next
<1>3. ASSUME NEW t \in Jobs, task[t] = "awaiting"
      PROVE  KeyOf[t] \in Keys /\ Running[KeyOf[t]] = {job[t]}
  BY <1>3, RunningFacts, KeyOfAssumption DEF Running
<1>4. ASSUME NEW t \in Jobs, CallbackEnds(t)
      PROVE  Promise!Next
  <2>. DEFINE k == KeyOf[t]
  <2>1. /\ task[t] = "awaiting" /\ finished' = finished \cup {job[t]}
        /\ Live(t) /\ local[t] = queues[k] /\ local[t] \in Jobs
    BY <1>4, KeyOfAssumption
    DEF CallbackEnds, Live, IInv, TypeOK, ConsumerDiscipline, TablesAgree, LiveTasksAreRegistered
  <2>2. k \in Keys /\ Running[k] = {job[t]}
    BY <1>3, <2>1
  <2>3. CASE TakeJob(t, local[t])
    <3>1. /\ Waiting[k] # <<>> /\ Waiting' = [Waiting EXCEPT ![k] = Tail(@)]
          /\ Running' = [Running EXCEPT ![k] = {Head(Waiting[k])}]
      BY <2>1, <2>3, TakeMapping
    <3>2. Promise!HandOver(k)
      BY <2>1, <2>2, <3>1 DEF Promise!HandOver, Waiting, Running
    <3>. QED BY <2>2, <3>2 DEF Promise!Next
  <2>4. CASE Retire(t, local[t])
    <3>1. Waiting' = Waiting /\ Running' = [Running EXCEPT ![k] = {}]
      BY <2>1, <2>4, IdleMapping
    <3>2. Promise!Finish(k)
      BY <2>1, <2>2, <3>1 DEF Promise!Finish, Waiting, Running
    <3>. QED BY <2>2, <3>2 DEF Promise!Next
  <2>. QED BY <1>4, <2>3, <2>4 DEF CallbackEnds
<1>5. ASSUME NEW t \in Jobs, CallbackCancelled(t)
      PROVE  Promise!Next
  <2>. DEFINE k == KeyOf[t]
  <2>1. task[t] = "awaiting" /\ finished' = finished \cup {job[t]}
    BY <1>5 DEF CallbackCancelled
  <2>2. k \in Keys /\ Running[k] = {job[t]}
    BY <1>3, <2>1
  <2>3. Waiting' = Waiting /\ Running' = [Running EXCEPT ![k] = {}]
    BY <1>5, <2>1, IdleMapping
  <2>4. Promise!Finish(k)
    BY <2>1, <2>2, <2>3 DEF Promise!Finish, Waiting, Running
  <2>. QED BY <2>2, <2>4 DEF Promise!Next
<1>6. CASE UNCHANGED vars
  BY <1>6 DEF vars, Promise!vars, RunningJobs
<1>. QED BY <1>1, <1>2, <1>4, <1>5, <1>6 DEF Next

\* The queue implements the promise of SerialJobQueue: per key, first come,
\* first served, one at a time, at most once.
THEOREM Refinement == Spec => ImplementsPromise
<1>1. Init => Promise!Init
  BY DEF Init, Promise!Init, RunningJobs
<1>. QED
  BY <1>1, StepRefines, Invariance, PTL DEF Spec, ImplementsPromise, Promise!Spec
=============================================================================

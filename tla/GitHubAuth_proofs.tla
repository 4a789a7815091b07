------------------------- MODULE GitHubAuth_proofs -------------------------
(***************************************************************************)
(* Proofs about the token cache and the contexts of tasks, for every set   *)
(* of events, pull requests and installations, every lifetime, margin and  *)
(* latency in the order the code has them, and every duration.             *)
(***************************************************************************)
EXTENDS GitHubAuth, TLAPS

\* The installation of a pull request.
Inst(k) == Active(InstallationOf[k])

InRequest(e) == stage[e] \in {"webhook", "reacting"}
InJob(e) == stage[e] \in {"job", "working", "apologising"}

RequestContexts ==
    \A e \in Events : InRequest(e) =>
        ctx[e] = InstallationOf[KeyOf[e]] /\ Inst(KeyOf[e]) \in Installations

ConsumerContexts ==
    \A k \in DOMAIN consumer : consumer[k] = InstallationOf[k] /\ Inst(k) \in Installations

\* The consumer of a key lives while it runs a job, one at a time.
OneJobPerConsumer ==
    /\ \A e \in Events : InJob(e) => KeyOf[e] \in DOMAIN consumer
    /\ \A e, f \in Events : InJob(e) /\ InJob(f) /\ KeyOf[e] = KeyOf[f] => e = f

\* The jobs that wait are those of the key, each once, and have not started.
WaitingAreQueued ==
    \A k \in Keys :
        /\ \A i \in DOMAIN waiting[k] :
             KeyOf[waiting[k][i]] = k /\ stage[waiting[k][i]] = "queued"
        /\ \A i, j \in DOMAIN waiting[k] : waiting[k][i] = waiting[k][j] => i = j

Contexts ==
    /\ TypeOK
    /\ RequestContexts
    /\ ConsumerContexts
    /\ OneJobPerConsumer
    /\ WaitingAreQueued

LEMMA AppendFacts ==
    ASSUME NEW s \in Seq(Events), NEW e \in Events
    PROVE  /\ Append(s, e) \in Seq(Events)
           /\ DOMAIN Append(s, e) = DOMAIN s \cup {Len(s) + 1}
           /\ Append(s, e)[Len(s) + 1] = e
           /\ \A i \in DOMAIN s : Append(s, e)[i] = s[i] /\ i # Len(s) + 1
  OBVIOUS

LEMMA TailFacts ==
    ASSUME NEW s \in Seq(Events), s # <<>>
    PROVE  /\ Head(s) \in Events /\ Tail(s) \in Seq(Events)
           /\ 1 \in DOMAIN s /\ Head(s) = s[1]
           /\ \A i \in DOMAIN Tail(s) :
                /\ i + 1 \in DOMAIN s /\ i + 1 # 1
                /\ Tail(s)[i] = s[i + 1]
           /\ \A i, j \in DOMAIN Tail(s) : i + 1 = j + 1 => i = j
  OBVIOUS

\* What ensure_auth() does to the tables, whether or not the cache serves it.
LEMMA EnsureAuthFacts ==
    ASSUME TypeOK, NEW e \in Events, NEW i, NEW during \in Stage, NEW then \in Stage,
           EnsureAuth(e, i, during, then)
    PROVE  /\ DOMAIN cache' \subseteq DOMAIN cache
           /\ \A j \in DOMAIN cache' : cache'[j] = cache[j]
           /\ stage' \in [Events -> Stage] /\ since' \in [Events -> Nat]
           /\ \A f \in Events \ {e} : stage'[f] = stage[f] /\ since'[f] = since[f]
           /\ \/ /\ stage'[e] = then /\ asked' = asked /\ since'[e] = clock
                 /\ i \in DOMAIN cache' /\ ~Expiring(cache'[i])
              \/ stage'[e] = during /\ asked' = asked \cup {e}
  BY DEF EnsureAuth, Pruned, Restrict, TypeOK

-----------------------------------------------------------------------------
(* Types and contexts.                                                     *)

LEMMA InitContexts == Init => Contexts
<1>. SUFFICES ASSUME Init PROVE Contexts
  OBVIOUS
<1>1. DOMAIN cache = {} /\ DOMAIN consumer = {} /\ DOMAIN answered = {}
  BY DEF Init
<1>2. TypeOK
  BY <1>1, TimeAssumption DEF Init, TypeOK, Stage, Maybe
<1>. QED
  BY <1>1, <1>2
  DEF Init, Contexts, RequestContexts, ConsumerContexts, OneJobPerConsumer,
      WaitingAreQueued, InRequest, InJob

\* Steps of one event that leave the queues alone and keep it in its phase.
LEMMA QuietSteps ==
    ASSUME Contexts, NEW e \in Events,
           UNCHANGED <<ctx, consumer, waiting>>, TypeOK',
           \A f \in Events \ {e} : stage'[f] = stage[f],
           InRequest(e)' => InRequest(e),
           InJob(e)' => InJob(e),
           stage[e] # "queued"
    PROVE  Contexts'
<1>1. \A k \in Keys : \A i \in DOMAIN waiting[k] :
         waiting[k][i] \in Events /\ waiting[k][i] # e
  BY DEF Contexts, TypeOK, WaitingAreQueued
<1>2. RequestContexts' /\ ConsumerContexts' /\ OneJobPerConsumer'
  BY KeyAssumption
  DEF Contexts, RequestContexts, ConsumerContexts, OneJobPerConsumer,
      InRequest, InJob, Inst, Active
<1>3. WaitingAreQueued'
  BY <1>1 DEF Contexts, WaitingAreQueued
<1>. QED BY <1>2, <1>3 DEF Contexts

LEMMA TokenStepsPreserve ==
    ASSUME Contexts, NEW e \in Events,
           GitHubIssues(e) \/ TokenArrives(e) \/ TokenRefused(e)
    PROVE  Contexts'
<1>. USE KeyAssumption, TimeAssumption DEF Stage
<1>1. CASE GitHubIssues(e)
  <2>1. TypeOK'
    BY <1>1 DEF GitHubIssues, Contexts, TypeOK
  <2>2. UNCHANGED <<ctx, consumer, waiting, stage>>
        /\ stage[e] \in {"webhook", "job"}
    BY <1>1 DEF GitHubIssues, Contexts, TypeOK
  <2>. QED BY <2>1, <2>2, QuietSteps DEF InRequest, InJob
<1>2. CASE TokenArrives(e)
  <2>1. stage[e] \in {"webhook", "job"} /\ ActiveFor(e) \in Installations
    BY <1>2
    DEF TokenArrives, Contexts, TypeOK, RequestContexts, ConsumerContexts,
        OneJobPerConsumer, InRequest, InJob, ActiveFor, Inst
  <2>2. answered[e] \in Nat /\ clock + Lifetime \in Nat
    BY <1>2 DEF TokenArrives, Contexts, TypeOK
  <2>3. DOMAIN cache' \subseteq Installations
        /\ \A i \in DOMAIN cache' : cache'[i] \in Token
    BY <1>2, <2>1, <2>2 DEF TokenArrives, Contexts, TypeOK, Token
  <2>4. stage' = [stage EXCEPT ![e] = Authenticated(stage[e])]
        /\ asked' = asked \ {e} /\ DOMAIN answered' = DOMAIN answered \ {e}
    BY <1>2 DEF TokenArrives, Restrict
  <2>5. TypeOK'
    BY <1>2, <2>1, <2>3, <2>4 DEF TokenArrives, Contexts, TypeOK, Authenticated, Restrict
  <2>6. UNCHANGED <<ctx, consumer, waiting>>
    BY <1>2 DEF TokenArrives
  <2>7. /\ \A f \in Events \ {e} : stage'[f] = stage[f]
        /\ InRequest(e)' => InRequest(e)
        /\ InJob(e)' => InJob(e)
    BY <2>1, <2>4 DEF Contexts, TypeOK, Authenticated, InRequest, InJob
  <2>. QED BY <2>1, <2>5, <2>6, <2>7, QuietSteps
<1>3. CASE TokenRefused(e)
  <2>1. stage[e] \in {"webhook", "job"} /\ UNCHANGED <<ctx, consumer, waiting>>
    BY <1>3 DEF TokenRefused, Contexts, TypeOK
  <2>2. TypeOK'
    BY <1>3, <2>1 DEF TokenRefused, Contexts, TypeOK, Restrict
  <2>3. /\ \A f \in Events \ {e} : stage'[f] = stage[f]
        /\ InRequest(e)' => InRequest(e)
        /\ InJob(e)' => InJob(e)
    BY <1>3, <2>1 DEF TokenRefused, Contexts, TypeOK, InRequest, InJob
  <2>. QED BY <2>1, <2>2, <2>3, QuietSteps
<1>. QED BY <1>1, <1>2, <1>3

LEMMA ReceivePreserves ==
    ASSUME Contexts, NEW e \in Events, Receive(e)
    PROVE  Contexts'
<1>. USE KeyAssumption, InstallationAssumption
<1>1. /\ stage[e] = "absent" /\ UNCHANGED <<clock, consumer, waiting, answered, result>>
      /\ ctx' = [ctx EXCEPT ![e] = InstallationOf[KeyOf[e]]]
  BY DEF Receive, ReceiveIn
<1>2. ctx' \in [Events -> Maybe] /\ ctx'[e] = InstallationOf[KeyOf[e]]
      /\ \A f \in Events \ {e} : ctx'[f] = ctx[f]
  BY <1>1 DEF Contexts, TypeOK, Maybe
<1>3. /\ TypeOK'
      /\ stage'[e] \in {"rejected", "webhook", "reacting"}
      /\ stage'[e] # "rejected" => Inst(KeyOf[e]) \in Installations
      /\ \A f \in Events \ {e} : stage'[f] = stage[f]
  <2>1. CASE Active(ctx'[e]) = NoInstallation
    <3>1. stage' = [stage EXCEPT ![e] = "rejected"] /\ UNCHANGED <<cache, asked, since>>
      BY <2>1 DEF Receive, ReceiveIn
    <3>2. /\ stage' \in [Events -> Stage] /\ stage'[e] = "rejected"
          /\ \A f \in Events \ {e} : stage'[f] = stage[f]
      BY <3>1 DEF Contexts, TypeOK, Stage
    <3>. QED BY <1>1, <1>2, <3>1, <3>2 DEF Contexts, TypeOK
  <2>2. CASE Active(ctx'[e]) # NoInstallation
    <3>1. EnsureAuth(e, Active(ctx'[e]), "webhook", "reacting")
      BY <2>2 DEF Receive, ReceiveIn
    <3>2. /\ DOMAIN cache' \subseteq DOMAIN cache
          /\ \A j \in DOMAIN cache' : cache'[j] = cache[j]
          /\ stage' \in [Events -> Stage] /\ since' \in [Events -> Nat]
          /\ \A f \in Events \ {e} : stage'[f] = stage[f]
          /\ \/ stage'[e] = "reacting" /\ asked' = asked
             \/ stage'[e] = "webhook" /\ asked' = asked \cup {e}
      BY <3>1, EnsureAuthFacts DEF Contexts, Stage
    <3>3. TypeOK'
      BY <1>1, <1>2, <3>2 DEF Contexts, TypeOK
    <3>4. Inst(KeyOf[e]) \in Installations
      BY <1>2, <2>2 DEF Inst, Active
    <3>. QED BY <3>2, <3>3, <3>4
  <2>. QED BY <2>1, <2>2
<1>4. \A k \in Keys : \A i \in DOMAIN waiting[k] :
         waiting[k][i] \in Events /\ waiting[k][i] # e
  BY <1>1 DEF Contexts, TypeOK, WaitingAreQueued
<1>5. RequestContexts' /\ ConsumerContexts' /\ OneJobPerConsumer'
  BY <1>1, <1>2, <1>3
  DEF Contexts, RequestContexts, ConsumerContexts, OneJobPerConsumer, InRequest, InJob,
      Inst, Active
<1>6. WaitingAreQueued'
  BY <1>1, <1>3, <1>4 DEF Contexts, WaitingAreQueued
<1>. QED BY <1>3, <1>5, <1>6 DEF Contexts

LEMMA EnqueuePreserves ==
    ASSUME Contexts, NEW e \in Events, Enqueue(e)
    PROVE  Contexts'
<1>. USE KeyAssumption
<1>. DEFINE k == KeyOf[e]
<1>1. /\ stage[e] = "reacting" /\ stage' = [stage EXCEPT ![e] = "queued"]
      /\ waiting' = [waiting EXCEPT ![k] = Append(waiting[k], e)]
      /\ DOMAIN consumer' = DOMAIN consumer \cup {k}
      /\ \A x \in DOMAIN consumer : consumer'[x] = consumer[x]
      /\ k \notin DOMAIN consumer => consumer'[k] = ctx[e]
      /\ since' = [since EXCEPT ![e] = 0]
      /\ UNCHANGED <<clock, cache, ctx, asked, answered, result>>
      /\ k \in Keys /\ waiting[k] \in Seq(Events)
  BY DEF Enqueue, Contexts, TypeOK
<1>2. ctx[e] = InstallationOf[k] /\ Inst(k) \in Installations
  BY <1>1 DEF Contexts, RequestContexts, InRequest
<1>3. waiting' \in [Keys -> Seq(Events)] /\ waiting'[k] = Append(waiting[k], e)
      /\ \A m \in Keys \ {k} : waiting'[m] = waiting[m]
  BY <1>1, AppendFacts DEF Contexts, TypeOK
<1>4. /\ stage' \in [Events -> Stage] /\ stage'[e] = "queued"
      /\ \A f \in Events \ {e} : stage'[f] = stage[f]
  BY <1>1 DEF Contexts, TypeOK, Stage
<1>. HIDE DEF k
<1>5. TypeOK'
  <2>1. DOMAIN consumer' \subseteq Keys /\ \A m \in DOMAIN consumer' : consumer'[m] \in Maybe
    BY <1>1 DEF Contexts, TypeOK
  <2>2. asked' = {f \in Events : stage'[f] \in {"webhook", "job"}}
    BY <1>1, <1>4 DEF Contexts, TypeOK
  <2>3. since' \in [Events -> Nat]
    BY <1>1 DEF Contexts, TypeOK
  <2>. QED BY <1>1, <1>3, <1>4, <2>1, <2>2, <2>3 DEF Contexts, TypeOK
<1>6. RequestContexts' /\ OneJobPerConsumer'
  BY <1>1, <1>4 DEF Contexts, RequestContexts, OneJobPerConsumer, InRequest, InJob, Inst, Active
<1>7. ConsumerContexts'
  <2>1. \A m \in DOMAIN consumer : consumer'[m] = InstallationOf[m] /\ Inst(m) \in Installations
    BY <1>1 DEF Contexts, ConsumerContexts
  <2>2. \A m \in DOMAIN consumer' : m \in DOMAIN consumer \/ (m = k /\ k \notin DOMAIN consumer)
    BY <1>1
  <2>. QED BY <1>1, <1>2, <2>1, <2>2 DEF ConsumerContexts, Inst, Active
<1>8. WaitingAreQueued'
  <2>1. \A m \in Keys : \A i \in DOMAIN waiting[m] :
           /\ KeyOf[waiting[m][i]] = m /\ waiting[m][i] \in Events
           /\ waiting[m][i] # e /\ stage'[waiting[m][i]] = "queued"
    BY <1>1, <1>4 DEF Contexts, TypeOK, WaitingAreQueued
  <2>2. /\ DOMAIN waiting'[k] = DOMAIN waiting[k] \cup {Len(waiting[k]) + 1}
        /\ waiting'[k][Len(waiting[k]) + 1] = e
        /\ \A i \in DOMAIN waiting[k] :
             waiting'[k][i] = waiting[k][i] /\ i # Len(waiting[k]) + 1
    BY <1>1, <1>3, AppendFacts
  <2>3. KeyOf[e] = k
    BY DEF k
  <2>4. \A m \in Keys \ {k} : waiting'[m] = waiting[m]
    BY <1>3
  <2>. DEFINE n == Len(waiting[k]) + 1
  <2>. HIDE DEF n
  <2>5. ASSUME NEW m \in Keys
        PROVE  /\ \A i \in DOMAIN waiting'[m] :
                    KeyOf[waiting'[m][i]] = m /\ stage'[waiting'[m][i]] = "queued"
               /\ \A i, j \in DOMAIN waiting'[m] : waiting'[m][i] = waiting'[m][j] => i = j
    <3>1. CASE m = k
      BY <1>1, <1>4, <2>1, <2>2, <2>3, <3>1 DEF Contexts, WaitingAreQueued, n
    <3>2. CASE m # k
      BY <2>1, <2>4, <3>2 DEF Contexts, WaitingAreQueued
    <3>. QED BY <3>1, <3>2
  <2>. QED BY <2>5 DEF WaitingAreQueued
<1>. QED BY <1>5, <1>6, <1>7, <1>8 DEF Contexts

LEMMA StartPreserves ==
    ASSUME Contexts, NEW k \in Keys, StartJob(k)
    PROVE  Contexts'
<1>. USE KeyAssumption
<1>. DEFINE e == Head(waiting[k])
<1>1. /\ k \in DOMAIN consumer /\ ~Busy(k) /\ waiting[k] # <<>>
      /\ waiting[k] \in Seq(Events)
      /\ waiting' = [waiting EXCEPT ![k] = Tail(waiting[k])]
      /\ EnsureAuth(e, Active(consumer[k]), "job", "working")
      /\ UNCHANGED <<clock, ctx, consumer, answered, result>>
  BY DEF StartJob, Contexts, TypeOK
<1>2. /\ e \in Events /\ Tail(waiting[k]) \in Seq(Events)
      /\ 1 \in DOMAIN waiting[k] /\ e = waiting[k][1]
      /\ \A i \in DOMAIN Tail(waiting[k]) :
           /\ i + 1 \in DOMAIN waiting[k] /\ i + 1 # 1
           /\ Tail(waiting[k])[i] = waiting[k][i + 1]
      /\ \A i, j \in DOMAIN Tail(waiting[k]) : i + 1 = j + 1 => i = j
  BY <1>1, TailFacts
<1>3. waiting' \in [Keys -> Seq(Events)] /\ waiting'[k] = Tail(waiting[k])
      /\ \A m \in Keys \ {k} : waiting'[m] = waiting[m]
  BY <1>1, <1>2 DEF Contexts, TypeOK
<1>4. stage[e] = "queued" /\ KeyOf[e] = k
  BY <1>2 DEF Contexts, WaitingAreQueued
<1>. HIDE DEF e
<1>5. /\ DOMAIN cache' \subseteq DOMAIN cache
      /\ \A j \in DOMAIN cache' : cache'[j] = cache[j]
      /\ stage' \in [Events -> Stage] /\ since' \in [Events -> Nat]
      /\ \A f \in Events \ {e} : stage'[f] = stage[f]
      /\ \/ stage'[e] = "working" /\ asked' = asked
         \/ stage'[e] = "job" /\ asked' = asked \cup {e}
  BY <1>1, <1>2, EnsureAuthFacts DEF Contexts, Stage
<1>6. TypeOK'
  BY <1>1, <1>2, <1>3, <1>4, <1>5 DEF Contexts, TypeOK
<1>7. RequestContexts' /\ ConsumerContexts'
  BY <1>1, <1>5 DEF Contexts, RequestContexts, ConsumerContexts, InRequest, Inst, Active
<1>8. OneJobPerConsumer'
  <2>1. \A f \in Events : KeyOf[f] = k => ~InJob(f)
    BY <1>1 DEF Busy, InJob
  <2>. QED
    BY <1>1, <1>2, <1>4, <1>5, <2>1 DEF Contexts, OneJobPerConsumer, InJob
<1>9. WaitingAreQueued'
  <2>1. \A m \in Keys : \A i \in DOMAIN waiting[m] :
           waiting[m][i] \in Events /\ KeyOf[waiting[m][i]] = m
           /\ stage[waiting[m][i]] = "queued"
    BY <1>1 DEF Contexts, TypeOK, WaitingAreQueued
  <2>2. ASSUME NEW m \in Keys
        PROVE  /\ \A i \in DOMAIN waiting'[m] :
                    KeyOf[waiting'[m][i]] = m /\ stage'[waiting'[m][i]] = "queued"
               /\ \A i, j \in DOMAIN waiting'[m] : waiting'[m][i] = waiting'[m][j] => i = j
    <3>1. CASE m = k
      <4>1. \A i \in DOMAIN Tail(waiting[k]) : Tail(waiting[k])[i] # e
        BY <1>2 DEF Contexts, WaitingAreQueued
      <4>2. \A i \in DOMAIN Tail(waiting[k]) :
               KeyOf[Tail(waiting[k])[i]] = k /\ stage'[Tail(waiting[k])[i]] = "queued"
        <5>1. ASSUME NEW i \in DOMAIN Tail(waiting[k])
              PROVE  KeyOf[Tail(waiting[k])[i]] = k /\ stage'[Tail(waiting[k])[i]] = "queued"
          <6>1. Tail(waiting[k])[i] = waiting[k][i + 1] /\ i + 1 \in DOMAIN waiting[k]
            BY <1>2
          <6>2. /\ waiting[k][i + 1] \in Events /\ KeyOf[waiting[k][i + 1]] = k
                /\ stage[waiting[k][i + 1]] = "queued"
            BY <2>1, <6>1
          <6>. QED BY <1>5, <4>1, <6>1, <6>2
        <5>. QED BY <5>1
      <4>3. \A i, j \in DOMAIN Tail(waiting[k]) :
               Tail(waiting[k])[i] = Tail(waiting[k])[j] => i = j
        <5>1. \A i, j \in DOMAIN waiting[k] : waiting[k][i] = waiting[k][j] => i = j
          BY DEF Contexts, WaitingAreQueued
        <5>2. ASSUME NEW i \in DOMAIN Tail(waiting[k]), NEW j \in DOMAIN Tail(waiting[k]),
                     Tail(waiting[k])[i] = Tail(waiting[k])[j]
              PROVE  i = j
          <6>1. waiting[k][i + 1] = waiting[k][j + 1]
            BY <1>2, <5>2
          <6>2. i + 1 = j + 1
            BY <1>2, <5>1, <6>1
          <6>. QED BY <1>2, <6>2
        <5>. QED BY <5>2
      <4>4. waiting'[m] = Tail(waiting[k])
        BY <1>3, <3>1
      <4>5. \A i \in DOMAIN waiting'[m] :
               KeyOf[waiting'[m][i]] = m /\ stage'[waiting'[m][i]] = "queued"
        BY <3>1, <4>2, <4>4, Zenon
      <4>. QED BY <4>3, <4>4, <4>5, Zenon
    <3>2. CASE m # k
      <4>1. waiting'[m] = waiting[m]
        BY <1>3, <3>2
      <4>2. \A i \in DOMAIN waiting[m] : waiting[m][i] # e
        BY <1>4, <2>1, <3>2
      <4>3. \A i \in DOMAIN waiting[m] :
               KeyOf[waiting[m][i]] = m /\ stage'[waiting[m][i]] = "queued"
        BY <1>5, <2>1, <4>2
      <4>4. \A i, j \in DOMAIN waiting[m] : waiting[m][i] = waiting[m][j] => i = j
        BY DEF Contexts, WaitingAreQueued
      <4>. QED BY <4>1, <4>3, <4>4
    <3>. QED BY <3>1, <3>2
  <2>. QED BY <2>2 DEF WaitingAreQueued
<1>. QED BY <1>6, <1>7, <1>8, <1>9 DEF Contexts

LEMMA EndPreserves ==
    ASSUME Contexts, NEW e \in Events, InJob(e), EndJob(e), stage[e] # "job",
           result' \in [Events -> {"none", "review", "apology", "nothing"}],
           UNCHANGED <<clock, cache, ctx, waiting, asked, answered>>
    PROVE  Contexts'
<1>. USE KeyAssumption
<1>1. /\ stage' \in [Events -> Stage] /\ stage'[e] = "done"
      /\ \A f \in Events \ {e} : stage'[f] = stage[f]
      /\ since' \in [Events -> Nat]
  BY DEF EndJob, Contexts, TypeOK, Stage
<1>2. /\ DOMAIN consumer' \in {DOMAIN consumer, DOMAIN consumer \ {KeyOf[e]}}
      /\ \A k \in DOMAIN consumer' : consumer'[k] = consumer[k]
  BY DEF EndJob, Restrict
<1>3. TypeOK'
  BY <1>1, <1>2 DEF Contexts, TypeOK, InJob
<1>4. RequestContexts' /\ ConsumerContexts' /\ OneJobPerConsumer'
  BY <1>1, <1>2
  DEF Contexts, RequestContexts, ConsumerContexts, OneJobPerConsumer, InRequest, InJob,
      Inst, Active
<1>5. WaitingAreQueued'
  <2>1. \A k \in Keys : \A i \in DOMAIN waiting[k] :
           waiting[k][i] \in Events /\ waiting[k][i] # e
    BY DEF Contexts, TypeOK, WaitingAreQueued, InJob
  <2>. QED BY <1>1, <2>1 DEF Contexts, WaitingAreQueued
<1>. QED BY <1>3, <1>4, <1>5 DEF Contexts

LEMMA JobStepsPreserve ==
    ASSUME Contexts, NEW e \in Events, PostReview(e) \/ JobFails(e) \/ Apologise(e)
    PROVE  Contexts'
<1>1. CASE PostReview(e) /\ EndJob(e)
  <2>1. result' \in [Events -> {"none", "review", "apology", "nothing"}]
    BY <1>1 DEF PostReview, Contexts, TypeOK
  <2>. QED BY <1>1, <2>1, EndPreserves DEF PostReview, InJob
<1>2. CASE /\ stage[e] = "working" /\ stage' = [stage EXCEPT ![e] = "apologising"]
           /\ UNCHANGED <<clock, cache, ctx, consumer, waiting, asked, answered, since, result>>
  <2>1. TypeOK'
    BY <1>2 DEF Contexts, TypeOK, Stage
  <2>2. /\ \A f \in Events \ {e} : stage'[f] = stage[f]
        /\ InRequest(e)' => InRequest(e)
        /\ InJob(e)' => InJob(e)
    BY <1>2 DEF Contexts, TypeOK, InRequest, InJob
  <2>. QED BY <1>2, <2>1, <2>2, QuietSteps
<1>3. CASE Apologise(e)
  <2>1. result' \in [Events -> {"none", "review", "apology", "nothing"}]
    BY <1>3 DEF Apologise, Contexts, TypeOK
  <2>. QED BY <1>3, <2>1, EndPreserves DEF Apologise, InJob
<1>. QED BY <1>1, <1>2, <1>3 DEF PostReview, JobFails

LEMMA NextContexts == Contexts /\ [Next]_vars => Contexts'
<1>. SUFFICES ASSUME Contexts, [Next]_vars PROVE Contexts'
  OBVIOUS
<1>1. CASE UNCHANGED <<cache, ctx, consumer, waiting, stage, asked, answered, since, result>>
           /\ clock' \in {clock, clock + 1}
  BY <1>1
  DEF Contexts, TypeOK, RequestContexts, ConsumerContexts, OneJobPerConsumer,
      WaitingAreQueued, InRequest, InJob, Inst, Active
<1>2. CASE Tick
  BY <1>1, <1>2 DEF Tick
<1>3. CASE UNCHANGED vars
  BY <1>1, <1>3 DEF vars
<1>4. ASSUME NEW e \in Events, EventStep(e) PROVE Contexts'
  BY <1>4, TokenStepsPreserve, ReceivePreserves, EnqueuePreserves, JobStepsPreserve
  DEF EventStep
<1>5. ASSUME NEW k \in Keys, StartJob(k) PROVE Contexts'
  BY <1>5, StartPreserves
<1>. QED BY <1>2, <1>3, <1>4, <1>5 DEF Next

LEMMA ContextsInvariant == Spec => []Contexts
  BY InitContexts, NextContexts, PTL DEF Spec

\* The type invariant: the tables have the types the code gives them, and a task waits
\* for a token exactly while it authenticates.
THEOREM TypeCorrect == Spec => []TypeOK
<1>1. Contexts => TypeOK
  BY DEF Contexts
<1>. QED BY <1>1, ContextsInvariant, PTL

\* A task acts for the installation of its pull request in every case.
LEMMA ContextsDecide ==
    ASSUME Contexts, NEW e \in Events, InRequest(e) \/ InJob(e)
    PROVE  ActiveFor(e) = Inst(KeyOf[e]) /\ Inst(KeyOf[e]) \in Installations
  BY KeyAssumption
  DEF Contexts, RequestContexts, ConsumerContexts, OneJobPerConsumer, InRequest, InJob,
      Inst, ActiveFor

\* The ContextVar of a request and of a consumer is never that of another repository,
\* however requests and consumers of several installations interleave.
THEOREM OwnInstallation == Spec => []ActsForItsInstallation
<1>1. Contexts => ActsForItsInstallation
  BY ContextsDecide
  DEF ActsForItsInstallation, AtWork, InRequest, InJob, Inst, Contexts, OneJobPerConsumer
<1>. QED BY <1>1, ContextsInvariant, PTL
-----------------------------------------------------------------------------
(* Times.                                                                  *)

\* A cached token dies at most Latency before the cache says so; a token is on its way
\* for at most Latency.
TokenTimes ==
    /\ \A i \in DOMAIN cache : cache[i].expires <= cache[i].issued + Lifetime + Latency
    /\ \A e \in DOMAIN answered : answered[e] <= clock /\ clock <= answered[e] + Latency

Relies(e) == stage[e] \in {"reacting", "working"}

\* Until the margin is used up, the cache holds a token that outlasts it.
TokensOutlastMargin ==
    \A e \in Events : Relies(e) =>
        /\ since[e] <= clock
        /\ clock <= since[e] + Margin =>
             /\ Inst(KeyOf[e]) \in DOMAIN cache
             /\ cache[Inst(KeyOf[e])].expires > since[e] + Margin

Times == TokenTimes /\ TokensOutlastMargin

LEMMA InitTimes == Init => Times
<1>. SUFFICES ASSUME Init PROVE Times
  OBVIOUS
<1>1. DOMAIN cache = {} /\ DOMAIN answered = {}
  BY DEF Init
<1>. QED BY <1>1 DEF Init, Times, TokenTimes, TokensOutlastMargin, Relies

\* Steps that leave clock and cache alone and let nobody new rely on a token.
LEMMA TimelessSteps ==
    ASSUME Times, UNCHANGED <<clock, cache>>,
           DOMAIN answered' \subseteq DOMAIN answered,
           \A e \in DOMAIN answered' : answered'[e] = answered[e],
           \A e \in Events : Relies(e)' => Relies(e) /\ since'[e] = since[e]
    PROVE  Times'
<1>1. TokenTimes'
  BY DEF Times, TokenTimes
<1>2. TokensOutlastMargin'
  BY DEF Times, TokensOutlastMargin, Inst, Active
<1>. QED BY <1>1, <1>2 DEF Times

\* ensure_auth() up to its first suspension.
LEMMA EnsureAuthTimes ==
    ASSUME Times, TypeOK, NEW e \in Events, NEW during \in {"webhook", "job"},
           NEW then \in Stage,
           EnsureAuth(e, Inst(KeyOf[e]), during, then), UNCHANGED <<clock, answered>>
    PROVE  Times'
<1>. USE KeyAssumption, TimeAssumption
<1>1. /\ stage' \in [Events -> Stage] /\ since' \in [Events -> Nat]
      /\ \A f \in Events \ {e} : stage'[f] = stage[f] /\ since'[f] = since[f]
      /\ \/ /\ stage'[e] = then /\ asked' = asked /\ since'[e] = clock
            /\ Inst(KeyOf[e]) \in DOMAIN cache' /\ ~Expiring(cache'[Inst(KeyOf[e])])
         \/ stage'[e] = during /\ asked' = asked \cup {e}
  BY EnsureAuthFacts DEF Stage
<1>2. /\ DOMAIN cache' = {i \in DOMAIN cache : clock < cache[i].expires}
      /\ \A j \in DOMAIN cache' : cache'[j] = cache[j]
  BY DEF EnsureAuth, Pruned, Restrict
<1>3. clock \in Nat /\ \A i \in DOMAIN cache : cache[i].expires \in Nat
  BY DEF TypeOK, Token
<1>4. TokenTimes'
  BY <1>2 DEF Times, TokenTimes
<1>5. ASSUME NEW f \in Events, Relies(f)', f # e
      PROVE  /\ since'[f] <= clock'
             /\ clock' <= since'[f] + Margin =>
                  /\ Inst(KeyOf[f]) \in DOMAIN cache'
                  /\ cache'[Inst(KeyOf[f])].expires > since'[f] + Margin
  <2>1. Relies(f) /\ since'[f] = since[f] /\ since[f] \in Nat
    BY <1>1, <1>5 DEF Relies, TypeOK
  <2>2. since[f] <= clock
    BY <2>1 DEF Times, TokensOutlastMargin
  <2>3. ASSUME clock <= since[f] + Margin
        PROVE  /\ Inst(KeyOf[f]) \in DOMAIN cache'
               /\ cache'[Inst(KeyOf[f])].expires > since[f] + Margin
    <3>1. /\ Inst(KeyOf[f]) \in DOMAIN cache
          /\ cache[Inst(KeyOf[f])].expires > since[f] + Margin
      BY <2>1, <2>3 DEF Times, TokensOutlastMargin
    <3>2. clock < cache[Inst(KeyOf[f])].expires
      BY <1>3, <2>1, <2>3, <3>1
    <3>. QED BY <1>2, <3>1, <3>2
  <2>. QED BY <2>1, <2>2, <2>3
<1>6. ASSUME Relies(e)'
      PROVE  /\ since'[e] = clock
             /\ Inst(KeyOf[e]) \in DOMAIN cache'
             /\ cache'[Inst(KeyOf[e])].expires > since'[e] + Margin
  <2>1. /\ since'[e] = clock
        /\ Inst(KeyOf[e]) \in DOMAIN cache' /\ ~Expiring(cache'[Inst(KeyOf[e])])
    BY <1>1, <1>6 DEF Relies
  <2>2. cache'[Inst(KeyOf[e])].expires \in Nat
    BY <1>2, <1>3, <2>1
  <2>. QED BY <1>3, <2>1, <2>2 DEF Expiring
<1>7. since'[e] = clock => since'[e] <= clock'
  BY <1>3
<1>8. TokensOutlastMargin'
  <2>1. \A k \in Keys : Inst(k)' = Inst(k)
    BY DEF Inst, Active
  <2>. QED BY <1>5, <1>6, <1>7, <2>1 DEF TokensOutlastMargin
<1>. QED BY <1>4, <1>8 DEF Times

LEMMA ArrivalTimes ==
    ASSUME Times, Contexts, NEW e \in Events, TokenArrives(e)
    PROVE  Times'
<1>. USE KeyAssumption, TimeAssumption
<1>1. stage[e] \in {"webhook", "job"} /\ e \in DOMAIN answered
  BY DEF TokenArrives, Contexts, TypeOK
<1>2. ActiveFor(e) = Inst(KeyOf[e])
  BY <1>1, ContextsDecide DEF InRequest, InJob
<1>. DEFINE i == Inst(KeyOf[e])
<1>3. /\ DOMAIN cache' = DOMAIN cache \cup {i}
      /\ cache'[i] = [issued |-> answered[e], expires |-> clock + Lifetime]
      /\ \A j \in DOMAIN cache \ {i} : cache'[j] = cache[j]
      /\ DOMAIN answered' = DOMAIN answered \ {e}
      /\ \A f \in DOMAIN answered' : answered'[f] = answered[f]
      /\ clock' = clock
  BY <1>2 DEF TokenArrives, Restrict
<1>4. /\ \A f \in Events \ {e} : stage'[f] = stage[f] /\ since'[f] = since[f]
      /\ since'[e] = clock
  BY DEF TokenArrives, Contexts, TypeOK
<1>5. clock \in Nat /\ answered[e] \in Nat /\ \A f \in Events : since[f] \in Nat
  BY <1>1 DEF Contexts, TypeOK
<1>. HIDE DEF i
<1>6. TokenTimes'
  <2>1. cache'[i].expires <= cache'[i].issued + Lifetime + Latency
    BY <1>1, <1>3, <1>5 DEF Times, TokenTimes
  <2>. QED BY <1>3, <2>1 DEF Times, TokenTimes
<1>7. ASSUME NEW f \in Events, Relies(f)'
      PROVE  /\ since'[f] <= clock'
             /\ clock' <= since'[f] + Margin =>
                  /\ Inst(KeyOf[f]) \in DOMAIN cache'
                  /\ cache'[Inst(KeyOf[f])].expires > since'[f] + Margin
  <2>1. since'[f] <= clock /\ since'[f] \in Nat
    BY <1>4, <1>5, <1>7 DEF Relies, Times, TokensOutlastMargin
  <2>2. CASE Inst(KeyOf[f]) = i
    <3>1. cache'[i].expires = clock + Lifetime
      BY <1>3
    <3>. QED BY <1>3, <1>5, <2>1, <2>2, <3>1
  <2>3. CASE Inst(KeyOf[f]) # i
    <3>1. f # e
      BY <2>3 DEF i
    <3>2. Relies(f) /\ since'[f] = since[f]
      BY <1>4, <1>7, <3>1 DEF Relies
    <3>. QED BY <1>3, <2>1, <2>3, <3>2 DEF Times, TokensOutlastMargin
  <2>. QED BY <2>2, <2>3
<1>8. TokensOutlastMargin'
  <2>1. \A k \in Keys : Inst(k)' = Inst(k)
    BY DEF Inst, Active
  <2>. QED BY <1>7, <2>1 DEF TokensOutlastMargin
<1>. QED BY <1>6, <1>8 DEF Times

LEMMA NextTimes == Times /\ Contexts /\ [Next]_vars => Times'
<1>. SUFFICES ASSUME Times, Contexts, [Next]_vars PROVE Times'
  OBVIOUS
<1>. USE KeyAssumption, TimeAssumption
<1>1. CASE Tick
  <2>1. TokenTimes'
    BY <1>1 DEF Tick, Times, TokenTimes, Contexts, TypeOK
  <2>2. TokensOutlastMargin'
    BY <1>1 DEF Tick, Times, TokensOutlastMargin, Relies, Contexts, TypeOK, Inst, Active
  <2>. QED BY <2>1, <2>2 DEF Times
<1>2. CASE UNCHANGED vars
  BY <1>2, TimelessSteps DEF vars, Relies
<1>3. ASSUME NEW e \in Events, EventStep(e) PROVE Times'
  <2>1. CASE GitHubIssues(e)
    <3>1. /\ UNCHANGED <<clock, cache, stage, since>> /\ clock \in Nat
          /\ DOMAIN answered' = DOMAIN answered \cup {e} /\ answered'[e] = clock
          /\ \A f \in DOMAIN answered : f # e => answered'[f] = answered[f]
      BY <2>1 DEF GitHubIssues, Contexts, TypeOK
    <3>2. TokenTimes'
      BY <3>1 DEF Times, TokenTimes
    <3>3. TokensOutlastMargin'
      BY <3>1 DEF Times, TokensOutlastMargin, Relies, Inst, Active
    <3>. QED BY <3>2, <3>3 DEF Times
  <2>2. CASE TokenArrives(e)
    BY <2>2, ArrivalTimes
  <2>3. CASE TokenRefused(e)
    <3>1. UNCHANGED <<clock, cache, since>> /\ stage \in [Events -> Stage]
          /\ stage' = [stage EXCEPT ![e] = IF stage[e] = "webhook" THEN "rejected"
                                           ELSE "apologising"]
      BY <2>3 DEF TokenRefused, Contexts, TypeOK
    <3>2. DOMAIN answered' \subseteq DOMAIN answered
          /\ \A f \in DOMAIN answered' : answered'[f] = answered[f]
      BY <2>3 DEF TokenRefused, Restrict
    <3>3. \A f \in Events : Relies(f)' => Relies(f) /\ since'[f] = since[f]
      BY <3>1 DEF Relies
    <3>. QED BY <3>1, <3>2, <3>3, TimelessSteps
  <2>4. CASE Receive(e)
    <3>1. /\ stage[e] = "absent" /\ UNCHANGED <<clock, answered>>
          /\ ctx'[e] = InstallationOf[KeyOf[e]]
      BY <2>4 DEF Receive, ReceiveIn, Contexts, TypeOK
    <3>2. CASE Active(ctx'[e]) = NoInstallation
      <4>1. stage' = [stage EXCEPT ![e] = "rejected"] /\ UNCHANGED <<cache, asked, since>>
        BY <2>4, <3>2 DEF Receive, ReceiveIn
      <4>2. \A f \in Events : Relies(f)' => Relies(f)
        BY <4>1 DEF Relies, Contexts, TypeOK
      <4>. QED BY <3>1, <4>1, <4>2, TimelessSteps
    <3>3. CASE Active(ctx'[e]) # NoInstallation
      <4>1. EnsureAuth(e, Active(ctx'[e]), "webhook", "reacting")
        BY <2>4, <3>3 DEF Receive, ReceiveIn
      <4>2. Active(ctx'[e]) = Inst(KeyOf[e])
        BY <3>1 DEF Inst
      <4>3. EnsureAuth(e, Inst(KeyOf[e]), "webhook", "reacting")
        BY <4>1, <4>2
      <4>. QED BY <3>1, <4>3, EnsureAuthTimes DEF Contexts, Stage
    <3>. QED BY <3>2, <3>3
  <2>5. CASE Enqueue(e)
    <3>1. UNCHANGED <<clock, cache, answered>>
          /\ stage' = [stage EXCEPT ![e] = "queued"] /\ since' = [since EXCEPT ![e] = 0]
      BY <2>5 DEF Enqueue
    <3>2. \A f \in Events : Relies(f)' => Relies(f) /\ since'[f] = since[f]
      BY <3>1 DEF Relies, Contexts, TypeOK
    <3>. QED BY <3>1, <3>2, TimelessSteps
  <2>6. CASE PostReview(e) \/ JobFails(e) \/ Apologise(e)
    <3>0. /\ stage \in [Events -> Stage] /\ since \in [Events -> Nat]
          /\ \/ EndJob(e)
             \/ stage' = [stage EXCEPT ![e] = "apologising"] /\ since' = since
      BY <2>6 DEF PostReview, JobFails, Apologise, Contexts, TypeOK
    <3>1. /\ UNCHANGED <<clock, cache, answered>>
          /\ stage'[e] \in {"done", "apologising"}
          /\ \A f \in Events \ {e} : stage'[f] = stage[f] /\ since'[f] = since[f]
      BY <2>6, <3>0 DEF PostReview, JobFails, Apologise, EndJob
    <3>2. \A f \in Events : Relies(f)' => Relies(f) /\ since'[f] = since[f]
      BY <3>1 DEF Relies
    <3>. QED BY <3>1, <3>2, TimelessSteps
  <2>. QED BY <1>3, <2>1, <2>2, <2>3, <2>4, <2>5, <2>6 DEF EventStep
<1>4. ASSUME NEW k \in Keys, StartJob(k) PROVE Times'
  <2>. DEFINE e == Head(waiting[k])
  <2>1. /\ k \in DOMAIN consumer /\ waiting[k] # <<>> /\ waiting[k] \in Seq(Events)
        /\ EnsureAuth(e, Active(consumer[k]), "job", "working")
        /\ UNCHANGED <<clock, answered>>
    BY <1>4 DEF StartJob, Contexts, TypeOK
  <2>2. e \in Events /\ KeyOf[e] = k
    BY <2>1, TailFacts DEF Contexts, WaitingAreQueued
  <2>. HIDE DEF e
  <2>3. Active(consumer[k]) = Inst(KeyOf[e])
    BY <2>1, <2>2 DEF Contexts, ConsumerContexts, Inst
  <2>4. EnsureAuth(e, Inst(KeyOf[e]), "job", "working")
    BY <2>1, <2>3
  <2>. QED BY <2>1, <2>2, <2>4, EnsureAuthTimes DEF Contexts, Stage
<1>. QED BY <1>1, <1>2, <1>3, <1>4 DEF Next

LEMMA TimesInvariant == Spec => [](Times /\ Contexts)
<1>1. Init => Times /\ Contexts
  BY InitTimes, InitContexts
<1>2. Times /\ Contexts /\ [Next]_vars => (Times /\ Contexts)'
  BY NextTimes, NextContexts
<1>. QED BY <1>1, <1>2, PTL DEF Spec

LEMMA TimesGiveLiveness ==
    ASSUME Times, Contexts, NEW e \in Events, Relies(e),
           clock + Latency <= since[e] + Margin
    PROVE  Live(e)
<1>. USE KeyAssumption, TimeAssumption
<1>1. ActiveFor(e) = Inst(KeyOf[e])
  BY ContextsDecide DEF Relies, InRequest, InJob
<1>. DEFINE i == Inst(KeyOf[e])
<1>2. clock \in Nat /\ since[e] \in Nat
  BY DEF Contexts, TypeOK
<1>3. i \in DOMAIN cache /\ cache[i].expires > since[e] + Margin
  BY <1>2 DEF Times, TokensOutlastMargin
<1>4. cache[i].expires <= cache[i].issued + Lifetime + Latency
      /\ cache[i].expires \in Nat /\ cache[i].issued \in Nat
  BY <1>3 DEF Times, TokenTimes, Contexts, TypeOK, Token
<1>. QED BY <1>1, <1>2, <1>3, <1>4 DEF Live, Cached

\* The refresh margin, less the latency of the refresh, is how long every task may rely
\* on its token after authenticate(), whatever other tasks do to the cache.
THEOREM MarginGuarantee == Spec => []MarginIsGuaranteed
<1>1. Times /\ Contexts => MarginIsGuaranteed
  BY TimesGiveLiveness DEF MarginIsGuaranteed, Relies
<1>. QED BY <1>1, TimesInvariant, PTL
=============================================================================

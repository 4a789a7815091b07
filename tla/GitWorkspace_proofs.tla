------------------------ MODULE GitWorkspace_proofs ------------------------
(***************************************************************************)
(* The clones of pull requests, for every set of events and pull requests. *)
(*                                                                         *)
(* The argument: a job is on the way to its git command, under it or past  *)
(* it, one at a time (JobsWithClones); a failure is never taken back, so   *)
(* that a key without failures had none before either (Calm); and there    *)
(* the clone exists from the first git command on (ClonesExist).           *)
(***************************************************************************)
EXTENDS GitWorkspace, GitHubAuth_proofs

\* No job of the pull request has failed.
Calm(k) == \A f \in Events : KeyOf[f] = k => ~Failed(f)

\* A git command whose job is no longer working is what a failed job left behind.
JobsWithClones ==
    /\ DOMAIN url \cup DOMAIN git \cup ready \subseteq Events
    /\ \A e \in DOMAIN url \cup ready : stage[e] = "working" /\ e \notin DOMAIN git
    /\ DOMAIN url \cap ready = {}
    /\ \A e \in DOMAIN git : stage[e] = "working" \/ Failed(e)
    /\ \A e \in Events : result[e] # "none" => stage[e] = "done"

ClonesExist ==
    \A e \in DOMAIN git \cup ready : Calm(KeyOf[e]) => KeyOf[e] \in DOMAIN origin

IInv == Contexts /\ JobsWithClones /\ ClonesExist

LEMMA InitIInv == GitInit => IInv
<1>. SUFFICES ASSUME GitInit
              PROVE  IInv
  OBVIOUS
<1>1. Contexts
  BY InitContexts DEF GitInit
<1>2. DOMAIN url = {} /\ DOMAIN git = {} /\ ready = {} /\ result = [e \in Events |-> "none"]
  BY DEF GitInit, Init
<1>. QED BY <1>1, <1>2 DEF IInv, JobsWithClones, ClonesExist

-----------------------------------------------------------------------------
(* Steps of GitHubAuth.                                                    *)

\* With clones, jobs are still the jobs of GitHubAuth.
THEOREM JobsAreTheSame == GitSpec => Spec
<1>1. GitInit => Init
  BY DEF GitInit
<1>2. [GitNext]_allVars => [Next]_vars
  <2>. SUFFICES ASSUME [GitNext]_allVars
                PROVE  [Next]_vars
    OBVIOUS
  <2>1. ASSUME NEW e \in Events,
               \/ JobGetsToken(e) \/ GitRefused(e) \/ JobRaises(e) \/ ReviewIsPosted(e)
               \/ OtherStep(e)
        PROVE  Next
    BY <2>1 DEF JobGetsToken, GitRefused, JobRaises, ReviewIsPosted, OtherStep, Next, EventStep
  <2>2. ASSUME NEW e \in Events, GitStarts(e) \/ GitSucceeds(e) \/ GitFails(e)
        PROVE  [Next]_vars
    BY <2>2 DEF GitStarts, GitSucceeds, GitFails, Next, EventStep
  <2>3. ASSUME NEW k \in Keys, JobStarts(k)
        PROVE  Next
    BY <2>3 DEF JobStarts, Next
  <2>4. CASE Tick
    BY <2>4 DEF Next
  <2>5. CASE UNCHANGED allVars
    BY <2>5 DEF allVars
  <2>. QED BY <2>1, <2>2, <2>3, <2>4, <2>5 DEF GitNext
<1>. QED BY <1>1, <1>2, PTL DEF GitSpec, Spec

\* A step of one event leaves the others alone, takes no failure back, and results are final.
LEMMA EventStepFacts ==
    ASSUME IInv, NEW e \in Events, EventStep(e)
    PROVE  /\ \A f \in Events \ {e} : stage'[f] = stage[f] /\ result'[f] = result[f]
           /\ Failed(e) => Failed(e)'
           /\ result'[e] # "none" => stage'[e] = "done"
<1>. USE DEF IInv, Contexts, TypeOK
<1>1. CASE GitHubIssues(e) \/ TokenArrives(e) \/ TokenRefused(e)
  <2>1. e \in asked /\ stage[e] \in {"webhook", "job"}
    BY <1>1 DEF GitHubIssues, TokenArrives, TokenRefused
  <2>2. /\ UNCHANGED result
        /\ \A f \in Events \ {e} : stage'[f] = stage[f]
    BY <1>1 DEF GitHubIssues, TokenArrives, TokenRefused
  <2>3. ~Failed(e) /\ result[e] = "none"
    BY <2>1 DEF JobsWithClones, Failed
  <2>. QED BY <2>2, <2>3
<1>2. CASE Receive(e)
  <2>1. stage[e] = "absent" /\ UNCHANGED result
    BY <1>2 DEF Receive, ReceiveIn
  <2>2. \A f \in Events \ {e} : stage'[f] = stage[f]
    BY <1>2 DEF Receive, ReceiveIn, EnsureAuth
  <2>3. ~Failed(e) /\ result[e] = "none"
    BY <2>1 DEF JobsWithClones, Failed
  <2>. QED BY <2>1, <2>2, <2>3
<1>3. CASE Enqueue(e)
  BY <1>3 DEF Enqueue, JobsWithClones, Failed
<1>4. CASE PostReview(e)
  <2>1. result[e] = "none" /\ ~Failed(e)
    BY <1>4 DEF PostReview, JobsWithClones, Failed
  <2>. QED BY <1>4, <2>1 DEF PostReview, EndJob
<1>5. CASE JobFails(e)
  BY <1>5 DEF JobFails, JobsWithClones, Failed
<1>6. CASE Apologise(e)
  BY <1>6 DEF Apologise, EndJob, Failed
<1>. QED BY <1>1, <1>2, <1>3, <1>4, <1>5, <1>6 DEF EventStep

LEMMA StartJobFacts ==
    ASSUME IInv, NEW k \in Keys, StartJob(k)
    PROVE  /\ Head(waiting[k]) \in Events /\ stage[Head(waiting[k])] = "queued"
           /\ UNCHANGED result
           /\ \A f \in Events \ {Head(waiting[k])} : stage'[f] = stage[f]
<1>. USE DEF IInv, Contexts, TypeOK
<1>1. waiting[k] \in Seq(Events) /\ waiting[k] # <<>>
  BY DEF StartJob
<1>2. Head(waiting[k]) \in Events /\ 1 \in DOMAIN waiting[k] /\ Head(waiting[k]) = waiting[k][1]
  BY <1>1, TailFacts
<1>3. stage[Head(waiting[k])] = "queued"
  BY <1>2 DEF WaitingAreQueued
<1>4. UNCHANGED result /\ \A f \in Events \ {Head(waiting[k])} : stage'[f] = stage[f]
  BY <1>2 DEF StartJob, EnsureAuth
<1>. QED BY <1>2, <1>3, <1>4

\* What follows for all events: a key that is calm was calm before.
LEMMA FailuresStay ==
    ASSUME IInv, NEW e \in Events,
           \A f \in Events \ {e} : stage'[f] = stage[f] /\ result'[f] = result[f],
           Failed(e) => Failed(e)',
           result'[e] # "none" => stage'[e] = "done"
    PROVE  /\ \A f \in Events : Failed(f) => Failed(f)'
           /\ \A k : Calm(k)' => Calm(k)
           /\ \A f \in Events : result'[f] # "none" => stage'[f] = "done"
<1>1. \A f \in Events : Failed(f) => Failed(f)'
  BY DEF Failed
<1>2. \A f \in Events : result'[f] # "none" => stage'[f] = "done"
  BY DEF IInv, JobsWithClones
<1>. QED BY <1>1, <1>2 DEF Calm

-----------------------------------------------------------------------------
(* Steps of the clones.                                                    *)

\* A clone URL is built for a job that begins to work.
LEMMA BuildPreserves ==
    ASSUME IInv, NEW e \in Events, BuildCloneUrl(e), UNCHANGED <<origin, git, ready>>,
           stage[e] \notin {"working", "apologising", "done"},
           UNCHANGED result, \A f \in Events \ {e} : stage'[f] = stage[f]
    PROVE  JobsWithClones' /\ ClonesExist'
<1>. USE DEF IInv
<1>1. ~Failed(e) /\ result[e] = "none" /\ e \notin DOMAIN url \cup DOMAIN git \cup ready
  BY DEF JobsWithClones, Failed
<1>2. /\ \A f \in Events : Failed(f) => Failed(f)'
      /\ \A k : Calm(k)' => Calm(k)
      /\ \A f \in Events : result'[f] # "none" => stage'[f] = "done"
  <2>1. \A f \in Events \ {e} : stage'[f] = stage[f] /\ result'[f] = result[f]
    OBVIOUS
  <2>. QED BY <1>1, <2>1, FailuresStay
<1>3. /\ DOMAIN url \subseteq DOMAIN url' /\ DOMAIN url' \subseteq DOMAIN url \cup {e}
      /\ e \in DOMAIN url' => stage'[e] = "working"
  BY <1>1 DEF BuildCloneUrl
<1>4. JobsWithClones'
  BY <1>1, <1>2, <1>3 DEF JobsWithClones
<1>. QED BY <1>2, <1>4 DEF ClonesExist

LEMMA GitStartsPreserves ==
    ASSUME IInv, NEW e \in Events, GitStarts(e)
    PROVE  JobsWithClones' /\ ClonesExist'
<1>. USE DEF IInv
<1>1. e \in DOMAIN url /\ stage[e] = "working" /\ UNCHANGED <<stage, result, ready>>
  BY DEF GitStarts, vars
<1>2. DOMAIN url' = DOMAIN url \ {e} /\ DOMAIN git' = DOMAIN git \cup {e}
      /\ DOMAIN origin' = DOMAIN origin \cup {KeyOf[e]}
  BY DEF GitStarts, Without, Restrict, OriginFor
<1>3. JobsWithClones'
  BY <1>1, <1>2 DEF JobsWithClones, Failed
<1>4. ClonesExist'
  BY <1>1, <1>2 DEF ClonesExist, Calm, Failed
<1>. QED BY <1>3, <1>4

LEMMA GitSucceedsPreserves ==
    ASSUME IInv, NEW e \in Events, GitSucceeds(e)
    PROVE  JobsWithClones' /\ ClonesExist'
<1>. USE DEF IInv
<1>1. /\ e \in DOMAIN git /\ DOMAIN git' = DOMAIN git \ {e}
      /\ UNCHANGED <<stage, result, url, origin>>
      /\ ready' = ready \/ (stage[e] = "working" /\ ready' = ready \cup {e})
  BY DEF GitSucceeds, vars, Without, Restrict
<1>2. JobsWithClones'
  BY <1>1 DEF JobsWithClones, Failed
<1>3. ClonesExist'
  BY <1>1 DEF ClonesExist, Calm, Failed
<1>. QED BY <1>2, <1>3

\* A clone that fails takes the directory away, and its job with it.
LEMMA GitFailsPreserves ==
    ASSUME IInv, NEW e \in Events, GitFails(e)
    PROVE  JobsWithClones' /\ ClonesExist'
<1>. USE DEF IInv
<1>1. /\ e \in DOMAIN git /\ DOMAIN git' = DOMAIN git \ {e} /\ UNCHANGED <<url, ready>>
      /\ stage[e] = "working" \/ Failed(e)
  BY DEF GitFails, Without, Restrict, JobsWithClones
<1>2. /\ \A f \in Events \ {e} : stage'[f] = stage[f] /\ result'[f] = result[f]
      /\ Failed(e)'
      /\ result'[e] # "none" => stage'[e] = "done"
  <2>1. CASE stage[e] = "working"
    <3>1. JobFails(e)
      BY <2>1 DEF GitFails
    <3>2. stage' = [stage EXCEPT ![e] = "apologising"] /\ UNCHANGED result
      BY <3>1 DEF JobFails
    <3>. QED BY <2>1, <3>2 DEF Contexts, TypeOK, Failed, JobsWithClones
  <2>2. CASE stage[e] # "working"
    BY <1>1, <2>2 DEF GitFails, vars, Failed, JobsWithClones
  <2>. QED BY <2>1, <2>2
<1>3. /\ \A f \in Events : Failed(f) => Failed(f)'
      /\ \A k : Calm(k)' => Calm(k)
      /\ \A f \in Events : result'[f] # "none" => stage'[f] = "done"
  BY <1>2, FailuresStay
<1>4. JobsWithClones'
  BY <1>1, <1>2, <1>3 DEF JobsWithClones
<1>5. ClonesExist'
  <2>1. ~Calm(KeyOf[e])'
    BY <1>2 DEF Calm
  <2>2. \A k \in DOMAIN origin : k # KeyOf[e] => k \in DOMAIN origin'
    BY DEF GitFails, Without, Restrict
  <2>. QED BY <1>1, <1>3, <2>1, <2>2 DEF ClonesExist
<1>. QED BY <1>4, <1>5

\* A job whose clone URL was not used yet, or whose workspace is ready, comes to its end.
LEMMA JobEndsPreserves ==
    ASSUME IInv, NEW e \in Events, GitRefused(e) \/ JobRaises(e) \/ ReviewIsPosted(e)
    PROVE  JobsWithClones' /\ ClonesExist'
<1>. USE DEF IInv
<1>1. EventStep(e) /\ stage[e] = "working" /\ UNCHANGED <<origin, git>>
  BY DEF GitRefused, JobRaises, ReviewIsPosted, EventStep, JobFails, PostReview
<1>2. /\ DOMAIN url' \subseteq DOMAIN url \ {e} /\ ready' \subseteq ready \ {e}
      /\ e \in DOMAIN git => JobFails(e)
  <2>1. CASE GitRefused(e)
    BY <2>1 DEF GitRefused, Without, Restrict, JobsWithClones
  <2>2. CASE JobRaises(e)
    BY <2>2 DEF JobRaises, Without, Restrict
  <2>3. CASE ReviewIsPosted(e)
    BY <2>3 DEF ReviewIsPosted, JobsWithClones
  <2>. QED BY <2>1, <2>2, <2>3
<1>3. e \in DOMAIN git => Failed(e)'
  BY <1>2 DEF JobFails, Failed, Contexts, TypeOK
<1>4. \A f \in Events \ {e} : stage'[f] = stage[f] /\ result'[f] = result[f]
  BY <1>1, EventStepFacts
<1>5. /\ \A f \in Events : Failed(f) => Failed(f)'
      /\ \A k : Calm(k)' => Calm(k)
      /\ \A f \in Events : result'[f] # "none" => stage'[f] = "done"
  BY <1>1, EventStepFacts, FailuresStay
<1>6. JobsWithClones'
  BY <1>1, <1>2, <1>3, <1>4, <1>5 DEF JobsWithClones
<1>7. ClonesExist'
  BY <1>1, <1>2, <1>5 DEF ClonesExist
<1>. QED BY <1>6, <1>7

LEMMA OtherStepPreserves ==
    ASSUME IInv, NEW e \in Events, OtherStep(e), UNCHANGED gitVars
    PROVE  JobsWithClones' /\ ClonesExist'
<1>. USE DEF IInv, gitVars
<1>1. EventStep(e) /\ stage[e] # "working"
  BY DEF OtherStep, EventStep, GitHubIssues, TokenRefused, Receive, ReceiveIn, Enqueue, Apologise,
         Contexts, TypeOK
<1>2. \A f \in Events \ {e} : stage'[f] = stage[f] /\ result'[f] = result[f]
  BY <1>1, EventStepFacts
<1>3. /\ \A f \in Events : Failed(f) => Failed(f)'
      /\ \A k : Calm(k)' => Calm(k)
      /\ \A f \in Events : result'[f] # "none" => stage'[f] = "done"
  BY <1>1, EventStepFacts, FailuresStay
<1>4. JobsWithClones'
  BY <1>1, <1>2, <1>3 DEF JobsWithClones
<1>5. ClonesExist'
  BY <1>3 DEF ClonesExist
<1>. QED BY <1>4, <1>5

LEMMA GitNextPreserves ==
    ASSUME IInv, [GitNext]_allVars
    PROVE  JobsWithClones' /\ ClonesExist'
<1>1. ASSUME NEW k \in Keys, JobStarts(k)
      PROVE  JobsWithClones' /\ ClonesExist'
  <2>. DEFINE e == Head(waiting[k])
  <2>1. StartJob(k) /\ BuildCloneUrl(e) /\ UNCHANGED <<origin, git, ready>>
    BY <1>1 DEF JobStarts
  <2>2. /\ e \in Events /\ stage[e] = "queued" /\ UNCHANGED result
        /\ \A f \in Events \ {e} : stage'[f] = stage[f]
    BY <2>1, StartJobFacts
  <2>. HIDE DEF e
  <2>. QED BY <2>1, <2>2, BuildPreserves
<1>2. ASSUME NEW e \in Events, JobGetsToken(e)
      PROVE  JobsWithClones' /\ ClonesExist'
  <2>1. /\ TokenArrives(e) /\ BuildCloneUrl(e) /\ UNCHANGED <<origin, git, ready>>
        /\ UNCHANGED result
    BY <1>2 DEF JobGetsToken, TokenArrives
  <2>2. stage[e] \in {"webhook", "job"}
    BY <2>1 DEF TokenArrives, IInv, Contexts, TypeOK
  <2>3. \A f \in Events \ {e} : stage'[f] = stage[f]
    BY <2>1 DEF TokenArrives, IInv, Contexts, TypeOK
  <2>. QED BY <2>1, <2>2, <2>3, BuildPreserves
<1>3. CASE UNCHANGED <<stage, result, gitVars>>
  BY <1>3 DEF gitVars, IInv, JobsWithClones, ClonesExist, Calm, Failed
<1>4. CASE Tick /\ UNCHANGED gitVars
  BY <1>3, <1>4 DEF Tick
<1>5. CASE UNCHANGED allVars
  BY <1>3, <1>5 DEF allVars, vars
<1>. QED
  BY <1>1, <1>2, <1>4, <1>5, GitStartsPreserves, GitSucceedsPreserves, GitFailsPreserves,
     JobEndsPreserves, OtherStepPreserves
  DEF GitNext

LEMMA Invariance == GitSpec => []IInv
<1>1. IInv /\ [GitNext]_allVars => (JobsWithClones /\ ClonesExist)'
  BY GitNextPreserves
<1>2. GitSpec => []Contexts
  BY JobsAreTheSame, ContextsInvariant, PTL
<1>3. GitInit => JobsWithClones /\ ClonesExist
  BY InitIInv DEF IInv
<1>4. IInv <=> Contexts /\ JobsWithClones /\ ClonesExist
  BY DEF IInv
<1>. QED BY <1>1, <1>2, <1>3, <1>4, PTL DEF GitSpec

\* A workspace in use is rewritten only by what failed jobs left running, and is missing
\* only after a failure.
THEOREM WorkspacesAreStable == GitSpec => []WorkspaceIsStable
<1>1. ASSUME IInv, NEW e \in ready, NEW f \in DOMAIN git, KeyOf[f] = KeyOf[e], ~Failed(f)
      PROVE  FALSE
  <2>1. /\ e \in Events /\ f \in Events /\ e \notin DOMAIN git
        /\ stage[e] = "working" /\ stage[f] = "working"
    BY <1>1 DEF IInv, JobsWithClones
  <2>. QED BY <1>1, <2>1 DEF IInv, Contexts, OneJobPerConsumer, InJob
<1>2. ASSUME IInv, NEW e \in ready, KeyOf[e] \notin DOMAIN origin
      PROVE  \E f \in Events : KeyOf[f] = KeyOf[e] /\ Failed(f)
  BY <1>2 DEF IInv, ClonesExist, Calm
<1>3. IInv => WorkspaceIsStable
  BY <1>1, <1>2 DEF WorkspaceIsStable
<1>. QED BY <1>3, Invariance, PTL
=============================================================================

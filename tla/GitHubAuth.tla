----------------------------- MODULE GitHubAuth -----------------------------
(***************************************************************************)
(* A GitHub App in the webhook server: the cache of installation tokens    *)
(* (platforms/github/auth.py), the installation each asyncio task acts for *)
(* (_installation_ctx of platforms/github/platform.py), and the tasks that *)
(* use both: one per webhook request, one queue consumer per pull request. *)
(*                                                                         *)
(* A task copies the context of the task that creates it.  A webhook       *)
(* request sets its own; a consumer keeps the context of the request that  *)
(* created it, whatever the events it takes later.                         *)
(*                                                                         *)
(* Only events that become jobs are modelled: the others authenticate and  *)
(* stop.  Personal access tokens are constants and have no state.          *)
(***************************************************************************)
EXTENDS Naturals, Sequences, Functions

CONSTANTS
    Events,           \* webhook requests
    Keys,             \* pull requests
    KeyOf,            \* pull request of each event
    Installations,
    NoInstallation,   \* NO_INSTALLATION
    InstallationOf,   \* installation.id in the payloads of a pull request
    Fixed,            \* _fixed_installation_id
    Lifetime,         \* of a token, 3600 seconds
    Margin,           \* TOKEN_REFRESH_MARGIN_SECONDS
    Latency,          \* bound on the duration of a request, its timeout
    MaxClock          \* bound on the length of a behaviour

ASSUME KeyAssumption == KeyOf \in [Events -> Keys]
ASSUME InstallationAssumption ==
    /\ NoInstallation \notin Installations
    /\ InstallationOf \in [Keys -> Installations \cup {NoInstallation}]
    /\ Fixed \in Installations \cup {NoInstallation}
ASSUME TimeAssumption ==
    /\ {Lifetime, Margin, Latency, MaxClock} \subseteq Nat
    /\ Margin < Lifetime

VARIABLES
    clock,     \* time.monotonic()
    cache,     \* _token_cache: installation to token; issued is GitHub's knowledge
    ctx,       \* _installation_ctx in the task of each request
    consumer,  \* _installation_ctx in the consumer task of each pull request
    waiting,   \* jobs of each pull request that wait for the consumer
    stage,     \* progress of each event
    asked,     \* events whose task waits for a token from GitHub
    answered,  \* when GitHub issued the token that is on its way to a task
    since,     \* history: when authenticate() returned, in a task that relies on it
    result     \* what the pull request got to see of each job

vars == <<clock, cache, ctx, consumer, waiting, stage, asked, answered, since, result>>

Stage == {"absent", "webhook", "reacting", "rejected", "queued",
          "job", "working", "apologising", "done"}

Init ==
    /\ clock = 0
    /\ cache = <<>>
    /\ ctx = [e \in Events |-> NoInstallation]
    /\ consumer = <<>>
    /\ waiting = [k \in Keys |-> <<>>]
    /\ stage = [e \in Events |-> "absent"]
    /\ asked = {}
    /\ answered = <<>>
    /\ since = [e \in Events |-> 0]
    /\ result = [e \in Events |-> "none"]

-----------------------------------------------------------------------------
(* The token cache                                                         *)

\* _active_installation_id() in a task with context c.
Active(c) == IF c = NoInstallation THEN Fixed ELSE c

\* The installation for which the task that handles event e acts.
ActiveFor(e) ==
    Active(IF stage[e] \in {"webhook", "reacting"} THEN ctx[e] ELSE consumer[KeyOf[e]])

\* _prune_expired_entries()
Pruned == Restrict(cache, {i \in DOMAIN cache : clock < cache[i].expires})

\* Fault: no margin.
ExpiringLate(entry) == clock >= entry.expires

\* _is_entry_expiring()
Expiring(entry) == clock + Margin >= entry.expires

\* Fault: the refresh is started and not awaited.
EnsureAuthInBackground(e, i, during, then) ==
    /\ cache' = Pruned
    /\ stage' = [stage EXCEPT ![e] = then]
    /\ since' = [since EXCEPT ![e] = clock]
    /\ asked' = IF i \in DOMAIN Pruned /\ ~Expiring(Pruned[i]) THEN asked ELSE asked \cup {e}

\* ensure_auth() up to its first suspension, for event e under installation i:
\* on to stage "then" if the cached token does, to "during" if GitHub is asked.
EnsureAuth(e, i, during, then) ==
    /\ cache' = Pruned
    /\ IF i \in DOMAIN Pruned /\ ~Expiring(Pruned[i])
       THEN /\ stage' = [stage EXCEPT ![e] = then]
            /\ since' = [since EXCEPT ![e] = clock]
            /\ asked' = asked
       ELSE /\ stage' = [stage EXCEPT ![e] = during]
            /\ asked' = asked \cup {e}
            /\ since' = since

\* GitHub answers with a token that is live from this moment.
GitHubIssues(e) ==
    /\ e \in asked
    /\ e \notin DOMAIN answered
    /\ answered' = [x \in DOMAIN answered \cup {e} |-> IF x = e THEN clock ELSE answered[x]]
    /\ UNCHANGED <<clock, cache, ctx, consumer, waiting, stage, asked, since, result>>

\* The stage after authenticate() of a request, or of execute_job().
Authenticated(s) == IF s = "webhook" THEN "reacting" ELSE "working"

\* The answer arrives: the lifetime is counted from now.
TokenArrives(e) ==
    /\ e \in DOMAIN answered
    /\ cache' = [i \in DOMAIN cache \cup {ActiveFor(e)} |->
                   IF i = ActiveFor(e)
                   THEN [issued |-> answered[e], expires |-> clock + Lifetime]
                   ELSE cache[i]]
    /\ stage' = [stage EXCEPT ![e] = Authenticated(stage[e])]
    /\ since' = [since EXCEPT ![e] = clock]
    /\ asked' = asked \ {e}
    /\ answered' = Restrict(answered, DOMAIN answered \ {e})
    /\ UNCHANGED <<clock, ctx, consumer, waiting, result>>

\* No token: a request is answered with 500; handle_agent_errors() takes over a job.
TokenRefused(e) ==
    /\ e \in asked
    /\ stage' = [stage EXCEPT ![e] = IF stage[e] = "webhook" THEN "rejected"
                                     ELSE "apologising"]
    /\ asked' = asked \ {e}
    /\ answered' = Restrict(answered, DOMAIN answered \ {e})
    /\ UNCHANGED <<clock, cache, ctx, consumer, waiting, since, result>>

-----------------------------------------------------------------------------
(* Webhook requests                                                        *)

\* Up to the first suspension.  acknowledge_event() authenticates again, at once
\* after the first time: nothing changes between the two.
ReceiveIn(e, contexts) ==
    /\ stage[e] = "absent"
    /\ ctx' = contexts
    /\ \/ /\ Active(ctx'[e]) = NoInstallation
          /\ stage' = [stage EXCEPT ![e] = "rejected"]
          /\ UNCHANGED <<cache, asked, since>>
       \/ /\ Active(ctx'[e]) # NoInstallation
          /\ EnsureAuth(e, Active(ctx'[e]), "webhook", "reacting")
    /\ UNCHANGED <<clock, consumer, waiting, answered, result>>

\* Fault: the installation is an attribute of the platform object.
ReceiveShared(e) == ReceiveIn(e, [x \in Events |-> InstallationOf[KeyOf[e]]])

Receive(e) == ReceiveIn(e, [ctx EXCEPT ![e] = InstallationOf[KeyOf[e]]])

\* The reaction is posted; enqueue() creates a consumer if the key has none.
Enqueue(e) ==
    LET k == KeyOf[e] IN
    /\ stage[e] = "reacting"
    /\ stage' = [stage EXCEPT ![e] = "queued"]
    /\ waiting' = [waiting EXCEPT ![k] = Append(@, e)]
    /\ consumer' = [x \in DOMAIN consumer \cup {k} |->
                      IF x \in DOMAIN consumer THEN consumer[x] ELSE ctx[e]]
    /\ since' = [since EXCEPT ![e] = 0]
    /\ UNCHANGED <<clock, cache, ctx, asked, answered, result>>

-----------------------------------------------------------------------------
(* Jobs: the consumer of a key runs execute_job()                          *)

\* Fault: the next job starts while one is working.
BusyAuthenticating(k) ==
    \E e \in Events : KeyOf[e] = k /\ stage[e] \in {"job", "apologising"}

Busy(k) == \E e \in Events : KeyOf[e] = k /\ stage[e] \in {"job", "working", "apologising"}

StartJob(k) ==
    /\ k \in DOMAIN consumer
    /\ ~Busy(k)
    /\ waiting[k] # <<>>
    /\ waiting' = [waiting EXCEPT ![k] = Tail(@)]
    /\ EnsureAuth(Head(waiting[k]), Active(consumer[k]), "job", "working")
    /\ UNCHANGED <<clock, ctx, consumer, answered, result>>

\* The consumer goes on with the next job or ends.
EndJob(e) ==
    /\ stage' = [stage EXCEPT ![e] = "done"]
    /\ consumer' = IF waiting[KeyOf[e]] = <<>>
                   THEN Restrict(consumer, DOMAIN consumer \ {KeyOf[e]})
                   ELSE consumer
    /\ since' = [since EXCEPT ![e] = 0]

Cached(e) == ActiveFor(e) \in DOMAIN cache

\* The token that get_api_token() returns is one that GitHub accepts.
Live(e) == Cached(e) /\ clock < cache[ActiveFor(e)].issued + Lifetime

\* The review is posted, possibly hours after the job began.  A request with a dead
\* token is refused and logged; without a token get_api_token() raises.
PostReview(e) ==
    /\ stage[e] = "working"
    /\ \/ /\ Cached(e)
          /\ result' = [result EXCEPT ![e] = IF Live(e) THEN "review" ELSE "nothing"]
          /\ EndJob(e)
       \/ /\ ~Cached(e)
          /\ stage' = [stage EXCEPT ![e] = "apologising"]
          /\ UNCHANGED <<consumer, since, result>>
    /\ UNCHANGED <<clock, cache, ctx, waiting, asked, answered>>

\* Another failure of the job.
JobFails(e) ==
    /\ stage[e] = "working"
    /\ stage' = [stage EXCEPT ![e] = "apologising"]
    /\ UNCHANGED <<clock, cache, ctx, consumer, waiting, asked, answered, since, result>>

\* The error reply of handle_agent_errors(), whose own failure is logged.
Apologise(e) ==
    /\ stage[e] = "apologising"
    /\ result' = [result EXCEPT ![e] = IF Live(e) THEN "apology" ELSE "nothing"]
    /\ EndJob(e)
    /\ UNCHANGED <<clock, cache, ctx, waiting, asked, answered>>

-----------------------------------------------------------------------------
\* Time passes; requests do not outlast their timeout.
Tick ==
    /\ clock < MaxClock
    /\ \A e \in DOMAIN answered : clock < answered[e] + Latency
    /\ \A e \in Events : stage[e] = "reacting" => clock < since[e] + Latency
    /\ clock' = clock + 1
    /\ UNCHANGED <<cache, ctx, consumer, waiting, stage, asked, answered, since, result>>

EventStep(e) ==
    \/ GitHubIssues(e) \/ TokenArrives(e) \/ TokenRefused(e)
    \/ Receive(e) \/ Enqueue(e)
    \/ PostReview(e) \/ JobFails(e) \/ Apologise(e)

Next ==
    \/ \E e \in Events : EventStep(e)
    \/ \E k \in Keys : StartJob(k)
    \/ Tick

Spec == Init /\ [][Next]_vars

-----------------------------------------------------------------------------
(* Properties                                                              *)

Token == [issued : Nat, expires : Nat]
Maybe == Installations \cup {NoInstallation}

\* The types; tokens are waited for exactly in the two stages that authenticate.
TypeOK ==
    /\ clock \in Nat
    /\ DOMAIN cache \subseteq Installations
    /\ \A i \in DOMAIN cache : cache[i] \in Token
    /\ ctx \in [Events -> Maybe]
    /\ DOMAIN consumer \subseteq Keys
    /\ \A k \in DOMAIN consumer : consumer[k] \in Maybe
    /\ waiting \in [Keys -> Seq(Events)]
    /\ stage \in [Events -> Stage]
    /\ asked = {e \in Events : stage[e] \in {"webhook", "job"}}
    /\ DOMAIN answered \subseteq asked
    /\ \A e \in DOMAIN answered : answered[e] \in Nat
    /\ since \in [Events -> Nat]
    /\ result \in [Events -> {"none", "review", "apology", "nothing"}]

AtWork(e) == stage[e] \in {"webhook", "reacting", "job", "working", "apologising"}

\* A request, and the consumer that runs its job, act for the installation of
\* their pull request, whatever other requests are under way: the ContextVar is
\* never that of another repository.
ActsForItsInstallation ==
    \A e \in Events : AtWork(e) =>
        /\ stage[e] \notin {"webhook", "reacting"} => KeyOf[e] \in DOMAIN consumer
        /\ ActiveFor(e) = Active(InstallationOf[KeyOf[e]])

\* The refresh margin, less the time a token spends on the wire, is how long a task
\* may rely on authenticate(): until then no refresh or pruning by another task, and
\* no expiry at GitHub, takes its token away.
MarginIsGuaranteed ==
    \A e \in Events :
        stage[e] \in {"reacting", "working"} /\ clock + Latency <= since[e] + Margin
            => Live(e)
=============================================================================

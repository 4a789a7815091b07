---------------------------- MODULE GitWorkspace ----------------------------
(***************************************************************************)
(* The clones of pull requests (workspace/git.py) under the jobs of        *)
(* GitHubAuth, in the server process: each pull request has one directory, *)
(* which its jobs clone or update one after the other, with the token that *)
(* was current when the clone was made.                                    *)
(*                                                                         *)
(* ensure_ready() runs under a gather() that does not wait for it when one *)
(* of the fetches beside it raises: the git commands of a job that failed  *)
(* may go on while the next job of the pull request begins.                *)
(*                                                                         *)
(* Every step is a step of GitHubAuth or leaves its variables alone.       *)
(***************************************************************************)
EXTENDS GitHubAuth

VARIABLES
    origin,  \* pull requests whose .git exists: when the token in its URL was issued
    url,     \* jobs on the way to ensure_ready(): the same for event.clone_url
    git,     \* jobs whose ensure_ready() is under way: "clone" or "update"
    ready    \* jobs whose ensure_ready() has returned

gitVars == <<origin, url, git, ready>>
allVars == <<vars, gitVars>>

GitInit ==
    /\ Init
    /\ origin = <<>>
    /\ url = <<>>
    /\ git = <<>>
    /\ ready = {}

Without(f, e) == Restrict(f, DOMAIN f \ {e})

-----------------------------------------------------------------------------

\* prepare_job_event(): the clone URL is built when authenticate() returns.
BuildCloneUrl(e) ==
    url' = IF stage'[e] = "working"
           THEN [x \in DOMAIN url \cup {e} |->
                   IF x = e THEN cache'[ActiveFor(e)].issued ELSE url[x]]
           ELSE url

JobStarts(k) ==
    /\ StartJob(k)
    /\ BuildCloneUrl(Head(waiting[k]))
    /\ UNCHANGED <<origin, git, ready>>

JobGetsToken(e) ==
    /\ TokenArrives(e)
    /\ BuildCloneUrl(e)
    /\ UNCHANGED <<origin, git, ready>>

\* ensure_ready(): _clone() writes the clone URL, with its token, to the configuration
\* of the clone; _update() fetches from there.
OriginFor(e) ==
    [k \in DOMAIN origin \cup {KeyOf[e]} |-> IF k \in DOMAIN origin THEN origin[k] ELSE url[e]]

\* GitHub accepts the token that git presents.
Authorised(e) == clock < OriginFor(e)[KeyOf[e]] + Lifetime

GitStarts(e) ==
    /\ stage[e] = "working"
    /\ e \in DOMAIN url
    /\ Authorised(e)
    /\ origin' = OriginFor(e)
    /\ git' = [x \in DOMAIN git \cup {e} |->
                 IF x # e THEN git[x]
                 ELSE IF KeyOf[e] \in DOMAIN origin THEN "update" ELSE "clone"]
    /\ url' = Without(url, e)
    /\ UNCHANGED <<vars, ready>>

\* A RuntimeError of _run_command(); a clone leaves nothing behind.
GitRefused(e) ==
    /\ e \in DOMAIN url
    /\ ~Authorised(e)
    /\ JobFails(e)
    /\ url' = Without(url, e)
    /\ UNCHANGED <<origin, git, ready>>

GitSucceeds(e) ==
    /\ e \in DOMAIN git
    /\ git' = Without(git, e)
    /\ ready' = IF stage[e] = "working" THEN ready \cup {e} ELSE ready
    /\ UNCHANGED <<vars, origin, url>>

\* Any other failure; git clone removes what it made.
GitFails(e) ==
    /\ e \in DOMAIN git
    /\ git' = Without(git, e)
    /\ origin' = IF git[e] = "clone" THEN Without(origin, KeyOf[e]) ELSE origin
    /\ IF stage[e] = "working" THEN JobFails(e) ELSE UNCHANGED vars
    /\ UNCHANGED <<url, ready>>

\* An exception elsewhere in the job, possibly while git goes on.
JobRaises(e) ==
    /\ JobFails(e)
    /\ url' = Without(url, e)
    /\ ready' = ready \ {e}
    /\ UNCHANGED <<origin, git>>

ReviewIsPosted(e) ==
    /\ e \in ready
    /\ PostReview(e)
    /\ ready' = ready \ {e}
    /\ UNCHANGED <<origin, url, git>>

OtherStep(e) == GitHubIssues(e) \/ TokenRefused(e) \/ Receive(e) \/ Enqueue(e) \/ Apologise(e)

GitNext ==
    \/ \E k \in Keys : JobStarts(k)
    \/ \E e \in Events :
         \/ JobGetsToken(e) \/ GitStarts(e) \/ GitRefused(e) \/ GitSucceeds(e) \/ GitFails(e)
         \/ JobRaises(e) \/ ReviewIsPosted(e)
         \/ OtherStep(e) /\ UNCHANGED gitVars
    \/ Tick /\ UNCHANGED gitVars

GitSpec == GitInit /\ [][GitNext]_allVars

-----------------------------------------------------------------------------
(* Properties                                                              *)

Failed(e) == stage[e] = "apologising" \/ result[e] \in {"apology", "nothing"}

\* While a job uses its workspace, the only git commands in that directory are those
\* that jobs which failed have left running, and the clone is missing only if a job of
\* the pull request has failed.
WorkspaceIsStable ==
    \A e \in ready :
        /\ \A f \in DOMAIN git : KeyOf[f] = KeyOf[e] => Failed(f)
        /\ KeyOf[e] \notin DOMAIN origin => \E f \in Events : KeyOf[f] = KeyOf[e] /\ Failed(f)

\* docs/platforms/github.md: an App has "automatic token rotation", tokens are
\* "automatically refreshed before they expire": git is never refused in a job whose
\* own clone URL has a live token.
GitHasALiveToken ==
    \A e \in DOMAIN url : clock < url[e] + Lifetime => Authorised(e)
=============================================================================

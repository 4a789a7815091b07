--------------------------- MODULE ReviewPipeline ---------------------------
(***************************************************************************)
(* One review job up to the pull request, as each of four runners does it: *)
(* the server's own process or a pod (execute_job of jobs/dispatch.py), a  *)
(* CI job (commands/ci/main.py), or the command line (commands/cli/        *)
(* main.py).  It prepares, reviews and posts (review/reviewer.py), parses  *)
(* and repairs the agent's output (review/output.py), sends and retries    *)
(* POSTs to either platform (platforms/), and replies with an error or     *)
(* exits with a status.                                                    *)
(*                                                                         *)
(* The agent is free in what it answers; its turns are in                  *)
(* ReviewConversation.  The platform may refuse or lose any request and    *)
(* may lose the answer to one it has carried out; it refuses inline        *)
(* comments outside the diff.  When a token vanishes is in GitHubAuth;     *)
(* here it may at any request of the server's process.                     *)
(***************************************************************************)
EXTENDS DiffLines

CONSTANTS
    Jobs,          \* platform, runner, dry run, and the files that the pull request
                   \* changes, a function from paths to patches
    Ignored,       \* paths that match ignore_patterns
    Outputs,       \* what the agent may output: NotJson or a set of comments
    NotJson,
    NoReview,      \* None, in place of an AgentReview
    MaxLost        \* bound on the different posts whose answers get lost

Runners == {"process", "pod", "ci", "cli"}

ASSUME JobsAssumption ==
    \A j \in Jobs : j.host \in {"github", "gitlab"} /\ j.runner \in Runners /\ j.dry \in BOOLEAN

\* A comment with another side, or without numbers for its lines, is a malformed output.
ASSUME OutputsAssumption ==
    \A o \in Outputs \ {NotJson} :
        /\ IsFiniteSet(o)
        /\ \A c \in o : c.side \in Sides /\ c.line \in Nat /\ c.start \in Nat
ASSUME BoundAssumption == MaxLost \in Nat

VARIABLES
    job,       \* the job, one of Jobs
    at,        \* progress of the job
    fetched,   \* changed_files of the ReviewContext
    repairs,   \* attempts that repair_review_output() has made in vain
    review,    \* agent_review
    outbox,    \* requests still to make, the first one under way
    tries,     \* attempt of request_with_retry()
    thread,    \* what the pull request shows, in order
    lost,      \* history: the posts that took effect although their answers were lost
    unserved,  \* history: the requests that the platform could have carried out, and
               \* that failed, or found no versions
    interrupted  \* history: the stages whose requests an exception cut short

vars == <<job, at, fetched, repairs, review, outbox, tries, thread, lost, unserved, interrupted>>

TRANSIENT_MAX_RETRIES == 3
MAX_REPAIRS == 2

\* "crashed": the command line ends with a traceback.
Over == at \in {"succeeded", "failed", "crashed"}

Init ==
    /\ job \in Jobs
    /\ at = "starting"
    /\ fetched = <<>>
    /\ repairs = 0
    /\ review = NoReview
    /\ outbox = <<>>
    /\ tries = 1
    /\ thread = <<>>
    /\ lost = {}
    /\ unserved = {}
    /\ interrupted = {}

-----------------------------------------------------------------------------
(* Posts                                                                   *)

\* A post: inline are the findings attached to lines, notes those in the text.
Post(kind, inline, notes) == [kind |-> kind, inline |-> inline, notes |-> notes]
Plain(kind) == Post(kind, {}, {})

\* Fault: GitHub gets the summary as a comment besides the review.
SubmitReviewAndReply(findings, rejected) ==
    <<Post("review", findings, rejected), Post("summary", {}, rejected)>>

\* submit_review() of either platform: one request to GitHub; to GitLab the summary,
\* a request for the versions of the diff, and a discussion for each finding.
SubmitReview(findings, rejected) ==
    IF job.host = "github"
    THEN <<Post("review", findings, rejected)>>
    ELSE <<Post("summary", {}, rejected), Plain("versions")>>
           \o SetToSeq({Post("inline", {f}, {}) : f \in findings})

\* post_review_result(): the posts for agent_review r.
PostsFor(r) ==
    LET valid == ValidFindings(r, fetched) IN
    CASE r = NoReview -> <<Plain("fallback")>>
      [] r # NoReview /\ valid # {} -> SubmitReview(valid, r \ valid)
      [] OTHER -> <<Post("summary", {}, r)>>

\* Fault: the first HTTPError ends the posting.
NothingAfterError(p) == <<>>

\* What is left to do after an HTTPError on request p: each method catches it.
OutboxAfterError(p) ==
    CASE p.kind = "review" -> <<Post("summary", {}, p.notes)>>
      [] p.kind = "versions" -> <<>>
      [] OTHER -> Tail(outbox)

-----------------------------------------------------------------------------
(* Control                                                                 *)

\* An exception: the process runner posts an error reply, the others log it.
Raise ==
    IF job.runner = "process"
    THEN /\ at' = "apologising"
         /\ outbox' = <<Plain("error")>>
    ELSE /\ at' = "failed"
         /\ outbox' = <<>>

Prepared == at' = "preparing" /\ UNCHANGED outbox
Failed == at' = "failed" /\ UNCHANGED outbox

\* fetch_pr_branch(): "" after an error on GitHub, and always on GitLab.
FetchedBranch == IF job.host = "github" THEN BOOLEAN ELSE {FALSE}

\* resolve_branch(): GitLab's events name their branch, comments on GitHub may not.
BranchIsKnown == IF job.host = "gitlab" THEN {TRUE} ELSE {TRUE} \cup FetchedBranch

\* execute_job() up to handle_review().
StartJob ==
    /\ job.runner \in {"process", "pod"}
    /\ \/ \E known \in BranchIsKnown :
             IF known THEN Prepared ELSE at' = "declining" /\ outbox' = <<Plain("no_branch")>>
       \/ Raise

\* run_ci_review(): the environment names the branch, or the job ends.
StartCi == job.runner = "ci" /\ (Prepared \/ Failed)

\* _run_review() of the command line: nothing catches what authenticate() raises.
StartCli ==
    /\ job.runner = "cli"
    /\ \/ \E known \in FetchedBranch : IF known THEN Prepared ELSE Failed
       \/ at' = "crashed" /\ UNCHANGED outbox

Start ==
    /\ at = "starting"
    /\ StartJob \/ StartCi \/ StartCli
    /\ UNCHANGED <<job, fetched, repairs, review, tries, thread, lost, unserved, interrupted>>

\* The files that fetch_pr_diff() may return: GitHub's are read page by page, and a
\* page that fails ends the list; of GitLab's only one page is ever read.
FetchedPaths == SUBSET DOMAIN job.files

\* _prepare_review_context() and the check that follows it.
Prepare ==
    /\ at = "preparing"
    /\ \/ \E paths \in FetchedPaths :
            /\ fetched' = FilterChangedFiles([p \in paths |-> job.files[p]], Ignored)
            /\ IF DOMAIN fetched' # {}
               THEN at' = "invoking" /\ UNCHANGED outbox
               ELSE Raise
       \/ Raise /\ UNCHANGED fetched
    /\ UNCHANGED <<job, repairs, review, tries, thread, lost, unserved, interrupted>>

\* parse_finding() accepts the comment.
WellFormed(c) ==
    /\ c.line > 0
    /\ c.start <= c.line
    /\ c.suggestion => c.side = "RIGHT"

\* parse_review_output(): one malformed comment makes the whole output unusable.
ParseReviewOutput(output) ==
    IF output # NotJson /\ \A c \in output : WellFormed(c) THEN output ELSE NoReview

\* The command line prints what cannot be parsed.
Posted(r) == ~job.dry /\ ~(job.runner = "cli" /\ r = NoReview)

\* With agent_review r the review is over and gets posted.
PostReviewResult(r) ==
    /\ review' = r
    /\ repairs' = 0
    /\ at' = "posting"
    /\ outbox' = IF Posted(r) THEN PostsFor(r) ELSE <<>>

\* run_cli_agent(), run_api_agent(): an invocation that ends with an error, or without
\* a result, has the empty text for its output.
AgentOutputs == Outputs \cup {NotJson}

\* The agent, with its fallback when it runs out of turns.
Invoke ==
    /\ at = "invoking"
    /\ \/ \E output \in AgentOutputs :
            LET r == ParseReviewOutput(output) IN
            IF r = NoReview
            THEN at' = "repairing" /\ UNCHANGED <<repairs, review, outbox>>
            ELSE PostReviewResult(r)
       \/ Raise /\ UNCHANGED <<repairs, review>>
    /\ UNCHANGED <<job, fetched, tries, thread, lost, unserved, interrupted>>

\* Fault: the loop ends only when an output can be parsed.
RepairForEver ==
    /\ at = "repairing"
    /\ \/ \E output \in AgentOutputs :
            LET r == ParseReviewOutput(output) IN
            IF r = NoReview
            THEN repairs' = repairs + 1 /\ UNCHANGED <<at, review, outbox>>
            ELSE PostReviewResult(r)
       \/ Raise /\ repairs' = 0 /\ UNCHANGED review
    /\ UNCHANGED <<job, fetched, tries, thread, lost, unserved, interrupted>>

\* One iteration of repair_review_output().
Repair ==
    /\ at = "repairing"
    /\ \/ \E output \in AgentOutputs :
            LET r == ParseReviewOutput(output) IN
            IF r = NoReview /\ repairs + 1 < MAX_REPAIRS
            THEN repairs' = repairs + 1 /\ UNCHANGED <<at, review, outbox>>
            ELSE PostReviewResult(r)
       \/ Raise /\ repairs' = 0 /\ UNCHANGED review
    /\ UNCHANGED <<job, fetched, tries, thread, lost, unserved, interrupted>>

-----------------------------------------------------------------------------
(* Requests                                                                *)

Request == Head(outbox)

\* The platform has no place for inline comments outside the diff.
Acceptable(p) == \A f \in p.inline : InDiff(f, job.files)

\* The request takes effect.
Effect(p) == thread' = IF p.kind = "versions" THEN thread ELSE Append(thread, p)

\* The request takes no effect, or it does and its answer is lost.
NoAnswer(p) ==
    \/ /\ UNCHANGED <<thread, lost>>
    \/ /\ Acceptable(p)
       /\ p.kind # "versions"
       /\ Cardinality(lost \cup {p}) <= MaxLost
       /\ lost' = lost \cup {p}
       /\ Effect(p)

Done ==
    /\ outbox # <<>>
    /\ Acceptable(Request)
    /\ Effect(Request)
    /\ outbox' = Tail(outbox)
    /\ tries' = 1
    /\ UNCHANGED <<job, at, fetched, repairs, review, lost, unserved, interrupted>>

\* The merge request has no versions, so that no discussion is posted.
NoVersions ==
    /\ outbox # <<>>
    /\ Request.kind = "versions"
    /\ outbox' = <<>>
    /\ tries' = 1
    /\ unserved' = unserved \cup {Request}
    /\ UNCHANGED <<job, at, fetched, repairs, review, thread, lost, interrupted>>

\* An HTTPError: a refusal, a broken connection, a timeout.
Fails ==
    /\ outbox # <<>>
    /\ NoAnswer(Request)
    /\ outbox' = OutboxAfterError(Request)
    /\ tries' = 1
    /\ unserved' = IF Acceptable(Request) THEN unserved \cup {Request} ELSE unserved
    /\ UNCHANGED <<job, at, fetched, repairs, review, interrupted>>

\* Fault: a transient status is retried without a last attempt.
RetryForEver ==
    /\ outbox # <<>>
    /\ NoAnswer(Request)
    /\ tries' = (tries % TRANSIENT_MAX_RETRIES) + 1
    /\ UNCHANGED <<job, at, fetched, repairs, review, outbox, unserved, interrupted>>

\* 502, 503 or 504 before the last attempt; after it, the status is an HTTPError.
Retry ==
    /\ outbox # <<>>
    /\ tries < TRANSIENT_MAX_RETRIES
    /\ NoAnswer(Request)
    /\ tries' = tries + 1
    /\ UNCHANGED <<job, at, fetched, repairs, review, outbox, unserved, interrupted>>

\* Nothing catches these while a review is posted: the versions are not JSON, or the
\* token is gone when a request starts, as another task of the server has pruned it.
Escape ==
    \/ Request.kind = "versions"
    \/ job.host = "github" /\ job.runner = "process" /\ tries = 1

\* An exception that is no HTTPError.  The error reply's own is logged; on the command
\* line it ends the program.
Escapes ==
    /\ outbox # <<>>
    /\ Escape
    /\ \/ at = "apologising" /\ outbox' = <<>> /\ UNCHANGED at
       \/ at # "apologising" /\ job.runner = "cli" /\ at' = "crashed" /\ outbox' = <<>>
       \/ at # "apologising" /\ job.runner # "cli" /\ Raise
    /\ interrupted' = interrupted \cup {at}
    /\ tries' = 1
    /\ UNCHANGED <<job, fetched, repairs, review, thread, lost, unserved>>

\* Fault: an HTTPError on a post of the review is not caught.
ReturnRaising ==
    /\ outbox = <<>>
    /\ \/ at = "posting" /\ unserved # {} /\ Raise
       \/ at = "posting" /\ unserved = {} /\ at' = "succeeded" /\ UNCHANGED outbox
       \/ at = "declining" /\ Raise
       \/ at = "apologising" /\ at' = "failed" /\ UNCHANGED outbox
    /\ UNCHANGED <<job, fetched, repairs, review, tries, thread, lost, unserved, interrupted>>

\* All requests of the stage are made.
Return ==
    /\ outbox = <<>>
    /\ \/ at = "posting" /\ at' = "succeeded" /\ UNCHANGED outbox
       \/ at = "declining" /\ Raise
       \/ at = "apologising" /\ at' = "failed" /\ UNCHANGED outbox
    /\ UNCHANGED <<job, fetched, repairs, review, tries, thread, lost, unserved, interrupted>>

Next ==
    \/ Start \/ Prepare \/ Invoke \/ Repair
    \/ Done \/ NoVersions \/ Fails \/ Retry \/ Escapes \/ Return

\* The job is one sequential task, and all it waits for has a timeout.
Fairness == WF_vars(Next)

Spec == Init /\ [][Next]_vars /\ Fairness

-----------------------------------------------------------------------------
(* Properties                                                              *)

Kind == {"review", "summary", "inline", "fallback", "no_branch", "error"}
Finding == UNION {o \in Outputs : o # NotJson}
Posts == [kind : Kind \cup {"versions"}, inline : SUBSET Finding, notes : SUBSET Finding]

TypeOK ==
    /\ job \in Jobs
    /\ at \in {"starting", "declining", "preparing", "invoking", "repairing", "posting",
               "apologising", "succeeded", "failed", "crashed"}
    /\ DOMAIN fetched \subseteq DOMAIN job.files \ Ignored
    /\ repairs \in 0 .. MAX_REPAIRS - 1
    /\ review = NoReview \/ review \subseteq Finding
    /\ outbox \in Seq(Posts)
    /\ outbox # <<>> => at \in {"declining", "posting", "apologising"}
    /\ tries \in 1 .. TRANSIENT_MAX_RETRIES
    /\ thread \in Seq(Posts)
    /\ lost \subseteq Posts
    /\ unserved \subseteq Posts
    /\ interrupted \subseteq {"posting", "declining", "apologising"}

\* The only post that may be shown twice is one whose answer was lost; the summary is
\* shown in a review and in a comment too only if the review's answer was lost.
NothingIsPostedTwice ==
    \A i, j \in DOMAIN thread : i # j =>
        /\ thread[i] = thread[j] => thread[i] \in lost
        /\ thread[i].kind = "review" /\ thread[j].kind = "summary" => thread[i] \in lost

InlineIsUnserved(f) == \E p \in unserved : p.kind = "versions" \/ f \in p.inline
NoteIsUnserved(f) == \E p \in unserved : p.kind = "summary" /\ f \in p.notes

\* docs/security.md: "review findings are validated against the actual diff";
\* docs/review.md: findings "that target lines within the diff are posted as native
\* inline comments", all others are "folded into the general review body".  Each
\* finding of a review that succeeded is shown in the one way and never in the other,
\* whatever was fetched, parsed and repaired, unless the very requests failed that were
\* to show it, or no versions were found: the failure of one post loses no other.
FindingsAreShown ==
    at = "succeeded" /\ review # NoReview /\ ~job.dry =>
        \A f \in review :
            IF InDiff(f, fetched)
            THEN /\ InlineIsUnserved(f) \/ \E i \in DOMAIN thread : f \in thread[i].inline
                 /\ \A j \in DOMAIN thread : f \notin thread[j].notes
            ELSE /\ NoteIsUnserved(f) \/ \E i \in DOMAIN thread : f \in thread[i].notes
                 /\ \A j \in DOMAIN thread : f \notin thread[j].inline

\* review/prompts.py: "Each diff line is annotated with its actual line number": what
\* the prompt calls line n, removed or not, is a line that a comment may be put on.
PromptedLinesAreInTheDiff ==
    \A p \in DOMAIN fetched : \A l \in AnnotateDiff(fetched[p]) :
        l.line \in DiffLinesOf(fetched[p], IF l.kind = "minus" THEN "LEFT" ELSE "RIGHT")

ShownOf == {IF p.kind \in {"error", "no_branch"} THEN "error" ELSE "review" : p \in ToSet(thread)}

StatusOf ==
    CASE at = "succeeded" -> "succeeded"
      [] at \in {"failed", "crashed"} -> "failed"
      [] OTHER -> "running"

\* What is to be shown could be: no post failed, and no error reply was cut short.
PostsAreServed == \A p \in unserved : p.kind = "versions"
ErrorIsServed == PostsAreServed /\ "apologising" \notin interrupted

\* A job may fail in silence if a post failed or nobody posts its errors, and succeed
\* in silence if a post failed or its review is not for posting.
SilenceOf ==
    (IF ErrorIsServed /\ job.runner = "process" THEN {} ELSE {"failed"})
      \cup (IF PostsAreServed /\ Posted(review) THEN {} ELSE {"succeeded"})

Promise == INSTANCE ReviewPromise
    WITH shown <- ShownOf, status <- StatusOf, dry <- job.dry, silence <- SilenceOf,
         interrupted <- "posting" \in interrupted

\* Whatever the runner, and also when answers of the platform are lost: a pull request
\* that shows a review, whole or in part, is never told that the review failed, and the
\* job's status or exit code agrees with what is shown, unless an exception cut its
\* posting short; then the job fails.  So a CI job that is run again because it failed
\* has posted nothing, unless its versions were not JSON.  No job ends in silence
\* without an excuse, and a dry run shows no review.
ImplementsPromise == Promise!Spec
=============================================================================

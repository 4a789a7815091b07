--------------------------- MODULE WebhookDispatch ---------------------------
(***************************************************************************)
(* The way of a webhook to the job of ReviewPipeline: _handle_webhook and  *)
(* the dispatch of events (commands/webhook/main.py, helpers.py), and the  *)
(* parsing of payloads by both platforms (platforms/).                     *)
(*                                                                         *)
(* A hook is the part of a payload that decides on its fate.  Which hook   *)
(* arrives, and under which policies, is chosen when it is handled: the    *)
(* job that follows reads neither.  A request is alone; several requests   *)
(* that suspend at the same time are in GitHubAuth.                        *)
(***************************************************************************)
EXTENDS ReviewPipeline

CONSTANTS
    Hooks,     \* subset of HookType
    Policies,  \* WebhookConfig: FilteringPolicy, RoutingPolicy and the webhook secret
    Repos, Users, Tags

CommentKinds == {"issue_comment", "pull_request_review_comment", "pull_request_review", "note"}
LifecycleKinds == {"pull_request", "merge_request"}

\* signed: the signature or token is right.  on_pr: the comment is on a pull request,
\* not on an issue.  tags: those in brackets in the title.
HookType ==
    [kind : CommentKinds \cup LifecycleKinds \cup {"other"},
     action : {"created", "submitted", "edited", "opened", "reopened", "synchronize",
               "ready_for_review", "open", "reopen", "update", "update_with_oldrev"},
     signed : BOOLEAN, on_pr : BOOLEAN, draft : BOOLEAN,
     repo : Repos, tags : SUBSET Tags, author : Users,
     text : {"plain", "mention", "mention_prompt"}]

CommentTypes == {"issue_comment", "review_comment", "review", "note"}
LifecycleTypes == {"pr_opened", "pr_push", "pr_reopened", "pr_ready_for_review"}

\* The server refuses to start without allowed users.
PolicyType ==
    [secret : BOOLEAN, allowed_users : (SUBSET Users) \ {{}}, allowed_repos : SUBSET Repos,
     include : SUBSET Tags, exclude : SUBSET Tags,
     triggers : SUBSET LifecycleTypes, bot : BOOLEAN]

ASSUME HookAssumption == Hooks \subseteq HookType
ASSUME PolicyAssumption == Policies \subseteq PolicyType

VARIABLES
    request,  \* the handler's progress, then the status of its response; "none" for
              \* a job of CI or of the command line
    invited,  \* history: the documentation has the hook answered
    eyes      \* the reaction is on the comment or on the pull request

webhookVars == <<request, invited, eyes>>

Responses == {"unsigned", "ignored", "filtered", "no_mention", "unauthorized", "accepted", "error"}

WebhookInit ==
    /\ Init
    /\ request = IF job.runner \in {"process", "pod"} THEN "received" ELSE "none"
    /\ invited = FALSE
    /\ eyes = FALSE

-----------------------------------------------------------------------------
(* parse_event()                                                           *)

PR_ACTION_TO_EVENT_TYPE ==
    [opened |-> "pr_opened", synchronize |-> "pr_push", reopened |-> "pr_reopened",
     ready_for_review |-> "pr_ready_for_review"]

ParseIssueComment(h) == IF h.action = "created" /\ h.on_pr THEN "issue_comment" ELSE "none"
ParseReviewComment(h) == IF h.action = "created" THEN "review_comment" ELSE "none"
ParseReview(h) == IF h.action = "submitted" THEN "review" ELSE "none"
ParsePullRequest(h) ==
    IF h.action \in DOMAIN PR_ACTION_TO_EVENT_TYPE /\ ~h.draft
    THEN PR_ACTION_TO_EVENT_TYPE[h.action]
    ELSE "none"

ParseNote(h) == IF h.on_pr THEN "note" ELSE "none"
ParseMergeRequest(h) ==
    CASE h.draft -> "none"
      [] ~h.draft /\ h.action = "open" -> "pr_opened"
      [] ~h.draft /\ h.action = "reopen" -> "pr_reopened"
      [] ~h.draft /\ h.action = "update_with_oldrev" -> "pr_push"
      [] OTHER -> "none"

\* The type of the event, "none" for None.
ParseEvent(host, h) ==
    CASE host = "github" /\ h.kind = "issue_comment" -> ParseIssueComment(h)
      [] host = "github" /\ h.kind = "pull_request_review_comment" -> ParseReviewComment(h)
      [] host = "github" /\ h.kind = "pull_request_review" -> ParseReview(h)
      [] host = "github" /\ h.kind = "pull_request" -> ParsePullRequest(h)
      [] host = "gitlab" /\ h.kind = "note" -> ParseNote(h)
      [] host = "gitlab" /\ h.kind = "merge_request" -> ParseMergeRequest(h)
      [] OTHER -> "none"

-----------------------------------------------------------------------------
(* _handle_webhook()                                                       *)

\* verify_webhook(): without a secret nothing is verified.
VerifyWebhook(p, h) == p.secret => h.signed

\* Fault: an include tag is looked for before the exclude tags.
IncludeFirst(p, h) ==
    \/ h.tags \cap p.include # {}
    \/ p.include = {} /\ h.tags \cap p.exclude = {}

ShouldProcessEvent(p, h) ==
    /\ h.tags \cap p.exclude = {}
    /\ p.include # {} => h.tags \cap p.include # {}

FilterEvent(p, h) == (p.allowed_repos # {} => h.repo \in p.allowed_repos) /\ ShouldProcessEvent(p, h)

\* dispatch_lifecycle_event(), until it suspends to react.
DispatchLifecycle(p, type) ==
    IF p.bot /\ type \in LifecycleTypes THEN "acknowledging" ELSE "ignored"

\* dispatch_comment_event(), until it suspends to react.  extract_mention() finds no
\* mention where no prompt follows it.
DispatchComment(p, h, type) ==
    CASE type \notin CommentTypes -> "ignored"
      [] type \in CommentTypes /\ (~p.bot \/ h.text # "mention_prompt") -> "no_mention"
      [] type \in CommentTypes /\ p.bot /\ h.text = "mention_prompt" ->
           IF h.author \in p.allowed_users THEN "acknowledging" ELSE "unauthorized"

Route(p, h) ==
    LET type == ParseEvent(job.host, h) IN
    CASE type = "none" -> "ignored"
      [] type # "none" /\ ~FilterEvent(p, h) -> "filtered"
      [] OTHER -> IF type \in p.triggers THEN DispatchLifecycle(p, type)
                                         ELSE DispatchComment(p, h, type)

-----------------------------------------------------------------------------
(* What the documentation promises, for comparison                         *)

\* docs/platforms: new comments on pull requests, on GitLab any note; docs/modes/
\* webhook.md: a mention with a request; docs/security.md: of an allowed user.
InvitesByComment(host, p, h) ==
    /\ h.kind \in CommentKinds
    /\ IF host = "github"
       THEN h.kind # "note" /\ h.action = (IF h.kind = "pull_request_review" THEN "submitted" ELSE "created")
       ELSE h.kind = "note"
    /\ h.kind \in {"issue_comment", "note"} => h.on_pr
    /\ p.bot /\ h.text = "mention_prompt" /\ h.author \in p.allowed_users

\* docs/reference/configuration.md: the table of triggers; drafts are skipped.
InvitesByTrigger(host, p, h) ==
    /\ h.kind = (IF host = "github" THEN "pull_request" ELSE "merge_request")
    /\ p.bot /\ ~h.draft
    /\ \/ h.action \in {"opened", "open"} /\ "pr_opened" \in p.triggers
       \/ h.action \in {"synchronize", "update_with_oldrev"} /\ "pr_push" \in p.triggers
       \/ h.action \in {"reopened", "reopen"} /\ "pr_reopened" \in p.triggers
       \/ h.action = "ready_for_review" /\ "pr_ready_for_review" \in p.triggers

\* "Exclude takes priority over include. Both empty = no filtering".
Invited(host, p, h) ==
    /\ h.signed \/ ~p.secret
    /\ p.allowed_repos = {} \/ h.repo \in p.allowed_repos
    /\ \A t \in h.tags : t \notin p.exclude
    /\ p.include = {} \/ \E t \in h.tags : t \in p.include
    /\ InvitesByComment(host, p, h) \/ InvitesByTrigger(host, p, h)

-----------------------------------------------------------------------------
(* Steps                                                                   *)

\* From the receipt to the reaction or the response.  authenticate() may raise.
HandleWebhook ==
    /\ request = "received"
    /\ \E h \in Hooks, p \in Policies :
         /\ invited' = Invited(job.host, p, h)
         /\ IF VerifyWebhook(p, h)
            THEN request' \in {Route(p, h), "error"}
            ELSE request' = "unsigned"
    /\ UNCHANGED <<vars, eyes>>

\* post_reaction(), post_pr_reaction(): an HTTPError is only logged.
PostReaction == eyes' \in BOOLEAN

\* Fault: what failed to be acknowledged is dropped.
DropUnacknowledged ==
    /\ request = "acknowledging"
    /\ PostReaction
    /\ request' = IF eyes' THEN "enqueueing" ELSE "unauthorized"
    /\ UNCHANGED <<vars, invited>>

\* acknowledge_event(); its authenticate() may raise.
AcknowledgeEvent ==
    /\ request = "acknowledging"
    /\ \/ PostReaction /\ request' = "enqueueing"
       \/ request' = "error" /\ UNCHANGED eyes
    /\ UNCHANGED <<vars, invited>>

\* runner.enqueue(): it may raise where the queue is in Redis.
EnqueueJob ==
    /\ request = "enqueueing"
    /\ request' \in {"accepted"} \cup (IF job.runner = "pod" THEN {"error"} ELSE {})
    /\ UNCHANGED <<vars, invited, eyes>>

JobStep ==
    /\ request \in {"accepted", "none"}
    /\ Next
    /\ UNCHANGED webhookVars

WebhookNext == HandleWebhook \/ AcknowledgeEvent \/ EnqueueJob \/ JobStep

allVars == <<vars, webhookVars>>

\* The handler is one task too.
WebhookFairness == WF_allVars(WebhookNext)

WebhookSpec == WebhookInit /\ [][WebhookNext]_allVars /\ WebhookFairness

-----------------------------------------------------------------------------
(* Properties                                                              *)

Settled == request \in Responses \cup {"none"} /\ (request \in {"accepted", "none"} => Over)

\* Every request gets a response, and the job of every accepted one comes to its end.
RequestsAndJobsEnd == <>Settled

\* docs/security.md, docs/reference/configuration.md: an event that is not signed, is
\* filtered out, or does not invite a review by an allowed user or a trigger, shows
\* nothing on the pull request, no reaction and no post, whatever fails on its way.
UninvitedEventsLeaveNoTrace ==
    request \notin {"received", "none"} /\ ~invited => ~eyes /\ thread = <<>> /\ at = "starting"

\* docs/modes/webhook.md: to who mentions it, the bot "reacts with an eyes emoji and
\* then posts a structured code review".  An event that invites a review is answered on
\* the pull request, also when the reaction failed, unless the response was an error,
\* a post failed, the error reply was cut short, or the job failed in a pod.
InvitedEventsAreAnswered ==
    Settled /\ invited /\ request # "error" /\ ErrorIsServed /\ ~job.dry
    /\ (at = "succeeded" \/ job.runner = "process")
        => thread # <<>>
=============================================================================

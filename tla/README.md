# Verification of nominal-code

TLA+ models, model-checking runs and machine-checked proofs of `nominal-code`, the
automated pull request reviewer in `src/app/nominal_code`. Paths below are relative to
that directory.

## 1. Inventory

A webhook of GitHub or GitLab becomes a job; the job waits in a per-pull-request queue;
a runner executes it in the server process or in a Kubernetes pod; the job talks to an
LLM provider in turns, keeps a conversation per pull request, and posts a review.

| Component | State | Operations | Interactions, hard behaviour | What makes it correct |
|---|---|---|---|---|
| Webhook server (`commands/webhook/main.py`, `helpers.py`) | none of its own; `ContextVar` of the GitHub installation | verify, parse, filter, acknowledge, enqueue | concurrent requests; suspension between receipt and enqueue | only authorised, routed events become jobs |
| In-process queue (`jobs/queue/asyncio.py`) | `_queues`, `_consumers`, tasks | `enqueue`, `_consume` | consumers created and retired on demand; failing, cancelled callbacks | serial and FIFO per key, nothing stranded |
| Redis queue (`jobs/queue/redis.py`) | Redis lists, `_consumers`, tasks | `enqueue`, `_consume`, `await_job_completion` | replies in flight, `BRPOP` timeout, Redis errors, restart | as above; lists survive a restart |
| Process runner (`jobs/runner/process.py`, `agent/errors.py`) | none | `_execute` | errors become replies | a failed job is reported |
| Kubernetes runner and pod (`jobs/runner/kubernetes.py`, `jobs/main.py`, `jobs/payload.py`) | Kubernetes jobs, pub/sub subscriptions | `_execute`, `publish_job_completion`, `run_job_main` | pods outlive the server, pub/sub has no memory, timeouts, retries | one pod per pull request at a time, no consumer blocked for ever |
| Conversation store (`conversation/`) | histories and ids per key | get/set, truncation, TTL | shared mutable lists in memory, expiry in Redis | a stored history is one a provider accepts |
| Agent loop (`agent/api/`, `agent/compaction.py`, `agent/invoke.py`) | messages, turns, notes file | turns, tool calls, compaction, submission | turn limit, provider errors, what compaction drops | every tool call answered, in order; budgets kept; no note lost |
| Sub-agents (`agent/api/runner.py`, `agent/sub_agent.py`) | tasks, collected costs | start, turns, `gather`, collection | concurrent tasks, one of which raises; a provider closed under them | waited for, paid for, and they end |
| CLI agent (`agent/cli/`) | a subprocess stream | `run_cli_agent` | external SDK | result or error |
| Review pipeline (`review/reviewer.py`, `review/output.py`) | one review | prepare, invoke, fall back, repair, save, post | each step can fail after the previous one took effect | a review is posted or an error is |
| Diff parsing (`review/diff.py`) | none | parse, index, filter findings | boundaries of hunks | only commentable lines get comments |
| GitHub platform and authentication (`platforms/github/`) | installation tokens with expiry | refresh, prune, request | expiry during a long job, concurrent refresh | a request is made with a live token |
| GitLab platform (`platforms/gitlab/`) | none | requests | partial posting | |
| HTTP retries (`platforms/http.py`) | none | retry on 502/503/504 | an answer is lost after the request took effect | |
| Workspace (`workspace/`) | clones on disk | clone, fetch, checkout | interrupted clone, shared directory | the checked-out tree is the branch |
| LLM providers (`llm/`) | none | conversion of messages, errors, cost | role and id conversion | calls and results stay paired |
| CLI and CI entry points (`commands/cli`, `commands/ci`) | none | one review, an exit code | exceptions, dry runs, a job that is run again after it failed | the exit code agrees with what was posted |
| Configuration and prompts (`config/`, prompts) | immutable | load, validate | none | |

The hazards of each component are listed in `PROJECT.json` with their lines.

## 2. Plan

Most important behaviour first; the order in which modules are written.

| | Module | What it is | State |
|---|---|---|---|
| 1 | `SerialJobQueue` | what a job queue promises | written |
| 2 | `AsyncioJobQueue`, `AsyncioJobQueue_proofs` | in-process queue, implements 1 | written, proved |
| 3 | `RedisJobQueue`, `RedisJobQueue_proofs` | Redis queue, implements 1 | written, proved |
| 4 | `KubernetesRunner` | composes 3 with pods and pub/sub | written |
| 5 | `ReviewConversation` | agent loop, notes, compaction, fallback, conversation store | written |
| 6 | `KubernetesRunner_proofs` | pods of a pull request that the server tracks do not overlap; 4 implements 3 | proved |
| 7 | `GitHubAuth`, `GitHubAuth_proofs` | token cache, refresh and pruning against the duration of jobs; the installation of each task | written, proved |
| 8 | `DiffLines`, `DiffLines_proofs` | diff parser and finding filter, with a reference definition | written, proved |
| 9 | `ReviewPipeline` | prepare, invoke, repair, filter, post, with every step failing and with HTTP retries; uses 8 | written |
| 10 | `GitWorkspace` | clone and update of a directory that the jobs of a pull request share; extends 7 and shares its instance | written |
| 11 | `WebhookDispatch` | from a webhook to its job: verification, parsing, filters, routing, acknowledgement; extends 9 and shares its instance | written |
| 12 | `ProviderMessages` | histories as the messages of the three provider APIs; extends 5 and shares its instance | written |
| 13 | `GitWorkspace_proofs` | a behaviour of the workspace is one of `GitHubAuth`; only what failed jobs left running disturbs a workspace | proved |
| 14 | `SubAgents` | the sub-agents of a response beside the main run; extends 12 and shares its instance | written |
| 15 | `ReviewPromise` | what a job promises to those who read the pull request and who started it; 9 implements it | written |
| 16 | `ReviewPipeline_proofs`, with `WebhookDispatch` | `ReviewPipeline` implements `ReviewPromise`; findings are shown, once; who is answered | proved |
| 17 | `ReviewConversation_proofs`, with `ProviderMessages` and `SubAgents` | histories, notes, budgets and failed runs; what each provider is sent; sub-agents | proved |

Abstract specifications: `SerialJobQueue` for both queues, `ReviewPromise` for the
review of either platform and each runner. Each invariant and each action property that
a run checks and finds to hold is proved; liveness is left to TLC (section 5).

## 3. The modules

### `SerialJobQueue`: the promise

`pending`, `running` and `finished` are all a client of the protocol `JobQueue`
(`jobs/queue/base.py`) can tell: what was accepted and has not started, what runs, what
is over. `Accept` puts a job behind those of its key; `Start` takes the oldest of an
idle key; `Finish` and `HandOver` end the running one. `Discard` and `Crash` are the two
ways in which a job may be given up: an unreadable payload or a lost connection, and a
new server process. There is no fairness: the specification says what may happen.

### `AsyncioJobQueue`: the in-process queue

| State | Code |
|---|---|
| `queues`, `consumers` | `self._queues`, `self._consumers` |
| `items` | contents of each `asyncio.Queue` object |
| `task`, `local`, `job` | each consumer task, its variables `queue` and `job` |
| `submitted`, `finished` | calls of `enqueue`, callbacks that ended |

`Enqueue` is `enqueue` in one step: `put` on an unbounded queue does not suspend.
`ConsumerStarts` is `_consume` up to the first callback, `CallbackEnds` everything from
the end of one callback to the start of the next or the end of the task,
`CallbackCancelled` a `CancelledError`, which `except Exception` lets through.
Queue objects and tasks have an identity, the job whose `enqueue` created them, so that
two consumers of a key, or a consumer left with an unregistered queue, are states of
the model and not excluded by its shape.

### `RedisJobQueue`: the queue of Kubernetes deployments

Every access to a list is a round trip of two steps: Redis executes the command
(`PushArrives`, `BrpopArrives`, `BrpopExpires`), and later the event loop reads the answer
(`EnqueueReturns`, `ConsumerReadsJob`, `ConsumerReadsNil`). `enqueue` may run between
the two. `PushFails` and `BrpopFails` are Redis errors before or after the command took
effect; `Restart` replaces the server: tasks and table vanish, the lists stay. A payload
of `Unreadable` is logged and skipped. `close()` is not an action: nothing in the
program calls it.

### `KubernetesRunner`: server, Redis, cluster and pods

`INSTANCE RedisJobQueue`, whose callback is opened up: `call` follows `_execute` from the
POST to the answer, `SUBSCRIBE`, the poll and the return; `pod` is the Kubernetes Job of
each job; `heard` is the signal in flight to a consumer. A signal is delivered to whoever
is subscribed when it is published (`Hears`), to nobody otherwise. The pods go on through
restarts and broken connections. `lost` records the jobs whose pod the server stopped
tracking: it is a history variable that no action reads.

Time appears as an order only. `TimeOut` requires that the pod has stopped, because
`await_job_completion` waits 10 seconds longer than `activeDeadlineSeconds`. That is an
assumption on the cluster: a pod that ignores SIGTERM for its grace period of 30 seconds
would break it.

### `ReviewConversation`: the agent loop and the history between reviews

The reviews of one pull request, one after the other (the queue's promise makes that
sound). `messages` is the history of the run, `store` the stored one, a message being its
kind and the ids of the calls it makes or answers. `BeginReview` is
`prepare_conversation` and the truncation at the start of `run_api_agent`; `SendTurn`,
`ProviderResponds`, `DispatchTools` are one turn, compaction and the turn limit included;
`RunFails` is a provider error or an exception of a tool; `BeginFallback` the second
invocation in `review`; `Save` and `SkipSave` are `save_conversation`; `Forget` is expiry
in Redis or a restart with the in-memory store. The model's answers are free. `aliased`
says that the in-memory store and the run still share one Python list. `notes` is the
content of the notes file, as the calls of `WriteNotes` that made it (`Noted`), and a
summary consists of them. A deployment is a store and a turn limit.

### `SubAgents`: the tasks beside the main run

| State | Code |
|---|---|
| `agents` | by Agent call: the review it belongs to, where its `run_api_agent` is, its answered requests |

Extends `ProviderMessages`, and through it `ReviewConversation`: each step of the main run
is a step of that module, with the condition that the sub-agents put on it.
`RespondAndStart` starts a task for each Agent call of a response, before anything is
awaited. `DispatchAll` needs all tasks to have ended well (`AllAreOver`); it appends the
results and drops the tasks whose costs it collected. `FailRun` is possible as soon as one
task has raised: `gather` is called without `return_exceptions`, so that the others run on
beside the end of the review and into the next one of the pull request. `review` closes their
provider (`review/reviewer.py:422`); what a closed provider makes of a request is up to its
SDK, so that an answer and an error both stay possible. `AgentAnswered`, `AgentRequestFails`
and `AgentGoesOn` are the turns of a sub-agent. Its messages and its own notes are left out. Whether a call is refused, or its
directory or notes cannot be made or read, is free.

### `GitHubAuth`: one token cache and many tasks

| State | Code |
|---|---|
| `cache` | `_token_cache` of `GitHubAppAuth`; `issued` is what GitHub knows of the token |
| `ctx`, `consumer` | `_installation_ctx` in the task of a request, in the consumer task of a key |
| `stage`, `waiting` | where each event is: request, reaction, queue, job, error reply |
| `asked`, `answered` | requests for a token under way, and when GitHub issued one that is on its way |
| `since`, `result` | history: the last return of `authenticate()`, what was posted |

A job acts for the installation in the context of its consumer, which is a copy of the
context of the request that created the consumer, not of the one that enqueued the job.
`EnsureAuth` is `ensure_auth` up to its only suspension, pruning included;
`TokenArrives` is the rest, counting the lifetime from the arrival. `PostReview`,
`JobFails` and `Apologise` are what a job does with its token in the end.

Only events that become jobs are modelled: others prune and refresh in the same way and
stop. `acknowledge_event` authenticates a second time with no suspension since the
first, which changes nothing. `StartJob` is a step of its own after `EndJob`, where the
consumer goes on without suspending: this only adds interleavings. Personal access
tokens have no state.

### `GitWorkspace`: the clone that jobs share

| State | Code |
|---|---|
| `origin` | the directories that have a `.git`: when the token in the remote's URL was issued |
| `url` | `event.clone_url` of the jobs that have not reached `ensure_ready` |
| `git` | the jobs whose `ensure_ready` is under way, cloning or updating |
| `ready` | the jobs whose `ensure_ready` returned |

Extends `GitHubAuth`; every step is a step of it or leaves its variables alone, so what
holds of its behaviours holds here. The clone URL carries the token of the moment when
it was built. `_clone` writes it to the configuration of the clone, and `_update`
fetches from there. `gather` in `_prepare_review_context` does not wait for git when a
fetch beside it raises: `JobRaises` ends a job and leaves its git command running, beside
the next job of the pull request. Whether GitHub accepts a token (`Authorised`) is
external. Left out: a crash in the middle of a clone, the read-only workspaces of
pre-cloned pods, and `push_changes`, which nothing calls.

### `DiffLines`: the line numbers of a diff

A pure module. `ParseDiffLines`, `AnnotateDiff`, `IsValid`, `ValidFindings` are the loops
(`ParseLoop` and `AnnotateLoop`, recursive functions of the number of raw lines read) and
filters of `review/diff.py`, over patches of which only the kind of each raw line is
kept. `DiffLinesOf` and `InDiff` say, without a loop, which numbers a unified diff gives
to its lines; they are the reference against which `ReviewPipeline` judges the code. A
`marker` is a raw line of neither file.

### `ReviewPromise`: what a job promises

`shown` and `status` are all that readers of the pull request and whoever started the job
can tell. `Show` makes a review or an error visible, once; `End` gives the result that
belongs to what is shown. `silence` holds the results with which the job may end and show
nothing: the detailed specification has to say what excuses them. A dry run never shows a
review. If the posting of a review is `interrupted`, an error may be shown beside it, and
the job fails. There is no fairness.

### `ReviewPipeline`: one job up to the pull request

| State | Code |
|---|---|
| `job` | platform, runner, dry run and changed files: what one job is given |
| `at` | how far `execute_job`, `run_ci_review` or `_run_review` is, or the error reply after it |
| `fetched` | `changed_files` of the `ReviewContext`, ignored files left out |
| `repairs`, `review` | loop of `repair_review_output`; `agent_review`, with the empty case `NoReview` |
| `outbox`, `tries` | the requests the current method has still to make; attempt of `request_with_retry` |
| `thread` | what the pull request shows |
| `lost` | history: the posts that took effect although their answers were lost |
| `unserved` | history: the requests that failed although the platform could have carried them out, or that found no versions |
| `interrupted` | history: the stages whose requests an exception other than `HTTPError` cut short |

`Start` is what each runner does up to the review: authentication and `prepare_job_event`
in the server's process and in a pod (`StartJob`), the event of the environment in CI
(`StartCi`), authentication and `fetch_pr_branch` on the command line (`StartCli`), which
finds no branch on GitLab. `Prepare` is `_prepare_review_context`
with the check that any file is left; `Invoke` the agent with its fallback and the parsing
of its output; `Repair` one corrective request. Invoke and Repair end in
`PostReviewResult`, which filters the findings and lines up the requests of
`submit_review` or `post_reply`. `Done`, `NoVersions`, `Fails`, `Retry` and `Escapes` are the
ends of one attempt of a request: an answer; an empty list of versions, after which GitLab's
`submit_review` returns without a discussion (`platforms/gitlab/platform.py:709`); an
`HTTPError` (with the continuation that each method has in its `except`); a status 502, 503
or 504 with attempts left; any other exception, which no method catches while a review is
posted. There are two of these (`Escape`): versions that are not JSON, and the `RuntimeError`
of `get_api_token`, which needs another task of the server that prunes the token and thus a
job in the server's process, and comes before the first attempt, since the headers are made
once. `Raise` is an exception
out of the job: the process runner posts an error reply, a pod logs it, CI and the command
line exit with 1. `Posted` says whether a review is for posting at all: not in a dry run,
and on the command line only if it could be parsed.

`Promise` maps the job to `ReviewPromise`: `shown` is read off the thread, and `SilenceOf`
lists the excuses: a post failed, an error reply was cut short, the runner posts no errors,
or the review was not for posting. An exception that escapes is not an excuse to succeed: the
job then fails, which may put an error beside a part of the review.

`FindingsAreShown` excuses a finding by the requests that were to show it and no others: an
inline finding by its own discussion or review, or by the versions of the merge request,
failed or empty; one in the text by the summary. A fallback that lost what an earlier request
could still have shown would violate it.

The platform is external: it takes inline comments only inside the diff (`Acceptable`);
a request that fails may still have taken effect (`NoAnswer`). The agent may output
anything, and an agent that fails outputs the empty text, which cannot be parsed
(`AgentOutputs`, also for `run_cli_agent`). The job is alone; jobs of a pull request
exclude each other by the queue's promise. Left out: the directory of notes and the
explorer's provider, which are in `SubAgents`, and codebase reviews, which callers of the
library start. When tokens expire or are pruned is in `GitHubAuth`; here they are requests
that fail or raise at any time.

### `WebhookDispatch`: from a webhook to its job

| State | Code |
|---|---|
| `request` | how far `_handle_webhook` is, then the status of its response |
| `eyes` | the reaction that `acknowledge_event` or `dispatch_lifecycle_event` left |
| `invited` | history: the documentation has this webhook answered |

Extends `ReviewPipeline`: an accepted request is followed by its job; a job of CI or of the
command line has no request. A hook is the part
of a payload that its fate depends on: kind, action, signature, draft, repository, tags of
the title, author, and whether the text mentions the bot. The parsers, `FilterEvent`,
`DispatchLifecycle` and `DispatchComment` are the functions of the code in their order.
`Invited` is stated apart from them, kind by kind, from the documentation
(`docs/security.md`, `docs/modes/webhook.md`, `docs/reference/configuration.md`); the
properties compare the two. `authenticate`, the reaction and `enqueue` may fail. One
behaviour has one request; requests that suspend at the same time are in `GitHubAuth`.

### `ProviderMessages`: what the providers are sent

Extends `ReviewConversation` with pure definitions: `AnthropicMessages`, `ChatMessages`
(OpenAI and its compatible services) and `GeminiContents` turn a history into the messages
of a request, with roles, calls and results; texts are left out. Gemini's calls have no
id: the code numbers the calls of each response from zero (`GeneratedId`) and looks the
name of a result's tool up in a table built from the whole history (`IdToName`). In chat
completions each result is a message of its own, in the order of the calls (`CallsBefore`).

## 4. The runs

| Run | Asks | Instance | Result |
|---|---|---|---|
| `asyncio_queue` | are jobs serial per key, is nothing orphaned, are idle tables emptied, is the promise kept, does every job end? | 2 keys, 3 + 2 jobs, 2 cancellations | holds |
| `redis_queue_faults` | are there ever two consumers of a key, is a job lost that no failure took, is the promise kept? | 2 keys, 3 + 1 jobs, one unreadable, 1 error, 1 restart | holds |
| `redis_queue_stranded` | does a waiting job always have a consumer? | 2 jobs, no failure | violated |
| `kubernetes_faults` | whose signals are mistaken for another's? | 2 + 1 jobs, 1 error, 1 replacement of each pod | holds |
| `kubernetes_live` | do tracked pods of a pull request overlap, does every call of `_execute` return, is a list drained? | 2 jobs, 1 restart, 1 broken connection, 1 replacement | holds |
| `kubernetes_restart` | do pods of a pull request never overlap? | 2 jobs, 1 restart | violated |
| `conversation_reviews` | where are histories damaged, do answers reach each provider, are notes, budgets and failed runs respected, are sub-agents waited for and paid for, do reviews and sub-agents end? | 2 reviews, 2 calls a turn, 3 turns or no limit, both stores, 1 note, 2 sub-agents of 2 turns in the first review | holds |
| `conversation_paired` | is every history sent one that a provider accepts? | 2 reviews | violated |
| `github_tokens` | does each task act for its own installation, how long may a job rely on its token, what disturbs its workspace? | 4 events, 3 pull requests, 2 installations and none, 5 instants | holds |
| `workspace_token` | does git have a live token when the job has one? | 2 events of one pull request, 5 instants | violated |
| `review_pipeline` | who is answered; are findings filtered exactly and shown once, does a job's result agree with what it shows, does it end? | every hook, 5 policies, 45 sets of changed files in the process runner on GitHub, 18 on GitLab and 3 elsewhere, 17 outputs, both platforms, 4 runners, dry runs, 1 lost answer | holds |
| `review_newline` | are findings shown, also when a file does not end in a newline? | 2 patches, both platforms | violated |

Bounds, and why they are enough:

- *Jobs.* With three jobs of a key one runs, one waits and one arrives, and a consumer
  can retire and be replaced while others wait. A second key has to show only that keys
  do not disturb one another: no definition compares keys otherwise.
- *`MaxCancellations` = 2*: a consumer that replaces a cancelled one is cancelled too.
- *`MaxErrors`, `MaxRestarts`, `MaxCuts` = 1*: a failure, and the recovery from it with
  further jobs. Errors and a restart are combined in `redis_queue_faults`.
- *`BackoffLimit` = 1*: the default of the configuration is 0; one replacement per job
  shows the case in which a pod signals and a second one runs.
- *`MaxSize` = 9, `PromptSize` = 3*: three prompts and nothing else reach the budget, so
  that the second review truncates, within and between exchanges. `Deployments`: Redis with
  no limit and with three turns (the first, a middle and the last one), memory with three;
  the store and the limit do not depend on each other otherwise. `TurnBound` = 3 turns of an
  unlimited run reach five messages past the summary, when compaction applies, and
  compact an already compacted history. `MaxCalls` = 2: a set of answers that could be
  incomplete. `MaxNotes` = 1: the note is written before, in, or after the first of two
  compactions.
- *`MaxAgents` = 2, `AgentTurns` = 2, `AgentReviews` = 1*: one task raises while another
  has requests to make; the second review, which starts none, shows what is left of the
  first one's.
- *`Lifetime` = 3, `Margin` = 2, `Latency` = 1, `MaxClock` = 4*: in the code 3600, 300
  and 30 seconds. A token can be fresh, inside its margin, expired, pruned and fetched
  anew within five instants, by the other event of its installation or pruned by an
  event of the other installation. Two events share a pull request, so that one clones
  and the other updates.
- *Patches.* Every hunk of one to three lines on GitHub and of one or two on GitLab, where
  the parser and the filter are the same code and the posts differ; a new and a removed file, whose header has
  a zero; two hunks, of which the second is displaced. The counters have no other state
  than their values, so that longer hunks repeat these steps. Findings are on either
  side, inside and outside the hunks, single lines and ranges that are inside, cross
  the end of a hunk or lie between two; one is on a file without a patch. An output has none,
  any one, or any one beside the first, so that two are accepted, or one is accepted and the
  other rejected. Two outputs have a malformed comment.
- *Hooks and policies.* Hooks are all combinations of their fields, with the actions that
  their kind can have. The policies are the defaults, all filters at once, some of them,
  no secret, and a server without a bot; two repositories, two users and two tags, of
  which a filter names one.
- *`MaxLost` = 1*: one request takes effect twice. Three attempts and two repairs are the
  constants of the code.

The second disjunct of each MC module's next-state relation lets a system in which
everything is over stutter, so that deadlock is checked everywhere.

Properties that hold only of a part of the system say so: `OneTrackedPodPerPR` and
`OnlyLostPodsAreMistaken` are about pods that the server did not lose track of, and the
runs that break the unrestricted property show the restriction is needed.
`DamagedOnlyAtTheFront` is stated for the Redis store: with the in-memory one, a failed
run leaves its last calls in the list it shares. `CostsAreComplete` is about main runs that
did not fail: a run that fails and a run replaced by its fallback report no sub-agent.
`WorkspaceIsStable` does not say that git commands of two jobs never overlap, since they do
after a failure: it says that the intruder is always one that a failed job left running.
`NothingIsPostedTwice` allows a second post of the one kind that the retries make, that of a
post whose answer was lost. `AnswersReachTheProvider` is about the names of the newest
results that Gemini is sent; those of earlier turns can be wrong.

### Fairness

- `AsyncioJobQueue`: the event loop runs every scheduled task, and a callback ends,
  because the requests, subprocesses and turns it consists of are bounded. Nothing forces
  a webhook to arrive or a cancellation.
- `RedisJobQueue`: commands that were sent reach Redis, `BRPOP` has a timeout of 5
  seconds, answers are read. That the callback ends is assumed here and checked in
  `KubernetesRunner` (`ExecutionsEnd`).
- `KubernetesRunner`: requests are answered or time out (30 seconds), the pod ends
  (`activeDeadlineSeconds`), the poll has a deadline. Nothing is assumed of failures.
- `ReviewConversation`: the provider answers or its client times out, tools end. Weak
  fairness of one disjunction, since only one thing is enabled at a time.
  `ReviewsEnd` is claimed of limited runs; an unlimited one ends when the model decides.
- `SubAgents`: weak fairness of the main run and of the sub-agents as a whole, for the same
  reasons: the event loop runs each task, and requests and tools end. Sub-agents have a
  limit of turns.
- `ReviewPipeline`: weak fairness of the whole next-state relation. The job is one task,
  and what it awaits, requests, subprocesses of git and the agent, has a timeout or a
  limit. Which of the outcomes it meets is not constrained. In `WebhookDispatch`, whose
  next-state relation contains that of the job, the handler of the request is one task
  in the same way.

### What the violated runs show

- **A stranded job.** `BRPOP` expires in Redis, `LPUSH` follows, and its answer is
  processed before the nil: `enqueue` finds the consumer registered, the consumer then
  breaks out of its loop. The job waits for the next event of its pull request, contrary
  to `jobs/queue/redis.py:69` and `:88`. `QueueDrains` shows that this next event, or the
  first one after a restart, revives the list.
- **Two pods of a pull request.** Who waits for which pod is known only to the server's
  memory. After a restart the next event creates a second Job beside the running one,
  contrary to `docs/deployment/kubernetes.md:372`. The same overlap follows a broken
  pub/sub connection and, when `backoff_limit` is raised, a replaced pod.
- **An unanswered call in the history.** A run that ends with `submit_review` is stored
  with that call unanswered, and the next review sends it.
- **A clone with a dead token.** The first job of a pull request clones with its token in
  the URL, and git keeps that URL as the remote. Later jobs fetch from it
  (`workspace/git.py:228`), whatever token they hold themselves: an hour after the clone,
  they all fail, contrary to `docs/platforms/github.md:57` and `:35`.
- **A line that no file has.** `\ No newline at end of file` starts with neither `-` nor
  `+`, so `review/diff.py:105` counts it as a context line. What follows is one line off,
  in the prompt too, and a finding on the extra line passes the filter. GitHub refuses the
  whole review; the fallback posts the summary, and all its findings are lost, contrary
  to `docs/review.md:119`.

Some smaller observations need no run. A completion signal published between the creation
of the Job and `SUBSCRIBE` is heard by nobody, so that the consumer waits until its
timeout (`PodSignals` with `call = "created"`); `docs/deployment/kubernetes.md:377` says
that it moves on immediately. The channel of a job leaves out the namespace that its
queue key has, so that two keys can share a channel; no entry point of the program sets
different namespaces. A review pod takes its installation from `GITHUB_INSTALLATION_ID`,
since the webhook server passes no installation in the job.
`authenticate()` is called when a webhook arrives and when a job begins, and nowhere in
the job, whereas `docs/platforms/github.md:57` has tokens "automatically refreshed before
they expire": a job may rely on its token for the refresh margin (`MarginIsGuaranteed`)
and no longer; after that its review is refused and only logged,
and when another task has pruned the entry the error reply fails too. When the output
cannot be repaired, an extracted summary or a general message is posted, not "the raw
output" of `docs/review.md:110`. A pull request of which all files are ignored gets an
error reply, and one whose branch cannot be resolved gets two: that of `resolve_branch`
and the general one.

Of compaction and the providers: the notes file is created with a header, so that
`compact_with_notes` never takes it for empty, contrary to
`docs/reference/compaction.md:72`. The summary has the role "system", which Anthropic and
Gemini are sent as the user's and OpenAI as the model's. The ids that `llm/google.py`
generates repeat in every response, so that the results of earlier turns are sent under the
names of later tools; `llm/messages.py` has them unique. The Responses API of OpenAI is
given the whole history and `previous_response_id` at once.

Because of that header, a compaction before the first note replaces the prompt by it, where
`docs/reference/compaction.md` has compaction wait for a note ("Empty Notes Edge Case");
and a sub-agent that answered with text and wrote no notes returns the header
(`agent/api/runner.py:472`), not the text of `docs/architecture.md:155`. A compaction in a later
review drops the summary of the earlier one, whose notes are gone by then: `NoNoteIsLost` is
about the notes of one review. The directory of a sub-agent's notes is never removed,
contrary to `docs/architecture.md:177`. The fallback overwrites the result of the main run,
so that the costs of the main run and its sub-agents are lost, and `_run_job` logs none of
the sub-agents' costs, contrary to `docs/reference/explore.md:88`. A Grep or Bash command
that timed out is not killed: it runs on in the workspace beside the next turn.

Of CI and the command line: `GitLabPlatform.fetch_pr_branch` always returns the empty
string (`platforms/gitlab/platform.py:346`), since GitLab's webhooks name the branch;
`commands/cli/main.py:214` asks it for the branch all the same, so that `nominal-code
review ... --platform gitlab`, documented in `docs/modes/cli.md:50`, always ends with "Could
not resolve branch" and exit code 1 (`StartCli` with `FetchedBranch`). The command line
exits with 0 when the output could not be parsed and posts nothing; CI exits with 0 when
the posts failed, since each method catches its `HTTPError`. `authenticate()` on the command
line is outside any `try`. A dry run of the server still posts error replies and
reactions, contrary to `docs/reference/env-vars.md:103`: `ReviewPromise` lets a dry run show
an error.

Of posting: a merge request whose `versions` are empty gets its summary and none of its inline
findings, and the job succeeds. The methods that post catch `httpx.HTTPError` only: versions
that are not JSON (`platforms/gitlab/platform.py:699`), or a token that another task pruned
meanwhile (`platforms/github/auth.py:125`), end a job that may have shown its summary. The
process runner then adds an error reply, CI exits with 1, and a CI job that is run again for
that reason posts its summary a second time. The diff of a merge request is read one page long
(`platforms/gitlab/platform.py:504`), so that findings on further files go into the text.

Of webhooks: an edited note of GitLab is taken like a new one. `parse_reviewer_triggers`
accepts the types of comment events, whose mentions are then ignored. Users who are not
allowed get a response with status 403, where `docs/security.md:54` says "silently
ignored"; on the pull request they leave no trace. An empty `allowed_users` allows nobody,
contrary to `docs/reference/policies.md:22`, but the server does not start with one. A
lifecycle event gets a reaction, contrary to `docs/architecture.md:26`.

### Mutants

Each property of a passing run has a mutant in `PROJECT.json`: an operator marked
*Fault* in the module, the code with one plausible mistake, under which TLC finds the
property violated.

## 5. The proofs

`AsyncioJobQueue_proofs`, checked by TLAPS for every set of keys and jobs, every
assignment of keys and every number of cancellations, from the three assumptions of
`AsyncioJobQueue` (`KeyOf` is a function to keys, `None` is no job, the bound is a
natural number):

| Theorem | States |
|---|---|
| `TypeCorrect` | `TypeOK`: the types, and that a task holds a job exactly while it is inside the callback |
| `Discipline` | `ConsumerDiscipline` |
| `SerialExecution` | `SerialPerKey` |
| `NoOrphans` | `NoOrphanQueue` |
| `Refinement` | `Promise!Spec`: the queue implements `SerialJobQueue` |
| `IdleKeysLeaveTables` | `IdleKeysAreForgotten` |

Neither `SerialPerKey` nor `NoOrphanQueue` is inductive: they say nothing of tasks that
are scheduled and have not started, nor of the queue a task holds while another is
registered. The inductive invariant is `ConsumerDiscipline` (with the types): the two
tables have the same domain, each live task is the registered one of its key and reads
the registered queue, only that queue holds jobs, and a job that was never submitted
names nothing. `SerialPerKey` follows because two live tasks of a key are both the
registered one. For the refinement, the initial states correspond and each action
maps to a step or a stutter of the promise: `Enqueue` to `Accept`, `ConsumerStarts` to
`Start`, `CallbackEnds` to `HandOver` or `Finish`, `CallbackCancelled` to `Finish`.
`IdleKeysLeaveTables` needs the place of each job as well (`Places`): queues and tasks
hold jobs of their own key, a job waits once, and one that is held has not finished.

`RedisJobQueue_proofs`, for every set of keys, jobs and unreadable jobs and every number
of errors and restarts, from the assumptions of `RedisJobQueue` on `KeyOf` and `None`:

| Theorem | States |
|---|---|
| `TypeCorrect` | `TypeOK`, in particular that a task holds a job exactly while one is in flight to it or being run |
| `SingleConsumer` | `OneConsumerPerKey` |
| `Refinement` | `Promise!Spec` |
| `NoJobVanishes` | `AcceptedJobsAreSomewhere` |

Here one consumer per key is inductive once it is said through the table: a live task is
the one registered for its key (`LiveTasksAreRegistered`). `NeedsConsumer` is then false
while any task of the key lives. The refinement needs two more facts: Redis blocks a
consumer only on an empty list (`BlockedOnEmptyList`), so that a job handed to it
overtakes nobody, and a job whose `LPUSH` has not arrived is nowhere
(`UnpushedJobsAreNowhere`), so that the push accepts a new job. What is pending is the
job in flight to a consumer followed by the list: `BRPOP` executed by Redis is then a
stutter, `PushArrives` is `Accept`, `ConsumerReadsJob` is `Start` or `Discard`,
`CallbackEnds` is `Finish`, `BrpopFails` is `Discard` or a stutter, and `Restart` is
`Crash` of the keys with a job in flight. The lemma `InvariantGivesView` says in which of
these states a key is, by its one live task. `NoJobVanishes` follows from `Places`: a job
that was pushed waits in the list of its key, or is held by one task of its key, or has
ended or been given up, and never two of these.

`KubernetesRunner_proofs`, for every set of keys, jobs and channels, every backoff limit
and every number of errors, restarts and broken connections:

| Theorem | States |
|---|---|
| `TypeCorrect` | `TypeOK` |
| `ImplementsQueue` | `Queue!Spec`: the composition with pods is a behaviour of `RedisJobQueue` |
| `KeepsPromise` | `Queue!ImplementsPromise`: it keeps the promise of `SerialJobQueue` as well |
| `TrackedPodsAreSerial` | `OneTrackedPodPerPR` |
| `SignalsReachTheirConsumer` | `OnlyLostPodsAreMistaken`, if channels tell pull requests apart |

The queue is not proved again. `RedisJobQueue_proofs` is instantiated, and each step of the
composition is a step of the queue or leaves it alone, so that its invariants hold of the
composition. Two more facts make `OneTrackedPodPerPR` inductive: a running pod that the
server did not lose track of has a task that awaits it (`TrackedPodsAreAwaited`), and a
task that was told of an end leaves no such pod behind (`ToldOfTheEnd`). Two tracked pods
of a key are then awaited by two live tasks of the key, of which there is one.
`SignalsReachTheirConsumer` has a hypothesis on the constants: `build_job_channel_key`
leaves the namespace out, so that the channels of two pull requests differ only as long as
the namespace does not vary, which it does not within a deployment.

`GitHubAuth_proofs`, for every set of events, pull requests and installations and every
value of the times, from the three assumptions of `GitHubAuth` (`KeyAssumption`,
`InstallationAssumption`, and `TimeAssumption`: naturals, and the margin is shorter than
the lifetime):

| Theorem | States |
|---|---|
| `TypeCorrect` | `TypeOK`, in particular that a token is waited for exactly in the stages that authenticate |
| `OwnInstallation` | `ActsForItsInstallation` |
| `MarginGuarantee` | `MarginIsGuaranteed` |

`OwnInstallation` needs the invariant `Contexts`: the context of each request and of each
consumer is that of its own pull request, and a consumer exists as long as a job waits
or runs. `MarginGuarantee` needs, besides, two invariants about time: a cached token
expires in the cache no later than a `Latency` after it does at GitHub, an answer under
way is at most a `Latency` old (`TokenTimes`); and until `since + Margin` the cache holds,
for a task that authenticated at `since`, a token that expires later than that
(`TokensOutlastMargin`). The last survives pruning, which removes only what expired, and
a refresh by another task, which only postpones expiry. No relation between `Latency` and
`Margin` is assumed: with a latency above the margin the guarantee is empty.

`GitWorkspace_proofs`, for every set of events and pull requests, from the same assumptions:

| Theorem | States |
|---|---|
| `JobsAreTheSame` | `GitSpec => Spec`: with clones, jobs are jobs of `GitHubAuth`, whose theorems carry over |
| `WorkspacesAreStable` | `WorkspaceIsStable` |

The stability of a ready workspace is not inductive: it says nothing of jobs whose git command
is still running, or of the commands that failed jobs left behind. `JobsWithClones` says that
a working job is on its way to git, under it or past it, one at a time, and that whatever git
command has no working job belongs to a failed one; `ClonesExist` that in a pull request
without failures the clone is there from the first git command on. A failure is never taken
back, so a pull request without failures had none in any earlier state. One job of a pull
request works at a time (`Contexts`); a second git command is therefore
the same job's or that of a failed one.

`DiffLines_proofs`, about the pure definitions, for every patch of any length that is well
formed (`WellFormedPatch`): no raw line that belongs to neither file and no header with two
zeros.

| Theorem | States |
|---|---|
| `ParsedLinesAreTheDiff` | `ParseDiffLines` is `DiffLinesOf`, on both sides |
| `PromptedLinesAreAccepted` | what `AnnotateDiff` numbers is accepted by the filter |
| `FilterIsExact` | `IsValid` is `InDiff` |

A loop is a recursive function of the number of lines read. The reference satisfies the
equation of the loop step by step (`StepOfLines`, `StepOfShown`), and by induction over the
numbers of lines only one function does. The induction is over a set of natural numbers
(lemma `Induction`, from the well-foundedness of `Nat`), because the library's induction
theorems take an operator. The hypothesis excludes the marker of a missing newline: on those
patches the statement is false, which is what `review_newline` shows.

`ReviewPipeline_proofs`, about `WebhookDispatch` and the job that follows, for every set of
jobs, files, patches, outputs, hooks and policies and every number of lost answers; of
outputs it is assumed that a list of findings is finite and has natural line numbers
(`OutputsAssumption`):

| Theorem | States |
|---|---|
| `TypeCorrect` | `TypeOK` |
| `PostedOnce` | `NothingIsPostedTwice` |
| `KeepsPromise` | `ImplementsPromise`: the job implements `ReviewPromise` |
| `EveryFindingIsShown` | `FindingsAreShown`, if the patches are well formed |
| `PromptNumbersAreRight` | `PromptedLinesAreInTheDiff`, if the patches are well formed |
| `UninvitedLeaveNoTrace` | `UninvitedEventsLeaveNoTrace` |
| `InvitedAreAnswered` | `InvitedEventsAreAnswered`, if hooks have actions of their own kind |

Beyond the types, none of these properties is inductive: a job that posts has requests still
to make.
`PostsFitTheStage` says what each stage may have posted and may still post, so that a review
and an error exclude each other unless the posting was interrupted, after which the job can
only fail. `SilenceIsExcused` says that, unless a post failed that the platform could have
carried out, or an error reply was cut short, something is shown or still to be posted: the
step to the end of the job is then one that `ReviewPromise` allows. `PostsDiffer` speaks of shown
posts and posts to come at once, `ReviewIsUnderWay` says that together they are the posts of
the review or were in requests that failed, and `Origins` that the review and its files come
from the job; with `FilterIsExact`, findings on lines of the diff are then in the inline part
and the others in the text. `WebhookInv` follows a request: only what is invited gets on, and no job begins
before the request is accepted. `InvitationsAreAccepted` is the converse. It needs
`ActionsFitTheKind`, because `Invited` names the actions of both hosts in one place: an event
of GitHub with an action of GitLab, which GitHub does not send, would be invited and turned
away.

`ReviewConversation_proofs`, about `ReviewConversation`, `ProviderMessages` and `SubAgents`,
for every set of deployments, every size limit, and any number of reviews, turns, calls and
sub-agents, from the named assumptions of these modules:

| Theorem | States |
|---|---|
| `TypeCorrect` | `TypeOK` |
| `DamageIsAtTheFront` | `DamagedOnlyAtTheFront` |
| `NotesAreKept` | `NoNoteIsLost` |
| `FirstRequestsFit` | `FirstRequestFits` |
| `BudgetsAreKept` | `BudgetIsKept` |
| `FailuresKeepHistory` | `FailedRunsKeepHistory` |
| `CallsReachProvidersAnswered` | `AnswersReachTheProvider` |
| `ReviewsAreTheSame` | `ConversationSpec => Spec`: with sub-agents, reviews are those of `ReviewConversation` |
| `OnlyFailuresLeave` | `OnlyFailuresLeaveAgents` |
| `CostsAreReported` | `CostsAreComplete` |

The invariant about histories is not only about what is sent: the stored history is paired
except at its front, and so is the one of the current run, without its last message while
calls are dispatched (`Paired`, `HistoriesArePaired`). Every operation on a history keeps
that. Appending a message that neither calls nor answers does, and so do the results of the
last response; any suffix of a paired history is paired except at its front, which covers
truncation, and also compaction, whose summary makes the front one longer. `Truncate` is a
recursive function; that it is defined for every history, and returns a suffix that is not
empty and fits unless it is one message, is proved by induction (`TruncateIsDefined`,
`TruncateFacts`). `NotesAreKnown` says of all stages of a main run that its history shows
each note. `TurnsAreCounted` ties requests to turns in each stage. `StoreIsKept` says what
the in-memory store and the run share: the store extends what it held when the review
began, and in Redis nothing is written before the end.

For the providers, the messages of a request are related to the history they come from. For
Anthropic and Gemini they have the same positions. For Gemini, the greatest position in
`IdToName` is that of the newest calls. Chat completions flatten a sequence of sequences;
`CallsFollow` says of each prefix of the history that the results of a call begin right
behind it, and holds of all prefixes by induction. A response is assumed to have finitely
many calls, which is proved of every history (`FiniteMessages`).

For the sub-agents, `AgentsAreOurs` says that a sub-agent of the current review has its call
under dispatch, or the run has failed: `gather` returned only when all had ended.

Only model-checked: liveness, which is out of the prover's reach. These are `EveryJobFinishes`,
`ExecutionsEnd`, `QueueDrains`, `ReviewsEnd`, `AgentsEnd` and `RequestsAndJobsEnd`. What the
runs refute is not proved either: `TrackedPodsAreSerial`, for one, is the part of "one pod
per pull request" that holds.

## 6. Not modelled

- Texts of prompts, comments and logs, and what Read, Glob, Grep and Bash return: they are
  free text to the model, whose answers are free already. `execute_tool` turns every
  exception of a tool into an error result; only the notes file has an effect on control.
- Configuration: read once at start, immutable data. Prompts: formatting.
- Cost accounting, except which sub-agents are in it (`CostsAreComplete`).
- The session that the CLI agent's SDK resumes: it is kept outside the program. The
  outcomes of its invocations are in `ReviewPipeline`.
- Codebase reviews and read-only workspaces of pre-cloned pods: started by callers of the
  library, with no path from an entry point of the program.
- What the OpenAI Responses API keeps between requests (`previous_response_id`).
- A crash of the server in the middle of a clone: what git leaves behind depends on how it
  was killed.

`components` in `PROJECT.json` gives the reason for each part, and each hazard without a
property has a note.

------------------------- MODULE ReviewConversation -------------------------
(***************************************************************************)
(* The reviews of one pull request, one after the other (the job queue     *)
(* serializes them), with the LLM provider API as the agent: the agent     *)
(* loop (agent/api/runner.py), its compaction (agent/compaction.py), the   *)
(* fallback invocation of review() (review/reviewer.py) and the message    *)
(* history kept between reviews (agent/invoke.py, conversation/).          *)
(*                                                                         *)
(* A message is a record of its kind and of the ids it carries: the calls  *)
(* of a response, the calls answered by a message of results, the number   *)
(* of the review a prompt belongs to.  Texts are left out, except for what *)
(* truncation and compaction decide on.  The model's choices are free.     *)
(*                                                                         *)
(* The in-memory store hands out the list it keeps (memory.py, get_messages*)
(* returns the stored object), and run_api_agent() appends to the list it  *)
(* is given: "aliased" says that the two are still one object.             *)
(***************************************************************************)
EXTENDS SequencesExt, Naturals

CONSTANTS
    Deployments,   \* pairs of a conversation store ("memory", "redis") and a value of
                   \* agent.reviewer.max_turns, 0 for no limit
    MaxSize,       \* MAX_MESSAGE_CHARS, in units of a short message
    PromptSize,    \* size of a prompt with its annotated diff, in these units
    MaxNotes,      \* MAX_NOTES_FILE_SIZE, in units of a note
    MaxReviews,    \* bound on reviews
    TurnBound,     \* bound on the turns of a run without limit
    MaxCalls       \* bound on the tool calls of one response

ASSUME DeploymentsAssumption == Deployments \subseteq {"memory", "redis"} \X Nat
ASSUME SizesAssumption ==
    /\ {MaxSize, MaxNotes, MaxReviews, TurnBound} \subseteq Nat
    /\ PromptSize \in Nat \ {0}
    /\ MaxCalls \in Nat \ {0}

PRESERVE_RECENT_MESSAGES == 4

VARIABLES
    backend,   \* the deployment's store and turn limit, which never change
    maxTurns,
    store,     \* the stored history of the pull request, <<>> when there is none
    messages,  \* the history of the current run
    aliased,
    stage,     \* where the current review is
    mode,      \* "main", or "fallback" for the second invocation of review()
    turns,     \* turns of the current run
    calls,     \* calls of the last response, while they are dispatched
    choice,    \* tool_choice of the last request
    result,    \* how the last run ended
    reviews,   \* reviews begun
    lastId,    \* ids given to calls so far
    notes,     \* notes file of the reviewer: the calls of WriteNotes that made it
    sends,     \* requests sent in the current run (api_call_count)
    before     \* history: the store when the current review began

runVars == <<messages, aliased, stage, mode, turns, calls, choice, result, notes, sends>>
config == <<backend, maxTurns>>
vars == <<config, store, runVars, reviews, lastId, before>>

\* MemoryConversationStore returns and keeps list objects.
SharedStore == backend = "memory"

Message(kind, ids) == [kind |-> kind, ids |-> ids]

\* "submission": a response that calls submit_review; its calls get no results.
Kinds == {"prompt", "warning", "response", "submission", "results", "summary"}
Messages == [kind : Kinds, ids : SUBSET Nat]
IsAssistant(m) == m.kind \in {"response", "submission"}

Init ==
    /\ \E d \in Deployments : backend = d[1] /\ maxTurns = d[2]
    /\ store = <<>>
    /\ messages = <<>>
    /\ aliased = FALSE
    /\ stage = "idle"
    /\ mode = "main"
    /\ turns = 0
    /\ calls = {}
    /\ choice = "any"
    /\ result = "none"
    /\ notes = {}
    /\ reviews = 0
    /\ lastId = 0
    /\ sends = 0
    /\ before = <<>>

-----------------------------------------------------------------------------
(* truncate_messages(), compact_with_notes()                               *)

Size(h) == FoldSeq(LAMBDA m, n : n + (IF m.kind = "prompt" THEN PromptSize ELSE 1), 0, h)

\* Fault: the newest messages are dropped.
TruncateNewest(h) == IF Size(h) <= MaxSize THEN h ELSE <<Head(h)>>

\* The oldest message is dropped, and the one after it if it is the model's,
\* until the rest fits or is a single message.
Truncate(h) ==
    LET Rest(n) == SubSeq(h, n + 1, Len(h))
        from[n \in 0..Len(h)] ==
            IF Len(h) - n <= 1 \/ Size(Rest(n)) <= MaxSize THEN n
            ELSE IF IsAssistant(h[n + 2]) THEN from[n + 2] ELSE from[n + 1]
    IN  Rest(from[0])

\* The number of messages at the front that are an earlier summary.
CompactedSummaryPrefixLen(h) == IF h # <<>> /\ Head(h).kind = "summary" THEN 1 ELSE 0

\* The notes file holds at least its header, so that its content is never
\* the empty string for which compact_with_notes() declines.
Compactable(h) == Len(h) - CompactedSummaryPrefixLen(h) > PRESERVE_RECENT_MESSAGES

Preserved(h) == SubSeq(h, Len(h) - PRESERVE_RECENT_MESSAGES + 1, Len(h))

\* Fault: an earlier summary is kept instead of written anew.
CompactOnce(h, content) ==
    <<IF CompactedSummaryPrefixLen(h) = 1 THEN Head(h) ELSE Message("summary", content)>> \o Preserved(h)

\* The summary is the content of the notes file.
Compact(h, content) == <<Message("summary", content)>> \o Preserved(h)

-----------------------------------------------------------------------------
(* run_api_agent()                                                         *)

Budget == IF mode = "fallback" THEN 1 ELSE maxTurns

\* The history of a run becomes h; the store sees it if it shares the list.
Extend(h) ==
    /\ messages' = h
    /\ store' = IF aliased THEN h ELSE store

\* get_messages(): an error of Redis, or a value that does not decode, reads as
\* no history.
ReadHistory == IF SharedStore THEN {store} ELSE {store, <<>>}

\* set_messages(): an error of Redis is logged and the old history stays.
StoreHistory(h) == store' = h \/ (~SharedStore /\ UNCHANGED store)

\* `prior_messages or []` with the prompt of review n.
WithPrompt(prior, n) == Append(prior, Message("prompt", {n}))

\* prepare_conversation(), invoke_agent(), and run_api_agent() up to its loop.
BeginReview ==
    /\ stage = "idle"
    /\ reviews < MaxReviews
    /\ reviews' = reviews + 1
    /\ \E prior \in ReadHistory :
        LET h == WithPrompt(prior, reviews') IN
        /\ messages' = Truncate(h)
        /\ store' = IF SharedStore /\ prior # <<>> THEN h ELSE store
        /\ aliased' = (SharedStore /\ prior # <<>> /\ Size(h) <= MaxSize)
    /\ before' = store
    /\ stage' = "turn"
    /\ mode' = "main"
    /\ turns' = 0
    /\ sends' = 0
    /\ result' = "none"
    /\ UNCHANGED <<config, calls, choice, notes, lastId>>

\* Fault: turns are counted from one.
IsLastTurnLate == Budget # 0 /\ turns = Budget

\* `turns == max_turns - 1`
IsLastTurn == Budget # 0 /\ turns = Budget - 1

\* Top of the loop, until provider.send() suspends.
SendTurn ==
    /\ stage = "turn"
    /\ IF IsLastTurn
       THEN /\ Extend(Append(messages, Message("warning", {})))
            /\ choice' = "required"
       ELSE /\ UNCHANGED <<messages, store>>
            /\ choice' = IF turns = 0 /\ mode = "fallback" THEN "required" ELSE "any"
    /\ stage' = "sent"
    /\ sends' = sends + 1
    /\ UNCHANGED <<config, aliased, mode, turns, calls, result, notes, reviews, lastId, before>>

\* The response arrives: n tool calls, with or without submit_review.  A
\* response without calls ends the run with its text, submit_review ends it
\* with the review; the other calls of such a response are ignored.
ProviderResponds ==
    /\ stage = "sent"
    /\ \E n \in 0..MaxCalls, submits \in BOOLEAN :
        LET ids == (lastId + 1)..(lastId + n) IN
        /\ (submits \/ choice = "required") => n > 0
        /\ (Budget = 0 /\ turns >= TurnBound) => (n = 0 \/ submits)
        /\ Extend(Append(messages,
                         Message(IF submits THEN "submission" ELSE "response", ids)))
        /\ lastId' = lastId + n
        /\ IF n = 0 \/ submits
           THEN /\ result' = IF submits THEN "submitted" ELSE "text"
                /\ stage' = "ended"
                /\ UNCHANGED calls
           ELSE /\ calls' = ids
                /\ stage' = "tools"
                /\ UNCHANGED result
    /\ UNCHANGED <<config, aliased, mode, turns, choice, notes, reviews, sends, before>>

\* Fault: an error of send() is retried without a limit.
RunRetries ==
    /\ stage \in {"sent", "tools"}
    /\ IF stage = "sent" /\ ~IsLastTurn
       THEN stage' = "turn" /\ sends' = sends - 1 /\ UNCHANGED <<calls, result>>
       ELSE stage' = "ended" /\ result' = "error" /\ calls' = {} /\ UNCHANGED sends
    /\ UNCHANGED <<config, store, messages, aliased, mode, turns, choice, notes,
                   reviews, lastId, before>>

\* Fault: the loop goes on after an exception of a tool.
RunGoesOn ==
    /\ stage = "tools"
    /\ stage' = "turn"
    /\ UNCHANGED <<config, store, messages, aliased, mode, turns, calls, choice,
                   result, notes, reviews, lastId, sends, before>>

\* A ProviderError of send(), or an exception of a tool: an error result,
\* without messages.
RunFails ==
    /\ stage \in {"sent", "tools"}
    /\ result' = "error"
    /\ stage' = "ended"
    /\ calls' = {}
    /\ UNCHANGED <<config, store, messages, aliased, mode, turns, choice, notes,
                   reviews, lastId, sends, before>>

\* Fault: the answer of one call is left out.
ResultsOfButOne == Message("results", calls \ {CHOOSE c \in calls : TRUE})

\* _dispatch_tools(): one message with a result for every call.
ResultsOf == Message("results", calls)

\* Fault: `turns > max_turns`.
OutOfTurnsLate == Budget # 0 /\ turns + 1 > Budget

\* `turns >= max_turns`, after the turn was counted
OutOfTurns == Budget # 0 /\ turns + 1 >= Budget

\* _execute_write_notes(): the size is tested before the note is appended.  The
\* fallback has no notes file.  Of the calls of a turn, one at most is such a note.
Noted ==
    {{}} \cup (IF mode = "main" /\ Cardinality(notes) < MaxNotes THEN {{Max(calls)}} ELSE {})

\* The calls are dispatched, their results appended and the turn counted; the
\* history is compacted if the context window was large, and the run stops when
\* its turns are used up.
DispatchTools ==
    /\ stage = "tools"
    /\ \E written \in Noted : notes' = notes \cup written
    /\ LET h == Append(messages, ResultsOf) IN
        \/ Extend(h) /\ UNCHANGED aliased
        \/ /\ mode = "main"
           /\ Compactable(h)
           /\ messages' = Compact(h, notes')
           /\ store' = IF aliased THEN h ELSE store
           /\ aliased' = FALSE
    /\ turns' = turns + 1
    /\ calls' = {}
    /\ IF OutOfTurns
       THEN stage' = "ended" /\ result' = "exhausted"
       ELSE stage' = "turn" /\ UNCHANGED result
    /\ UNCHANGED <<config, mode, choice, reviews, lastId, sends, before>>

-----------------------------------------------------------------------------
(* review()                                                                *)

\* The turns of the reviewer are used up: a second invocation with a prompt of
\* its own, submit_review as its only tool, one turn and no prior history.
BeginFallback ==
    /\ stage = "ended"
    /\ mode = "main"
    /\ result = "exhausted"
    /\ messages' = WithPrompt(<<>>, reviews)
    /\ aliased' = FALSE
    /\ stage' = "turn"
    /\ mode' = "fallback"
    /\ turns' = 0
    /\ sends' = 0
    /\ result' = "none"
    /\ UNCHANGED <<config, store, calls, choice, notes, reviews, lastId, before>>

\* The notes are read for the result and their directory is removed.
ReviewEnds ==
    /\ stage = "ended"
    /\ ~(mode = "main" /\ result = "exhausted")
    /\ stage' = "idle"
    /\ messages' = <<>>
    /\ aliased' = FALSE
    /\ notes' = {}
    /\ UNCHANGED <<config, mode, turns, calls, choice, result, reviews, lastId,
                   sends, before>>

\* Fault: the error of a run is not looked at.
SaveAlways ==
    /\ ReviewEnds
    /\ store' = messages

\* save_conversation() with a run that ended well.
Save ==
    /\ ReviewEnds
    /\ result # "error"
    /\ StoreHistory(messages)

\* save_conversation() with an error result: it has no messages to store.
SkipSave ==
    /\ ReviewEnds
    /\ result = "error"
    /\ UNCHANGED store

\* The key expires in Redis, or the server with its in-memory store restarts.
Forget ==
    /\ stage = "idle"
    /\ store # <<>>
    /\ store' = <<>>
    /\ UNCHANGED <<config, runVars, reviews, lastId, before>>

-----------------------------------------------------------------------------

Reviewing ==
    \/ SendTurn \/ ProviderResponds \/ RunFails \/ DispatchTools
    \/ BeginFallback \/ Save \/ SkipSave

Next == BeginReview \/ Reviewing \/ Forget

Spec == Init /\ [][Next]_vars

\* The provider answers or its client times out, tools end.
FairSpec == Spec /\ WF_vars(Reviewing)

-----------------------------------------------------------------------------
(* Properties.                                                             *)

\* Every variable holds a value of its type, and calls wait for their results
\* exactly while they are dispatched.
TypeOK ==
    /\ <<backend, maxTurns>> \in Deployments
    /\ {store, messages, before} \subseteq Seq(Messages)
    /\ aliased \in BOOLEAN
    /\ stage \in {"idle", "turn", "sent", "tools", "ended"}
    /\ mode \in {"main", "fallback"}
    /\ {turns, reviews, lastId, sends} \subseteq Nat
    /\ calls \subseteq 1..lastId
    /\ notes \subseteq 1..lastId
    /\ (calls # {}) <=> (stage = "tools")
    /\ choice \in {"any", "required"}
    /\ result \in {"none", "text", "submitted", "exhausted", "error"}

\* The calls of the message at i, if it is a response, are answered by the
\* message that follows it.
Answered(h, i) ==
    h[i].kind = "response" /\ h[i].ids # {} =>
        /\ i < Len(h)
        /\ h[i + 1] = Message("results", h[i].ids)

\* The results at i answer the response before them.
Asked(h, i) ==
    h[i].kind = "results" =>
        i > 1 /\ h[i - 1] = Message("response", h[i].ids)

\* Whatever was truncated, compacted, stored in Redis and read back: in a
\* history sent to the provider every call of a response that did not submit
\* a review is answered by the next message, and the only results without
\* their calls are those at the front, where truncation or compaction cut the
\* history.  The in-memory store is left out: the calls of a run that failed
\* stay in the list it shares.
DamagedOnlyAtTheFront ==
    (stage = "sent" /\ backend = "redis") =>
        \A i \in DOMAIN messages :
            /\ Answered(messages, i)
            /\ (i > 1 + CompactedSummaryPrefixLen(messages)) => Asked(messages, i)

\* Providers require of every history that each tool call is followed by its
\* result and each result preceded by its call.  Promised to users as
\* "multi-turn conversations within the same PR" (docs/modes/webhook.md).
SentHistoryIsPaired ==
    stage = "sent" =>
        \A i \in DOMAIN messages :
            /\ Answered(messages, i) /\ Asked(messages, i)
            /\ messages[i].kind # "submission"

\* docs/reference/compaction.md, "No Information Loss in Notes": every note the reviewer
\* wrote is part of each later request of its main run, as the call that wrote it or in
\* the summary that replaced that call.
NoNoteIsLost ==
    (stage = "sent" /\ mode = "main") =>
        \A c \in notes : \E i \in DOMAIN messages :
            messages[i].kind \in {"response", "summary"} /\ c \in messages[i].ids

\* The first request of a review carries its prompt last, and fits the budget
\* of truncate_messages() unless the prompt alone exceeds it.
FirstRequestFits ==
    (stage = "turn" /\ turns = 0) =>
        /\ Last(messages) = Message("prompt", {reviews})
        /\ Size(messages) <= MaxSize \/ Len(messages) = 1

\* A limited run sends at most as many requests as it has turns; the last one
\* carries the warning and forces the model to call a tool.
BudgetIsKept ==
    (stage = "sent" /\ Budget # 0) =>
        /\ sends <= Budget
        /\ sends = Budget => choice = "required" /\ Last(messages).kind = "warning"

\* A run that failed loses nothing of the stored history, and with the Redis
\* store leaves it as the review found it (save_conversation: "persists the
\* full message history on success").  With the in-memory store, it may have
\* grown by the messages of the failed run.
FailedRunsKeepHistory ==
    [][(stage = "ended" /\ stage' = "idle" /\ result = "error") =>
            /\ IsPrefix(before, store')
            /\ backend = "redis" => store' = before]_vars

\* Every review with a limit of turns comes to its end.
ReviewsEnd == (stage # "idle" /\ maxTurns # 0) ~> (stage = "idle")
=============================================================================

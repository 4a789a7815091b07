------------------------------ MODULE SubAgents ------------------------------
(***************************************************************************)
(* The sub-agents of the reviewer (_dispatch_tools, _handle_agent_tool in  *)
(* agent/api/runner.py) beside the reviews of ReviewConversation: each     *)
(* Agent call of a response becomes an asyncio task that runs an agent     *)
(* loop of its own.  gather() waits for all of them, but not once one has  *)
(* raised: the others go on beside the end of the review and the next one. *)
(*                                                                         *)
(* A sub-agent's own history is left out: it has no submit_review and thus *)
(* no last turn that differs from the others.                              *)
(***************************************************************************)
EXTENDS ProviderMessages

CONSTANTS
    AgentTurns,    \* agent.explorer.max_turns
    MaxAgents,     \* bound on the sub-agents of a response
    AgentReviews   \* bound on the reviews that start sub-agents

ASSUME AgentsAssumption ==
    AgentTurns \in Nat \ {0} /\ {MaxAgents, AgentReviews} \subseteq Nat

VARIABLES
    agents     \* by call: review, stage, and answered requests of its sub-agent;
               \* those whose cost is in the result of the run are dropped

conversationVars == <<vars, agents>>

\* "refused": no such type or no prompt; "raised": the task ended with an exception.
AgentStages == {"sent", "tools", "ended", "refused", "raised"}
Running(c) == agents[c].stage \in {"sent", "tools"}
Raised(c) == agents[c].stage = "raised"

\* Tasks of the dispatch under way.
Tasks == DOMAIN agents \cap calls

ConversationInit == Init /\ agents = <<>>

-----------------------------------------------------------------------------
(* run_api_agent() of a sub-agent                                          *)

Advance(c, s) == agents' = [agents EXCEPT ![c].stage = s]

\* The notes are read when the run is over, however it ended; that may raise.
AgentEnds(c) == Advance(c, "ended") \/ Advance(c, "raised")

\* The response arrives: it calls tools, or ends the run.
AgentAnswered(c) ==
    /\ agents[c].stage = "sent"
    /\ \E s \in {"tools", "ended", "raised"} :
        agents' = [agents EXCEPT ![c].stage = s, ![c].requests = @ + 1]
    /\ UNCHANGED vars

\* Fault: a request that failed counts as a turn that called no tools.
AgentRetries(c) ==
    /\ agents[c].stage = "sent"
    /\ Advance(c, "tools")
    /\ UNCHANGED vars

\* A ProviderError makes an error result, which _handle_agent_tool does not look at.
AgentRequestFails(c) ==
    /\ agents[c].stage = "sent"
    /\ AgentEnds(c)
    /\ UNCHANGED vars

\* The tools ran.  The run stops after its last turn, otherwise the next request is
\* sent.  What a sub-agent left behind gets from a provider that review() has
\* closed meanwhile, an answer or an error, is up to that provider.
AgentGoesOn(c) ==
    /\ agents[c].stage = "tools"
    /\ IF agents[c].requests >= AgentTurns
       THEN AgentEnds(c)
       ELSE Advance(c, "sent")
    /\ UNCHANGED vars

AgentStep(c) == AgentAnswered(c) \/ AgentRequestFails(c) \/ AgentGoesOn(c)

-----------------------------------------------------------------------------
(* _dispatch_tools()                                                       *)

\* The tasks of the calls cs begin: the first request is sent unless the call
\* is refused or its notes directory cannot be made.
StartAgents(cs) ==
    \E begun \in [cs -> {"sent", "refused", "raised"}] :
        agents' = [c \in cs \cup DOMAIN agents |->
                      IF c \in cs THEN [review |-> reviews, stage |-> begun[c], requests |-> 0]
                                  ELSE agents[c]]

\* The response of the main run arrives; its Agent calls are started before
\* anything is awaited.  The fallback has no sub-agents.
RespondAndStart ==
    /\ ProviderResponds
    /\ \E cs \in SUBSET (IF mode = "main" THEN calls' \ calls ELSE {}) :
        /\ Cardinality(cs) <= MaxAgents
        /\ (reviews > AgentReviews) => cs = {}
        /\ StartAgents(cs)

\* Fault: gather(return_exceptions=True) replaced by a wait for the first task.
FirstIsOver == Tasks = {} \/ \E c \in Tasks : ~Running(c) /\ ~Raised(c)

\* gather() returns
AllAreOver == \A c \in Tasks : ~Running(c) /\ ~Raised(c)

\* Fault: a run that used up its turns has no cost.
PaidInTime == {c \in Tasks : agents[c].stage = "refused" \/ agents[c].requests < AgentTurns}

\* `if cost is not None` holds of all results but the refused calls', which cost nothing.
Accounted == {c \in Tasks : ~Running(c)}

\* All tasks ended without an exception: their results are appended and their
\* costs collected.
DispatchAll ==
    /\ DispatchTools
    /\ AllAreOver
    /\ notes' \cap Tasks = {}
    /\ agents' = Restrict(agents, DOMAIN agents \ Accounted)

\* The request fails, or gather() raises what one task raised while the others
\* run on, or the notes cannot be read for compaction.
FailRun ==
    /\ RunFails
    /\ (stage = "tools") => (AllAreOver \/ \E c \in Tasks : Raised(c))
    /\ UNCHANGED agents

\* What is left of the sub-agents of the previous review.
BeginWithAgents ==
    /\ BeginReview
    /\ agents' = Restrict(agents, {c \in DOMAIN agents : Running(c)})

Alone == (SendTurn \/ BeginFallback \/ Save \/ SkipSave) /\ UNCHANGED agents

-----------------------------------------------------------------------------

ReviewingWithAgents == RespondAndStart \/ DispatchAll \/ FailRun \/ Alone

ConversationNext ==
    \/ BeginWithAgents
    \/ ReviewingWithAgents
    \/ Forget /\ UNCHANGED agents
    \/ \E c \in DOMAIN agents : AgentStep(c)

\* Providers answer or their clients time out, tools end.
ConversationFairness ==
    /\ WF_conversationVars(ReviewingWithAgents)
    /\ WF_conversationVars(\E c \in DOMAIN agents : AgentStep(c))

ConversationSpec ==
    ConversationInit /\ [][ConversationNext]_conversationVars /\ ConversationFairness

-----------------------------------------------------------------------------
(* Properties                                                              *)

\* A review that ended with a review, a text or used up turns waited for all
\* its sub-agents: only a run that failed leaves some of them running, in the
\* working directory that the next review shares.
OnlyFailuresLeaveAgents ==
    \A c \in DOMAIN agents :
        (Running(c) /\ agents[c].review = reviews /\ c \notin calls) => result = "error"

\* docs/reference/explore.md: "Sub-agent costs are collected [...] and propagated to
\* ReviewResult.sub_agent_costs".  The result of a main run that did not fail has the
\* cost of every sub-agent.  A run that failed and a fallback report none of them.
CostsAreComplete ==
    (stage = "ended" /\ mode = "main" /\ result # "error") =>
        \A c \in DOMAIN agents : agents[c].review # reviews

\* Sub-agents come to an end, those left behind too.
AgentsEnd == (\E c \in DOMAIN agents : Running(c)) ~> (\A c \in DOMAIN agents : ~Running(c))
=============================================================================

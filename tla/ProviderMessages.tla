-------------------------- MODULE ProviderMessages --------------------------
(***************************************************************************)
(* What the providers (llm/) make of the histories of ReviewConversation:  *)
(* a request in the format of the Anthropic Messages API, of OpenAI's chat *)
(* completions (whose messages the Responses API gets too) and of Gemini.  *)
(*                                                                         *)
(* Calls keep the ids of ReviewConversation where the provider issues ids; *)
(* Gemini's calls have none, and the code numbers those of each response.  *)
(* An id also stands for the name of the tool it calls.  Texts are left    *)
(* out, so that each response without calls is taken to have one.          *)
(***************************************************************************)
EXTENDS ReviewConversation

\* A message of a request: the calls it makes and the calls it answers.
Sent(role, uses, answers) == [role |-> role, calls |-> uses, answers |-> answers]

Calls(m) == IF IsAssistant(m) THEN m.ids ELSE {}
Results(m) == IF m.kind = "results" THEN m.ids ELSE {}

\* The role of a Message.
Role(m) ==
    CASE IsAssistant(m) -> "assistant"
      [] m.kind = "summary" -> "system"
      [] OTHER -> "user"

\* How many calls of a response come before c.
CallsBefore(ids, c) == Cardinality({d \in ids : d < c})

-----------------------------------------------------------------------------
(* llm/anthropic.py, llm/openai.py                                         *)

\* Whatever the model did not say is the user's.
AnthropicMessages(h) ==
    [i \in DOMAIN h |-> Sent(IF Role(h[i]) = "assistant" THEN "assistant" ELSE "user",
                             Calls(h[i]), Results(h[i]))]

\* Each result is a message of its own; whatever the user did not say is the model's.
ChatMessagesOf(m) ==
    CASE m.kind = "results" ->
           [n \in 1 .. Cardinality(m.ids) |->
              Sent("tool", {}, {c \in m.ids : CallsBefore(m.ids, c) = n - 1})]
      [] m.kind # "results" /\ Role(m) = "user" -> <<Sent("user", {}, {})>>
      [] OTHER -> <<Sent("assistant", Calls(m), {})>>

ChatMessages(h) == FlattenSeq([i \in DOMAIN h |-> ChatMessagesOf(h[i])])

-----------------------------------------------------------------------------
(* llm/google.py                                                           *)

\* _to_llm_response(): "call_{index}"
GeneratedId(ids, c) == CallsBefore(ids, c)

\* Fault: the first call with an id keeps it.
FirstName(h, id) ==
    LET with == {i \in DOMAIN h : \E c \in Calls(h[i]) : GeneratedId(h[i].ids, c) = id} IN
    IF with = {} THEN {} ELSE {c \in Calls(h[Min(with)]) : GeneratedId(h[Min(with)].ids, c) = id}

\* id_to_name: the last call of the history with this id, if there is one.
IdToName(h, id) ==
    LET with == {i \in DOMAIN h : \E c \in Calls(h[i]) : GeneratedId(h[i].ids, c) = id} IN
    IF with = {} THEN {} ELSE {c \in Calls(h[Max(with)]) : GeneratedId(h[Max(with)].ids, c) = id}

\* Results are given to the model under the name of a tool.
GeminiContents(h) ==
    [i \in DOMAIN h |->
       Sent(IF Role(h[i]) = "assistant" THEN "model" ELSE "user", Calls(h[i]),
            UNION {IdToName(h, GeneratedId(h[i].ids, c)) : c \in Results(h[i])})]

-----------------------------------------------------------------------------

Providers == {"anthropic", "openai", "deepseek", "groq", "together", "fireworks", "google"}

\* send() of each provider: the messages of the request.
Request(provider, h) ==
    CASE provider = "anthropic" -> AnthropicMessages(h)
      [] provider = "google" -> GeminiContents(h)
      [] OTHER -> ChatMessages(h)

-----------------------------------------------------------------------------
(* Properties                                                              *)

\* The calls of a message are answered by the messages that follow it, and those answer
\* nothing else.
AnsweredNext(r, i, n) ==
    /\ i + n <= Len(r)
    /\ UNION {r[j].answers : j \in i + 1 .. i + n} = r[i].calls
    /\ \A j \in i + 1 .. i + n : r[j].calls = {}

\* In chat completions each result is a message.
ResultMessages(provider, ids) == IF provider \in {"anthropic", "google"} THEN 1 ELSE Cardinality(ids)

\* The calls of a submission get no answer.
Submitted(ids) == \E i \in DOMAIN messages : messages[i] = Message("submission", ids)

\* llm/messages.py: tool_use_id is "the ID of the tool call this result corresponds to".
\* In every request to any provider, whatever was cut from the history before, the calls
\* of the model are answered next; for Gemini this is claimed of the newest calls, since
\* older ones may share their generated ids.  The in-memory store is left out, as in
\* DamagedOnlyAtTheFront.
AnswersReachTheProvider ==
    (stage = "sent" /\ backend = "redis") =>
        \A provider \in Providers :
            LET r == Request(provider, messages) IN
            \A i \in DOMAIN r :
                (r[i].calls # {} /\ ~Submitted(r[i].calls)) =>
                    \/ AnsweredNext(r, i, ResultMessages(provider, r[i].calls))
                    \/ provider = "google" /\ \E j \in i + 1 .. Len(r) : r[j].calls # {}
=============================================================================

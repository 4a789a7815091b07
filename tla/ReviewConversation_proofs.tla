----------------------- MODULE ReviewConversation_proofs -----------------------
(***************************************************************************)
(* The history of a pull request, what providers are sent of it and the    *)
(* sub-agents beside it, for every deployment, every size limit, and any   *)
(* number of reviews, turns, calls and sub-agents.                         *)
(*                                                                         *)
(* The argument: each operation on a history (appending, truncating,       *)
(* compacting) keeps it paired except at its front (Paired...); turns and  *)
(* requests are counted in step (TurnsAreCounted); what the run shares     *)
(* with the in-memory store is an extension of what was stored when the    *)
(* review began (StoreIsKept).                                             *)
(***************************************************************************)
EXTENDS SubAgents, FiniteSetTheorems, SequenceTheorems, TLAPS

\* A message names the calls of one response, of which there are finitely many.
FiniteMessages == {m \in Messages : IsFiniteSet(m.ids)}

Histories == {store, messages, before} \subseteq Seq(FiniteMessages)

\* Calls are answered and results were asked for, except where a history was cut.
Paired(h) ==
    \A i \in DOMAIN h :
        /\ Answered(h, i)
        /\ (i > 1 + CompactedSummaryPrefixLen(h)) => Asked(h, i)

\* The calls that are dispatched are those of the newest message.
ResponseIsLast ==
    stage = "tools" => messages # <<>> /\ Last(messages) = Message("response", calls)

\* What is stored, or will be if the run ends well, is paired.
HistoriesArePaired ==
    backend = "redis" =>
        /\ Paired(store)
        /\ stage \in {"turn", "sent"} \/ (stage = "ended" /\ result # "error") => Paired(messages)
        /\ stage = "tools" => Paired(Front(messages))

Shows(h, c) == \E i \in DOMAIN h : h[i].kind \in {"response", "summary"} /\ c \in h[i].ids

\* Notes are of this review, and the history of its main run shows each of them.
NotesAreKnown ==
    /\ stage = "idle" => notes = {}
    /\ stage # "idle" /\ mode = "main" => \A c \in notes : Shows(messages, c)

\* A run that goes on has a turn left, and has sent one request in each turn.
TurnsAreCounted ==
    /\ stage \in {"turn", "sent", "tools"} => result = "none" /\ (Budget # 0 => turns < Budget)
    /\ stage = "turn" => sends = turns
    /\ stage \in {"sent", "tools"} => sends = turns + 1
    /\ stage = "sent" /\ IsLastTurn => choice = "required" /\ Last(messages).kind = "warning"

\* A shared list is the one the run appends to.  The store keeps what it held when the
\* review began, and in Redis nothing else.
StoreIsKept ==
    /\ aliased => SharedStore /\ store = messages /\ stage # "idle"
    /\ stage # "idle" => IsPrefix(before, store) /\ (backend = "redis" => store = before)

IInv ==
    /\ TypeOK /\ Histories
    /\ ResponseIsLast /\ HistoriesArePaired
    /\ NotesAreKnown /\ TurnsAreCounted /\ StoreIsKept
    /\ FirstRequestFits

-----------------------------------------------------------------------------
(* Numbers and sequences.                                                  *)

\* A set of natural numbers that has 0 and each successor has them all.
LEMMA Induction ==
    ASSUME NEW S, 0 \in S, \A n \in Nat : n \in S => n + 1 \in S
    PROVE  Nat \subseteq S
<1>. SUFFICES ASSUME Nat \ S # {} PROVE FALSE
  OBVIOUS
<1>1. PICK m \in Nat \ S : \A k \in Nat \ S : <<k, m>> \notin OpToRel(<, Nat)
  <2>. Nat \ S \subseteq Nat
    OBVIOUS
  <2>. QED BY NatLessThanWellFounded, WFMin
<1>2. \A k \in Nat \ S : ~(k < m)
  BY <1>1 DEF OpToRel
<1>3. m # 0 /\ m - 1 \in Nat
  OBVIOUS
<1>4. m - 1 \in S
  BY <1>2, <1>3
<1>. QED BY <1>3, <1>4

\* A set of numbers up to a limit that is not empty has a greatest one.
LEMMA MaxFacts ==
    ASSUME NEW n \in Nat, NEW S \in SUBSET (0 .. n), S # {}
    PROVE  Max(S) \in S /\ \A x \in S : Max(S) >= x
<1>. DEFINE away == {k \in Nat : n - k \in S}
<1>1. away # {}
  <2>1. PICK x \in S : TRUE
    OBVIOUS
  <2>2. n - x \in Nat /\ n - (n - x) = x
    OBVIOUS
  <2>. QED BY <2>1, <2>2
<1>2. PICK k \in away : \A j \in away : <<j, k>> \notin OpToRel(<, Nat)
  <2>. away \subseteq Nat
    OBVIOUS
  <2>. HIDE DEF away
  <2>. QED BY <1>1, NatLessThanWellFounded, WFMin
<1>3. \A x \in S : n - k >= x
  <2> SUFFICES ASSUME NEW x \in S
               PROVE  n - k >= x
    OBVIOUS
  <2>1. n - x \in away
    <3>1. n - x \in Nat /\ n - (n - x) = x
      OBVIOUS
    <3>. QED BY <3>1
  <2>2. ~(n - x < k)
    BY <1>2, <2>1 DEF OpToRel
  <2>. QED BY <2>2
<1>4. n - k \in S
  OBVIOUS
<1>. QED BY <1>3, <1>4 DEF Max

LEMMA AppendFacts ==
    ASSUME NEW T, NEW s \in Seq(T), NEW e \in T
    PROVE  /\ Append(s, e) \in Seq(T)
           /\ Append(s, e) # <<>>
           /\ Len(Append(s, e)) = Len(s) + 1
           /\ DOMAIN Append(s, e) = 1 .. Len(s) + 1
           /\ Append(s, e)[Len(s) + 1] = e
           /\ Last(Append(s, e)) = e
           /\ \A i \in 1 .. Len(s) : Append(s, e)[i] = s[i]
           /\ Front(Append(s, e)) = s
  BY DEF Last, Front

LEMMA SingletonFacts ==
    ASSUME NEW T, NEW e \in T
    PROVE  /\ Append(<<>>, e) \in Seq(T)
           /\ Len(Append(<<>>, e)) = 1 /\ Last(Append(<<>>, e)) = e
  BY DEF Last

LEMMA FrontFacts ==
    ASSUME NEW T, NEW s \in Seq(T), s # <<>>
    PROVE  /\ Front(s) \in Seq(T) /\ Len(Front(s)) = Len(s) - 1
           /\ DOMAIN Front(s) = 1 .. Len(s) - 1
           /\ \A i \in 1 .. Len(s) - 1 : Front(s)[i] = s[i]
           /\ Last(s) = s[Len(s)]
<1>1. Len(s) - 1 \in 0 .. Len(s)
  OBVIOUS
<1>2. /\ SubSeq(s, 1, Len(s) - 1) \in Seq(T)
      /\ Len(SubSeq(s, 1, Len(s) - 1)) = Len(s) - 1
      /\ \A i \in 1 .. Len(s) - 1 : SubSeq(s, 1, Len(s) - 1)[i] = s[i]
  <2>. DEFINE k == Len(s) - 1
  <2>1. k \in Nat /\ k + 1 = Len(s) /\ \A i \in 1 .. k : s[i] \in T
    BY <1>1
  <2>. HIDE DEF k
  <2>. QED BY <2>1, SubSeqProperties
<1>3. DOMAIN SubSeq(s, 1, Len(s) - 1) = 1 .. Len(s) - 1
  BY <1>2
<1>. QED BY <1>2, <1>3 DEF Front, Last

LEMMA SuffixFacts ==
    ASSUME NEW T, NEW s \in Seq(T), NEW n \in 0 .. Len(s)
    PROVE  /\ SubSeq(s, n + 1, Len(s)) \in Seq(T)
           /\ Len(SubSeq(s, n + 1, Len(s))) = Len(s) - n
           /\ DOMAIN SubSeq(s, n + 1, Len(s)) = 1 .. Len(s) - n
           /\ \A i \in 1 .. Len(s) - n : SubSeq(s, n + 1, Len(s))[i] = s[n + i]
  OBVIOUS

LEMMA PrefixFacts ==
    ASSUME NEW T, NEW s \in Seq(T)
    PROVE  /\ IsPrefix(s, s)
           /\ \A t \in Seq(T), e \in T : IsPrefix(s, t) => IsPrefix(s, Append(t, e))
<1>1. IsPrefix(s, s)
  BY DEF IsPrefix
<1>2. ASSUME NEW t \in Seq(T), NEW e \in T, IsPrefix(s, t)
      PROVE  IsPrefix(s, Append(t, e))
  <2>1. SubSeq(Append(t, e), 1, Len(s)) = SubSeq(t, 1, Len(s))
    BY <1>2 DEF IsPrefix
  <2>. QED BY <1>2, <2>1 DEF IsPrefix
<1>. QED BY <1>1, <1>2

-----------------------------------------------------------------------------
(* truncate_messages()                                                     *)

\* The recursion of Truncate() has a solution: it is built from the end of the history.
LEMMA TruncateIsDefined ==
    ASSUME NEW h, Len(h) \in Nat
    PROVE  \E g : g = [n \in 0 .. Len(h) |->
                         IF Len(h) - n <= 1 \/ Size(SubSeq(h, n + 1, Len(h))) <= MaxSize THEN n
                         ELSE IF IsAssistant(h[n + 2]) THEN g[n + 2] ELSE g[n + 1]]
<1>. DEFINE L == Len(h)
            fits(n) == Size(SubSeq(h, n + 1, L)) <= MaxSize
            rhs(g, n) == IF L - n <= 1 \/ fits(n) THEN n
                         ELSE IF IsAssistant(h[n + 2]) THEN g[n + 2] ELSE g[n + 1]
            S == {k \in Nat : k <= L => \E g : g = [n \in L - k .. L |-> rhs(g, n)]}
<1>1. 0 \in S
  <2>. DEFINE g == [n \in L - 0 .. L |-> n]
  <2>1. g = [n \in L - 0 .. L |-> rhs(g, n)]
    OBVIOUS
  <2>. QED BY <2>1
<1>2. ASSUME NEW k \in Nat, k \in S
      PROVE  k + 1 \in S
  <2>. SUFFICES ASSUME k + 1 <= L
                PROVE  \E g : g = [n \in L - (k + 1) .. L |-> rhs(g, n)]
    OBVIOUS
  <2>1. PICK g : g = [n \in L - k .. L |-> rhs(g, n)]
    BY <1>2
  <2>. DEFINE f == [n \in L - (k + 1) .. L |-> IF n = L - (k + 1) THEN rhs(g, n) ELSE g[n]]
  <2>2. ASSUME NEW n \in L - (k + 1) .. L
        PROVE  f[n] = rhs(f, n)
    <3>1. CASE L - n <= 1 \/ fits(n)
      <4>1. n # L - (k + 1) => g[n] = rhs(g, n)
        BY <2>1
      <4>. QED BY <3>1, <4>1
    <3>2. CASE ~(L - n <= 1 \/ fits(n))
      <4>1. /\ n + 1 \in L - k .. L /\ n + 2 \in L - k .. L
            /\ n + 1 # L - (k + 1) /\ n + 2 # L - (k + 1)
        BY <3>2
      <4>2. f[n + 1] = g[n + 1] /\ f[n + 2] = g[n + 2]
        BY <4>1
      <4>3. f[n] = rhs(g, n)
        BY <2>1
      <4>. QED BY <3>2, <4>2, <4>3
    <3>. QED BY <3>1, <3>2
  <2>3. f = [n \in L - (k + 1) .. L |-> rhs(f, n)]
    BY <2>2
  <2>. QED BY <2>3
<1>3. L \in S
  <2>1. Nat \subseteq S
    <3>. HIDE DEF S
    <3>. QED BY <1>1, <1>2, Induction
  <2>. QED BY <2>1
<1>4. L - L = 0
  OBVIOUS
<1>. QED BY <1>3, <1>4

\* What is left is the end of the history, which fits or is a single message; if the last
\* message is not the model's it is kept.
\* A history that fits is left alone.
LEMMA TruncateFacts ==
    ASSUME NEW T, NEW h \in Seq(T), h # <<>>, ~IsAssistant(Last(h))
    PROVE  /\ \E n \in 0 .. Len(h) - 1 :
                 /\ Truncate(h) = SubSeq(h, n + 1, Len(h))
                 /\ Size(Truncate(h)) <= MaxSize \/ Len(Truncate(h)) = 1
           /\ Size(h) <= MaxSize => Truncate(h) = h
<1>. DEFINE L == Len(h)
            Rest(n) == SubSeq(h, n + 1, L)
            from == CHOOSE g : g = [n \in 0 .. L |->
                         IF L - n <= 1 \/ Size(Rest(n)) <= MaxSize THEN n
                         ELSE IF IsAssistant(h[n + 2]) THEN g[n + 2] ELSE g[n + 1]]
            good(n) == from[n] \in 0 .. L - 1 /\ (L - from[n] <= 1 \/ Size(Rest(from[n])) <= MaxSize)
            S == {k \in Nat : \A j \in 1 .. k : j <= L => good(L - j)}
<1>0. L \in Nat \ {0}
  OBVIOUS
<1>1. \A n \in 0 .. L : from[n] = IF L - n <= 1 \/ Size(Rest(n)) <= MaxSize THEN n
                                  ELSE IF IsAssistant(h[n + 2]) THEN from[n + 2] ELSE from[n + 1]
  <2>1. from = [n \in 0 .. L |->
                 IF L - n <= 1 \/ Size(Rest(n)) <= MaxSize THEN n
                 ELSE IF IsAssistant(h[n + 2]) THEN from[n + 2] ELSE from[n + 1]]
    BY <1>0, TruncateIsDefined
  <2>. HIDE DEF from
  <2>. QED BY <2>1
<1>2. Truncate(h) = Rest(from[0])
  BY DEF Truncate
<1>. HIDE DEF from
<1>3. 0 \in S
  OBVIOUS
<1>4. ASSUME NEW k \in Nat, k \in S
      PROVE  k + 1 \in S
  <2>. SUFFICES ASSUME k + 1 <= L
                PROVE  good(L - (k + 1))
    BY <1>4
  <2>. DEFINE n == L - (k + 1)
  <2>0. n \in 0 .. L - 1
    OBVIOUS
  <2>1. CASE L - n <= 1 \/ Size(Rest(n)) <= MaxSize
    <3>1. from[n] = n
      BY <1>1, <2>0, <2>1
    <3>. QED BY <2>0, <2>1, <3>1
  <2>2. CASE ~(L - n <= 1 \/ Size(Rest(n)) <= MaxSize) /\ IsAssistant(h[n + 2])
    <3>1. n + 2 # L
      BY <2>2 DEF Last
    <3>2. n + 2 = L - (k - 1) /\ k - 1 \in 1 .. k /\ k - 1 <= L
      BY <2>2, <3>1
    <3>3. good(L - (k - 1))
      BY <1>4, <3>2
    <3>4. from[n] = from[n + 2]
      BY <1>1, <2>0, <2>2
    <3>. QED BY <3>2, <3>3, <3>4
  <2>3. CASE ~(L - n <= 1 \/ Size(Rest(n)) <= MaxSize) /\ ~IsAssistant(h[n + 2])
    <3>1. n + 1 = L - k /\ k \in 1 .. k /\ k <= L
      BY <2>3
    <3>2. good(L - k)
      BY <1>4, <3>1
    <3>3. from[n] = from[n + 1]
      BY <1>1, <2>0, <2>3
    <3>. QED BY <3>1, <3>2, <3>3
  <2>. QED BY <2>1, <2>2, <2>3
<1>5. good(0)
  <2>1. Nat \subseteq S
    <3>. HIDE DEF S
    <3>. QED BY <1>3, <1>4, Induction
  <2>2. L \in S
    BY <1>0, <2>1
  <2>3. good(L - L)
    BY <1>0, <2>2
  <2>4. L - L = 0
    BY <1>0
  <2>. HIDE DEF good
  <2>. QED BY <2>3, <2>4
<1>6. from[0] \in 0 .. L - 1 /\ (L - from[0] <= 1 \/ Size(Rest(from[0])) <= MaxSize)
  BY <1>5
<1>7. Len(Rest(from[0])) = L - from[0]
  BY <1>6
<1>8. Size(Truncate(h)) <= MaxSize \/ Len(Truncate(h)) = 1
  <2>. HIDE DEF Rest
  <2>1. CASE Size(Rest(from[0])) <= MaxSize
    BY <1>2, <2>1
  <2>2. CASE L - from[0] <= 1
    <3>. HIDE DEF L
    <3>. QED BY <1>0, <1>2, <1>6, <1>7, <2>2
  <2>. QED BY <1>6, <2>1, <2>2
<1>9. Size(h) <= MaxSize => Truncate(h) = h
  <2>1. Rest(0) = h
    OBVIOUS
  <2>2. 0 \in 0 .. L
    BY <1>0
  <2>. HIDE DEF Rest, L
  <2>3. Size(h) <= MaxSize => from[0] = 0
    BY <1>1, <2>1, <2>2
  <2>. QED BY <1>2, <2>1, <2>3
<1>. QED BY <1>2, <1>6, <1>8, <1>9

-----------------------------------------------------------------------------
(* Histories.                                                              *)

LEMMA MessageFacts ==
    ASSUME NEW kind \in Kinds, NEW ids \in SUBSET Nat, IsFiniteSet(ids)
    PROVE  /\ Message(kind, ids) \in FiniteMessages
           /\ Message(kind, ids).kind = kind /\ Message(kind, ids).ids = ids
  BY DEF Message, FiniteMessages, Messages

\* A message is its kind and its calls.
LEMMA MessageIs ==
    ASSUME NEW m \in FiniteMessages
    PROVE  m = Message(m.kind, m.ids)
  BY DEF Message, FiniteMessages, Messages

LEMMA PrefixLen ==
    ASSUME NEW h
    PROVE  CompactedSummaryPrefixLen(h) \in {0, 1}
  BY DEF CompactedSummaryPrefixLen

LEMMA PairedEmpty == Paired(<<>>)
  BY DEF Paired

\* A message that neither calls nor answers may follow any paired history.
LEMMA PairedAppend ==
    ASSUME NEW h \in Seq(FiniteMessages), Paired(h), NEW m \in FiniteMessages,
           m.kind # "results", m.kind = "response" => m.ids = {}
    PROVE  Paired(Append(h, m))
<1>. DEFINE g == Append(h, m)
<1>1. /\ Len(g) = Len(h) + 1 /\ DOMAIN g = 1 .. Len(h) + 1 /\ g[Len(h) + 1] = m
      /\ \A i \in 1 .. Len(h) : g[i] = h[i]
      /\ Len(h) \in Nat /\ DOMAIN h = 1 .. Len(h)
  BY AppendFacts
<1>. HIDE DEF g
<1>2. ASSUME NEW i \in DOMAIN g
      PROVE  Answered(g, i)
  <2>1. CASE i = Len(h) + 1
    BY <1>1, <2>1 DEF Answered
  <2>2. CASE i \in 1 .. Len(h)
    <3>1. Answered(h, i)
      BY <1>1, <2>2 DEF Paired
    <3>. QED BY <1>1, <2>2, <3>1 DEF Answered
  <2>. QED BY <1>1, <2>1, <2>2
<1>3. ASSUME NEW i \in DOMAIN g, i > 1 + CompactedSummaryPrefixLen(g)
      PROVE  Asked(g, i)
  <2>1. CASE i = Len(h) + 1
    BY <1>1, <2>1 DEF Asked
  <2>2. CASE i \in 1 .. Len(h)
    <3>1. h # <<>> /\ g # <<>> /\ Head(h) = Head(g)
      BY <1>1, <2>2, AppendFacts DEF g
    <3>2. Asked(h, i)
      BY <1>1, <1>3, <2>2, <3>1 DEF Paired, CompactedSummaryPrefixLen
    <3>3. i > 1 /\ i - 1 \in 1 .. Len(h)
      BY <1>1, <1>3, <2>2, PrefixLen
    <3>. QED BY <1>1, <2>2, <3>2, <3>3 DEF Asked
  <2>. QED BY <1>1, <2>1, <2>2
<1>4. Paired(g)
  BY <1>2, <1>3 DEF Paired
<1>. QED BY <1>4 DEF g

\* The results of the calls of the last response may follow it.
LEMMA PairedResults ==
    ASSUME NEW h \in Seq(FiniteMessages), h # <<>>, Paired(Front(h)),
           NEW ids \in SUBSET Nat, IsFiniteSet(ids), Last(h) = Message("response", ids)
    PROVE  Paired(Append(h, Message("results", ids)))
<1>. DEFINE g == Append(h, Message("results", ids))
            f == Front(h)
<1>0. Message("results", ids) \in FiniteMessages
  BY MessageFacts DEF Kinds
<1>1. /\ Len(g) = Len(h) + 1 /\ DOMAIN g = 1 .. Len(h) + 1
      /\ g[Len(h) + 1] = Message("results", ids)
      /\ \A i \in 1 .. Len(h) : g[i] = h[i]
      /\ Len(h) \in Nat \ {0} /\ DOMAIN h = 1 .. Len(h)
  <2>. HIDE DEF Message
  <2>. QED BY <1>0, AppendFacts
<1>2. /\ DOMAIN f = 1 .. Len(h) - 1 /\ Len(f) = Len(h) - 1
      /\ \A i \in 1 .. Len(h) - 1 : f[i] = h[i]
  BY FrontFacts
<1>3. h[Len(h)] = Message("response", ids)
  BY DEF Last
<1>3a. f # <<>> => g # <<>> /\ Head(f) = Head(g)
  <2>1. f # <<>> => Len(h) - 1 >= 1
    BY <1>1, <1>2
  <2>2. g # <<>> /\ Head(g) = g[1]
    BY <1>1
  <2>3. f # <<>> => Head(f) = f[1]
    BY <1>2
  <2>. HIDE DEF f, g
  <2>. QED BY <1>1, <1>2, <2>1, <2>2, <2>3
<1>. HIDE DEF g, f
<1>4. ASSUME NEW i \in DOMAIN g
      PROVE  Answered(g, i)
  <2>1. CASE i = Len(h) + 1
    BY <1>1, <2>1 DEF Answered, Message
  <2>2. CASE i = Len(h)
    BY <1>1, <1>3, <2>2 DEF Answered, Message
  <2>3. CASE i \in 1 .. Len(h) - 1
    <3>1. Answered(f, i)
      BY <1>2, <2>3 DEF Paired, f
    <3>2. i \in 1 .. Len(h) /\ g[i] = f[i]
      BY <1>1, <1>2, <2>3
    <3>3. i + 1 \in 1 .. Len(h) - 1 => g[i + 1] = f[i + 1]
      BY <1>1, <1>2
    <3>. QED BY <1>1, <1>2, <2>3, <3>1, <3>2, <3>3 DEF Answered
  <2>. QED BY <1>1, <2>1, <2>2, <2>3
<1>5. ASSUME NEW i \in DOMAIN g, i > 1 + CompactedSummaryPrefixLen(g)
      PROVE  Asked(g, i)
  <2>1. CASE i = Len(h) + 1
    <3>1. g[i - 1] = Message("response", ids)
      BY <1>1, <1>3, <2>1
    <3>. QED BY <1>1, <2>1, <3>1 DEF Asked, Message
  <2>2. CASE i = Len(h)
    BY <1>1, <1>3, <2>2 DEF Asked, Message
  <2>3. CASE i \in 1 .. Len(h) - 1
    <3>1. f # <<>>
      BY <1>1, <1>2, <2>3
    <3>2. CompactedSummaryPrefixLen(f) = CompactedSummaryPrefixLen(g)
      BY <1>3a, <3>1 DEF CompactedSummaryPrefixLen
    <3>3. Asked(f, i)
      BY <1>2, <1>5, <2>3, <3>2 DEF Paired, f
    <3>4. i - 1 \in 1 .. Len(h) - 1
      BY <1>1, <1>5, <2>3, PrefixLen
    <3>5. g[i] = f[i] /\ g[i - 1] = f[i - 1]
      BY <1>1, <1>2, <2>3, <3>4
    <3>. QED BY <3>3, <3>5 DEF Asked
  <2>. QED BY <1>1, <2>1, <2>2, <2>3
<1>6. Paired(g)
  BY <1>4, <1>5 DEF Paired
<1>. QED BY <1>6 DEF g

\* The end of a paired history, with a summary in front of it or as it is, is paired if
\* it begins late enough.
LEMMA PairedSuffix ==
    ASSUME NEW h \in Seq(FiniteMessages), Paired(h), NEW n \in 0 .. Len(h) - 1
    PROVE  Paired(SubSeq(h, n + 1, Len(h)))
<1>. DEFINE g == SubSeq(h, n + 1, Len(h))
<1>1. /\ Len(g) = Len(h) - n /\ DOMAIN g = 1 .. Len(h) - n
      /\ \A i \in 1 .. Len(h) - n : g[i] = h[n + i]
      /\ Len(h) \in Nat /\ DOMAIN h = 1 .. Len(h)
  BY SuffixFacts
<1>2. CASE n = 0
  <2>1. g = h
    BY <1>2
  <2>. QED BY <2>1
<1>3. CASE n # 0
  <2>. HIDE DEF g
  <2>1. ASSUME NEW i \in DOMAIN g
        PROVE  Answered(g, i)
    <3>1. n + i \in DOMAIN h /\ i \in 1 .. Len(h) - n
      BY <1>1
    <3>2. Answered(h, n + i)
      BY <3>1 DEF Paired
    <3>3. /\ n + (i + 1) = (n + i) + 1
          /\ n + i < Len(h) => i + 1 \in 1 .. Len(h) - n
      BY <1>1, <3>1
    <3>4. g[i] = h[n + i]
      BY <1>1, <3>1
    <3>5. ASSUME g[i].kind = "response", g[i].ids # {}
          PROVE  i < Len(g) /\ g[i + 1] = Message("results", g[i].ids)
      <4>1. n + i < Len(h) /\ h[(n + i) + 1] = Message("results", g[i].ids)
        BY <3>2, <3>4, <3>5 DEF Answered
      <4>2. i < Len(g)
        BY <1>1, <3>1, <4>1
      <4>3. g[i + 1] = h[(n + i) + 1]
        BY <1>1, <3>3, <4>1
      <4>. QED BY <4>1, <4>2, <4>3
    <3>. QED BY <3>5 DEF Answered
  <2>2. ASSUME NEW i \in DOMAIN g, i > 1 + CompactedSummaryPrefixLen(g)
        PROVE  Asked(g, i)
    <3>0. CompactedSummaryPrefixLen(g) \in {0, 1} /\ CompactedSummaryPrefixLen(h) \in {0, 1}
      BY PrefixLen
    <3>1. n + i \in DOMAIN h /\ i \in 1 .. Len(h) - n /\ i > 1
      BY <1>1, <2>2, <3>0
    <3>2. n + i > 1 + CompactedSummaryPrefixLen(h)
      BY <1>1, <1>3, <3>0, <3>1
    <3>3. Asked(h, n + i)
      BY <3>1, <3>2 DEF Paired
    <3>4. i - 1 \in 1 .. Len(h) - n /\ n + (i - 1) = (n + i) - 1
      BY <1>1, <3>1
    <3>. QED BY <1>1, <3>1, <3>3, <3>4 DEF Asked
  <2>3. Paired(g)
    BY <2>1, <2>2 DEF Paired
  <2>. QED BY <2>3 DEF g
<1>. QED BY <1>2, <1>3

\* The preserved messages with a summary before them.
LEMMA CompactFacts ==
    ASSUME NEW h \in Seq(FiniteMessages), Compactable(h),
           NEW content \in SUBSET Nat, IsFiniteSet(content)
    PROVE  LET g == Compact(h, content)
               n == Len(h) - PRESERVE_RECENT_MESSAGES
           IN  /\ g \in Seq(FiniteMessages)
               /\ n \in 1 .. Len(h) /\ n > CompactedSummaryPrefixLen(h)
               /\ Len(g) = 5 /\ DOMAIN g = 1 .. 5 /\ Len(h) = n + 4 /\ DOMAIN h = 1 .. n + 4
               /\ g[1] = Message("summary", content) /\ g # <<>> /\ Head(g) = g[1]
               /\ \A i \in 2 .. 5 : g[i] = h[n + (i - 1)]
<1>. DEFINE n == Len(h) - PRESERVE_RECENT_MESSAGES
            m == Message("summary", content)
            p == Preserved(h)
<1>1. m \in FiniteMessages
  BY MessageFacts DEF Kinds
<1>2. n \in Nat /\ n \in 1 .. Len(h) /\ n > CompactedSummaryPrefixLen(h) /\ Len(h) = n + 4
  BY PrefixLen DEF Compactable, PRESERVE_RECENT_MESSAGES
<1>3. p = SubSeq(h, n + 1, Len(h))
  BY DEF Preserved
<1>4. /\ p \in Seq(FiniteMessages) /\ Len(p) = 4 /\ DOMAIN p = 1 .. 4
      /\ \A i \in 1 .. 4 : p[i] = h[n + i]
  <2>. DEFINE q == SubSeq(h, n + 1, Len(h))
  <2>1. n \in 0 .. Len(h) /\ Len(h) - n = 4
    BY <1>2
  <2>. HIDE DEF n, p
  <2>2. /\ q \in Seq(FiniteMessages) /\ Len(q) = Len(h) - n /\ DOMAIN q = 1 .. Len(h) - n
        /\ \A i \in 1 .. Len(h) - n : q[i] = h[n + i]
    BY <2>1, SuffixFacts, Zenon
  <2>. HIDE DEF q
  <2>3. /\ q \in Seq(FiniteMessages) /\ Len(q) = 4 /\ DOMAIN q = 1 .. 4
        /\ \A i \in 1 .. 4 : q[i] = h[n + i]
    BY <2>1, <2>2, Zenon
  <2>. QED BY <1>3, <2>3 DEF q
<1>5. Compact(h, content) = <<m>> \o p
  BY DEF Compact
<1>. HIDE DEF n, m, p
<1>6. /\ <<m>> \o p \in Seq(FiniteMessages) /\ Len(<<m>> \o p) = 5 /\ DOMAIN (<<m>> \o p) = 1 .. 5
      /\ (<<m>> \o p)[1] = m
      /\ \A i \in 2 .. 5 : (<<m>> \o p)[i] = p[i - 1]
  <2>. DEFINE q == <<m>>
  <2>1. q \in Seq(FiniteMessages) /\ Len(q) = 1 /\ q[1] = m
    BY <1>1
  <2>. HIDE DEF q
  <2>2. /\ q \o p \in Seq(FiniteMessages) /\ Len(q \o p) = Len(q) + Len(p)
        /\ \A i \in 1 .. Len(q) + Len(p) : (q \o p)[i] = IF i <= Len(q) THEN q[i] ELSE p[i - Len(q)]
    BY <1>4, <2>1, ConcatProperties, Zenon
  <2>. DEFINE g == q \o p
  <2>3. g \in Seq(FiniteMessages) /\ Len(g) = 5
    BY <1>4, <2>1, <2>2
  <2>4. ASSUME NEW i \in 1 .. 5
        PROVE  g[i] = IF i <= 1 THEN q[i] ELSE p[i - 1]
    <3>1. i \in 1 .. Len(q) + Len(p) /\ Len(q) = 1
      BY <1>4, <2>1
    <3>. QED BY <2>2, <3>1
  <2>. HIDE DEF g
  <2>5. DOMAIN g = 1 .. 5
    BY <2>3
  <2>6. g[1] = m /\ \A i \in 2 .. 5 : g[i] = p[i - 1]
    BY <2>1, <2>4
  <2>. QED BY <2>3, <2>5, <2>6 DEF g, q
<1>7. \A i \in 2 .. 5 : p[i - 1] = h[n + (i - 1)]
  BY <1>4
<1>8. <<m>> \o p # <<>> /\ Head(<<m>> \o p) = m
  BY <1>1, <1>4
<1>9. DOMAIN h = 1 .. n + 4
  BY <1>2
<1>. QED BY <1>2, <1>5, <1>6, <1>7, <1>8, <1>9 DEF n, m

LEMMA PairedCompact ==
    ASSUME NEW h \in Seq(FiniteMessages), Paired(h), Compactable(h),
           NEW content \in SUBSET Nat, IsFiniteSet(content)
    PROVE  Paired(Compact(h, content))
<1>. DEFINE g == Compact(h, content)
            n == Len(h) - PRESERVE_RECENT_MESSAGES
<1>1. /\ n \in Nat /\ n > CompactedSummaryPrefixLen(h)
      /\ Len(g) = 5 /\ DOMAIN g = 1 .. 5 /\ Len(h) = n + 4 /\ DOMAIN h = 1 .. n + 4
      /\ g[1] = Message("summary", content) /\ g # <<>> /\ Head(g) = g[1]
      /\ \A i \in 2 .. 5 : g[i] = h[n + (i - 1)]
  BY CompactFacts
<1>. HIDE DEF g, n
<1>2. CompactedSummaryPrefixLen(g) = 1
  BY <1>1 DEF CompactedSummaryPrefixLen, Message
<1>3. ASSUME NEW i \in 1 .. 5
      PROVE  Answered(g, i)
  <2>1. CASE i = 1
    BY <1>1, <2>1 DEF Answered, Message
  <2>2. CASE i # 1
    <3>1. i \in 2 .. 5 /\ n + (i - 1) \in DOMAIN h /\ (i < 5 => i + 1 \in 2 .. 5)
      BY <1>1, <2>2
    <3>2. Answered(h, n + (i - 1))
      BY <3>1 DEF Paired
    <3>3. n + ((i + 1) - 1) = (n + (i - 1)) + 1 /\ (n + (i - 1) < n + 4 => i < 5)
      BY <1>1
    <3>. QED BY <1>1, <3>1, <3>2, <3>3 DEF Answered
  <2>. QED BY <2>1, <2>2
<1>4. ASSUME NEW i \in 1 .. 5, i > 2
      PROVE  Asked(g, i)
  <2>1. i \in 2 .. 5 /\ i - 1 \in 2 .. 5 /\ n + (i - 1) \in DOMAIN h
    BY <1>1, <1>4
  <2>2. n + (i - 1) > 1 + CompactedSummaryPrefixLen(h)
    BY <1>1, <1>4, PrefixLen
  <2>3. Asked(h, n + (i - 1))
    BY <2>1, <2>2 DEF Paired
  <2>4. n + ((i - 1) - 1) = (n + (i - 1)) - 1
    BY <1>1
  <2>. QED BY <1>1, <2>1, <2>3, <2>4 DEF Asked
<1>5. Paired(g)
  BY <1>1, <1>2, <1>3, <1>4 DEF Paired
<1>. QED BY <1>5 DEF g

\* What is shown stays shown.
LEMMA ShownAppend ==
    ASSUME NEW h \in Seq(FiniteMessages), NEW m \in FiniteMessages, NEW c, Shows(h, c)
    PROVE  Shows(Append(h, m), c)
<1>1. PICK i \in DOMAIN h : h[i].kind \in {"response", "summary"} /\ c \in h[i].ids
  BY DEF Shows
<1>2. i \in DOMAIN Append(h, m) /\ Append(h, m)[i] = h[i]
  BY AppendFacts
<1>. QED BY <1>1, <1>2 DEF Shows

-----------------------------------------------------------------------------
(* The steps of a run.                                                     *)

LEMMA TypeFacts ==
    ASSUME IInv
    PROVE  /\ store \in Seq(FiniteMessages) /\ messages \in Seq(FiniteMessages)
           /\ before \in Seq(FiniteMessages)
           /\ turns \in Nat /\ reviews \in Nat /\ lastId \in Nat /\ sends \in Nat /\ maxTurns \in Nat
           /\ calls \in SUBSET Nat /\ IsFiniteSet(calls)
           /\ notes \in SUBSET Nat /\ IsFiniteSet(notes)
<1>1. IsFiniteSet(1 .. lastId)
  BY FS_Interval DEF IInv, TypeOK
<1>2. IsFiniteSet(calls) /\ IsFiniteSet(notes)
  BY <1>1, FS_Subset DEF IInv, TypeOK
<1>. QED BY <1>2, DeploymentsAssumption DEF IInv, TypeOK, Histories

LEMMA FiniteIsTyped == Seq(FiniteMessages) \subseteq Seq(Messages)
<1>1. FiniteMessages \subseteq Messages
  BY DEF FiniteMessages
<1>. QED BY <1>1, SeqMonotonic

LEMMA EmptyFacts ==
    /\ <<>> \in Seq(FiniteMessages) /\ DOMAIN <<>> = {} /\ Len(<<>>) = 0
    /\ IsFiniteSet({})
  BY FS_EmptySet

LEMMA InitIInv == Init => IInv
<1>. SUFFICES ASSUME Init
              PROVE  IInv
  OBVIOUS
<1>. USE DEF Init
<1>1. Histories
  BY EmptyFacts DEF Histories
<1>2. TypeOK
  <2>1. \E d \in Deployments : backend = d[1] /\ maxTurns = d[2]
    OBVIOUS
  <2>2. <<backend, maxTurns>> \in Deployments
    BY <2>1, DeploymentsAssumption
  <2>3. {store, messages, before} \subseteq Seq(Messages)
    BY <1>1, FiniteIsTyped DEF Histories
  <2>4. ((calls # {}) <=> (stage = "tools")) /\ calls \subseteq 1 .. lastId /\ notes \subseteq 1 .. lastId
    OBVIOUS
  <2>5. aliased \in BOOLEAN
    BY Zenon
  <2>6. /\ stage \in {"idle", "turn", "sent", "tools", "ended"}
        /\ mode \in {"main", "fallback"} /\ choice \in {"any", "required"}
        /\ result \in {"none", "text", "submitted", "exhausted", "error"}
        /\ {turns, reviews, lastId, sends} \subseteq Nat
    OBVIOUS
  <2>. HIDE DEF Init
  <2>. QED BY <2>2, <2>3, <2>4, <2>5, <2>6, Zenon DEF TypeOK
<1>3. HistoriesArePaired
  BY PairedEmpty DEF HistoriesArePaired
<1>. QED
  BY <1>1, <1>2, <1>3
  DEF IInv, ResponseIsLast, NotesAreKnown, TurnsAreCounted, StoreIsKept, FirstRequestFits

\* Appending to the history of a run, which the in-memory store may share.
LEMMA ExtendKeepsStore ==
    ASSUME IInv, stage # "idle", stage' # "idle", NEW m \in FiniteMessages,
           Extend(Append(messages, m)), UNCHANGED <<backend, aliased, before>>
    PROVE  Histories' /\ StoreIsKept'
<1>1. Append(messages, m) \in Seq(FiniteMessages)
  BY TypeFacts, AppendFacts
<1>2. messages' = Append(messages, m) /\ store' = IF aliased THEN Append(messages, m) ELSE store
  BY DEF Extend
<1>3. Histories'
  BY <1>1, <1>2, TypeFacts DEF Histories
<1>4. IsPrefix(before, store')
  <2>1. IsPrefix(before, store)
    BY DEF IInv, StoreIsKept
  <2>2. aliased => store = messages
    BY DEF IInv, StoreIsKept
  <2>. QED BY <1>2, <2>1, <2>2, TypeFacts, PrefixFacts
<1>5. backend = "redis" => ~aliased
  BY DEF IInv, StoreIsKept, SharedStore
<1>. QED BY <1>2, <1>3, <1>4, <1>5 DEF IInv, StoreIsKept, SharedStore

LEMMA SendTurnPreserves ==
    ASSUME IInv, SendTurn
    PROVE  IInv'
<1>. DEFINE m == Message("warning", {})
<1>0. m \in FiniteMessages /\ m.kind = "warning"
  BY EmptyFacts, MessageFacts DEF Kinds
<1>1. /\ stage = "turn" /\ stage' = "sent" /\ sends' = sends + 1
      /\ UNCHANGED <<backend, maxTurns, aliased, mode, turns, calls, result, notes, reviews, lastId, before>>
      /\ \/ IsLastTurn /\ Extend(Append(messages, m)) /\ choice' = "required"
         \/ ~IsLastTurn /\ UNCHANGED <<messages, store>> /\ choice' \in {"required", "any"}
  BY DEF SendTurn, config
<1>. HIDE DEF m
<1>2. Histories' /\ StoreIsKept'
  <2>1. CASE IsLastTurn
    BY <1>0, <1>1, <2>1, ExtendKeepsStore
  <2>2. CASE ~IsLastTurn
    BY <1>1, <2>2 DEF IInv, Histories, StoreIsKept, SharedStore
  <2>. QED BY <2>1, <2>2
<1>3. TypeOK'
  <2>1. ({store, messages, before} \subseteq Seq(Messages))'
    BY <1>2, FiniteIsTyped DEF Histories
  <2>. QED BY <1>1, <2>1, SMTT(30) DEF IInv, TypeOK
<1>4. messages' = messages \/ messages' = Append(messages, m)
  BY <1>1 DEF Extend
<1>5. HistoriesArePaired'
  <2>. SUFFICES ASSUME backend = "redis"
                PROVE  Paired(store') /\ Paired(messages')
    BY <1>1 DEF HistoriesArePaired
  <2>1. Paired(store) /\ Paired(messages) /\ ~aliased
    BY <1>1 DEF IInv, HistoriesArePaired, StoreIsKept, SharedStore
  <2>2. Paired(Append(messages, m))
    BY <1>0, <2>1, PairedAppend, TypeFacts
  <2>. QED BY <1>1, <1>4, <2>1, <2>2 DEF Extend
<1>6. NotesAreKnown'
  <2>1. \A c \in notes : mode = "main" => Shows(messages, c)
    BY <1>1 DEF IInv, NotesAreKnown
  <2>2. \A c \in notes : mode = "main" => Shows(messages', c)
    <3>1. messages \in Seq(FiniteMessages)
      BY TypeFacts
    <3>2. \A c : Shows(messages, c) => Shows(Append(messages, m), c)
      BY <1>0, <3>1, ShownAppend
    <3>. QED BY <1>4, <2>1, <3>2
  <2>. QED BY <1>1, <2>2 DEF NotesAreKnown
<1>7. TurnsAreCounted'
  <2>1. IsLastTurn' <=> IsLastTurn
    BY <1>1 DEF IsLastTurn, Budget
  <2>2. IsLastTurn => choice' = "required" /\ Last(messages') = m
    <3>1. messages \in Seq(FiniteMessages)
      BY TypeFacts
    <3>2. Last(Append(messages, m)) = m
      BY <1>0, <3>1, AppendFacts
    <3>. QED BY <1>1, <3>2 DEF Extend
  <2>3. Budget' = Budget
    BY <1>1 DEF Budget
  <2>. QED BY <1>0, <1>1, <2>1, <2>2, <2>3 DEF IInv, TurnsAreCounted
<1>. QED
  BY <1>1, <1>2, <1>3, <1>5, <1>6, <1>7 DEF IInv, ResponseIsLast, FirstRequestFits

LEMMA ProviderRespondsPreserves ==
    ASSUME IInv, ProviderResponds
    PROVE  IInv'
<1>1. PICK n \in 0 .. MaxCalls, submits \in BOOLEAN :
        LET ids == (lastId + 1) .. (lastId + n) IN
        /\ Extend(Append(messages, Message(IF submits THEN "submission" ELSE "response", ids)))
        /\ lastId' = lastId + n
        /\ IF n = 0 \/ submits
           THEN /\ result' = IF submits THEN "submitted" ELSE "text"
                /\ stage' = "ended"
                /\ UNCHANGED calls
           ELSE /\ calls' = ids
                /\ stage' = "tools"
                /\ UNCHANGED result
  BY DEF ProviderResponds
<1>. DEFINE ids == (lastId + 1) .. (lastId + n)
            kind == IF submits THEN "submission" ELSE "response"
            m == Message(kind, ids)
<1>2. /\ stage = "sent"
      /\ UNCHANGED <<backend, maxTurns, aliased, mode, turns, choice, notes, reviews, sends, before>>
  BY DEF ProviderResponds, config
<1>3. n \in Nat /\ lastId \in Nat /\ lastId + n \in Nat
  <2>1. lastId \in Nat
    BY TypeFacts
  <2>2. MaxCalls \in Nat
    BY SizesAssumption
  <2>. QED BY <2>1, <2>2
<1>4. ids \subseteq 1 .. lastId + n /\ ids \in SUBSET Nat /\ IsFiniteSet(ids)
  BY <1>3, FS_Interval
<1>5. n = 0 <=> ids = {}
  BY <1>3
<1>6. m \in FiniteMessages /\ m.kind = kind /\ m.ids = ids
  <2>1. kind \in Kinds
    BY DEF Kinds
  <2>. HIDE DEF ids, kind
  <2>. QED BY <1>4, <2>1, MessageFacts, Zenon
<1>7. /\ Extend(Append(messages, m)) /\ lastId' = lastId + n
      /\ \/ (n = 0 \/ submits) /\ result' = (IF submits THEN "submitted" ELSE "text")
                               /\ stage' = "ended" /\ UNCHANGED calls
         \/ n # 0 /\ kind = "response" /\ calls' = ids /\ stage' = "tools" /\ UNCHANGED result
  BY <1>1
<1>7a. kind \in {"submission", "response"} /\ (kind = "response" <=> ~submits)
  OBVIOUS
<1>7b. calls = {}
  BY <1>2 DEF IInv, TypeOK
<1>. HIDE DEF ids, kind, m
<1>8. Histories' /\ StoreIsKept'
  BY <1>2, <1>6, <1>7, ExtendKeepsStore
<1>9. TypeOK'
  <2>1. ({store, messages, before} \subseteq Seq(Messages))'
    BY <1>8, FiniteIsTyped DEF Histories
  <2>2. calls' \subseteq 1 .. lastId' /\ ((calls # {}) <=> (stage = "tools"))'
    BY <1>3, <1>4, <1>5, <1>7, <1>7b
  <2>3. notes' \subseteq 1 .. lastId'
    BY <1>2, <1>3, <1>7 DEF IInv, TypeOK
  <2>4. lastId' \in Nat
    BY <1>3, <1>7
  <2>5. result' \in {"none", "text", "submitted", "exhausted", "error"} /\ stage' \in {"ended", "tools"}
    BY <1>7 DEF IInv, TypeOK
  <2>. QED BY <1>2, <2>1, <2>2, <2>3, <2>4, <2>5 DEF IInv, TypeOK
<1>10. messages' = Append(messages, m) /\ messages' # <<>> /\ Last(messages') = m /\ Front(messages') = messages
  <2>1. messages \in Seq(FiniteMessages)
    BY TypeFacts
  <2>2. messages' = Append(messages, m)
    BY <1>7 DEF Extend
  <2>3. Append(messages, m) # <<>> /\ Last(Append(messages, m)) = m /\ Front(Append(messages, m)) = messages
    BY <1>6, <2>1, AppendFacts
  <2>. QED BY <2>2, <2>3, Zenon
<1>11. HistoriesArePaired'
  <2>. SUFFICES ASSUME backend = "redis"
                PROVE  /\ Paired(store')
                       /\ stage' = "ended" => Paired(messages')
                       /\ stage' = "tools" => Paired(Front(messages'))
    BY <1>2, <1>7 DEF HistoriesArePaired
  <2>1. Paired(store) /\ Paired(messages) /\ ~aliased
    BY <1>2 DEF IInv, HistoriesArePaired, StoreIsKept, SharedStore
  <2>2. stage' = "ended" => m.kind # "results" /\ (m.kind = "response" => m.ids = {})
    BY <1>5, <1>6, <1>7, <1>7a
  <2>3. stage' = "ended" => Paired(Append(messages, m))
    BY <1>6, <2>1, <2>2, PairedAppend, TypeFacts
  <2>. QED BY <1>7, <1>10, <2>1, <2>3 DEF Extend
<1>12. NotesAreKnown'
  <2>1. \A c \in notes : mode = "main" => Shows(messages, c)
    BY <1>2 DEF IInv, NotesAreKnown
  <2>2. \A c \in notes : mode = "main" => Shows(messages', c)
    BY <1>6, <1>10, <2>1, ShownAppend, TypeFacts
  <2>. QED BY <1>2, <1>7, <2>2 DEF NotesAreKnown
<1>13. TurnsAreCounted'
  <2>1. Budget' = Budget
    BY <1>2 DEF Budget
  <2>. QED BY <1>2, <1>7, <2>1 DEF IInv, TurnsAreCounted
<1>14. ResponseIsLast'
  BY <1>7, <1>10 DEF ResponseIsLast, m
<1>. QED
  BY <1>7, <1>8, <1>9, <1>11, <1>12, <1>13, <1>14 DEF IInv, FirstRequestFits

LEMMA RunFailsPreserves ==
    ASSUME IInv, RunFails
    PROVE  IInv'
<1>1. /\ stage \in {"sent", "tools"} /\ stage' = "ended" /\ result' = "error" /\ calls' = {}
      /\ UNCHANGED <<backend, maxTurns, store, messages, aliased, mode, turns, choice, notes,
                     reviews, lastId, sends, before>>
  BY DEF RunFails, config
<1>2. TypeOK' /\ Histories'
  BY <1>1 DEF IInv, TypeOK, Histories
<1>. QED
  BY <1>1, <1>2
  DEF IInv, ResponseIsLast, HistoriesArePaired, NotesAreKnown, TurnsAreCounted, StoreIsKept,
      SharedStore, FirstRequestFits

\* A note is written by one of the calls that are dispatched.
LEMMA NotesAreCalls ==
    ASSUME IInv, stage = "tools", NEW written \in Noted
    PROVE  written \subseteq calls
<1>1. lastId \in Nat /\ calls # {} /\ calls \subseteq 0 .. lastId
  BY DEF IInv, TypeOK
<1>2. Max(calls) \in calls
  BY <1>1, MaxFacts
<1>. QED BY <1>2 DEF Noted

LEMMA DispatchToolsPreserves ==
    ASSUME IInv, DispatchTools
    PROVE  IInv'
<1>. DEFINE m == Message("results", calls)
            h == Append(messages, m)
<1>1. /\ stage = "tools" /\ turns' = turns + 1 /\ calls' = {}
      /\ \/ OutOfTurns /\ stage' = "ended" /\ result' = "exhausted"
         \/ ~OutOfTurns /\ stage' = "turn" /\ UNCHANGED result
      /\ UNCHANGED <<backend, maxTurns, mode, choice, reviews, lastId, sends, before>>
  BY DEF DispatchTools, config
<1>2. \/ messages' = h /\ store' = (IF aliased THEN h ELSE store) /\ UNCHANGED aliased
      \/ /\ mode = "main" /\ Compactable(h) /\ messages' = Compact(h, notes')
         /\ store' = (IF aliased THEN h ELSE store) /\ aliased' = FALSE
  BY DEF DispatchTools, ResultsOf, Extend
<1>3. PICK written \in Noted : notes' = notes \cup written
  BY DEF DispatchTools
<1>4. written \subseteq calls
  BY <1>1, <1>3, NotesAreCalls
<1>5. m \in FiniteMessages /\ m.kind = "results" /\ m.ids = calls
  BY TypeFacts, MessageFacts DEF Kinds
<1>6. messages \in Seq(FiniteMessages) /\ store \in Seq(FiniteMessages) /\ before \in Seq(FiniteMessages)
  BY TypeFacts
<1>7. messages # <<>> /\ Last(messages) = Message("response", calls)
  BY <1>1 DEF IInv, ResponseIsLast
<1>8. calls \in SUBSET Nat /\ IsFiniteSet(calls) /\ notes \in SUBSET Nat /\ IsFiniteSet(notes)
  BY TypeFacts
<1>9. notes' \in SUBSET Nat /\ IsFiniteSet(notes')
  <2>1. IsFiniteSet(written)
    BY <1>4, <1>8, FS_Subset
  <2>. QED BY <1>3, <1>4, <1>8, <2>1, FS_Union
<1>10. backend = "redis" => Paired(h)
  BY <1>1, <1>6, <1>7, <1>8, PairedResults DEF IInv, HistoriesArePaired
<1>. HIDE DEF m
<1>11. h \in Seq(FiniteMessages) /\ h # <<>>
  BY <1>5, <1>6, AppendFacts
<1>12. \A c \in notes' : mode = "main" => Shows(h, c)
  <2>1. \A c \in notes : mode = "main" => Shows(messages, c)
    BY <1>1 DEF IInv, NotesAreKnown
  <2>2. \A c \in written : Shows(messages, c)
    <3>1. Len(messages) \in DOMAIN messages /\ messages[Len(messages)] = Message("response", calls)
      BY <1>6, <1>7 DEF Last
    <3>2. /\ messages[Len(messages)].kind = "response"
          /\ messages[Len(messages)].ids = calls
      BY <3>1 DEF Message
    <3>. QED BY <1>4, <3>1, <3>2 DEF Shows
  <2>3. \A c : Shows(messages, c) => Shows(h, c)
    BY <1>5, <1>6, ShownAppend
  <2>. QED BY <1>3, <2>1, <2>2, <2>3
<1>13. Paired(h) /\ Compactable(h) => Paired(Compact(h, notes'))
  BY <1>9, <1>11, PairedCompact
<1>14. Compactable(h) => /\ Compact(h, notes') \in Seq(FiniteMessages)
                         /\ \A c \in notes' : Shows(Compact(h, notes'), c)
  <2>. SUFFICES ASSUME Compactable(h)
                PROVE  /\ Compact(h, notes') \in Seq(FiniteMessages)
                       /\ \A c \in notes' : Shows(Compact(h, notes'), c)
    OBVIOUS
  <2>. DEFINE g == Compact(h, notes')
  <2>1. g \in Seq(FiniteMessages) /\ 1 \in DOMAIN g /\ g[1] = Message("summary", notes')
    <3>. HIDE DEF h
    <3>. QED BY <1>9, <1>11, CompactFacts
  <2>. HIDE DEF g
  <2>2. g[1].kind = "summary" /\ g[1].ids = notes'
    BY <2>1 DEF Message
  <2>3. \A c \in notes' : Shows(g, c)
    BY <2>1, <2>2 DEF Shows
  <2>. QED BY <2>1, <2>3 DEF g
<1>15. IsPrefix(before, store) /\ (aliased => SharedStore /\ store = messages)
  BY <1>1 DEF IInv, StoreIsKept
<1>16. IsPrefix(before, store) => IsPrefix(before, Append(store, m))
  BY <1>5, <1>6, PrefixFacts
<1>17. aliased => h = Append(store, m)
  BY <1>15
<1>. HIDE DEF h
<1>18. Histories'
  BY <1>1, <1>2, <1>6, <1>11, <1>14 DEF Histories
<1>19. TypeOK'
  <2>1. ({store, messages, before} \subseteq Seq(Messages))'
    BY <1>18, FiniteIsTyped DEF Histories
  <2>2. notes' \subseteq 1 .. lastId'
    BY <1>1, <1>3, <1>4 DEF IInv, TypeOK
  <2>3. stage' \in {"turn", "ended"} /\ result' \in {"none", "text", "submitted", "exhausted", "error"}
    BY <1>1 DEF IInv, TypeOK
  <2>4. turns' \in Nat
    BY <1>1, TypeFacts
  <2>5. aliased' \in BOOLEAN
    BY <1>2, Zenon DEF IInv, TypeOK
  <2>. QED BY <1>1, <2>1, <2>2, <2>3, <2>4, <2>5 DEF IInv, TypeOK
<1>20. HistoriesArePaired'
  <2>1. backend = "redis" => Paired(store) /\ ~aliased
    BY <1>15 DEF IInv, HistoriesArePaired, SharedStore
  <2>2. backend = "redis" => Paired(messages') /\ Paired(store')
    BY <1>2, <1>10, <1>13, <2>1
  <2>. QED BY <1>1, <2>2 DEF HistoriesArePaired
<1>21. NotesAreKnown'
  <2>1. \A c \in notes' : mode = "main" => Shows(messages', c)
    BY <1>2, <1>12, <1>14
  <2>. QED BY <1>1, <2>1 DEF NotesAreKnown
<1>22. TurnsAreCounted'
  <2>1. Budget' = Budget /\ Budget \in Nat
    BY <1>1, TypeFacts DEF Budget
  <2>2. sends = turns + 1 /\ result = "none" /\ turns \in Nat
    BY <1>1, TypeFacts DEF IInv, TurnsAreCounted
  <2>3. ~OutOfTurns /\ Budget # 0 => turns + 1 < Budget
    BY <2>1, <2>2 DEF OutOfTurns
  <2>. QED BY <1>1, <2>1, <2>2, <2>3 DEF TurnsAreCounted
<1>23. StoreIsKept'
  <2>1. IsPrefix(before, store')
    BY <1>2, <1>15, <1>16, <1>17
  <2>2. backend = "redis" => store' = before
    BY <1>1, <1>2, <1>15 DEF IInv, StoreIsKept, SharedStore
  <2>3. aliased' => SharedStore' /\ store' = messages'
    BY <1>1, <1>2, <1>15 DEF SharedStore
  <2>. QED BY <1>1, <2>1, <2>2, <2>3 DEF StoreIsKept
<1>24. FirstRequestFits'
  <2>1. turns' # 0
    BY <1>1, TypeFacts
  <2>. QED BY <2>1 DEF FirstRequestFits
<1>25. ResponseIsLast'
  BY <1>1 DEF ResponseIsLast
<1>. QED
  BY <1>18, <1>19, <1>20, <1>21, <1>22, <1>23, <1>24, <1>25 DEF IInv

-----------------------------------------------------------------------------
(* The steps of a review.                                                  *)

\* The first history of a run: a paired one with the prompt at its end, truncated.
LEMMA FirstHistory ==
    ASSUME NEW prior \in Seq(FiniteMessages), NEW n \in Nat
    PROVE  LET h == WithPrompt(prior, n) IN
           /\ h \in Seq(FiniteMessages) /\ h = Append(prior, Message("prompt", {n}))
           /\ Truncate(h) \in Seq(FiniteMessages)
           /\ Last(Truncate(h)) = Message("prompt", {n})
           /\ Size(Truncate(h)) <= MaxSize \/ Len(Truncate(h)) = 1
           /\ Size(h) <= MaxSize => Truncate(h) = h
           /\ Paired(prior) => Paired(Truncate(h))
<1>. DEFINE m == Message("prompt", {n})
            h == WithPrompt(prior, n)
<1>1. m \in FiniteMessages /\ m.kind = "prompt"
  <2>1. IsFiniteSet({n})
    BY FS_Singleton
  <2>. QED BY <2>1, MessageFacts DEF Kinds
<1>2. h = Append(prior, m)
  BY DEF WithPrompt
<1>. HIDE DEF h, m
<1>3. h \in Seq(FiniteMessages) /\ h # <<>> /\ Last(h) = m
  BY <1>1, <1>2, AppendFacts
<1>4. ~IsAssistant(Last(h))
  BY <1>1, <1>3 DEF IsAssistant
<1>5. PICK k \in 0 .. Len(h) - 1 :
         /\ Truncate(h) = SubSeq(h, k + 1, Len(h))
         /\ Size(Truncate(h)) <= MaxSize \/ Len(Truncate(h)) = 1
  BY <1>3, <1>4, TruncateFacts, Zenon
<1>6. Size(h) <= MaxSize => Truncate(h) = h
  BY <1>3, <1>4, TruncateFacts
<1>7. Truncate(h) \in Seq(FiniteMessages) /\ Last(Truncate(h)) = m
  <2>. DEFINE g == SubSeq(h, k + 1, Len(h))
  <2>1. Len(h) \in Nat /\ k \in 0 .. Len(h)
    BY <1>3
  <2>2. /\ g \in Seq(FiniteMessages) /\ Len(g) = Len(h) - k
        /\ \A i \in 1 .. Len(h) - k : g[i] = h[k + i]
    BY <1>3, <2>1, SuffixFacts
  <2>. HIDE DEF g
  <2>3. Len(g) \in 1 .. Len(h) - k /\ k + Len(g) = Len(h)
    BY <2>1, <2>2
  <2>4. g[Len(g)] = h[Len(h)]
    BY <2>2, <2>3
  <2>5. Last(g) = m
    BY <1>3, <2>4, Zenon DEF Last
  <2>. QED BY <1>5, <2>2, <2>5, Zenon DEF g
<1>8. Paired(prior) => Paired(Truncate(h))
  <2>. SUFFICES ASSUME Paired(prior)
                PROVE  Paired(Truncate(h))
    OBVIOUS
  <2>1. Paired(h)
    BY <1>1, <1>2, PairedAppend
  <2>. QED BY <1>3, <1>5, <2>1, PairedSuffix
<1>. QED BY <1>2, <1>3, <1>5, <1>6, <1>7, <1>8 DEF h, m

LEMMA BeginReviewPreserves ==
    ASSUME IInv, BeginReview
    PROVE  IInv'
<1>1. /\ stage = "idle" /\ stage' = "turn" /\ reviews' = reviews + 1 /\ before' = store
      /\ mode' = "main" /\ turns' = 0 /\ sends' = 0 /\ result' = "none"
      /\ UNCHANGED <<backend, maxTurns, calls, choice, notes, lastId>>
  BY DEF BeginReview, config
<1>2. PICK prior \in ReadHistory :
        LET h == WithPrompt(prior, reviews') IN
        /\ messages' = Truncate(h)
        /\ store' = IF SharedStore /\ prior # <<>> THEN h ELSE store
        /\ aliased' = (SharedStore /\ prior # <<>> /\ Size(h) <= MaxSize)
  BY DEF BeginReview
<1>. DEFINE h == WithPrompt(prior, reviews')
            m == Message("prompt", {reviews'})
<1>3. store \in Seq(FiniteMessages) /\ reviews' \in Nat /\ turns' \in Nat /\ sends' \in Nat
  BY <1>1, TypeFacts
<1>4. /\ prior \in Seq(FiniteMessages)
      /\ backend = "redis" => prior \in {store, <<>>}
      /\ SharedStore => prior = store
  BY <1>2, <1>3, EmptyFacts DEF ReadHistory
<1>5. /\ h \in Seq(FiniteMessages) /\ h = Append(prior, m)
      /\ Truncate(h) \in Seq(FiniteMessages)
      /\ Last(Truncate(h)) = m
      /\ Size(Truncate(h)) <= MaxSize \/ Len(Truncate(h)) = 1
      /\ Size(h) <= MaxSize => Truncate(h) = h
      /\ Paired(prior) => Paired(Truncate(h))
  <2>. HIDE DEF Message
  <2>. QED BY <1>3, <1>4, FirstHistory
<1>6. m \in FiniteMessages
  <2>1. IsFiniteSet({reviews'})
    BY FS_Singleton
  <2>. QED BY <1>3, <2>1, MessageFacts DEF Kinds
<1>7. /\ messages' = Truncate(h)
      /\ store' = IF SharedStore /\ prior # <<>> THEN h ELSE store
      /\ aliased' = (SharedStore /\ prior # <<>> /\ Size(h) <= MaxSize)
  BY <1>2
<1>. HIDE DEF h
<1>8. Histories'
  BY <1>1, <1>3, <1>5, <1>7 DEF Histories
<1>9. TypeOK'
  <2>1. ({store, messages, before} \subseteq Seq(Messages))'
    BY <1>8, FiniteIsTyped DEF Histories
  <2>2. aliased' \in BOOLEAN
    BY <1>7, Zenon
  <2>. QED BY <1>1, <1>3, <2>1, <2>2 DEF IInv, TypeOK
<1>10. HistoriesArePaired'
  <2>. SUFFICES ASSUME backend = "redis"
                PROVE  Paired(store') /\ Paired(messages')
    BY <1>1 DEF HistoriesArePaired
  <2>1. Paired(store) /\ ~SharedStore
    BY DEF IInv, HistoriesArePaired, SharedStore
  <2>2. Paired(prior)
    BY <1>4, <2>1, PairedEmpty
  <2>. QED BY <1>5, <1>7, <2>1, <2>2
<1>11. NotesAreKnown'
  BY <1>1 DEF IInv, NotesAreKnown
<1>12. TurnsAreCounted'
  <2>1. Budget' \in Nat
    BY <1>1, TypeFacts DEF Budget
  <2>. QED BY <1>1, <2>1 DEF TurnsAreCounted
<1>13. StoreIsKept'
  <2>1. IsPrefix(store, store) /\ IsPrefix(store, Append(store, m))
    BY <1>3, <1>6, PrefixFacts
  <2>2. IsPrefix(before', store')
    BY <1>1, <1>4, <1>5, <1>7, <2>1
  <2>3. backend = "redis" => store' = before'
    BY <1>1, <1>7 DEF SharedStore
  <2>4. aliased' => SharedStore' /\ store' = messages'
    <3>. SUFFICES ASSUME aliased'
                  PROVE  SharedStore' /\ store' = messages'
      OBVIOUS
    <3>1. SharedStore /\ prior # <<>> /\ Size(h) <= MaxSize
      BY <1>7, Zenon
    <3>. QED BY <1>1, <1>5, <1>7, <3>1 DEF SharedStore
  <2>. QED BY <1>1, <2>2, <2>3, <2>4 DEF StoreIsKept
<1>14. FirstRequestFits'
  BY <1>5, <1>7 DEF FirstRequestFits
<1>15. ResponseIsLast'
  BY <1>1 DEF ResponseIsLast
<1>. QED
  BY <1>8, <1>9, <1>10, <1>11, <1>12, <1>13, <1>14, <1>15 DEF IInv

LEMMA BeginFallbackPreserves ==
    ASSUME IInv, BeginFallback
    PROVE  IInv'
<1>. DEFINE m == Message("prompt", {reviews})
<1>1. /\ stage = "ended" /\ stage' = "turn" /\ mode' = "fallback" /\ turns' = 0 /\ sends' = 0
      /\ result' = "none" /\ aliased' = FALSE
      /\ UNCHANGED <<backend, maxTurns, store, calls, choice, notes, reviews, lastId, before>>
  BY DEF BeginFallback, config
<1>2. m \in FiniteMessages /\ m.kind = "prompt"
  <2>1. IsFiniteSet({reviews}) /\ {reviews} \in SUBSET Nat
    BY FS_Singleton, TypeFacts
  <2>. QED BY <2>1, MessageFacts DEF Kinds
<1>3. messages' = Append(<<>>, m)
  BY DEF BeginFallback, WithPrompt
<1>. HIDE DEF m
<1>4. messages' \in Seq(FiniteMessages) /\ Len(messages') = 1 /\ Last(messages') = m
  BY <1>2, <1>3, SingletonFacts
<1>5. Histories'
  BY <1>1, <1>4, TypeFacts DEF Histories
<1>6. TypeOK'
  <2>1. ({store, messages, before} \subseteq Seq(Messages))'
    BY <1>5, FiniteIsTyped DEF Histories
  <2>2. aliased' \in BOOLEAN
    BY <1>1, Zenon
  <2>3. turns' \in Nat /\ sends' \in Nat
    BY <1>1
  <2>. QED BY <1>1, <2>1, <2>2, <2>3 DEF IInv, TypeOK
<1>7. HistoriesArePaired'
  <2>1. Paired(Append(<<>>, m))
    BY <1>2, EmptyFacts, PairedEmpty, PairedAppend
  <2>. QED BY <1>1, <1>3, <2>1 DEF IInv, HistoriesArePaired
<1>8. TurnsAreCounted'
  <2>1. Budget' = 1
    BY <1>1 DEF Budget
  <2>. QED BY <1>1, <2>1 DEF TurnsAreCounted
<1>9. NotesAreKnown'
  BY <1>1 DEF NotesAreKnown
<1>10. StoreIsKept'
  BY <1>1 DEF IInv, StoreIsKept
<1>11. FirstRequestFits'
  BY <1>1, <1>4 DEF FirstRequestFits, m
<1>12. ResponseIsLast'
  BY <1>1 DEF ResponseIsLast
<1>. QED
  BY <1>5, <1>6, <1>7, <1>8, <1>9, <1>10, <1>11, <1>12 DEF IInv

\* The end of a review, with what is stored then.
LEMMA ReviewEndsPreserves ==
    ASSUME IInv, ReviewEnds, store' = store \/ (store' = messages /\ result # "error")
    PROVE  IInv'
<1>1. /\ stage = "ended" /\ stage' = "idle" /\ messages' = <<>> /\ aliased' = FALSE /\ notes' = {}
      /\ UNCHANGED <<backend, maxTurns, mode, turns, calls, choice, result, reviews, lastId, sends, before>>
  BY DEF ReviewEnds, config
<1>2. Histories'
  BY <1>1, TypeFacts, EmptyFacts DEF Histories
<1>3. TypeOK'
  <2>1. ({store, messages, before} \subseteq Seq(Messages))'
    BY <1>2, FiniteIsTyped DEF Histories
  <2>. QED BY <1>1, <2>1 DEF IInv, TypeOK
<1>4. HistoriesArePaired'
  BY <1>1 DEF IInv, HistoriesArePaired
<1>. QED
  BY <1>1, <1>2, <1>3, <1>4
  DEF IInv, ResponseIsLast, NotesAreKnown, TurnsAreCounted, StoreIsKept, FirstRequestFits

LEMMA ForgetPreserves ==
    ASSUME IInv, Forget
    PROVE  IInv'
<1>1. /\ stage = "idle" /\ store' = <<>>
      /\ UNCHANGED <<backend, maxTurns, messages, aliased, stage, mode, turns, calls, choice,
                     result, notes, sends, reviews, lastId, before>>
  BY DEF Forget, config, runVars
<1>2. Histories'
  BY <1>1, TypeFacts, EmptyFacts DEF Histories
<1>3. TypeOK'
  <2>1. ({store, messages, before} \subseteq Seq(Messages))'
    BY <1>2, FiniteIsTyped DEF Histories
  <2>. QED BY <1>1, <2>1 DEF IInv, TypeOK
<1>4. HistoriesArePaired'
  BY <1>1, PairedEmpty DEF HistoriesArePaired
<1>5. ~aliased
  BY <1>1 DEF IInv, StoreIsKept
<1>. QED
  BY <1>1, <1>2, <1>3, <1>4, <1>5
  DEF IInv, ResponseIsLast, NotesAreKnown, TurnsAreCounted, StoreIsKept, FirstRequestFits

LEMMA StutterPreserves ==
    ASSUME IInv, UNCHANGED vars
    PROVE  IInv'
<1>. USE DEF vars, config, runVars
<1>1. TypeOK' /\ Histories'
  BY DEF IInv, TypeOK, Histories
<1>2. ResponseIsLast' /\ HistoriesArePaired' /\ NotesAreKnown' /\ StoreIsKept'
  BY DEF IInv, ResponseIsLast, HistoriesArePaired, NotesAreKnown, StoreIsKept, SharedStore
<1>3. TurnsAreCounted' /\ FirstRequestFits'
  BY DEF IInv, TurnsAreCounted, IsLastTurn, Budget, FirstRequestFits
<1>. QED BY <1>1, <1>2, <1>3 DEF IInv

LEMMA NextPreserves == IInv /\ [Next]_vars => IInv'
<1>. SUFFICES ASSUME IInv, [Next]_vars
              PROVE  IInv'
  OBVIOUS
<1>1. ASSUME Save \/ SkipSave
      PROVE  ReviewEnds /\ (store' = store \/ (store' = messages /\ result # "error"))
  BY <1>1 DEF Save, SkipSave, StoreHistory
<1>. QED
  BY <1>1, BeginReviewPreserves, SendTurnPreserves, ProviderRespondsPreserves, RunFailsPreserves,
     DispatchToolsPreserves, BeginFallbackPreserves, ReviewEndsPreserves, ForgetPreserves,
     StutterPreserves
  DEF Next, Reviewing

-----------------------------------------------------------------------------
(* Theorems about the reviews.                                             *)

LEMMA Invariance == Spec => []IInv
<1>. QED BY InitIInv, NextPreserves, PTL DEF Spec

\* Every variable keeps its type, and calls wait for results exactly while they are
\* dispatched.
THEOREM TypeCorrect == Spec => []TypeOK
<1>1. IInv => TypeOK
  BY DEF IInv
<1>. QED BY <1>1, Invariance, PTL

\* With the Redis store, a history that is sent is damaged only where it was cut, after
\* any number of reviews, truncations, compactions, errors and expiries.
THEOREM DamageIsAtTheFront == Spec => []DamagedOnlyAtTheFront
<1>1. IInv => DamagedOnlyAtTheFront
  BY DEF IInv, HistoriesArePaired, Paired, DamagedOnlyAtTheFront
<1>. QED BY <1>1, Invariance, PTL

\* Each note of the reviewer is part of each later request of its main run.
THEOREM NotesAreKept == Spec => []NoNoteIsLost
<1>1. IInv => NoNoteIsLost
  BY DEF IInv, NotesAreKnown, Shows, NoNoteIsLost
<1>. QED BY <1>1, Invariance, PTL

\* The first request of a run has its prompt last and fits, unless the prompt alone is
\* too large.
THEOREM FirstRequestsFit == Spec => []FirstRequestFits
<1>1. IInv => FirstRequestFits
  BY DEF IInv
<1>. QED BY <1>1, Invariance, PTL

\* A limited run sends no more requests than it has turns, and its last one forces a call.
THEOREM BudgetsAreKept == Spec => []BudgetIsKept
<1>1. IInv => BudgetIsKept
  <2>. SUFFICES ASSUME IInv, stage = "sent", Budget # 0
                PROVE  /\ sends <= Budget
                       /\ sends = Budget => choice = "required" /\ Last(messages).kind = "warning"
    BY DEF BudgetIsKept
  <2>1. Budget \in Nat /\ turns \in Nat
    BY TypeFacts DEF Budget
  <2>2. sends = turns + 1 /\ turns < Budget
    BY DEF IInv, TurnsAreCounted
  <2>3. sends = Budget => IsLastTurn
    BY <2>1, <2>2 DEF IsLastTurn
  <2>. QED BY <2>1, <2>2, <2>3 DEF IInv, TurnsAreCounted
<1>. QED BY <1>1, Invariance, PTL

\* A run that failed loses nothing of the stored history.
THEOREM FailuresKeepHistory == Spec => FailedRunsKeepHistory
<1>1. IInv /\ [Next]_vars =>
        [(stage = "ended" /\ stage' = "idle" /\ result = "error") =>
            /\ IsPrefix(before, store')
            /\ backend = "redis" => store' = before]_vars
  <2>. SUFFICES ASSUME IInv, Next, stage = "ended", stage' = "idle", result = "error"
                PROVE  IsPrefix(before, store') /\ (backend = "redis" => store' = before)
    OBVIOUS
  <2>1. store' = store
    BY DEF Next, Reviewing, BeginReview, SendTurn, ProviderResponds, RunFails, DispatchTools,
           BeginFallback, Save, SkipSave, Forget
  <2>. QED BY <2>1 DEF IInv, StoreIsKept
<1>. QED BY <1>1, Invariance, PTL DEF Spec, FailedRunsKeepHistory

-----------------------------------------------------------------------------
(* What the providers are sent.                                            *)

SentMessages ==
    [role : {"user", "tool", "assistant"}, calls : SUBSET Nat, answers : SUBSET Nat]

\* Calls that do not submit a review are those of a response, which the next message
\* answers.
LEMMA CallsAreAnswered ==
    ASSUME NEW h \in Seq(FiniteMessages), Paired(h), NEW i \in DOMAIN h,
           Calls(h[i]) # {}, h[i].kind # "submission"
    PROVE  /\ Calls(h[i]) = h[i].ids /\ h[i].kind = "response"
           /\ i + 1 \in DOMAIN h /\ h[i + 1] = Message("results", h[i].ids)
<1>1. Calls(h[i]) = h[i].ids /\ h[i].kind = "response"
  BY DEF Calls, IsAssistant
<1>2. Answered(h, i)
  BY DEF Paired
<1>. QED BY <1>1, <1>2 DEF Answered

LEMMA AnthropicIsAnswered ==
    ASSUME NEW h \in Seq(FiniteMessages), Paired(h), NEW i \in DOMAIN h,
           Calls(h[i]) # {}, h[i].kind # "submission"
    PROVE  AnsweredNext(AnthropicMessages(h), i, 1)
<1>. DEFINE r == AnthropicMessages(h)
<1>1. DOMAIN r = 1 .. Len(h) /\ Len(h) \in Nat /\ i \in 1 .. Len(h)
  BY DEF AnthropicMessages
<1>2. Len(r) = Len(h)
  BY <1>1
<1>3. \A k \in DOMAIN h : r[k].calls = Calls(h[k]) /\ r[k].answers = Results(h[k])
  BY DEF AnthropicMessages, Sent
<1>4. /\ Calls(h[i]) = h[i].ids
      /\ i + 1 \in DOMAIN h /\ h[i + 1] = Message("results", h[i].ids)
  BY CallsAreAnswered
<1>5. r[i + 1].calls = {} /\ r[i + 1].answers = r[i].calls
  BY <1>3, <1>4 DEF Calls, Results, IsAssistant, Message
<1>. HIDE DEF r
<1>6. i + 1 .. i + 1 = {i + 1} /\ i + 1 <= Len(r)
  BY <1>1, <1>2, <1>4
<1>7. UNION {r[j].answers : j \in {i + 1}} = r[i + 1].answers
  OBVIOUS
<1>8. AnsweredNext(r, i, 1)
  BY <1>5, <1>6, <1>7 DEF AnsweredNext
<1>. QED BY <1>8 DEF r

\* The results of the newest calls get the names of these calls.
LEMMA GeminiIsAnswered ==
    ASSUME NEW h \in Seq(FiniteMessages), Paired(h), NEW i \in DOMAIN h,
           Calls(h[i]) # {}, h[i].kind # "submission",
           \A j \in i + 1 .. Len(h) : Calls(h[j]) = {}
    PROVE  AnsweredNext(GeminiContents(h), i, 1)
<1>. DEFINE r == GeminiContents(h)
            ids == h[i].ids
            answers(m) == UNION {IdToName(h, GeneratedId(m.ids, c)) : c \in Results(m)}
<1>1. DOMAIN r = 1 .. Len(h) /\ Len(h) \in Nat /\ i \in 1 .. Len(h)
  BY DEF GeminiContents
<1>2. Len(r) = Len(h)
  BY <1>1
<1>3. \A k \in DOMAIN h : r[k].calls = Calls(h[k]) /\ r[k].answers = answers(h[k])
  BY DEF GeminiContents, Sent
<1>4. /\ Calls(h[i]) = ids
      /\ i + 1 \in DOMAIN h /\ h[i + 1] = Message("results", ids)
  BY CallsAreAnswered
<1>5. Results(h[i + 1]) = ids /\ h[i + 1].ids = ids /\ Calls(h[i + 1]) = {}
  BY <1>4 DEF Calls, Results, IsAssistant, Message
<1>6. ASSUME NEW c \in ids
      PROVE  c \in IdToName(h, GeneratedId(ids, c)) /\ IdToName(h, GeneratedId(ids, c)) \subseteq ids
  <2>. DEFINE id == GeneratedId(ids, c)
              with == {k \in DOMAIN h : \E d \in Calls(h[k]) : GeneratedId(h[k].ids, d) = id}
  <2>1. i \in with
    BY <1>4
  <2>2. \A k \in with : i >= k
    <3>. SUFFICES ASSUME NEW k \in with
                  PROVE  i >= k
      OBVIOUS
    <3>1. k \in 1 .. Len(h) /\ Calls(h[k]) # {}
      OBVIOUS
    <3>2. ~(k \in i + 1 .. Len(h))
      BY <3>1
    <3>. QED BY <1>1, <3>1, <3>2
  <2>3. with \subseteq 0 .. Len(h)
    <3>1. with \subseteq DOMAIN h
      OBVIOUS
    <3>2. DOMAIN h \subseteq 0 .. Len(h)
      OBVIOUS
    <3>. HIDE DEF with
    <3>. QED BY <3>1, <3>2
  <2>4. Max(with) = i
    <3>. HIDE DEF with
    <3>1. Max(with) \in with /\ Max(with) >= i
      BY <1>1, <2>1, <2>3, MaxFacts
    <3>2. i >= Max(with) /\ Max(with) \in 0 .. Len(h)
      BY <2>2, <2>3, <3>1
    <3>. QED BY <1>1, <3>1, <3>2
  <2>5. IdToName(h, id) = {d \in Calls(h[i]) : GeneratedId(h[i].ids, d) = id}
    BY <2>1, <2>4 DEF IdToName
  <2>. QED BY <1>4, <2>5
<1>7. answers(h[i + 1]) = ids
  BY <1>5, <1>6
<1>8. r[i + 1].calls = {} /\ r[i + 1].answers = r[i].calls
  BY <1>3, <1>4, <1>5, <1>7
<1>. HIDE DEF r
<1>9. i + 1 .. i + 1 = {i + 1} /\ i + 1 <= Len(r)
  BY <1>1, <1>2, <1>4
<1>10. UNION {r[j].answers : j \in {i + 1}} = r[i + 1].answers
  OBVIOUS
<1>11. AnsweredNext(r, i, 1)
  BY <1>8, <1>9, <1>10 DEF AnsweredNext
<1>. QED BY <1>11 DEF r

\* FlattenSeq() is a recursion over the sequence of sequences.
LEMMA FlattenFacts ==
    ASSUME NEW T, NEW s \in Seq(Seq(T)), s # <<>>
    PROVE  \E f \in [1 .. Len(s) -> Seq(T)] :
              /\ f[1] = s[1]
              /\ \A i \in 1 .. Len(s) : i # 1 => f[i] = f[i - 1] \o s[i]
              /\ FlattenSeq(s) = f[Len(s)]
<1>. DEFINE L == Len(s)
            rhs(g, i) == IF i = 1 THEN s[i] ELSE g[i - 1] \o s[i]
            solves(g, k) == g = [i \in 1 .. k |-> rhs(g, i)]
            S == {k \in Nat : \E g : solves(g, k)}
            f == CHOOSE g : g = [i \in 1 .. L |-> IF i = 1 THEN s[i] ELSE g[i - 1] \o s[i]]
<1>0. L \in Nat \ {0} /\ \A i \in 1 .. L : s[i] \in Seq(T)
  OBVIOUS
<1>1. 0 \in S
  <2>. DEFINE g == [i \in 1 .. 0 |-> i]
  <2>1. solves(g, 0)
    OBVIOUS
  <2>. QED BY <2>1
<1>2. ASSUME NEW k \in Nat, k \in S
      PROVE  k + 1 \in S
  <2>1. PICK g : solves(g, k)
    BY <1>2
  <2>. DEFINE e == [i \in 1 .. k + 1 |-> rhs(g, i)]
  <2>2. ASSUME NEW i \in 1 .. k + 1
        PROVE  e[i] = rhs(e, i)
    <3>1. CASE i = 1
      BY <3>1
    <3>2. CASE i # 1
      <4>1. i - 1 \in 1 .. k /\ i - 1 \in 1 .. k + 1
        BY <3>2
      <4>2. g[i - 1] = rhs(g, i - 1)
        BY <2>1, <4>1
      <4>3. e[i - 1] = rhs(g, i - 1)
        BY <4>1
      <4>. QED BY <3>2, <4>2, <4>3
    <3>. QED BY <3>1, <3>2
  <2>3. solves(e, k + 1)
    BY <2>2
  <2>4. \E q : solves(q, k + 1)
    <3>. HIDE DEF e, solves
    <3>. QED BY <2>3
  <2>. HIDE DEF solves
  <2>. QED BY <2>4
<1>3. solves(f, L)
  <2>1. L \in S
    <3>1. Nat \subseteq S
      <4>. HIDE DEF S
      <4>. QED BY <1>1, <1>2, Induction
    <3>. QED BY <1>0, <3>1
  <2>2. \E g : g = [i \in 1 .. L |-> IF i = 1 THEN s[i] ELSE g[i - 1] \o s[i]]
    BY <2>1
  <2>. QED BY <2>2, Zenon
<1>4. FlattenSeq(s) = f[L]
  BY <1>0 DEF FlattenSeq
<1>. HIDE DEF f
<1>5. DOMAIN f = 1 .. L /\ \A i \in 1 .. L : f[i] = rhs(f, i)
  BY <1>3
<1>. DEFINE R == {k \in Nat : k + 1 <= L => f[k + 1] \in Seq(T)}
<1>6. 0 \in R
  <2>1. 1 \in 1 .. L /\ 0 + 1 = 1
    BY <1>0
  <2>2. f[1] \in Seq(T)
    BY <1>0, <1>5, <2>1
  <2>. QED BY <2>1, <2>2
<1>7. ASSUME NEW k \in Nat, k \in R
      PROVE  k + 1 \in R
  <2>. SUFFICES ASSUME (k + 1) + 1 <= L
                PROVE  f[(k + 1) + 1] \in Seq(T)
    OBVIOUS
  <2>. DEFINE i == (k + 1) + 1
  <2>1. i \in 1 .. L /\ i # 1 /\ i - 1 = k + 1 /\ k + 1 <= L
    BY <1>0
  <2>2. f[i] = f[k + 1] \o s[i]
    BY <1>5, <2>1
  <2>3. f[k + 1] \in Seq(T) /\ s[i] \in Seq(T)
    BY <1>0, <1>7, <2>1
  <2>. HIDE DEF i
  <2>4. f[k + 1] \o s[i] \in Seq(T)
    BY <2>3, ConcatProperties
  <2>5. f[i] \in Seq(T)
    BY <2>2, <2>4
  <2>. QED BY <2>5 DEF i
<1>8. \A i \in 1 .. L : f[i] \in Seq(T)
  <2>1. Nat \subseteq R
    <3>. HIDE DEF R
    <3>. QED BY <1>6, <1>7, Induction
  <2> SUFFICES ASSUME NEW i \in 1 .. L
               PROVE  f[i] \in Seq(T)
    OBVIOUS
  <2>2. i - 1 \in Nat /\ (i - 1) + 1 = i /\ i <= L
    BY <1>0
  <2>3. i - 1 \in R
    <3>. HIDE DEF R
    <3>. QED BY <2>1, <2>2
  <2>. QED BY <2>2, <2>3
<1>9. f \in [1 .. L -> Seq(T)]
  <2>. HIDE DEF L
  <2>. QED BY <1>3, <1>5, <1>8
<1>10. 1 \in 1 .. L
  BY <1>0
<1>. QED BY <1>4, <1>5, <1>9, <1>10

LEMMA ChatMessagesFacts ==
    ASSUME NEW m \in FiniteMessages
    PROVE  LET c == ChatMessagesOf(m) IN
           /\ c \in Seq(SentMessages)
           /\ m.kind = "results" =>
                /\ Len(c) = Cardinality(m.ids)
                /\ \A q \in 1 .. Cardinality(m.ids) :
                      /\ c[q].calls = {}
                      /\ c[q].answers = {d \in m.ids : CallsBefore(m.ids, d) = q - 1}
           /\ m.kind # "results" => Len(c) = 1 /\ c[1].calls = Calls(m)
<1>. DEFINE n == Cardinality(m.ids)
            answer(q) == {d \in m.ids : CallsBefore(m.ids, d) = q - 1}
            c == ChatMessagesOf(m)
<1>1. m.ids \in SUBSET Nat /\ IsFiniteSet(m.ids) /\ n \in Nat
  BY FS_CardinalityType DEF FiniteMessages, Messages
<1>2. CASE m.kind = "results"
  <2>1. c = [q \in 1 .. n |-> Sent("tool", {}, answer(q))]
    BY <1>2 DEF ChatMessagesOf
  <2>2. \A q \in 1 .. n : /\ Sent("tool", {}, answer(q)) \in SentMessages
                          /\ Sent("tool", {}, answer(q)).calls = {}
                          /\ Sent("tool", {}, answer(q)).answers = answer(q)
    BY <1>1 DEF Sent, SentMessages
  <2>. HIDE DEF c, n, answer
  <2>3. c \in Seq(SentMessages) /\ Len(c) = n /\ \A q \in 1 .. n : c[q] = Sent("tool", {}, answer(q))
    <3>. HIDE DEF Sent, SentMessages
    <3>. QED BY <1>1, <2>1, <2>2
  <2>4. \A q \in 1 .. n : c[q].calls = {} /\ c[q].answers = answer(q)
    BY <2>2, <2>3
  <2>. QED BY <1>2, <2>3, <2>4 DEF c, n, answer
<1>3. CASE m.kind # "results"
  <2>1. Calls(m) \in SUBSET Nat
    BY <1>1 DEF Calls
  <2>2. Role(m) = "user" => Calls(m) = {}
    BY DEF Role, Calls
  <2>3. PICK e \in SentMessages : c = <<e>> /\ e.calls = Calls(m)
    <3>1. CASE Role(m) = "user"
      <4>1. c = <<Sent("user", {}, {})>>
        BY <1>3, <3>1 DEF ChatMessagesOf
      <4>2. Sent("user", {}, {}) \in SentMessages /\ Sent("user", {}, {}).calls = {}
        BY DEF Sent, SentMessages
      <4>. QED BY <2>2, <3>1, <4>1, <4>2
    <3>2. CASE Role(m) # "user"
      <4>1. c = <<Sent("assistant", Calls(m), {})>>
        BY <1>3, <3>2 DEF ChatMessagesOf
      <4>2. /\ Sent("assistant", Calls(m), {}) \in SentMessages
            /\ Sent("assistant", Calls(m), {}).calls = Calls(m)
        BY <2>1 DEF Sent, SentMessages
      <4>. QED BY <4>1, <4>2
    <3>. QED BY <3>1, <3>2
  <2>. HIDE DEF c
  <2>4. c \in Seq(SentMessages) /\ Len(c) = 1 /\ c[1] = e
    <3>. HIDE DEF SentMessages
    <3>. QED BY <2>3
  <2>. QED BY <1>3, <2>3, <2>4 DEF c
<1>. QED BY <1>2, <1>3

\* The number of a call among those of its response.
LEMMA CallsBeforeIsSmall ==
    ASSUME NEW ids, IsFiniteSet(ids), NEW c \in ids, ids \subseteq Nat
    PROVE  CallsBefore(ids, c) + 1 \in 1 .. Cardinality(ids)
<1>. DEFINE smaller == {d \in ids : d < c}
<1>1. smaller \in SUBSET ids /\ smaller # ids
  <2>1. c \notin smaller
    OBVIOUS
  <2>. QED BY <2>1
<1>. HIDE DEF smaller
<1>2. Cardinality(smaller) < Cardinality(ids) /\ Cardinality(smaller) \in Nat /\ Cardinality(ids) \in Nat
  <2>1. /\ IsFiniteSet(smaller)
        /\ Cardinality(smaller) <= Cardinality(ids)
        /\ Cardinality(ids) = Cardinality(smaller) => ids = smaller
    BY <1>1, FS_Subset
  <2>2. Cardinality(smaller) \in Nat /\ Cardinality(ids) \in Nat
    BY <2>1, FS_CardinalityType
  <2>. QED BY <1>1, <2>1, <2>2
<1>. QED BY <1>2 DEF smaller, CallsBefore

\* Where the calls of a chat request come from, and what follows them, as far as the first
\* k messages of the history go.
Follows(h, r, k, p, j) ==
    /\ IsAssistant(h[j]) /\ Calls(h[j]) = r[p].calls
    /\ j = k => p = Len(r)
    /\ j < k /\ h[j + 1].kind = "results" =>
          /\ p + Cardinality(h[j + 1].ids) <= Len(r)
          /\ \A q \in 1 .. Cardinality(h[j + 1].ids) : r[p + q] = ChatMessagesOf(h[j + 1])[q]

CallsFollow(h, r, k) ==
    \A p \in 1 .. Len(r) : r[p].calls # {} => \E j \in 1 .. k : Follows(h, r, k, p, j)

LEMMA FollowsStep ==
    ASSUME NEW h \in Seq(FiniteMessages), NEW k \in Nat, k + 1 \in 1 .. Len(h),
           NEW r \in Seq(SentMessages), CallsFollow(h, r, k)
    PROVE  CallsFollow(h, r \o ChatMessagesOf(h[k + 1]), k + 1)
<1>. DEFINE c == ChatMessagesOf(h[k + 1])
            s == r \o c
<1>1. h[k + 1] \in FiniteMessages
  OBVIOUS
<1>2. /\ c \in Seq(SentMessages)
      /\ h[k + 1].kind = "results" =>
           /\ Len(c) = Cardinality(h[k + 1].ids)
           /\ \A q \in 1 .. Cardinality(h[k + 1].ids) : c[q].calls = {}
      /\ h[k + 1].kind # "results" => Len(c) = 1 /\ c[1].calls = Calls(h[k + 1])
  BY <1>1, ChatMessagesFacts
<1>3. Cardinality(h[k + 1].ids) \in Nat
  BY <1>1, FS_CardinalityType DEF FiniteMessages
<1>. HIDE DEF c
<1>4. /\ s \in Seq(SentMessages) /\ Len(s) = Len(r) + Len(c) /\ Len(r) \in Nat /\ Len(c) \in Nat
      /\ \A p \in 1 .. Len(r) : s[p] = r[p]
      /\ \A q \in 1 .. Len(c) : s[Len(r) + q] = c[q]
  <2>. HIDE DEF SentMessages
  <2>1. /\ s \in Seq(SentMessages) /\ Len(s) = Len(r) + Len(c)
        /\ \A i \in 1 .. Len(r) + Len(c) : s[i] = IF i <= Len(r) THEN r[i] ELSE c[i - Len(r)]
    BY <1>2, ConcatProperties
  <2>2. Len(r) \in Nat /\ Len(c) \in Nat
    BY <1>2
  <2>. HIDE DEF s
  <2>3. ASSUME NEW p \in 1 .. Len(r)
        PROVE  s[p] = r[p]
    BY <2>1, <2>2
  <2>4. ASSUME NEW q \in 1 .. Len(c)
        PROVE  s[Len(r) + q] = c[q]
    <3>1. Len(r) + q \in 1 .. Len(r) + Len(c) /\ ~(Len(r) + q <= Len(r)) /\ (Len(r) + q) - Len(r) = q
      BY <2>2
    <3>. QED BY <2>1, <3>1
  <2>. QED BY <2>1, <2>2, <2>3, <2>4
<1>. HIDE DEF s
<1>5. ASSUME NEW p \in 1 .. Len(s), s[p].calls # {}
      PROVE  \E j \in 1 .. k + 1 : Follows(h, s, k + 1, p, j)
  <2>1. CASE p \in 1 .. Len(r)
    <3>1. r[p].calls # {}
      BY <1>4, <1>5, <2>1
    <3>2. PICK j \in 1 .. k : Follows(h, r, k, p, j)
      BY <2>1, <3>1 DEF CallsFollow
    <3>3. IsAssistant(h[j]) /\ Calls(h[j]) = s[p].calls /\ j \in 1 .. k + 1 /\ j # k + 1
      BY <1>4, <2>1, <3>2 DEF Follows
    <3>4. ASSUME h[j + 1].kind = "results"
          PROVE  /\ p + Cardinality(h[j + 1].ids) <= Len(s)
                 /\ \A q \in 1 .. Cardinality(h[j + 1].ids) :
                       s[p + q] = ChatMessagesOf(h[j + 1])[q]
      <4>1. CASE j = k
        <5>1. p = Len(r)
          BY <3>2, <4>1 DEF Follows
        <5>2. Len(c) = Cardinality(h[k + 1].ids)
          BY <1>2, <3>4, <4>1
        <5>. QED BY <1>4, <4>1, <5>1, <5>2 DEF c
      <4>2. CASE j < k
        <5>1. /\ p + Cardinality(h[j + 1].ids) <= Len(r)
              /\ \A q \in 1 .. Cardinality(h[j + 1].ids) :
                    r[p + q] = ChatMessagesOf(h[j + 1])[q]
          BY <3>2, <3>4, <4>2 DEF Follows
        <5>2. Cardinality(h[j + 1].ids) \in Nat
          <6>1. j + 1 \in 1 .. Len(h)
            BY <4>2
          <6>2. h[j + 1] \in FiniteMessages
            BY <6>1
          <6>. QED BY <6>2, FS_CardinalityType DEF FiniteMessages
        <5>3. \A q \in 1 .. Cardinality(h[j + 1].ids) : p + q \in 1 .. Len(r)
          BY <1>4, <2>1, <5>1, <5>2
        <5>4. p + Cardinality(h[j + 1].ids) <= Len(s)
          BY <1>4, <2>1, <5>1, <5>2
        <5>. QED BY <1>4, <5>1, <5>3, <5>4
      <4>. QED BY <4>1, <4>2
    <3>5. Follows(h, s, k + 1, p, j)
      BY <3>3, <3>4 DEF Follows
    <3>. QED BY <3>3, <3>5
  <2>2. CASE p \notin 1 .. Len(r)
    <3>1. PICK q \in 1 .. Len(c) : p = Len(r) + q
      <4>1. p - Len(r) \in 1 .. Len(c) /\ p = Len(r) + (p - Len(r))
        BY <1>4, <2>2
      <4>. QED BY <4>1
    <3>2. s[p] = c[q]
      BY <1>4, <3>1
    <3>3. h[k + 1].kind # "results" /\ Len(c) = 1 /\ q = 1
      BY <1>2, <1>5, <3>1, <3>2
    <3>4. Calls(h[k + 1]) = s[p].calls /\ p = Len(s)
      BY <1>2, <1>4, <3>1, <3>2, <3>3
    <3>5. IsAssistant(h[k + 1])
      BY <1>5, <3>4 DEF Calls
    <3>6. Follows(h, s, k + 1, p, k + 1)
      BY <3>4, <3>5 DEF Follows
    <3>. QED BY <3>6
  <2>. QED BY <2>1, <2>2
<1>6. CallsFollow(h, s, k + 1)
  BY <1>5 DEF CallsFollow
<1>. QED BY <1>6 DEF s, c

LEMMA ChatCallsFollow ==
    ASSUME NEW h \in Seq(FiniteMessages)
    PROVE  ChatMessages(h) \in Seq(SentMessages) /\ CallsFollow(h, ChatMessages(h), Len(h))
<1>. DEFINE s == [i \in DOMAIN h |-> ChatMessagesOf(h[i])]
            N == Len(h)
<1>1. N \in Nat /\ DOMAIN h = 1 .. N /\ \A i \in 1 .. N : h[i] \in FiniteMessages
  OBVIOUS
<1>2. \A i \in 1 .. N : ChatMessagesOf(h[i]) \in Seq(SentMessages)
  BY <1>1, ChatMessagesFacts
<1>3. s \in Seq(Seq(SentMessages)) /\ Len(s) = N /\ \A i \in 1 .. N : s[i] = ChatMessagesOf(h[i])
  <2>. DEFINE T == Seq(SentMessages)
  <2>1. s = [i \in 1 .. N |-> ChatMessagesOf(h[i])]
    BY <1>1
  <2>2. \A i \in 1 .. N : ChatMessagesOf(h[i]) \in T
    BY <1>2
  <2>. HIDE DEF T, s, N
  <2>3. s \in Seq(T) /\ Len(s) = N /\ \A i \in 1 .. N : s[i] = ChatMessagesOf(h[i])
    BY <1>1, <2>1, <2>2
  <2>. QED BY <2>3 DEF T
<1>4. CASE N = 0
  <2>1. ChatMessages(h) = s
    BY <1>3, <1>4 DEF ChatMessages, FlattenSeq
  <2>2. Len(s) = 0 /\ s \in Seq(SentMessages)
    BY <1>3, <1>4
  <2>. HIDE DEF s
  <2>. QED BY <2>1, <2>2 DEF CallsFollow
<1>5. CASE N # 0
  <2>0. s # <<>>
    BY <1>3, <1>5
  <2>. HIDE DEF s, SentMessages
  <2>1. PICK f \in [1 .. Len(s) -> Seq(SentMessages)] :
              /\ f[1] = s[1]
              /\ \A i \in 1 .. Len(s) : i # 1 => f[i] = f[i - 1] \o s[i]
              /\ FlattenSeq(s) = f[Len(s)]
    BY <1>3, <2>0, FlattenFacts
  <2>. DEFINE S == {k \in Nat : k + 1 <= N => CallsFollow(h, f[k + 1], k + 1)}
  <2>2. 0 \in S
    <3>1. CallsFollow(h, <<>>, 0)
      BY DEF CallsFollow
    <3>2. CallsFollow(h, <<>> \o ChatMessagesOf(h[0 + 1]), 0 + 1)
      <4>1. 0 + 1 \in 1 .. Len(h) /\ <<>> \in Seq(SentMessages)
        BY <1>1, <1>5
      <4>. QED BY <3>1, <4>1, FollowsStep
    <3>3. 1 \in 1 .. N /\ 0 + 1 = 1
      BY <1>1, <1>5
    <3>4. <<>> \o ChatMessagesOf(h[1]) = f[1]
      <4>1. ChatMessagesOf(h[1]) \in Seq(SentMessages)
        BY <1>2, <3>3
      <4>2. <<>> \o ChatMessagesOf(h[1]) = ChatMessagesOf(h[1])
        BY <4>1, ConcatEmptySeq
      <4>. QED BY <1>3, <2>1, <3>3, <4>2
    <3>. QED BY <3>2, <3>3, <3>4
  <2>3. ASSUME NEW k \in Nat, k \in S
        PROVE  k + 1 \in S
    <3>. SUFFICES ASSUME (k + 1) + 1 <= N
                  PROVE  CallsFollow(h, f[(k + 1) + 1], (k + 1) + 1)
      OBVIOUS
    <3>1. /\ k + 1 \in 1 .. N /\ (k + 1) + 1 \in 1 .. N /\ (k + 1) + 1 # 1
          /\ ((k + 1) + 1) - 1 = k + 1 /\ k + 1 \in Nat
      BY <1>1
    <3>2. CallsFollow(h, f[k + 1], k + 1) /\ f[k + 1] \in Seq(SentMessages)
      <4>1. k + 1 <= N => CallsFollow(h, f[k + 1], k + 1)
        BY <2>3
      <4>2. k + 1 <= N /\ k + 1 \in 1 .. Len(s)
        BY <1>1, <1>3, <3>1
      <4>3. f[k + 1] \in Seq(SentMessages)
        <5>. DEFINE T == Seq(SentMessages)
        <5>1. f \in [1 .. Len(s) -> T]
          BY <2>1
        <5>. HIDE DEF T
        <5>2. f[k + 1] \in T
          BY <4>2, <5>1
        <5>. QED BY <5>2 DEF T
      <4>. QED BY <4>1, <4>2, <4>3
    <3>3. f[(k + 1) + 1] = f[k + 1] \o ChatMessagesOf(h[(k + 1) + 1])
      BY <1>3, <2>1, <3>1
    <3>. QED BY <3>1, <3>2, <3>3, FollowsStep
  <2>4. CallsFollow(h, f[N], N)
    <3>1. Nat \subseteq S
      <4>. HIDE DEF S
      <4>. QED BY <2>2, <2>3, Induction
    <3>2. N - 1 \in Nat /\ (N - 1) + 1 = N
      BY <1>1, <1>5
    <3>3. N - 1 \in S
      <4>. HIDE DEF S
      <4>. QED BY <3>1, <3>2
    <3>. QED BY <1>1, <3>2, <3>3
  <2>5. ChatMessages(h) = f[N]
    BY <1>3, <2>1 DEF ChatMessages, s
  <2>6. f[N] \in Seq(SentMessages)
    <3>1. N \in 1 .. Len(s)
      BY <1>1, <1>3, <1>5
    <3>. DEFINE T == Seq(SentMessages)
    <3>2. f \in [1 .. Len(s) -> T]
      BY <2>1
    <3>. HIDE DEF T
    <3>3. f[N] \in T
      BY <3>1, <3>2
    <3>. QED BY <3>3 DEF T
  <2>. QED BY <2>4, <2>5, <2>6
<1>. QED BY <1>4, <1>5

LEMMA ChatIsAnswered ==
    ASSUME NEW h \in Seq(FiniteMessages), Paired(h), NEW p \in DOMAIN ChatMessages(h),
           ChatMessages(h)[p].calls # {},
           \A i \in DOMAIN h : h[i] # Message("submission", ChatMessages(h)[p].calls)
    PROVE  AnsweredNext(ChatMessages(h), p, Cardinality(ChatMessages(h)[p].calls))
<1>. DEFINE r == ChatMessages(h)
            N == Len(h)
<1>1. r \in Seq(SentMessages) /\ CallsFollow(h, r, N)
  BY ChatCallsFollow
<1>2. r[p].calls # {} /\ \A i \in DOMAIN h : h[i] # Message("submission", r[p].calls)
  OBVIOUS
<1>. HIDE DEF r
<1>3. p \in 1 .. Len(r) /\ Len(r) \in Nat
  BY <1>1 DEF r
<1>4. PICK j \in 1 .. N : Follows(h, r, N, p, j)
  BY <1>1, <1>2, <1>3 DEF CallsFollow
<1>5. j \in DOMAIN h /\ h[j] \in FiniteMessages /\ IsAssistant(h[j]) /\ Calls(h[j]) = r[p].calls
  BY <1>4 DEF Follows
<1>. DEFINE ids == h[j].ids
            n == Cardinality(ids)
<1>6. h[j].kind # "submission"
  <2>1. Calls(h[j]) = ids
    BY <1>5 DEF Calls
  <2>. QED BY <1>2, <1>5, <2>1, MessageIs
<1>7. Calls(h[j]) = ids /\ j + 1 \in DOMAIN h /\ h[j + 1] = Message("results", ids)
  BY <1>2, <1>5, <1>6, CallsAreAnswered
<1>8. ids \in SUBSET Nat /\ IsFiniteSet(ids) /\ n \in Nat
  BY <1>5, FS_CardinalityType DEF FiniteMessages, Messages
<1>9. h[j + 1].kind = "results" /\ h[j + 1].ids = ids /\ h[j + 1] \in FiniteMessages /\ j < N
  BY <1>7 DEF Message
<1>10. p + n <= Len(r) /\ \A q \in 1 .. n : r[p + q] = ChatMessagesOf(h[j + 1])[q]
  BY <1>4, <1>9 DEF Follows
<1>11. \A q \in 1 .. n : /\ r[p + q].calls = {}
                         /\ r[p + q].answers = {d \in ids : CallsBefore(ids, d) = q - 1}
  <2>. DEFINE m == h[j + 1]
  <2>1. m \in FiniteMessages /\ m.kind = "results" /\ m.ids = ids
    BY <1>9
  <2>. HIDE DEF m, ids
  <2>2. \A q \in 1 .. Cardinality(m.ids) :
           /\ ChatMessagesOf(m)[q].calls = {}
           /\ ChatMessagesOf(m)[q].answers = {d \in m.ids : CallsBefore(m.ids, d) = q - 1}
    BY <2>1, ChatMessagesFacts
  <2>. QED BY <1>10, <2>1, <2>2 DEF m
<1>. HIDE DEF ids, n, N
<1>12. \A k \in p + 1 .. p + n : k - p \in 1 .. n /\ p + (k - p) = k
  BY <1>3, <1>8
<1>13. UNION {r[k].answers : k \in p + 1 .. p + n} = ids
  <2>1. \A k \in p + 1 .. p + n : r[k].answers \subseteq ids
    BY <1>11, <1>12
  <2>2. ASSUME NEW d \in ids
        PROVE  \E k \in p + 1 .. p + n : d \in r[k].answers
    <3>1. CallsBefore(ids, d) + 1 \in 1 .. n
      BY <1>8, CallsBeforeIsSmall DEF n
    <3>. DEFINE q == CallsBefore(ids, d) + 1
    <3>2. CallsBefore(ids, d) = q - 1
      <4>1. IsFiniteSet({e \in ids : e < d})
        BY <1>8, FS_Subset
      <4>2. CallsBefore(ids, d) \in Nat
        BY <4>1, FS_CardinalityType DEF CallsBefore
      <4>. QED BY <4>2
    <3>. HIDE DEF q
    <3>3. q \in 1 .. n /\ p + q \in p + 1 .. p + n
      <4>1. q \in 1 .. n
        BY <3>1 DEF q
      <4>. QED BY <1>3, <1>8, <4>1
    <3>4. d \in r[p + q].answers
      BY <1>11, <3>2, <3>3
    <3>. QED BY <3>3, <3>4
  <2>. QED BY <2>1, <2>2
<1>14. \A k \in p + 1 .. p + n : r[k].calls = {}
  BY <1>11, <1>12
<1>15. AnsweredNext(r, p, n)
  BY <1>5, <1>7, <1>10, <1>13, <1>14 DEF AnsweredNext
<1>. QED BY <1>5, <1>7, <1>15 DEF r, n, ids

\* In every request, to any provider, the calls of a response that does not submit a
\* review are answered by the messages that follow, for Gemini those of the newest calls.
THEOREM CallsReachProvidersAnswered == Spec => []AnswersReachTheProvider
<1>1. ASSUME IInv, stage = "sent", backend = "redis", NEW provider \in Providers,
             NEW i \in DOMAIN Request(provider, messages),
             Request(provider, messages)[i].calls # {},
             ~Submitted(Request(provider, messages)[i].calls)
      PROVE  LET r == Request(provider, messages) IN
             \/ AnsweredNext(r, i, ResultMessages(provider, r[i].calls))
             \/ provider = "google" /\ \E j \in i + 1 .. Len(r) : r[j].calls # {}
  <2>1. messages \in Seq(FiniteMessages) /\ Paired(messages)
    BY <1>1, TypeFacts DEF IInv, HistoriesArePaired
  <2>2. \A k \in DOMAIN messages : messages[k] # Message("submission", Request(provider, messages)[i].calls)
    BY <1>1 DEF Submitted
  <2>3. CASE provider = "anthropic"
    <3>. DEFINE r == AnthropicMessages(messages)
    <3>1. Request(provider, messages) = r
      BY <2>3 DEF Request
    <3>2. i \in DOMAIN messages /\ r[i].calls = Calls(messages[i])
      BY <1>1, <3>1 DEF AnthropicMessages, Sent
    <3>3. Calls(messages[i]) # {} /\ messages[i].kind # "submission"
      <4>1. Calls(messages[i]) # {} /\ messages[i] # Message("submission", Calls(messages[i]))
        BY <1>1, <2>2, <3>1, <3>2
      <4>2. messages[i] \in FiniteMessages
        BY <2>1, <3>2
      <4>. QED BY <4>1, <4>2, MessageIs DEF Calls
    <3>4. AnsweredNext(r, i, 1)
      BY <2>1, <3>2, <3>3, AnthropicIsAnswered
    <3>. QED BY <2>3, <3>1, <3>4 DEF ResultMessages
  <2>4. CASE provider = "google"
    <3>. DEFINE r == GeminiContents(messages)
    <3>1. Request(provider, messages) = r
      BY <2>4 DEF Request
    <3>2. DOMAIN r = DOMAIN messages /\ \A k \in DOMAIN messages : r[k].calls = Calls(messages[k])
      BY DEF GeminiContents, Sent
    <3>3. i \in DOMAIN messages
      BY <1>1, <3>1, <3>2
    <3>4. Calls(messages[i]) # {} /\ messages[i].kind # "submission"
      <4>1. Calls(messages[i]) # {} /\ messages[i] # Message("submission", Calls(messages[i]))
        BY <1>1, <2>2, <3>1, <3>2, <3>3
      <4>2. messages[i] \in FiniteMessages
        BY <2>1, <3>3
      <4>. QED BY <4>1, <4>2, MessageIs DEF Calls
    <3>. HIDE DEF r
    <3>5. Len(r) = Len(messages) /\ \A j \in i + 1 .. Len(messages) : j \in DOMAIN messages
      <4>1. DOMAIN messages = 1 .. Len(messages) /\ Len(messages) \in Nat /\ i \in Nat /\ i >= 1
        BY <2>1, <3>3
      <4>2. Len(r) = Len(messages)
        BY <3>2, <4>1 DEF r, GeminiContents
      <4>. QED BY <4>1, <4>2
    <3>6. CASE \A j \in i + 1 .. Len(messages) : Calls(messages[j]) = {}
      <4>1. AnsweredNext(r, i, 1)
        BY <2>1, <3>3, <3>4, <3>6, GeminiIsAnswered DEF r
      <4>. QED BY <2>4, <3>1, <4>1 DEF ResultMessages
    <3>7. CASE \E j \in i + 1 .. Len(messages) : Calls(messages[j]) # {}
      BY <2>4, <3>1, <3>2, <3>5, <3>7
    <3>. QED BY <3>6, <3>7
  <2>5. CASE provider \notin {"anthropic", "google"}
    <3>. DEFINE r == ChatMessages(messages)
    <3>1. Request(provider, messages) = r
      BY <2>5 DEF Request
    <3>2. AnsweredNext(r, i, Cardinality(r[i].calls))
      BY <1>1, <2>1, <2>2, <3>1, ChatIsAnswered
    <3>. QED BY <2>5, <3>1, <3>2 DEF ResultMessages
  <2>. QED BY <2>3, <2>4, <2>5
<1>2. IInv => AnswersReachTheProvider
  BY <1>1 DEF AnswersReachTheProvider
<1>. QED BY <1>2, Invariance, PTL

-----------------------------------------------------------------------------
(* The sub-agents.                                                         *)

\* With sub-agents, reviews are still the reviews of ReviewConversation.
THEOREM ReviewsAreTheSame == ConversationSpec => Spec
<1>1. ConversationInit => Init
  BY DEF ConversationInit
<1>2. [ConversationNext]_conversationVars => [Next]_vars
  <2>. SUFFICES ASSUME [ConversationNext]_conversationVars
                PROVE  [Next]_vars
    OBVIOUS
  <2>1. CASE ConversationNext
    <3>1. CASE BeginWithAgents
      BY <3>1 DEF BeginWithAgents, Next
    <3>2. CASE ReviewingWithAgents
      BY <3>2 DEF ReviewingWithAgents, RespondAndStart, DispatchAll, FailRun, Alone, Next, Reviewing
    <3>3. CASE Forget
      BY <3>3 DEF Next
    <3>4. CASE \E c \in DOMAIN agents : AgentStep(c)
      BY <3>4 DEF AgentStep, AgentAnswered, AgentRequestFails, AgentGoesOn
    <3>. QED BY <2>1, <3>1, <3>2, <3>3, <3>4 DEF ConversationNext
  <2>2. CASE UNCHANGED conversationVars
    BY <2>2 DEF conversationVars
  <2>. QED BY <2>1, <2>2
<1>. QED BY <1>1, <1>2, PTL DEF ConversationSpec, Spec

Agents == [review : 0 .. reviews, stage : AgentStages, requests : Nat]

\* A sub-agent of the current review has its call under dispatch, or the run has failed.
AgentsAreOurs ==
    /\ DOMAIN agents \subseteq 1 .. lastId
    /\ \A c \in DOMAIN agents :
          /\ agents[c] \in Agents
          /\ agents[c].review = reviews => c \in calls \/ result = "error"

\* A function of which a part is kept.
LEMMA RestrictFacts ==
    ASSUME NEW f, NEW S \in SUBSET (DOMAIN f)
    PROVE  DOMAIN Restrict(f, S) = S /\ \A c \in S : Restrict(f, S)[c] = f[c]
  BY DEF Restrict

\* A step of a sub-agent is its own and leaves its review as it is.
LEMMA AgentStepFacts ==
    ASSUME IInv, AgentsAreOurs, NEW c \in DOMAIN agents, AgentStep(c)
    PROVE  /\ UNCHANGED vars
           /\ DOMAIN agents' = DOMAIN agents
           /\ agents'[c] \in Agents /\ agents'[c].review = agents[c].review
           /\ \A d \in DOMAIN agents : d # c => agents'[d] = agents[d]
<1>1. agents[c] \in Agents
  BY DEF AgentsAreOurs
<1>2. ASSUME NEW s \in AgentStages, Advance(c, s)
      PROVE  /\ DOMAIN agents' = DOMAIN agents
             /\ agents'[c] \in Agents /\ agents'[c].review = agents[c].review
             /\ agents'[c].stage = s
             /\ \A d \in DOMAIN agents : d # c => agents'[d] = agents[d]
  BY <1>1, <1>2 DEF Advance, Agents
<1>3. CASE AgentAnswered(c)
  <2>1. PICK s \in {"tools", "ended", "raised"} :
           agents' = [agents EXCEPT ![c].stage = s, ![c].requests = @ + 1]
    BY <1>3 DEF AgentAnswered
  <2>. QED BY <1>1, <1>3, <2>1 DEF AgentAnswered, Agents, AgentStages
<1>4. CASE AgentRequestFails(c)
  BY <1>2, <1>4 DEF AgentRequestFails, AgentEnds, AgentStages
<1>5. CASE AgentGoesOn(c)
  <2>1. CASE agents[c].requests >= AgentTurns
    BY <1>2, <1>5, <2>1 DEF AgentGoesOn, AgentEnds, AgentStages
  <2>2. CASE ~(agents[c].requests >= AgentTurns)
    BY <1>2, <1>5, <2>2 DEF AgentGoesOn, AgentStages
  <2>. QED BY <2>1, <2>2
<1>. QED BY <1>3, <1>4, <1>5 DEF AgentStep

\* New sub-agents belong to calls that did not exist before.
LEMMA StartFacts ==
    ASSUME IInv, AgentsAreOurs, RespondAndStart
    PROVE  /\ stage = "sent" /\ calls = {} /\ result = "none" /\ UNCHANGED reviews
           /\ lastId' \in Nat /\ lastId <= lastId' /\ calls' \subseteq lastId + 1 .. lastId'
           /\ \E cs \in SUBSET calls' :
                /\ DOMAIN agents' = cs \cup DOMAIN agents
                /\ \A c \in cs : agents'[c] \in Agents
                /\ \A c \in DOMAIN agents : c \notin cs /\ agents'[c] = agents[c]
<1>1. ProviderResponds /\ lastId \in Nat /\ reviews \in Nat
  BY TypeFacts DEF RespondAndStart
<1>2. stage = "sent" /\ calls = {} /\ result = "none" /\ UNCHANGED reviews
  BY <1>1 DEF ProviderResponds, IInv, TypeOK, TurnsAreCounted
<1>3. lastId' \in Nat /\ lastId <= lastId' /\ calls' \subseteq lastId + 1 .. lastId'
  <2>1. PICK n \in 0 .. MaxCalls : lastId' = lastId + n /\ (calls' = lastId + 1 .. lastId + n \/ calls' = calls)
    BY <1>1 DEF ProviderResponds
  <2>. QED BY <1>1, <1>2, <2>1, SizesAssumption
<1>4. PICK cs \in SUBSET (IF mode = "main" THEN calls' \ calls ELSE {}) : StartAgents(cs)
  BY DEF RespondAndStart
<1>5. cs \in SUBSET calls'
  BY <1>4
<1>6. PICK begun \in [cs -> {"sent", "refused", "raised"}] :
        agents' = [c \in cs \cup DOMAIN agents |->
                      IF c \in cs THEN [review |-> reviews, stage |-> begun[c], requests |-> 0]
                                  ELSE agents[c]]
  BY <1>4 DEF StartAgents
<1>7. \A c \in cs : agents'[c] \in Agents
  BY <1>1, <1>6 DEF Agents, AgentStages
<1>8. \A c \in DOMAIN agents : c \notin cs
  BY <1>1, <1>3, <1>5 DEF AgentsAreOurs
<1>. QED BY <1>2, <1>3, <1>5, <1>6, <1>7, <1>8

LEMMA AgentsPreserved ==
    ASSUME IInv, AgentsAreOurs, [ConversationNext]_conversationVars
    PROVE  AgentsAreOurs'
<1>0. lastId \in Nat /\ reviews \in Nat
  BY TypeFacts
<1>1. CASE BeginWithAgents
  <2>1. reviews' = reviews + 1 /\ UNCHANGED lastId
    BY <1>1 DEF BeginWithAgents, BeginReview
  <2>2. /\ DOMAIN agents' \subseteq DOMAIN agents
        /\ \A c \in DOMAIN agents' : agents'[c] = agents[c]
    BY <1>1, RestrictFacts DEF BeginWithAgents
  <2>3. Agents \subseteq Agents' /\ \A c \in DOMAIN agents : agents[c].review # reviews'
    BY <1>0, <2>1 DEF AgentsAreOurs, Agents
  <2>. QED BY <2>1, <2>2, <2>3 DEF AgentsAreOurs
<1>2. CASE RespondAndStart
  <2>1. PICK cs \in SUBSET calls' :
           /\ DOMAIN agents' = cs \cup DOMAIN agents
           /\ \A c \in cs : agents'[c] \in Agents
           /\ \A c \in DOMAIN agents : c \notin cs /\ agents'[c] = agents[c]
    BY <1>2, StartFacts
  <2>2. /\ calls = {} /\ result = "none" /\ UNCHANGED reviews
        /\ lastId' \in Nat /\ lastId <= lastId' /\ calls' \subseteq lastId + 1 .. lastId'
    BY <1>2, StartFacts
  <2>3. Agents' = Agents /\ \A c \in DOMAIN agents : agents[c].review # reviews
    BY <2>2 DEF AgentsAreOurs, Agents
  <2>4. DOMAIN agents' \subseteq 1 .. lastId'
    <3>1. lastId + 1 .. lastId' \subseteq 1 .. lastId' /\ 1 .. lastId \subseteq 1 .. lastId'
      BY <1>0, <2>2
    <3>2. DOMAIN agents \subseteq 1 .. lastId /\ cs \subseteq lastId + 1 .. lastId'
      BY <2>2 DEF AgentsAreOurs
    <3>. QED BY <2>1, <3>1, <3>2
  <2>. QED BY <2>1, <2>2, <2>3, <2>4 DEF AgentsAreOurs
<1>3. CASE DispatchAll
  <2>1. DispatchTools /\ stage = "tools" /\ result = "none" /\ UNCHANGED <<reviews, lastId>>
    BY <1>3 DEF DispatchAll, DispatchTools, IInv, TurnsAreCounted
  <2>2. /\ DOMAIN agents' = DOMAIN agents \ Accounted
        /\ \A c \in DOMAIN agents' : agents'[c] = agents[c]
    BY <1>3, RestrictFacts DEF DispatchAll
  <2>3. \A c \in DOMAIN agents' : agents'[c].review # reviews
    <3>. SUFFICES ASSUME NEW c \in DOMAIN agents', agents'[c].review = reviews
                  PROVE  FALSE
      OBVIOUS
    <3>1. c \in Tasks
      BY <2>1, <2>2 DEF AgentsAreOurs, Tasks
    <3>2. c \in Accounted
      BY <1>3, <3>1 DEF DispatchAll, AllAreOver, Accounted
    <3>. QED BY <2>2, <3>2
  <2>4. Agents' = Agents
    BY <2>1 DEF Agents
  <2>. QED BY <2>1, <2>2, <2>3, <2>4 DEF AgentsAreOurs
<1>4. CASE FailRun
  <2>1. UNCHANGED <<reviews, lastId, agents>> /\ result' = "error"
    BY <1>4 DEF FailRun, RunFails
  <2>. QED BY <2>1 DEF AgentsAreOurs, Agents
<1>5. CASE Alone
  <2>1. UNCHANGED <<reviews, lastId, agents, calls>>
    BY <1>5 DEF Alone, SendTurn, BeginFallback, Save, SkipSave, ReviewEnds
  <2>2. result = "error" => result' = "error"
    BY <1>5 DEF Alone, SendTurn, BeginFallback, Save, SkipSave, ReviewEnds
  <2>. QED BY <2>1, <2>2 DEF AgentsAreOurs, Agents
<1>6. CASE Forget /\ UNCHANGED agents
  BY <1>6 DEF Forget, runVars, AgentsAreOurs, Agents
<1>7. ASSUME NEW c \in DOMAIN agents, AgentStep(c)
      PROVE  AgentsAreOurs'
  <2>1. UNCHANGED <<reviews, lastId, calls, result>>
    BY <1>7, AgentStepFacts DEF vars, runVars
  <2>2. Agents' = Agents
    BY <2>1 DEF Agents
  <2>. QED BY <1>7, <2>1, <2>2, AgentStepFacts DEF AgentsAreOurs
<1>8. CASE UNCHANGED conversationVars
  BY <1>8 DEF conversationVars, vars, runVars, AgentsAreOurs, Agents
<1>. QED
  BY <1>1, <1>2, <1>3, <1>4, <1>5, <1>6, <1>7, <1>8 DEF ConversationNext, ReviewingWithAgents

LEMMA AgentsInvariance == ConversationSpec => [](IInv /\ AgentsAreOurs)
<1>1. ConversationInit => AgentsAreOurs
  BY DEF ConversationInit, AgentsAreOurs
<1>2. IInv /\ AgentsAreOurs /\ [ConversationNext]_conversationVars => AgentsAreOurs'
  BY AgentsPreserved
<1>3. ConversationSpec => []IInv
  BY ReviewsAreTheSame, Invariance, PTL
<1>. QED BY <1>1, <1>2, <1>3, PTL DEF ConversationSpec

\* Only a run that failed leaves sub-agents running.
THEOREM OnlyFailuresLeave == ConversationSpec => []OnlyFailuresLeaveAgents
<1>1. AgentsAreOurs => OnlyFailuresLeaveAgents
  BY DEF AgentsAreOurs, OnlyFailuresLeaveAgents
<1>. QED BY <1>1, AgentsInvariance, PTL

\* A main run that did not fail has the cost of each of its sub-agents in its result.
THEOREM CostsAreReported == ConversationSpec => []CostsAreComplete
<1>1. IInv /\ AgentsAreOurs => CostsAreComplete
  BY DEF IInv, TypeOK, AgentsAreOurs, CostsAreComplete
<1>. QED BY <1>1, AgentsInvariance, PTL
=============================================================================

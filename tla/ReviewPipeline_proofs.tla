------------------------- MODULE ReviewPipeline_proofs -------------------------
(***************************************************************************)
(* Proofs about the way of a webhook and of a review to the pull request,  *)
(* for every set of jobs, files and patches, of outputs of the agent, of   *)
(* webhooks and policies, and any number of posts whose answers get lost.  *)
(***************************************************************************)
EXTENDS WebhookDispatch, DiffLines_proofs, TLAPS

Quiet == {"starting", "preparing", "invoking", "repairing"}
ReviewKinds == {"review", "summary", "inline", "fallback"}
ErrorKinds == {"no_branch", "error"}

\* A job that failed shows posts of a review only if their posting was interrupted.
FailedKinds == ErrorKinds \cup (IF "posting" \in interrupted THEN ReviewKinds ELSE {})

\* Which posts a stage makes, and which it may find on the pull request.
PostsFitTheStage ==
    /\ at \in Quiet => thread = <<>>
    /\ at = "declining" =>
          /\ \A i \in DOMAIN thread : thread[i].kind = "no_branch"
          /\ \A i \in DOMAIN outbox : outbox[i].kind = "no_branch"
    /\ at = "apologising" =>
          /\ job.runner = "process"
          /\ \A i \in DOMAIN thread : thread[i].kind \in FailedKinds
          /\ \A i \in DOMAIN outbox : outbox[i].kind = "error"
    /\ at \in {"failed", "crashed"} =>
          \A i \in DOMAIN thread : thread[i].kind \in FailedKinds
    /\ "posting" \in interrupted => at \in {"apologising", "failed", "crashed"}
    /\ at \in {"posting", "succeeded"} =>
          /\ \A i \in DOMAIN thread : thread[i].kind \in ReviewKinds
          /\ \A i \in DOMAIN outbox : outbox[i].kind \in ReviewKinds \cup {"versions"}
          /\ ~Posted(review) => thread = <<>> /\ outbox = <<>>

\* Only the posts of a review carry findings to lines.
PlainPostsArePlain ==
    \A i \in DOMAIN outbox : outbox[i].kind \notin {"review", "inline"} => outbox[i].inline = {}

\* As long as no post failed that the platform could have carried out, something is
\* shown, or still to come that does not need another post before it.
SilenceIsExcused ==
    /\ PostsAreServed =>
          /\ at = "posting" /\ Posted(review) =>
                \/ thread # <<>>
                \/ outbox # <<>> /\ outbox[1].kind \in {"review", "summary", "fallback"}
          /\ at = "succeeded" /\ Posted(review) => thread # <<>>
    /\ ErrorIsServed =>
          /\ at = "apologising" => thread # <<>> \/ outbox # <<>>
          /\ at \in {"failed", "crashed"} /\ job.runner = "process" => thread # <<>>

IInv == TypeOK /\ PostsFitTheStage /\ PlainPostsArePlain /\ SilenceIsExcused

\* Two posts that may both be shown, whatever the platform does.
Differ(p, q) == p # q /\ {p.kind, q.kind} # {"review", "summary"}

\* Two posts that both may be shown, given the posts whose answers were lost.
Explained(answers, p, q) ==
    /\ p = q => p \in answers
    /\ p.kind = "review" /\ q.kind = "summary" => p \in answers
    /\ q.kind = "review" /\ p.kind = "summary" => q \in answers

\* Posts to come differ, those shown are explained, by themselves and with those to
\* come; a request for a review is the only one to make, and the only one shown.
PostsDiffer ==
    /\ \A i, j \in DOMAIN thread : i # j => Explained(lost, thread[i], thread[j])
    /\ \A i, j \in DOMAIN outbox : i # j => Differ(outbox[i], outbox[j])
    /\ \A i \in DOMAIN thread, j \in DOMAIN outbox : Explained(lost, thread[i], outbox[j])
    /\ \A i \in DOMAIN outbox : outbox[i].kind = "review" =>
          DOMAIN outbox = {1} /\ \A j \in DOMAIN thread : thread[j] = outbox[1]

\* fetched is a part of the pull request's files.
FetchedFilesAreTheJobs ==
    \A p \in DOMAIN fetched : p \in DOMAIN job.files /\ fetched[p] = job.files[p]

\* A post of findings in the ways they are to be shown.
Fits(p) ==
    /\ p.inline \subseteq ValidFindings(review, fetched)
    /\ p.notes \subseteq review \ ValidFindings(review, fetched)

InlineIsUnderWay(f) ==
    \/ InlineIsUnserved(f)
    \/ \E i \in DOMAIN thread : f \in thread[i].inline
    \/ \E i \in DOMAIN outbox : f \in outbox[i].inline

NoteIsUnderWay(f) ==
    \/ NoteIsUnserved(f)
    \/ \E i \in DOMAIN thread : f \in thread[i].notes
    \/ \E i \in DOMAIN outbox : f \in outbox[i].notes

\* Every finding is shown, to come, or was in a request that failed.  The text comes
\* first, so that what fails later does not take it along.
ReviewIsUnderWay ==
    at \in {"posting", "succeeded"} /\ review # NoReview /\ ~job.dry =>
        /\ \A i \in DOMAIN thread : Fits(thread[i])
        /\ \A i \in DOMAIN outbox :
              /\ Fits(outbox[i])
              /\ outbox[i].notes # {} => i = 1 /\ outbox[i].kind \in {"review", "summary"}
        /\ \A f \in ValidFindings(review, fetched) : InlineIsUnderWay(f)
        /\ \A f \in review \ ValidFindings(review, fetched) : NoteIsUnderWay(f)

-----------------------------------------------------------------------------
(* Sequences.                                                              *)

LEMMA TailFacts ==
    ASSUME NEW T, NEW s \in Seq(T), s # <<>>
    PROVE  /\ Head(s) \in T /\ Tail(s) \in Seq(T)
           /\ 1 \in DOMAIN s /\ Head(s) = s[1]
           /\ \A i \in DOMAIN Tail(s) : i + 1 \in DOMAIN s /\ i + 1 # 1 /\ Tail(s)[i] = s[i + 1]
           /\ \A i \in DOMAIN s : i # 1 => i - 1 \in DOMAIN Tail(s) /\ s[i] = Tail(s)[i - 1]
  OBVIOUS

LEMMA AppendFacts ==
    ASSUME NEW T, NEW s \in Seq(T), NEW e \in T
    PROVE  /\ Append(s, e) \in Seq(T)
           /\ Append(s, e) # <<>>
           /\ DOMAIN Append(s, e) = DOMAIN s \cup {Len(s) + 1}
           /\ Len(s) + 1 \notin DOMAIN s
           /\ Append(s, e)[Len(s) + 1] = e
           /\ \A i \in DOMAIN s : Append(s, e)[i] = s[i]
  OBVIOUS

LEMMA SingletonFacts ==
    ASSUME NEW T, NEW e \in T
    PROVE  <<e>> \in Seq(T) /\ DOMAIN <<e>> = {1} /\ <<e>>[1] = e /\ <<e>> # <<>>
  OBVIOUS

LEMMA PairFacts ==
    ASSUME NEW T, NEW a \in T, NEW b \in T, NEW s \in Seq(T)
    PROVE  /\ <<a, b>> \o s \in Seq(T)
           /\ <<a, b>> \o s # <<>>
           /\ 1 \in DOMAIN (<<a, b>> \o s) /\ (<<a, b>> \o s)[1] = a
           /\ 2 \in DOMAIN (<<a, b>> \o s) /\ (<<a, b>> \o s)[2] = b
           /\ \A i \in DOMAIN (<<a, b>> \o s) :
                i \notin {1, 2} => i - 2 \in DOMAIN s /\ (<<a, b>> \o s)[i] = s[i - 2]
           /\ \A i \in DOMAIN s :
                i + 2 \in DOMAIN (<<a, b>> \o s) /\ (<<a, b>> \o s)[i + 2] = s[i]
  OBVIOUS

\* A finite set as a sequence: each element once.
LEMMA SetToSeqFacts ==
    ASSUME NEW S, IsFiniteSet(S)
    PROVE  /\ SetToSeq(S) \in Seq(S)
           /\ \A i, j \in DOMAIN SetToSeq(S) : i # j => SetToSeq(S)[i] # SetToSeq(S)[j]
           /\ \A e \in S : \E i \in DOMAIN SetToSeq(S) : SetToSeq(S)[i] = e
<1>. DEFINE n == Cardinality(S)
<1>1. n \in Nat /\ ExistsBijection(1 .. n, S)
  BY FS_CardinalityType
<1>2. \E f \in [1 .. n -> S] : IsInjective(f)
  <2>1. PICK f : f \in Bijection(1 .. n, S)
    BY <1>1 DEF ExistsBijection
  <2>2. f \in [1 .. n -> S] /\ IsInjective(f)
    BY <2>1 DEF Bijection, Injection, IsInjective
  <2>. QED BY <2>2
<1>3. SetToSeq(S) \in [1 .. n -> S] /\ IsInjective(SetToSeq(S))
  BY <1>2 DEF SetToSeq
<1>4. SetToSeq(S) \in Injection(1 .. n, S)
  BY <1>3 DEF Injection, IsInjective
<1>5. Cardinality(1 .. n) = n
  BY <1>1, FS_Interval
<1>6. SetToSeq(S) \in Surjection(1 .. n, S)
  <2>. HIDE DEF n
  <2>1. Cardinality(1 .. n) = Cardinality(S)
    BY <1>5 DEF n
  <2>. QED BY <1>4, <2>1, FS_Injection
<1>. HIDE DEF n
<1>. QED BY <1>1, <1>3, <1>6 DEF Surjection, IsInjective

-----------------------------------------------------------------------------
(* The posts of a review.                                                  *)

\* The discussions of GitLab, one for each finding.
Discussions(findings) == {Post("inline", {f}, {}) : f \in findings}

LEMMA DiscussionsAreFinite ==
    ASSUME NEW findings, IsFiniteSet(findings)
    PROVE  IsFiniteSet(Discussions(findings))
<1>. DEFINE post == [f \in findings |-> Post("inline", {f}, {})]
<1>1. post \in Surjection(findings, Discussions(findings))
  BY DEF Surjection, Discussions
<1>. QED BY <1>1, FS_Surjection

LEMMA PostTypes ==
    ASSUME NEW kind \in Kind \cup {"versions"}, NEW inline \in SUBSET Finding,
           NEW notes \in SUBSET Finding
    PROVE  /\ Post(kind, inline, notes) \in Posts
           /\ Post(kind, inline, notes).kind = kind
           /\ Post(kind, inline, notes).inline = inline
           /\ Post(kind, inline, notes).notes = notes
  BY DEF Post, Posts

\* What post_review_result() is about to do with review r.
PostsAreRight(r, s) ==
    LET valid == ValidFindings(r, fetched) IN
    /\ s \in Seq(Posts)
    /\ s # <<>>
    /\ s[1].kind \in {"review", "summary", "fallback"}
    /\ \A i \in DOMAIN s :
          /\ s[i].kind \in ReviewKinds \cup {"versions"}
          /\ s[i].kind \notin {"review", "inline"} => s[i].inline = {}
          /\ s[i].kind = "review" => DOMAIN s = {1}
    /\ \A i, j \in DOMAIN s : i # j => Differ(s[i], s[j])
    /\ r # NoReview =>
          /\ \A i \in DOMAIN s :
                /\ s[i].inline \subseteq valid /\ s[i].notes \subseteq r \ valid
                /\ s[i].notes # {} => i = 1 /\ s[i].kind \in {"review", "summary"}
          /\ \A f \in valid : \E i \in DOMAIN s : f \in s[i].inline
          /\ \A f \in r \ valid : \E i \in DOMAIN s : f \in s[i].notes

LEMMA SinglePostIsRight ==
    ASSUME NEW r, NEW p \in Posts, p.kind \in {"review", "summary", "fallback"},
           p.kind # "review" => p.inline = {},
           r # NoReview => /\ p.inline = ValidFindings(r, fetched)
                           /\ p.notes = r \ ValidFindings(r, fetched)
                           /\ p.kind # "fallback"
    PROVE  PostsAreRight(r, <<p>>)
<1>. DEFINE valid == ValidFindings(r, fetched)
<1>1. /\ <<p>> \in Seq(Posts) /\ <<p>> # <<>> /\ DOMAIN <<p>> = {1} /\ <<p>>[1] = p
  BY SingletonFacts
<1>2. p.kind \in ReviewKinds /\ p.kind # "versions"
  BY DEF ReviewKinds
<1>. HIDE DEF valid
<1>. QED BY <1>1, <1>2 DEF PostsAreRight, valid

LEMMA GitLabPostsAreRight ==
    ASSUME NEW r, r # NoReview, r \subseteq Finding, IsFiniteSet(r), job.host # "github"
    PROVE  PostsAreRight(r, SubmitReview(ValidFindings(r, fetched), r \ ValidFindings(r, fetched)))
<1>. DEFINE valid == ValidFindings(r, fetched)
            rest == r \ valid
            head == Post("summary", {}, rest)
            versions == Plain("versions")
            tail == SetToSeq(Discussions(valid))
            s == <<head, versions>> \o tail
<1>1. valid \subseteq r
  BY DEF ValidFindings
<1>2. IsFiniteSet(Discussions(valid))
  BY <1>1, FS_Subset, DiscussionsAreFinite
<1>3. /\ tail \in Seq(Discussions(valid))
      /\ \A i, j \in DOMAIN tail : i # j => tail[i] # tail[j]
      /\ \A e \in Discussions(valid) : \E i \in DOMAIN tail : tail[i] = e
  BY <1>2, SetToSeqFacts
<1>4. \A f \in valid : /\ Post("inline", {f}, {}) \in Posts
                       /\ Post("inline", {f}, {}).kind = "inline"
                       /\ Post("inline", {f}, {}).inline = {f}
                       /\ Post("inline", {f}, {}).notes = {}
  BY <1>1, PostTypes DEF Kind
<1>5. /\ head \in Posts /\ head.kind = "summary" /\ head.inline = {} /\ head.notes = rest
      /\ versions \in Posts /\ versions.kind = "versions"
      /\ versions.inline = {} /\ versions.notes = {}
  BY <1>1, PostTypes DEF Kind, Plain
<1>6. SubmitReview(valid, rest) = s
  BY DEF SubmitReview, Discussions
<1>. HIDE DEF head, versions, tail, valid
<1>7. \A i \in DOMAIN tail : \E f \in valid : tail[i] = Post("inline", {f}, {})
  <2>1. \A i \in DOMAIN tail : tail[i] \in Discussions(valid)
    BY <1>3
  <2>. QED BY <2>1 DEF Discussions
<1>8. tail \in Seq(Posts)
  <2>1. ASSUME NEW e \in Discussions(valid)
        PROVE  e \in Posts
    <3>1. PICK f \in valid : e = Post("inline", {f}, {})
      BY DEF Discussions
    <3>. QED BY <1>4, <3>1
  <2>. QED BY <1>3, <2>1
<1>9. /\ s \in Seq(Posts) /\ s # <<>>
      /\ 1 \in DOMAIN s /\ s[1] = head /\ 2 \in DOMAIN s /\ s[2] = versions
      /\ \A i \in DOMAIN s : i \notin {1, 2} => i - 2 \in DOMAIN tail /\ s[i] = tail[i - 2]
      /\ \A i \in DOMAIN tail : i + 2 \in DOMAIN s /\ s[i + 2] = tail[i]
  BY <1>5, <1>8, PairFacts
<1>. HIDE DEF s
<1>10. \A i \in DOMAIN s : i \notin {1, 2} =>
         \E f \in valid : s[i].kind = "inline" /\ s[i].inline = {f} /\ s[i].notes = {}
  <2> SUFFICES ASSUME NEW i \in DOMAIN s, i \notin {1, 2}
               PROVE  \E f \in valid : s[i].kind = "inline" /\ s[i].inline = {f} /\ s[i].notes = {}
    OBVIOUS
  <2>1. i - 2 \in DOMAIN tail /\ s[i] = tail[i - 2]
    BY <1>9
  <2>2. PICK f \in valid : tail[i - 2] = Post("inline", {f}, {})
    BY <1>7, <2>1
  <2>. QED BY <1>4, <2>1, <2>2
<1>11. \A i \in DOMAIN s :
          /\ s[i].kind \in ReviewKinds \cup {"versions"}
          /\ s[i].kind \notin {"review", "inline"} => s[i].inline = {}
          /\ s[i].kind # "review"
          /\ s[i].inline \subseteq valid /\ s[i].notes \subseteq rest
          /\ s[i].notes # {} => i = 1 /\ s[i].kind \in {"review", "summary"}
  BY <1>5, <1>9, <1>10 DEF ReviewKinds
<1>12. \A i, j \in DOMAIN s : i # j => Differ(s[i], s[j])
  <2> SUFFICES ASSUME NEW i \in DOMAIN s, NEW j \in DOMAIN s, i # j
               PROVE  s[i] # s[j] /\ s[i].kind # "review" /\ s[j].kind # "review"
    BY DEF Differ
  <2>1. \A k \in DOMAIN s : s[k].kind = IF k = 1 THEN "summary" ELSE IF k = 2 THEN "versions"
                                                                       ELSE "inline"
    BY <1>5, <1>9, <1>10
  <2>2. CASE i \in {1, 2} \/ j \in {1, 2}
    BY <2>1, <2>2
  <2>3. CASE i \notin {1, 2} /\ j \notin {1, 2}
    <3>1. i - 2 # j - 2
      <4>1. i \in Nat /\ j \in Nat
        BY <1>9
      <4>. QED BY <4>1
    <3>2. i - 2 \in DOMAIN tail /\ s[i] = tail[i - 2] /\ j - 2 \in DOMAIN tail /\ s[j] = tail[j - 2]
      BY <1>9, <2>3
    <3>3. s[i].kind # "review" /\ s[j].kind # "review"
      BY <2>1
    <3>. QED BY <1>3, <3>1, <3>2, <3>3
  <2>. QED BY <2>2, <2>3
<1>13. \A f \in valid : \E i \in DOMAIN s : f \in s[i].inline
  <2> SUFFICES ASSUME NEW f \in valid
               PROVE  \E i \in DOMAIN s : f \in s[i].inline
    OBVIOUS
  <2>1. Post("inline", {f}, {}) \in Discussions(valid)
    BY DEF Discussions
  <2>2. PICK i \in DOMAIN tail : tail[i] = Post("inline", {f}, {})
    BY <1>3, <2>1
  <2>3. i + 2 \in DOMAIN s /\ s[i + 2] = Post("inline", {f}, {})
    BY <1>9, <2>2
  <2>. QED BY <1>4, <2>3
<1>14. \A f \in rest : \E i \in DOMAIN s : f \in s[i].notes
  BY <1>5, <1>9
<1>15. s[1].kind \in {"review", "summary", "fallback"}
  BY <1>5, <1>9
<1>. QED BY <1>6, <1>9, <1>11, <1>12, <1>13, <1>14, <1>15 DEF PostsAreRight, valid

LEMMA PostsForIsRight ==
    ASSUME NEW r, r = NoReview \/ (r \subseteq Finding /\ IsFiniteSet(r))
    PROVE  PostsAreRight(r, PostsFor(r))
<1>. DEFINE valid == ValidFindings(r, fetched)
<1>1. CASE r = NoReview
  <2>1. /\ Plain("fallback") \in Posts /\ Plain("fallback").kind = "fallback"
        /\ Plain("fallback").inline = {}
    BY PostTypes DEF Plain, Kind
  <2>2. PostsFor(r) = <<Plain("fallback")>>
    BY <1>1 DEF PostsFor
  <2>. QED BY <1>1, <2>1, <2>2, SinglePostIsRight
<1>2. CASE r # NoReview /\ valid = {}
  <2>1. /\ Post("summary", {}, r) \in Posts /\ Post("summary", {}, r).kind = "summary"
        /\ Post("summary", {}, r).inline = {} /\ Post("summary", {}, r).notes = r
    BY <1>2, PostTypes DEF Kind
  <2>2. PostsFor(r) = <<Post("summary", {}, r)>>
    BY <1>2 DEF PostsFor
  <2>. QED BY <1>2, <2>1, <2>2, SinglePostIsRight
<1>3. CASE r # NoReview /\ valid # {}
  <2>1. PostsFor(r) = SubmitReview(valid, r \ valid)
    BY <1>3 DEF PostsFor
  <2>2. CASE job.host = "github"
    <3>. DEFINE p == Post("review", valid, r \ valid)
    <3>1. valid \subseteq Finding
      BY <1>3 DEF ValidFindings
    <3>2. p \in Posts /\ p.kind = "review" /\ p.inline = valid /\ p.notes = r \ valid
      BY <1>3, <3>1, PostTypes DEF Kind
    <3>3. PostsFor(r) = <<p>>
      BY <2>1, <2>2 DEF SubmitReview
    <3>. QED BY <3>2, <3>3, SinglePostIsRight
  <2>3. CASE job.host # "github"
    BY <1>3, <2>1, <2>3, GitLabPostsAreRight
  <2>. QED BY <2>2, <2>3
<1>. QED BY <1>1, <1>2, <1>3

-----------------------------------------------------------------------------
(* The invariant, before the first request.                                *)

LEMMA PlainTypes ==
    ASSUME NEW kind \in Kind \cup {"versions"}
    PROVE  /\ <<Plain(kind)>> \in Seq(Posts) /\ <<Plain(kind)>> # <<>>
           /\ DOMAIN <<Plain(kind)>> = {1}
           /\ <<Plain(kind)>>[1].kind = kind /\ <<Plain(kind)>>[1].inline = {}
<1>1. Plain(kind) \in Posts /\ Plain(kind).kind = kind /\ Plain(kind).inline = {}
  BY PostTypes DEF Plain
<1>. QED BY <1>1, SingletonFacts

LEMMA InitIInv == Init => IInv
<1>. SUFFICES ASSUME Init
              PROVE  IInv
  OBVIOUS
<1>1. <<>> \in Seq(Posts) /\ 0 \in 0 .. MAX_REPAIRS - 1
      /\ 1 \in 1 .. TRANSIENT_MAX_RETRIES
  BY DEF MAX_REPAIRS, TRANSIENT_MAX_RETRIES
<1>2. TypeOK
  <2>1. DOMAIN fetched \subseteq DOMAIN job.files \ Ignored
    <3>1. DOMAIN <<>> = {}
      OBVIOUS
    <3>2. fetched = <<>>
      BY DEF Init
    <3>. QED BY <3>1, <3>2
  <2>. QED BY <1>1, <2>1 DEF Init, TypeOK
<1>3. PostsFitTheStage /\ PlainPostsArePlain /\ SilenceIsExcused
  BY DEF IInv, Init, PostsFitTheStage, FailedKinds, ErrorKinds, PlainPostsArePlain,
         SilenceIsExcused, Quiet
<1>. QED BY <1>2, <1>3 DEF IInv

\* An exception before anything was posted.
LEMMA EarlyRaisePreserves ==
    ASSUME IInv, at \in Quiet, Raise, repairs' \in 0 .. MAX_REPAIRS - 1,
           DOMAIN fetched' \subseteq DOMAIN job.files \ Ignored,
           UNCHANGED <<job, review, tries, thread, lost, unserved, interrupted>>
    PROVE  IInv'
<1>1. CASE job.runner = "process"
  <2>1. at' = "apologising" /\ outbox' = <<Plain("error")>>
    BY <1>1 DEF Raise
  <2>2. /\ outbox' \in Seq(Posts) /\ outbox' # <<>> /\ DOMAIN outbox' = {1}
        /\ outbox'[1].kind = "error" /\ outbox'[1].inline = {}
    BY <2>1, PlainTypes DEF Kind
  <2>3. thread = <<>>
    BY DEF IInv, PostsFitTheStage
  <2>4. TypeOK'
    BY <2>1, <2>2 DEF IInv, TypeOK
  <2>5. PostsFitTheStage'
    BY <1>1, <2>1, <2>2, <2>3 DEF IInv, PostsFitTheStage, FailedKinds, ErrorKinds, Quiet
  <2>6. PlainPostsArePlain' /\ SilenceIsExcused'
    BY <2>1, <2>2 DEF PlainPostsArePlain, SilenceIsExcused
  <2>. QED BY <2>4, <2>5, <2>6 DEF IInv
<1>2. CASE job.runner # "process"
  <2>1. at' = "failed" /\ outbox' = <<>> /\ thread' = <<>>
    BY <1>2 DEF Raise, IInv, PostsFitTheStage
  <2>2. TypeOK'
    BY <2>1 DEF IInv, TypeOK
  <2>3. PostsFitTheStage' /\ PlainPostsArePlain' /\ SilenceIsExcused'
    BY <1>2, <2>1
    DEF IInv, PostsFitTheStage, FailedKinds, PlainPostsArePlain, SilenceIsExcused, Quiet
  <2>. QED BY <2>2, <2>3 DEF IInv
<1>. QED BY <1>1, <1>2

\* A stage without posts follows another.
LEMMA QuietStepPreserves ==
    ASSUME IInv, at \in Quiet,
           \/ at' \in Quiet
           \/ at' \in {"failed", "crashed"} /\ job.runner # "process",
           outbox' = outbox, repairs' \in 0 .. MAX_REPAIRS - 1,
           DOMAIN fetched' \subseteq DOMAIN job.files \ Ignored,
           UNCHANGED <<job, review, tries, thread, lost, unserved, interrupted>>
    PROVE  IInv'
<1>1. thread' = <<>> /\ outbox' = <<>>
  BY DEF IInv, TypeOK, PostsFitTheStage, FailedKinds, ErrorKinds, Quiet
<1>2. TypeOK'
  BY <1>1 DEF IInv, TypeOK, Quiet
<1>3. PostsFitTheStage' /\ PlainPostsArePlain' /\ SilenceIsExcused'
  BY <1>1 DEF IInv, PostsFitTheStage, FailedKinds, PlainPostsArePlain, SilenceIsExcused, Quiet
<1>. QED BY <1>2, <1>3 DEF IInv

LEMMA StartPreserves ==
    ASSUME IInv, Start
    PROVE  IInv'
<1>1. /\ at = "starting" /\ at \in Quiet
      /\ UNCHANGED <<job, fetched, repairs, review, tries, thread, lost, unserved, interrupted>>
      /\ repairs' \in 0 .. MAX_REPAIRS - 1
      /\ DOMAIN fetched' \subseteq DOMAIN job.files \ Ignored
  BY DEF Start, IInv, TypeOK, Quiet
<1>2. CASE Prepared \/ (Failed /\ job.runner # "process")
           \/ (at' = "crashed" /\ outbox' = outbox /\ job.runner = "cli")
  <2>1. outbox' = outbox /\ \/ at' \in Quiet
                            \/ at' \in {"failed", "crashed"} /\ job.runner # "process"
    BY <1>2 DEF Prepared, Failed, Quiet
  <2>. QED BY <1>1, <2>1, QuietStepPreserves
<1>3. CASE Raise
  BY <1>1, <1>3, EarlyRaisePreserves
<1>4. CASE at' = "declining" /\ outbox' = <<Plain("no_branch")>>
  <2>1. /\ outbox' \in Seq(Posts) /\ outbox' # <<>> /\ DOMAIN outbox' = {1}
        /\ outbox'[1].kind = "no_branch" /\ outbox'[1].inline = {}
    BY <1>4, PlainTypes DEF Kind
  <2>2. thread' = <<>> /\ "posting" \notin interrupted'
    BY <1>1 DEF IInv, PostsFitTheStage
  <2>3. TypeOK'
    BY <1>1, <1>4, <2>1 DEF IInv, TypeOK
  <2>4. PostsFitTheStage' /\ PlainPostsArePlain' /\ SilenceIsExcused'
    BY <1>4, <2>1, <2>2 DEF PostsFitTheStage, PlainPostsArePlain, SilenceIsExcused, Quiet
  <2>. QED BY <2>3, <2>4 DEF IInv
<1>5. Prepared \/ (Failed /\ job.runner # "process") \/ Raise
      \/ (at' = "crashed" /\ outbox' = outbox /\ job.runner = "cli")
      \/ (at' = "declining" /\ outbox' = <<Plain("no_branch")>>)
  <2>1. CASE StartJob
    BY <2>1 DEF StartJob
  <2>2. CASE StartCi
    BY <2>2 DEF StartCi
  <2>3. CASE StartCli
    BY <2>3 DEF StartCli
  <2>. QED BY <2>1, <2>2, <2>3 DEF Start
<1>. QED BY <1>2, <1>3, <1>4, <1>5

LEMMA PreparePreserves ==
    ASSUME IInv, Prepare
    PROVE  IInv'
<1>1. /\ at = "preparing" /\ at \in Quiet
      /\ UNCHANGED <<job, repairs, review, tries, thread, lost, unserved, interrupted>>
      /\ repairs' \in 0 .. MAX_REPAIRS - 1
  BY DEF Prepare, IInv, TypeOK, Quiet
<1>2. CASE \E paths \in FetchedPaths :
             /\ fetched' = FilterChangedFiles([p \in paths |-> job.files[p]], Ignored)
             /\ IF DOMAIN fetched' # {}
                THEN at' = "invoking" /\ UNCHANGED outbox
                ELSE Raise
  <2>1. DOMAIN fetched' \subseteq DOMAIN job.files \ Ignored
    BY <1>2 DEF FilterChangedFiles, FetchedPaths
  <2>2. CASE at' = "invoking" /\ UNCHANGED outbox
    BY <1>1, <2>1, <2>2, QuietStepPreserves DEF Quiet
  <2>3. CASE Raise
    BY <1>1, <2>1, <2>3, EarlyRaisePreserves
  <2>. QED BY <1>2, <2>2, <2>3
<1>3. CASE Raise /\ UNCHANGED fetched
  <2>1. DOMAIN fetched' \subseteq DOMAIN job.files \ Ignored
    BY <1>3 DEF IInv, TypeOK
  <2>. QED BY <1>1, <1>3, <2>1, EarlyRaisePreserves
<1>. QED BY <1>2, <1>3 DEF Prepare

\* An output that can be used is a finite set of comments.
LEMMA ParsedOutputs ==
    ASSUME NEW output \in AgentOutputs
    PROVE  LET r == ParseReviewOutput(output) IN
           \/ r = NoReview
           \/ r \subseteq Finding /\ IsFiniteSet(r) /\ \A c \in r : WellFormed(c)
<1>1. CASE output # NotJson /\ \A c \in output : WellFormed(c)
  <2>1. output \in Outputs \ {NotJson}
    BY <1>1 DEF AgentOutputs
  <2>2. IsFiniteSet(output) /\ output \subseteq Finding
    BY <2>1, OutputsAssumption DEF Finding
  <2>. QED BY <1>1, <2>2 DEF ParseReviewOutput
<1>2. CASE ~(output # NotJson /\ \A c \in output : WellFormed(c))
  BY <1>2 DEF ParseReviewOutput
<1>. QED BY <1>1, <1>2

LEMMA PostReviewResultPreserves ==
    ASSUME IInv, at \in Quiet, NEW r, PostReviewResult(r),
           r = NoReview \/ (r \subseteq Finding /\ IsFiniteSet(r)),
           UNCHANGED <<job, fetched, tries, thread, lost, unserved, interrupted>>
    PROVE  IInv'
<1>1. /\ at' = "posting" /\ review' = r /\ repairs' = 0
      /\ outbox' = IF Posted(r) THEN PostsFor(r) ELSE <<>>
      /\ thread' = <<>>
  BY DEF PostReviewResult, IInv, PostsFitTheStage
<1>2. Posted(review)' <=> Posted(r)
  BY <1>1 DEF Posted
<1>3. CASE Posted(r)
  <2>1. PostsAreRight(r, outbox')
    BY <1>1, <1>3, PostsForIsRight
  <2>2. TypeOK'
    BY <1>1, <2>1 DEF IInv, TypeOK, PostsAreRight, MAX_REPAIRS
  <2>3. PostsFitTheStage' /\ PlainPostsArePlain' /\ SilenceIsExcused'
    BY <1>1, <1>2, <1>3, <2>1
    DEF IInv, PostsAreRight, PostsFitTheStage, FailedKinds, ErrorKinds, PlainPostsArePlain,
        SilenceIsExcused, Quiet
  <2>. QED BY <2>2, <2>3 DEF IInv
<1>4. CASE ~Posted(r)
  <2>1. outbox' = <<>> /\ <<>> \in Seq(Posts) /\ 0 \in 0 .. MAX_REPAIRS - 1
    BY <1>1, <1>4 DEF MAX_REPAIRS
  <2>2. TypeOK'
    BY <1>1, <2>1 DEF IInv, TypeOK
  <2>3. PostsFitTheStage' /\ PlainPostsArePlain' /\ SilenceIsExcused'
    BY <1>1, <1>2, <1>4, <2>1
    DEF IInv, PostsFitTheStage, FailedKinds, PlainPostsArePlain, SilenceIsExcused, Quiet
  <2>. QED BY <2>2, <2>3 DEF IInv
<1>. QED BY <1>3, <1>4

LEMMA ReviewingPreserves ==
    ASSUME IInv, Invoke \/ Repair
    PROVE  IInv'
<1>1. /\ at \in Quiet /\ UNCHANGED <<job, fetched, tries, thread, lost, unserved, interrupted>>
      /\ DOMAIN fetched' \subseteq DOMAIN job.files \ Ignored
  BY DEF Invoke, Repair, Quiet, IInv, TypeOK
<1>2. \/ \E output \in AgentOutputs : PostReviewResult(ParseReviewOutput(output))
      \/ at' = "repairing" /\ UNCHANGED <<repairs, review, outbox>>
      \/ at' = at /\ repairs' = repairs + 1 /\ repairs + 1 < MAX_REPAIRS /\ UNCHANGED <<review, outbox>>
      \/ Raise /\ repairs' \in {0, repairs} /\ UNCHANGED review
  BY DEF Invoke, Repair
<1>3. CASE \E output \in AgentOutputs : PostReviewResult(ParseReviewOutput(output))
  <2>1. PICK output \in AgentOutputs : PostReviewResult(ParseReviewOutput(output))
    BY <1>3
  <2>2. LET r == ParseReviewOutput(output) IN r = NoReview \/ (r \subseteq Finding /\ IsFiniteSet(r))
    BY ParsedOutputs
  <2>. QED BY <1>1, <2>1, <2>2, PostReviewResultPreserves
<1>4. CASE at' = "repairing" /\ UNCHANGED <<repairs, review, outbox>>
  <2>1. repairs' \in 0 .. MAX_REPAIRS - 1 /\ at' \in Quiet
    BY <1>4 DEF IInv, TypeOK, Quiet
  <2>. QED BY <1>1, <1>4, <2>1, QuietStepPreserves
<1>5. CASE at' = at /\ repairs' = repairs + 1 /\ repairs + 1 < MAX_REPAIRS /\ UNCHANGED <<review, outbox>>
  <2>1. repairs' \in 0 .. MAX_REPAIRS - 1
    BY <1>5 DEF IInv, TypeOK, MAX_REPAIRS
  <2>. QED BY <1>1, <1>5, <2>1, QuietStepPreserves
<1>6. CASE Raise /\ repairs' \in {0, repairs} /\ UNCHANGED review
  <2>1. repairs' \in 0 .. MAX_REPAIRS - 1
    BY <1>6 DEF IInv, TypeOK, MAX_REPAIRS
  <2>. QED BY <1>1, <1>6, <2>1, EarlyRaisePreserves
<1>. QED BY <1>2, <1>3, <1>4, <1>5, <1>6

-----------------------------------------------------------------------------
(* The invariant, from the first request.                                  *)

\* A request ends, fails or is repeated.
RequestStep == Done \/ NoVersions \/ Fails \/ Retry

\* What a request does to the posts, whatever its outcome.
LEMMA RequestFacts ==
    ASSUME TypeOK, RequestStep
    PROVE  /\ outbox # <<>> /\ 1 \in DOMAIN outbox /\ outbox[1] \in Posts /\ Request = outbox[1]
           /\ UNCHANGED <<job, at, fetched, repairs, review, interrupted>>
           /\ \/ thread' = thread
              \/ thread' = Append(thread, outbox[1]) /\ outbox[1].kind # "versions"
           /\ \/ outbox' \in {outbox, Tail(outbox), <<>>}
              \/ /\ outbox[1].kind = "review"
                 /\ outbox' = <<Post("summary", {}, outbox[1].notes)>>
           /\ tries' \in 1 .. TRANSIENT_MAX_RETRIES
           /\ unserved' \subseteq Posts /\ unserved \subseteq unserved'
           /\ lost' \subseteq Posts /\ lost \subseteq lost'
<1>1. /\ outbox # <<>> /\ outbox \in Seq(Posts)
      /\ UNCHANGED <<job, at, fetched, repairs, review, interrupted>>
  BY DEF TypeOK, RequestStep, Done, NoVersions, Fails, Retry
<1>2. 1 \in DOMAIN outbox /\ outbox[1] \in Posts /\ Request = outbox[1]
  BY <1>1, TailFacts DEF Request
<1>3. Effect(outbox[1]) =>
        \/ thread' = thread
        \/ thread' = Append(thread, outbox[1]) /\ outbox[1].kind # "versions"
  BY DEF Effect
<1>4. 1 \in 1 .. TRANSIENT_MAX_RETRIES /\ unserved \subseteq Posts /\ lost \subseteq Posts
  BY DEF TypeOK, TRANSIENT_MAX_RETRIES
<1>5. CASE Done
  BY <1>1, <1>2, <1>3, <1>4, <1>5 DEF Done
<1>6. CASE NoVersions
  BY <1>1, <1>2, <1>4, <1>6 DEF NoVersions
<1>7. ASSUME NoAnswer(outbox[1])
      PROVE  /\ \/ thread' = thread
                \/ thread' = Append(thread, outbox[1]) /\ outbox[1].kind # "versions"
             /\ lost' \subseteq Posts /\ lost \subseteq lost'
  BY <1>2, <1>3, <1>4, <1>7 DEF NoAnswer
<1>8. CASE Fails
  <2>1. \/ outbox' \in {Tail(outbox), <<>>}
        \/ outbox[1].kind = "review" /\ outbox' = <<Post("summary", {}, outbox[1].notes)>>
    BY <1>2, <1>8 DEF Fails, OutboxAfterError
  <2>2. unserved' \subseteq Posts /\ unserved \subseteq unserved'
    BY <1>2, <1>4, <1>8 DEF Fails
  <2>. QED BY <1>1, <1>2, <1>4, <1>7, <1>8, <2>1, <2>2 DEF Fails
<1>9. CASE Retry
  <2>1. tries' \in 1 .. TRANSIENT_MAX_RETRIES
    BY <1>9 DEF Retry, TypeOK, TRANSIENT_MAX_RETRIES
  <2>. QED BY <1>1, <1>2, <1>4, <1>7, <1>9, <2>1 DEF Retry
<1>. QED BY <1>5, <1>6, <1>8, <1>9 DEF RequestStep

\* Each post shown was shown before or is the request's, and each post to come was to
\* come before, or is what GitHub gets instead of the review.
LEMMA RequestMovesPosts ==
    ASSUME TypeOK, RequestStep
    PROVE  /\ thread' \in Seq(Posts) /\ outbox' \in Seq(Posts)
           /\ thread # <<>> => thread' # <<>>
           /\ \A i \in DOMAIN thread' :
                \/ i \in DOMAIN thread /\ thread'[i] = thread[i]
                \/ thread'[i] = outbox[1] /\ outbox[1].kind # "versions"
           /\ \A i \in DOMAIN outbox' :
                \/ \E j \in DOMAIN outbox : outbox'[i] = outbox[j]
                \/ outbox[1].kind = "review" /\ outbox'[i].kind = "summary" /\ outbox'[i].inline = {}
<1>1. /\ outbox # <<>> /\ 1 \in DOMAIN outbox /\ outbox[1] \in Posts
      /\ outbox \in Seq(Posts) /\ thread \in Seq(Posts)
  BY RequestFacts DEF TypeOK
<1>2. /\ thread' \in Seq(Posts) /\ (thread # <<>> => thread' # <<>>)
      /\ \A i \in DOMAIN thread' :
            \/ i \in DOMAIN thread /\ thread'[i] = thread[i]
            \/ thread'[i] = outbox[1] /\ outbox[1].kind # "versions"
  <2>1. CASE thread' = thread
    BY <1>1, <2>1
  <2>2. CASE thread' = Append(thread, outbox[1]) /\ outbox[1].kind # "versions"
    BY <1>1, <2>2, AppendFacts
  <2>. QED BY <2>1, <2>2, RequestFacts
<1>3. /\ outbox' \in Seq(Posts)
      /\ \A i \in DOMAIN outbox' :
            \/ \E j \in DOMAIN outbox : outbox'[i] = outbox[j]
            \/ outbox[1].kind = "review" /\ outbox'[i].kind = "summary" /\ outbox'[i].inline = {}
  <2>0. CASE outbox' = <<>>
    BY <1>1, <2>0
  <2>1. CASE outbox' = outbox
    BY <1>1, <2>1
  <2>2. CASE outbox' = Tail(outbox)
    BY <1>1, <2>2, TailFacts
  <2>3. CASE outbox[1].kind = "review" /\ outbox' = <<Post("summary", {}, outbox[1].notes)>>
    <3>1. outbox[1].notes \in SUBSET Finding
      BY <1>1 DEF Posts
    <3>. DEFINE p == Post("summary", {}, outbox[1].notes)
    <3>2. p \in Posts /\ p.kind = "summary" /\ p.inline = {}
      BY <3>1, PostTypes DEF Kind
    <3>. HIDE DEF p
    <3>3. outbox' = <<p>>
      BY <2>3 DEF p
    <3>. QED BY <2>3, <3>2, <3>3, SingletonFacts
  <2>. QED BY <2>0, <2>1, <2>2, <2>3, RequestFacts
<1>. QED BY <1>2, <1>3

LEMMA RequestPreserves ==
    ASSUME IInv, RequestStep
    PROVE  IInv'
<1>. DEFINE p == outbox[1]
<1>0. TypeOK
  BY DEF IInv
<1>1. /\ outbox # <<>> /\ 1 \in DOMAIN outbox /\ p \in Posts /\ Request = p
      /\ UNCHANGED <<job, at, fetched, repairs, review, interrupted>>
      /\ at \in {"declining", "posting", "apologising"}
  BY <1>0, RequestFacts DEF TypeOK
<1>2. TypeOK'
  BY <1>0, <1>1, RequestFacts, RequestMovesPosts DEF TypeOK
<1>3. PostsFitTheStage'
  <2>1. Posted(review)' <=> Posted(review)
    BY <1>1 DEF Posted
  <2>2. at = "posting" => Posted(review)
    BY <1>1 DEF IInv, PostsFitTheStage
  <2>3. \A i \in DOMAIN thread' :
           \/ i \in DOMAIN thread /\ thread'[i] = thread[i]
           \/ thread'[i] = p /\ p.kind # "versions"
    BY <1>0, RequestMovesPosts
  <2>4. \A i \in DOMAIN outbox' :
           \/ \E j \in DOMAIN outbox : outbox'[i] = outbox[j]
           \/ p.kind = "review" /\ outbox'[i].kind = "summary"
    BY <1>0, RequestMovesPosts
  <2>. HIDE DEF p
  <2>. DEFINE cut == "posting" \in interrupted
  <2>0. cut' = cut /\ (cut => at = "apologising")
    BY <1>1 DEF IInv, PostsFitTheStage
  <2>5. CASE at = "declining"
    <3>1. p.kind = "no_branch" /\ \A i \in DOMAIN thread : thread[i].kind = "no_branch"
      BY <1>1, <2>5 DEF IInv, PostsFitTheStage, p
    <3>2. \A i \in DOMAIN outbox : outbox[i].kind = "no_branch"
      BY <2>5 DEF IInv, PostsFitTheStage
    <3>3. /\ \A i \in DOMAIN thread' : thread'[i].kind = "no_branch"
          /\ \A i \in DOMAIN outbox' : outbox'[i].kind = "no_branch"
      BY <2>3, <2>4, <3>1, <3>2
    <3>. QED BY <1>1, <2>0, <2>5, <3>3 DEF PostsFitTheStage, Quiet
  <2>6. CASE at = "apologising"
    <3>1. p.kind = "error" /\ job.runner = "process"
      BY <1>1, <2>6 DEF IInv, PostsFitTheStage, p
    <3>2. /\ \A i \in DOMAIN outbox : outbox[i].kind = "error"
          /\ \A i \in DOMAIN thread : thread[i].kind \in FailedKinds
          /\ "error" \in FailedKinds
      BY <2>6 DEF IInv, PostsFitTheStage, FailedKinds, ErrorKinds
    <3>3. /\ \A i \in DOMAIN thread' : thread'[i].kind \in FailedKinds
          /\ \A i \in DOMAIN outbox' : outbox'[i].kind = "error"
      BY <2>3, <2>4, <3>1, <3>2
    <3>4. FailedKinds' = FailedKinds
      BY <2>0 DEF FailedKinds
    <3>. QED BY <1>1, <2>6, <3>1, <3>3, <3>4 DEF PostsFitTheStage, Quiet
  <2>7. CASE at = "posting"
    <3>1. p.kind \in ReviewKinds \cup {"versions"}
      BY <1>1, <2>7 DEF IInv, PostsFitTheStage, p
    <3>2. /\ \A i \in DOMAIN outbox : outbox[i].kind \in ReviewKinds \cup {"versions"}
          /\ \A i \in DOMAIN thread : thread[i].kind \in ReviewKinds
      BY <2>7 DEF IInv, PostsFitTheStage
    <3>3. /\ \A i \in DOMAIN thread' : thread'[i].kind \in ReviewKinds
          /\ \A i \in DOMAIN outbox' : outbox'[i].kind \in ReviewKinds \cup {"versions"}
      BY <2>3, <2>4, <3>1, <3>2 DEF ReviewKinds
    <3>. QED BY <1>1, <2>0, <2>1, <2>2, <2>7, <3>3 DEF PostsFitTheStage, Quiet
  <2>. QED BY <1>1, <2>5, <2>6, <2>7
<1>4. PlainPostsArePlain'
  BY <1>0, RequestMovesPosts DEF IInv, PlainPostsArePlain
<1>5. SilenceIsExcused'
  <2>1. PostsAreServed' => PostsAreServed
    BY <1>0, RequestFacts DEF PostsAreServed
  <2>2. thread # <<>> => thread' # <<>>
    BY <1>0, RequestMovesPosts
  <2>3. PostsAreServed /\ at = "posting" /\ Posted(review) =>
          thread # <<>> \/ p.kind \in {"review", "summary", "fallback"}
    BY DEF IInv, SilenceIsExcused
  <2>4. at = "apologising" => p.kind = "error"
    BY <1>1 DEF IInv, PostsFitTheStage
  <2>. SUFFICES ASSUME PostsAreServed'
                PROVE  /\ at = "posting" /\ Posted(review) =>
                            \/ thread' # <<>>
                            \/ /\ outbox' # <<>>
                               /\ outbox'[1].kind \in {"review", "summary", "fallback"}
                       /\ at = "apologising" => thread' # <<>> \/ outbox' # <<>>
    BY <1>1 DEF SilenceIsExcused, Posted, ErrorIsServed
  <2>5. CASE Done
    <3>1. p.kind # "versions" => thread' # <<>>
      BY <1>0, <1>1, <2>5, AppendFacts DEF Done, Effect, TypeOK
    <3>. HIDE DEF p
    <3>. QED BY <2>1, <2>2, <2>3, <2>4, <3>1
  <2>6. CASE NoVersions
    <3>1. p.kind = "versions"
      BY <1>1, <2>6 DEF NoVersions
    <3>. HIDE DEF p
    <3>. QED BY <2>1, <2>2, <2>3, <2>4, <3>1
  <2>7. CASE Fails
    <3>1. ~Acceptable(p) \/ p.kind = "versions"
      BY <1>1, <2>7 DEF Fails, PostsAreServed
    <3>2. p.kind \in {"review", "inline", "versions"}
      BY <1>1, <3>1 DEF Acceptable, IInv, PlainPostsArePlain
    <3>3. p.kind = "review" => outbox' = <<Post("summary", {}, p.notes)>>
      BY <1>1, <2>7 DEF Fails, OutboxAfterError
    <3>4. Post("summary", {}, p.notes).kind = "summary"
      BY DEF Post
    <3>. HIDE DEF p
    <3>. QED BY <2>1, <2>2, <2>3, <2>4, <3>2, <3>3, <3>4
  <2>8. CASE Retry
    <3>1. outbox' = outbox
      BY <2>8 DEF Retry
    <3>. QED BY <1>1, <2>1, <2>2, <2>3, <3>1
  <2>. QED BY <2>5, <2>6, <2>7, <2>8 DEF RequestStep
<1>. QED BY <1>2, <1>3, <1>4, <1>5 DEF IInv

\* Where an exception that is no HTTPError leads.
LEMMA EscapeFacts ==
    ASSUME TypeOK, PostsFitTheStage, Escapes
    PROVE  /\ outbox # <<>> /\ at \in {"declining", "posting", "apologising"}
           /\ UNCHANGED <<job, fetched, repairs, review, thread, lost, unserved>>
           /\ interrupted' = interrupted \cup {at}
           /\ \/ at = "apologising" /\ at' = "apologising" /\ outbox' = <<>>
              \/ /\ at # "apologising" /\ job.runner = "process"
                 /\ at' = "apologising" /\ outbox' = <<Plain("error")>>
              \/ /\ at # "apologising" /\ job.runner # "process"
                 /\ at' \in {"failed", "crashed"} /\ outbox' = <<>>
           /\ tries' \in 1 .. TRANSIENT_MAX_RETRIES
<1>1. /\ outbox # <<>> /\ at \in {"declining", "posting", "apologising"}
      /\ UNCHANGED <<job, fetched, repairs, review, thread, lost, unserved>>
      /\ interrupted' = interrupted \cup {at} /\ tries' = 1
  BY DEF Escapes, TypeOK
<1>2. Raise => \/ job.runner = "process" /\ at' = "apologising" /\ outbox' = <<Plain("error")>>
               \/ job.runner # "process" /\ at' = "failed" /\ outbox' = <<>>
  BY DEF Raise
<1>3. 1 \in 1 .. TRANSIENT_MAX_RETRIES
  BY DEF TRANSIENT_MAX_RETRIES
<1>. QED BY <1>1, <1>2, <1>3 DEF Escapes

LEMMA EscapesPreserves ==
    ASSUME IInv, Escapes
    PROVE  IInv'
<1>1. /\ outbox # <<>> /\ at \in {"declining", "posting", "apologising"}
      /\ UNCHANGED <<job, fetched, repairs, review, thread, lost, unserved>>
      /\ interrupted' = interrupted \cup {at}
      /\ \/ at = "apologising" /\ at' = "apologising" /\ outbox' = <<>>
         \/ /\ at # "apologising" /\ job.runner = "process"
            /\ at' = "apologising" /\ outbox' = <<Plain("error")>>
         \/ /\ at # "apologising" /\ job.runner # "process"
            /\ at' \in {"failed", "crashed"} /\ outbox' = <<>>
      /\ tries' \in 1 .. TRANSIENT_MAX_RETRIES
  BY EscapeFacts DEF IInv
<1>2. /\ outbox' \in Seq(Posts)
      /\ \A i \in DOMAIN outbox' : outbox'[i].kind = "error" /\ outbox'[i].inline = {}
      /\ outbox' = <<Plain("error")>> => outbox' # <<>>
  <2>1. CASE outbox' = <<>>
    <3>1. DOMAIN <<>> = {} /\ <<>> \in Seq(Posts)
      OBVIOUS
    <3>2. <<Plain("error")>> # <<>>
      BY PlainTypes DEF Kind
    <3>. QED BY <2>1, <3>1, <3>2
  <2>2. CASE outbox' = <<Plain("error")>>
    BY <2>2, PlainTypes DEF Kind
  <2>. QED BY <1>1, <2>1, <2>2
<1>3. TypeOK'
  BY <1>1, <1>2 DEF IInv, TypeOK
<1>4. \A i \in DOMAIN thread : thread[i].kind \in FailedKinds'
  <2>1. \A i \in DOMAIN thread :
          thread[i].kind \in (IF at = "posting" THEN ReviewKinds ELSE FailedKinds)
    BY <1>1 DEF IInv, PostsFitTheStage, FailedKinds, ErrorKinds
  <2>. QED BY <1>1, <2>1 DEF FailedKinds
<1>5. PostsFitTheStage'
  <2>1. at = "apologising" => job.runner = "process"
    BY DEF IInv, PostsFitTheStage
  <2>. QED BY <1>1, <1>2, <1>4, <2>1 DEF IInv, PostsFitTheStage, FailedKinds, ErrorKinds, Quiet
<1>6. PlainPostsArePlain'
  BY <1>2 DEF PlainPostsArePlain
<1>7. SilenceIsExcused'
  <2>1. CASE at = "apologising"
    <3>1. ~ErrorIsServed'
      BY <1>1, <2>1 DEF ErrorIsServed
    <3>. QED BY <1>1, <2>1, <3>1 DEF SilenceIsExcused
  <2>2. CASE at # "apologising"
    BY <1>1, <1>2, <2>2 DEF SilenceIsExcused
  <2>. QED BY <2>1, <2>2
<1>. QED BY <1>3, <1>5, <1>6, <1>7 DEF IInv

LEMMA ReturnPreserves ==
    ASSUME IInv, Return
    PROVE  IInv'
<1>1. /\ outbox = <<>>
      /\ UNCHANGED <<job, fetched, repairs, review, tries, thread, lost, unserved, interrupted>>
  BY DEF Return
<1>2. Posted(review)' <=> Posted(review)
  BY <1>1 DEF Posted
<1>3. CASE at = "posting" /\ at' = "succeeded" /\ UNCHANGED outbox
  <2>1. TypeOK'
    BY <1>1, <1>3 DEF IInv, TypeOK
  <2>2. /\ \A i \in DOMAIN thread' : thread'[i].kind \in ReviewKinds
        /\ ~Posted(review)' => thread' = <<>>
        /\ "posting" \notin interrupted'
    BY <1>1, <1>2, <1>3 DEF IInv, PostsFitTheStage
  <2>3. PostsAreServed' => (Posted(review)' => thread' # <<>>)
    BY <1>1, <1>2, <1>3 DEF IInv, SilenceIsExcused, PostsAreServed
  <2>4. outbox' = <<>> /\ DOMAIN outbox' = {}
    BY <1>1, <1>3
  <2>5. PostsFitTheStage' /\ PlainPostsArePlain' /\ SilenceIsExcused'
    BY <1>3, <2>2, <2>3, <2>4 DEF PostsFitTheStage, PlainPostsArePlain, SilenceIsExcused, Quiet
  <2>. QED BY <2>1, <2>5 DEF IInv
<1>4. CASE at = "declining" /\ Raise /\ job.runner = "process"
  <2>1. at' = "apologising" /\ outbox' = <<Plain("error")>>
    BY <1>4 DEF Raise
  <2>2. /\ outbox' \in Seq(Posts) /\ outbox' # <<>> /\ DOMAIN outbox' = {1}
        /\ outbox'[1].kind = "error" /\ outbox'[1].inline = {}
    BY <2>1, PlainTypes DEF Kind
  <2>3. TypeOK'
    BY <1>1, <2>1, <2>2 DEF IInv, TypeOK
  <2>4. PostsFitTheStage'
    BY <1>1, <1>4, <2>1, <2>2 DEF IInv, PostsFitTheStage, FailedKinds, ErrorKinds, Quiet
  <2>5. PlainPostsArePlain' /\ SilenceIsExcused'
    BY <2>1, <2>2 DEF PlainPostsArePlain, SilenceIsExcused
  <2>. QED BY <2>3, <2>4, <2>5 DEF IInv
<1>5. CASE at = "declining" /\ Raise /\ job.runner # "process"
  <2>1. at' = "failed" /\ outbox' = <<>>
    BY <1>5 DEF Raise
  <2>2. TypeOK'
    BY <1>1, <2>1 DEF IInv, TypeOK
  <2>3. \A i \in DOMAIN thread' : thread'[i].kind \in FailedKinds'
    BY <1>1, <1>5 DEF IInv, PostsFitTheStage, FailedKinds, ErrorKinds
  <2>4. "posting" \notin interrupted'
    BY <1>1, <1>5 DEF IInv, PostsFitTheStage
  <2>5. DOMAIN outbox' = {} /\ job'.runner # "process"
    BY <1>1, <1>5, <2>1
  <2>6. PostsFitTheStage' /\ PlainPostsArePlain' /\ SilenceIsExcused'
    BY <2>1, <2>3, <2>4, <2>5 DEF PostsFitTheStage, PlainPostsArePlain, SilenceIsExcused, Quiet
  <2>. QED BY <2>2, <2>6 DEF IInv
<1>6. CASE at = "apologising" /\ at' = "failed" /\ UNCHANGED outbox
  <2>1. TypeOK'
    BY <1>1, <1>6 DEF IInv, TypeOK
  <2>2. \A i \in DOMAIN thread' : thread'[i].kind \in FailedKinds'
    BY <1>1, <1>6 DEF IInv, PostsFitTheStage, FailedKinds
  <2>3. ErrorIsServed' => thread' # <<>>
    BY <1>1, <1>6 DEF IInv, SilenceIsExcused, ErrorIsServed, PostsAreServed
  <2>4. DOMAIN outbox' = {}
    BY <1>1, <1>6
  <2>5. PostsFitTheStage' /\ PlainPostsArePlain' /\ SilenceIsExcused'
    BY <1>6, <2>2, <2>3, <2>4 DEF PostsFitTheStage, PlainPostsArePlain, SilenceIsExcused, Quiet
  <2>. QED BY <2>1, <2>5 DEF IInv
<1>. QED BY <1>3, <1>4, <1>5, <1>6 DEF Return

LEMMA StepPreserves == IInv /\ [Next]_vars => IInv'
<1>. SUFFICES ASSUME IInv, [Next]_vars
              PROVE  IInv'
  OBVIOUS
<1>1. CASE Start
  BY <1>1, StartPreserves
<1>2. CASE Prepare
  BY <1>2, PreparePreserves
<1>3. CASE Invoke \/ Repair
  BY <1>3, ReviewingPreserves
<1>4. CASE RequestStep
  BY <1>4, RequestPreserves
<1>5. CASE Escapes
  BY <1>5, EscapesPreserves
<1>6. CASE Return
  BY <1>6, ReturnPreserves
<1>7. CASE UNCHANGED vars
  BY <1>7 DEF vars, IInv, TypeOK, PostsFitTheStage, FailedKinds, PlainPostsArePlain,
              SilenceIsExcused, PostsAreServed, ErrorIsServed, Posted
<1>. QED BY <1>1, <1>2, <1>3, <1>4, <1>5, <1>6, <1>7 DEF Next, RequestStep

-----------------------------------------------------------------------------
(* What is shown twice is explained.                                       *)

LEMMA ExplainedFacts ==
    /\ \A S, p, q : Explained(S, p, q) => Explained(S, q, p)
    /\ \A S, p, q : Differ(p, q) => Explained(S, p, q)
    /\ \A S, T, p, q : S \subseteq T /\ Explained(S, p, q) => Explained(T, p, q)
  BY DEF Explained, Differ

LEMMA FreshPostsDiffer ==
    ASSUME thread' = <<>>,
           \A i, j \in DOMAIN outbox' : i # j => Differ(outbox'[i], outbox'[j]),
           \A i \in DOMAIN outbox' : outbox'[i].kind = "review" => DOMAIN outbox' = {1}
    PROVE  PostsDiffer'
<1>1. DOMAIN thread' = {}
  OBVIOUS
<1>. QED BY <1>1 DEF PostsDiffer

\* With an error to post, and no error shown.
LEMMA ErrorDiffers ==
    ASSUME outbox' = <<Plain("error")>>, PostsDiffer, UNCHANGED <<thread, lost>>,
           \A i \in DOMAIN thread : thread[i].kind # "error"
    PROVE  PostsDiffer'
<1>1. DOMAIN outbox' = {1} /\ outbox'[1].kind = "error"
  BY PlainTypes DEF Kind
<1>2. \A i, j \in DOMAIN thread' : i # j => Explained(lost', thread'[i], thread'[j])
  BY ExplainedFacts DEF PostsDiffer
<1>3. \A i \in DOMAIN thread', j \in DOMAIN outbox' : Explained(lost', thread'[i], outbox'[j])
  BY <1>1 DEF Explained
<1>. QED BY <1>1, <1>2, <1>3 DEF PostsDiffer

LEMMA OutboxEmptiesDiffer ==
    ASSUME PostsDiffer, UNCHANGED <<thread, lost>>, outbox' = outbox \/ outbox' = <<>>
    PROVE  PostsDiffer'
<1>1. DOMAIN <<>> = {}
  OBVIOUS
<1>2. CASE outbox' = outbox
  BY <1>2 DEF PostsDiffer, Explained
<1>3. CASE outbox' = <<>>
  BY <1>1, <1>3 DEF PostsDiffer, Explained
<1>. QED BY <1>2, <1>3

LEMMA RaisedPostsDiffer ==
    ASSUME IInv, PostsDiffer, at \in Quiet \cup {"declining", "posting"},
           outbox' \in {<<Plain("error")>>, <<>>}, UNCHANGED <<thread, lost>>
    PROVE  PostsDiffer'
<1>1. \A i \in DOMAIN thread : thread[i].kind # "error"
  BY DEF IInv, PostsFitTheStage, ReviewKinds
<1>. QED BY <1>1, ErrorDiffers, OutboxEmptiesDiffer

LEMMA ReviewPostsDiffer ==
    ASSUME IInv, PostsDiffer, Invoke \/ Repair
    PROVE  PostsDiffer'
<1>1. at \in Quiet /\ UNCHANGED <<thread, lost>> /\ thread' = <<>>
  BY DEF Invoke, Repair, Quiet, IInv, PostsFitTheStage, FailedKinds, ErrorKinds
<1>2. \/ \E output \in AgentOutputs : PostReviewResult(ParseReviewOutput(output))
      \/ UNCHANGED outbox
      \/ Raise
  BY DEF Invoke, Repair
<1>3. CASE \E output \in AgentOutputs : PostReviewResult(ParseReviewOutput(output))
  <2>1. PICK output \in AgentOutputs : PostReviewResult(ParseReviewOutput(output))
    BY <1>3
  <2>. DEFINE r == ParseReviewOutput(output)
  <2>2. r = NoReview \/ (r \subseteq Finding /\ IsFiniteSet(r))
    BY ParsedOutputs
  <2>. HIDE DEF r
  <2>3. outbox' = PostsFor(r) \/ outbox' = <<>>
    BY <2>1 DEF PostReviewResult, r
  <2>4. PostsAreRight(r, PostsFor(r))
    BY <2>2, PostsForIsRight
  <2>5. CASE outbox' = PostsFor(r)
    <3>1. PostsAreRight(r, outbox')
      BY <2>4, <2>5
    <3>. QED BY <1>1, <3>1, FreshPostsDiffer DEF PostsAreRight
  <2>6. CASE outbox' = <<>>
    BY <1>1, <2>6, OutboxEmptiesDiffer
  <2>. QED BY <2>3, <2>5, <2>6
<1>. QED BY <1>1, <1>2, <1>3, OutboxEmptiesDiffer, RaisedPostsDiffer DEF Raise

\* What remains of the posts to come keeps apart.
LEMMA TailDiffers ==
    ASSUME PostsDiffer, outbox \in Seq(Posts), outbox # <<>>, outbox' = Tail(outbox)
    PROVE  /\ outbox' \in Seq(Posts)
           /\ \A i, j \in DOMAIN outbox' : i # j => Differ(outbox'[i], outbox'[j])
           /\ \A i \in DOMAIN outbox' :
                 /\ outbox'[i].kind # "review"
                 /\ i + 1 \in DOMAIN outbox /\ outbox'[i] = outbox[i + 1]
                 /\ Differ(outbox[1], outbox'[i])
<1>1. /\ outbox' \in Seq(Posts) /\ 1 \in DOMAIN outbox
      /\ \A i \in DOMAIN outbox' :
           i + 1 \in DOMAIN outbox /\ i + 1 # 1 /\ outbox'[i] = outbox[i + 1]
  BY TailFacts
<1>2. /\ \A i, j \in DOMAIN outbox : i # j => Differ(outbox[i], outbox[j])
      /\ \A i \in DOMAIN outbox : outbox[i].kind = "review" => DOMAIN outbox = {1}
  BY DEF PostsDiffer
<1>3. \A i, j \in DOMAIN outbox' : i # j => Differ(outbox'[i], outbox'[j])
  <2> SUFFICES ASSUME NEW i \in DOMAIN outbox', NEW j \in DOMAIN outbox', i # j
               PROVE  Differ(outbox'[i], outbox'[j])
    OBVIOUS
  <2>1. i + 1 # j + 1
    <3>1. i \in Nat /\ j \in Nat
      BY <1>1
    <3>. QED BY <3>1
  <2>. QED BY <1>1, <1>2, <2>1
<1>4. \A i \in DOMAIN outbox' : outbox'[i].kind # "review" /\ Differ(outbox[1], outbox'[i])
  BY <1>1, <1>2
<1>. QED BY <1>1, <1>3, <1>4

\* What is shown after a request is explained, as its own post is shown only if that is
\* its end or its answer is lost.
LEMMA ShownIsExplained ==
    ASSUME IInv, PostsDiffer, RequestStep
    PROVE  /\ \A i, j \in DOMAIN thread' : i # j => Explained(lost', thread'[i], thread'[j])
           /\ \A q : /\ \A i \in DOMAIN thread : Explained(lost, thread[i], q)
                     /\ thread' # thread => Explained(lost', outbox[1], q)
                     => \A i \in DOMAIN thread' : Explained(lost', thread'[i], q)
<1>. DEFINE p == outbox[1]
<1>1. /\ TypeOK /\ 1 \in DOMAIN outbox /\ thread \in Seq(Posts) /\ p \in Posts
      /\ lost \subseteq lost' /\ thread' \in {thread, Append(thread, p)}
  BY RequestFacts DEF IInv, TypeOK
<1>2. /\ \A i, j \in DOMAIN thread : i # j => Explained(lost', thread[i], thread[j])
      /\ \A i \in DOMAIN thread : Explained(lost', thread[i], p) /\ Explained(lost', p, thread[i])
  <2>1. \A i, j \in DOMAIN thread : i # j => Explained(lost, thread[i], thread[j])
    BY DEF PostsDiffer
  <2>2. \A i \in DOMAIN thread : Explained(lost, thread[i], p) /\ Explained(lost, p, thread[i])
    BY <1>1, ExplainedFacts DEF PostsDiffer
  <2>. QED BY <1>1, <2>1, <2>2, ExplainedFacts
<1>3. CASE thread' = thread
  <2>1. \A q : \A i \in DOMAIN thread : Explained(lost, thread[i], q) => Explained(lost', thread[i], q)
    BY <1>1, ExplainedFacts
  <2>. QED BY <1>2, <1>3, <2>1
<1>4. CASE thread' = Append(thread, p)
  <2>1. /\ \A i \in DOMAIN thread' :
             \/ i \in DOMAIN thread /\ thread'[i] = thread[i]
             \/ i = Len(thread) + 1 /\ thread'[i] = p
        /\ thread' # thread
    BY <1>1, <1>4, AppendFacts
  <2>. HIDE DEF p
  <2>2. \A i, j \in DOMAIN thread' : i # j => Explained(lost', thread'[i], thread'[j])
    BY <1>2, <2>1
  <2>3. ASSUME NEW q, \A i \in DOMAIN thread : Explained(lost, thread[i], q), Explained(lost', p, q)
        PROVE  \A i \in DOMAIN thread' : Explained(lost', thread'[i], q)
    <3>1. \A i \in DOMAIN thread : Explained(lost', thread[i], q)
      BY <1>1, <2>3, ExplainedFacts
    <3>. QED BY <2>1, <2>3, <3>1
  <2>. QED BY <2>1, <2>2, <2>3 DEF p
<1>. QED BY <1>1, <1>3, <1>4

LEMMA RequestKeepsDifferent ==
    ASSUME IInv, PostsDiffer, RequestStep
    PROVE  PostsDiffer'
<1>. DEFINE p == outbox[1]
<1>1. /\ TypeOK /\ 1 \in DOMAIN outbox /\ outbox \in Seq(Posts) /\ outbox # <<>>
      /\ p \in Posts /\ Request = p /\ lost \subseteq lost'
  BY RequestFacts DEF IInv, TypeOK
<1>2. /\ \A i, j \in DOMAIN outbox : i # j => Differ(outbox[i], outbox[j])
      /\ \A i \in DOMAIN thread, j \in DOMAIN outbox : Explained(lost, thread[i], outbox[j])
      /\ p.kind = "review" =>
            DOMAIN outbox = {1} /\ \A j \in DOMAIN thread : thread[j] = p
  BY <1>1 DEF PostsDiffer
<1>3. \A i, j \in DOMAIN thread' : i # j => Explained(lost', thread'[i], thread'[j])
  BY ShownIsExplained
<1>4. \/ outbox' \in {outbox, Tail(outbox), <<>>}
      \/ p.kind = "review" /\ outbox' = <<Post("summary", {}, p.notes)>>
  BY <1>1, RequestFacts
<1>5. thread' # thread => outbox' = Tail(outbox) \/ p \in lost'
  BY <1>1 DEF RequestStep, Done, NoVersions, Fails, Retry, NoAnswer
<1>6. \A i \in DOMAIN thread' : thread'[i] = p \/ \E j \in DOMAIN thread : thread'[i] = thread[j]
  BY <1>1, RequestMovesPosts
<1>7. CASE outbox' = <<>>
  <2>1. DOMAIN outbox' = {}
    BY <1>7
  <2>. QED BY <1>3, <2>1 DEF PostsDiffer
<1>8. CASE outbox' = Tail(outbox)
  <2>1. /\ \A i, j \in DOMAIN outbox' : i # j => Differ(outbox'[i], outbox'[j])
        /\ \A i \in DOMAIN outbox' :
              /\ outbox'[i].kind # "review"
              /\ i + 1 \in DOMAIN outbox /\ outbox'[i] = outbox[i + 1]
              /\ Differ(p, outbox'[i])
    BY <1>1, <1>8, TailDiffers
  <2>2. ASSUME NEW j \in DOMAIN outbox'
        PROVE  \A i \in DOMAIN thread' : Explained(lost', thread'[i], outbox'[j])
    <3>1. \A i \in DOMAIN thread : Explained(lost, thread[i], outbox'[j])
      BY <1>2, <2>1
    <3>2. Explained(lost', p, outbox'[j])
      BY <1>1, <2>1, ExplainedFacts
    <3>. DEFINE q == outbox'[j]
    <3>. HIDE DEF q
    <3>3. (\A i \in DOMAIN thread : Explained(lost, thread[i], q)) /\ Explained(lost', p, q)
            => \A i \in DOMAIN thread' : Explained(lost', thread'[i], q)
      BY ShownIsExplained
    <3>. QED BY <3>1, <3>2, <3>3 DEF q
  <2>. QED BY <1>3, <2>1, <2>2 DEF PostsDiffer
<1>9. CASE outbox' = outbox /\ outbox' # Tail(outbox)
  <2>1. thread' # thread => \A j \in DOMAIN outbox : Explained(lost', p, outbox[j])
    <3>1. p \in lost' => Explained(lost', p, p)
      BY DEF Explained
    <3>2. \A j \in DOMAIN outbox : j # 1 => Explained(lost', p, outbox[j])
      BY <1>1, <1>2, ExplainedFacts
    <3>. QED BY <1>5, <1>9, <3>1, <3>2
  <2>2. ASSUME NEW j \in DOMAIN outbox
        PROVE  \A i \in DOMAIN thread' : Explained(lost', thread'[i], outbox[j])
    BY <1>2, <2>1, ShownIsExplained
  <2>3. \A i \in DOMAIN outbox : outbox[i].kind = "review" =>
          DOMAIN outbox = {1} /\ \A j \in DOMAIN thread' : thread'[j] = outbox[1]
    BY <1>6 DEF PostsDiffer
  <2>4. \A i \in DOMAIN thread', j \in DOMAIN outbox' : Explained(lost', thread'[i], outbox'[j])
    BY <1>9, <2>2
  <2>. QED BY <1>2, <1>3, <1>9, <2>3, <2>4 DEF PostsDiffer
<1>10. CASE p.kind = "review" /\ outbox' = <<Post("summary", {}, p.notes)>> /\ outbox' # Tail(outbox)
  <2>. DEFINE q == Post("summary", {}, p.notes)
  <2>1. q.kind = "summary" /\ outbox' = <<q>> /\ DOMAIN outbox' = {1} /\ outbox'[1] = q
    BY <1>10 DEF Post
  <2>. HIDE DEF q
  <2>2. \A i \in DOMAIN thread' : thread'[i] = p /\ p \in lost'
    <3>1. \A j \in DOMAIN thread : thread[j] = p /\ p \in lost
      BY <1>1, <1>2, <1>10 DEF Explained
    <3>2. thread' = thread \/ p \in lost'
      BY <1>5, <1>10
    <3>. QED BY <1>1, <1>6, <3>1, <3>2
  <2>3. p # q
    BY <1>10, <2>1
  <2>4. \A i \in DOMAIN thread' : Explained(lost', thread'[i], q)
    BY <2>1, <2>2, <2>3 DEF Explained
  <2>. QED BY <1>3, <2>1, <2>4 DEF PostsDiffer
<1>. QED BY <1>4, <1>7, <1>8, <1>9, <1>10

LEMMA StepKeepsPostsDifferent == IInv /\ PostsDiffer /\ [Next]_vars => PostsDiffer'
<1>. SUFFICES ASSUME IInv, PostsDiffer, [Next]_vars
              PROVE  PostsDiffer'
  OBVIOUS
<1>1. CASE Start
  <2>1. /\ at \in Quiet /\ UNCHANGED <<thread, lost>> /\ thread' = <<>>
    BY <1>1 DEF Start, Quiet, IInv, PostsFitTheStage, FailedKinds, ErrorKinds
  <2>2. Raise \/ UNCHANGED outbox \/ outbox' = <<Plain("no_branch")>>
    BY <1>1 DEF Start, StartJob, StartCi, StartCli, Prepared, Failed
  <2>3. CASE outbox' = <<Plain("no_branch")>>
    <3>1. DOMAIN outbox' = {1} /\ outbox'[1].kind = "no_branch"
      BY <2>3, PlainTypes DEF Kind
    <3>. QED BY <2>1, <3>1, FreshPostsDiffer
  <2>. QED BY <2>1, <2>2, <2>3, RaisedPostsDiffer, OutboxEmptiesDiffer DEF Raise
<1>2. CASE Prepare
  <2>1. at \in Quiet /\ UNCHANGED <<thread, lost>> /\ (Raise \/ UNCHANGED outbox)
    BY <1>2 DEF Prepare, Quiet
  <2>. QED BY <2>1, RaisedPostsDiffer, OutboxEmptiesDiffer DEF Raise
<1>3. CASE Invoke \/ Repair
  BY <1>3, ReviewPostsDiffer
<1>4. CASE RequestStep
  BY <1>4, RequestKeepsDifferent
<1>5. CASE Escapes
  <2>1. /\ UNCHANGED <<thread, lost>> /\ at \in {"declining", "posting", "apologising"}
        /\ outbox' = <<>> \/ (outbox' = <<Plain("error")>> /\ at # "apologising")
    BY <1>5, EscapeFacts DEF IInv
  <2>. QED BY <2>1, RaisedPostsDiffer, OutboxEmptiesDiffer
<1>6. CASE Return
  <2>1. UNCHANGED <<thread, lost>> /\ (UNCHANGED outbox \/ (at = "declining" /\ Raise))
    BY <1>6 DEF Return
  <2>. QED BY <2>1, RaisedPostsDiffer, OutboxEmptiesDiffer DEF Raise
<1>7. CASE UNCHANGED vars
  BY <1>7, OutboxEmptiesDiffer DEF vars
<1>. QED BY <1>1, <1>2, <1>3, <1>4, <1>5, <1>6, <1>7 DEF Next, RequestStep

-----------------------------------------------------------------------------
(* Refinement of ReviewPromise.                                            *)

\* What a post counts as.
Shows(p) == IF p.kind \in {"error", "no_branch"} THEN "error" ELSE "review"

LEMMA ShownFacts ==
    ASSUME IInv
    PROVE  /\ ShownOf = {} <=> thread = <<>>
           /\ ShownOf \subseteq {"review", "error"}
           /\ at \in Quiet => ShownOf = {}
           /\ at \in {"posting", "succeeded"} => ShownOf \subseteq {"review"}
           /\ at \in {"declining", "apologising", "failed", "crashed"} /\ "posting" \notin interrupted
                 => ShownOf \subseteq {"error"}
<1>1. ShownOf = {Shows(thread[i]) : i \in DOMAIN thread}
  BY DEF ShownOf, Shows, ToSet
<1>2. thread \in Seq(Posts)
  BY DEF IInv, TypeOK
<1>3. thread = <<>> <=> DOMAIN thread = {}
  BY <1>2
<1>4. \A i \in DOMAIN thread : Shows(thread[i]) \in {"review", "error"}
  BY DEF Shows
<1>5. at \in {"posting", "succeeded"} => \A i \in DOMAIN thread : Shows(thread[i]) = "review"
  BY DEF IInv, PostsFitTheStage, Shows, ReviewKinds
<1>6. at \in {"declining", "apologising", "failed", "crashed"} /\ "posting" \notin interrupted =>
        \A i \in DOMAIN thread : Shows(thread[i]) = "error"
  BY DEF IInv, PostsFitTheStage, FailedKinds, ErrorKinds, Shows
<1>7. at \in Quiet => thread = <<>>
  BY DEF IInv, PostsFitTheStage
<1>. QED BY <1>1, <1>3, <1>4, <1>5, <1>6, <1>7

LEMMA ShownGrows ==
    ASSUME IInv, NEW p \in Posts, thread' = Append(thread, p)
    PROVE  ShownOf' = ShownOf \cup {Shows(p)}
<1>1. /\ DOMAIN thread' = DOMAIN thread \cup {Len(thread) + 1}
      /\ Len(thread) + 1 \notin DOMAIN thread
      /\ thread'[Len(thread) + 1] = p
      /\ \A i \in DOMAIN thread : thread'[i] = thread[i]
  BY AppendFacts DEF IInv, TypeOK
<1>2. /\ ShownOf = {Shows(thread[i]) : i \in DOMAIN thread}
      /\ ShownOf' = {Shows(thread'[i]) : i \in DOMAIN thread'}
  BY DEF ShownOf, Shows, ToSet
<1>. QED BY <1>1, <1>2

LEMMA SilenceType == SilenceOf \subseteq Promise!Results
  BY DEF SilenceOf, Promise!Results

LEMMA SilenceTypeNext == SilenceOf' \subseteq Promise!Results
  BY DEF SilenceOf, Promise!Results

\* The posting of the review was cut short.
CutShort == "posting" \in interrupted

\* A step that neither shows anything nor ends the job.
LEMMA ExcuseRefines ==
    ASSUME ShownOf' = ShownOf, StatusOf' = StatusOf, job' = job, CutShort => CutShort'
    PROVE  Promise!Next
  BY SilenceTypeNext DEF Promise!Next, Promise!Excuse, CutShort

LEMMA EndRefines ==
    ASSUME IInv, thread' = thread, job' = job, StatusOf = "running", CutShort => CutShort',
           \/ at = "posting" /\ outbox = <<>> /\ StatusOf' = "succeeded" /\ ~CutShort'
           \/ /\ StatusOf' = "failed"
              /\ at \in Quiet \cup {"declining", "apologising", "posting"}
              /\ job.runner # "process" \/ (at = "apologising" /\ outbox = <<>>)
              /\ at = "posting" => CutShort'
    PROVE  Promise!Next
<1>1. ShownOf' = ShownOf /\ job'.dry = job.dry
  BY DEF ShownOf
<1>2. ASSUME ShownOf = {} => StatusOf' \in SilenceOf,
             ShownOf # {} => StatusOf' = IF "error" \in ShownOf \/ CutShort' THEN "failed" ELSE "succeeded",
             CutShort' => StatusOf' = "failed"
      PROVE  Promise!Next
  BY <1>1, <1>2 DEF Promise!Next, Promise!End, CutShort
<1>3. CASE at = "posting" /\ outbox = <<>> /\ StatusOf' = "succeeded" /\ ~CutShort'
  <2>1. ShownOf = {} => "succeeded" \in SilenceOf
    BY <1>3, ShownFacts DEF IInv, SilenceIsExcused, SilenceOf
  <2>2. "error" \notin ShownOf
    BY <1>3, ShownFacts
  <2>. QED BY <1>2, <1>3, <2>1, <2>2
<1>4. CASE /\ StatusOf' = "failed"
           /\ at \in Quiet \cup {"declining", "apologising", "posting"}
           /\ job.runner # "process" \/ (at = "apologising" /\ outbox = <<>>)
           /\ at = "posting" => CutShort'
  <2>1. ShownOf = {} => "failed" \in SilenceOf
    BY <1>4, ShownFacts DEF IInv, SilenceIsExcused, SilenceOf
  <2>2. ShownOf # {} => "error" \in ShownOf \/ CutShort'
    BY <1>4, ShownFacts DEF CutShort
  <2>. QED BY <1>2, <1>4, <2>1, <2>2
<1>. QED BY <1>3, <1>4

LEMMA RequestRefines ==
    ASSUME IInv, RequestStep
    PROVE  Promise!Next
<1>1. /\ TypeOK /\ outbox # <<>> /\ 1 \in DOMAIN outbox /\ outbox[1] \in Posts
      /\ UNCHANGED <<job, at, review, interrupted>>
      /\ at \in {"declining", "posting", "apologising"}
  BY RequestFacts DEF IInv, TypeOK
<1>2. StatusOf = "running" /\ StatusOf' = "running" /\ CutShort' = CutShort
  BY <1>1 DEF StatusOf, CutShort
<1>3. CASE thread' = thread
  <2>1. ShownOf' = ShownOf
    BY <1>3 DEF ShownOf
  <2>. QED BY <1>1, <1>2, <2>1, ExcuseRefines
<1>4. CASE thread' = Append(thread, outbox[1]) /\ outbox[1].kind # "versions"
  <2>. DEFINE s == Shows(outbox[1])
  <2>1. ShownOf' = ShownOf \cup {s}
    BY <1>1, <1>4, ShownGrows
  <2>2. s = IF at = "posting" THEN "review" ELSE "error"
    BY <1>1, <1>4 DEF IInv, PostsFitTheStage, ReviewKinds, Shows
  <2>3. at = "posting" => ~job.dry
    BY <1>1 DEF IInv, PostsFitTheStage, Posted
  <2>4. ShownOf = {} \/ ShownOf = {s} \/ (CutShort /\ s = "error")
    <3>1. CutShort => at = "apologising"
      BY <1>1 DEF IInv, PostsFitTheStage, CutShort
    <3>. QED BY <1>1, <2>2, <3>1, ShownFacts DEF CutShort
  <2>. HIDE DEF s
  <2>5. CASE ShownOf = {}
    <3>1. s \in (IF job.dry THEN {"error"} ELSE {"review", "error"})
      BY <2>2, <2>3
    <3>2. ShownOf' = {s}
      BY <2>1, <2>5
    <3>3. Promise!Show
      BY <1>2, <2>5, <3>1, <3>2 DEF Promise!Show
    <3>. QED BY <1>1, <3>3 DEF Promise!Next
  <2>6. CASE ShownOf = {s}
    <3>1. ShownOf' = ShownOf
      BY <2>1, <2>6
    <3>. QED BY <1>1, <1>2, <3>1, ExcuseRefines
  <2>7. CASE CutShort /\ s = "error"
    <3>1. Promise!Show
      BY <1>2, <2>1, <2>7 DEF Promise!Show, CutShort
    <3>. QED BY <1>1, <3>1 DEF Promise!Next
  <2>. QED BY <2>4, <2>5, <2>6, <2>7
<1>. QED BY <1>3, <1>4, <1>1, RequestFacts

\* An exception ends a job whose errors nobody posts.
LEMMA EscapesRefines ==
    ASSUME IInv, Escapes
    PROVE  Promise!Next
<1>1. /\ at \in {"declining", "posting", "apologising"}
      /\ UNCHANGED <<job, thread>> /\ interrupted' = interrupted \cup {at}
      /\ \/ at' = "apologising"
         \/ at # "apologising" /\ job.runner # "process" /\ at' \in {"failed", "crashed"}
  BY EscapeFacts DEF IInv
<1>2. StatusOf = "running" /\ (CutShort => CutShort') /\ (at = "posting" => CutShort')
  BY <1>1 DEF StatusOf, CutShort
<1>3. CASE at' = "apologising"
  <2>1. StatusOf' = "running" /\ ShownOf' = ShownOf
    BY <1>1, <1>3 DEF StatusOf, ShownOf
  <2>. QED BY <1>1, <1>2, <2>1, ExcuseRefines
<1>4. CASE at # "apologising" /\ job.runner # "process" /\ at' \in {"failed", "crashed"}
  <2>1. StatusOf' = "failed"
    BY <1>4 DEF StatusOf
  <2>. QED BY <1>1, <1>2, <1>4, <2>1, EndRefines
<1>. QED BY <1>1, <1>3, <1>4

\* Every step of the job is one of the promise.
LEMMA StepRefines == IInv /\ [Next]_vars => [Promise!Next]_(Promise!vars)
<1>. SUFFICES ASSUME IInv, [Next]_vars
              PROVE  [Promise!Next]_(Promise!vars)
  OBVIOUS
<1>1. ASSUME at \in Quiet, UNCHANGED <<job, thread, interrupted>>,
             \/ at' \in Quiet \cup {"declining", "apologising", "posting"}
             \/ at' \in {"failed", "crashed"} /\ job.runner # "process"
      PROVE  Promise!Next
  <2>1. StatusOf = "running" /\ (CutShort => CutShort') /\ ShownOf' = ShownOf
    BY <1>1 DEF StatusOf, Quiet, CutShort, ShownOf
  <2>2. CASE at' \in Quiet \cup {"declining", "apologising", "posting"}
    <3>1. StatusOf' = "running"
      BY <2>2 DEF StatusOf, Quiet
    <3>. QED BY <1>1, <2>1, <3>1, ExcuseRefines
  <2>3. CASE at' \in {"failed", "crashed"} /\ job.runner # "process"
    <3>1. StatusOf' = "failed"
      BY <2>3 DEF StatusOf
    <3>2. at # "posting"
      BY <1>1 DEF Quiet
    <3>. QED BY <1>1, <2>1, <2>3, <3>1, <3>2, EndRefines
  <2>. QED BY <1>1, <2>2, <2>3
<1>2. Raise => at' = "apologising" \/ (at' = "failed" /\ job.runner # "process")
  BY DEF Raise
<1>3. CASE Start
  <2>1. /\ at \in Quiet /\ UNCHANGED <<job, thread, interrupted>>
        /\ \/ at' \in Quiet \cup {"declining", "apologising", "posting"}
           \/ at' \in {"failed", "crashed"} /\ job.runner # "process"
    BY <1>2, <1>3 DEF Start, StartJob, StartCi, StartCli, Prepared, Failed, Quiet
  <2>. QED BY <1>1, <2>1
<1>4. CASE Prepare
  <2>1. /\ at \in Quiet /\ UNCHANGED <<job, thread, interrupted>>
        /\ \/ at' \in Quiet \cup {"declining", "apologising", "posting"}
           \/ at' \in {"failed", "crashed"} /\ job.runner # "process"
    BY <1>2, <1>4 DEF Prepare, Quiet
  <2>. QED BY <1>1, <2>1
<1>5. CASE Invoke \/ Repair
  <2>1. /\ at \in Quiet /\ UNCHANGED <<job, thread, interrupted>>
        /\ \/ at' \in Quiet \cup {"declining", "apologising", "posting"}
           \/ at' \in {"failed", "crashed"} /\ job.runner # "process"
    BY <1>2, <1>5 DEF Invoke, Repair, PostReviewResult, Quiet
  <2>. QED BY <1>1, <2>1
<1>6. CASE RequestStep
  BY <1>6, RequestRefines
<1>7. CASE Escapes
  BY <1>7, EscapesRefines
<1>8. CASE Return
  <2>0. (CutShort => CutShort') /\ ShownOf' = ShownOf
    BY <1>8 DEF Return, CutShort, ShownOf
  <2>1. UNCHANGED <<job, thread, interrupted>> /\ outbox = <<>>
    BY <1>8 DEF Return
  <2>2. CASE at = "posting" /\ at' = "succeeded"
    <3>1. StatusOf = "running" /\ StatusOf' = "succeeded" /\ ~CutShort'
      BY <2>1, <2>2 DEF StatusOf, CutShort, IInv, PostsFitTheStage
    <3>. QED BY <2>0, <2>1, <2>2, <3>1, EndRefines
  <2>3. CASE at = "declining" /\ at' = "apologising"
    <3>1. StatusOf' = StatusOf
      BY <2>3 DEF StatusOf
    <3>. QED BY <2>0, <2>1, <3>1, ExcuseRefines
  <2>4. CASE /\ at \in {"declining", "apologising"} /\ at' = "failed"
             /\ at = "declining" => job.runner # "process"
    <3>1. StatusOf = "running" /\ StatusOf' = "failed"
      BY <2>4 DEF StatusOf
    <3>2. at = "apologising" \/ job.runner # "process"
      BY <2>4
    <3>. QED BY <2>0, <2>1, <2>4, <3>1, <3>2, EndRefines
  <2>. QED BY <1>2, <1>8, <2>2, <2>3, <2>4 DEF Return
<1>9. CASE UNCHANGED vars
  <2>1. UNCHANGED <<ShownOf, StatusOf, job, SilenceOf, CutShort>>
    BY <1>9 DEF vars, ShownOf, StatusOf, SilenceOf, Posted, CutShort, PostsAreServed, ErrorIsServed
  <2>. QED BY <2>1 DEF Promise!vars, CutShort
<1>. QED BY <1>3, <1>4, <1>5, <1>6, <1>7, <1>8, <1>9 DEF Next, RequestStep

LEMMA InitRefines == Init => Promise!Init
<1>. SUFFICES ASSUME Init
              PROVE  Promise!Init
  OBVIOUS
<1>1. IInv /\ at \in Quiet
  BY InitIInv DEF Init, Quiet
<1>2. ShownOf = {} /\ StatusOf = "running" /\ job.dry \in BOOLEAN /\ "posting" \notin interrupted
  BY <1>1, ShownFacts, JobsAssumption DEF Init, StatusOf, Quiet
<1>. QED BY <1>2, SilenceType DEF Promise!Init

-----------------------------------------------------------------------------
(* All findings are shown.                                                 *)

\* What hosts send as the patches of a pull request, see DiffLines_proofs.
PatchesAreWellFormed ==
    \A j \in Jobs : \A p \in DOMAIN j.files : j.files[p] \in WellFormedPatch

ReviewIsWellFormed ==
    \/ review = NoReview
    \/ /\ IsFiniteSet(review)
       /\ \A f \in review : /\ f.side \in Sides /\ f.line \in Nat /\ f.start \in Nat
                            /\ f.start <= f.line

Origins == FetchedFilesAreTheJobs /\ ReviewIsWellFormed

LEMMA InitOrigins == Init => Origins
<1>1. DOMAIN <<>> = {}
  OBVIOUS
<1>. QED BY <1>1 DEF Init, Origins, FetchedFilesAreTheJobs, ReviewIsWellFormed

LEMMA StepKeepsOrigins == IInv /\ Origins /\ [Next]_vars => Origins'
<1>. SUFFICES ASSUME IInv, Origins, [Next]_vars
              PROVE  Origins'
  OBVIOUS
<1>1. ASSUME UNCHANGED <<job, fetched>>
      PROVE  FetchedFilesAreTheJobs'
  BY <1>1 DEF Origins, FetchedFilesAreTheJobs
<1>2. ASSUME UNCHANGED review
      PROVE  ReviewIsWellFormed'
  BY <1>2 DEF Origins, ReviewIsWellFormed
<1>3. CASE Prepare
  <2>1. CASE \E paths \in FetchedPaths :
               fetched' = FilterChangedFiles([p \in paths |-> job.files[p]], Ignored)
    <3>1. PICK paths \in FetchedPaths :
                 fetched' = FilterChangedFiles([p \in paths |-> job.files[p]], Ignored)
      BY <2>1
    <3>2. paths \subseteq DOMAIN job.files
      BY DEF FetchedPaths
    <3>3. fetched' = [p \in paths \ Ignored |-> job.files[p]]
      BY <3>1 DEF FilterChangedFiles
    <3>4. job' = job
      BY <1>3 DEF Prepare
    <3>5. FetchedFilesAreTheJobs'
      BY <3>2, <3>3, <3>4 DEF FetchedFilesAreTheJobs
    <3>. QED BY <1>2, <1>3, <3>5 DEF Prepare, Origins
  <2>2. CASE UNCHANGED fetched
    BY <1>1, <1>2, <1>3, <2>2 DEF Prepare, Origins
  <2>. QED BY <1>3, <2>1, <2>2 DEF Prepare
<1>4. CASE Invoke \/ Repair
  <2>1. UNCHANGED <<job, fetched>>
    BY <1>4 DEF Invoke, Repair
  <2>2. CASE \E output \in AgentOutputs : PostReviewResult(ParseReviewOutput(output))
    <3>1. PICK output \in AgentOutputs : PostReviewResult(ParseReviewOutput(output))
      BY <2>2
    <3>2. review' = ParseReviewOutput(output)
      BY <3>1 DEF PostReviewResult
    <3>3. CASE output # NotJson /\ \A c \in output : WellFormed(c)
      <4>1. output \in Outputs \ {NotJson} /\ review' = output
        BY <3>2, <3>3 DEF AgentOutputs, ParseReviewOutput
      <4>2. IsFiniteSet(output) /\ \A c \in output : c.side \in Sides /\ c.line \in Nat /\ c.start \in Nat
        BY <4>1, OutputsAssumption
      <4>3. \A c \in output : c.start <= c.line
        BY <3>3 DEF WellFormed
      <4>. QED BY <1>1, <2>1, <4>1, <4>2, <4>3 DEF Origins, ReviewIsWellFormed
    <3>4. CASE ~(output # NotJson /\ \A c \in output : WellFormed(c))
      <4>1. review' = NoReview
        BY <3>2, <3>4 DEF ParseReviewOutput
      <4>. QED BY <1>1, <2>1, <4>1 DEF Origins, ReviewIsWellFormed
    <3>. QED BY <3>3, <3>4
  <2>3. CASE UNCHANGED review
    BY <1>1, <1>2, <2>1, <2>3 DEF Origins
  <2>. QED BY <1>4, <2>2, <2>3 DEF Invoke, Repair
<1>5. CASE Start \/ Return
  <2>1. UNCHANGED <<job, fetched, review>>
    BY <1>5 DEF Start, Return
  <2>. QED BY <1>1, <1>2, <2>1 DEF Origins
<1>6. CASE RequestStep \/ Escapes
  <2>1. UNCHANGED <<job, fetched, review>>
    BY <1>6, RequestFacts, EscapeFacts DEF IInv
  <2>. QED BY <1>1, <1>2, <2>1 DEF Origins
<1>7. CASE UNCHANGED vars
  BY <1>1, <1>2, <1>7 DEF Origins, vars
<1>. QED BY <1>3, <1>4, <1>5, <1>6, <1>7 DEF Next, RequestStep

\* On well-formed patches the filter finds out what the diff says.
LEMMA ValidMeansInDiff ==
    ASSUME PatchesAreWellFormed, IInv, Origins, review # NoReview, NEW f \in review
    PROVE  /\ f \in ValidFindings(review, fetched) <=> InDiff(f, fetched)
           /\ InDiff(f, fetched) => InDiff(f, job.files)
<1>1. \A p \in DOMAIN fetched :
         /\ p \in DOMAIN job.files /\ fetched[p] = job.files[p]
         /\ fetched[p] \in WellFormedPatch
  BY DEF Origins, FetchedFilesAreTheJobs, PatchesAreWellFormed, IInv, TypeOK
<1>2. f.side \in Sides /\ f.line \in Nat /\ f.start \in Nat /\ f.start <= f.line
  BY DEF Origins, ReviewIsWellFormed
<1>3. IsValid(f, fetched) <=> InDiff(f, fetched)
  BY <1>1, <1>2, FilterIsExact
<1>4. InDiff(f, fetched) => InDiff(f, job.files)
  BY <1>1 DEF InDiff
<1>. QED BY <1>3, <1>4 DEF ValidFindings

LEMMA ReviewPostsAreRight ==
    ASSUME IInv, Origins
    PROVE  PostsAreRight(review, PostsFor(review))
<1>1. review = NoReview \/ (review \subseteq Finding /\ IsFiniteSet(review))
  BY DEF IInv, TypeOK, Origins, ReviewIsWellFormed
<1>. QED BY <1>1, PostsForIsRight

\* What is under way of a review depends on the job, the diff and the posts only.
LEMMA SameReview ==
    ASSUME UNCHANGED <<job, fetched, review>>
    PROVE  /\ ValidFindings(review, fetched)' = ValidFindings(review, fetched)
           /\ \A p : Fits(p)' <=> Fits(p)
  BY DEF ValidFindings, Fits

\* A finding shown, or of a failed request, remains so.
LEMMA ShownRemains ==
    ASSUME IInv, RequestStep
    PROVE  /\ \A i \in DOMAIN thread : i \in DOMAIN thread' /\ thread'[i] = thread[i]
           /\ \A f : InlineIsUnserved(f) => InlineIsUnserved(f)'
           /\ \A f : NoteIsUnserved(f) => NoteIsUnserved(f)'
<1>1. /\ thread \in Seq(Posts) /\ outbox[1] \in Posts /\ unserved \subseteq unserved'
      /\ thread' \in {thread, Append(thread, outbox[1])}
  BY RequestFacts DEF IInv, TypeOK
<1>2. \A i \in DOMAIN thread : i \in DOMAIN thread' /\ thread'[i] = thread[i]
  BY <1>1, AppendFacts
<1>3. /\ \A f : InlineIsUnserved(f) => InlineIsUnserved(f)'
      /\ \A f : NoteIsUnserved(f) => NoteIsUnserved(f)'
  BY <1>1 DEF InlineIsUnserved, NoteIsUnserved
<1>. QED BY <1>2, <1>3

\* The request under way is one the platform can carry out.
LEMMA RequestIsAcceptable ==
    ASSUME PatchesAreWellFormed, IInv, Origins, review # NoReview, NEW p, Fits(p)
    PROVE  Acceptable(p)
<1>1. p.inline \subseteq ValidFindings(review, fetched)
  BY DEF Fits
<1>2. ValidFindings(review, fetched) \subseteq review
  BY DEF ValidFindings
<1>. QED BY <1>1, <1>2, ValidMeansInDiff DEF Acceptable

\* What a request that ends, in whatever way, leaves of the findings it carries.
LEMMA RequestLeavesFindings ==
    ASSUME PatchesAreWellFormed, IInv, PostsDiffer, Origins, ReviewIsUnderWay, RequestStep,
           at \in {"posting", "succeeded"}, review # NoReview, ~job.dry
    PROVE  /\ \A f \in outbox[1].inline : InlineIsUnderWay(f)'
           /\ \A f \in outbox[1].notes : NoteIsUnderWay(f)'
           /\ \A i \in DOMAIN outbox : i # 1 =>
                 \/ \E j \in DOMAIN outbox' : outbox'[j] = outbox[i]
                 \/ \A f : InlineIsUnserved(f)'
<1>. DEFINE p == outbox[1]
<1>1. /\ TypeOK /\ outbox # <<>> /\ outbox \in Seq(Posts) /\ thread \in Seq(Posts)
      /\ p \in Posts /\ Request = p /\ 1 \in DOMAIN outbox
  BY RequestFacts DEF IInv, TypeOK
<1>2. /\ Fits(p) /\ (p.notes # {} => p.kind \in {"review", "summary"})
      /\ p.kind \notin {"review", "inline"} => p.inline = {}
      /\ p.kind = "review" => DOMAIN outbox = {1}
  BY <1>1 DEF ReviewIsUnderWay, IInv, PlainPostsArePlain, PostsDiffer
<1>3. Acceptable(p)
  BY <1>2, RequestIsAcceptable
<1>4. ASSUME outbox' = Tail(outbox), NEW i \in DOMAIN outbox, i # 1
      PROVE  \E j \in DOMAIN outbox' : outbox'[j] = outbox[i]
  <2>1. i - 1 \in DOMAIN Tail(outbox) /\ outbox[i] = Tail(outbox)[i - 1]
    BY <1>1, <1>4, TailFacts
  <2>. QED BY <1>4, <2>1
<1>. HIDE DEF p
<1>5. p \in unserved' => /\ \A f \in p.inline : InlineIsUnderWay(f)'
                         /\ p.kind = "summary" => \A f \in p.notes : NoteIsUnderWay(f)'
                         /\ p.kind = "versions" => \A f : InlineIsUnserved(f)'
  BY DEF InlineIsUnserved, NoteIsUnserved, InlineIsUnderWay, NoteIsUnderWay
<1>6. CASE Done
  <2>1. outbox' = Tail(outbox)
    BY <1>6 DEF Done
  <2>2. CASE p.kind = "versions"
    <3>1. p.inline = {} /\ p.notes = {}
      BY <1>2, <2>2
    <3>. QED BY <1>4, <2>1, <3>1 DEF p
  <2>3. CASE p.kind # "versions"
    <3>1. thread' = Append(thread, p)
      BY <1>1, <1>6, <2>3 DEF Done, Effect
    <3>2. \E i \in DOMAIN thread' : thread'[i] = p
      BY <1>1, <3>1, AppendFacts
    <3>3. /\ \A f \in p.inline : InlineIsUnderWay(f)'
          /\ \A f \in p.notes : NoteIsUnderWay(f)'
      BY <3>2 DEF InlineIsUnderWay, NoteIsUnderWay
    <3>. QED BY <1>4, <2>1, <3>3 DEF p
  <2>. QED BY <2>2, <2>3
<1>7. CASE NoVersions
  <2>1. p.kind = "versions" /\ p \in unserved'
    BY <1>1, <1>7 DEF NoVersions
  <2>. QED BY <1>2, <1>5, <2>1 DEF p
<1>8. CASE Fails
  <2>1. /\ p \in unserved'
        /\ outbox' = CASE p.kind = "review" -> <<Post("summary", {}, p.notes)>>
                       [] p.kind = "versions" -> <<>>
                       [] OTHER -> Tail(outbox)
    BY <1>1, <1>3, <1>8 DEF Fails, OutboxAfterError
  <2>2. CASE p.kind = "review"
    <3>. DEFINE q == Post("summary", {}, p.notes)
    <3>1. q.notes = p.notes /\ outbox' = <<q>>
      BY <2>1, <2>2 DEF Post
    <3>. HIDE DEF q
    <3>2. 1 \in DOMAIN outbox' /\ outbox'[1].notes = p.notes
      BY <3>1
    <3>3. \A f \in p.notes : NoteIsUnderWay(f)'
      BY <3>2 DEF NoteIsUnderWay
    <3>. QED BY <1>2, <1>5, <2>1, <2>2, <3>3 DEF p
  <2>3. CASE p.kind = "versions"
    BY <1>2, <1>5, <2>1, <2>3 DEF p
  <2>4. CASE p.kind \notin {"review", "versions"}
    <3>1. outbox' = Tail(outbox)
      BY <2>1, <2>4
    <3>. QED BY <1>2, <1>4, <1>5, <2>1, <2>4, <3>1 DEF p
  <2>. QED BY <2>2, <2>3, <2>4
<1>9. CASE Retry
  <2>1. outbox' = outbox
    BY <1>9 DEF Retry
  <2>2. /\ \A f \in p.inline : InlineIsUnderWay(f)'
        /\ \A f \in p.notes : NoteIsUnderWay(f)'
    BY <1>1, <2>1 DEF InlineIsUnderWay, NoteIsUnderWay, p
  <2>. QED BY <2>1, <2>2 DEF p
<1>. QED BY <1>6, <1>7, <1>8, <1>9 DEF RequestStep

\* A post to come after a request was to come before, in the same place or the next,
\* or is what GitHub gets instead of the review.
LEMMA OutboxAfterRequest ==
    ASSUME TypeOK, RequestStep
    PROVE  \A i \in DOMAIN outbox' :
              \/ i \in DOMAIN outbox /\ outbox'[i] = outbox[i]
              \/ \E j \in DOMAIN outbox : j # 1 /\ outbox'[i] = outbox[j]
              \/ /\ i = 1 /\ outbox'[i].kind = "summary"
                 /\ outbox'[i].inline = {} /\ outbox'[i].notes = outbox[1].notes
<1>1. /\ outbox \in Seq(Posts) /\ outbox # <<>>
      /\ \/ outbox' \in {outbox, Tail(outbox), <<>>}
         \/ outbox' = <<Post("summary", {}, outbox[1].notes)>>
  BY RequestFacts DEF TypeOK
<1>2. CASE outbox' = Tail(outbox)
  BY <1>1, <1>2, TailFacts
<1>3. CASE outbox' = <<Post("summary", {}, outbox[1].notes)>>
  <2>. DEFINE q == Post("summary", {}, outbox[1].notes)
  <2>1. q.kind = "summary" /\ q.inline = {} /\ q.notes = outbox[1].notes /\ outbox' = <<q>>
    BY <1>3 DEF Post
  <2>. HIDE DEF q
  <2>. QED BY <2>1
<1>4. CASE outbox' \in {outbox, <<>>}
  BY <1>4
<1>. QED BY <1>1, <1>2, <1>3, <1>4

LEMMA RequestKeepsReview ==
    ASSUME PatchesAreWellFormed, IInv, PostsDiffer, Origins, ReviewIsUnderWay, RequestStep
    PROVE  ReviewIsUnderWay'
<1>. DEFINE valid == ValidFindings(review, fetched)
<1>1. /\ TypeOK /\ 1 \in DOMAIN outbox /\ UNCHANGED <<job, at, fetched, review>>
  BY RequestFacts DEF IInv
<1>2. /\ ValidFindings(review, fetched)' = valid
      /\ \A p : Fits(p)' <=> Fits(p)
  BY <1>1, SameReview
<1>. SUFFICES ASSUME at \in {"posting", "succeeded"}, review # NoReview, ~job.dry
              PROVE  /\ \A i \in DOMAIN thread' : Fits(thread'[i])
                     /\ \A i \in DOMAIN outbox' :
                           /\ Fits(outbox'[i])
                           /\ outbox'[i].notes # {} =>
                                i = 1 /\ outbox'[i].kind \in {"review", "summary"}
                     /\ \A f \in valid : InlineIsUnderWay(f)'
                     /\ \A f \in review \ valid : NoteIsUnderWay(f)'
  BY <1>1, <1>2 DEF ReviewIsUnderWay
<1>3. /\ \A i \in DOMAIN thread : Fits(thread[i])
      /\ \A i \in DOMAIN outbox :
            /\ Fits(outbox[i])
            /\ outbox[i].notes # {} => i = 1 /\ outbox[i].kind \in {"review", "summary"}
      /\ \A f \in valid : InlineIsUnderWay(f)
      /\ \A f \in review \ valid : NoteIsUnderWay(f)
  BY DEF ReviewIsUnderWay
<1>4. \A i \in DOMAIN thread' : Fits(thread'[i])
  BY <1>1, <1>3, RequestMovesPosts
<1>5. \A i \in DOMAIN outbox' :
         /\ Fits(outbox'[i])
         /\ outbox'[i].notes # {} => i = 1 /\ outbox'[i].kind \in {"review", "summary"}
  <2> SUFFICES ASSUME NEW i \in DOMAIN outbox'
               PROVE  /\ Fits(outbox'[i])
                      /\ outbox'[i].notes # {} => i = 1 /\ outbox'[i].kind \in {"review", "summary"}
    OBVIOUS
  <2>1. CASE i \in DOMAIN outbox /\ outbox'[i] = outbox[i]
    BY <1>3, <2>1
  <2>2. CASE \E j \in DOMAIN outbox : j # 1 /\ outbox'[i] = outbox[j]
    BY <1>3, <2>2
  <2>3. CASE /\ i = 1 /\ outbox'[i].kind = "summary"
             /\ outbox'[i].inline = {} /\ outbox'[i].notes = outbox[1].notes
    BY <1>1, <1>3, <2>3 DEF Fits
  <2>. QED BY <1>1, <2>1, <2>2, <2>3, OutboxAfterRequest
<1>6. /\ \A f \in outbox[1].inline : InlineIsUnderWay(f)'
      /\ \A f \in outbox[1].notes : NoteIsUnderWay(f)'
      /\ \A i \in DOMAIN outbox : i # 1 =>
            \/ \E j \in DOMAIN outbox' : outbox'[j] = outbox[i]
            \/ \A f : InlineIsUnserved(f)'
  BY RequestLeavesFindings
<1>. HIDE DEF valid
<1>7. ASSUME NEW f \in valid
      PROVE  InlineIsUnderWay(f)'
  <2>1. CASE InlineIsUnserved(f) \/ \E i \in DOMAIN thread : f \in thread[i].inline
    BY <2>1, ShownRemains DEF InlineIsUnderWay
  <2>2. CASE f \in outbox[1].inline
    BY <1>6, <2>2
  <2>3. CASE \E i \in DOMAIN outbox : i # 1 /\ f \in outbox[i].inline
    BY <1>6, <2>3 DEF InlineIsUnderWay
  <2>. QED BY <1>3, <2>1, <2>2, <2>3 DEF InlineIsUnderWay
<1>8. ASSUME NEW f \in review \ valid
      PROVE  NoteIsUnderWay(f)'
  <2>1. CASE NoteIsUnserved(f) \/ \E i \in DOMAIN thread : f \in thread[i].notes
    BY <2>1, ShownRemains DEF NoteIsUnderWay
  <2>2. CASE \E i \in DOMAIN outbox : f \in outbox[i].notes
    BY <1>3, <1>6, <2>2
  <2>. QED BY <1>3, <2>1, <2>2 DEF NoteIsUnderWay
<1>. QED BY <1>4, <1>5, <1>7, <1>8

LEMMA StepKeepsReview ==
    ASSUME PatchesAreWellFormed
    PROVE  IInv /\ PostsDiffer /\ Origins /\ ReviewIsUnderWay /\ [Next]_vars => ReviewIsUnderWay'
<1>. SUFFICES ASSUME IInv, PostsDiffer, Origins, ReviewIsUnderWay, [Next]_vars
              PROVE  ReviewIsUnderWay'
  OBVIOUS
<1>1. ASSUME UNCHANGED <<job, fetched, review, thread, unserved>>, UNCHANGED outbox,
             at' \in {"posting", "succeeded"} => at \in {"posting", "succeeded"}
      PROVE  ReviewIsUnderWay'
  <2>1. /\ ValidFindings(review, fetched)' = ValidFindings(review, fetched)
        /\ \A p : Fits(p)' <=> Fits(p)
    BY <1>1, SameReview
  <2>2. \A f : /\ InlineIsUnderWay(f)' <=> InlineIsUnderWay(f)
               /\ NoteIsUnderWay(f)' <=> NoteIsUnderWay(f)
    BY <1>1 DEF InlineIsUnderWay, NoteIsUnderWay, InlineIsUnserved, NoteIsUnserved
  <2>. QED BY <1>1, <2>1, <2>2 DEF ReviewIsUnderWay
<1>2. ASSUME at' \notin {"posting", "succeeded"}
      PROVE  ReviewIsUnderWay'
  BY <1>2 DEF ReviewIsUnderWay
<1>3. Raise => at' \notin {"posting", "succeeded"}
  BY DEF Raise
<1>4. CASE Start
  <2>1. at' \notin {"posting", "succeeded"}
    BY <1>3, <1>4 DEF Start, StartJob, StartCi, StartCli, Prepared, Failed
  <2>. QED BY <1>2, <2>1
<1>5. CASE Prepare
  <2>1. at' \notin {"posting", "succeeded"}
    BY <1>3, <1>5 DEF Prepare
  <2>. QED BY <1>2, <2>1
<1>6. CASE Invoke \/ Repair
  <2>1. CASE \E output \in AgentOutputs : PostReviewResult(ParseReviewOutput(output))
    <3>1. PICK output \in AgentOutputs : PostReviewResult(ParseReviewOutput(output))
      BY <2>1
    <3>. DEFINE r == ParseReviewOutput(output)
    <3>2. /\ review' = r /\ at' = "posting"
          /\ outbox' = IF Posted(r) THEN PostsFor(r) ELSE <<>>
      BY <3>1 DEF PostReviewResult
    <3>3. UNCHANGED <<job, fetched, thread>> /\ thread = <<>>
      BY <1>6 DEF Invoke, Repair, IInv, PostsFitTheStage, FailedKinds, ErrorKinds, Quiet
    <3>4. r = NoReview \/ (r \subseteq Finding /\ IsFiniteSet(r))
      BY ParsedOutputs
    <3>. HIDE DEF r
    <3>. SUFFICES ASSUME r # NoReview, ~job.dry
                  PROVE  ReviewIsUnderWay'
      BY <3>2, <3>3 DEF ReviewIsUnderWay
    <3>5. outbox' = PostsFor(r) /\ thread' = <<>>
      BY <3>2, <3>3 DEF Posted
    <3>6. PostsAreRight(r, outbox')
      BY <3>4, <3>5, PostsForIsRight
    <3>. DEFINE valid == ValidFindings(r, fetched)
    <3>7. ValidFindings(review, fetched)' = valid
      BY <3>2, <3>3
    <3>8. \A p : Fits(p)' <=> p.inline \subseteq valid /\ p.notes \subseteq r \ valid
      BY <3>2, <3>7 DEF Fits
    <3>9. /\ \A i \in DOMAIN outbox' :
                /\ outbox'[i].inline \subseteq valid /\ outbox'[i].notes \subseteq r \ valid
                /\ outbox'[i].notes # {} => i = 1 /\ outbox'[i].kind \in {"review", "summary"}
          /\ \A f \in valid : \E i \in DOMAIN outbox' : f \in outbox'[i].inline
          /\ \A f \in r \ valid : \E i \in DOMAIN outbox' : f \in outbox'[i].notes
      BY <3>6 DEF PostsAreRight
    <3>10. DOMAIN thread' = {}
      BY <3>5
    <3>. HIDE DEF valid
    <3>11. /\ \A f \in valid : InlineIsUnderWay(f)'
           /\ \A f \in r \ valid : NoteIsUnderWay(f)'
      BY <3>9 DEF InlineIsUnderWay, NoteIsUnderWay
    <3>. QED BY <3>2, <3>7, <3>8, <3>9, <3>10, <3>11 DEF ReviewIsUnderWay
  <2>2. CASE at' \notin {"posting", "succeeded"}
    BY <1>2, <2>2
  <2>. QED BY <1>3, <1>6, <2>1, <2>2 DEF Invoke, Repair
<1>7. CASE RequestStep
  BY <1>7, RequestKeepsReview
<1>8. CASE Return
  BY <1>1, <1>2, <1>3, <1>8 DEF Return
<1>9. CASE Escapes
  <2>1. at' \notin {"posting", "succeeded"}
    BY <1>9, EscapeFacts DEF IInv
  <2>. QED BY <1>2, <2>1
<1>10. CASE UNCHANGED vars
  BY <1>1, <1>10 DEF vars
<1>. QED BY <1>4, <1>5, <1>6, <1>7, <1>8, <1>9, <1>10 DEF Next, RequestStep

LEMMA AllFindingsShown ==
    ASSUME PatchesAreWellFormed, IInv, Origins, ReviewIsUnderWay
    PROVE  FindingsAreShown
<1>. DEFINE valid == ValidFindings(review, fetched)
<1>. SUFFICES ASSUME at = "succeeded", review # NoReview, ~job.dry, NEW f \in review
              PROVE  IF InDiff(f, fetched)
                     THEN /\ InlineIsUnserved(f) \/ \E i \in DOMAIN thread : f \in thread[i].inline
                          /\ \A j \in DOMAIN thread : f \notin thread[j].notes
                     ELSE /\ NoteIsUnserved(f) \/ \E i \in DOMAIN thread : f \in thread[i].notes
                          /\ \A j \in DOMAIN thread : f \notin thread[j].inline
  BY DEF FindingsAreShown
<1>1. DOMAIN outbox = {}
  <2>1. outbox = <<>>
    BY DEF IInv, TypeOK
  <2>. QED BY <2>1
<1>2. f \in valid <=> InDiff(f, fetched)
  BY ValidMeansInDiff
<1>3. /\ \A j \in DOMAIN thread : thread[j].inline \subseteq valid /\ thread[j].notes \subseteq review \ valid
      /\ f \in valid => InlineIsUnderWay(f)
      /\ f \in review \ valid => NoteIsUnderWay(f)
  BY DEF ReviewIsUnderWay, Fits
<1>. HIDE DEF valid
<1>4. CASE f \in valid
  BY <1>1, <1>2, <1>3, <1>4 DEF InlineIsUnderWay
<1>5. CASE f \notin valid
  BY <1>1, <1>2, <1>3, <1>5 DEF NoteIsUnderWay
<1>. QED BY <1>4, <1>5

LEMMA AllPromptedLinesInDiff ==
    ASSUME PatchesAreWellFormed, IInv, Origins
    PROVE  PromptedLinesAreInTheDiff
<1>. SUFFICES ASSUME NEW p \in DOMAIN fetched, NEW l \in AnnotateDiff(fetched[p])
              PROVE  l.line \in DiffLinesOf(fetched[p], IF l.kind = "minus" THEN "LEFT" ELSE "RIGHT")
  BY DEF PromptedLinesAreInTheDiff
<1>1. fetched[p] \in WellFormedPatch
  BY DEF Origins, FetchedFilesAreTheJobs, PatchesAreWellFormed, IInv, TypeOK
<1>2. l.line \in ParseDiffLines(fetched[p])[IF l.kind = "minus" THEN "LEFT" ELSE "RIGHT"]
  BY <1>1, PromptedLinesAreAccepted
<1>3. (IF l.kind = "minus" THEN "LEFT" ELSE "RIGHT") \in Sides
  BY DEF Sides
<1>. QED BY <1>1, <1>2, <1>3, ParsedLinesAreTheDiff

-----------------------------------------------------------------------------
(* Webhooks.                                                               *)

\* Each host names its own actions in its events.
ActionsFitTheKind ==
    \A h \in Hooks :
       /\ h.kind = "pull_request" =>
            h.action \notin {"open", "reopen", "update", "update_with_oldrev"}
       /\ h.kind = "merge_request" =>
            h.action \notin {"opened", "reopened", "synchronize", "ready_for_review"}

LEMMA EventTypes ==
    ASSUME NEW h \in HookType, NEW host \in {"github", "gitlab"}
    PROVE  ParseEvent(host, h) \in CommentTypes \cup LifecycleTypes \cup {"none"}
<1>1. /\ ParseIssueComment(h) \in CommentTypes \cup {"none"}
      /\ ParseReviewComment(h) \in CommentTypes \cup {"none"}
      /\ ParseReview(h) \in CommentTypes \cup {"none"}
      /\ ParseNote(h) \in CommentTypes \cup {"none"}
  BY DEF ParseIssueComment, ParseReviewComment, ParseReview, ParseNote, CommentTypes
<1>2. ParsePullRequest(h) \in LifecycleTypes \cup {"none"}
  BY DEF ParsePullRequest, PR_ACTION_TO_EVENT_TYPE, LifecycleTypes
<1>3. ParseMergeRequest(h) \in LifecycleTypes \cup {"none"}
  BY DEF ParseMergeRequest, LifecycleTypes
<1>. QED BY <1>1, <1>2, <1>3 DEF ParseEvent

\* A comment is parsed into an event exactly if the documentation speaks of it.
LEMMA CommentEvents ==
    ASSUME NEW h \in HookType, NEW host \in {"github", "gitlab"}
    PROVE  ParseEvent(host, h) \in CommentTypes <=>
             /\ h.kind \in CommentKinds
             /\ IF host = "github"
                THEN /\ h.kind # "note"
                     /\ h.action = (IF h.kind = "pull_request_review" THEN "submitted"
                                                                     ELSE "created")
                ELSE h.kind = "note"
             /\ h.kind \in {"issue_comment", "note"} => h.on_pr
<1>1. /\ ParseIssueComment(h) \in CommentTypes <=> h.action = "created" /\ h.on_pr
      /\ ParseReviewComment(h) \in CommentTypes <=> h.action = "created"
      /\ ParseReview(h) \in CommentTypes <=> h.action = "submitted"
      /\ ParseNote(h) \in CommentTypes <=> h.on_pr
  BY DEF ParseIssueComment, ParseReviewComment, ParseReview, ParseNote, CommentTypes
<1>2. ParsePullRequest(h) \notin CommentTypes /\ ParseMergeRequest(h) \notin CommentTypes
  BY DEF ParsePullRequest, PR_ACTION_TO_EVENT_TYPE, ParseMergeRequest, CommentTypes
<1>3. "none" \notin CommentTypes
  BY DEF CommentTypes
<1>. QED BY <1>1, <1>2, <1>3 DEF ParseEvent, CommentKinds

\* A change of a pull request that is parsed into a trigger is one the table names,
\* and the other way round for the actions of its host.
LEMMA LifecycleEvents ==
    ASSUME NEW h \in HookType, NEW host \in {"github", "gitlab"},
           NEW p \in PolicyType, p.bot
    PROVE  /\ ParseEvent(host, h) \in p.triggers => InvitesByTrigger(host, p, h)
           /\ /\ InvitesByTrigger(host, p, h)
              /\ h.kind = "pull_request" =>
                   h.action \notin {"open", "reopen", "update", "update_with_oldrev"}
              /\ h.kind = "merge_request" =>
                   h.action \notin {"opened", "reopened", "synchronize", "ready_for_review"}
              => ParseEvent(host, h) \in p.triggers
<1>0. p.triggers \subseteq LifecycleTypes
  BY DEF PolicyType
<1>1. /\ "none" \notin LifecycleTypes
      /\ \A t \in CommentTypes : t \notin LifecycleTypes
  BY DEF LifecycleTypes, CommentTypes
<1>2. /\ ParseIssueComment(h) \notin LifecycleTypes /\ ParseReviewComment(h) \notin LifecycleTypes
      /\ ParseReview(h) \notin LifecycleTypes /\ ParseNote(h) \notin LifecycleTypes
  BY DEF ParseIssueComment, ParseReviewComment, ParseReview, ParseNote, LifecycleTypes
<1>3. CASE host = "github" /\ h.kind = "pull_request"
  <2>1. ParseEvent(host, h) = ParsePullRequest(h)
    BY <1>3 DEF ParseEvent
  <2>2. ParsePullRequest(h) =
          IF h.draft THEN "none"
          ELSE CASE h.action = "opened" -> "pr_opened"
                 [] h.action = "synchronize" -> "pr_push"
                 [] h.action = "reopened" -> "pr_reopened"
                 [] h.action = "ready_for_review" -> "pr_ready_for_review"
                 [] OTHER -> "none"
    BY DEF ParsePullRequest, PR_ACTION_TO_EVENT_TYPE
  <2>. QED BY <1>0, <1>1, <1>3, <2>1, <2>2 DEF InvitesByTrigger
<1>4. CASE host = "gitlab" /\ h.kind = "merge_request"
  <2>1. ParseEvent(host, h) = ParseMergeRequest(h)
    BY <1>4 DEF ParseEvent
  <2>. QED BY <1>0, <1>1, <1>4, <2>1 DEF InvitesByTrigger, ParseMergeRequest
<1>5. CASE ~(host = "github" /\ h.kind = "pull_request") /\ ~(host = "gitlab" /\ h.kind = "merge_request")
  <2>1. ParseEvent(host, h) \notin LifecycleTypes
    BY <1>1, <1>2, <1>5 DEF ParseEvent
  <2>2. ~InvitesByTrigger(host, p, h)
    BY <1>5 DEF InvitesByTrigger
  <2>. QED BY <1>0, <2>1, <2>2
<1>. QED BY <1>3, <1>4, <1>5

\* The handler goes on to react exactly where the documentation invites a review.
LEMMA RouteIsInvitation ==
    ASSUME NEW h \in HookType, NEW p \in PolicyType, job.host \in {"github", "gitlab"},
           VerifyWebhook(p, h)
    PROVE  /\ Route(p, h) \in {"ignored", "filtered", "no_mention", "unauthorized", "acknowledging"}
           /\ Route(p, h) = "acknowledging" => Invited(job.host, p, h)
           /\ /\ Invited(job.host, p, h)
              /\ h.kind = "pull_request" =>
                   h.action \notin {"open", "reopen", "update", "update_with_oldrev"}
              /\ h.kind = "merge_request" =>
                   h.action \notin {"opened", "reopened", "synchronize", "ready_for_review"}
              => Route(p, h) = "acknowledging"
<1>. DEFINE host == job.host
            type == ParseEvent(host, h)
<1>1. type \in CommentTypes \cup LifecycleTypes \cup {"none"}
  BY EventTypes
<1>2. /\ "none" \notin CommentTypes \cup LifecycleTypes
      /\ \A t \in CommentTypes : t \notin LifecycleTypes
      /\ p.triggers \subseteq LifecycleTypes
  BY DEF CommentTypes, LifecycleTypes, PolicyType
<1>3. p.bot \in BOOLEAN /\ h.text \in {"plain", "mention", "mention_prompt"}
  BY DEF PolicyType, HookType
<1>4. FilterEvent(p, h) <=> /\ p.allowed_repos = {} \/ h.repo \in p.allowed_repos
                            /\ \A t \in h.tags : t \notin p.exclude
                            /\ p.include = {} \/ \E t \in h.tags : t \in p.include
  BY DEF FilterEvent, ShouldProcessEvent
<1>5. h.signed \/ ~p.secret
  BY DEF VerifyWebhook
<1>6. InvitesByComment(host, p, h) <=>
        type \in CommentTypes /\ p.bot /\ h.text = "mention_prompt" /\ h.author \in p.allowed_users
  BY CommentEvents DEF InvitesByComment
<1>7. InvitesByTrigger(host, p, h) => p.bot
  BY DEF InvitesByTrigger
<1>8. p.bot => (type \in p.triggers => InvitesByTrigger(host, p, h))
  BY LifecycleEvents
<1>9. /\ InvitesByTrigger(host, p, h)
      /\ h.kind = "pull_request" =>
           h.action \notin {"open", "reopen", "update", "update_with_oldrev"}
      /\ h.kind = "merge_request" =>
           h.action \notin {"opened", "reopened", "synchronize", "ready_for_review"}
      => type \in p.triggers
  BY <1>7, LifecycleEvents
<1>10. Invited(host, p, h) <=>
         FilterEvent(p, h) /\ (InvitesByComment(host, p, h) \/ InvitesByTrigger(host, p, h))
  BY <1>4, <1>5 DEF Invited
<1>11. Route(p, h) =
         IF type = "none" THEN "ignored"
         ELSE IF ~FilterEvent(p, h) THEN "filtered"
         ELSE IF type \in p.triggers THEN DispatchLifecycle(p, type)
         ELSE DispatchComment(p, h, type)
  BY DEF Route
<1>. HIDE DEF type
<1>12. type \in p.triggers =>
         DispatchLifecycle(p, type) = IF p.bot THEN "acknowledging" ELSE "ignored"
  BY <1>2 DEF DispatchLifecycle
<1>13. DispatchComment(p, h, type) =
         IF type \notin CommentTypes THEN "ignored"
         ELSE IF ~p.bot \/ h.text # "mention_prompt" THEN "no_mention"
         ELSE IF h.author \in p.allowed_users THEN "acknowledging" ELSE "unauthorized"
  BY <1>3 DEF DispatchComment
<1>. QED BY <1>1, <1>2, <1>6, <1>7, <1>8, <1>9, <1>10, <1>11, <1>12, <1>13

\* A request that is not accepted has started no job, and only what is invited gets on.
WebhookInv ==
    /\ request \in Responses \cup {"none", "received", "acknowledging", "enqueueing"}
    /\ request # "none" => job.runner \in {"process", "pod"}
    /\ request \notin {"accepted", "none"} => at = "starting" /\ thread = <<>>
    /\ request \in {"acknowledging", "enqueueing", "accepted"} => invited
    /\ request \in {"received", "none"} => ~invited
    /\ eyes => invited
    /\ invited \in BOOLEAN /\ eyes \in BOOLEAN

\* An invitation is not turned down.
InvitationsAreAccepted ==
    invited => request \in {"acknowledging", "enqueueing", "accepted", "error"}

LEMMA WebhookStep == [WebhookNext]_allVars => [Next]_vars
  BY DEF WebhookNext, HandleWebhook, AcknowledgeEvent, EnqueueJob, JobStep, allVars

LEMMA JobStays == [Next]_vars => job' = job
<1>. SUFFICES ASSUME [Next]_vars
              PROVE  job' = job
  OBVIOUS
<1>. QED
  BY DEF Next, vars, Start, Prepare, Invoke, Repair, Done, NoVersions, Fails, Retry,
         Escapes, Return

LEMMA InitWebhookInv == WebhookInit => WebhookInv /\ InvitationsAreAccepted
  BY DEF WebhookInit, WebhookInv, InvitationsAreAccepted, Init, Responses

LEMMA HandlePreserves ==
    ASSUME IInv, WebhookInv, HandleWebhook
    PROVE  WebhookInv' /\ (ActionsFitTheKind => InvitationsAreAccepted')
<1>1. PICK h \in Hooks, p \in Policies :
         /\ invited' = Invited(job.host, p, h)
         /\ IF VerifyWebhook(p, h)
            THEN request' \in {Route(p, h), "error"}
            ELSE request' = "unsigned"
  BY DEF HandleWebhook
<1>2. /\ request = "received" /\ UNCHANGED <<vars, eyes>> /\ ~eyes
      /\ h \in HookType /\ p \in PolicyType /\ job.host \in {"github", "gitlab"}
  BY HookAssumption, PolicyAssumption, JobsAssumption
  DEF HandleWebhook, WebhookInv, IInv, TypeOK
<1>3. UNCHANGED <<job, at, thread>>
  BY <1>2 DEF vars
<1>4. invited' \in BOOLEAN
  BY <1>1 DEF Invited
<1>5. CASE VerifyWebhook(p, h)
  <2>1. request' \in {"ignored", "filtered", "no_mention", "unauthorized", "acknowledging", "error"}
    BY <1>1, <1>2, <1>5, RouteIsInvitation
  <2>2. request' = "acknowledging" => invited'
    BY <1>1, <1>2, <1>5, RouteIsInvitation
  <2>3. ActionsFitTheKind /\ invited' => request' \in {"acknowledging", "error"}
    BY <1>1, <1>2, <1>5, RouteIsInvitation DEF ActionsFitTheKind
  <2>. QED BY <1>2, <1>3, <1>4, <2>1, <2>2, <2>3
       DEF WebhookInv, InvitationsAreAccepted, Responses
<1>6. CASE ~VerifyWebhook(p, h)
  <2>1. request' = "unsigned" /\ ~invited'
    BY <1>1, <1>6 DEF VerifyWebhook, Invited
  <2>. QED BY <1>2, <1>3, <1>4, <2>1 DEF WebhookInv, InvitationsAreAccepted, Responses
<1>. QED BY <1>5, <1>6

LEMMA StepKeepsWebhooks ==
    IInv /\ WebhookInv /\ [WebhookNext]_allVars =>
        WebhookInv' /\ (ActionsFitTheKind /\ InvitationsAreAccepted => InvitationsAreAccepted')
<1>. SUFFICES ASSUME IInv, WebhookInv, [WebhookNext]_allVars
              PROVE  WebhookInv' /\ (ActionsFitTheKind /\ InvitationsAreAccepted => InvitationsAreAccepted')
  OBVIOUS
<1>0. job' = job
  BY WebhookStep, JobStays
<1>1. CASE HandleWebhook
  BY <1>1, HandlePreserves
<1>2. CASE AcknowledgeEvent
  <2>1. UNCHANGED <<at, thread, invited>> /\ request = "acknowledging"
        /\ request' \in {"enqueueing", "error"} /\ eyes' \in BOOLEAN
    BY <1>2 DEF AcknowledgeEvent, PostReaction, vars, WebhookInv
  <2>. QED BY <1>0, <2>1 DEF WebhookInv, InvitationsAreAccepted, Responses
<1>3. CASE EnqueueJob
  <2>1. UNCHANGED <<at, thread, invited, eyes>> /\ request = "enqueueing"
        /\ request' \in {"accepted", "error"}
    BY <1>3 DEF EnqueueJob, vars
  <2>. QED BY <1>0, <2>1 DEF WebhookInv, InvitationsAreAccepted, Responses
<1>4. CASE JobStep
  BY <1>0, <1>4 DEF JobStep, webhookVars, WebhookInv, InvitationsAreAccepted
<1>5. CASE UNCHANGED allVars
  BY <1>5 DEF allVars, vars, webhookVars, WebhookInv, InvitationsAreAccepted
<1>. QED BY <1>1, <1>2, <1>3, <1>4, <1>5 DEF WebhookNext

-----------------------------------------------------------------------------
(* Theorems.                                                               *)

LEMMA Invariance == WebhookSpec => [](IInv /\ PostsDiffer /\ Origins /\ WebhookInv)
<1>1. WebhookInit => IInv /\ PostsDiffer /\ Origins /\ WebhookInv
  <2>1. Init => PostsDiffer
    <3>1. DOMAIN <<>> = {}
      OBVIOUS
    <3>. QED BY <3>1 DEF Init, PostsDiffer
  <2>. QED BY <2>1, InitIInv, InitOrigins, InitWebhookInv DEF WebhookInit
<1>2. IInv /\ PostsDiffer /\ Origins /\ WebhookInv /\ [WebhookNext]_allVars
        => (IInv /\ PostsDiffer /\ Origins /\ WebhookInv)'
  BY WebhookStep, StepPreserves, StepKeepsPostsDifferent, StepKeepsOrigins, StepKeepsWebhooks
<1>. QED BY <1>1, <1>2, PTL DEF WebhookSpec

\* Every variable of the job keeps its type: requests are under way in three stages
\* only, repairs stay below their limit, and only what was fetched is reviewed.
THEOREM TypeCorrect == WebhookSpec => []TypeOK
<1>1. IInv => TypeOK
  BY DEF IInv
<1>. QED BY <1>1, Invariance, PTL

\* However often answers get lost, only a post whose own answer was lost is shown twice,
\* and a summary besides a review only if the review's was.
THEOREM PostedOnce == WebhookSpec => []NothingIsPostedTwice
<1>1. PostsDiffer => NothingIsPostedTwice
  BY DEF PostsDiffer, NothingIsPostedTwice, Explained
<1>. QED BY <1>1, Invariance, PTL

\* A job keeps the promise of a review, lost answers or not: unless an exception cuts
\* its posting short, a pull request never shows both a review and an error, and the
\* job's status agrees with what it shows; if one does, the job fails.
THEOREM KeepsPromise == WebhookSpec => ImplementsPromise
<1>1. WebhookInit => Promise!Init
  BY InitRefines DEF WebhookInit
<1>2. IInv /\ [WebhookNext]_allVars => [Promise!Next]_(Promise!vars)
  BY WebhookStep, StepRefines
<1>. QED BY <1>1, <1>2, Invariance, PTL DEF WebhookSpec, ImplementsPromise, Promise!Spec

\* On well-formed patches, each finding of a review that succeeded is shown on its lines
\* if they are in the diff, and in the text if they are not, and never in the other way;
\* only the failure of the very requests that were to show it excuses its absence.
THEOREM EveryFindingIsShown ==
    ASSUME PatchesAreWellFormed
    PROVE  WebhookSpec => []FindingsAreShown
<1>1. WebhookInit => ReviewIsUnderWay
  BY DEF WebhookInit, Init, ReviewIsUnderWay
<1>2. IInv /\ PostsDiffer /\ Origins /\ ReviewIsUnderWay /\ [WebhookNext]_allVars => ReviewIsUnderWay'
  BY WebhookStep, StepKeepsReview
<1>3. IInv /\ Origins /\ ReviewIsUnderWay => FindingsAreShown
  BY AllFindingsShown
<1>. QED BY <1>1, <1>2, <1>3, Invariance, PTL DEF WebhookSpec

\* On well-formed patches, each line number in the prompt is one that a comment may be
\* put on.
THEOREM PromptNumbersAreRight ==
    ASSUME PatchesAreWellFormed
    PROVE  WebhookSpec => []PromptedLinesAreInTheDiff
<1>1. IInv /\ Origins => PromptedLinesAreInTheDiff
  BY AllPromptedLinesInDiff
<1>. QED BY <1>1, Invariance, PTL

\* Whatever webhooks arrive under whatever policies, an event that does not invite a
\* review starts no job and leaves neither a reaction nor a post.
THEOREM UninvitedLeaveNoTrace == WebhookSpec => []UninvitedEventsLeaveNoTrace
<1>1. WebhookInv => UninvitedEventsLeaveNoTrace
  BY DEF WebhookInv, UninvitedEventsLeaveNoTrace
<1>. QED BY <1>1, Invariance, PTL

\* An event that invites a review is answered on the pull request, when each host sends
\* its own actions.
THEOREM InvitedAreAnswered ==
    ASSUME ActionsFitTheKind
    PROVE  WebhookSpec => []InvitedEventsAreAnswered
<1>1. WebhookInit => InvitationsAreAccepted
  BY InitWebhookInv
<1>2. IInv /\ WebhookInv /\ InvitationsAreAccepted /\ [WebhookNext]_allVars => InvitationsAreAccepted'
  BY StepKeepsWebhooks
<1>3. IInv /\ WebhookInv /\ InvitationsAreAccepted => InvitedEventsAreAnswered
  <2>. SUFFICES ASSUME IInv, WebhookInv, InvitationsAreAccepted, Settled, invited,
                       request # "error", ErrorIsServed, ~job.dry,
                       at = "succeeded" \/ job.runner = "process"
                PROVE  thread # <<>>
    BY DEF InvitedEventsAreAnswered
  <2>1. request = "accepted" /\ job.runner # "cli" /\ Over
    BY DEF Settled, WebhookInv, InvitationsAreAccepted, Responses
  <2>2. Posted(review)
    BY <2>1 DEF Posted
  <2>. QED BY <2>1, <2>2 DEF Over, IInv, SilenceIsExcused, ErrorIsServed
<1>. QED BY <1>1, <1>2, <1>3, Invariance, PTL DEF WebhookSpec
=============================================================================

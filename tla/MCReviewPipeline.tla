-------------------------- MODULE MCReviewPipeline --------------------------
(* Pull requests with one file of interest, another without a patch and a  *)
(* third that is ignored; the webhooks of one repository that is allowed   *)
(* and of another.                                                         *)
EXTENDS WebhookDispatch

CONSTANTS a, binary, vendored, ours, theirs, alice, mallory, keep, skip

Bodies(n) == UNION {[1 .. k -> {Line(x) : x \in {"minus", "plus", "context"}}] : k \in 1 .. n}

\* One hunk in the middle of a file, a new file, a removed file, and two hunks of
\* which the second is displaced by what the first one adds or removes.
PatchesUpTo(n) ==
    {<<Header(1, 1)>> \o b : b \in Bodies(n)}
    \cup {<<Header(0, 1)>> \o b : b \in {<<Line("plus"), Line("plus")>>}}
    \cup {<<Header(1, 0)>> \o b : b \in {<<Line("minus"), Line("minus")>>}}
    \cup {<<Header(1, 1), Line("plus"), Line("context"), Header(4, 5), Line("minus"), Line("plus")>>,
          <<Header(1, 1), Line("minus"), Line("context"), Header(4, 3), Line("context"), Line("plus")>>}

\* The last line has no newline, in one or both files.
MarkedPatches ==
    {<<Header(1, 1), Line("context"), Line("minus"), Line("marker"), Line("plus"), Line("marker")>>,
     <<Header(1, 1), Line("plus"), Line("context"), Line("marker")>>}

FilesWith(patches) ==
    {[x \in {a, binary} |-> IF x = a THEN patch ELSE <<>>] : patch \in patches}
    \cup {[x \in {a, vendored} |-> patch] : patch \in {<<Header(1, 1), Line("plus")>>}}
    \cup {[x \in {vendored} |-> patch] : patch \in {<<Header(1, 1), Line("plus")>>}}

JobsOf(hosts, runners, dry, files) ==
    [host : hosts, runner : runners, dry : dry, files : files]

\* All patches in the server's own process, the shorter hunks on GitLab, one elsewhere.
SomePatches ==
    {<<Header(1, 1), Line("plus"), Line("context"), Header(4, 5), Line("minus"), Line("plus")>>}

Platforms == {"github", "gitlab"}

MCJobs ==
    JobsOf({"github"}, {"process"}, {FALSE}, FilesWith(PatchesUpTo(3)))
    \cup JobsOf({"gitlab"}, {"process"}, {FALSE}, FilesWith(PatchesUpTo(2)))
    \cup JobsOf(Platforms, {"pod", "ci", "cli"}, BOOLEAN, FilesWith(SomePatches))
    \cup JobsOf(Platforms, {"process"}, {TRUE}, FilesWith(SomePatches))

MarkedJobs == JobsOf(Platforms, {"process", "pod"}, {FALSE}, FilesWith(MarkedPatches))

MCIgnored == {vendored}

Comment(path, side, start, line, suggestion) ==
    [path |-> path, side |-> side, start |-> start, line |-> line, suggestion |-> suggestion]

First == Comment(a, "RIGHT", 0, 1, TRUE)

Comments ==
    {First, Comment(a, "RIGHT", 0, 2, FALSE),
     Comment(a, "LEFT", 0, 2, FALSE), Comment(a, "RIGHT", 1, 2, FALSE),
     Comment(a, "RIGHT", 2, 5, FALSE), Comment(a, "LEFT", 0, 4, FALSE),
     Comment(binary, "RIGHT", 0, 1, FALSE)}

\* A suggestion for a removed line, and lines in the wrong order.
Malformed == {Comment(a, "LEFT", 0, 1, TRUE), Comment(a, "RIGHT", 2, 1, FALSE)}

\* No comment, each of them alone or with the first, or a malformed one with the first.
MCOutputs ==
    {NotJson, {}} \cup {{c} : c \in Comments} \cup {{c, First} : c \in Comments \cup Malformed}

ActionsOf(kind) ==
    CASE kind \in {"issue_comment", "pull_request_review_comment", "note"} -> {"created", "edited"}
      [] kind = "pull_request_review" -> {"submitted", "edited"}
      [] kind = "pull_request" -> {"opened", "reopened", "synchronize", "ready_for_review", "edited"}
      [] kind = "merge_request" -> {"open", "reopen", "update", "update_with_oldrev"}
      [] OTHER -> {"edited"}

MCHooks == {h \in HookType : h.action \in ActionsOf(h.kind)}

Policy(secret, repos, include, exclude, triggers, bot) ==
    [secret |-> secret, allowed_users |-> {alice}, allowed_repos |-> repos, include |-> include,
     exclude |-> exclude, triggers |-> triggers, bot |-> bot]

\* The defaults, every filter in force, some of them, and a server without a bot.
MCPolicies ==
    {Policy(TRUE, {}, {}, {}, {}, TRUE),
     Policy(TRUE, {ours}, {keep}, {skip}, LifecycleTypes, TRUE),
     Policy(TRUE, {ours}, {}, {skip}, {"pr_opened", "pr_push"}, TRUE),
     Policy(FALSE, {}, {keep}, {}, {"pr_ready_for_review"}, TRUE),
     Policy(TRUE, {}, {}, {}, LifecycleTypes, FALSE)}

Finished == Settled /\ UNCHANGED allVars

MCSpec == WebhookInit /\ [][WebhookNext \/ Finished]_allVars /\ WebhookFairness
=============================================================================

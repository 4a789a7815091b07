------------------------------ MODULE DiffLines ------------------------------
(***************************************************************************)
(* review/diff.py: the line numbers of a unified diff, as shown to the     *)
(* model (annotate_diff) and as accepted for inline comments               *)
(* (parse_diff_lines, filter_findings), and what the numbers mean.         *)
(*                                                                         *)
(* A patch is the sequence of the raw lines that splitlines() returns.     *)
(* Only the kind of a line is kept: a hunk header with the two numbers the *)
(* hunk starts at, a removed, an added, a context line, or a "marker",     *)
(* a raw line that belongs to neither file ("\ No newline at end of file"). *)
(***************************************************************************)
EXTENDS Naturals, FiniteSets, SequencesExt

Sides == {"LEFT", "RIGHT"}
Kinds == {"header", "minus", "plus", "context", "marker"}

Header(l, r) == [kind |-> "header", at |-> [LEFT |-> l, RIGHT |-> r]]
Line(k) == [kind |-> k]

\* The sides on which the code counts a raw line: the last branch of its case
\* distinction takes all that starts with neither "-" nor "+".
CountedOn(kind) ==
    CASE kind = "minus" -> {"LEFT"}
      [] kind = "plus" -> {"RIGHT"}
      [] OTHER -> Sides

\* The two counters; both are 0 before the first header.
NoHunk == [s \in Sides |-> 0]

Skips(at, raw) == raw.kind = "header" \/ at = NoHunk

Advance(at, raw) ==
    IF raw.kind = "header" THEN raw.at
    ELSE [s \in Sides |-> IF at # NoHunk /\ s \in CountedOn(raw.kind) THEN at[s] + 1 ELSE at[s]]

\* One iteration of parse_diff_lines().
ParseLine(acc, raw) ==
    [at |-> Advance(acc.at, raw),
     lines |-> [s \in Sides |->
                  IF ~Skips(acc.at, raw) /\ s \in CountedOn(raw.kind)
                  THEN acc.lines[s] \cup {acc.at[s]}
                  ELSE acc.lines[s]]]

\* The loop of parse_diff_lines(): its variables after each number of iterations.
ParseLoop(patch) ==
    LET after[i \in 0 .. Len(patch)] ==
          IF i = 0 THEN [at |-> NoHunk, lines |-> [s \in Sides |-> {}]]
                   ELSE ParseLine(after[i - 1], patch[i])
    IN  after

\* parse_diff_lines(): the line numbers of each side.
ParseDiffLines(patch) == ParseLoop(patch)[Len(patch)].lines

\* Fault: a context line is shown with its number in the old file.
ShownOldSide(kind) == IF kind = "plus" THEN "RIGHT" ELSE "LEFT"

\* The side whose number annotate_diff() prefixes.
ShownSide(kind) == IF kind = "minus" THEN "LEFT" ELSE "RIGHT"

\* One iteration of annotate_diff().
AnnotateLine(acc, raw) ==
    [at |-> Advance(acc.at, raw),
     shown |-> IF Skips(acc.at, raw) THEN acc.shown
               ELSE acc.shown \cup {[kind |-> raw.kind, line |-> acc.at[ShownSide(raw.kind)]]}]

\* The loop of annotate_diff().
AnnotateLoop(patch) ==
    LET after[i \in 0 .. Len(patch)] ==
          IF i = 0 THEN [at |-> NoHunk, shown |-> {}]
                   ELSE AnnotateLine(after[i - 1], patch[i])
    IN  after

\* annotate_diff(): the lines of the prompt, each with the number it is shown with.
AnnotateDiff(patch) == AnnotateLoop(patch)[Len(patch)].shown

-----------------------------------------------------------------------------
(* Findings are records [path, side, start, line]; start = 0 is no start_line. *)

\* build_diff_index(): files without a patch are left out.
BuildDiffIndex(files) ==
    [p \in {q \in DOMAIN files : files[q] # <<>>} |-> ParseDiffLines(files[p])]

Span(f) == (IF f.start = 0 THEN f.line ELSE f.start) .. f.line

\* The lines of one finding are those of the patch.
IsValid(f, files) ==
    LET index == BuildDiffIndex(files) IN
    /\ f.path \in DOMAIN index
    /\ Span(f) \subseteq index[f.path][f.side]

\* filter_findings(): the valid ones; the others are the rejected.
ValidFindings(findings, files) == {f \in findings : IsValid(f, files)}

\* filter_changed_files() with the files that match an ignore pattern.
FilterChangedFiles(files, ignored) ==
    [p \in DOMAIN files \ ignored |-> files[p]]

-----------------------------------------------------------------------------
(* Reference: what a unified diff says, without a loop.                    *)

OnSide(kind, side) ==
    \/ kind = "context"
    \/ kind = "minus" /\ side = "LEFT"
    \/ kind = "plus" /\ side = "RIGHT"

\* The header of the hunk that raw line i belongs to.
HunkOf(patch, i) ==
    CHOOSE h \in 1 .. i :
        /\ patch[h].kind = "header"
        /\ \A j \in h + 1 .. i : patch[j].kind # "header"

InHunk(patch, i) == \E h \in 1 .. i : patch[h].kind = "header"

\* The number of raw line i on a side: where its hunk starts there, and the lines of
\* that side between.
NumberOf(patch, i, side) ==
    LET h == HunkOf(patch, i) IN
    patch[h].at[side]
      + Cardinality({j \in h + 1 .. i - 1 : OnSide(patch[j].kind, side)})

\* The lines of a side that the diff shows.
DiffLinesOf(patch, side) ==
    {NumberOf(patch, i, side) :
       i \in {j \in DOMAIN patch : OnSide(patch[j].kind, side) /\ InHunk(patch, j)}}

\* All lines of the finding are in the diff: where a platform accepts a comment.
InDiff(f, files) ==
    /\ f.path \in DOMAIN files
    /\ Span(f) \subseteq DiffLinesOf(files[f.path], f.side)
=============================================================================

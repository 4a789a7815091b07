--------------------------- MODULE DiffLines_proofs ---------------------------
(***************************************************************************)
(* The two loops of review/diff.py compute what a unified diff says, for   *)
(* every patch, of any length and with any number of hunks.                *)
(*                                                                         *)
(* The argument: the numbers of the reference also satisfy the equations   *)
(* of the loops (BasesAgree, and StepOfAt, StepOfLines, StepOfShown for    *)
(* one iteration), and by induction on the number of iterations only one   *)
(* function does.  Induction is stated for sets of natural numbers         *)
(* (Induction), from the fact that Nat is well-founded.                    *)
(***************************************************************************)
EXTENDS DiffLines, FiniteSetTheorems, TLAPS

\* What hosts send: hunks with at least one line on either side, so that no header has
\* two zeros, and no raw line that belongs to neither file.
HeaderLine == {raw \in [kind : {"header"}, at : [Sides -> Nat]] : raw.at # NoHunk}
BodyLine == [kind : {"minus", "plus", "context"}]
WellFormedPatch == Seq(HeaderLine \cup BodyLine)

-----------------------------------------------------------------------------
(* Induction.                                                              *)

\* A set of natural numbers that has 0 and each successor has them all.
LEMMA Induction ==
    ASSUME NEW S, 0 \in S, \A n \in Nat : n \in S => n + 1 \in S
    PROVE  Nat \subseteq S
<1>. SUFFICES ASSUME Nat \ S # {} PROVE FALSE
  OBVIOUS
<1>1. PICK m \in Nat \ S : \A k \in Nat \ S : <<k, m>> \notin OpToRel(<, Nat)
  <2>. Nat \ S \subseteq Nat
    OBVIOUS
  <2>. QED BY NatLessThanWellFounded, WFMin
<1>2. \A k \in Nat \ S : ~(k < m)
  BY <1>1 DEF OpToRel
<1>3. m # 0 /\ m - 1 \in Nat
  OBVIOUS
<1>4. m - 1 \in S
  BY <1>2, <1>3
<1>. QED BY <1>3, <1>4

-----------------------------------------------------------------------------
(* Hunks.                                                                  *)

IsHunkOf(patch, i, h) ==
    /\ h \in 1 .. i
    /\ patch[h].kind = "header"
    /\ \A j \in h + 1 .. i : patch[j].kind # "header"

\* The lines seen so far have a last header as soon as they have one.
LEMMA HunkExists ==
    ASSUME NEW patch
    PROVE  \A i \in Nat : InHunk(patch, i) => \E h \in 1 .. i : IsHunkOf(patch, i, h)
<1>. DEFINE S == {i \in Nat : InHunk(patch, i) => \E h \in 1 .. i : IsHunkOf(patch, i, h)}
<1>1. 0 \in S
  BY DEF InHunk
<1>2. ASSUME NEW i \in Nat, i \in S
      PROVE  i + 1 \in S
  <2>. SUFFICES ASSUME InHunk(patch, i + 1)
                PROVE  \E h \in 1 .. i + 1 : IsHunkOf(patch, i + 1, h)
    OBVIOUS
  <2>1. CASE patch[i + 1].kind = "header"
    <3>1. IsHunkOf(patch, i + 1, i + 1)
      BY <2>1 DEF IsHunkOf
    <3>. QED BY <3>1
  <2>2. CASE patch[i + 1].kind # "header"
    <3>1. InHunk(patch, i)
      BY <2>2 DEF InHunk
    <3>2. PICK h \in 1 .. i : IsHunkOf(patch, i, h)
      BY <1>2, <3>1
    <3>3. IsHunkOf(patch, i + 1, h)
      BY <2>2, <3>2 DEF IsHunkOf
    <3>. QED BY <3>3
  <2>. QED BY <2>1, <2>2
<1>3. Nat \subseteq S
  <2>. HIDE DEF S
  <2>. QED BY <1>1, <1>2, Induction
<1>. QED BY <1>3

LEMMA HunkFacts ==
    ASSUME NEW patch, NEW i \in Nat, InHunk(patch, i)
    PROVE  IsHunkOf(patch, i, HunkOf(patch, i))
<1>1. PICK h \in 1 .. i : IsHunkOf(patch, i, h)
  BY HunkExists
<1>. QED BY <1>1 DEF HunkOf, IsHunkOf

LEMMA HunkIsUnique ==
    ASSUME NEW patch, NEW i \in Nat, NEW h, IsHunkOf(patch, i, h)
    PROVE  InHunk(patch, i) /\ HunkOf(patch, i) = h
<1>1. InHunk(patch, i)
  BY DEF IsHunkOf, InHunk
<1>2. IsHunkOf(patch, i, HunkOf(patch, i))
  BY <1>1, HunkFacts
<1>3. h \in 1 .. i /\ HunkOf(patch, i) \in 1 .. i
  BY <1>2 DEF IsHunkOf
<1>4. ~(h < HunkOf(patch, i)) /\ ~(HunkOf(patch, i) < h)
  BY <1>2, <1>3 DEF IsHunkOf
<1>. QED BY <1>1, <1>3, <1>4

\* A line that is no header belongs to the hunk of the line before it.
LEMMA HunkContinues ==
    ASSUME NEW patch, NEW i \in Nat, patch[i + 1].kind # "header"
    PROVE  /\ InHunk(patch, i + 1) <=> InHunk(patch, i)
           /\ InHunk(patch, i) => HunkOf(patch, i + 1) = HunkOf(patch, i)
<1>1. InHunk(patch, i + 1) <=> InHunk(patch, i)
  BY DEF InHunk
<1>2. ASSUME InHunk(patch, i)
      PROVE  HunkOf(patch, i + 1) = HunkOf(patch, i)
  <2>1. IsHunkOf(patch, i, HunkOf(patch, i))
    BY <1>2, HunkFacts
  <2>2. IsHunkOf(patch, i + 1, HunkOf(patch, i))
    BY <2>1 DEF IsHunkOf
  <2>. QED BY <2>2, HunkIsUnique
<1>. QED BY <1>1, <1>2

\* A header opens its hunk.
LEMMA HunkOpens ==
    ASSUME NEW patch, NEW i \in Nat, patch[i + 1].kind = "header"
    PROVE  InHunk(patch, i + 1) /\ HunkOf(patch, i + 1) = i + 1
<1>1. IsHunkOf(patch, i + 1, i + 1)
  BY DEF IsHunkOf
<1>. QED BY <1>1, HunkIsUnique

-----------------------------------------------------------------------------
(* The counters.                                                           *)

\* What line n + 1 of the patch is numbered, if its hunk reaches so far.
NextNumber(patch, n, s) ==
    patch[HunkOf(patch, n)].at[s]
      + Cardinality({j \in HunkOf(patch, n) + 1 .. n : OnSide(patch[j].kind, s)})

\* The counters after n lines.
At(patch, n) == IF InHunk(patch, n) THEN [s \in Sides |-> NextNumber(patch, n, s)] ELSE NoHunk

LEMMA LineTypes ==
    ASSUME NEW patch \in WellFormedPatch, NEW i \in 1 .. Len(patch)
    PROVE  /\ patch[i].kind \in {"header", "minus", "plus", "context"}
           /\ patch[i].kind = "header" =>
                patch[i].at \in [Sides -> Nat] /\ patch[i].at # NoHunk
<1>1. patch[i] \in HeaderLine \cup BodyLine
  BY DEF WellFormedPatch
<1>2. CASE patch[i] \in HeaderLine
  BY <1>2 DEF HeaderLine
<1>3. CASE patch[i] \in BodyLine
  BY <1>3 DEF BodyLine
<1>. QED BY <1>1, <1>2, <1>3

LEMMA CountIsNat ==
    ASSUME NEW patch, NEW h \in Nat, NEW n \in Nat, NEW s
    PROVE  /\ IsFiniteSet({j \in h + 1 .. n : OnSide(patch[j].kind, s)})
           /\ Cardinality({j \in h + 1 .. n : OnSide(patch[j].kind, s)}) \in Nat
<1>1. IsFiniteSet(h + 1 .. n)
  BY FS_Interval
<1>2. {j \in h + 1 .. n : OnSide(patch[j].kind, s)} \in SUBSET (h + 1 .. n)
  OBVIOUS
<1>. QED BY <1>1, <1>2, FS_Subset, FS_CardinalityType

\* Within a hunk the counters are numbers, and not both 0.
LEMMA CountersInHunk ==
    ASSUME NEW patch \in WellFormedPatch, NEW n \in 0 .. Len(patch), InHunk(patch, n)
    PROVE  /\ \A s \in Sides : NextNumber(patch, n, s) \in Nat
           /\ At(patch, n) = [s \in Sides |-> NextNumber(patch, n, s)]
           /\ At(patch, n) # NoHunk
<1>. DEFINE h == HunkOf(patch, n)
            count(s) == Cardinality({j \in h + 1 .. n : OnSide(patch[j].kind, s)})
<1>0. Len(patch) \in Nat
  BY DEF WellFormedPatch
<1>1. h \in 1 .. n /\ patch[h].kind = "header"
  BY <1>0, HunkFacts DEF IsHunkOf
<1>2. patch[h].at \in [Sides -> Nat] /\ patch[h].at # NoHunk
  BY <1>0, <1>1, LineTypes
<1>3. \A s \in Sides : count(s) \in Nat
  <2>1. h \in Nat /\ n \in Nat
    BY <1>0, <1>1
  <2>. HIDE DEF h
  <2>. QED BY <2>1, CountIsNat
<1>4. \A s \in Sides : NextNumber(patch, n, s) = patch[h].at[s] + count(s)
  BY DEF NextNumber
<1>5. PICK s \in Sides : patch[h].at[s] # 0
  BY <1>2 DEF NoHunk
<1>. HIDE DEF h, count
<1>6. \A t \in Sides : NextNumber(patch, n, t) \in Nat
  BY <1>2, <1>3, <1>4
<1>7. NextNumber(patch, n, s) # 0
  BY <1>2, <1>3, <1>4, <1>5
<1>8. At(patch, n) = [t \in Sides |-> NextNumber(patch, n, t)]
  BY DEF At
<1>. QED BY <1>6, <1>7, <1>8 DEF NoHunk

\* One more line of the hunk is counted on its sides.
LEMMA NumberAdvances ==
    ASSUME NEW patch \in WellFormedPatch, NEW n \in Nat, n + 1 \in 1 .. Len(patch),
           InHunk(patch, n), patch[n + 1].kind # "header", NEW s \in Sides
    PROVE  NextNumber(patch, n + 1, s) =
             IF s \in CountedOn(patch[n + 1].kind) THEN NextNumber(patch, n, s) + 1
                                                   ELSE NextNumber(patch, n, s)
<1>. DEFINE h == HunkOf(patch, n)
            seen == {j \in h + 1 .. n : OnSide(patch[j].kind, s)}
            now == {j \in h + 1 .. n + 1 : OnSide(patch[j].kind, s)}
<1>1. h \in 1 .. n /\ patch[h].kind = "header"
  BY HunkFacts DEF IsHunkOf
<1>2. HunkOf(patch, n + 1) = h
  BY HunkContinues
<1>3. IsFiniteSet(seen) /\ Cardinality(seen) \in Nat
  <2>1. h \in Nat
    BY <1>1
  <2>. HIDE DEF h
  <2>. QED BY <2>1, CountIsNat
<1>4. OnSide(patch[n + 1].kind, s) <=> s \in CountedOn(patch[n + 1].kind)
  <2>1. patch[n + 1].kind \in {"minus", "plus", "context"}
    BY LineTypes
  <2>. QED BY <2>1 DEF OnSide, CountedOn, Sides
<1>5. now = IF OnSide(patch[n + 1].kind, s) THEN seen \cup {n + 1} ELSE seen
  BY <1>1
<1>6. n + 1 \notin seen
  OBVIOUS
<1>7. Cardinality(now) = IF s \in CountedOn(patch[n + 1].kind) THEN Cardinality(seen) + 1
                                                               ELSE Cardinality(seen)
  <2>. HIDE DEF seen, now
  <2>1. Cardinality(seen \cup {n + 1}) = Cardinality(seen) + 1
    BY <1>3, <1>6, FS_AddElement
  <2>. QED BY <1>4, <1>5, <2>1
<1>8. patch[h].at[s] \in Nat
  <2>1. Len(patch) \in Nat
    BY DEF WellFormedPatch
  <2>. QED BY <1>1, <2>1, LineTypes
<1>9. NextNumber(patch, n, s) = patch[h].at[s] + Cardinality(seen)
  BY DEF NextNumber
<1>10. NextNumber(patch, n + 1, s) = patch[h].at[s] + Cardinality(now)
  BY <1>2 DEF NextNumber
<1>. HIDE DEF h, seen, now
<1>. QED BY <1>3, <1>7, <1>8, <1>9, <1>10

-----------------------------------------------------------------------------
(* One iteration.                                                          *)

LEMMA StepOfAt ==
    ASSUME NEW patch \in WellFormedPatch, NEW n \in Nat, n + 1 \in 1 .. Len(patch)
    PROVE  /\ Skips(At(patch, n), patch[n + 1]) <=>
                patch[n + 1].kind = "header" \/ ~InHunk(patch, n)
           /\ At(patch, n + 1) = Advance(At(patch, n), patch[n + 1])
<1>0. Len(patch) \in Nat /\ n \in 0 .. Len(patch) /\ n + 1 \in 0 .. Len(patch)
  BY DEF WellFormedPatch
<1>1. (At(patch, n) = NoHunk) <=> ~InHunk(patch, n)
  BY <1>0, CountersInHunk DEF At
<1>2. CASE patch[n + 1].kind = "header"
  <2>1. InHunk(patch, n + 1) /\ HunkOf(patch, n + 1) = n + 1
    BY <1>2, HunkOpens
  <2>2. patch[n + 1].at \in [Sides -> Nat]
    BY <1>2, LineTypes
  <2>3. \A s \in Sides : NextNumber(patch, n + 1, s) = patch[n + 1].at[s]
    <3> SUFFICES ASSUME NEW s \in Sides
                 PROVE  NextNumber(patch, n + 1, s) = patch[n + 1].at[s]
      OBVIOUS
    <3>1. {j \in (n + 1) + 1 .. n + 1 : OnSide(patch[j].kind, s)} = {}
      OBVIOUS
    <3>2. NextNumber(patch, n + 1, s) = patch[n + 1].at[s] + 0
      BY <2>1, <3>1, FS_EmptySet DEF NextNumber
    <3>. QED BY <2>2, <3>2
  <2>4. At(patch, n + 1) = patch[n + 1].at
    BY <2>1, <2>2, <2>3 DEF At
  <2>. QED BY <1>1, <1>2, <2>4 DEF Skips, Advance
<1>3. CASE patch[n + 1].kind # "header" /\ InHunk(patch, n)
  <2>1. InHunk(patch, n + 1)
    BY <1>3, HunkContinues
  <2>2. \A s \in Sides : At(patch, n)[s] = NextNumber(patch, n, s)
    BY <1>3 DEF At
  <2>3. \A s \in Sides : NextNumber(patch, n + 1, s) =
                           IF s \in CountedOn(patch[n + 1].kind) THEN At(patch, n)[s] + 1
                                                                 ELSE At(patch, n)[s]
    BY <1>3, <2>2, NumberAdvances
  <2>4. At(patch, n + 1) = [s \in Sides |-> NextNumber(patch, n + 1, s)]
    BY <2>1 DEF At
  <2>. QED BY <1>1, <1>3, <2>3, <2>4 DEF Skips, Advance
<1>4. CASE patch[n + 1].kind # "header" /\ ~InHunk(patch, n)
  <2>1. ~InHunk(patch, n + 1)
    BY <1>4, HunkContinues
  <2>2. Advance(NoHunk, patch[n + 1]) = NoHunk
    BY <1>4 DEF Advance, NoHunk
  <2>. QED BY <1>1, <1>4, <2>1, <2>2 DEF Skips, At
<1>. QED BY <1>2, <1>3, <1>4

\* The number of the next line of a hunk is in the counter of its side.
LEMMA CounterIsNumber ==
    ASSUME NEW patch, NEW n \in Nat, InHunk(patch, n), patch[n + 1].kind # "header",
           NEW s \in Sides
    PROVE  At(patch, n)[s] = NumberOf(patch, n + 1, s)
<1>1. HunkOf(patch, n + 1) = HunkOf(patch, n)
  BY HunkContinues
<1>2. (n + 1) - 1 = n
  OBVIOUS
<1>3. At(patch, n)[s] = NextNumber(patch, n, s)
  BY DEF At
<1>. QED BY <1>1, <1>2, <1>3 DEF NextNumber, NumberOf

\* What the first n lines of the patch contribute to DiffLinesOf().
LinesTo(patch, n) ==
    [s \in Sides |->
       {NumberOf(patch, i, s) :
          i \in {j \in 1 .. n : OnSide(patch[j].kind, s) /\ InHunk(patch, j)}}]

LEMMA StepOfLines ==
    ASSUME NEW patch \in WellFormedPatch, NEW n \in Nat, n + 1 \in 1 .. Len(patch)
    PROVE  [at |-> At(patch, n + 1), lines |-> LinesTo(patch, n + 1)] =
             ParseLine([at |-> At(patch, n), lines |-> LinesTo(patch, n)], patch[n + 1])
<1>. DEFINE raw == patch[n + 1]
            here(m, s) == {j \in 1 .. m : OnSide(patch[j].kind, s) /\ InHunk(patch, j)}
            adds(s) == ~Skips(At(patch, n), raw) /\ s \in CountedOn(raw.kind)
<1>1. \A s \in Sides : adds(s) <=> OnSide(raw.kind, s) /\ InHunk(patch, n + 1)
  <2>1. raw.kind \in {"header", "minus", "plus", "context"}
    BY LineTypes
  <2>2. CASE raw.kind = "header"
    BY <2>2, StepOfAt DEF OnSide
  <2>3. CASE raw.kind \in {"minus", "plus", "context"}
    <3>1. \A s \in Sides : OnSide(raw.kind, s) <=> s \in CountedOn(raw.kind)
      BY <2>3 DEF OnSide, CountedOn, Sides
    <3>2. Skips(At(patch, n), raw) <=> ~InHunk(patch, n + 1)
      BY <2>3, StepOfAt, HunkContinues
    <3>. QED BY <3>1, <3>2
  <2>. QED BY <2>1, <2>2, <2>3
<1>2. \A s \in Sides : adds(s) => At(patch, n)[s] = NumberOf(patch, n + 1, s)
  BY StepOfAt, CounterIsNumber
<1>3. \A s \in Sides : here(n + 1, s) = IF adds(s) THEN here(n, s) \cup {n + 1} ELSE here(n, s)
  <2>1. 1 .. n + 1 = (1 .. n) \cup {n + 1}
    OBVIOUS
  <2>. HIDE DEF adds
  <2>. QED BY <1>1, <2>1
<1>4. \A s \in Sides : LinesTo(patch, n + 1)[s] =
                         IF adds(s) THEN LinesTo(patch, n)[s] \cup {At(patch, n)[s]}
                                    ELSE LinesTo(patch, n)[s]
  <2> SUFFICES ASSUME NEW s \in Sides
               PROVE  LinesTo(patch, n + 1)[s] =
                        IF adds(s) THEN LinesTo(patch, n)[s] \cup {At(patch, n)[s]}
                                   ELSE LinesTo(patch, n)[s]
    OBVIOUS
  <2>1. /\ LinesTo(patch, n)[s] = {NumberOf(patch, i, s) : i \in here(n, s)}
        /\ LinesTo(patch, n + 1)[s] = {NumberOf(patch, i, s) : i \in here(n + 1, s)}
    BY DEF LinesTo
  <2>2. CASE adds(s)
    <3>1. here(n + 1, s) = here(n, s) \cup {n + 1}
      BY <1>3, <2>2
    <3>. HIDE DEF adds, here
    <3>. QED BY <1>2, <2>1, <2>2, <3>1
  <2>3. CASE ~adds(s)
    <3>1. here(n + 1, s) = here(n, s)
      BY <1>3, <2>3
    <3>. HIDE DEF adds, here
    <3>. QED BY <2>1, <2>3, <3>1
  <2>. QED BY <2>2, <2>3
<1>5. At(patch, n + 1) = Advance(At(patch, n), raw)
  BY StepOfAt
<1>6. LinesTo(patch, n + 1) = [s \in Sides |-> LinesTo(patch, n + 1)[s]]
  BY DEF LinesTo
<1>. QED BY <1>4, <1>5, <1>6 DEF ParseLine

\* The annotated lines among the first n.
ShownTo(patch, n) ==
    {[kind |-> patch[i].kind, line |-> NumberOf(patch, i, ShownSide(patch[i].kind))] :
       i \in {j \in 1 .. n : patch[j].kind # "header" /\ InHunk(patch, j)}}

LEMMA StepOfShown ==
    ASSUME NEW patch \in WellFormedPatch, NEW n \in Nat, n + 1 \in 1 .. Len(patch)
    PROVE  [at |-> At(patch, n + 1), shown |-> ShownTo(patch, n + 1)] =
             AnnotateLine([at |-> At(patch, n), shown |-> ShownTo(patch, n)], patch[n + 1])
<1>. DEFINE raw == patch[n + 1]
            here(m) == {j \in 1 .. m : patch[j].kind # "header" /\ InHunk(patch, j)}
            entry(i) == [kind |-> patch[i].kind,
                         line |-> NumberOf(patch, i, ShownSide(patch[i].kind))]
            skips == Skips(At(patch, n), raw)
<1>1. skips <=> raw.kind = "header" \/ ~InHunk(patch, n + 1)
  BY StepOfAt, HunkContinues
<1>2. ~skips => [kind |-> raw.kind, line |-> At(patch, n)[ShownSide(raw.kind)]] = entry(n + 1)
  <2>1. ShownSide(raw.kind) \in Sides
    BY DEF ShownSide, Sides
  <2>. QED BY <2>1, StepOfAt, CounterIsNumber
<1>3. here(n + 1) = IF skips THEN here(n) ELSE here(n) \cup {n + 1}
  <2>1. 1 .. n + 1 = (1 .. n) \cup {n + 1}
    OBVIOUS
  <2>. HIDE DEF skips
  <2>. QED BY <1>1, <2>1
<1>4. /\ ShownTo(patch, n) = {entry(i) : i \in here(n)}
      /\ ShownTo(patch, n + 1) = {entry(i) : i \in here(n + 1)}
  BY DEF ShownTo
<1>5. ShownTo(patch, n + 1) =
        IF skips THEN ShownTo(patch, n)
        ELSE ShownTo(patch, n) \cup {[kind |-> raw.kind, line |-> At(patch, n)[ShownSide(raw.kind)]]}
  <2>. HIDE DEF skips, here, entry
  <2>1. CASE skips
    BY <1>3, <1>4, <2>1
  <2>2. CASE ~skips
    <3>1. ShownTo(patch, n + 1) = {entry(i) : i \in here(n) \cup {n + 1}}
      BY <1>3, <1>4, <2>2
    <3>2. ShownTo(patch, n + 1) = ShownTo(patch, n) \cup {entry(n + 1)}
      BY <1>4, <3>1
    <3>. QED BY <1>2, <2>2, <3>2
  <2>. QED BY <2>1, <2>2
<1>6. At(patch, n + 1) = Advance(At(patch, n), raw)
  BY StepOfAt
<1>. QED BY <1>5, <1>6 DEF AnnotateLine

-----------------------------------------------------------------------------
(* The loops.                                                              *)

LEMMA BasesAgree ==
    ASSUME NEW patch
    PROVE  /\ At(patch, 0) = NoHunk
           /\ LinesTo(patch, 0) = [s \in Sides |-> {}]
           /\ ShownTo(patch, 0) = {}
<1>1. ~InHunk(patch, 0)
  BY DEF InHunk
<1>. QED BY <1>1 DEF At, LinesTo, ShownTo

LEMMA ParseLoopIsTheDiff ==
    ASSUME NEW patch \in WellFormedPatch
    PROVE  \A n \in 0 .. Len(patch) :
              ParseLoop(patch)[n] = [at |-> At(patch, n), lines |-> LinesTo(patch, n)]
<1>. DEFINE N == Len(patch)
            base == [at |-> NoHunk, lines |-> [s \in Sides |-> {}]]
            says == [n \in 0 .. N |-> [at |-> At(patch, n), lines |-> LinesTo(patch, n)]]
<1>0. N \in Nat
  BY DEF WellFormedPatch
<1>1. says = [n \in 0 .. N |-> IF n = 0 THEN base ELSE ParseLine(says[n - 1], patch[n])]
  <2> SUFFICES ASSUME NEW n \in 0 .. N
               PROVE  says[n] = IF n = 0 THEN base ELSE ParseLine(says[n - 1], patch[n])
    OBVIOUS
  <2>1. CASE n = 0
    BY <2>1, BasesAgree
  <2>2. CASE n # 0
    <3>1. n - 1 \in Nat /\ (n - 1) + 1 = n /\ n \in 1 .. Len(patch) /\ n - 1 \in 0 .. N
      BY <1>0, <2>2
    <3>2. [at |-> At(patch, n), lines |-> LinesTo(patch, n)] =
            ParseLine([at |-> At(patch, n - 1), lines |-> LinesTo(patch, n - 1)], patch[n])
      BY <3>1, StepOfLines
    <3>. QED BY <2>2, <3>1, <3>2
  <2>. QED BY <2>1, <2>2
<1>2. ParseLoop(patch) =
        [n \in 0 .. N |-> IF n = 0 THEN base ELSE ParseLine(ParseLoop(patch)[n - 1], patch[n])]
  <2>. HIDE DEF says
  <2>. QED BY <1>1 DEF ParseLoop
<1>. DEFINE S == {n \in Nat : n \in 0 .. N => ParseLoop(patch)[n] = says[n]}
<1>3. 0 \in S
  BY <1>0, <1>1, <1>2
<1>4. ASSUME NEW n \in Nat, n \in S
      PROVE  n + 1 \in S
  <2>. HIDE DEF says, base
  <2> SUFFICES ASSUME n + 1 \in 0 .. N
               PROVE  ParseLoop(patch)[n + 1] = says[n + 1]
    OBVIOUS
  <2>1. n \in 0 .. N /\ n + 1 # 0 /\ (n + 1) - 1 = n
    BY <1>0
  <2>2. ParseLoop(patch)[n] = says[n]
    BY <1>4, <2>1
  <2>3. ParseLoop(patch)[n + 1] = ParseLine(ParseLoop(patch)[n], patch[n + 1])
    BY <1>2, <2>1
  <2>4. says[n + 1] = ParseLine(says[n], patch[n + 1])
    BY <1>1, <2>1
  <2>. QED BY <2>2, <2>3, <2>4
<1>5. Nat \subseteq S
  <2>. HIDE DEF S
  <2>. QED BY <1>3, <1>4, Induction
<1>6. \A n \in 0 .. N : ParseLoop(patch)[n] = says[n]
  <2>. HIDE DEF says, base
  <2>. QED BY <1>0, <1>5
<1>. QED BY <1>6

LEMMA AnnotateLoopIsTheDiff ==
    ASSUME NEW patch \in WellFormedPatch
    PROVE  \A n \in 0 .. Len(patch) :
              AnnotateLoop(patch)[n] = [at |-> At(patch, n), shown |-> ShownTo(patch, n)]
<1>. DEFINE N == Len(patch)
            base == [at |-> NoHunk, shown |-> {}]
            says == [n \in 0 .. N |-> [at |-> At(patch, n), shown |-> ShownTo(patch, n)]]
<1>0. N \in Nat
  BY DEF WellFormedPatch
<1>1. says = [n \in 0 .. N |-> IF n = 0 THEN base ELSE AnnotateLine(says[n - 1], patch[n])]
  <2> SUFFICES ASSUME NEW n \in 0 .. N
               PROVE  says[n] = IF n = 0 THEN base ELSE AnnotateLine(says[n - 1], patch[n])
    OBVIOUS
  <2>1. CASE n = 0
    BY <2>1, BasesAgree
  <2>2. CASE n # 0
    <3>1. n - 1 \in Nat /\ (n - 1) + 1 = n /\ n \in 1 .. Len(patch) /\ n - 1 \in 0 .. N
      BY <1>0, <2>2
    <3>2. [at |-> At(patch, n), shown |-> ShownTo(patch, n)] =
            AnnotateLine([at |-> At(patch, n - 1), shown |-> ShownTo(patch, n - 1)], patch[n])
      BY <3>1, StepOfShown
    <3>. QED BY <2>2, <3>1, <3>2
  <2>. QED BY <2>1, <2>2
<1>2. AnnotateLoop(patch) =
        [n \in 0 .. N |-> IF n = 0 THEN base ELSE AnnotateLine(AnnotateLoop(patch)[n - 1], patch[n])]
  <2>. HIDE DEF says
  <2>. QED BY <1>1 DEF AnnotateLoop
<1>. DEFINE S == {n \in Nat : n \in 0 .. N => AnnotateLoop(patch)[n] = says[n]}
<1>3. 0 \in S
  BY <1>0, <1>1, <1>2
<1>4. ASSUME NEW n \in Nat, n \in S
      PROVE  n + 1 \in S
  <2>. HIDE DEF says, base
  <2> SUFFICES ASSUME n + 1 \in 0 .. N
               PROVE  AnnotateLoop(patch)[n + 1] = says[n + 1]
    OBVIOUS
  <2>1. n \in 0 .. N /\ n + 1 # 0 /\ (n + 1) - 1 = n
    BY <1>0
  <2>2. AnnotateLoop(patch)[n] = says[n]
    BY <1>4, <2>1
  <2>3. AnnotateLoop(patch)[n + 1] = AnnotateLine(AnnotateLoop(patch)[n], patch[n + 1])
    BY <1>2, <2>1
  <2>4. says[n + 1] = AnnotateLine(says[n], patch[n + 1])
    BY <1>1, <2>1
  <2>. QED BY <2>2, <2>3, <2>4
<1>5. Nat \subseteq S
  <2>. HIDE DEF S
  <2>. QED BY <1>3, <1>4, Induction
<1>6. \A n \in 0 .. N : AnnotateLoop(patch)[n] = says[n]
  <2>. HIDE DEF says, base
  <2>. QED BY <1>0, <1>5
<1>. QED BY <1>6

-----------------------------------------------------------------------------
(* Theorems.                                                               *)

\* parse_diff_lines() returns, for each side, the numbers that the lines of that side
\* have in their file.
THEOREM ParsedLinesAreTheDiff ==
    \A patch \in WellFormedPatch :
       ParseDiffLines(patch) = [s \in Sides |-> DiffLinesOf(patch, s)]
<1>. SUFFICES ASSUME NEW patch \in WellFormedPatch
              PROVE  ParseDiffLines(patch) = [s \in Sides |-> DiffLinesOf(patch, s)]
  OBVIOUS
<1>1. Len(patch) \in Nat /\ DOMAIN patch = 1 .. Len(patch)
  BY DEF WellFormedPatch
<1>2. ParseDiffLines(patch) = LinesTo(patch, Len(patch))
  <2>1. Len(patch) \in 0 .. Len(patch)
    BY <1>1
  <2>2. ParseLoop(patch)[Len(patch)] =
          [at |-> At(patch, Len(patch)), lines |-> LinesTo(patch, Len(patch))]
    BY <2>1, ParseLoopIsTheDiff
  <2>. QED BY <2>2 DEF ParseDiffLines
<1>. QED BY <1>1, <1>2 DEF LinesTo, DiffLinesOf

\* What annotate_diff() prints as the number of a line is a line that parse_diff_lines()
\* accepts a comment on: for a removed line on the left side, for others on the right.
THEOREM PromptedLinesAreAccepted ==
    \A patch \in WellFormedPatch : \A l \in AnnotateDiff(patch) :
       l.line \in ParseDiffLines(patch)[IF l.kind = "minus" THEN "LEFT" ELSE "RIGHT"]
<1>. SUFFICES ASSUME NEW patch \in WellFormedPatch, NEW l \in AnnotateDiff(patch)
              PROVE  l.line \in ParseDiffLines(patch)[ShownSide(l.kind)]
  BY DEF ShownSide
<1>1. Len(patch) \in Nat /\ DOMAIN patch = 1 .. Len(patch)
  BY DEF WellFormedPatch
<1>2. AnnotateDiff(patch) = ShownTo(patch, Len(patch))
  <2>1. Len(patch) \in 0 .. Len(patch)
    BY <1>1
  <2>2. AnnotateLoop(patch)[Len(patch)] =
          [at |-> At(patch, Len(patch)), shown |-> ShownTo(patch, Len(patch))]
    BY <2>1, AnnotateLoopIsTheDiff
  <2>. QED BY <2>2 DEF AnnotateDiff
<1>3. PICK i \in 1 .. Len(patch) :
        /\ patch[i].kind # "header" /\ InHunk(patch, i)
        /\ l = [kind |-> patch[i].kind, line |-> NumberOf(patch, i, ShownSide(patch[i].kind))]
  BY <1>2 DEF ShownTo
<1>4. OnSide(patch[i].kind, ShownSide(patch[i].kind))
  BY <1>3, LineTypes DEF OnSide, ShownSide
<1>5. l.line \in DiffLinesOf(patch, ShownSide(l.kind))
  BY <1>1, <1>3, <1>4 DEF DiffLinesOf
<1>6. ShownSide(l.kind) \in Sides
  BY DEF ShownSide, Sides
<1>. QED BY <1>5, <1>6, ParsedLinesAreTheDiff

\* filter_findings() accepts a finding exactly if all its lines are in the diff: on a
\* file with a patch that is well-formed, and on a file without one.
THEOREM FilterIsExact ==
    ASSUME NEW files, NEW f,
           f.path \in DOMAIN files => files[f.path] \in WellFormedPatch,
           f.side \in Sides, f.line \in Nat, f.start \in Nat, f.start <= f.line
    PROVE  IsValid(f, files) <=> InDiff(f, files)
<1>1. f.line \in Span(f)
  BY DEF Span
<1>2. CASE f.path \notin DOMAIN files
  BY <1>2 DEF IsValid, InDiff, BuildDiffIndex
<1>3. CASE f.path \in DOMAIN files /\ files[f.path] = <<>>
  <2>1. DiffLinesOf(files[f.path], f.side) = {}
    <3>1. DOMAIN files[f.path] = {}
      BY <1>3
    <3>. QED BY <3>1 DEF DiffLinesOf
  <2>. QED BY <1>1, <1>3, <2>1 DEF IsValid, InDiff, BuildDiffIndex
<1>4. CASE f.path \in DOMAIN files /\ files[f.path] # <<>>
  <2>1. ParseDiffLines(files[f.path])[f.side] = DiffLinesOf(files[f.path], f.side)
    BY <1>4, ParsedLinesAreTheDiff
  <2>. QED BY <1>4, <2>1 DEF IsValid, InDiff, BuildDiffIndex
<1>. QED BY <1>2, <1>3, <1>4
=============================================================================

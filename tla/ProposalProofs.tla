--------------------------- MODULE ProposalProofs ----------------------------
(***************************************************************************)
(* Theorems about Proposal, for all limits, vocabularies and answers: type *)
(* correctness, that a used answer reports every token billed for it, and  *)
(* that the schema and the validator agree about Etsy's limits.            *)
(***************************************************************************)
EXTENDS Proposal, Integers, FiniteSetTheorems, SequenceTheorems, WellFoundedInduction, TLAPS

USE ProposalAssumption

-----------------------------------------------------------------------------
(***************************************************************************)
(* The loop of clean_optimized_tags, for an answer of any length.          *)
(***************************************************************************)

LEMMA LeastExists ==
    ASSUME NEW T \in SUBSET Nat, T # {}
    PROVE  \E n \in T : \A m \in T : n <= m
  <1> DEFINE R == {p \in Nat \X Nat : p[1] < p[2]}
  <1>1. OpToRel(<, Nat) = R
    BY DEF OpToRel
  <1>2. IsWellFoundedOn(R, Nat)
    BY <1>1, NatLessThanWellFounded, Zenon
  <1>3. \A x, y \in Nat : x < y => <<x, y>> \in R
    OBVIOUS
  <1> HIDE DEF R
  <1>4. PICK n \in T : \A y \in T : ~(<<y, n>> \in R)
    BY <1>2, WFMin
  <1>5. \A m \in T : ~(m < n)
    BY <1>3, <1>4, Zenon
  <1>6. \A m \in T : m \in Nat /\ n \in Nat
    OBVIOUS
  <1>7. QED
    BY <1>5, <1>6, SMT

\* g is what the loop has kept after each of the first n tags.
Round(ts, g, k) ==
    IF k = 0 THEN <<>>
    ELSE IF Kept(ts[k]) THEN Append(g[k - 1], Stripped(ts[k]))
    ELSE g[k - 1]
IsLoop(ts, g, n) == g = [k \in 0 .. n |-> Round(ts, g, k)]

LEMMA LoopExists ==
    ASSUME NEW ts \in Seq(Tag)
    PROVE  \E g : IsLoop(ts, g, Len(ts))
  <1> DEFINE T == {n \in 0 .. Len(ts) : ~\E g : IsLoop(ts, g, n)}
  <1>1. SUFFICES ASSUME T # {} PROVE FALSE
    <2>1. Len(ts) \in 0 .. Len(ts)
      BY LenProperties
    <2>2. QED
      BY <2>1, Zenon
  <1>2. T \in SUBSET Nat
    OBVIOUS
  <1>3. PICK n \in T : \A m \in T : n <= m
    BY <1>1, <1>2, LeastExists
  <1>4. n # 0
    <2> DEFINE g == [k \in 0 .. 0 |-> <<>>]
    <2>1. IsLoop(ts, g, 0)
      BY DEF IsLoop, Round
    <2>2. QED
      BY <2>1
  <1>5. PICK g : IsLoop(ts, g, n - 1)
    BY <1>3, <1>4
  <1> DEFINE h == [k \in 0 .. n |-> IF k < n THEN g[k] ELSE Round(ts, g, n)]
  <1>6. n \in Nat \ {0}
    BY <1>2, <1>4
  <1>7. ASSUME NEW k \in 0 .. n
        PROVE  h[k] = Round(ts, h, k)
    <2>1. k # 0 => h[k - 1] = g[k - 1]
      BY <1>6
    <2>2. Round(ts, h, k) = Round(ts, g, k)
      BY <2>1 DEF Round
    <2>3. CASE k < n
      <3>1. g[k] = Round(ts, g, k)
        BY <1>5, <1>6, <2>3 DEF IsLoop
      <3>2. QED
        BY <2>2, <2>3, <3>1
    <2>4. CASE k = n
      BY <1>6, <2>2, <2>4
    <2>5. QED
      BY <1>6, <2>3, <2>4
  <1>8. IsLoop(ts, h, n)
    BY <1>7, Zenon DEF IsLoop
  <1>9. QED
    BY <1>8

LEMMA LoopIsClean ==
    ASSUME NEW ts \in Seq(Tag), NEW g, IsLoop(ts, g, Len(ts)),
           NEW i \in 0 .. Len(ts)
    PROVE  g[i] \in Seq(CleanTag)
  <1> DEFINE T == {k \in 0 .. Len(ts) : g[k] \notin Seq(CleanTag)}
  <1>1. SUFFICES ASSUME T # {} PROVE FALSE
    OBVIOUS
  <1>2. T \in SUBSET Nat
    OBVIOUS
  <1>3. PICK n \in T : \A m \in T : n <= m
    BY <1>1, <1>2, LeastExists
  <1>4. g[n] = Round(ts, g, n)
    BY DEF IsLoop
  <1>5. n # 0
    <2>1. n = 0 => g[n] = <<>>
      BY <1>4 DEF Round
    <2>2. <<>> \in Seq(CleanTag)
      BY EmptySeq
    <2>3. QED
      BY <2>1, <2>2
  <1>6. g[n - 1] \in Seq(CleanTag)
    BY <1>3, <1>5
  <1>7. ts[n] \in Tag
    BY <1>5
  <1>8. Kept(ts[n]) => Stripped(ts[n]) \in CleanTag
    BY <1>7 DEF CleanTag, Stripped, Kept, Tag
  <1>9. g[n] \in Seq(CleanTag)
    BY <1>4, <1>5, <1>6, <1>8 DEF Round
  <1>10. QED
    BY <1>9

LEMMA FittingIsClean ==
    ASSUME NEW ts \in Seq(Tag)
    PROVE  Fitting(ts) \in Seq(CleanTag)
  <1> DEFINE g == CHOOSE f : IsLoop(ts, f, Len(ts))
  <1>1. IsLoop(ts, g, Len(ts))
    BY LoopExists
  <1>2. Fitting(ts) = g[Len(ts)]
    BY DEF Fitting, IsLoop, Round
  <1> HIDE DEF g
  <1>3. QED
    BY <1>1, <1>2, LoopIsClean

\* The limits of the schema, on its tags and on its title.
LEMMA CleanedIsClean ==
    ASSUME NEW ts \in Seq(Tag)
    PROVE  Cleaned(ts) \in Seq(CleanTag) /\ Len(Cleaned(ts)) <= MaxTags
  <1> DEFINE kept == Fitting(ts)
             n == IF Len(kept) < MaxTags THEN Len(kept) ELSE MaxTags
  <1>1. kept \in Seq(CleanTag)
    BY FittingIsClean
  <1>2. Cleaned(ts) = SubSeq(kept, 1, n)
    BY DEF Cleaned
  <1> HIDE DEF kept
  <1>3. n \in Nat /\ n <= MaxTags /\ n <= Len(kept)
    BY <1>1
  <1>4. \A i \in 1 .. n : kept[i] \in CleanTag
    BY <1>1, <1>3, ElementOfSeq
  <1> HIDE DEF n
  <1>5. SubSeq(kept, 1, n) \in Seq(CleanTag) /\ Len(SubSeq(kept, 1, n)) <= MaxTags
    BY <1>3, <1>4, SubSeqProperties
  <1>6. QED
    BY <1>2, <1>5

LEMMA ClampedFits ==
    ASSUME NEW t \in Text, NEW c \in Clamped(t)
    PROVE  c \in Text /\ c.length <= MaxTitle
  BY DEF Clamped, Text

LEMMA CleanTagIsTag == CleanTag \subseteq Tag
  BY DEF CleanTag

LEMMA IntervalSize ==
    ASSUME NEW n \in Nat
    PROVE  IsFiniteSet(1 .. n) /\ Cardinality(1 .. n) = n
  <1>1. IsFiniteSet(1 .. n) /\ Cardinality(1 .. n) = IF 1 > n THEN 0 ELSE n - 1 + 1
    BY FS_Interval
  <1>2. QED
    BY <1>1

-----------------------------------------------------------------------------
(***************************************************************************)
(* Type correctness and AnswerInv, together: the bound on billed is one of *)
(* how often the model is called.                                          *)
(***************************************************************************)

LEMMA AnswerInit == Init => TypeOK /\ AnswerInv
  <1> SUFFICES ASSUME Init PROVE TypeOK /\ AnswerInv
    OBVIOUS
  <1>1. Empty \in Text
    BY DEF Empty, Text
  <1>2. <<>> \in Seq(Tag)
    BY EmptySeq
  <1>3. QED
    BY <1>1, <1>2 DEF Init, TypeOK, AnswerInv, BilledInv, CleanInv, VerdictInv, Answered

LEMMA ToolStep == TypeOK /\ AnswerInv /\ ToolCalled => TypeOK' /\ AnswerInv'
  <1> SUFFICES ASSUME TypeOK, AnswerInv, ToolCalled PROVE TypeOK' /\ AnswerInv'
    OBVIOUS
  <1>1. PICK n \in 1 .. MaxTokens : billed' = billed + n /\ usage' = usage + n
    BY DEF ToolCalled, Bills
  <1>2. billed <= MaxTokens /\ usage = billed /\ billed \in Nat
    BY DEF TypeOK, ToolCalled, Calling, AnswerInv, BilledInv
  <1>3. title' \in Text /\ title'.length <= MaxTitle
    BY ClampedFits DEF ToolCalled
  <1>4. tags' \in Seq(CleanTag) /\ Len(tags') <= MaxTags
    <2>1. PICK ts \in RawTags : tags' = Cleaned(ts)
      BY DEF ToolCalled
    <2>2. ts \in Seq(Tag)
      <3>1. PICK m \in 0 .. MaxTags + 1 : ts \in [1 .. m -> Tag]
        BY DEF RawTags, SeqOf
      <3>2. m \in Nat
        BY <3>1
      <3>3. QED
        BY <3>1, <3>2, SeqDef
    <2>3. QED
      BY <2>1, <2>2, CleanedIsClean
  <1>5. tags' \in Seq(Tag)
    BY <1>4, CleanTagIsTag, SeqMonotonic
  <1>6. pc' = "analysed" /\ thinking' = thinking /\ field' = field
    BY DEF ToolCalled
  <1>7. TypeOK'
    BY <1>1, <1>2, <1>3, <1>5, <1>6 DEF TypeOK
  <1>8. BilledInv' /\ VerdictInv'
    BY <1>1, <1>2, <1>6 DEF BilledInv, VerdictInv
  <1>9. CleanInv'
    BY <1>3, <1>4 DEF CleanInv
  <1>10. QED
    BY <1>7, <1>8, <1>9 DEF AnswerInv

LEMMA CallStep ==
    TypeOK /\ AnswerInv /\ (Prose \/ CallFails) => TypeOK' /\ AnswerInv'
  <1> SUFFICES ASSUME TypeOK, AnswerInv, Prose \/ CallFails PROVE TypeOK' /\ AnswerInv'
    OBVIOUS
  <1>1. CASE Prose
    <2>1. PICK n \in 1 .. MaxTokens : billed' = billed + n /\ usage' = usage + n
      BY <1>1 DEF Prose, Bills
    <2>2. billed = 0 /\ usage = 0
      BY <1>1 DEF Prose, AnswerInv, BilledInv
    <2>3. QED
      BY <1>1, <2>1, <2>2 DEF Prose, TypeOK, AnswerInv, BilledInv, CleanInv, VerdictInv,
         Answered
  <1>2. CASE CallFails
    <2>1. billed \in Nat /\ billed <= MaxTokens
      BY <1>2 DEF CallFails, Calling, TypeOK, AnswerInv, BilledInv
    <2>2. billed' \in 0 .. 2 * MaxTokens /\ usage' = 0
      BY <1>2, <2>1 DEF CallFails
    <2>3. QED
      BY <1>2, <2>2 DEF CallFails, TypeOK, AnswerInv, BilledInv, CleanInv, VerdictInv,
         Answered
  <1>3. QED
    BY <1>1, <1>2

LEMMA ProposalStep ==
    TypeOK /\ AnswerInv /\ (Propose \/ Check) => TypeOK' /\ AnswerInv'
  <1> SUFFICES ASSUME TypeOK, AnswerInv, Propose \/ Check PROVE TypeOK' /\ AnswerInv'
    OBVIOUS
  <1>1. /\ thinking' = thinking /\ billed' = billed /\ usage' = usage
        /\ title' = title /\ tags' = tags /\ field' = field
    BY DEF Propose, Check, callVars
  <1>2. pc \in {"analysed", "proposed"} /\ pc' \in {"skipped", "proposed", "sent", "refused"}
    BY DEF Propose, Check
  <1>3. TypeOK'
    BY <1>1, <1>2 DEF TypeOK
  <1>4. BilledInv' /\ CleanInv'
    BY <1>1, <1>2 DEF AnswerInv, BilledInv, CleanInv, Answered
  <1>5. Valid' <=> Valid
    BY <1>1 DEF Valid, TitleValid, TagsValid, Unique
  <1>6. VerdictInv'
    <2>1. CASE Propose
      BY <1>1, <2>1 DEF Propose, VerdictInv
    <2>2. CASE Check
      BY <1>1, <1>5, <2>2 DEF Check, AnswerInv, VerdictInv
    <2>3. QED
      BY <2>1, <2>2
  <1>7. QED
    BY <1>3, <1>4, <1>6 DEF AnswerInv

\* The inductive invariant: what a used answer has left is clean and counted
\* (ai_service.py call_with_structured_output, schemas/seo.py).
THEOREM Inductive == Spec => [](TypeOK /\ AnswerInv)
  <1>1. TypeOK /\ AnswerInv /\ UNCHANGED vars => TypeOK' /\ AnswerInv'
    BY DEF vars, callVars, TypeOK, AnswerInv, BilledInv, CleanInv, VerdictInv, Answered,
       Valid, TitleValid, TagsValid, Unique
  <1>2. TypeOK /\ AnswerInv /\ [Next]_vars => (TypeOK /\ AnswerInv)'
    BY <1>1, ToolStep, CallStep, ProposalStep DEF Next, Ended
  <1>3. QED
    BY <1>2, AnswerInit, PTL DEF Spec

\* Every variable has its type: a call is billed for two attempts at most
\* (ai_service.py).
THEOREM TypeCorrect == Spec => []TypeOK
  BY Inductive, PTL

\* An answer that is used reports every token billed for it, the wasted attempt
\* included (ai_service.py _add_usage).
THEOREM EveryTokenCounts == Spec => []UsageIsBilled
  <1>1. AnswerInv => UsageIsBilled
    BY DEF AnswerInv, BilledInv, UsageIsBilled
  <1>2. QED
    BY <1>1, Inductive, PTL

\* The validator (etsy_validation.py) refuses no proposal for a limit that the
\* schema (schemas/seo.py) has enforced, whatever the limits and the answer.
THEOREM LimitsAgree == Spec => []RefusedForNoLimit
  <1>1. TypeOK /\ AnswerInv => RefusedForNoLimit
    <2> SUFFICES ASSUME TypeOK, AnswerInv, pc = "refused"
                 PROVE  \/ field = "title" /\ title.body = 0
                        \/ field = "tags" /\ \E i, j \in DOMAIN tags : i # j /\ Same(tags[i], tags[j])
      BY DEF RefusedForNoLimit
    <2>1. CASE field = "title"
      <3>1. ~TitleValid(title) /\ title.length <= MaxTitle /\ title.body \in Nat
        BY <2>1 DEF AnswerInv, VerdictInv, CleanInv, Answered, Valid, TypeOK, Text
      <3>2. QED
        BY <2>1, <3>1 DEF TitleValid
    <2>2. CASE field = "tags"
      <3>1. /\ ~TagsValid(tags) /\ tags # <<>>
            /\ tags \in Seq(CleanTag) /\ Len(tags) <= MaxTags
        BY <2>2 DEF AnswerInv, VerdictInv, CleanInv, Answered, Valid
      <3>2. Len(tags) \in 1 .. MaxTags
        BY <3>1, EmptySeq
      <3>3. \A i \in DOMAIN tags : tags[i] \in CleanTag
        BY <3>1
      <3>4. \A i \in DOMAIN tags : tags[i].word \notin LongWord \cup {Blank}
        BY <3>3 DEF CleanTag, Kept
      <3>5. ~Unique(tags)
        BY <3>1, <3>2, <3>4 DEF TagsValid
      <3>6. QED
        BY <2>2, <3>5 DEF Unique, Same
    <2>3. QED
      BY <2>1, <2>2 DEF TypeOK
  <1>2. QED
    BY <1>1, Inductive, PTL

\* What is sent has no two tags alike, none too long, no more than Etsy takes,
\* and a title that fits (validate_listing_update).
THEOREM AcceptableOnly == Spec => []SentIsAcceptable
  <1>1. TypeOK /\ AnswerInv => SentIsAcceptable
    <2> SUFFICES ASSUME TypeOK, AnswerInv, pc = "sent"
                 PROVE  /\ field = "title" => title.length <= MaxTitle /\ title.body > 0
                        /\ field = "tags" =>
                             /\ Cardinality({tags[i].word : i \in DOMAIN tags}) = Len(tags)
                             /\ Len(tags) \in 1 .. MaxTags
                             /\ \A i \in DOMAIN tags : tags[i].word \notin LongWord
      BY DEF SentIsAcceptable
    <2>1. Valid /\ tags \in Seq(CleanTag)
      BY DEF AnswerInv, VerdictInv, CleanInv, Answered
    <2>2. field = "title" => title.length <= MaxTitle /\ title.body > 0
      BY <2>1 DEF Valid, TitleValid
    <2>3. ASSUME field = "tags"
          PROVE  /\ Cardinality({tags[i].word : i \in DOMAIN tags}) = Len(tags)
                 /\ Len(tags) \in 1 .. MaxTags
                 /\ \A i \in DOMAIN tags : tags[i].word \notin LongWord
      <3> DEFINE words == {tags[i].word : i \in DOMAIN tags}
                 f == [i \in DOMAIN tags |-> tags[i].word]
      <3>1. TagsValid(tags)
        BY <2>1, <2>3 DEF Valid
      <3>2. DOMAIN tags = 1 .. Len(tags) /\ Len(tags) \in Nat
        BY <2>1, LenProperties
      <3>3. \A i \in DOMAIN tags : ~tags[i].padded /\ tags[i].padded \in BOOLEAN
        BY <2>1 DEF CleanTag, Tag
      <3>4. \A i, j \in DOMAIN tags : tags[i].word = tags[j].word => i = j
        BY <3>1, <3>3 DEF TagsValid, Unique
      <3>5. f \in Bijection(1 .. Len(tags), words)
        BY <3>2, <3>4 DEF Bijection, Injection, Surjection, IsInjective
      <3>6. Cardinality(words) = Len(tags)
        <4>1. ExistsBijection(1 .. Len(tags), words)
          BY <3>5, Zenon DEF ExistsBijection
        <4>2. IsFiniteSet(1 .. Len(tags)) /\ Cardinality(1 .. Len(tags)) = Len(tags)
          BY <3>2, IntervalSize
        <4> HIDE DEF words
        <4>3. QED
          BY <4>1, <4>2, FS_Bijection
      <3>7. QED
        BY <3>1, <3>6 DEF TagsValid
    <2>4. QED
      BY <2>2, <2>3
  <1>2. QED
    BY <1>1, Inductive, PTL
=============================================================================

------------------------------ MODULE Proposal -------------------------------
(***************************************************************************)
(* What the language model proposes, on its way to Etsy: the gateway that  *)
(* calls the model (services/ai_service.py), the schema that checks and    *)
(* cleans what it answered (schemas/seo.py), the proposal the owner makes  *)
(* of it (apply_seo_analysis in api/routes/seo.py), and the rules   *)
(* that Etsy's limits are turned into before a write                       *)
(* (services/etsy_validation.py, called by api/routes/optimizations.py).   *)
(*                                                                         *)
(* Two files hold the limits, and nothing but these steps keeps what the   *)
(* first lets through acceptable to the last.  A text is its length and    *)
(* the length it has without trailing blanks (0: nothing but blanks); a    *)
(* tag is a word, in capitals or not, with blanks around it or not.        *)
(***************************************************************************)
EXTENDS Naturals, Sequences, FiniteSets, SequencesExt

CONSTANTS
    MaxTitle,   \* ETSY_MAX_TITLE_LENGTH
    MaxTags,    \* ETSY_MAX_TAGS
    Word,       \* words of tags
    LongWord,   \* those longer than ETSY_MAX_TAG_LENGTH
    Blank,      \* the word without letters
    MaxTokens   \* bound: tokens an answer is billed for

ASSUME ProposalAssumption ==
    /\ MaxTitle \in Nat \ {0} /\ MaxTags \in Nat \ {0} /\ MaxTokens \in Nat \ {0}
    /\ LongWord \subseteq Word /\ Blank \in Word \ LongWord

VARIABLES
    thinking,  \* the call lets the model think first
    pc,        \* where the call, and then its proposal, is
    billed,    \* tokens Anthropic has billed
    usage,     \* tokens the code knows of
    title,     \* the title proposed
    tags,      \* the tags proposed
    field      \* the field of the proposal that is followed

callVars == <<thinking, billed, usage, title, tags>>
vars == <<callVars, pc, field>>

Text == {t \in [length: 0 .. MaxTitle + 1, body: 0 .. MaxTitle + 1] : t.body <= t.length}
Tag == [word: Word, capitals: BOOLEAN, padded: BOOLEAN]
Empty == [length |-> 0, body |-> 0]

\* What a model may answer: the limits in the prompt are a hint.
RawTags == SeqOf(Tag, MaxTags + 1)

TypeOK ==
    /\ thinking \in BOOLEAN
    /\ pc \in {"first", "retry", "failed", "analysed", "proposed", "skipped", "sent", "refused"}
    /\ billed \in 0 .. 2 * MaxTokens /\ usage \in 0 .. billed
    /\ title \in Text /\ tags \in Seq(Tag)
    /\ field \in {"title", "tags"}

Init ==
    /\ thinking \in BOOLEAN
    /\ pc = "first"
    /\ billed = 0 /\ usage = 0
    /\ title = Empty /\ tags = <<>>
    /\ field \in {"title", "tags"}

-----------------------------------------------------------------------------
(* The schema. *)

\* value[:MAX].rstrip(), of a title that is too long: the cut may fall behind
\* blanks inside it.
Clamped(t) ==
    IF t.length <= MaxTitle THEN {t}
    ELSE IF t.body <= MaxTitle THEN {[length |-> t.body, body |-> t.body]}
    ELSE {[length |-> n, body |-> n] : n \in 0 .. MaxTitle}

Stripped(tag) == [tag EXCEPT !.padded = FALSE]
Kept(tag) == tag.word \notin LongWord \cup {Blank}

\* The loop over the answer's tags: each is stripped, and dropped when it is
\* blank or too long.
Fitting(ts) ==
    LET cleaned[n \in 0 .. Len(ts)] ==
          IF n = 0 THEN <<>>
          ELSE IF Kept(ts[n]) THEN Append(cleaned[n - 1], Stripped(ts[n]))
          ELSE cleaned[n - 1]
    IN  cleaned[Len(ts)]

\* Variant: offenders are dropped, but nothing is cut off.
CleanedUncut(ts) == Fitting(ts)

\* What the loop leaves is cut off at MaxTags.
Cleaned(ts) ==
    LET kept == Fitting(ts)
    IN  SubSeq(kept, 1, IF Len(kept) < MaxTags THEN Len(kept) ELSE MaxTags)

-----------------------------------------------------------------------------
(* call_with_structured_output *)

Calling == pc \in {"first", "retry"}

Bills(n) == n \in 1 .. MaxTokens /\ billed' = billed + n

\* The model calls the tool, and its input fits the schema.
ToolCalled ==
    /\ Calling
    /\ \E n \in 1 .. MaxTokens : Bills(n) /\ usage' = usage + n
    /\ \E t \in Text : title' \in Clamped(t)
    /\ \E ts \in RawTags : tags' = Cleaned(ts)
    /\ pc' = "analysed"
    /\ UNCHANGED <<thinking, field>>

\* Variant: the first attempt is forgotten.
ProseForgotten ==
    /\ pc = "first" /\ thinking
    /\ \E n \in 1 .. MaxTokens : Bills(n)
    /\ pc' = "retry"
    /\ UNCHANGED <<thinking, usage, title, tags, field>>

\* No tool call: "Retry once with thinking off and the tool forced".
Prose ==
    /\ pc = "first" /\ thinking
    /\ \E n \in 1 .. MaxTokens : Bills(n) /\ usage' = usage + n
    /\ pc' = "retry"
    /\ UNCHANGED <<thinking, title, tags, field>>

\* A refusal, a truncated answer, input that does not fit, prose where the tool
\* was forced, or no answer at all: the exception carries no usage.
CallFails ==
    /\ Calling
    /\ billed' \in billed .. billed + MaxTokens
    /\ usage' = 0
    /\ pc' = "failed"
    /\ UNCHANGED <<thinking, title, tags, field>>

-----------------------------------------------------------------------------
(* The proposal. *)

\* "not analysis.optimized_title": a field that is empty makes no proposal.
Propose ==
    /\ pc = "analysed"
    /\ pc' = IF IF field = "title" THEN title.length = 0 ELSE tags = <<>>
             THEN "skipped" ELSE "proposed"
    /\ UNCHANGED <<callVars, field>>

TitleValid(t) == t.body > 0 /\ t.length <= MaxTitle

\* Variant: capitals tell tags apart.
UniqueAsWritten(ts) == IsInjective(ts)

\* tags must be unique, whatever their case; what is not stripped differs.
Unique(ts) == \A i, j \in DOMAIN ts :
                 ts[i].word = ts[j].word /\ ts[i].padded = ts[j].padded => i = j

TagsValid(ts) ==
    /\ Len(ts) \in 1 .. MaxTags
    /\ \A i \in DOMAIN ts : ts[i].word \notin LongWord \cup {Blank}
    /\ Unique(ts)

\* validate_listing_update finds nothing, or something: ETSY_VALIDATION_FAILED.
Valid == IF field = "title" THEN TitleValid(title) ELSE TagsValid(tags)

Check ==
    /\ pc = "proposed"
    /\ pc' = IF Valid THEN "sent" ELSE "refused"
    /\ UNCHANGED <<callVars, field>>

Ended == pc \in {"failed", "skipped", "sent", "refused"} /\ UNCHANGED vars

Next == ToolCalled \/ Prose \/ CallFails \/ Propose \/ Check \/ Ended

Spec == Init /\ [][Next]_vars

-----------------------------------------------------------------------------
(* Properties. *)

\* An answer that is used reports every token that was billed for it, the
\* attempt that was wasted included (ai_service.py _add_usage).
UsageIsBilled == pc \notin {"first", "retry", "failed"} => usage = billed

Same(a, b) == a.word = b.word

\* The schema leaves the rules nothing to refuse but what it does not look at:
\* a title of blanks and tags that are alike but for their case.  The limits of
\* the two files agree, and the order of strip, drop and cut is right.
RefusedForNoLimit ==
    pc = "refused" =>
        \/ field = "title" /\ title.body = 0
        \/ field = "tags" /\ \E i, j \in DOMAIN tags : i # j /\ Same(tags[i], tags[j])

\* Etsy rejects what has two tags alike, too many or too long: nothing of the
\* kind is sent, however the model was prompted (external: Etsy's limits).
SentIsAcceptable ==
    pc = "sent" =>
        /\ field = "title" => title.length <= MaxTitle /\ title.body > 0
        /\ field = "tags" =>
             /\ Cardinality({tags[i].word : i \in DOMAIN tags}) = Len(tags)
             /\ Len(tags) \in 1 .. MaxTags
             /\ \A i \in DOMAIN tags : tags[i].word \notin LongWord

\* "dropping offenders instead of failing": a proposal made of an analysis can
\* be applied.
ProposalIsValid == pc = "proposed" => Valid

-----------------------------------------------------------------------------
(***************************************************************************)
(* The invariant behind these: what an answer has left when it is used.    *)
(***************************************************************************)

Answered == pc \notin {"first", "retry", "failed"}

BilledInv ==
    /\ pc = "first" => billed = 0
    /\ pc = "retry" => billed <= MaxTokens
    /\ pc # "failed" => usage = billed

\* What the schema lets through.
CleanTag == {t \in Tag : Kept(t) /\ ~t.padded}
CleanInv ==
    Answered => /\ title.length <= MaxTitle
                /\ tags \in Seq(CleanTag) /\ Len(tags) <= MaxTags

\* A proposal is of something, and the validator's verdict is on it.
VerdictInv ==
    /\ pc \in {"proposed", "sent", "refused"} /\ field = "tags" => tags # <<>>
    /\ pc = "sent" => Valid
    /\ pc = "refused" => ~Valid

AnswerInv ==
    /\ BilledInv
    /\ CleanInv
    /\ VerdictInv
=============================================================================

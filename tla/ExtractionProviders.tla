------------------------- MODULE ExtractionProviders -------------------------
(***************************************************************************)
(* How a provider turns a user message into candidates: the classifier's    *)
(* three calls (jev-memory-extraction.provider.ts), the language model's    *)
(* one (llm-memory-extraction.provider.ts), their retries and checks of the *)
(* owner's choice, and validateCandidate.                                   *)
(*                                                                          *)
(* Candidates are judged one by one; one is followed.  Texts are left out:  *)
(* a candidate is what it cites and what can be wrong with it.              *)
(***************************************************************************)
EXTENDS Naturals

CONSTANTS
    MaxLength,    \* paragraphs of a message
    Examined,     \* how many of them the classifier looks at
    Proposals,    \* the candidates the language model returns, of AllCandidates
    Opinions,     \* what the classifier says of them, of Verdicts
    None

VARIABLES
    chosen,       \* whether the owner's provider is still this one
    late,         \* history: requests sent since it is not
    work          \* the extraction

providerVars == <<chosen, late, work>>

Paragraphs == 1 .. MaxLength

\* A quote is of the message, from one paragraph to the same or a later one, or
\* of an earlier message of the conversation.
Earlier == <<0, 0>>
Quotes == {Earlier} \cup {q \in Paragraphs \X Paragraphs : q[1] <= q[2]}

Intents == {"assertion", "confirmation", "correction", "retraction"}
Dispositions == {"eligible", "needs_clarification", "rejected"}

\* What validateCandidate finds wrong: secret-like content, a RESTRICTED
\* sensitivity, a category that is not there, a quote that is not in the text.
Flaws == {"secret", "restricted", "category", "quote"}

AllCandidates ==
    [intent: Intents, disposition: Dispositions, atomic: BOOLEAN,
     flaws: SUBSET Flaws, evidence: (SUBSET Quotes) \ {{}},
     ambiguousDate: BOOLEAN]

\* The classifier's second opinion of a candidate: probabilities below, between
\* and above their thresholds.
Verdicts ==
    [supported: {"no", "unsure", "yes"}, atomic: BOOLEAN, categories: BOOLEAN,
     sensitivity: {"RESTRICTED", "other"}]

NoVerdict == [supported |-> "no", atomic |-> FALSE, categories |-> FALSE,
              sensitivity |-> "other"]

\* What the classifier says of a paragraph: whether it is selected, corrects an
\* earlier claim, or hardly asks to remember.  The last two imply the first.
Marks == {{}, {"selected"}, {"selected", "corrects"}, {"selected", "hardly"},
          {"selected", "corrects", "hardly"}}

Stages == {"select", "normalize", "check", "validate", "done", "failed"}
Calling == {"select", "normalize", "check"}

ProviderTypeOK ==
    /\ chosen \in BOOLEAN
    /\ late \in Nat
    /\ work.system \in {"system_1", "system_2"}
    /\ work.length \in Paragraphs
    /\ work.stage \in Stages
    /\ work.call \in {"none", "cleared", "sent"}
    /\ work.attempt \in {0, 1}
    /\ work.marks \in [1 .. Examined -> Marks]
    /\ work.proposal \in AllCandidates \cup {None}
    /\ work.candidate \in AllCandidates \cup {None}
    /\ work.verdict \in Verdicts
    /\ work.partial \in BOOLEAN

-----------------------------------------------------------------------------
(* Requests to the processors *)

\* beforeCall: the owner's choice, asked before every request.
ClearCall ==
    /\ work.stage \in Calling /\ work.call = "none"
    /\ work' = IF chosen THEN [work EXCEPT !.call = "cleared"]
                         ELSE [work EXCEPT !.stage = "failed"]
    /\ UNCHANGED <<chosen, late>>

SendCall ==
    /\ work.stage \in Calling /\ work.call = "cleared"
    /\ work' = [work EXCEPT !.call = "sent"]
    /\ late' = IF chosen THEN late ELSE late + 1
    /\ UNCHANGED chosen

\* Mutant: the retry goes out without asking again.
Retried_Cleared == [work EXCEPT !.call = "cleared", !.attempt = 1]
Retried == [work EXCEPT !.call = "none", !.attempt = 1]

\* withProviderRetry, and the client's own retry: one more attempt.
CallFails ==
    /\ work.stage \in Calling /\ work.call = "sent"
    /\ work' = IF work.attempt = 0
               THEN Retried ELSE [work EXCEPT !.stage = "failed", !.call = "none"]
    /\ UNCHANGED <<chosen, late>>

\* A request that will not be retried fails, or the deadline passes.
AbortExtraction ==
    /\ work.stage \in Calling
    /\ work' = [work EXCEPT !.stage = "failed", !.call = "none"]
    /\ UNCHANGED <<chosen, late>>

Advanced(stage) == [work EXCEPT !.stage = stage, !.call = "none", !.attempt = 0]

SwitchProvider ==
    /\ chosen' = ~ chosen
    /\ late' = 0
    /\ UNCHANGED work

-----------------------------------------------------------------------------
(* What the answers become *)

\* Paragraphs past the limit are not looked at.
Spans == {i \in 1 .. work.length : i <= Examined}
Unread == work.length > Examined
Selected(marks) == {i \in Spans : "selected" \in marks[i]}

\* The first answer of the classifier: which paragraphs to go on with.
AnswerSelection(marks) ==
    /\ work.stage = "select" /\ work.call = "sent"
    /\ \A i \in 1 .. Examined : i \notin Spans => marks[i] = {}
    /\ work' = IF Selected(marks) = {}
               THEN [Advanced("done") EXCEPT !.partial = Unread]
               ELSE [Advanced("normalize") EXCEPT !.marks = marks]
    /\ UNCHANGED <<chosen, late>>

\* The language model's candidates.  Without any, the classifier returns its
\* answer as it is.
AnswerNormalization(partial) ==
    /\ work.stage = "normalize" /\ work.call = "sent"
    /\ \/ work' = [Advanced("done") EXCEPT !.partial = partial]
       \/ \E candidate \in Proposals :
             /\ \A q \in candidate.evidence : q[2] <= work.length
             /\ work' =
                  [Advanced(IF work.system = "system_1" THEN "check" ELSE "validate")
                     EXCEPT !.proposal = candidate, !.candidate = candidate,
                            !.partial = partial]
    /\ UNCHANGED <<chosen, late>>

\* Mutant: the paragraphs quotes begin in, but for those they lie in.
Cited_Beyond == {i \in Spans : \E q \in work.candidate.evidence : q[1] = i /\ i < q[2]}

\* The paragraphs a quote lies in.  One that goes beyond a paragraph lies in none.
Cited == {i \in Spans : <<i, i>> \in work.candidate.evidence}
Corrects == \E i \in Cited : "corrects" \in work.marks[i]
UncertainRequest == \E i \in Cited : "hardly" \in work.marks[i]

JudgedIntent(candidate) ==
    IF Corrects /\ candidate.intent # "retraction" THEN "correction" ELSE candidate.intent

\* Mutant: an uncertain candidate keeps the language model's disposition.
JudgedDisposition_Keeps(candidate, verdict) ==
    IF verdict.supported = "no" THEN "rejected" ELSE candidate.disposition

JudgedDisposition(candidate, verdict) ==
    CASE verdict.supported = "no" -> "rejected"
      [] verdict.supported # "no" /\ (\/ verdict.supported = "unsure"
                                      \/ ~ verdict.atomic
                                      \/ ~ verdict.categories
                                      \/ UncertainRequest) -> "needs_clarification"
      [] OTHER -> candidate.disposition

\* Mutant: the language model's sensitivity and categories are trusted.
JudgedFlaws_Kept(candidate, verdict) ==
    candidate.flaws \ {"restricted", "category", "secret"}

\* The classifier's sensitivity replaces the language model's, a missing answer
\* counts as RESTRICTED; its categories, when it names any, are there.
JudgedFlaws(candidate, verdict) ==
    (candidate.flaws \ ({"restricted"} \cup IF verdict.categories THEN {"category"} ELSE {}))
       \cup IF verdict.sensitivity = "RESTRICTED" THEN {"restricted"} ELSE {}

LeftOut == work.partial \/ Unread

\* The classifier's second answer.
AnswerCheck ==
    /\ work.stage = "check" /\ work.call = "sent"
    /\ \E verdict \in Opinions :
          LET c == work.candidate
          IN  work' = [Advanced("validate") EXCEPT
                 !.verdict = verdict, !.partial = LeftOut,
                 !.candidate = [c EXCEPT !.intent = JudgedIntent(c),
                                         !.disposition = JudgedDisposition(c, verdict),
                                         !.flaws = JudgedFlaws(c, verdict)]]
    /\ UNCHANGED <<chosen, late>>

\* Mutant: earlier messages are evidence for any claim.
CitesSource_Context(candidate) == TRUE

\* Evidence is in the message itself; a confirmation may cite earlier ones too.
CitesSource(candidate) ==
    /\ candidate.evidence # {Earlier}
    /\ Earlier \in candidate.evidence => candidate.intent = "confirmation"

Validated(candidate) ==
    CASE candidate.flaws # {} \/ ~ CitesSource(candidate) -> "rejected"
      [] candidate.flaws = {} /\ CitesSource(candidate)
         /\ (~ candidate.atomic \/ candidate.ambiguousDate) -> "needs_clarification"
      [] OTHER -> candidate.disposition

ValidateCandidate ==
    /\ work.stage = "validate"
    /\ work' = [work EXCEPT !.stage = "done",
                            !.candidate.disposition = Validated(work.candidate)]
    /\ UNCHANGED <<chosen, late>>

-----------------------------------------------------------------------------

ProviderInit ==
    /\ chosen = TRUE
    /\ late = 0
    /\ work \in {[system |-> system, length |-> length,
                  stage |-> IF system = "system_1" THEN "select" ELSE "normalize",
                  call |-> "none", attempt |-> 0,
                  marks |-> [i \in 1 .. Examined |-> {}],
                  proposal |-> None, candidate |-> None, verdict |-> NoVerdict,
                  partial |-> FALSE] :
                    system \in {"system_1", "system_2"}, length \in Paragraphs}

ProviderNext ==
    \/ ClearCall \/ SendCall \/ CallFails \/ AbortExtraction
    \/ \E marks \in [1 .. Examined -> Marks] : AnswerSelection(marks)
    \/ \E partial \in BOOLEAN : AnswerNormalization(partial)
    \/ AnswerCheck \/ ValidateCandidate
    \/ work.stage \in Calling /\ SwitchProvider

-----------------------------------------------------------------------------
(* Properties *)

\* "Each provider stage [...] rechecks that choice so work from a previous
\* selection cannot disclose more data": once the owner has chosen another
\* provider, no more than the one request already cleared goes out, over all
\* stages and retries.
OneRequestAtMost == late <= 1

\* A candidate that may be written cites the message itself, was eligible to the
\* language model, and is not secret-like nor of a quote that is not there.  The
\* classifier, where there is one, has found it supported, atomic, categorized and
\* not RESTRICTED, and no paragraph one of its quotes lies in hardly asks for it;
\* otherwise it was atomic, not RESTRICTED and of categories that are there to the
\* language model.  Of a quote that goes beyond a paragraph nothing is asked.
EligibleIsSound ==
    work.stage = "done" /\ work.candidate # None =>
      LET c == work.candidate
          first == work.proposal
      IN  c.disposition = "eligible" =>
            /\ first.disposition = "eligible" /\ first.atomic /\ ~ first.ambiguousDate
            /\ first.flaws \cap {"secret", "quote"} = {}
            /\ first.evidence \ {Earlier} # {}
            /\ Earlier \in first.evidence => first.intent = "confirmation"
            /\ work.system = "system_2" => first.flaws = {}
            /\ work.system = "system_1" =>
                 /\ work.verdict.supported = "yes"
                 /\ work.verdict.atomic /\ work.verdict.categories
                 /\ work.verdict.sensitivity # "RESTRICTED"
                 /\ \A i \in 1 .. work.length :
                       <<i, i>> \in first.evidence /\ i <= Examined =>
                          "hardly" \notin work.marks[i]
=============================================================================

----------------------------- MODULE Extraction -----------------------------
(***************************************************************************)
(* Memory extraction (apps/api/src/memory-processing): a call claims the   *)
(* run of a source turn, sends the turn to the owner's provider outside    *)
(* any transaction, and commits the candidates that come back under the    *)
(* owner's lock and the run's.  Corrections and retractions stay pending   *)
(* until the steward reconciles them, by calls that take the same locks.   *)
(* The owner edits, removes and restores memories under none.  One owner;  *)
(* the API may restart in the middle of a call, a lease may lapse under a  *)
(* slow one, and calls on the same turn overlap.                           *)
(*                                                                         *)
(* A provider's answer is a kind for each candidate id.  A saved           *)
(* configuration is the provider it selects: fingerprint, model, timeout   *)
(* and write mode follow from it and from the deployment.  What the        *)
(* first-party client's policy allows is one of three levels of access.    *)
(***************************************************************************)
EXTENDS Naturals, FiniteSets

CONSTANTS
    Sources,     \* user turns, each with one run
    Candidates,  \* ids a provider gives its candidates
    Words,       \* what a record may say
    Text,        \* what a candidate says
    Systems,     \* providers the owner can select
    Calls,       \* requests the API serves at a time
    DefaultAccess,  \* what the default first-party policy allows
    AccessInputs,   \* what the owner may leave of it
    Answers,        \* what a provider may return
    None

VARIABLES
    provider,    \* the owner's selection (ProcessingProviderPreference)
    access,      \* what the first-party client's policy allows
    run,         \* MemoryExtractionRun, by source
    message,     \* ChatMessage.processing, by source
    receipt,     \* MemoryCandidateApplication: the outcome it stores
    record,      \* the memory or suggestion written for a candidate
    words,       \* what it says, or will say when it is written
    theirs,      \* history: the memories the owner has edited or restored
    tools,       \* tool receipts of a source
    call,        \* calls in progress
    commits      \* completion events of a source in the audit trail

recordVars == <<record, words, theirs>>
vars == <<provider, access, run, message, receipt, recordVars, tools, call, commits>>

Records == Sources \X Candidates
Searches == {"memory_search", "suggestion_search"}

Statuses ==
    {"ABSENT", "PENDING", "RUNNING", "FAILED", "SKIPPED", "PARTIAL", "COMPLETED"}
Done == {"PARTIAL", "COMPLETED"}

\* A candidate as the provider returns it: its disposition and, when eligible,
\* its intent.
Reconcilable == {"correction", "retraction"}
Unclear == {"unclear", "unclear_correction"}
Kinds == {"absent", "eligible", "rejected"} \cup Unclear \cup Reconcilable
AllAnswers == [kind: [Candidates -> Kinds], partial: BOOLEAN]
Accesses == {"ABSENT", "NONE", "SUGGEST", "WRITE"}

ASSUME NoneAssumption == None \notin Calls \cup Systems
ASSUME TextAssumption == Text \in [Candidates -> Words]
ASSUME InputAssumption ==
    /\ Answers \subseteq AllAnswers
    /\ AccessInputs \subseteq Accesses
    /\ DefaultAccess \in {"SUGGEST", "WRITE"}

Open == {"pending_reconciliation", "needs_clarification"}
Written == {"APPLIED", "QUEUED_FOR_REVIEW"}
Applied == Written \cup {"deduplicated", "DENIED"}
Outcomes == {"none", "rejected", "reconciled"} \cup Open \cup Applied

\* The result column, which the source message repeats.
NoOutcomes == [c \in Candidates |-> "none"]
NoResult == [status |-> "ABSENT", outcomes |-> NoOutcomes, fingerprint |-> None]
Configurations == Systems \cup {"corrupt"}
Results == [status: Statuses, outcomes: [Candidates -> Outcomes],
            fingerprint: Configurations \cup {None}]

NoPending == [c \in Candidates |-> "absent"]
NoRun == [status |-> "ABSENT", configuration |-> None, claim |-> None,
          lease |-> "none", pending |-> NoPending, result |-> NoResult]
Runs == [status: Statuses, configuration: Configurations \cup {None},
         claim: Calls \cup {None}, lease: {"none", "live", "lapsed"},
         pending: [Candidates -> Kinds], result: Results]

Phases == {"idle", "upsert", "claim", "prepare", "asked", "commit", "locked", "enqueue",
           "failing", "resolve", "resolving"}
NoAnswer == [kind |-> NoPending, partial |-> FALSE]
IdleCall == [phase |-> "idle", source |-> None, configuration |-> None,
             answer |-> NoAnswer, access |-> "NONE", known |-> {},
             verdict |-> "FAILED", candidate |-> None, outcome |-> "none",
             missed |-> {}]
\* known: what the live records said when the call took the locks; missed: the
\* memories the owner has changed since.
CallStates ==
    [phase: Phases, source: Sources \cup {None},
     configuration: Configurations \cup {None}, answer: AllAnswers, access: Accesses,
     known: SUBSET Words, verdict: {"FAILED", "SKIPPED"},
     candidate: Candidates \cup {None}, outcome: Outcomes, missed: SUBSET Records]

TypeOK ==
    /\ provider \in Systems
    /\ access \in Accesses
    /\ run \in [Sources -> Runs]
    /\ message \in [Sources -> Results]
    /\ receipt \in [Sources -> [Candidates -> Outcomes]]
    /\ record \in [Records -> {"none", "memory", "queued", "gone", "refused"}]
    /\ words \in [Records -> Words]
    /\ theirs \subseteq Records
    /\ tools \in [Sources -> [searched: SUBSET Searches, found: SUBSET Records,
                              mutated: SUBSET Records]]
    /\ call \in [Calls -> CallStates]
    /\ commits \in [Sources -> Nat]

-----------------------------------------------------------------------------
(* Locks and steps of a call *)

Source(k) == call[k].source

\* lockUser is held; persistOutcome and complete hold the run's row lock with it.
Locked(k) == call[k].phase \in {"locked", "resolving"}
OwnerLocked == \E k \in Calls : Locked(k)
RowLocked(s) == \E k \in Calls : Locked(k) /\ Source(k) = s

Go(k, phase) == call' = [call EXCEPT ![k].phase = phase]
Finish(k) == call' = [call EXCEPT ![k] = IdleCall]
Throw(k, verdict) ==
    call' = [call EXCEPT ![k] = [@ EXCEPT !.phase = "failing", !.verdict = verdict,
                                          !.answer = NoAnswer, !.access = "NONE",
                                          !.known = {}, !.missed = {}]]

-----------------------------------------------------------------------------
(* process, retry and reprocess *)

\* loadSource and config.forUser: what is configured now matters to a run that is
\* about to be created.
Begin(k, s) ==
    /\ call[k].phase = "idle"
    /\ call' = [call EXCEPT ![k] = [IdleCall EXCEPT !.phase = "upsert", !.source = s,
                                                    !.configuration = provider]]

Process(k, s) ==
    /\ Begin(k, s)
    /\ UNCHANGED <<provider, access, run, message, receipt, recordVars, tools, commits>>

\* retry makes a skipped run claimable again, in a statement of its own.
Retry(k, s) ==
    /\ Begin(k, s)
    /\ ~ RowLocked(s)
    /\ run' = IF run[s].status = "SKIPPED"
              THEN [run EXCEPT ![s].status = "FAILED"] ELSE run
    /\ UNCHANGED <<provider, access, message, receipt, recordVars, tools, commits>>

Reprocessable(s) ==
    /\ run[s].status \in {"FAILED", "SKIPPED"}
    /\ run[s].lease = "none"

Reprocess(k, s) ==
    /\ Begin(k, s)
    /\ ~ OwnerLocked
    /\ Reprocessable(s)
    /\ run' = [run EXCEPT ![s] = [@ EXCEPT !.status = "PENDING",
                                           !.configuration = provider,
                                           !.result = NoResult]]
    /\ UNCHANGED <<provider, access, message, receipt, recordVars, tools, commits>>

\* The run is created or read; a finished or skipped one answers the call.
Upsert(k) ==
    /\ call[k].phase = "upsert"
    /\ LET s == Source(k)
           row == IF run[s].status = "ABSENT"
                  THEN [NoRun EXCEPT !.status = "PENDING",
                                     !.configuration = call[k].configuration]
                  ELSE run[s]
       IN  /\ run' = [run EXCEPT ![s] = row]
           /\ IF row.status \in Done \cup {"SKIPPED"}
              THEN Finish(k)
              ELSE call' = [call EXCEPT ![k] =
                      [@ EXCEPT !.phase = "claim",
                                !.configuration = row.configuration]]
    /\ UNCHANGED <<provider, access, message, receipt, recordVars, tools, commits>>

Claimable(s) ==
    /\ run[s].status \in {"PENDING", "FAILED", "RUNNING"}
    /\ run[s].lease # "live"

\* claimRun, by id: the configuration read before is not compared.  A corrupt
\* one fails without asking a provider.
Claim(k) ==
    /\ call[k].phase = "claim" /\ ~ RowLocked(Source(k))
    /\ IF Claimable(Source(k))
       THEN /\ run' = [run EXCEPT ![Source(k)] = [@ EXCEPT !.status = "RUNNING",
                                                          !.claim = k,
                                                          !.lease = "live"]]
            /\ IF call[k].configuration = "corrupt"
               THEN Throw(k, "FAILED") ELSE Go(k, "prepare")
       ELSE Finish(k) /\ UNCHANGED run
    /\ UNCHANGED <<provider, access, message, receipt, recordVars, tools, commits>>

\* ProcessingPermissionService.check
Permitted(configuration) == configuration = provider

\* prepareInput and beforeCall: the turn goes to the provider if it is still the
\* owner's choice.  Every later stage and retry asks again.
Ask(k) ==
    /\ call[k].phase \in {"prepare", "asked"}
    /\ IF Permitted(call[k].configuration) THEN Go(k, "asked") ELSE Throw(k, "SKIPPED")
    /\ UNCHANGED <<provider, access, run, message, receipt, recordVars, tools, commits>>

\* A late voice transcript, a voice session of another configuration, missing
\* credentials, or secret-like content: nothing more is sent.
Block(k) ==
    /\ call[k].phase \in {"prepare", "asked"}
    /\ Throw(k, "SKIPPED")
    /\ UNCHANGED <<provider, access, run, message, receipt, recordVars, tools, commits>>

\* ensureWebChatAccess and ensureVoiceAccess: a missing first-party client is
\* created with its default policy; a deleted policy is not.
EnsureAccess == access' = IF access = "ABSENT" THEN DefaultAccess ELSE access

\* The provider answers, and access is ensured.
Answer(k, answer) ==
    /\ call[k].phase = "asked"
    /\ EnsureAccess
    /\ call' = [call EXCEPT ![k] = [@ EXCEPT !.phase = "commit", !.answer = answer]]
    /\ UNCHANGED <<provider, run, message, receipt, recordVars, tools, commits>>

\* The provider fails, the signal aborts, a candidate is malformed, or the
\* transaction times out and rolls back.
Break(k) ==
    /\ call[k].phase \in {"prepare", "asked", "commit", "locked"}
    /\ Throw(k, "FAILED")
    /\ UNCHANGED <<provider, access, run, message, receipt, recordVars, tools, commits>>

-----------------------------------------------------------------------------
(* persistOutcome and persistFailure *)

Live(r) == record[r] \in {"memory", "queued"}
\* Mutant: queued suggestions are not looked at.
KnownTexts_Memories == {words[r] : r \in {q \in Records : record[q] = "memory"}}
KnownTexts == {words[r] : r \in {q \in Records : Live(q)}}

\* Mutant: the claim token is not compared.
HoldsClaim_AnyHolder(k) == run[Source(k)].status = "RUNNING"
HoldsClaim(k) == run[Source(k)].claim = k

\* The owner's lock, the run's, and what the transaction reads under them.
LockOutcome(k) ==
    /\ call[k].phase = "commit" /\ ~ OwnerLocked
    /\ CASE ~ HoldsClaim(k) -> Throw(k, "FAILED")
         [] HoldsClaim(k) /\ ~ Permitted(call[k].configuration) -> Throw(k, "SKIPPED")
         [] OTHER -> call' = [call EXCEPT ![k] = [@ EXCEPT !.phase = "locked",
                                                          !.access = access,
                                                          !.known = KnownTexts]]
    /\ UNCHANGED <<provider, access, run, message, receipt, recordVars, tools, commits>>

\* applyCandidate: the outcome for a candidate whose text is or is not known.
ApplyOutcome(allowed, known) ==
    CASE allowed \in {"ABSENT", "NONE"} -> "DENIED"
      [] allowed \in {"SUGGEST", "WRITE"} /\ known -> "deduplicated"
      [] allowed = "WRITE" /\ ~ known -> "APPLIED"
      [] allowed = "SUGGEST" /\ ~ known -> "QUEUED_FOR_REVIEW"

\* Mutant: a record in the status of its outcome.
RecordFor_Outcome(outcome) == outcome
RecordFor(outcome) ==
    CASE outcome = "APPLIED" -> "memory"
      [] outcome = "QUEUED_FOR_REVIEW" -> "queued"
      [] OTHER -> "none"

\* Mutant: the candidates of a turn are not compared with each other.
Orders_Each(kind) == {{c \in Candidates : kind[c] = "eligible"}}

\* Candidates are applied in the provider's order: of those with the same text,
\* the first is written.
Orders(kind) ==
    LET eligible == {c \in Candidates : kind[c] = "eligible"}
    IN  {first \in SUBSET eligible :
            /\ \A c \in eligible : \E d \in first : Text[d] = Text[c]
            /\ \A d, e \in first : Text[d] = Text[e] => d = e}

OutcomeOf(k, c, first) ==
    LET kind == call[k].answer.kind[c] IN
    CASE kind = "absent" -> "none"
      [] kind = "rejected" -> "rejected"
      [] kind = "unclear" -> "needs_clarification"
      [] kind \in Reconcilable \cup {"unclear_correction"} -> "pending_reconciliation"
      [] OTHER -> ApplyOutcome(call[k].access,
                               Text[c] \in call[k].known \/ c \notin first)

\* Mutant: candidates that were written stay pending too.
Pending_All(kind) ==
    [c \in Candidates |-> IF kind[c] = "rejected" THEN "absent" ELSE kind[c]]

Pending(kind) ==
    [c \in Candidates |-> IF kind[c] \in Reconcilable \cup Unclear
                          THEN kind[c] ELSE "absent"]

\* Mutant: the lease is kept.
Released_KeepsLease(row, result) ==
    [row EXCEPT !.status = result.status, !.claim = None, !.result = result]

\* A finished run, without claim or lease.
Released(row, result) ==
    [row EXCEPT !.status = result.status, !.claim = None, !.lease = "none",
                !.result = result]

CommitOutcome(k) ==
    /\ call[k].phase = "locked"
    /\ \E first \in Orders(call[k].answer.kind) :
         LET s == Source(k)
             outcomes == [c \in Candidates |-> OutcomeOf(k, c, first)]
             rejected == \E c \in Candidates : outcomes[c] = "rejected"
             status == IF call[k].answer.partial \/ rejected
                       THEN "PARTIAL" ELSE "COMPLETED"
             result == [status |-> status, outcomes |-> outcomes,
                        fingerprint |-> call[k].configuration]
         IN  /\ run' = [run EXCEPT ![s] = [Released(@, result) EXCEPT
                                             !.pending = Pending(call[k].answer.kind)]]
             /\ message' = [message EXCEPT ![s] = result]
             /\ receipt' = [receipt EXCEPT ![s] = [c \in Candidates |->
                   IF outcomes[c] \in Applied THEN outcomes[c] ELSE "none"]]
             /\ record' = [r \in Records |->
                   IF r[1] = s THEN RecordFor(outcomes[r[2]]) ELSE record[r]]
    /\ commits' = [commits EXCEPT ![Source(k)] = @ + 1]
    /\ call' = [call EXCEPT ![k] = [@ EXCEPT !.phase = "enqueue", !.answer = NoAnswer,
                                             !.access = "NONE", !.known = {},
                                             !.missed = {}]]
    /\ UNCHANGED <<provider, access, words, theirs, tools>>

\* enqueueApplied: the outcome stands even when the queue refuses the job.
Enqueue(k) ==
    /\ call[k].phase = "enqueue"
    /\ Finish(k) \/ Throw(k, "FAILED")
    /\ UNCHANGED <<provider, access, run, message, receipt, recordVars, tools, commits>>

Failure(k) == [NoResult EXCEPT !.status = call[k].verdict,
                               !.fingerprint = call[k].configuration]

\* Mutant: the message is updated whether or not the claim was still held.
FailedMessage_AnyHolder(k) == [message EXCEPT ![Source(k)] = Failure(k)]
FailedMessage(k) ==
    IF HoldsClaim(k) THEN [message EXCEPT ![Source(k)] = Failure(k)] ELSE message

PersistFailure(k) ==
    /\ call[k].phase = "failing" /\ ~ RowLocked(Source(k))
    /\ run' = IF HoldsClaim(k)
              THEN [run EXCEPT ![Source(k)] = Released(@, Failure(k))] ELSE run
    /\ message' = FailedMessage(k)
    /\ Finish(k)
    /\ UNCHANGED <<provider, access, receipt, recordVars, tools, commits>>

-----------------------------------------------------------------------------
(* Reconciliation *)

\* recordTool after a search: what it returned is noted on the turn's run.
RecordSearch(s, search, found) ==
    /\ run[s].status # "ABSENT" /\ ~ RowLocked(s)
    /\ \A r \in found :
          record[r] = IF search = "memory_search" THEN "memory" ELSE "queued"
    /\ tools' = [tools EXCEPT ![s].searched = @ \cup {search},
                              ![s].found = @ \cup found]
    /\ UNCHANGED <<provider, access, run, message, receipt, recordVars, call, commits>>

\* recordTool after update_memory, archive_memory or reject_memory_suggestion.
RecordMutation(s, r) ==
    /\ run[s].status # "ABSENT" /\ ~ RowLocked(s)
    /\ record[r] # "none"
    /\ tools' = [tools EXCEPT ![s].mutated = @ \cup {r}]
    /\ UNCHANGED <<provider, access, run, message, receipt, recordVars, call, commits>>

\* complete: the run is found and its configuration read, and the first-party
\* client ensured, before anything is asked of the candidate.
BeginCompletion(k, s) ==
    /\ call[k].phase = "idle"
    /\ run[s].status # "ABSENT" /\ run[s].configuration # "corrupt"
    /\ EnsureAccess
    /\ call' = [call EXCEPT ![k] = 
                    [IdleCall EXCEPT !.phase = "resolve", !.source = s,
                                     !.configuration = run[s].configuration]]
    /\ UNCHANGED <<provider, run, message, receipt, recordVars, tools, commits>>

\* What is left unmatched by the searches, and by the live records that share
\* terms with the candidate.
Matched(s, related) == tools[s].found \cup related

\* Mutant: the disposition is not looked at.
Resolvable_Unclear(k, c) ==
    /\ receipt[Source(k)][c] = "none"
    /\ run[Source(k)].pending[c] # "absent"
    /\ Permitted(call[k].configuration)
    /\ tools[Source(k)].searched = Searches

\* The checks both resolutions share.  A candidate that needs clarification, or
\* a deferred one, changes nothing.
Resolvable(k, c) ==
    /\ receipt[Source(k)][c] = "none"
    /\ run[Source(k)].pending[c] \in Reconcilable
    /\ Permitted(call[k].configuration)
    /\ tools[Source(k)].searched = Searches

\* The locks, and what the transaction reads under them.
LockResolution(k, c, outcome) ==
    /\ call[k].phase = "resolve" /\ ~ OwnerLocked
    /\ Resolvable(k, c)
    /\ call' = [call EXCEPT ![k] = [@ EXCEPT !.phase = "resolving", !.candidate = c,
                                             !.outcome = outcome]]
    /\ UNCHANGED <<provider, access, run, message, receipt, recordVars, tools, commits>>

CompleteCreate(k, c, related) ==
    /\ LockResolution(k, c, ApplyOutcome(access, Text[c] \in KnownTexts))
    /\ run[Source(k)].pending[c] # "retraction"
    /\ Matched(Source(k), related) = {}

CompleteHandled(k, c, related) ==
    /\ LockResolution(k, c, "reconciled")
    /\ tools[Source(k)].mutated # {}
    /\ Matched(Source(k), related) \subseteq tools[Source(k)].mutated

CommitResolution(k) ==
    /\ call[k].phase = "resolving"
    /\ LET s == Source(k)
           c == call[k].candidate
           outcome == call[k].outcome
           result == [run[s].result EXCEPT !.outcomes[c] = outcome]
       IN  /\ receipt' = [receipt EXCEPT ![s][c] = outcome]
           /\ run' = [run EXCEPT ![s] = [@ EXCEPT !.pending[c] = "absent",
                                                  !.result = result]]
           /\ message' = [message EXCEPT ![s] = result]
           /\ record' = [record EXCEPT ![<<s, c>>] = RecordFor(outcome)]
    /\ Finish(k)
    /\ UNCHANGED <<provider, access, words, theirs, tools, commits>>

\* The candidate is not resolvable or its matches are
\* not handled, or the transaction is rolled back: nothing changes.
CompletionFails(k) ==
    /\ call[k].phase \in {"resolve", "resolving"}
    /\ Finish(k)
    /\ UNCHANGED <<provider, access, run, message, receipt, recordVars, tools, commits>>

-----------------------------------------------------------------------------
(* The owner, time and restarts *)

SetProvider(system) ==
    /\ ~ OwnerLocked /\ provider # system
    /\ provider' = system
    /\ UNCHANGED <<access, run, message, receipt, recordVars, tools, call, commits>>

\* The owner edits or deletes the first-party client or its policy.
SetAccess(allowed) ==
    /\ access # allowed
    /\ access' = allowed
    /\ UNCHANGED <<provider, run, message, receipt, recordVars, tools, call, commits>>

\* claimSuggestion: a queued suggestion is applied or rejected.
ReviewSuggestion(r, state) ==
    /\ ~ OwnerLocked /\ record[r] = "queued"
    /\ record' = [record EXCEPT ![r] = state]
    /\ UNCHANGED <<provider, access, run, message, receipt, words, theirs, tools, call,
                   commits>>

\* updateMemory and deleteMemory, by the owner or by tools, archival, or the date
\* passes.  None of them waits for the transactions that look for equal texts.
UpdateMemory(r, state, said) ==
    /\ record[r] \in {"memory", "gone"}
    /\ <<state, said>> # <<record[r], words[r]>>
    /\ record' = [record EXCEPT ![r] = state]
    /\ words' = [words EXCEPT ![r] = said]
    /\ IF state = "memory"
       THEN /\ theirs' = theirs \cup {r}
            /\ call' = [k \in Calls |-> IF Locked(k)
                          THEN [call[k] EXCEPT !.missed = @ \cup {r}] ELSE call[k]]
       ELSE UNCHANGED <<theirs, call>>
    /\ UNCHANGED <<provider, access, run, message, receipt, tools, commits>>

LapseLease(s) ==
    /\ run[s].lease = "live"
    /\ run' = [run EXCEPT ![s].lease = "lapsed"]
    /\ UNCHANGED <<provider, access, message, receipt, recordVars, tools, call, commits>>

\* The API restarts: the call is gone, its claim stays.
Crash(k) ==
    /\ call[k].phase # "idle"
    /\ Finish(k)
    /\ UNCHANGED <<provider, access, run, message, receipt, recordVars, tools, commits>>

\* An upgrade no longer reads the configuration a run was saved with.
Upgrade(s) ==
    /\ run[s].status # "ABSENT" /\ run[s].configuration # "corrupt"
    /\ run' = [run EXCEPT ![s].configuration = "corrupt"]
    /\ UNCHANGED <<provider, access, message, receipt, recordVars, tools, call, commits>>

-----------------------------------------------------------------------------

Init ==
    /\ provider \in Systems
    /\ access \in AccessInputs
    /\ run = [s \in Sources |-> NoRun]
    /\ message = [s \in Sources |-> NoResult]
    /\ receipt = [s \in Sources |-> NoOutcomes]
    /\ record = [r \in Records |-> "none"]
    /\ words = [r \in Records |-> Text[r[2]]]
    /\ theirs = {}
    /\ tools = [s \in Sources |-> [searched |-> {}, found |-> {}, mutated |-> {}]]
    /\ call = [k \in Calls |-> IdleCall]
    /\ commits = [s \in Sources |-> 0]

Advance(k) ==
    \/ Upsert(k) \/ Claim(k) \/ Ask(k) \/ Block(k) \/ Break(k)
    \/ \E answer \in Answers : Answer(k, answer)
    \/ LockOutcome(k) \/ CommitOutcome(k) \/ Enqueue(k)
    \/ PersistFailure(k)

Steward ==
    \/ \E s \in Sources :
          \/ \E search \in Searches, found \in SUBSET Records :
                RecordSearch(s, search, found)
          \/ \E r \in Records : RecordMutation(s, r)
          \/ \E k \in Calls : BeginCompletion(k, s)
    \/ \E k \in Calls :
          \/ \E c \in Candidates, related \in SUBSET {r \in Records : Live(r)} :
                CompleteCreate(k, c, related) \/ CompleteHandled(k, c, related)
          \/ CommitResolution(k) \/ CompletionFails(k)

Owner ==
    \/ \E system \in Systems : SetProvider(system)
    \/ \E allowed \in AccessInputs : SetAccess(allowed)
    \/ \E r \in Records, state \in {"memory", "refused"} : ReviewSuggestion(r, state)
    \/ \E r \in Records, state \in {"memory", "gone"}, said \in Words :
          UpdateMemory(r, state, said)

Next ==
    \/ \E k \in Calls, s \in Sources : Process(k, s) \/ Retry(k, s) \/ Reprocess(k, s)
    \/ \E k \in Calls : Advance(k) \/ Crash(k)
    \/ Steward
    \/ Owner
    \/ \E s \in Sources : LapseLease(s) \/ Upgrade(s)

Spec == Init /\ [][Next]_vars

-----------------------------------------------------------------------------
(* Properties *)

\* A run has a claim and a lease exactly while it is being processed, so that
\* reprocess, which asks for no lease, is never refused for a call that is gone
\* for good, and a late failure has nothing to release.
ClaimHeld ==
    \A s \in Sources :
        /\ run[s].status = "RUNNING" <=> run[s].claim # None
        /\ run[s].status = "RUNNING" <=> run[s].lease # "none"

\* "Cancellation before commit leaves no candidate writes", and after the commit
\* every candidate is accounted for once: pending, or resolved with the receipt
\* its outcome repeats, and only written ones have a record.
Accounted ==
    \A s \in Sources : \A c \in Candidates :
        LET outcome == run[s].result.outcomes[c]
        IN  IF run[s].status \in Done
            THEN /\ outcome \in Open <=> run[s].pending[c] # "absent"
                 /\ receipt[s][c] = IF outcome \in Applied \cup {"reconciled"}
                                    THEN outcome ELSE "none"
                 /\ record[<<s, c>>] # "none" <=> outcome \in Written
            ELSE /\ run[s].pending[c] = "absent"
                 /\ receipt[s][c] = "none"
                 /\ record[<<s, c>>] = "none"

\* At rest nothing holds a run, and no candidate of a turn is lost or doubled
\* between its outcome, what is pending, its receipt and its record.
ClaimsAndCandidates == ClaimHeld /\ Accounted

\* "Source/candidate identity prevents retries from normalizing into duplicate
\* writes": however many runs find the same text, one live record has it, but for
\* the memories the owner made say it, by an edit, or live again.
NoDuplicateText ==
    \A q, r \in Records :
        Live(q) /\ Live(r) /\ words[q] = words[r] => q = r \/ {q, r} \cap theirs # {}

\* The source message shows the run's result, also when a call whose claim was
\* taken over reports its failure last.
MessageShowsResult ==
    \A s \in Sources : run[s].result # NoResult => message[s] = run[s].result

\* However many calls and retries read a turn, extraction writes its text once, and
\* its message shows the result of its run.
StoredOnceAndShown == NoDuplicateText /\ MessageShowsResult

\* The turn's outcome is committed by this step.
Commits(s) == commits'[s] # commits[s]

\* "An expired owner cannot commit after a replacement claim", and "switching
\* providers stops [...] commit from the previous choice".
CommitIsCurrent ==
    [][\A s \in Sources : Commits(s) =>
          \E k \in Calls :
             /\ call[k].phase = "locked" /\ Source(k) = s
             /\ run[s].claim = k
             /\ call[k].configuration = provider]_vars

\* "Completed sources are never reprocessed": a finished run keeps its status,
\* and of its outcomes only a pending reconciliation changes.
CompletedStays ==
    [][\A s \in Sources : run[s].status \in Done =>
          /\ run'[s].status = run[s].status
          /\ ~ Commits(s)
          /\ \A c \in Candidates :
                run[s].result.outcomes[c] # "pending_reconciliation" =>
                   run'[s].result.outcomes[c] = run[s].result.outcomes[c]]_vars

\* An outcome is committed by the call that holds the claim, under the provider
\* the owner uses, and a finished run is never processed again.
OutcomeIsSettled == CommitIsCurrent /\ CompletedStays

\* What has become of a candidate.
Fate(s, c) ==
    LET outcome == run[s].result.outcomes[c] IN
    CASE run[s].status \notin Done -> "unread"
      [] run[s].status \in Done /\ outcome = "pending_reconciliation" -> "open"
      [] run[s].status \in Done /\ outcome \in Written /\ record[<<s, c>>] # "refused" ->
            "kept"
      [] OTHER -> "dropped"

Promise == INSTANCE KeptOnce WITH
    Turns <- Sources,
    Claims <- Candidates,
    fate <- [s \in Sources |-> [c \in Candidates |-> Fate(s, c)]],
    kept <- {r \in Records : Live(r)},
    looking <- OwnerLocked,
    missed <- UNION {call[k].missed : k \in Calls}

\* Calls, retries, restarts and reconciliation implement the promise: a turn is
\* read once, each candidate meets one fate, no record is added next to one that
\* is seen to say the same, and what is removed returns by the owner's hand only.
KeepsPromise == Promise!Spec
=============================================================================

-------------------------- MODULE ExtractionProofs --------------------------
(***************************************************************************)
(* Proofs about memory extraction, for any number of turns, candidates,     *)
(* providers and overlapping calls, across restarts, lapsed leases and the  *)
(* owner's edits: only the holder of the claim commits an outcome, under    *)
(* the provider the owner uses; every candidate is accounted for once; and  *)
(* nothing is written next to a record that says the same.                  *)
(***************************************************************************)
EXTENDS Extraction, TLAPS

USE DEF recordVars

\* What the live records say that call k has not missed.
SeenTexts(k) ==
    {words[r] : r \in {q \in Records : Live(q) /\ q \notin call[k].missed}}

\* A transaction that commits an outcome also holds its run's claim, and knows of
\* every live text; one that resolves a candidate finds it pending, and its text
\* new if it writes it: but for what the owner has changed since.
LockHolds(k) ==
    /\ call[k].missed \subseteq theirs
    /\ call[k].phase = "locked" =>
          /\ HoldsClaim(k)
          /\ call[k].configuration = provider
          /\ SeenTexts(k) \subseteq call[k].known
    /\ call[k].phase = "resolving" =>
          /\ call[k].candidate \in Candidates
          /\ run[Source(k)].pending[call[k].candidate] \in Reconcilable
          /\ call[k].outcome \in Applied \cup {"reconciled"}
          /\ call[k].outcome \in Written => Text[call[k].candidate] \notin SeenTexts(k)

CallsInOrder ==
    /\ \A k \in Calls : call[k].phase # "idle" => Source(k) \in Sources
    /\ \A j, k \in Calls : Locked(j) /\ Locked(k) => j = k
    /\ \A k \in Calls : IF Locked(k) THEN LockHolds(k) ELSE call[k].missed = {}

\* A record says what its candidate says until the owner has approved it.
WordsAgree ==
    \A r \in Records : record[r] \in {"none", "queued"} => words[r] = Text[r[2]]

\* What is left to reconcile has no other outcome yet.
PendingAgrees ==
    \A s \in Sources : \A c \in Candidates :
        run[s].pending[c] \in Reconcilable =>
           run[s].result.outcomes[c] = "pending_reconciliation"

RowsAgree ==
    /\ ClaimHeld /\ Accounted /\ NoDuplicateText /\ MessageShowsResult
    /\ PendingAgrees /\ WordsAgree

IInv == TypeOK /\ CallsInOrder /\ RowsAgree

-----------------------------------------------------------------------------

(* Types *)

LEMMA RowTypes ==
    /\ NoOutcomes \in [Candidates -> Outcomes]
    /\ NoPending \in [Candidates -> Kinds]
    /\ NoResult \in Results
    /\ NoRun \in Runs
    /\ NoAnswer \in AllAnswers
    /\ IdleCall \in CallStates
  <1>1. NoOutcomes \in [Candidates -> Outcomes]
    BY DEF NoOutcomes, Outcomes
  <1>2. NoPending \in [Candidates -> Kinds]
    BY DEF NoPending, Kinds
  <1>3. NoResult \in Results
    BY <1>1 DEF NoResult, Results, Statuses
  <1>4. NoRun \in Runs
    BY <1>2, <1>3 DEF NoRun, Runs, Statuses
  <1>5. NoAnswer \in AllAnswers
    BY <1>2 DEF NoAnswer, AllAnswers
  <1>6. IdleCall \in CallStates
    BY <1>5 DEF IdleCall, CallStates, Phases, Accesses, Outcomes
  <1> QED
    BY <1>1, <1>2, <1>3, <1>4, <1>5, <1>6

LEMMA IdleFields ==
    /\ IdleCall.phase = "idle" /\ IdleCall.source = None /\ IdleCall.missed = {}
  BY DEF IdleCall

\* The fields of a call.
LEMMA CallType ==
    ASSUME TypeOK, NEW k \in Calls
    PROVE  /\ call[k] \in CallStates
           /\ call[k].phase \in Phases
           /\ Source(k) \in Sources \cup {None}
           /\ call[k].configuration \in Configurations \cup {None}
           /\ call[k].answer \in AllAnswers
           /\ call[k].access \in Accesses
           /\ call[k].known \in SUBSET Words
           /\ call[k].candidate \in Candidates \cup {None}
           /\ call[k].outcome \in Outcomes
           /\ call[k].missed \in SUBSET Records
           /\ call[k].verdict \in {"FAILED", "SKIPPED"}
  BY DEF TypeOK, CallStates, Source

LEMMA RunType ==
    ASSUME TypeOK, NEW s \in Sources
    PROVE  /\ run[s] \in Runs
           /\ run[s].status \in Statuses
           /\ run[s].configuration \in Configurations \cup {None}
           /\ run[s].claim \in Calls \cup {None}
           /\ run[s].pending \in [Candidates -> Kinds]
           /\ run[s].result \in Results
           /\ run[s].result.outcomes \in [Candidates -> Outcomes]
  BY DEF TypeOK, Runs, Results

\* The state of the calls after one of them moves on without the owner's lock.
Thrown(k, verdict) ==
    [call[k] EXCEPT !.phase = "failing", !.verdict = verdict,
                    !.answer = NoAnswer, !.access = "NONE", !.known = {},
                    !.missed = {}]

LEMMA ThrownFields ==
    ASSUME TypeOK, NEW k \in Calls, NEW verdict \in {"FAILED", "SKIPPED"}
    PROVE  /\ Thrown(k, verdict) \in CallStates
           /\ Thrown(k, verdict).phase = "failing"
           /\ Thrown(k, verdict).source = Source(k)
           /\ Thrown(k, verdict).missed = {}
  BY CallType, RowTypes DEF Thrown, CallStates, Source, Phases, Accesses

LEMMA GoneFields ==
    ASSUME TypeOK, NEW k \in Calls, NEW phase \in Phases
    PROVE  LET new == [call[k] EXCEPT !.phase = phase]
           IN  /\ new \in CallStates /\ new.phase = phase
               /\ new.source = Source(k) /\ new.missed = call[k].missed
  BY CallType DEF CallStates, Source

-----------------------------------------------------------------------------
(* Steps that leave the parts of the invariant alone *)

LEMMA LockKept ==
    ASSUME NEW j \in Calls, LockHolds(j), call'[j] = call[j],
           run'[Source(j)].claim = run[Source(j)].claim,
           run'[Source(j)].pending = run[Source(j)].pending,
           UNCHANGED <<provider, recordVars>>
    PROVE  LockHolds(j)'
  <1>1. SeenTexts(j)' = SeenTexts(j) /\ Source(j)' = Source(j)
    BY DEF SeenTexts, Live, Source
  <1>2. HoldsClaim(j)' <=> HoldsClaim(j)
    BY <1>1 DEF HoldsClaim
  <1> QED
    BY <1>1, <1>2 DEF LockHolds

\* No call but k holds the lock of a run whose claim or pending candidates change,
\* and no record changes while one holds the owner's.
LEMMA CallStep ==
    ASSUME TypeOK, CallsInOrder, NEW k \in Calls, NEW new \in CallStates,
           call' = [call EXCEPT ![k] = new],
           new.phase # "idle" => new.source \in Sources,
           new.phase \notin {"locked", "resolving"}, new.missed = {},
           \A j \in Calls \ {k} : Locked(j) =>
              /\ run'[Source(j)].claim = run[Source(j)].claim
              /\ run'[Source(j)].pending = run[Source(j)].pending
              /\ UNCHANGED recordVars,
           UNCHANGED provider
    PROVE  CallsInOrder'
  <1>1. /\ call'[k] = new
        /\ \A j \in Calls : j # k => call'[j] = call[j]
    BY DEF TypeOK
  <1>2. \A j \in Calls : call'[j].phase # "idle" => call'[j].source \in Sources
    BY <1>1 DEF CallsInOrder, Source
  <1>3. \A j \in Calls : Locked(j)' => j # k /\ Locked(j)
    BY <1>1 DEF Locked
  <1>4. ASSUME NEW j \in Calls, Locked(j)'
        PROVE  LockHolds(j)'
    <2>1. LockHolds(j) /\ call'[j] = call[j] /\ j # k /\ Locked(j)
      BY <1>1, <1>3, <1>4 DEF CallsInOrder
    <2> QED
      BY <2>1, LockKept
  <1>5. ASSUME NEW j \in Calls, ~ Locked(j)'
        PROVE  call'[j].missed = {}
    BY <1>1, <1>5 DEF CallsInOrder, Locked
  <1> QED
    BY <1>2, <1>3, <1>4, <1>5 DEF CallsInOrder, Source

\* The same of steps that are no call's.
LEMMA OtherStep ==
    ASSUME TypeOK, CallsInOrder, UNCHANGED call,
           OwnerLocked =>
              /\ \A s \in Sources : /\ run'[s].claim = run[s].claim
                                    /\ run'[s].pending = run[s].pending
              /\ UNCHANGED <<provider, recordVars>>
    PROVE  CallsInOrder'
  <1>1. ASSUME NEW j \in Calls, Locked(j)
        PROVE  LockHolds(j)'
    <2>1. LockHolds(j) /\ OwnerLocked /\ Source(j) \in Sources
      BY <1>1 DEF CallsInOrder, OwnerLocked, Locked
    <2> QED
      BY <2>1, LockKept
  <1> QED
    BY <1>1 DEF CallsInOrder, Source, Locked

LEMMA SameRows ==
    ASSUME RowsAgree, UNCHANGED <<run, message, receipt, recordVars>>
    PROVE  RowsAgree'
  BY DEF RowsAgree, ClaimHeld, Accounted, NoDuplicateText, MessageShowsResult,
         PendingAgrees, WordsAgree, Live

\* A run moves between statuses before its outcome, or is touched without any
\* change to its outcome.
LEMMA RunStep ==
    ASSUME TypeOK, RowsAgree, NEW s \in Sources, NEW row \in Runs,
           run' = [run EXCEPT ![s] = row],
           UNCHANGED <<receipt, recordVars>>,
           row.status \in Done <=> run[s].status \in Done,
           row.status \in Done => row.result = run[s].result,
           row.pending = run[s].pending,
           row.status = "RUNNING" <=> row.claim # None,
           row.status = "RUNNING" <=> row.lease # "none",
           \A q \in Sources : q # s => message'[q] = message[q],
           row.result # NoResult => message'[s] = row.result
    PROVE  RowsAgree'
  <1>1. run'[s] = row /\ \A q \in Sources : q # s => run'[q] = run[q]
    BY DEF TypeOK
  <1>2. ClaimHeld'
    BY <1>1 DEF RowsAgree, ClaimHeld
  <1>3. Accounted'
    <2> SUFFICES ASSUME NEW q \in Sources, NEW c \in Candidates
                 PROVE  LET outcome == run'[q].result.outcomes[c]
                        IN  IF run'[q].status \in Done
                            THEN /\ outcome \in Open <=> run'[q].pending[c] # "absent"
                                 /\ receipt'[q][c] =
                                       IF outcome \in Applied \cup {"reconciled"}
                                       THEN outcome ELSE "none"
                                 /\ record'[<<q, c>>] # "none" <=> outcome \in Written
                            ELSE /\ run'[q].pending[c] = "absent"
                                 /\ receipt'[q][c] = "none"
                                 /\ record'[<<q, c>>] = "none"
      BY DEF Accounted
    <2>1. /\ run'[q].status \in Done <=> run[q].status \in Done
          /\ run'[q].pending = run[q].pending
          /\ run'[q].status \in Done => run'[q].result = run[q].result
      BY <1>1
    <2> QED
      BY <2>1 DEF RowsAgree, Accounted
  <1>4. NoDuplicateText'
    BY DEF RowsAgree, NoDuplicateText, Live
  <1>5. MessageShowsResult'
    BY <1>1 DEF RowsAgree, MessageShowsResult
  <1>6. PendingAgrees'
    <2> SUFFICES ASSUME NEW q \in Sources, NEW c \in Candidates,
                        run'[q].pending[c] \in Reconcilable
                 PROVE  run'[q].result.outcomes[c] = "pending_reconciliation"
      BY DEF PendingAgrees
    <2>1. run[q].pending[c] \in Reconcilable
      BY <1>1
    <2>2. run[q].status \in Done
      BY <2>1 DEF RowsAgree, Accounted, Reconcilable
    <2>3. run'[q].result = run[q].result
      BY <1>1, <2>2
    <2> QED
      BY <2>1, <2>3 DEF RowsAgree, PendingAgrees
  <1>7. WordsAgree'
    BY DEF RowsAgree, WordsAgree
  <1> QED
    BY <1>2, <1>3, <1>4, <1>5, <1>6, <1>7 DEF RowsAgree

-----------------------------------------------------------------------------
(* Every step keeps the types *)

LEMMA UpdatedRun ==
    ASSUME TypeOK, NEW s \in Sources, NEW row \in Runs,
           run' = [run EXCEPT ![s] = row]
    PROVE  run' \in [Sources -> Runs]
  BY DEF TypeOK

LEMMA UpdatedCall ==
    ASSUME TypeOK, NEW k \in Calls, NEW new \in CallStates,
           call' = [call EXCEPT ![k] = new]
    PROVE  call' \in [Calls -> CallStates]
  BY DEF TypeOK

\* A step of call k that writes no row but, perhaps, the run and message of s.
LEMMA RowsMove ==
    ASSUME IInv, NEW k \in Calls, NEW new \in CallStates,
           call' = [call EXCEPT ![k] = new],
           new.phase # "idle" => new.source \in Sources,
           new.phase \notin {"locked", "resolving"}, new.missed = {},
           NEW s \in Sources, NEW row \in Runs,
           run' = [run EXCEPT ![s] = row],
           message' \in [Sources -> Results], access' \in Accesses,
           UNCHANGED <<provider, receipt, recordVars, tools, commits>>,
           row.status \in Done <=> run[s].status \in Done,
           row.status \in Done => row.result = run[s].result,
           row.pending = run[s].pending,
           row.status = "RUNNING" <=> row.claim # None,
           row.status = "RUNNING" <=> row.lease # "none",
           \A q \in Sources : q # s => message'[q] = message[q],
           row.result # NoResult => message'[s] = row.result,
           row.claim = run[s].claim
              \/ \A j \in Calls \ {k} : Locked(j) => Source(j) # s
    PROVE  IInv'
  <1> USE DEF IInv
  <1>1. TypeOK'
    BY UpdatedRun, UpdatedCall DEF TypeOK
  <1>2. \A q \in Sources : run'[q] = run[q] \/ q = s
    BY DEF TypeOK
  <1>3. CallsInOrder'
    <2>1. run'[s].claim = row.claim /\ run'[s].pending = row.pending
      BY DEF TypeOK
    <2>2. \A j \in Calls \ {k} : Locked(j) =>
             /\ run'[Source(j)].claim = run[Source(j)].claim
             /\ run'[Source(j)].pending = run[Source(j)].pending
      BY <1>2, <2>1 DEF CallsInOrder, Locked
    <2> QED
      BY <2>2, CallStep
  <1>4. RowsAgree'
    BY RunStep
  <1> QED
    BY <1>1, <1>3, <1>4

\* A step of call k that writes no row.
LEMMA CallMoves ==
    ASSUME IInv, NEW k \in Calls, NEW new \in CallStates,
           call' = [call EXCEPT ![k] = new],
           new.phase # "idle" => new.source \in Sources,
           new.phase \notin {"locked", "resolving"}, new.missed = {},
           access' \in Accesses,
           UNCHANGED <<provider, run, message, receipt, recordVars, tools, commits>>
    PROVE  IInv'
  <1> USE DEF IInv
  <1>1. TypeOK'
    BY UpdatedCall DEF TypeOK
  <1>2. CallsInOrder'
    BY CallStep
  <1>3. RowsAgree'
    BY SameRows
  <1> QED
    BY <1>1, <1>2, <1>3

LEMMA Finished ==
    ASSUME NEW k \in Calls, Finish(k)
    PROVE  /\ call' = [call EXCEPT ![k] = IdleCall]
           /\ IdleCall \in CallStates /\ IdleCall.phase = "idle"
           /\ IdleCall.missed = {}
  BY RowTypes, IdleFields DEF Finish

LEMMA Threw ==
    ASSUME TypeOK, NEW k \in Calls, NEW verdict \in {"FAILED", "SKIPPED"},
           Throw(k, verdict)
    PROVE  \E new \in CallStates :
              /\ call' = [call EXCEPT ![k] = new]
              /\ new.phase = "failing" /\ new.source = Source(k) /\ new.missed = {}
  <1>1. call' = [call EXCEPT ![k] = Thrown(k, verdict)]
    BY DEF Throw, Thrown
  <1> QED
    BY <1>1, ThrownFields

LEMMA Went ==
    ASSUME TypeOK, NEW k \in Calls, NEW phase \in Phases, Go(k, phase)
    PROVE  \E new \in CallStates :
              /\ call' = [call EXCEPT ![k] = new]
              /\ new.phase = phase /\ new.source = Source(k)
              /\ new.missed = call[k].missed
  <1> DEFINE new == [call[k] EXCEPT !.phase = phase]
  <1>1. call' = [call EXCEPT ![k] = new]
    BY DEF Go
  <1>2. /\ new \in CallStates /\ new.phase = phase /\ new.source = Source(k)
        /\ new.missed = call[k].missed
    BY GoneFields
  <1> HIDE DEF new
  <1> QED
    BY <1>1, <1>2

LEMMA Began ==
    ASSUME TypeOK, NEW k \in Calls, NEW s \in Sources, Begin(k, s)
    PROVE  \E new \in CallStates :
              /\ call' = [call EXCEPT ![k] = new]
              /\ new.phase = "upsert" /\ new.source = s /\ new.missed = {}
  <1> DEFINE new == [IdleCall EXCEPT !.phase = "upsert", !.source = s,
                                     !.configuration = provider]
  <1>1. call' = [call EXCEPT ![k] = new]
    BY DEF Begin
  <1>2. provider \in Configurations \cup {None}
    BY DEF TypeOK, Configurations
  <1>3. /\ new \in CallStates /\ new.phase = "upsert" /\ new.source = s
        /\ new.missed = {}
    BY <1>2, RowTypes DEF IdleCall, CallStates, Phases
  <1> HIDE DEF new
  <1> QED
    BY <1>1, <1>3

-----------------------------------------------------------------------------
(* Steps that write no row *)

LEMMA ReadSteps ==
    ASSUME IInv, NEW k \in Calls,
           \/ \E s \in Sources : Process(k, s)
           \/ Ask(k) \/ Block(k) \/ Break(k) \/ Enqueue(k) \/ Crash(k)
           \/ \E answer \in Answers : Answer(k, answer)
    PROVE  IInv'
  <1> USE DEF IInv
  <1>0. /\ UNCHANGED <<provider, run, message, receipt, recordVars, tools, commits>>
        /\ access' \in Accesses
    BY InputAssumption DEF Process, Ask, Block, Break, EnsureAccess, Enqueue, Crash,
       Answer, TypeOK, Accesses
  <1>1. /\ call[k].phase # "idle" => Source(k) \in Sources
        /\ ~ Locked(k) => call[k].missed = {}
    BY DEF CallsInOrder
  <1>2. ASSUME Finish(k) PROVE IInv'
    BY <1>0, <1>2, Finished, CallMoves
  <1>3. ASSUME NEW verdict \in {"FAILED", "SKIPPED"}, Throw(k, verdict),
               call[k].phase # "idle"
        PROVE  IInv'
    <2>1. PICK new \in CallStates :
             /\ call' = [call EXCEPT ![k] = new]
             /\ new.phase = "failing" /\ new.source = Source(k) /\ new.missed = {}
      BY <1>3, Threw
    <2> QED
      BY <1>0, <1>1, <1>3, <2>1, CallMoves
  <1>4. ASSUME NEW phase \in Phases \ {"locked", "resolving"}, Go(k, phase),
               call[k].phase # "idle", ~ Locked(k)
        PROVE  IInv'
    <2>1. PICK new \in CallStates :
             /\ call' = [call EXCEPT ![k] = new]
             /\ new.phase = phase /\ new.source = Source(k)
             /\ new.missed = call[k].missed
      BY <1>4, Went
    <2> QED
      BY <1>0, <1>1, <1>4, <2>1, CallMoves
  <1>5. ASSUME NEW s \in Sources, Process(k, s) PROVE IInv'
    <2>1. PICK new \in CallStates :
             /\ call' = [call EXCEPT ![k] = new]
             /\ new.phase = "upsert" /\ new.source = s /\ new.missed = {}
      BY <1>5, Began DEF Process
    <2> QED
      BY <1>0, <2>1, CallMoves
  <1>6. CASE Ask(k) \/ Block(k) \/ Break(k)
    BY <1>3, <1>4, <1>6 DEF Ask, Block, Break, Phases, Locked
  <1>7. CASE Enqueue(k) \/ Crash(k)
    BY <1>2, <1>3, <1>7 DEF Enqueue, Crash
  <1>8. ASSUME NEW answer \in Answers, Answer(k, answer) PROVE IInv'
    <2> DEFINE new == [call[k] EXCEPT !.phase = "commit", !.answer = answer]
    <2>1. answer \in AllAnswers
      BY InputAssumption
    <2>2. /\ new \in CallStates /\ new.phase = "commit" /\ new.source = Source(k)
          /\ new.missed = call[k].missed
      BY <2>1, CallType DEF CallStates, Phases, Source
    <2>3. call' = [call EXCEPT ![k] = new] /\ call[k].phase # "idle" /\ ~ Locked(k)
      BY <1>8 DEF Answer, Locked
    <2> HIDE DEF new
    <2> QED
      BY <1>0, <1>1, <2>2, <2>3, CallMoves
  <1> QED
    BY <1>5, <1>6, <1>7, <1>8

\* Taking the locks: nobody holds them.
LEMMA LocksTaken ==
    ASSUME IInv, NEW k \in Calls, NEW new \in CallStates, ~ OwnerLocked,
           call' = [call EXCEPT ![k] = new], new.source \in Sources,
           new.phase \in {"locked", "resolving"}, LockHolds(k)',
           UNCHANGED <<provider, access, run, message, receipt, recordVars, tools, commits>>
    PROVE  IInv'
  <1> USE DEF IInv
  <1>1. TypeOK'
    BY UpdatedCall DEF TypeOK
  <1>2. call'[k] = new /\ \A j \in Calls : j # k => call'[j] = call[j]
    BY DEF TypeOK
  <1>3. \A j \in Calls : Locked(j)' => j = k
    BY <1>2 DEF OwnerLocked, Locked
  <1>4. \A j \in Calls : ~ Locked(j)' => call'[j].missed = {}
    BY <1>2 DEF CallsInOrder, Locked
  <1>5. CallsInOrder'
    <2>1. \A j \in Calls : call'[j].phase # "idle" => call'[j].source \in Sources
      BY <1>2 DEF CallsInOrder, Source
    <2> QED
      BY <1>3, <1>4, <2>1 DEF CallsInOrder, Source
  <1> QED
    BY <1>1, <1>5, SameRows

\* What is read under the locks is known.
LEMMA LockStep ==
    ASSUME IInv, NEW k \in Calls, LockOutcome(k)
    PROVE  IInv'
  <1> USE DEF IInv
  <1>0. /\ UNCHANGED <<provider, access, run, message, receipt, recordVars, tools, commits>>
        /\ call[k].phase = "commit" /\ ~ OwnerLocked /\ Source(k) \in Sources
        /\ access' \in Accesses /\ call[k].missed = {}
    BY DEF LockOutcome, CallsInOrder, TypeOK, Locked
  <1>1. ASSUME NEW verdict \in {"FAILED", "SKIPPED"}, Throw(k, verdict)
        PROVE  IInv'
    <2>1. PICK new \in CallStates :
             /\ call' = [call EXCEPT ![k] = new]
             /\ new.phase = "failing" /\ new.source = Source(k) /\ new.missed = {}
      BY <1>1, Threw
    <2> QED
      BY <1>0, <2>1, CallMoves
  <1>2. CASE HoldsClaim(k) /\ Permitted(call[k].configuration)
    <2> DEFINE new == [call[k] EXCEPT !.phase = "locked", !.access = access,
                                      !.known = KnownTexts]
    <2>1. call' = [call EXCEPT ![k] = new]
      BY <1>2 DEF LockOutcome
    <2>2. KnownTexts \in SUBSET Words
      BY DEF KnownTexts, TypeOK
    <2>3. /\ new \in CallStates /\ new.phase = "locked" /\ new.source = Source(k)
          /\ new.configuration = call[k].configuration /\ new.known = KnownTexts
          /\ new.missed = {}
      BY <1>0, <2>2, CallType DEF CallStates, Phases, Source
    <2> HIDE DEF new
    <2>4. call'[k] = new
      BY <2>1 DEF TypeOK
    <2>5. SeenTexts(k)' = KnownTexts
      BY <1>0, <2>3, <2>4 DEF SeenTexts, KnownTexts, Live
    <2>6. LockHolds(k)'
      BY <1>0, <1>2, <2>3, <2>4, <2>5 DEF LockHolds, HoldsClaim, Permitted, Source
    <2> QED
      BY <1>0, <2>1, <2>3, <2>6, LocksTaken
  <1> QED
    BY <1>1, <1>2 DEF LockOutcome

-----------------------------------------------------------------------------
(* Steps of a run before its outcome *)

LEMMA RunFields ==
    ASSUME IInv, NEW s \in Sources
    PROVE  /\ run[s] \in Runs
           /\ run[s].status = "RUNNING" <=> run[s].claim # None
           /\ run[s].status = "RUNNING" <=> run[s].lease # "none"
           /\ run[s].result # NoResult => message[s] = run[s].result
           /\ message \in [Sources -> Results] /\ access \in Accesses
  BY RunType DEF IInv, TypeOK, RowsAgree, ClaimHeld, MessageShowsResult, Runs

LEMMA RetryStep ==
    ASSUME IInv, NEW k \in Calls, NEW s \in Sources, Retry(k, s)
    PROVE  IInv'
  <1> DEFINE row == IF run[s].status = "SKIPPED"
                    THEN [run[s] EXCEPT !.status = "FAILED"] ELSE run[s]
  <1>1. /\ run' = [run EXCEPT ![s] = row] /\ call[k].phase = "idle"
        /\ UNCHANGED <<provider, access, message, receipt, recordVars, tools, commits>>
    BY DEF Retry, Begin, IInv, TypeOK
  <1>2. /\ row \in Runs
        /\ row.status = run[s].status
              \/ (row.status = "FAILED" /\ run[s].status = "SKIPPED")
        /\ row.claim = run[s].claim /\ row.lease = run[s].lease
        /\ row.pending = run[s].pending /\ row.result = run[s].result
    <2>1. CASE run[s].status = "SKIPPED"
      BY <2>1, RunFields DEF Runs, Statuses
    <2>2. CASE run[s].status # "SKIPPED"
      <3>1. row = run[s]
        BY <2>2
      <3>2. run[s] \in Runs
        BY RunFields
      <3> HIDE DEF row
      <3> QED
        BY <3>1, <3>2
    <2> QED
      BY <2>1, <2>2
  <1> HIDE DEF row
  <1>3. PICK new \in CallStates :
           /\ call' = [call EXCEPT ![k] = new]
           /\ new.phase = "upsert" /\ new.source = s /\ new.missed = {}
    BY Began DEF Retry, IInv
  <1>4. /\ row.status \in Done <=> run[s].status \in Done
        /\ row.status \in Done => row.result = run[s].result
        /\ row.status = "RUNNING" <=> row.claim # None
        /\ row.status = "RUNNING" <=> row.lease # "none"
        /\ row.result # NoResult => message[s] = row.result
    BY <1>1, <1>2, RunFields DEF Done
  <1> QED
    BY <1>1, <1>2, <1>3, <1>4, RunFields, RowsMove

LEMMA ReprocessStep ==
    ASSUME IInv, NEW k \in Calls, NEW s \in Sources, Reprocess(k, s)
    PROVE  IInv'
  <1> DEFINE row == [run[s] EXCEPT !.status = "PENDING", !.configuration = provider,
                                   !.result = NoResult]
  <1>1. /\ run' = [run EXCEPT ![s] = row] /\ ~ OwnerLocked
        /\ UNCHANGED <<provider, access, message, receipt, recordVars, tools, commits>>
        /\ run[s].status \in {"FAILED", "SKIPPED"} /\ run[s].lease = "none"
    BY DEF Reprocess, Reprocessable
  <1>2. /\ row \in Runs /\ row.status = "PENDING" /\ row.result = NoResult
        /\ row.claim = run[s].claim /\ row.lease = run[s].lease
        /\ row.pending = run[s].pending
    <2>1. PICK old \in Runs : old = run[s]
      BY RunFields
    <2>2. provider \in Configurations /\ NoResult \in Results
      BY RowTypes DEF Configurations, IInv, TypeOK
    <2>3. row = [old EXCEPT !.status = "PENDING", !.configuration = provider,
                            !.result = NoResult]
      BY <2>1
    <2> HIDE DEF row
    <2> QED
      BY <2>1, <2>2, <2>3 DEF Runs, Statuses
  <1> HIDE DEF row
  <1>3. PICK new \in CallStates :
           /\ call' = [call EXCEPT ![k] = new]
           /\ new.phase = "upsert" /\ new.source = s /\ new.missed = {}
    BY Began DEF Reprocess, IInv
  <1>4. /\ row.status \in Done <=> run[s].status \in Done
        /\ row.status \in Done => row.result = run[s].result
        /\ row.status = "RUNNING" <=> row.claim # None
        /\ row.status = "RUNNING" <=> row.lease # "none"
        /\ row.result # NoResult => message[s] = row.result
    BY <1>1, <1>2, RunFields DEF Done
  <1> QED
    BY <1>1, <1>2, <1>3, <1>4, RunFields, RowsMove

LEMMA UpsertStep ==
    ASSUME IInv, NEW k \in Calls, Upsert(k)
    PROVE  IInv'
  <1> USE DEF IInv
  <1>1. PICK s \in Sources : s = Source(k)
    BY DEF Upsert, CallsInOrder
  <1> DEFINE row == IF run[s].status = "ABSENT"
                    THEN [NoRun EXCEPT !.status = "PENDING",
                                       !.configuration = call[k].configuration]
                    ELSE run[s]
             new == [call[k] EXCEPT !.phase = "claim",
                                    !.configuration = row.configuration]
  <1>2. /\ run' = [run EXCEPT ![s] = row]
        /\ Finish(k) \/ call' = [call EXCEPT ![k] = new]
        /\ UNCHANGED <<provider, access, message, receipt, recordVars, tools, commits>>
    BY <1>1 DEF Upsert
  <1>3. /\ row \in Runs /\ row.configuration \in Configurations \cup {None}
        /\ \/ row = run[s]
           \/ /\ run[s].status = "ABSENT" /\ row.status = "PENDING"
              /\ row.claim = None /\ row.lease = "none" /\ row.result = NoResult
              /\ row.pending = NoPending
    BY RunType, CallType, RowTypes DEF NoRun, Runs, Statuses
  <1> HIDE DEF row
  <1>4. /\ new \in CallStates /\ new.phase = "claim" /\ new.source = s
        /\ new.missed = {}
    <2>1. call[k].missed = {}
      BY DEF Upsert, CallsInOrder, Locked
    <2> QED
      BY <1>1, <1>3, <2>1, CallType DEF CallStates, Phases, Source
  <1> HIDE DEF new
  <1>5. run[s].status = "ABSENT" =>
           run[s].claim = None /\ run[s].pending = NoPending
    <2>1. run[s].status = "ABSENT" => \A c \in Candidates : run[s].pending[c] = "absent"
      BY DEF RowsAgree, Accounted, Done
    <2> QED
      BY <2>1, RunFields, RunType DEF NoPending
  <1>6. PICK next \in CallStates :
           /\ call' = [call EXCEPT ![k] = next]
           /\ next.phase # "idle" => next.source \in Sources
           /\ next.phase \notin {"locked", "resolving"} /\ next.missed = {}
    BY <1>2, <1>4, Finished
  <1>7. /\ row.status \in Done <=> run[s].status \in Done
        /\ row.status \in Done => row.result = run[s].result
        /\ row.pending = run[s].pending /\ row.claim = run[s].claim
        /\ row.status = "RUNNING" <=> row.claim # None
        /\ row.status = "RUNNING" <=> row.lease # "none"
        /\ row.result # NoResult => message[s] = row.result
    BY <1>3, <1>5, RunFields DEF Done
  <1> QED
    BY <1>2, <1>3, <1>6, <1>7, RunFields, RowsMove

LEMMA ClaimStep ==
    ASSUME IInv, NEW k \in Calls, Claim(k)
    PROVE  IInv'
  <1> USE DEF IInv
  <1>1. PICK s \in Sources : s = Source(k)
    BY DEF Claim, CallsInOrder
  <1>2. /\ ~ RowLocked(s) /\ call[k].phase = "claim"
        /\ UNCHANGED <<provider, access, message, receipt, recordVars, tools, commits>>
    BY <1>1 DEF Claim
  <1>3. CASE ~ Claimable(s)
    BY <1>1, <1>2, <1>3, Finished, RunFields, CallMoves DEF Claim
  <1>4. CASE Claimable(s)
    <2> DEFINE row == [run[s] EXCEPT !.status = "RUNNING", !.claim = k, !.lease = "live"]
    <2>1. /\ run' = [run EXCEPT ![s] = row]
          /\ Throw(k, "FAILED") \/ Go(k, "prepare")
      BY <1>1, <1>4 DEF Claim
    <2>2. PICK next \in CallStates :
             /\ call' = [call EXCEPT ![k] = next]
             /\ next.phase # "idle" => next.source \in Sources
             /\ next.phase \notin {"locked", "resolving"} /\ next.missed = {}
      <3>1. "FAILED" \in {"FAILED", "SKIPPED"} /\ "prepare" \in Phases
        BY DEF Phases
      <3>2. call[k].missed = {}
        BY <1>2 DEF CallsInOrder, Locked
      <3> QED
        BY <1>1, <2>1, <3>1, <3>2, Threw, Went
    <2>3. /\ row \in Runs /\ row.status = "RUNNING" /\ row.claim = k
          /\ row.lease = "live" /\ row.pending = run[s].pending
          /\ row.result = run[s].result
      BY RunType DEF Runs, Statuses
    <2> HIDE DEF row
    <2>4. run[s].status \notin Done
      BY <1>4 DEF Claimable, Done
    <2>5. k # None
      BY NoneAssumption
    <2> QED
      BY <1>2, <2>1, <2>2, <2>3, <2>4, <2>5, RunFields, RowsMove DEF Done, RowLocked
  <1> QED
    BY <1>3, <1>4

LEMMA FailureStep ==
    ASSUME IInv, NEW k \in Calls, PersistFailure(k)
    PROVE  IInv'
  <1> USE DEF IInv
  <1>1. PICK s \in Sources : s = Source(k)
    BY DEF PersistFailure, CallsInOrder
  <1>2. /\ ~ RowLocked(s) /\ Finish(k)
        /\ UNCHANGED <<provider, access, receipt, recordVars, tools, commits>>
    BY <1>1 DEF PersistFailure
  <1>3. CASE ~ HoldsClaim(k)
    BY <1>2, <1>3, Finished, RunFields, CallMoves DEF PersistFailure, FailedMessage
  <1>4. CASE HoldsClaim(k)
    <2> DEFINE row == Released(run[s], Failure(k))
    <2>1. /\ run' = [run EXCEPT ![s] = row]
          /\ message' = [message EXCEPT ![s] = Failure(k)]
      BY <1>1, <1>4 DEF PersistFailure, FailedMessage
    <2>2. /\ Failure(k) \in Results /\ Failure(k).status \in {"FAILED", "SKIPPED"}
      BY CallType, RowTypes DEF Failure, NoResult, Results, Statuses
    <2>3. /\ row \in Runs /\ row.status \in {"FAILED", "SKIPPED"} /\ row.claim = None
          /\ row.lease = "none" /\ row.pending = run[s].pending
          /\ row.result = Failure(k)
      BY <2>2, RunType DEF Released, Runs, Statuses
    <2> HIDE DEF row
    <2>4. run[s].status = "RUNNING"
      BY <1>1, <1>4, RunFields, NoneAssumption DEF HoldsClaim
    <2>5. /\ message' \in [Sources -> Results] /\ message'[s] = Failure(k)
          /\ \A q \in Sources : q # s => message'[q] = message[q]
      BY <2>1, <2>2 DEF TypeOK
    <2>6. PICK next \in CallStates :
             /\ call' = [call EXCEPT ![k] = next]
             /\ next.phase = "idle" /\ next.missed = {}
      BY <1>2, Finished
    <2>7. /\ row.status \notin Done /\ run[s].status \notin Done
          /\ row.status = "RUNNING" <=> row.claim # None
          /\ row.status = "RUNNING" <=> row.lease # "none"
          /\ row.result # NoResult => message'[s] = row.result
          /\ \A j \in Calls \ {k} : Locked(j) => Source(j) # s
      BY <1>2, <2>3, <2>4, <2>5 DEF Done, RowLocked
    <2>8. /\ row.status \in Done <=> run[s].status \in Done
          /\ row.status \in Done => row.result = run[s].result
          /\ row.pending = run[s].pending
          /\ next.phase # "idle" => next.source \in Sources
          /\ next.phase \notin {"locked", "resolving"} /\ next.missed = {}
          /\ access' \in Accesses
      BY <1>2, <2>3, <2>6, <2>7, RunFields
    <2> QED
      BY <1>2, <2>1, <2>3, <2>5, <2>6, <2>7, <2>8, RowsMove
  <1> QED
    BY <1>3, <1>4

-----------------------------------------------------------------------------
(* The outcome of a run *)

LEMMA ApplyFields ==
    ASSUME NEW allowed \in Accesses, NEW known \in BOOLEAN
    PROVE  /\ ApplyOutcome(allowed, known) \in Applied
           /\ ApplyOutcome(allowed, known) \in Written => ~ known
  BY DEF ApplyOutcome, Accesses, Applied, Written

\* A candidate is left pending, or resolved; it is written only when no live
\* record and no earlier candidate has its text.
LEMMA OutcomeFields ==
    ASSUME TypeOK, NEW k \in Calls, NEW c \in Candidates,
           NEW first \in Orders(call[k].answer.kind)
    PROVE  LET outcome == OutcomeOf(k, c, first)
               left == Pending(call[k].answer.kind)[c]
           IN  /\ outcome \in Outcomes /\ left \in Kinds
               /\ outcome # "reconciled"
               /\ outcome \in Open <=> left # "absent"
               /\ left \in Reconcilable => outcome = "pending_reconciliation"
               /\ outcome \in Written => c \in first /\ Text[c] \notin call[k].known
  <1> DEFINE kind == call[k].answer.kind[c]
             known == Text[c] \in call[k].known \/ c \notin first
  <1>1. kind \in Kinds /\ call[k].access \in Accesses
    BY CallType DEF AllAnswers
  <1>2. Pending(call[k].answer.kind)[c] =
           IF kind \in Reconcilable \cup Unclear THEN kind ELSE "absent"
    BY DEF Pending
  <1>3. /\ ApplyOutcome(call[k].access, known) \in Applied
        /\ ApplyOutcome(call[k].access, known) \in Written => ~ known
    BY <1>1, ApplyFields
  <1>4. CASE kind = "eligible"
    <2>1. OutcomeOf(k, c, first) = ApplyOutcome(call[k].access, known)
      BY <1>4 DEF OutcomeOf, Reconcilable
    <2> QED
      BY <1>2, <1>3, <1>4, <2>1
         DEF Outcomes, Applied, Written, Open, Kinds, Reconcilable, Unclear
  <1>5. CASE kind # "eligible"
    <2>1. OutcomeOf(k, c, first) =
             IF kind = "absent" THEN "none"
             ELSE IF kind = "rejected" THEN "rejected"
             ELSE IF kind = "unclear" THEN "needs_clarification"
             ELSE "pending_reconciliation"
      BY <1>1, <1>5 DEF OutcomeOf, Kinds, Reconcilable, Unclear
    <2> QED
      BY <1>1, <1>2, <1>5, <2>1
         DEF Outcomes, Applied, Written, Open, Kinds, Reconcilable, Unclear
  <1> QED
    BY <1>4, <1>5

LEMMA RecordFields ==
    ASSUME NEW outcome
    PROVE  /\ RecordFor(outcome) \in {"none", "memory", "queued"}
           /\ RecordFor(outcome) # "none" <=> outcome \in Written
  BY DEF RecordFor, Written

\* What a commit writes: an outcome for every candidate, in the run, its message,
\* its receipts and its records.
LEMMA CommitEffect ==
    ASSUME TypeOK, NEW k \in Calls, CommitOutcome(k), NEW s \in Sources, s = Source(k)
    PROVE  \E first \in Orders(call[k].answer.kind),
              outcomes \in [Candidates -> Outcomes], result \in Results :
             /\ outcomes = [c \in Candidates |-> OutcomeOf(k, c, first)]
             /\ result.status \in Done /\ result.outcomes = outcomes
             /\ run' = [run EXCEPT ![s] = [Released(@, result) EXCEPT
                                             !.pending = Pending(call[k].answer.kind)]]
             /\ message' = [message EXCEPT ![s] = result]
             /\ receipt' = [receipt EXCEPT ![s] = [c \in Candidates |->
                   IF outcomes[c] \in Applied THEN outcomes[c] ELSE "none"]]
             /\ record' = [r \in Records |->
                   IF r[1] = s THEN RecordFor(outcomes[r[2]]) ELSE record[r]]
  <1>1. PICK first \in Orders(call[k].answer.kind) :
           LET outcomes == [c \in Candidates |-> OutcomeOf(k, c, first)]
               rejected == \E c \in Candidates : outcomes[c] = "rejected"
               status == IF call[k].answer.partial \/ rejected
                         THEN "PARTIAL" ELSE "COMPLETED"
               result == [status |-> status, outcomes |-> outcomes,
                          fingerprint |-> call[k].configuration]
           IN  /\ run' = [run EXCEPT ![s] = [Released(@, result) EXCEPT
                                             !.pending = Pending(call[k].answer.kind)]]
               /\ message' = [message EXCEPT ![s] = result]
               /\ receipt' = [receipt EXCEPT ![s] = [c \in Candidates |->
                     IF outcomes[c] \in Applied THEN outcomes[c] ELSE "none"]]
               /\ record' = [r \in Records |->
                     IF r[1] = s THEN RecordFor(outcomes[r[2]]) ELSE record[r]]
    BY DEF CommitOutcome
  <1> DEFINE outcomes == [c \in Candidates |-> OutcomeOf(k, c, first)]
             status == IF call[k].answer.partial
                            \/ \E c \in Candidates : outcomes[c] = "rejected"
                       THEN "PARTIAL" ELSE "COMPLETED"
             result == [status |-> status, outcomes |-> outcomes,
                        fingerprint |-> call[k].configuration]
  <1>2. outcomes \in [Candidates -> Outcomes]
    BY OutcomeFields
  <1>3. status \in Done
    BY DEF Done
  <1> HIDE DEF status
  <1>4. result \in Results /\ result.status \in Done /\ result.outcomes = outcomes
    <2> HIDE DEF outcomes
    <2> QED
      BY <1>2, <1>3, CallType DEF Results, Statuses, Done
  <1> QED
    BY <1>1, <1>2, <1>4 DEF status

\* What is written for a turn is new: no record that was seen says it, and no two
\* candidates of the turn say the same.
LEMMA CommitWrites ==
    ASSUME IInv, NEW k \in Calls, CommitOutcome(k), NEW s \in Sources, s = Source(k)
    PROVE  /\ \A r \in Records : r[1] = s =>
                 /\ record[r] = "none"
                 /\ Live(r)' => words[r] = Text[r[2]] /\ words[r] \notin SeenTexts(k)
                 /\ record'[r] \in {"none", "memory", "queued"}
           /\ \A q, r \in Records :
                 q[1] = s /\ r[1] = s /\ Live(q)' /\ Live(r)' /\ words[q] = words[r] => q = r
           /\ \A r \in Records : r[1] # s => record'[r] = record[r]
  <1> USE DEF IInv
  <1>1. PICK first \in Orders(call[k].answer.kind),
             outcomes \in [Candidates -> Outcomes] :
          /\ outcomes = [c \in Candidates |-> OutcomeOf(k, c, first)]
          /\ record' = [r \in Records |->
                IF r[1] = s THEN RecordFor(outcomes[r[2]]) ELSE record[r]]
    BY CommitEffect
  <1>2. /\ call[k].phase = "locked" /\ LockHolds(k)
    BY DEF CommitOutcome, CallsInOrder, Locked
  <1>3. \A c \in Candidates :
           outcomes[c] \in Written => c \in first /\ Text[c] \notin call[k].known
    BY <1>1, OutcomeFields
  <1>4. \A c, d \in first : Text[c] = Text[d] => c = d
    BY DEF Orders
  <1>5. run[s].status \notin Done
    <2>1. run[s].claim = k
      BY <1>2 DEF LockHolds, HoldsClaim
    <2> QED
      BY <2>1, RunFields, NoneAssumption DEF Done
  <1>6. ASSUME NEW r \in Records, r[1] = s
        PROVE  /\ record[r] = "none" /\ words[r] = Text[r[2]]
               /\ record'[r] \in {"none", "memory", "queued"}
               /\ Live(r)' => r[2] \in first /\ Text[r[2]] \notin call[k].known
    <2>1. r[2] \in Candidates /\ r = <<s, r[2]>>
      BY <1>6 DEF Records
    <2>2. record[r] = "none"
      BY <1>5, <2>1 DEF RowsAgree, Accounted
    <2>3. record'[r] = RecordFor(outcomes[r[2]])
      BY <1>1, <1>6
    <2>4. Live(r)' => outcomes[r[2]] \in Written
      BY <2>3, RecordFields DEF Live
    <2> QED
      BY <1>3, <2>1, <2>2, <2>3, <2>4, RecordFields DEF RowsAgree, WordsAgree
  <1>7. \A r \in Records : r[1] # s => record'[r] = record[r]
    BY <1>1
  <1>8. SeenTexts(k) \subseteq call[k].known
    BY <1>2 DEF LockHolds
  <1>9. \A q, r \in Records :
           q[1] = s /\ r[1] = s /\ Live(q)' /\ Live(r)' /\ words[q] = words[r] => q = r
    <2> SUFFICES ASSUME NEW q \in Records, NEW r \in Records, q[1] = s, r[1] = s,
                        Live(q)', Live(r)', words[q] = words[r]
                 PROVE  q = r
      OBVIOUS
    <2>1. q[2] = r[2]
      BY <1>4, <1>6
    <2> QED
      BY <2>1 DEF Records
  <1> QED
    BY <1>6, <1>7, <1>8, <1>9

LEMMA CommitStep ==
    ASSUME IInv, NEW k \in Calls, CommitOutcome(k)
    PROVE  IInv'
  <1> USE DEF IInv
  <1>1. PICK s \in Sources : s = Source(k)
    BY DEF CommitOutcome, CallsInOrder
  <1>2. PICK first \in Orders(call[k].answer.kind),
             outcomes \in [Candidates -> Outcomes], result \in Results :
          /\ outcomes = [c \in Candidates |-> OutcomeOf(k, c, first)]
          /\ result.status \in Done /\ result.outcomes = outcomes
          /\ run' = [run EXCEPT ![s] = [Released(@, result) EXCEPT
                                          !.pending = Pending(call[k].answer.kind)]]
          /\ message' = [message EXCEPT ![s] = result]
          /\ receipt' = [receipt EXCEPT ![s] = [c \in Candidates |->
                IF outcomes[c] \in Applied THEN outcomes[c] ELSE "none"]]
          /\ record' = [r \in Records |->
                IF r[1] = s THEN RecordFor(outcomes[r[2]]) ELSE record[r]]
    BY <1>1, CommitEffect
  <1> DEFINE left == Pending(call[k].answer.kind)
  <1>3. /\ left \in [Candidates -> Kinds]
        /\ \A c \in Candidates :
             /\ outcomes[c] \in Open <=> left[c] # "absent"
             /\ left[c] \in Reconcilable => outcomes[c] = "pending_reconciliation"
             /\ outcomes[c] # "reconciled"
    <2>1. \A c \in Candidates : outcomes[c] = OutcomeOf(k, c, first)
      BY <1>2
    <2>2. \A c \in Candidates : left[c] \in Kinds
      BY OutcomeFields
    <2>3. left \in [Candidates -> Kinds]
      BY <2>2 DEF Pending
    <2> QED
      BY <2>1, <2>3, OutcomeFields
  <1> HIDE DEF left
  <1>5. /\ Locked(k) /\ UNCHANGED <<provider, access, words, theirs, tools>>
        /\ commits' = [commits EXCEPT ![s] = @ + 1]
    BY <1>1 DEF CommitOutcome, Locked
  <1> DEFINE row == [Released(run[s], result) EXCEPT !.pending = left]
  <1>6. run' = [run EXCEPT ![s] = row]
    BY <1>2 DEF left
  <1>7. /\ row \in Runs /\ row.status = result.status /\ row.claim = None
        /\ row.lease = "none" /\ row.result = result /\ row.pending = left
    <2>1. run[s] \in Runs /\ result.status \in Statuses
      BY RunType DEF Results
    <2>2. row = [run[s] EXCEPT !.status = result.status, !.claim = None,
                               !.lease = "none", !.result = result, !.pending = left]
      BY <2>1 DEF Released, Runs
    <2> HIDE DEF row
    <2> QED
      BY <1>3, <2>1, <2>2 DEF Runs
  <1> HIDE DEF row
  <1>8. run'[s] = row /\ \A q \in Sources : q # s => run'[q] = run[q]
    BY <1>6 DEF TypeOK
  <1>9. PICK new \in CallStates :
           /\ call' = [call EXCEPT ![k] = new] /\ new.phase = "enqueue"
           /\ new.source = s /\ new.missed = {}
    <2> DEFINE new == [call[k] EXCEPT !.phase = "enqueue", !.answer = NoAnswer,
                                      !.access = "NONE", !.known = {}, !.missed = {}]
    <2>1. call' = [call EXCEPT ![k] = new]
      BY DEF CommitOutcome
    <2>2. /\ new \in CallStates /\ new.phase = "enqueue" /\ new.source = s
          /\ new.missed = {}
      BY <1>1, CallType, RowTypes DEF CallStates, Phases, Source, Accesses
    <2> HIDE DEF new
    <2> QED
      BY <2>1, <2>2
  <1>10. \A c \in Candidates :
            /\ receipt'[s][c] = IF outcomes[c] \in Applied THEN outcomes[c] ELSE "none"
            /\ record'[<<s, c>>] = RecordFor(outcomes[c])
    BY <1>2 DEF TypeOK, Records
  <1>11. \A q \in Sources, c \in Candidates : q # s =>
            receipt'[q][c] = receipt[q][c] /\ record'[<<q, c>>] = record[<<q, c>>]
    BY <1>2 DEF TypeOK, Records
  <1>12. /\ message'[s] = result
         /\ \A q \in Sources : q # s => message'[q] = message[q]
    BY <1>2 DEF TypeOK
  <1>13. TypeOK'
    <2>1. message' \in [Sources -> Results]
      BY <1>2 DEF TypeOK
    <2>2. receipt' \in [Sources -> [Candidates -> Outcomes]]
      <3> DEFINE paid == [c \in Candidates |->
                            IF outcomes[c] \in Applied THEN outcomes[c] ELSE "none"]
      <3>1. paid \in [Candidates -> Outcomes]
        BY <1>2 DEF Outcomes
      <3>2. receipt' = [receipt EXCEPT ![s] = paid]
        BY <1>2
      <3> HIDE DEF paid
      <3> QED
        BY <3>1, <3>2 DEF TypeOK
    <2>3. record' \in [Records -> {"none", "memory", "queued", "gone", "refused"}]
      BY <1>2, RecordFields DEF TypeOK
    <2>4. commits' \in [Sources -> Nat]
      BY <1>5 DEF TypeOK
    <2>5. run' \in [Sources -> Runs] /\ call' \in [Calls -> CallStates]
      BY <1>6, <1>7, <1>9, UpdatedRun, UpdatedCall
    <2> QED
      BY <1>5, <2>1, <2>2, <2>3, <2>4, <2>5 DEF TypeOK
  <1>14. CallsInOrder'
    <2>1. \A j \in Calls \ {k} : ~ Locked(j)
      BY <1>5 DEF CallsInOrder
    <2> QED
      BY <1>5, <1>9, <2>1, CallStep
  <1>15. ClaimHeld'
    BY <1>2, <1>7, <1>8 DEF RowsAgree, ClaimHeld, Done
  <1>16. Accounted'
    <2> SUFFICES ASSUME NEW q \in Sources, NEW c \in Candidates
                 PROVE  LET outcome == run'[q].result.outcomes[c]
                        IN  IF run'[q].status \in Done
                            THEN /\ outcome \in Open <=> run'[q].pending[c] # "absent"
                                 /\ receipt'[q][c] =
                                       IF outcome \in Applied \cup {"reconciled"}
                                       THEN outcome ELSE "none"
                                 /\ record'[<<q, c>>] # "none" <=> outcome \in Written
                            ELSE /\ run'[q].pending[c] = "absent"
                                 /\ receipt'[q][c] = "none"
                                 /\ record'[<<q, c>>] = "none"
      BY DEF Accounted
    <2>1. CASE q # s
      BY <1>8, <1>11, <2>1 DEF RowsAgree, Accounted
    <2>2. CASE q = s
      <3>1. /\ run'[s].status \in Done /\ run'[s].result.outcomes[c] = outcomes[c]
            /\ run'[s].pending[c] = left[c]
        BY <1>2, <1>7, <1>8
      <3> QED
        BY <1>3, <1>10, <2>2, <3>1, RecordFields
    <2> QED
      BY <2>1, <2>2
  <1>17. NoDuplicateText'
    <2> SUFFICES ASSUME NEW q \in Records, NEW r \in Records, Live(q)', Live(r)',
                        words[q] = words[r], {q, r} \cap theirs = {}
                 PROVE  q = r
      BY <1>5 DEF NoDuplicateText
    <2>1. ASSUME NEW t \in Records, Live(t)', t[1] # s, t \notin theirs
          PROVE  Live(t) /\ words[t] \in SeenTexts(k)
      <3>1. Live(t)
        BY <1>1, <2>1, CommitWrites DEF Live
      <3>2. t \notin call[k].missed
        BY <1>5, <2>1 DEF CallsInOrder, LockHolds
      <3> QED
        BY <3>1, <3>2 DEF SeenTexts
    <2>2. ASSUME NEW t \in Records, Live(t)', t[1] = s
          PROVE  words[t] \notin SeenTexts(k)
      BY <1>1, <2>2, CommitWrites
    <2>3. CASE q[1] # s /\ r[1] # s
      BY <2>1, <2>3 DEF RowsAgree, NoDuplicateText
    <2>4. CASE q[1] = s /\ r[1] = s
      BY <1>1, <2>4, CommitWrites
    <2> QED
      BY <2>1, <2>2, <2>3, <2>4
  <1>18. MessageShowsResult'
    BY <1>7, <1>8, <1>12 DEF RowsAgree, MessageShowsResult
  <1>19. PendingAgrees'
    <2>1. \A c \in Candidates :
             /\ run'[s].pending[c] = left[c]
             /\ run'[s].result.outcomes[c] = outcomes[c]
      BY <1>2, <1>7, <1>8
    <2> QED
      BY <1>3, <1>8, <2>1 DEF RowsAgree, PendingAgrees
  <1>20. WordsAgree'
    <2> SUFFICES ASSUME NEW r \in Records, record'[r] \in {"none", "queued"}
                 PROVE  words[r] = Text[r[2]]
      BY <1>5 DEF WordsAgree
    <2>1. record[r] \in {"none", "queued"}
      BY <1>1, CommitWrites
    <2> QED
      BY <2>1 DEF RowsAgree, WordsAgree
  <1> QED
    BY <1>13, <1>14, <1>15, <1>16, <1>17, <1>18, <1>19, <1>20 DEF RowsAgree

-----------------------------------------------------------------------------
(* Reconciliation *)

\* The run, its message and its receipts when a candidate is resolved.
Resolves(s, c, outcome) ==
    LET result == [run[s].result EXCEPT !.outcomes[c] = outcome]
    IN  /\ receipt' = [receipt EXCEPT ![s][c] = outcome]
        /\ run' = [run EXCEPT ![s] = [@ EXCEPT !.pending[c] = "absent",
                                               !.result = result]]
        /\ message' = [message EXCEPT ![s] = result]

\* The row of a run of which one candidate is resolved.
LEMMA ResolvedRow ==
    ASSUME TypeOK, NEW s \in Sources, NEW c \in Candidates,
           NEW outcome \in Applied \cup {"reconciled"}, Resolves(s, c, outcome)
    PROVE  \E result \in Results, row \in Runs :
             /\ message' = [message EXCEPT ![s] = result]
             /\ run' = [run EXCEPT ![s] = row]
             /\ row.status = run[s].status /\ row.claim = run[s].claim
             /\ row.lease = run[s].lease /\ row.result = result
             /\ row.pending = [run[s].pending EXCEPT ![c] = "absent"]
             /\ result.outcomes = [run[s].result.outcomes EXCEPT ![c] = outcome]
  <1> DEFINE result == [run[s].result EXCEPT !.outcomes[c] = outcome]
             row == [run[s] EXCEPT !.pending[c] = "absent", !.result = result]
  <1>1. /\ message' = [message EXCEPT ![s] = result]
        /\ run' = [run EXCEPT ![s] = row]
    BY DEF Resolves, TypeOK
  <1>2. /\ outcome \in Outcomes /\ "absent" \in Kinds
    BY DEF Outcomes, Kinds
  <1>3. result \in Results /\
        result.outcomes = [run[s].result.outcomes EXCEPT ![c] = outcome]
    BY <1>2, RunType DEF Results
  <1> HIDE DEF result
  <1>4. /\ row \in Runs
        /\ row.status = run[s].status /\ row.claim = run[s].claim
        /\ row.lease = run[s].lease /\ row.result = result
        /\ row.pending = [run[s].pending EXCEPT ![c] = "absent"]
    BY <1>2, <1>3, RunType DEF Runs
  <1> HIDE DEF row
  <1> QED
    BY <1>1, <1>3, <1>4

\* What a call that resolves a candidate has made sure of.
LEMMA ResolutionEffect ==
    ASSUME IInv, NEW k \in Calls, CommitResolution(k)
    PROVE  \E s \in Sources, c \in Candidates, outcome \in Applied \cup {"reconciled"} :
             /\ s = Source(k) /\ run[s].pending[c] \in Reconcilable
             /\ Resolves(s, c, outcome)
             /\ record' = [record EXCEPT ![<<s, c>>] = RecordFor(outcome)]
             /\ outcome \in Written => Text[c] \notin SeenTexts(k)
             /\ Locked(k) /\ call[k].missed \subseteq theirs /\ Finish(k)
             /\ UNCHANGED <<provider, access, words, theirs, tools, commits>>
  <1> USE DEF IInv
  <1>1. call[k].phase = "resolving" /\ Locked(k)
    BY DEF CommitResolution, Locked
  <1>2. LockHolds(k) /\ Source(k) \in Sources
    BY <1>1 DEF CallsInOrder
  <1>3. PICK c \in Candidates : c = call[k].candidate
    BY <1>1, <1>2 DEF LockHolds
  <1>4. PICK outcome \in Applied \cup {"reconciled"} : outcome = call[k].outcome
    BY <1>1, <1>2 DEF LockHolds
  <1>5. /\ Resolves(Source(k), c, outcome)
        /\ record' = [record EXCEPT ![<<Source(k), c>>] = RecordFor(outcome)]
        /\ Finish(k) /\ UNCHANGED <<provider, access, words, theirs, tools, commits>>
    BY <1>3, <1>4 DEF CommitResolution, Resolves
  <1> QED
    BY <1>1, <1>2, <1>3, <1>4, <1>5 DEF LockHolds

\* A candidate that is pending has no receipt and no record, so what resolves it
\* is all there is of it.
LEMMA ResolveStep ==
    ASSUME IInv, NEW k \in Calls, CommitResolution(k)
    PROVE  IInv'
  <1> USE DEF IInv
  <1>0. PICK s \in Sources, c \in Candidates, outcome \in Applied \cup {"reconciled"} :
          /\ s = Source(k) /\ run[s].pending[c] \in Reconcilable
          /\ Resolves(s, c, outcome)
          /\ record' = [record EXCEPT ![<<s, c>>] = RecordFor(outcome)]
          /\ outcome \in Written => Text[c] \notin SeenTexts(k)
          /\ Locked(k) /\ call[k].missed \subseteq theirs /\ Finish(k)
          /\ UNCHANGED <<provider, access, words, theirs, tools, commits>>
    BY ResolutionEffect
  <1> DEFINE state == RecordFor(outcome)
  <1>a. state \in {"none", "memory", "queued"} /\ (state # "none" <=> outcome \in Written)
    BY RecordFields
  <1>b. record' = [record EXCEPT ![<<s, c>>] = state]
    BY <1>0
  <1> HIDE DEF state
  <1>1. run[s].pending[c] \in Reconcilable /\ run[s].status \in Done
    BY <1>0 DEF RowsAgree, Accounted, Reconcilable
  <1>2. record[<<s, c>>] = "none"
    <2>1. run[s].result.outcomes[c] = "pending_reconciliation"
      BY <1>1 DEF RowsAgree, PendingAgrees
    <2> QED
      BY <1>1, <2>1 DEF RowsAgree, Accounted, Written
  <1>3. PICK result \in Results, row \in Runs :
          /\ message' = [message EXCEPT ![s] = result]
          /\ run' = [run EXCEPT ![s] = row]
          /\ row.status = run[s].status /\ row.claim = run[s].claim
          /\ row.lease = run[s].lease /\ row.result = result
          /\ row.pending = [run[s].pending EXCEPT ![c] = "absent"]
          /\ result.outcomes = [run[s].result.outcomes EXCEPT ![c] = outcome]
    BY <1>0, ResolvedRow
  <1>4. receipt' = [receipt EXCEPT ![s][c] = outcome]
    BY <1>0 DEF Resolves
  <1>5. TypeOK'
    <2>1. outcome \in Outcomes
      BY DEF Outcomes
    <2>2. receipt' \in [Sources -> [Candidates -> Outcomes]]
      BY <1>4, <2>1 DEF TypeOK
    <2>3. record' \in [Records -> {"none", "memory", "queued", "gone", "refused"}]
      BY <1>a, <1>b DEF TypeOK
    <2>4. message' \in [Sources -> Results]
      BY <1>3 DEF TypeOK
    <2>5. run' \in [Sources -> Runs] /\ call' \in [Calls -> CallStates]
      BY <1>0, <1>3, UpdatedRun, UpdatedCall, Finished
    <2> QED
      BY <1>0, <2>2, <2>3, <2>4, <2>5 DEF TypeOK
  <1>6. run'[s] = row /\ \A q \in Sources : q # s => run'[q] = run[q]
    BY <1>3 DEF TypeOK
  <1>7. CallsInOrder'
    <2>1. \A j \in Calls \ {k} : ~ Locked(j)
      BY <1>0 DEF CallsInOrder
    <2> QED
      BY <1>0, <2>1, Finished, CallStep
  <1>8. ClaimHeld'
    BY <1>3, <1>6 DEF RowsAgree, ClaimHeld
  <1>9. \A q \in Sources, d \in Candidates :
           /\ receipt'[q][d] = IF q = s /\ d = c THEN outcome ELSE receipt[q][d]
           /\ record'[<<q, d>>] = IF q = s /\ d = c THEN state ELSE record[<<q, d>>]
           /\ run'[q].status = run[q].status
           /\ run'[q].pending[d] = IF q = s /\ d = c
                                   THEN "absent" ELSE run[q].pending[d]
           /\ run'[q].result.outcomes[d] = IF q = s /\ d = c
                                           THEN outcome ELSE run[q].result.outcomes[d]
    <2> TAKE q \in Sources, d \in Candidates
    <2>1. receipt'[q][d] = IF q = s /\ d = c THEN outcome ELSE receipt[q][d]
      BY <1>4 DEF TypeOK
    <2>2. record'[<<q, d>>] = IF q = s /\ d = c THEN state ELSE record[<<q, d>>]
      BY <1>b DEF TypeOK, Records
    <2> QED
      BY <1>3, <1>6, <2>1, <2>2, RunType
  <1>10. Accounted'
    <2> SUFFICES ASSUME NEW q \in Sources, NEW d \in Candidates
                 PROVE  LET found == run'[q].result.outcomes[d]
                        IN  IF run'[q].status \in Done
                            THEN /\ found \in Open <=> run'[q].pending[d] # "absent"
                                 /\ receipt'[q][d] =
                                       IF found \in Applied \cup {"reconciled"}
                                       THEN found ELSE "none"
                                 /\ record'[<<q, d>>] # "none" <=> found \in Written
                            ELSE /\ run'[q].pending[d] = "absent"
                                 /\ receipt'[q][d] = "none"
                                 /\ record'[<<q, d>>] = "none"
      BY DEF Accounted
    <2>1. CASE q = s /\ d = c
      BY <1>1, <1>9, <1>a, <2>1 DEF Open, Applied, Written
    <2>2. CASE ~ (q = s /\ d = c)
      <3>1. /\ receipt'[q][d] = receipt[q][d] /\ record'[<<q, d>>] = record[<<q, d>>]
            /\ run'[q].status = run[q].status /\ run'[q].pending[d] = run[q].pending[d]
            /\ run'[q].result.outcomes[d] = run[q].result.outcomes[d]
        BY <1>9, <2>2
      <3>2. Accounted
        BY DEF RowsAgree
      <3> QED
        BY <3>1, <3>2 DEF Accounted
    <2> QED
      BY <2>1, <2>2
  <1>11. NoDuplicateText'
    <2> SUFFICES ASSUME NEW q \in Records, NEW r \in Records, Live(q)', Live(r)',
                        words[q] = words[r], {q, r} \cap theirs = {}
                 PROVE  q = r
      BY <1>0 DEF NoDuplicateText
    <2>1. ASSUME NEW t \in Records, Live(t)', t # <<s, c>>, t \notin theirs
          PROVE  Live(t) /\ words[t] \in SeenTexts(k)
      BY <1>0, <1>b, <2>1 DEF Live, SeenTexts, TypeOK
    <2>2. Live(<<s, c>>)' => words[<<s, c>>] \notin SeenTexts(k)
      <3>1. words[<<s, c>>] = Text[c]
        BY <1>2 DEF RowsAgree, WordsAgree, Records
      <3> QED
        BY <1>0, <1>9, <1>a, <3>1 DEF Live
    <2>3. CASE q # <<s, c>> /\ r # <<s, c>>
      BY <2>1, <2>3 DEF RowsAgree, NoDuplicateText
    <2> QED
      BY <2>1, <2>2, <2>3
  <1>12. MessageShowsResult'
    BY <1>3, <1>6 DEF RowsAgree, MessageShowsResult, TypeOK
  <1>13. PendingAgrees'
    <2> SUFFICES ASSUME NEW q \in Sources, NEW d \in Candidates,
                        run'[q].pending[d] \in Reconcilable
                 PROVE  run'[q].result.outcomes[d] = "pending_reconciliation"
      BY DEF PendingAgrees
    <2>1. ~ (q = s /\ d = c)
      BY <1>9 DEF Reconcilable
    <2>2. /\ run'[q].pending[d] = run[q].pending[d]
          /\ run'[q].result.outcomes[d] = run[q].result.outcomes[d]
      BY <1>9, <2>1
    <2>3. PendingAgrees
      BY DEF RowsAgree
    <2> QED
      BY <2>2, <2>3 DEF PendingAgrees
  <1>14. WordsAgree'
    <2> SUFFICES ASSUME NEW r \in Records, record'[r] \in {"none", "queued"}
                 PROVE  words[r] = Text[r[2]]
      BY <1>0 DEF WordsAgree
    <2>1. record[r] \in {"none", "queued"}
      BY <1>2, <1>b DEF TypeOK
    <2> QED
      BY <2>1 DEF RowsAgree, WordsAgree
  <1> QED
    BY <1>5, <1>7, <1>8, <1>10, <1>11, <1>12, <1>13, <1>14 DEF RowsAgree

\* A call that takes the locks to resolve a candidate has found it pending, and
\* its text new if it is going to write it.
LEMMA LockResolutionStep ==
    ASSUME IInv, NEW k \in Calls, NEW c \in Candidates,
           NEW outcome \in Applied \cup {"reconciled"},
           outcome \in Written => Text[c] \notin KnownTexts,
           LockResolution(k, c, outcome)
    PROVE  IInv'
  <1> USE DEF IInv
  <1> DEFINE new == [call[k] EXCEPT !.phase = "resolving", !.candidate = c,
                                    !.outcome = outcome]
  <1>1. /\ UNCHANGED <<provider, access, run, message, receipt, recordVars, tools, commits>>
        /\ call[k].phase = "resolve" /\ ~ OwnerLocked /\ Source(k) \in Sources
        /\ call[k].missed = {} /\ call' = [call EXCEPT ![k] = new]
        /\ run[Source(k)].pending[c] \in Reconcilable
    BY DEF LockResolution, Resolvable, CallsInOrder, Locked
  <1>2. outcome \in Outcomes
    BY DEF Outcomes
  <1>3. /\ new \in CallStates /\ new.phase = "resolving" /\ new.source = Source(k)
        /\ new.candidate = c /\ new.outcome = outcome /\ new.missed = {}
    BY <1>1, <1>2, CallType DEF CallStates, Phases, Source
  <1> HIDE DEF new
  <1>4. call'[k] = new
    BY <1>1 DEF TypeOK
  <1>5. SeenTexts(k)' = KnownTexts
    BY <1>1, <1>3, <1>4 DEF SeenTexts, KnownTexts, Live
  <1>6. LockHolds(k)'
    BY <1>1, <1>3, <1>4, <1>5 DEF LockHolds, Source
  <1> QED
    BY <1>1, <1>3, <1>6, LocksTaken

LEMMA CompletionStep ==
    ASSUME IInv, NEW k \in Calls, NEW c \in Candidates, NEW related \in SUBSET Records,
           CompleteCreate(k, c, related) \/ CompleteHandled(k, c, related)
    PROVE  \E outcome \in Applied \cup {"reconciled"} :
              /\ LockResolution(k, c, outcome)
              /\ outcome \in Written => Text[c] \notin KnownTexts
  <1>1. CASE CompleteCreate(k, c, related)
    <2>1. access \in Accesses /\ (Text[c] \in KnownTexts) \in BOOLEAN
      BY DEF IInv, TypeOK
    <2> QED
      BY <1>1, <2>1, ApplyFields DEF CompleteCreate
  <1>2. CASE CompleteHandled(k, c, related)
    BY <1>2 DEF CompleteHandled, Written
  <1> QED
    BY <1>1, <1>2

LEMMA StewardStep ==
    ASSUME IInv, Steward
    PROVE  IInv'
  <1> USE DEF IInv
  <1>2. ASSUME UNCHANGED <<provider, access, run, message, receipt, recordVars, call, commits>>,
               tools' \in [Sources -> [searched: SUBSET Searches, found: SUBSET Records,
                                       mutated: SUBSET Records]]
        PROVE  IInv'
    <2>1. TypeOK'
      BY <1>2 DEF TypeOK
    <2>2. CallsInOrder'
      BY <1>2, OtherStep
    <2> QED
      BY <1>2, <2>1, <2>2, SameRows
  <1>3. ASSUME NEW s \in Sources, NEW search \in Searches, NEW found \in SUBSET Records,
               RecordSearch(s, search, found)
        PROVE  IInv'
    <2>1. tools' = [tools EXCEPT ![s].searched = @ \cup {search},
                                 ![s].found = @ \cup found]
          /\ UNCHANGED <<provider, access, run, message, receipt, recordVars, call, commits>>
      BY <1>3 DEF RecordSearch
    <2>2. tools' \in [Sources -> [searched: SUBSET Searches, found: SUBSET Records,
                                  mutated: SUBSET Records]]
      <3>1. PICK old \in [searched: SUBSET Searches, found: SUBSET Records,
                          mutated: SUBSET Records] : old = tools[s]
        BY DEF TypeOK
      <3>2. PICK new : new = [old EXCEPT !.searched = old.searched \cup {search},
                                         !.found = old.found \cup found]
        OBVIOUS
      <3>3. new \in [searched: SUBSET Searches, found: SUBSET Records,
                     mutated: SUBSET Records]
        BY <3>2
      <3>4. tools' = [tools EXCEPT ![s] = new]
        BY <2>1, <3>1, <3>2 DEF TypeOK
      <3> QED
        BY <3>3, <3>4 DEF TypeOK
    <2> QED
      BY <1>2, <2>1, <2>2
  <1>4. ASSUME NEW s \in Sources, NEW r \in Records, RecordMutation(s, r)
        PROVE  IInv'
    BY <1>2, <1>4 DEF RecordMutation, TypeOK
  <1>5. ASSUME NEW k \in Calls, NEW s \in Sources, BeginCompletion(k, s)
        PROVE  IInv'
    <2> DEFINE new == [IdleCall EXCEPT !.phase = "resolve", !.source = s,
                                       !.configuration = run[s].configuration]
    <2>1. /\ call' = [call EXCEPT ![k] = new]
          /\ UNCHANGED <<provider, run, message, receipt, recordVars, tools, commits>>
          /\ access' \in Accesses
      BY <1>5, InputAssumption DEF BeginCompletion, EnsureAccess, TypeOK, Accesses
    <2>2. /\ new \in CallStates /\ new.phase = "resolve" /\ new.source = s
          /\ new.missed = {}
      BY RowTypes, RunType DEF IdleCall, CallStates, Phases
    <2> HIDE DEF new
    <2> QED
      BY <2>1, <2>2, CallMoves
  <1>6. ASSUME NEW k \in Calls, CompletionFails(k)
        PROVE  IInv'
    <2>1. /\ Finish(k) /\ access' \in Accesses
          /\ UNCHANGED <<provider, run, message, receipt, recordVars, tools, commits>>
      BY <1>6 DEF CompletionFails, TypeOK
    <2> QED
      BY <2>1, Finished, CallMoves
  <1>7. ASSUME NEW k \in Calls, NEW c \in Candidates, NEW related \in SUBSET Records,
               CompleteCreate(k, c, related) \/ CompleteHandled(k, c, related)
        PROVE  IInv'
    BY <1>7, CompletionStep, LockResolutionStep
  <1> QED
    BY <1>3, <1>4, <1>5, <1>6, <1>7, ResolveStep DEF Steward

-----------------------------------------------------------------------------
(* The owner, time and restarts *)

\* The owner changes a record there is, and says what it says or makes it his.
LEMMA RecordStep ==
    ASSUME IInv, NEW r \in Records, NEW said \in Words,
           NEW state \in {"memory", "gone", "refused"},
           record[r] # "none", record' = [record EXCEPT ![r] = state],
           words' = [words EXCEPT ![r] = said],
           theirs \subseteq theirs', theirs' \subseteq Records,
           (Live(r) /\ said = words[r]) \/ state # "memory" \/ r \in theirs',
           CallsInOrder', call' \in [Calls -> CallStates],
           UNCHANGED <<provider, access, run, message, receipt, tools, commits>>
    PROVE  IInv'
  <1> USE DEF IInv
  <1>1. \A q \in Records :
           /\ record'[q] # "none" <=> record[q] # "none"
           /\ q # r => record'[q] = record[q] /\ words'[q] = words[q]
    BY DEF TypeOK
  <1>2. record'[r] = state /\ words'[r] = said
    BY DEF TypeOK
  <1>3. TypeOK'
    BY DEF TypeOK
  <1>4. Accounted'
    <2>1. \A q \in Sources, c \in Candidates :
             record'[<<q, c>>] # "none" <=> record[<<q, c>>] # "none"
      BY <1>1 DEF Records
    <2>2. run' = run /\ receipt' = receipt
      OBVIOUS
    <2>3. Accounted
      BY DEF RowsAgree
    <2> SUFFICES ASSUME NEW q \in Sources, NEW c \in Candidates
                 PROVE  LET outcome == run'[q].result.outcomes[c]
                        IN  IF run'[q].status \in Done
                            THEN /\ outcome \in Open <=> run'[q].pending[c] # "absent"
                                 /\ receipt'[q][c] =
                                       IF outcome \in Applied \cup {"reconciled"}
                                       THEN outcome ELSE "none"
                                 /\ record'[<<q, c>>] # "none" <=> outcome \in Written
                            ELSE /\ run'[q].pending[c] = "absent"
                                 /\ receipt'[q][c] = "none"
                                 /\ record'[<<q, c>>] = "none"
      BY DEF Accounted
    <2> QED
      BY <2>1, <2>2, <2>3 DEF Accounted
  <1>5. NoDuplicateText'
    <2> SUFFICES ASSUME NEW p \in Records, NEW q \in Records, Live(p)', Live(q)',
                        words'[p] = words'[q], {p, q} \cap theirs' = {}
                 PROVE  p = q
      BY DEF NoDuplicateText
    <2>1. ASSUME NEW t \in Records, Live(t)', t \notin theirs'
          PROVE  Live(t) /\ words'[t] = words[t] /\ t \notin theirs
      BY <1>1, <1>2, <2>1 DEF Live
    <2> QED
      BY <2>1 DEF RowsAgree, NoDuplicateText
  <1>6. WordsAgree'
    BY <1>1, <1>2 DEF RowsAgree, WordsAgree
  <1> QED
    BY <1>3, <1>4, <1>5, <1>6
       DEF RowsAgree, ClaimHeld, MessageShowsResult, PendingAgrees

\* A call that holds the locks misses what is edited or restored meanwhile.
LEMMA MissedStep ==
    ASSUME TypeOK, CallsInOrder, NEW r \in Records, NEW state \in {"memory", "gone"},
           NEW said \in Words, UpdateMemory(r, state, said)
    PROVE  CallsInOrder' /\ call' \in [Calls -> CallStates]
  <1>1. /\ record' = [record EXCEPT ![r] = state]
        /\ words' = [words EXCEPT ![r] = said]
        /\ theirs \subseteq theirs'
        /\ UNCHANGED <<provider, run>>
        /\ state = "memory" => r \in theirs'
    BY DEF UpdateMemory
  <1>2. \A k \in Calls :
           /\ call'[k] \in CallStates /\ call'[k].phase = call[k].phase
           /\ call'[k].source = call[k].source /\ call'[k].known = call[k].known
           /\ call'[k].configuration = call[k].configuration
           /\ call'[k].candidate = call[k].candidate
           /\ call'[k].outcome = call[k].outcome
           /\ call'[k].missed = IF Locked(k) /\ state = "memory"
                                 THEN call[k].missed \cup {r} ELSE call[k].missed
    <2>1. ASSUME NEW k \in Calls, Locked(k), state = "memory"
          PROVE  /\ call'[k] \in CallStates /\ call'[k].phase = call[k].phase
                 /\ call'[k].source = call[k].source /\ call'[k].known = call[k].known
                 /\ call'[k].configuration = call[k].configuration
                 /\ call'[k].candidate = call[k].candidate
                 /\ call'[k].outcome = call[k].outcome
                 /\ call'[k].missed = call[k].missed \cup {r}
      <3> DEFINE more == call[k].missed \cup {r}
      <3>1. call'[k] = [call[k] EXCEPT !.missed = more]
        BY <2>1 DEF UpdateMemory
      <3>2. more \in SUBSET Records
        BY CallType
      <3> HIDE DEF more
      <3>3. /\ call'[k] \in CallStates /\ call'[k].phase = call[k].phase
            /\ call'[k].source = call[k].source /\ call'[k].known = call[k].known
            /\ call'[k].configuration = call[k].configuration
            /\ call'[k].candidate = call[k].candidate
            /\ call'[k].outcome = call[k].outcome /\ call'[k].missed = more
        BY <3>1, <3>2, CallType DEF CallStates
      <3> QED
        BY <3>3 DEF more
    <2>2. ASSUME NEW k \in Calls, ~ (Locked(k) /\ state = "memory")
          PROVE  call'[k] = call[k] /\ call[k] \in CallStates
      BY <2>2, CallType DEF UpdateMemory
    <2> QED
      BY <2>1, <2>2
  <1>3. \A k \in Calls : (Locked(k)' <=> Locked(k)) /\ Source(k)' = Source(k)
    BY <1>2 DEF Locked, Source
  <1>4. ASSUME NEW k \in Calls, Locked(k)
        PROVE  LockHolds(k)'
    <2>1. LockHolds(k)
      BY <1>4 DEF CallsInOrder
    <2>2. SeenTexts(k)' \subseteq SeenTexts(k)
      <3> SUFFICES ASSUME NEW q \in Records, Live(q)', q \notin call'[k].missed
                   PROVE  Live(q) /\ words'[q] = words[q] /\ q \notin call[k].missed
        BY DEF SeenTexts
      <3>1. q # r
        BY <1>1, <1>2, <1>4 DEF Live, TypeOK
      <3> QED
        BY <1>1, <1>2, <1>4, <3>1 DEF Live, TypeOK
    <2>3. call'[k].missed \subseteq theirs'
      BY <1>1, <1>2, <2>1 DEF LockHolds
    <2>4. HoldsClaim(k)' <=> HoldsClaim(k)
      BY <1>1, <1>3 DEF HoldsClaim
    <2> QED
      BY <1>1, <1>2, <1>3, <2>1, <2>2, <2>3, <2>4 DEF LockHolds
  <1>5. call' \in [Calls -> CallStates]
    BY <1>2 DEF UpdateMemory, TypeOK
  <1> QED
    BY <1>2, <1>3, <1>4, <1>5 DEF CallsInOrder

LEMMA OwnerStep ==
    ASSUME IInv, Owner
    PROVE  IInv'
  <1> USE DEF IInv
  <1>1. ASSUME NEW system \in Systems, SetProvider(system) PROVE IInv'
    <2>1. ~ OwnerLocked /\ TypeOK'
          /\ UNCHANGED <<access, run, message, receipt, recordVars, tools, call, commits>>
      BY <1>1 DEF SetProvider, TypeOK
    <2> QED
      BY <2>1, OtherStep, SameRows
  <1>2. ASSUME NEW allowed \in AccessInputs, SetAccess(allowed) PROVE IInv'
    <2>1. UNCHANGED <<provider, run, message, receipt, recordVars, tools, call, commits>>
          /\ TypeOK'
      BY <1>2, InputAssumption DEF SetAccess, TypeOK
    <2> QED
      BY <2>1, OtherStep, SameRows
  <1>3. ASSUME NEW r \in Records, NEW state \in {"memory", "refused"},
               ReviewSuggestion(r, state)
        PROVE  IInv'
    <2>1. /\ ~ OwnerLocked /\ record[r] = "queued"
          /\ record' = [record EXCEPT ![r] = state]
          /\ UNCHANGED <<provider, access, run, message, receipt, words, theirs, tools,
                         call, commits>>
      BY <1>3 DEF ReviewSuggestion
    <2>2. /\ words[r] \in Words /\ words' = [words EXCEPT ![r] = words[r]]
          /\ theirs \subseteq Records /\ call' \in [Calls -> CallStates]
      BY <2>1 DEF TypeOK
    <2>3. CallsInOrder'
      BY <2>1, OtherStep
    <2> QED
      BY <2>1, <2>2, <2>3, RecordStep DEF Live
  <1>4. ASSUME NEW r \in Records, NEW state \in {"memory", "gone"}, NEW said \in Words,
               UpdateMemory(r, state, said)
        PROVE  IInv'
    <2>1. /\ record[r] # "none" /\ record' = [record EXCEPT ![r] = state]
          /\ words' = [words EXCEPT ![r] = said]
          /\ theirs' = IF state = "memory" THEN theirs \cup {r} ELSE theirs
          /\ UNCHANGED <<provider, access, run, message, receipt, tools, commits>>
      BY <1>4 DEF UpdateMemory
    <2>2. /\ theirs \subseteq theirs' /\ theirs' \subseteq Records
          /\ state # "memory" \/ r \in theirs'
      BY <2>1 DEF TypeOK
    <2>3. CallsInOrder' /\ call' \in [Calls -> CallStates]
      BY <1>4, MissedStep
    <2> QED
      BY <2>1, <2>2, <2>3, RecordStep
  <1> QED
    BY <1>1, <1>2, <1>3, <1>4 DEF Owner

LEMMA TimeStep ==
    ASSUME IInv, NEW s \in Sources, LapseLease(s) \/ Upgrade(s)
    PROVE  IInv'
  <1> USE DEF IInv
  <1>1. PICK row \in Runs :
           /\ run' = [run EXCEPT ![s] = row]
           /\ row.status = run[s].status /\ row.claim = run[s].claim
           /\ row.pending = run[s].pending /\ row.result = run[s].result
           /\ row.lease # "none" <=> run[s].lease # "none"
    <2>1. CASE LapseLease(s)
      <3> DEFINE row == [run[s] EXCEPT !.lease = "lapsed"]
      <3>1. run' = [run EXCEPT ![s] = row] /\ run[s].lease = "live"
        BY <2>1 DEF LapseLease
      <3>2. /\ row \in Runs /\ row.status = run[s].status /\ row.claim = run[s].claim
            /\ row.pending = run[s].pending /\ row.result = run[s].result
            /\ row.lease = "lapsed"
        BY RunType DEF Runs
      <3> HIDE DEF row
      <3> QED
        BY <3>1, <3>2
    <2>2. CASE Upgrade(s)
      <3> DEFINE row == [run[s] EXCEPT !.configuration = "corrupt"]
      <3>1. run' = [run EXCEPT ![s] = row]
        BY <2>2 DEF Upgrade
      <3>2. /\ row \in Runs /\ row.status = run[s].status /\ row.claim = run[s].claim
            /\ row.pending = run[s].pending /\ row.result = run[s].result
            /\ row.lease = run[s].lease
        BY RunType DEF Runs, Configurations
      <3> HIDE DEF row
      <3> QED
        BY <3>1, <3>2
    <2> QED
      BY <2>1, <2>2
  <1>2. UNCHANGED <<provider, access, message, receipt, recordVars, tools, call, commits>>
    BY DEF LapseLease, Upgrade
  <1>3. TypeOK'
    BY <1>1, <1>2, UpdatedRun DEF TypeOK
  <1>4. \A q \in Sources : run'[q].claim = run[q].claim /\ run'[q].pending = run[q].pending
    BY <1>1 DEF TypeOK
  <1>5. CallsInOrder'
    BY <1>2, <1>4, OtherStep
  <1>6. /\ row.status \in Done <=> run[s].status \in Done
        /\ row.status = "RUNNING" <=> row.claim # None
        /\ row.status = "RUNNING" <=> row.lease # "none"
        /\ row.result # NoResult => message'[s] = row.result
    BY <1>1, <1>2, RunFields
  <1>7. RowsAgree'
    BY <1>1, <1>2, <1>6, RunStep
  <1> QED
    BY <1>3, <1>5, <1>7

-----------------------------------------------------------------------------
(* Every step *)

LEMMA AdvanceStep ==
    ASSUME IInv, NEW k \in Calls, Advance(k) \/ Crash(k)
    PROVE  IInv'
  BY ReadSteps, UpsertStep, ClaimStep, LockStep, CommitStep, FailureStep DEF Advance

LEMMA NextStep == IInv /\ [Next]_vars => IInv'
  <1> SUFFICES ASSUME IInv, [Next]_vars PROVE IInv'
    OBVIOUS
  <1>1. ASSUME NEW k \in Calls, NEW s \in Sources,
               Process(k, s) \/ Retry(k, s) \/ Reprocess(k, s)
        PROVE  IInv'
    BY <1>1, ReadSteps, RetryStep, ReprocessStep
  <1>2. CASE UNCHANGED vars
    <2> USE DEF IInv
    <2>1. UNCHANGED <<provider, access, run, message, receipt, recordVars, tools, call,
                      commits>>
      BY <1>2 DEF vars
    <2>2. TypeOK'
      BY <2>1 DEF TypeOK
    <2>3. CallsInOrder'
      BY <2>1, OtherStep
    <2> QED
      BY <2>1, <2>2, <2>3, SameRows
  <1> QED
    BY <1>1, <1>2, AdvanceStep, StewardStep, OwnerStep, TimeStep DEF Next

LEMMA InitHolds == Init => IInv
  <1> SUFFICES ASSUME Init PROVE IInv
    OBVIOUS
  <1>1. TypeOK
    BY RowTypes, InputAssumption, TextAssumption DEF Init, TypeOK, NoOutcomes, Records
  <1>2. \A k \in Calls : call[k].phase = "idle"
    BY IdleFields DEF Init
  <1>3. CallsInOrder
    BY <1>2, IdleFields DEF Init, CallsInOrder, Locked
  <1>4. /\ NoRun.status = "ABSENT" /\ NoRun.claim = None /\ NoRun.lease = "none"
        /\ NoRun.pending = NoPending /\ NoRun.result = NoResult
    BY DEF NoRun
  <1>5. ClaimHeld /\ MessageShowsResult
    BY <1>4 DEF Init, ClaimHeld, MessageShowsResult
  <1>6. Accounted
    BY <1>4 DEF Init, Accounted, Done, NoPending, NoOutcomes, Records
  <1>7. NoDuplicateText
    BY DEF Init, NoDuplicateText, Live
  <1>8. PendingAgrees
    BY <1>4 DEF Init, PendingAgrees, NoPending, Reconcilable
  <1>9. WordsAgree
    BY DEF Init, WordsAgree
  <1> QED
    BY <1>1, <1>3, <1>5, <1>6, <1>7, <1>8, <1>9 DEF IInv, RowsAgree

THEOREM Invariance == Spec => []IInv
  BY InitHolds, NextStep, PTL DEF Spec

-----------------------------------------------------------------------------
(* Outcomes are committed once *)

\* Only the commit of a call writes an outcome to a turn's audit trail.
LEMMA WhoCommits ==
    ASSUME IInv, [Next]_vars, NEW s \in Sources, Commits(s)
    PROVE  \E k \in Calls : CommitOutcome(k) /\ Source(k) = s
  <1>1. commits' # commits
    BY DEF Commits
  <1>2. PICK k \in Calls : CommitOutcome(k)
    <2>1. ASSUME NEW k \in Calls, Advance(k) \/ Crash(k)
          PROVE  CommitOutcome(k)
      BY <1>1, <2>1 DEF Advance, Crash, Upsert, Claim, Ask, Block, Break, Answer,
         LockOutcome, Enqueue, PersistFailure
    <2>2. ~ Steward
      BY <1>1 DEF Steward, RecordSearch, RecordMutation, BeginCompletion, CompleteCreate,
         CompleteHandled, LockResolution, CommitResolution, CompletionFails
    <2>3. ~ Owner
      BY <1>1 DEF Owner, SetProvider, SetAccess, ReviewSuggestion, UpdateMemory
    <2> QED
      BY <1>1, <2>1, <2>2, <2>3 DEF Next, vars, Process, Retry, Reprocess, LapseLease,
         Upgrade
  <1>3. commits' = [commits EXCEPT ![Source(k)] = @ + 1]
    BY <1>2 DEF CommitOutcome
  <1> QED
    BY <1>2, <1>3 DEF Commits, IInv, TypeOK

LEMMA CommitHolds ==
    ASSUME IInv, NEW k \in Calls, CommitOutcome(k)
    PROVE  /\ call[k].phase = "locked" /\ Source(k) \in Sources
           /\ run[Source(k)].claim = k /\ run[Source(k)].status = "RUNNING"
           /\ call[k].configuration = provider
  <1>1. call[k].phase = "locked"
    BY DEF CommitOutcome
  <1>2. LockHolds(k) /\ Source(k) \in Sources
    BY <1>1 DEF IInv, CallsInOrder, Locked
  <1>3. run[Source(k)].claim = k
    BY <1>1, <1>2 DEF LockHolds, HoldsClaim
  <1> QED
    BY <1>1, <1>2, <1>3, RunFields, NoneAssumption DEF LockHolds

\* The only run that changes, if any, is unfinished before and after, or keeps its
\* status and its result.
Quiet ==
    \/ UNCHANGED run
    \/ \E q \in Sources : \E row :
          /\ run' = [run EXCEPT ![q] = row]
          /\ \/ run[q].status \notin Done /\ row.status \notin Done
             \/ row.status = run[q].status /\ row.result = run[q].result

\* A run is claimed or released before it is finished.
LEMMA CallsAreQuiet ==
    ASSUME IInv, NEW k \in Calls, Advance(k) \/ Crash(k), ~ CommitOutcome(k)
    PROVE  Quiet
  <1>1. CASE UNCHANGED run
    BY <1>1 DEF Quiet
  <1>2. CASE Upsert(k)
    <2>1. PICK q \in Sources : q = Source(k)
      BY <1>2 DEF Upsert, IInv, CallsInOrder
    <2> DEFINE row == IF run[q].status = "ABSENT"
                      THEN [NoRun EXCEPT !.status = "PENDING",
                                         !.configuration = call[k].configuration]
                      ELSE run[q]
    <2>2. run' = [run EXCEPT ![q] = row]
      BY <1>2, <2>1 DEF Upsert
    <2>3. \/ run[q].status \notin Done /\ row.status \notin Done
          \/ row.status = run[q].status /\ row.result = run[q].result
      BY DEF Done, NoRun
    <2> HIDE DEF row
    <2> QED
      BY <2>2, <2>3 DEF Quiet
  <1>3. CASE Claim(k)
    <2>1. PICK q \in Sources : q = Source(k)
      BY <1>3 DEF Claim, IInv, CallsInOrder
    <2> DEFINE row == [run[q] EXCEPT !.status = "RUNNING", !.claim = k,
                                     !.lease = "live"]
    <2>2. UNCHANGED run \/ (Claimable(q) /\ run' = [run EXCEPT ![q] = row])
      BY <1>3, <2>1 DEF Claim
    <2>3. row.status \notin Done
      BY RunFields DEF Runs, Done
    <2> HIDE DEF row
    <2> QED
      BY <2>2, <2>3 DEF Quiet, Claimable, Done
  <1>4. CASE PersistFailure(k)
    <2>1. PICK q \in Sources : q = Source(k)
      BY <1>4 DEF PersistFailure, IInv, CallsInOrder
    <2> DEFINE row == Released(run[q], Failure(k))
    <2>2. UNCHANGED run \/ (run[q].claim = k /\ run' = [run EXCEPT ![q] = row])
      BY <1>4, <2>1 DEF PersistFailure, HoldsClaim
    <2>3. Failure(k).status \in {"FAILED", "SKIPPED"}
      BY CallType DEF Failure, NoResult, IInv
    <2>4. row.status \notin Done
      BY <2>3, RunFields DEF Released, Runs, Done
    <2>5. run[q].claim = k => run[q].status = "RUNNING"
      BY RunFields, NoneAssumption
    <2> HIDE DEF row
    <2> QED
      BY <2>2, <2>4, <2>5 DEF Quiet, Done
  <1> QED
    BY <1>1, <1>2, <1>3, <1>4 DEF Advance, Crash, Ask, Block, Break, Answer,
       LockOutcome, Enqueue

\* It is retried before that too; time and upgrades keep its result.
LEMMA RunsAreQuiet ==
    ASSUME IInv, NEW q \in Sources,
           \/ \E k \in Calls : Process(k, q) \/ Retry(k, q) \/ Reprocess(k, q)
           \/ LapseLease(q) \/ Upgrade(q)
    PROVE  Quiet
  <1>1. ASSUME NEW k \in Calls, Process(k, q)
        PROVE  Quiet
    BY <1>1 DEF Process, Quiet
  <1>2. ASSUME NEW k \in Calls, Retry(k, q)
        PROVE  Quiet
    <2> DEFINE row == [run[q] EXCEPT !.status = "FAILED"]
    <2>1. UNCHANGED run \/ (run[q].status = "SKIPPED" /\ run' = [run EXCEPT ![q] = row])
      BY <1>2 DEF Retry, IInv, TypeOK
    <2>2. row.status \notin Done
      BY RunFields DEF Runs, Done
    <2> HIDE DEF row
    <2> QED
      BY <2>1, <2>2 DEF Quiet, Done
  <1>3. ASSUME NEW k \in Calls, Reprocess(k, q)
        PROVE  Quiet
    <2> DEFINE row == [run[q] EXCEPT !.status = "PENDING", !.configuration = provider,
                                     !.result = NoResult]
    <2>1. run[q].status \in {"FAILED", "SKIPPED"} /\ run' = [run EXCEPT ![q] = row]
      BY <1>3 DEF Reprocess, Reprocessable
    <2>2. row.status \notin Done
      BY RunFields DEF Runs, Done
    <2> HIDE DEF row
    <2> QED
      BY <2>1, <2>2 DEF Quiet, Done
  <1>4. CASE LapseLease(q)
    <2> DEFINE row == [run[q] EXCEPT !.lease = "lapsed"]
    <2>1. run' = [run EXCEPT ![q] = row]
      BY <1>4 DEF LapseLease
    <2>2. row.status = run[q].status /\ row.result = run[q].result
      BY RunFields DEF Runs
    <2> HIDE DEF row
    <2> QED
      BY <2>1, <2>2 DEF Quiet
  <1>5. CASE Upgrade(q)
    <2> DEFINE row == [run[q] EXCEPT !.configuration = "corrupt"]
    <2>1. run' = [run EXCEPT ![q] = row]
      BY <1>5 DEF Upgrade
    <2>2. row.status = run[q].status /\ row.result = run[q].result
      BY RunFields DEF Runs
    <2> HIDE DEF row
    <2> QED
      BY <2>1, <2>2 DEF Quiet
  <1> QED
    BY <1>1, <1>2, <1>3, <1>4, <1>5

\* What a step leaves of the result of a finished run.
Keeps(s) ==
    /\ run'[s].status = run[s].status
    /\ \A c \in Candidates :
          run[s].result.outcomes[c] # "pending_reconciliation" =>
             run'[s].result.outcomes[c] = run[s].result.outcomes[c]

LEMMA QuietKeeps ==
    ASSUME IInv, NEW s \in Sources, run[s].status \in Done, Quiet
    PROVE  Keeps(s)
  <1>1. CASE UNCHANGED run
    BY <1>1 DEF Keeps
  <1>2. ASSUME NEW q \in Sources, NEW row, run' = [run EXCEPT ![q] = row],
               \/ run[q].status \notin Done
               \/ row.status = run[q].status /\ row.result = run[q].result
        PROVE  Keeps(s)
    <2>1. run'[s] = run[s] \/ (s = q /\ run'[s] = row)
      BY <1>2 DEF IInv, TypeOK
    <2> QED
      BY <1>2, <2>1 DEF Keeps
  <1> QED
    BY <1>1, <1>2 DEF Quiet

LEMMA CommitKeeps ==
    ASSUME IInv, NEW s \in Sources, run[s].status \in Done,
           NEW k \in Calls, CommitOutcome(k)
    PROVE  Keeps(s)
  <1>1. PICK q \in Sources : q = Source(k) /\ run[q].status = "RUNNING"
    BY CommitHolds
  <1>2. PICK row : run' = [run EXCEPT ![q] = row]
    BY <1>1 DEF CommitOutcome
  <1>3. run'[s] = run[s]
    BY <1>1, <1>2 DEF Done, IInv, TypeOK
  <1> QED
    BY <1>3 DEF Keeps

LEMMA ResolveKeeps ==
    ASSUME IInv, NEW s \in Sources, run[s].status \in Done, NEW k \in Calls,
           CommitResolution(k)
    PROVE  Keeps(s)
  <1>0. TypeOK
    BY DEF IInv
  <1>1. PICK q \in Sources, c \in Candidates, outcome \in Applied \cup {"reconciled"} :
           run[q].pending[c] \in Reconcilable /\ Resolves(q, c, outcome)
    BY ResolutionEffect
  <1>2. run[q].result.outcomes[c] = "pending_reconciliation"
    BY <1>1 DEF IInv, RowsAgree, PendingAgrees
  <1>3. PICK result \in Results, row \in Runs :
          /\ message' = [message EXCEPT ![q] = result]
          /\ run' = [run EXCEPT ![q] = row]
          /\ row.status = run[q].status /\ row.claim = run[q].claim
          /\ row.lease = run[q].lease /\ row.result = result
          /\ row.pending = [run[q].pending EXCEPT ![c] = "absent"]
          /\ result.outcomes = [run[q].result.outcomes EXCEPT ![c] = outcome]
    BY <1>0, <1>1, ResolvedRow
  <1>4. \A d \in Candidates : d # c => result.outcomes[d] = run[q].result.outcomes[d]
    BY <1>3, RunType DEF IInv
  <1>5. run'[s] = run[s] \/ (s = q /\ run'[s] = row)
    BY <1>3 DEF IInv, TypeOK
  <1> QED
    BY <1>2, <1>3, <1>4, <1>5 DEF Keeps

LEMMA WhoResolves ==
    ASSUME Steward
    PROVE  UNCHANGED <<run, recordVars>> \/ \E k \in Calls : CommitResolution(k)
  BY DEF Steward, RecordSearch, RecordMutation, BeginCompletion, CompleteCreate,
     CompleteHandled, LockResolution, CompletionFails

LEMMA OwnersAreQuiet ==
    ASSUME Owner
    PROVE  UNCHANGED run
  BY DEF Owner, SetProvider, SetAccess, ReviewSuggestion, UpdateMemory

\* A finished run is only reconciled.
LEMMA FinishedStays ==
    ASSUME IInv, [Next]_vars, NEW s \in Sources, run[s].status \in Done
    PROVE  Keeps(s)
  <1>1. CASE Owner \/ UNCHANGED vars
    BY <1>1, OwnersAreQuiet, QuietKeeps DEF vars, Quiet
  <1>2. ASSUME NEW k \in Calls, Advance(k) \/ Crash(k)
        PROVE  Keeps(s)
    BY <1>2, CallsAreQuiet, QuietKeeps, CommitKeeps
  <1>3. CASE Steward
    BY <1>3, WhoResolves, ResolveKeeps, QuietKeeps DEF Quiet
  <1>4. ASSUME NEW q \in Sources,
               \/ \E k \in Calls : Process(k, q) \/ Retry(k, q) \/ Reprocess(k, q)
               \/ LapseLease(q) \/ Upgrade(q)
        PROVE  Keeps(s)
    BY <1>4, RunsAreQuiet, QuietKeeps
  <1> QED
    BY <1>1, <1>2, <1>3, <1>4 DEF Next

-----------------------------------------------------------------------------
(* What the owner is promised *)

\* The state functions that stand for the variables of KeptOnce.
FateNow == [s \in Sources |-> [c \in Candidates |-> Fate(s, c)]]
KeptNow == {r \in Records : Live(r)}
MissedNow == UNION {call[k].missed : k \in Calls}

\* A step of extraction is a step of the promise, or none.
PromiseStep ==
    Promise!Next \/ UNCHANGED <<FateNow, KeptNow, words, theirs, OwnerLocked, MissedNow>>

LEMMA FateFields ==
    ASSUME NEW s, NEW c
    PROVE  /\ Fate(s, c) \in {"unread", "open", "kept", "dropped"}
           /\ Fate(s, c) = "unread" <=> run[s].status \notin Done
           /\ run[s].status \in Done =>
                 /\ Fate(s, c) = "kept" <=>
                       /\ run[s].result.outcomes[c] \in Written
                       /\ record[<<s, c>>] # "refused"
                 /\ Fate(s, c) = "open" <=>
                       run[s].result.outcomes[c] = "pending_reconciliation"
  BY DEF Fate, Written

\* The same of the next state.
LEMMA NextFateFields ==
    ASSUME NEW s, NEW c
    PROVE  /\ Fate(s, c)' \in {"unread", "open", "kept", "dropped"}
           /\ Fate(s, c)' = "unread" <=> run'[s].status \notin Done
           /\ run'[s].status \in Done =>
                 /\ Fate(s, c)' = "kept" <=>
                       /\ run'[s].result.outcomes[c] \in Written
                       /\ record'[<<s, c>>] # "refused"
                 /\ Fate(s, c)' = "open" <=>
                       run'[s].result.outcomes[c] = "pending_reconciliation"
  BY DEF Fate, Written

\* A candidate with a record was written, and is kept until it is refused.
LEMMA RecordIsKept ==
    ASSUME IInv, NEW s \in Sources, NEW c \in Candidates, record[<<s, c>>] # "none"
    PROVE  /\ run[s].status \in Done /\ run[s].result.outcomes[c] \in Written
           /\ record[<<s, c>>] # "refused" => FateNow[s][c] = "kept"
  BY FateFields DEF IInv, RowsAgree, Accounted, FateNow

\* Only the row of s and the records of its candidates change.
LEMMA FateMoves ==
    ASSUME NEW s \in Sources, \A q \in Sources \ {s} : run'[q] = run[q],
           \A q \in Sources \ {s}, c \in Candidates :
              record'[<<q, c>>] = "refused" <=> record[<<q, c>>] = "refused"
    PROVE  FateNow' = [FateNow EXCEPT ![s] = [c \in Candidates |-> Fate(s, c)']]
  <1>1. \A q \in Sources \ {s}, c \in Candidates : Fate(q, c)' = Fate(q, c)
    BY DEF Fate
  <1> QED
    BY <1>1 DEF FateNow

\* At most one call holds the owner's lock, and only it misses anything.
LEMMA MissedOf ==
    ASSUME NEW c, NEW k \in Calls, \A j \in Calls \ {k} : c[j].missed = {}
    PROVE  UNION {c[j].missed : j \in Calls} = c[k].missed
  OBVIOUS

LEMMA MissedOfNone ==
    ASSUME NEW c, \A j \in Calls : c[j].missed = {}
    PROVE  UNION {c[j].missed : j \in Calls} = {}
  OBVIOUS

LEMMA LooksNow ==
    ASSUME CallsInOrder
    PROVE  /\ \A k \in Calls : Locked(k) => OwnerLocked /\ MissedNow = call[k].missed
           /\ ~ OwnerLocked => MissedNow = {}
  <1>1. ASSUME NEW k \in Calls, Locked(k)
        PROVE  OwnerLocked /\ MissedNow = call[k].missed
    <2>1. \A j \in Calls \ {k} : call[j].missed = {}
      BY <1>1 DEF CallsInOrder
    <2> QED
      BY <1>1, <2>1, MissedOf DEF OwnerLocked, MissedNow
  <1>2. ASSUME ~ OwnerLocked
        PROVE  MissedNow = {}
    BY <1>2, MissedOfNone DEF OwnerLocked, MissedNow, CallsInOrder
  <1> QED
    BY <1>1, <1>2

LEMMA LooksNext ==
    ASSUME CallsInOrder'
    PROVE  /\ \A k \in Calls : Locked(k)' => OwnerLocked' /\ MissedNow' = call'[k].missed
           /\ ~ OwnerLocked' => MissedNow' = {}
  <1>1. ASSUME NEW k \in Calls, Locked(k)'
        PROVE  OwnerLocked' /\ MissedNow' = call'[k].missed
    <2>1. \A j \in Calls \ {k} : call'[j].missed = {}
      BY <1>1 DEF CallsInOrder
    <2> QED
      BY <1>1, <2>1, MissedOf DEF OwnerLocked, MissedNow
  <1>2. ASSUME ~ OwnerLocked'
        PROVE  MissedNow' = {}
    BY <1>2, MissedOfNone DEF OwnerLocked, MissedNow, CallsInOrder
  <1> QED
    BY <1>1, <1>2

\* A call that lets go of the locks no longer looks at anything.
LEMMA LooksAway ==
    ASSUME IInv, IInv', NEW k \in Calls, Locked(k), NEW new,
           call' = [call EXCEPT ![k] = new], new.phase \notin {"locked", "resolving"}
    PROVE  /\ OwnerLocked /\ MissedNow = call[k].missed
           /\ ~ OwnerLocked' /\ MissedNow' = {}
  <1>1. call'[k] = new /\ \A j \in Calls : j # k => call'[j] = call[j]
    BY DEF IInv, TypeOK
  <1>2. \A j \in Calls : ~ Locked(j)'
    BY <1>1 DEF Locked, IInv, CallsInOrder
  <1>3. ~ OwnerLocked'
    BY <1>2 DEF OwnerLocked
  <1> QED
    BY <1>3, LooksNow, LooksNext DEF IInv

\* A step of call k that changes no fate and no record: it takes the locks, or
\* lets go of them.
LEMMA LookSteps ==
    ASSUME IInv, IInv', NEW k \in Calls, NEW new, call' = [call EXCEPT ![k] = new],
           Locked(k) => new.phase \notin {"locked", "resolving"}, new.missed = {},
           UNCHANGED <<FateNow, KeptNow, words, theirs>>
    PROVE  PromiseStep
  <1>1. /\ call'[k] = new /\ \A j \in Calls : j # k => call'[j] = call[j]
        /\ CallsInOrder /\ CallsInOrder'
    BY DEF IInv, TypeOK
  <1>2. \A j \in Calls : j # k => (Locked(j)' <=> Locked(j))
    BY <1>1 DEF Locked
  <1>3. CASE Locked(k)
    <2>1. OwnerLocked /\ ~ OwnerLocked' /\ MissedNow' = {}
      BY <1>3, LooksAway
    <2>2. OwnerLocked' = FALSE
      BY <2>1
    <2>3. Promise!LookAway
      BY <2>1, <2>2 DEF Promise!LookAway, FateNow, KeptNow, MissedNow
    <2> QED
      BY <2>3 DEF PromiseStep, Promise!Next
  <1>4. CASE ~ Locked(k) /\ Locked(k)'
    <2>1. \A j \in Calls : ~ Locked(j)
      BY <1>1, <1>2, <1>4 DEF CallsInOrder
    <2>2. ~ OwnerLocked /\ MissedNow = {}
      BY <1>1, <2>1, LooksNow DEF OwnerLocked
    <2>3. OwnerLocked' /\ MissedNow' = {}
      BY <1>1, <1>4, LooksNext
    <2>4. OwnerLocked' = TRUE
      BY <2>3
    <2>5. Promise!Look
      BY <2>2, <2>3, <2>4 DEF Promise!Look, FateNow, KeptNow, MissedNow
    <2> QED
      BY <2>5 DEF PromiseStep, Promise!Next
  <1>5. CASE ~ Locked(k) /\ ~ Locked(k)'
    <2>1. OwnerLocked' <=> OwnerLocked
      BY <1>2, <1>5 DEF OwnerLocked
    <2>2. MissedNow' = MissedNow
      <3>1. CASE OwnerLocked
        <4>1. PICK j \in Calls : Locked(j)
          BY <3>1 DEF OwnerLocked
        <4>2. j # k /\ call'[j] = call[j] /\ Locked(j)'
          BY <1>1, <1>2, <1>5, <4>1
        <4> QED
          BY <1>1, <4>1, <4>2, LooksNow, LooksNext
      <3>2. CASE ~ OwnerLocked
        BY <1>1, <2>1, <3>2, LooksNow, LooksNext
      <3> QED
        BY <3>1, <3>2
    <2>3. UNCHANGED OwnerLocked
      BY <2>1
    <2> QED
      BY <2>2, <2>3 DEF PromiseStep
  <1> QED
    BY <1>3, <1>4, <1>5

\* A run that is not finished by a step keeps the fates of its candidates.
LEMMA QuietPromise ==
    ASSUME TypeOK, Quiet, UNCHANGED record
    PROVE  UNCHANGED <<FateNow, KeptNow>>
  <1>1. UNCHANGED KeptNow
    BY DEF KeptNow, Live
  <1>2. CASE UNCHANGED run
    BY <1>1, <1>2 DEF FateNow, Fate
  <1>3. ASSUME NEW q \in Sources, NEW row, run' = [run EXCEPT ![q] = row],
               \/ run[q].status \notin Done /\ row.status \notin Done
               \/ row.status = run[q].status /\ row.result = run[q].result
        PROVE  UNCHANGED FateNow
    <2>1. /\ run'[q] = row
          /\ \A s \in Sources : s # q => run'[s] = run[s]
      BY <1>3 DEF TypeOK
    <2>2. \A c \in Candidates : Fate(q, c)' = Fate(q, c)
      BY <1>3, <2>1 DEF Fate
    <2>3. \A s \in Sources, c \in Candidates : Fate(s, c)' = Fate(s, c)
      BY <2>1, <2>2 DEF Fate
    <2> QED
      BY <2>3 DEF FateNow
  <1> QED
    BY <1>1, <1>2, <1>3 DEF Quiet

\* What is written is not said by any record that was seen.
LEMMA WriteSteps ==
    ASSUME IInv, IInv', NEW k \in Calls, Locked(k), NEW new,
           call' = [call EXCEPT ![k] = new], new.phase \notin {"locked", "resolving"},
           NEW added \in SUBSET Records,
           KeptNow' = KeptNow \cup added, UNCHANGED <<words, theirs>>,
           \A r \in added : words[r] \notin SeenTexts(k),
           \A q, r \in added : words[q] = words[r] => q = r
    PROVE  Promise!Write(added)
  <1>0. /\ OwnerLocked /\ MissedNow = call[k].missed
        /\ ~ OwnerLocked' /\ MissedNow' = {}
    BY LooksAway
  <1>1. /\ OwnerLocked /\ MissedNow = call[k].missed
        /\ OwnerLocked' = FALSE /\ MissedNow' = {}
    BY <1>0
  <1>2. ASSUME NEW q \in KeptNow \ MissedNow, NEW r \in added
        PROVE  words[q] # words[r]
    <2>1. words[q] \in SeenTexts(k)
      BY <1>1 DEF KeptNow, SeenTexts
    <2> QED
      BY <2>1
  <1>3. \A q \in (KeptNow \ MissedNow) \cup added, r \in added :
           words[q] = words[r] => q = r
    BY <1>2
  <1> QED
    BY <1>1, <1>3 DEF Promise!Write, KeptNow, MissedNow

\* The commit of an outcome reads the turn.
LEMMA CommitKeepsPromise ==
    ASSUME IInv, IInv', NEW k \in Calls, CommitOutcome(k)
    PROVE  PromiseStep
  <1>0. TypeOK /\ Accounted /\ Accounted'
    BY DEF IInv, RowsAgree
  <1>1. PICK s \in Sources : s = Source(k) /\ run[s].status = "RUNNING"
    BY CommitHolds
  <1>2. PICK first \in Orders(call[k].answer.kind),
             outcomes \in [Candidates -> Outcomes], result \in Results :
          /\ outcomes = [c \in Candidates |-> OutcomeOf(k, c, first)]
          /\ result.status \in Done /\ result.outcomes = outcomes
          /\ run' = [run EXCEPT ![s] = [Released(@, result) EXCEPT
                                          !.pending = Pending(call[k].answer.kind)]]
          /\ message' = [message EXCEPT ![s] = result]
          /\ receipt' = [receipt EXCEPT ![s] = [c \in Candidates |->
                IF outcomes[c] \in Applied THEN outcomes[c] ELSE "none"]]
          /\ record' = [r \in Records |->
                IF r[1] = s THEN RecordFor(outcomes[r[2]]) ELSE record[r]]
    BY <1>0, <1>1, CommitEffect
  <1>f. PICK f : f = [c \in Candidates |-> Fate(s, c)']
    OBVIOUS
  <1> DEFINE new == {s} \X {c \in Candidates : f[c] = "kept"}
  <1>3. run'[s].status \in Done
    <2>1. run'[s] = [Released(run[s], result) EXCEPT
                       !.pending = Pending(call[k].answer.kind)]
      BY <1>0, <1>2 DEF TypeOK
    <2>2. PICK old \in Runs : old = run[s]
      BY <1>0, RunType
    <2>3. run'[s].status = result.status
      BY <2>1, <2>2 DEF Released, Runs
    <2> QED
      BY <1>2, <2>3
  <1>4. \A q \in Sources \ {s} : run'[q] = run[q]
    BY <1>0, <1>2 DEF TypeOK
  <1>5. /\ \A r \in Records : r[1] = s =>
              /\ record[r] = "none"
              /\ Live(r)' => words[r] = Text[r[2]] /\ words[r] \notin SeenTexts(k)
              /\ record'[r] \in {"none", "memory", "queued"}
        /\ \A q, r \in Records :
              q[1] = s /\ r[1] = s /\ Live(q)' /\ Live(r)' /\ words[q] = words[r] => q = r
        /\ \A r \in Records : r[1] # s => record'[r] = record[r]
    BY <1>1, CommitWrites
  <1>6. \A q \in Sources \ {s}, c \in Candidates : record'[<<q, c>>] = record[<<q, c>>]
    BY <1>5 DEF Records
  <1>7. FateNow' = [FateNow EXCEPT ![s] = f]
    BY <1>f, <1>4, <1>6, FateMoves
  <1>8. f \in [Candidates -> {"unread", "open", "kept", "dropped"} \ {"unread"}]
    BY <1>f, <1>3, NextFateFields
  <1>9. \A c \in Candidates : FateNow[s][c] = "unread"
    BY <1>1, FateFields DEF FateNow, Done
  <1>10. \A r \in Records : r \in new <=> r[1] = s /\ Live(r)'
    <2>1. ASSUME NEW c \in Candidates
          PROVE  f[c] = "kept" <=> Live(<<s, c>>)'
      <3>1. record'[<<s, c>>] # "none" <=> run'[s].result.outcomes[c] \in Written
        BY <1>0, <1>3 DEF Accounted
      <3>2. record'[<<s, c>>] \in {"none", "memory", "queued"}
        BY <1>5 DEF Records
      <3>3. f[c] = "kept" <=> /\ run'[s].result.outcomes[c] \in Written
                              /\ record'[<<s, c>>] # "refused"
        BY <1>f, <1>3, NextFateFields
      <3> QED
        BY <3>1, <3>2, <3>3 DEF Live
    <2> QED
      BY <2>1 DEF Records
  <1>11. new \in SUBSET Records
    BY DEF Records
  <1>12. KeptNow' = KeptNow \cup new
    BY <1>5, <1>10, <1>11 DEF KeptNow, Live
  <1>13. PICK next : call' = [call EXCEPT ![k] = next] /\ next.phase = "enqueue"
    <2> DEFINE next == [call[k] EXCEPT !.phase = "enqueue", !.answer = NoAnswer,
                                       !.access = "NONE", !.known = {}, !.missed = {}]
    <2>1. call' = [call EXCEPT ![k] = next]
      BY DEF CommitOutcome
    <2>2. next.phase = "enqueue"
      BY <1>0, CallType DEF CallStates
    <2> HIDE DEF next
    <2> QED
      BY <2>1, <2>2
  <1>14. Locked(k) /\ UNCHANGED <<words, theirs>>
    BY DEF CommitOutcome, Locked
  <1> HIDE DEF new
  <1>15. /\ \A r \in new : words[r] \notin SeenTexts(k)
         /\ \A q, r \in new : words[q] = words[r] => q = r
    BY <1>5, <1>10, <1>11
  <1>16. Promise!Write(new)
    <2>1. next.phase \notin {"locked", "resolving"}
      BY <1>13
    <2> QED
      BY <1>11, <1>12, <1>13, <1>14, <1>15, <2>1, WriteSteps
  <1>17. Promise!Read(s)
    BY <1>7, <1>8, <1>9, <1>16 DEF Promise!Read, Promise!Fates, FateNow, new
  <1> QED
    BY <1>17 DEF PromiseStep, Promise!Next

\* A resolution settles an open candidate.
LEMMA ResolveKeepsPromise ==
    ASSUME IInv, IInv', NEW k \in Calls, CommitResolution(k)
    PROVE  PromiseStep
  <1>0. TypeOK
    BY DEF IInv
  <1>1. PICK s \in Sources, c \in Candidates, outcome \in Applied \cup {"reconciled"} :
          /\ s = Source(k) /\ run[s].pending[c] \in Reconcilable
          /\ Resolves(s, c, outcome)
          /\ record' = [record EXCEPT ![<<s, c>>] = RecordFor(outcome)]
          /\ outcome \in Written => Text[c] \notin SeenTexts(k)
          /\ Locked(k) /\ call[k].missed \subseteq theirs /\ Finish(k)
          /\ UNCHANGED <<provider, access, words, theirs, tools, commits>>
    BY ResolutionEffect
  <1>2. /\ run[s].status \in Done
        /\ run[s].result.outcomes[c] = "pending_reconciliation"
        /\ record[<<s, c>>] = "none"
    <2>1. run[s].result.outcomes[c] = "pending_reconciliation"
      BY <1>1 DEF IInv, RowsAgree, PendingAgrees
    <2>2. run[s].status \in Done
      BY <1>1 DEF IInv, RowsAgree, Accounted, Reconcilable
    <2> QED
      BY <2>1, <2>2 DEF IInv, RowsAgree, Accounted, Written
  <1>3. PICK result \in Results, row \in Runs :
          /\ message' = [message EXCEPT ![s] = result]
          /\ run' = [run EXCEPT ![s] = row]
          /\ row.status = run[s].status /\ row.claim = run[s].claim
          /\ row.lease = run[s].lease /\ row.result = result
          /\ row.pending = [run[s].pending EXCEPT ![c] = "absent"]
          /\ result.outcomes = [run[s].result.outcomes EXCEPT ![c] = outcome]
    BY <1>0, <1>1, ResolvedRow
  <1>4. run'[s] = row /\ \A q \in Sources \ {s} : run'[q] = run[q]
    BY <1>0, <1>3 DEF TypeOK
  <1>5. /\ <<s, c>> \in Records
        /\ record'[<<s, c>>] = RecordFor(outcome)
        /\ \A r \in Records : r # <<s, c>> => record'[r] = record[r]
        /\ \A q \in Sources, d \in Candidates :
              q # s \/ d # c => record'[<<q, d>>] = record[<<q, d>>]
    BY <1>0, <1>1 DEF TypeOK, Records
  <1> DEFINE fate == IF outcome \in Written THEN "kept" ELSE "dropped"
             new == IF outcome \in Written THEN {<<s, c>>} ELSE {}
  <1>6. Fate(s, c)' = fate
    <2>1. run'[s].status \in Done /\ run'[s].result.outcomes[c] = outcome
      BY <1>0, <1>2, <1>3, <1>4, RunType
    <2>2. outcome # "pending_reconciliation"
      BY DEF Applied, Written
    <2>3. record'[<<s, c>>] # "refused"
      BY <1>5, RecordFields
    <2> QED
      BY <2>1, <2>2, <2>3 DEF Fate
  <1>7. \A d \in Candidates : d # c => Fate(s, d)' = Fate(s, d)
    <2>1. \A d \in Candidates : d # c =>
             row.result.outcomes[d] = run[s].result.outcomes[d]
      BY <1>0, <1>3, RunType
    <2>2. \A d \in Candidates : d # c =>
             /\ run'[s].status = run[s].status
             /\ run'[s].result.outcomes[d] = run[s].result.outcomes[d]
             /\ record'[<<s, d>>] = record[<<s, d>>]
      BY <1>3, <1>4, <1>5, <2>1
    <2> QED
      BY <2>2 DEF Fate
  <1> HIDE DEF fate
  <1>8. FateNow' = [FateNow EXCEPT ![s][c] = fate]
    <2>1. FateNow' = [FateNow EXCEPT ![s] = [d \in Candidates |-> Fate(s, d)']]
      BY <1>4, <1>5, FateMoves
    <2>2. [d \in Candidates |-> Fate(s, d)'] = [FateNow[s] EXCEPT ![c] = fate]
      BY <1>6, <1>7 DEF FateNow
    <2> QED
      BY <2>1, <2>2 DEF FateNow
  <1>9. FateNow[s][c] = "open"
    BY <1>2, FateFields DEF FateNow
  <1>10. KeptNow' = KeptNow \cup new /\ new \in SUBSET Records
    <2>1. Live(<<s, c>>)' <=> outcome \in Written
      BY <1>5, RecordFields DEF Live
    <2>2. ~ Live(<<s, c>>) /\ \A r \in Records : r # <<s, c>> => (Live(r)' <=> Live(r))
      BY <1>2, <1>5 DEF Live
    <2> QED
      BY <1>5, <2>1, <2>2 DEF KeptNow
  <1>11. \A r \in new : words[r] \notin SeenTexts(k)
    BY <1>1, <1>2, <1>5 DEF IInv, RowsAgree, WordsAgree
  <1>12. Promise!Write(new)
    <2>1. /\ call' = [call EXCEPT ![k] = IdleCall]
          /\ IdleCall.phase \notin {"locked", "resolving"}
      BY <1>1, Finished
    <2>2. \A q, r \in new : words[q] = words[r] => q = r
      OBVIOUS
    <2> HIDE DEF new
    <2> QED
      BY <1>1, <1>10, <1>11, <2>1, <2>2, WriteSteps
  <1>13. CASE outcome \in Written
    <2>1. fate = "kept" /\ new = {<<s, c>>}
      BY <1>13 DEF fate
    <2>2. Promise!KeepOpen(s, c)
      BY <1>8, <1>9, <1>12, <2>1 DEF Promise!KeepOpen, FateNow
    <2> QED
      BY <2>2 DEF PromiseStep, Promise!Next
  <1>14. CASE outcome \notin Written
    <2>1. fate = "dropped" /\ new = {}
      BY <1>14 DEF fate
    <2>2. Promise!DropOpen(s, c)
      BY <1>8, <1>9, <1>12, <2>1 DEF Promise!DropOpen, FateNow
    <2> QED
      BY <2>2 DEF PromiseStep, Promise!Next
  <1> QED
    BY <1>13, <1>14

\* The steps of a call that write no record.
LEMMA CallKeepsPromise ==
    ASSUME IInv, IInv', NEW k \in Calls,
           \/ Advance(k) /\ ~ CommitOutcome(k)
           \/ Crash(k) \/ CompletionFails(k)
           \/ \E s \in Sources : Process(k, s) \/ Retry(k, s) \/ Reprocess(k, s)
           \/ \E s \in Sources : BeginCompletion(k, s)
           \/ \E c \in Candidates, outcome \in Outcomes : LockResolution(k, c, outcome),
           Quiet
    PROVE  PromiseStep
  <1>0. TypeOK /\ (~ Locked(k) => call[k].missed = {})
    BY DEF IInv, CallsInOrder
  <1>1. UNCHANGED <<FateNow, KeptNow, words, theirs>>
    <2>1. UNCHANGED recordVars
      BY DEF Advance, Crash, CompletionFails, Process, Retry, Reprocess, BeginCompletion,
         LockResolution, Upsert, Claim, Ask, Block, Break, Answer, LockOutcome, Enqueue,
         PersistFailure
    <2> QED
      BY <1>0, <2>1, QuietPromise
  <1>2. ASSUME Finish(k) PROVE PromiseStep
    BY <1>1, <1>2, Finished, LookSteps
  <1>3. ASSUME NEW verdict \in {"FAILED", "SKIPPED"}, Throw(k, verdict)
        PROVE  PromiseStep
    <2>1. PICK new \in CallStates :
             /\ call' = [call EXCEPT ![k] = new]
             /\ new.phase = "failing" /\ new.source = Source(k) /\ new.missed = {}
      BY <1>0, <1>3, Threw
    <2> QED
      BY <1>1, <2>1, LookSteps
  <1>4. ASSUME NEW new, call' = [call EXCEPT ![k] = new], new.missed = call[k].missed,
               ~ Locked(k)
        PROVE  PromiseStep
    BY <1>0, <1>1, <1>4, LookSteps
  <1>5. ASSUME NEW phase \in Phases, Go(k, phase), ~ Locked(k)
        PROVE  PromiseStep
    <2>1. PICK new \in CallStates :
             /\ call' = [call EXCEPT ![k] = new]
             /\ new.phase = phase /\ new.source = Source(k)
             /\ new.missed = call[k].missed
      BY <1>0, <1>5, Went
    <2> QED
      BY <1>4, <1>5, <2>1
  <1>6. ASSUME NEW s \in Sources, Begin(k, s) PROVE PromiseStep
    <2>1. PICK new \in CallStates :
             /\ call' = [call EXCEPT ![k] = new]
             /\ new.phase = "upsert" /\ new.source = s /\ new.missed = {}
      BY <1>0, <1>6, Began
    <2> QED
      BY <1>1, <2>1, LookSteps
  <1>7. CASE Upsert(k)
    <2> DEFINE new == [call[k] EXCEPT !.phase = "claim",
                          !.configuration = run'[Source(k)].configuration]
    <2>1. Source(k) \in Sources
      BY <1>7 DEF Upsert, IInv, CallsInOrder
    <2>2. Finish(k) \/ call' = [call EXCEPT ![k] = new]
      BY <1>0, <1>7, <2>1 DEF Upsert, TypeOK
    <2>3. new.missed = call[k].missed
      BY <1>0, CallType DEF CallStates
    <2>4. ~ Locked(k)
      BY <1>7 DEF Upsert, Locked
    <2> HIDE DEF new
    <2> QED
      BY <1>2, <1>4, <2>2, <2>3, <2>4
  <1>8. CASE Claim(k) \/ Ask(k) \/ Block(k) \/ Break(k)
    BY <1>2, <1>3, <1>5, <1>8 DEF Claim, Ask, Block, Break, Phases, Locked
  <1>9. ASSUME NEW answer \in Answers, Answer(k, answer) PROVE PromiseStep
    <2> DEFINE new == [call[k] EXCEPT !.phase = "commit", !.answer = answer]
    <2>1. call' = [call EXCEPT ![k] = new] /\ ~ Locked(k)
      BY <1>9 DEF Answer, Locked
    <2>2. new.missed = call[k].missed
      BY <1>0, CallType DEF CallStates
    <2> HIDE DEF new
    <2> QED
      BY <1>4, <2>1, <2>2
  <1>10. CASE LockOutcome(k)
    <2> DEFINE new == [call[k] EXCEPT !.phase = "locked", !.access = access,
                                      !.known = KnownTexts]
    <2>1. \/ Throw(k, "FAILED") \/ Throw(k, "SKIPPED")
          \/ call' = [call EXCEPT ![k] = new]
      BY <1>10 DEF LockOutcome
    <2>2. new.missed = call[k].missed
      BY <1>0, CallType DEF CallStates
    <2>3. ~ Locked(k)
      BY <1>10 DEF LockOutcome, Locked
    <2> HIDE DEF new
    <2> QED
      BY <1>3, <1>4, <2>1, <2>2, <2>3
  <1>11. CASE Enqueue(k) \/ Crash(k) \/ CompletionFails(k) \/ PersistFailure(k)
    BY <1>2, <1>3, <1>11 DEF Enqueue, Crash, CompletionFails, PersistFailure
  <1>12. CASE \E s \in Sources : Process(k, s) \/ Retry(k, s) \/ Reprocess(k, s)
    BY <1>6, <1>12 DEF Process, Retry, Reprocess
  <1>13. ASSUME NEW s \in Sources, BeginCompletion(k, s) PROVE PromiseStep
    <2> DEFINE new == [IdleCall EXCEPT !.phase = "resolve", !.source = s,
                                       !.configuration = run[s].configuration]
    <2>1. call' = [call EXCEPT ![k] = new] /\ ~ Locked(k)
      BY <1>13 DEF BeginCompletion, Locked
    <2>2. new.missed = {}
      BY DEF IdleCall
    <2> HIDE DEF new
    <2> QED
      BY <1>0, <1>4, <2>1, <2>2
  <1>14. ASSUME NEW c \in Candidates, NEW outcome \in Outcomes,
                LockResolution(k, c, outcome)
         PROVE  PromiseStep
    <2> DEFINE new == [call[k] EXCEPT !.phase = "resolving", !.candidate = c,
                                      !.outcome = outcome]
    <2>1. call' = [call EXCEPT ![k] = new] /\ ~ Locked(k)
      BY <1>14 DEF LockResolution, Locked
    <2>2. new.missed = call[k].missed
      BY <1>0, CallType DEF CallStates
    <2> HIDE DEF new
    <2> QED
      BY <1>4, <2>1, <2>2
  <1> QED
    BY <1>7, <1>8, <1>9, <1>10, <1>11, <1>12, <1>13, <1>14 DEF Advance

\* A step that changes neither the calls nor the fates nor the records.
LEMMA StillPromise ==
    ASSUME TypeOK, Quiet, UNCHANGED <<call, recordVars>>
    PROVE  PromiseStep
  <1>1. UNCHANGED <<FateNow, KeptNow>>
    BY QuietPromise
  <1>2. UNCHANGED <<OwnerLocked, MissedNow>>
    BY DEF OwnerLocked, Locked, MissedNow
  <1> QED
    BY <1>1, <1>2 DEF PromiseStep

\* A suggestion that is approved stays a record, one that is rejected is refused.
LEMMA ReviewKeepsPromise ==
    ASSUME IInv, NEW s \in Sources, NEW c \in Candidates, NEW state \in {"memory", "refused"},
           ReviewSuggestion(<<s, c>>, state)
    PROVE  PromiseStep
  <1>0. TypeOK /\ <<s, c>> \in Records
    BY DEF IInv, Records
  <1>1. /\ record[<<s, c>>] = "queued" /\ record'[<<s, c>>] = state
        /\ \A r \in Records : r # <<s, c>> => record'[r] = record[r]
        /\ UNCHANGED <<run, words, theirs, call>>
    BY <1>0 DEF ReviewSuggestion, TypeOK
  <1>2. /\ run[s].status \in Done /\ run[s].result.outcomes[c] \in Written
        /\ FateNow[s][c] = "kept"
    BY <1>1, RecordIsKept
  <1>3. UNCHANGED <<OwnerLocked, MissedNow>>
    BY <1>1 DEF OwnerLocked, Locked, MissedNow
  <1>4. \A q \in Sources, d \in Candidates : q # s \/ d # c =>
           record'[<<q, d>>] = record[<<q, d>>]
    BY <1>1 DEF Records
  <1>5. \A q \in Sources, d \in Candidates : q # s \/ d # c => Fate(q, d)' = Fate(q, d)
    BY <1>1, <1>4 DEF Fate
  <1>6. CASE state = "memory"
    <2>1. UNCHANGED KeptNow
      BY <1>1, <1>6 DEF KeptNow, Live
    <2>2. Fate(s, c)' = Fate(s, c)
      BY <1>1, <1>6 DEF Fate
    <2>3. UNCHANGED FateNow
      BY <1>5, <2>2 DEF FateNow
    <2> QED
      BY <1>1, <1>3, <2>1, <2>3 DEF PromiseStep
  <1>7. CASE state = "refused"
    <2>1. KeptNow' = KeptNow \ {<<s, c>>} /\ <<s, c>> \in KeptNow
      BY <1>0, <1>1, <1>7 DEF KeptNow, Live
    <2>2. Fate(s, c)' = "dropped"
      BY <1>1, <1>2, <1>7 DEF Fate, Written
    <2>3. FateNow' = [FateNow EXCEPT ![s] = [d \in Candidates |-> Fate(s, d)']]
      BY <1>1, <1>4, FateMoves
    <2>4. [d \in Candidates |-> Fate(s, d)'] = [FateNow[s] EXCEPT ![c] = "dropped"]
      BY <1>5, <2>2 DEF FateNow
    <2>5. FateNow' = [FateNow EXCEPT ![s][c] = "dropped"]
      BY <2>3, <2>4 DEF FateNow
    <2>6. Promise!Refuse(s, c)
      BY <1>1, <1>2, <1>3, <2>1, <2>5 DEF Promise!Refuse, FateNow, KeptNow, MissedNow
    <2> QED
      BY <2>6 DEF PromiseStep, Promise!Next
  <1> QED
    BY <1>6, <1>7

\* Whatever the owner does to a memory, it says what they last wrote, and is back
\* among the records by their hand only.
LEMMA UpdateKeepsPromise ==
    ASSUME IInv, IInv', NEW s \in Sources, NEW c \in Candidates,
           NEW state \in {"memory", "gone"}, NEW said \in Words,
           UpdateMemory(<<s, c>>, state, said)
    PROVE  PromiseStep
  <1>0. TypeOK /\ <<s, c>> \in Records /\ CallsInOrder /\ CallsInOrder'
    BY DEF IInv, Records
  <1>1. /\ record[<<s, c>>] \in {"memory", "gone"} /\ record'[<<s, c>>] = state
        /\ \A r \in Records : r # <<s, c>> => record'[r] = record[r]
        /\ words' = [words EXCEPT ![<<s, c>>] = said]
        /\ UNCHANGED run
    BY <1>0 DEF UpdateMemory, TypeOK
  <1>2. FateNow[s][c] = "kept"
    BY <1>1, RecordIsKept
  <1>3. UNCHANGED FateNow
    <2>1. \A q \in Sources, d \in Candidates :
             record'[<<q, d>>] = "refused" <=> record[<<q, d>>] = "refused"
      BY <1>1 DEF Records
    <2>2. \A q \in Sources, d \in Candidates : Fate(q, d)' = Fate(q, d)
      BY <1>1, <2>1 DEF Fate
    <2> QED
      BY <2>2 DEF FateNow
  <1>4. CASE state = "gone"
    <2>1. KeptNow' = KeptNow \ {<<s, c>>}
      BY <1>0, <1>1, <1>4 DEF KeptNow, Live
    <2>2. UNCHANGED <<theirs, call>>
      BY <1>4 DEF UpdateMemory
    <2>3. UNCHANGED <<OwnerLocked, MissedNow>>
      BY <2>2 DEF OwnerLocked, Locked, MissedNow
    <2>4. Promise!Remove(s, c, said)
      BY <1>1, <1>2, <1>3, <2>1, <2>2, <2>3
         DEF Promise!Remove, FateNow, KeptNow, MissedNow
    <2> QED
      BY <2>4 DEF PromiseStep, Promise!Next
  <1>5. CASE state = "memory"
    <2>1. KeptNow' = KeptNow \cup {<<s, c>>}
      BY <1>0, <1>1, <1>5 DEF KeptNow, Live
    <2>2. /\ theirs' = theirs \cup {<<s, c>>}
          /\ call' = [k \in Calls |-> IF Locked(k)
                        THEN [call[k] EXCEPT !.missed = @ \cup {<<s, c>>}] ELSE call[k]]
      BY <1>5 DEF UpdateMemory
    <2>3. \A k \in Calls :
             /\ Locked(k)' <=> Locked(k)
             /\ Locked(k) => call'[k].missed = call[k].missed \cup {<<s, c>>}
      <3> SUFFICES ASSUME NEW k \in Calls
                   PROVE  /\ Locked(k)' <=> Locked(k)
                          /\ Locked(k) => call'[k].missed = call[k].missed \cup {<<s, c>>}
        OBVIOUS
      <3> DEFINE new == [call[k] EXCEPT !.missed = @ \cup {<<s, c>>}]
      <3>1. call'[k] = IF Locked(k) THEN new ELSE call[k]
        BY <2>2
      <3>2. new.phase = call[k].phase /\ new.missed = call[k].missed \cup {<<s, c>>}
        BY <1>0, CallType DEF CallStates
      <3> HIDE DEF new
      <3> QED
        BY <3>1, <3>2 DEF Locked
    <2>4. OwnerLocked' <=> OwnerLocked
      BY <2>3 DEF OwnerLocked
    <2>5. MissedNow' = IF OwnerLocked THEN MissedNow \cup {<<s, c>>} ELSE MissedNow
      <3>1. CASE OwnerLocked
        <4>1. PICK k \in Calls : Locked(k)
          BY <3>1 DEF OwnerLocked
        <4>2. MissedNow = call[k].missed
          BY <1>0, <4>1, LooksNow
        <4>3. MissedNow' = call'[k].missed
          BY <1>0, <2>3, <4>1, LooksNext
        <4> QED
          BY <2>3, <3>1, <4>1, <4>2, <4>3
      <3>2. CASE ~ OwnerLocked
        BY <1>0, <2>4, <3>2, LooksNow, LooksNext
      <3> QED
        BY <3>1, <3>2
    <2>6. UNCHANGED OwnerLocked
      BY <2>4
    <2>7. Promise!Change(s, c, said)
      BY <1>1, <1>2, <1>3, <2>1, <2>2, <2>5, <2>6
         DEF Promise!Change, FateNow, KeptNow, MissedNow
    <2> QED
      BY <2>7 DEF PromiseStep, Promise!Next
  <1> QED
    BY <1>4, <1>5

LEMMA OwnerKeepsPromise ==
    ASSUME IInv, IInv', Owner
    PROVE  PromiseStep
  <1>1. ASSUME NEW r \in Records PROVE \E s \in Sources, c \in Candidates : r = <<s, c>>
    BY DEF Records
  <1>2. ASSUME NEW r \in Records, NEW state \in {"memory", "refused"},
               ReviewSuggestion(r, state)
        PROVE  PromiseStep
    BY <1>1, <1>2, ReviewKeepsPromise
  <1>3. ASSUME NEW r \in Records, NEW state \in {"memory", "gone"}, NEW said \in Words,
               UpdateMemory(r, state, said)
        PROVE  PromiseStep
    BY <1>1, <1>3, UpdateKeepsPromise
  <1>4. CASE \/ \E system \in Systems : SetProvider(system)
             \/ \E allowed \in AccessInputs : SetAccess(allowed)
    <2>1. UNCHANGED <<run, recordVars, call>>
      BY <1>4 DEF SetProvider, SetAccess
    <2> QED
      BY <2>1, StillPromise DEF IInv, Quiet
  <1> QED
    BY <1>2, <1>3, <1>4 DEF Owner

LEMMA StewardKeepsPromise ==
    ASSUME IInv, IInv', Steward
    PROVE  PromiseStep
  <1>1. ASSUME NEW k \in Calls, CommitResolution(k)
        PROVE  PromiseStep
    BY <1>1, ResolveKeepsPromise
  <1>2. ASSUME NEW k \in Calls, CompletionFails(k)
        PROVE  PromiseStep
    BY <1>2, CallKeepsPromise DEF CompletionFails, Quiet
  <1>3. ASSUME NEW k \in Calls, NEW s \in Sources, BeginCompletion(k, s)
        PROVE  PromiseStep
    BY <1>3, CallKeepsPromise DEF BeginCompletion, Quiet
  <1>4. ASSUME NEW k \in Calls, NEW c \in Candidates, NEW related \in SUBSET Records,
               CompleteCreate(k, c, related) \/ CompleteHandled(k, c, related)
        PROVE  PromiseStep
    <2>1. PICK outcome \in Applied \cup {"reconciled"} : LockResolution(k, c, outcome)
      BY <1>4, CompletionStep
    <2>2. outcome \in Outcomes /\ UNCHANGED run
      BY <2>1 DEF Outcomes, LockResolution
    <2> QED
      BY <2>1, <2>2, CallKeepsPromise DEF Quiet
  <1>5. CASE \E s \in Sources :
                \/ \E search \in Searches, found \in SUBSET Records :
                      RecordSearch(s, search, found)
                \/ \E r \in Records : RecordMutation(s, r)
    <2>1. UNCHANGED <<run, recordVars, call>>
      BY <1>5 DEF RecordSearch, RecordMutation
    <2> QED
      BY <2>1, StillPromise DEF IInv, Quiet
  <1>6. \A related : related \in SUBSET {r \in Records : Live(r)} =>
           related \in SUBSET Records
    OBVIOUS
  <1> QED
    BY <1>1, <1>2, <1>3, <1>4, <1>5, <1>6 DEF Steward

LEMMA NextKeepsPromise ==
    ASSUME IInv, IInv', [Next]_vars
    PROVE  PromiseStep
  <1>1. ASSUME NEW k \in Calls, Advance(k) \/ Crash(k)
        PROVE  PromiseStep
    <2>1. CASE CommitOutcome(k)
      BY <2>1, CommitKeepsPromise
    <2>2. CASE ~ CommitOutcome(k)
      BY <1>1, <2>2, CallsAreQuiet, CallKeepsPromise
    <2> QED
      BY <2>1, <2>2
  <1>2. ASSUME NEW k \in Calls, NEW s \in Sources,
               Process(k, s) \/ Retry(k, s) \/ Reprocess(k, s)
        PROVE  PromiseStep
    BY <1>2, RunsAreQuiet, CallKeepsPromise
  <1>3. ASSUME NEW s \in Sources, LapseLease(s) \/ Upgrade(s)
        PROVE  PromiseStep
    <2>1. UNCHANGED <<call, recordVars>>
      BY <1>3 DEF LapseLease, Upgrade
    <2> QED
      BY <1>3, <2>1, RunsAreQuiet, StillPromise DEF IInv
  <1>4. CASE UNCHANGED vars
    BY <1>4, StillPromise DEF vars, Quiet, IInv
  <1> QED
    BY <1>1, <1>2, <1>3, <1>4, StewardKeepsPromise, OwnerKeepsPromise DEF Next

LEMMA InitKeepsPromise == Init => Promise!Init
  <1> SUFFICES ASSUME Init PROVE Promise!Init
    OBVIOUS
  <1>1. \A s \in Sources, c \in Candidates : Fate(s, c) = "unread"
    BY FateFields DEF Init, NoRun, Done
  <1>2. \A r \in Records : ~ Live(r)
    BY DEF Init, Live
  <1>3. \A k \in Calls : ~ Locked(k) /\ call[k].missed = {}
    BY IdleFields DEF Init, Locked
  <1>4. OwnerLocked = FALSE /\ UNION {call[k].missed : k \in Calls} = {}
    BY <1>3, MissedOfNone DEF OwnerLocked
  <1> QED
    BY <1>1, <1>2, <1>4 DEF Promise!Init, Init, Records

-----------------------------------------------------------------------------
(* The theorems *)

\* The variables keep their types.
THEOREM TypeCorrect == Spec => []TypeOK
  BY Invariance, PTL DEF IInv

\* A run has a claim and a lease exactly while it is being processed; nothing is
\* written for it before its outcome, and then every candidate is accounted for
\* once.
THEOREM CandidatesAreAccountedFor == Spec => []ClaimsAndCandidates
  <1>1. IInv => ClaimsAndCandidates
    BY DEF IInv, RowsAgree, ClaimsAndCandidates
  <1> QED
    BY <1>1, Invariance, PTL

\* However many calls and retries read a turn, one live record has its text, but for
\* the memories the owner made say it, and its message shows the result of its run.
THEOREM StoredOnce == Spec => []StoredOnceAndShown
  <1>1. IInv => StoredOnceAndShown
    BY DEF IInv, RowsAgree, StoredOnceAndShown
  <1> QED
    BY <1>1, Invariance, PTL

\* An outcome is committed by the call that holds the claim, under the provider the
\* owner uses, and a finished run is never processed again.
THEOREM OutcomesAreSettled == Spec => OutcomeIsSettled
  <1>1. ASSUME IInv, [Next]_vars, NEW s \in Sources, Commits(s)
        PROVE  \E k \in Calls :
                  /\ call[k].phase = "locked" /\ Source(k) = s
                  /\ run[s].claim = k
                  /\ call[k].configuration = provider
    BY <1>1, WhoCommits, CommitHolds
  <1>2. IInv /\ [Next]_vars =>
           [\A s \in Sources : Commits(s) =>
               \E k \in Calls :
                  /\ call[k].phase = "locked" /\ Source(k) = s
                  /\ run[s].claim = k
                  /\ call[k].configuration = provider]_vars
    BY <1>1
  <1>3. ASSUME IInv, [Next]_vars, NEW s \in Sources, run[s].status \in Done
        PROVE  /\ run'[s].status = run[s].status
               /\ ~ Commits(s)
               /\ \A c \in Candidates :
                     run[s].result.outcomes[c] # "pending_reconciliation" =>
                        run'[s].result.outcomes[c] = run[s].result.outcomes[c]
    <2>1. ~ Commits(s)
      BY <1>3, WhoCommits, CommitHolds DEF Done
    <2> QED
      BY <1>3, <2>1, FinishedStays DEF Keeps
  <1>4. IInv /\ [Next]_vars =>
           [\A s \in Sources : run[s].status \in Done =>
               /\ run'[s].status = run[s].status
               /\ ~ Commits(s)
               /\ \A c \in Candidates :
                     run[s].result.outcomes[c] # "pending_reconciliation" =>
                        run'[s].result.outcomes[c] = run[s].result.outcomes[c]]_vars
    BY <1>3
  <1> QED
    BY <1>2, <1>4, Invariance, PTL
       DEF Spec, OutcomeIsSettled, CommitIsCurrent, CompletedStays

\* Extraction, reconciliation, reviews and the owner's edits implement KeptOnce: a turn
\* is read once, each candidate meets one fate, no record is added next to one that is
\* seen to say the same, one that is removed returns by the owner's hand only, and one
\* that is refused never does.
THEOREM PromiseKept == Spec => KeepsPromise
  <1>1. IInv /\ IInv' /\ [Next]_vars =>
           [Promise!Next]_<<FateNow, KeptNow, words, theirs, OwnerLocked, MissedNow>>
    BY NextKeepsPromise DEF PromiseStep
  <1>2. IInv /\ IInv' /\ [Next]_vars =>
           [Promise!Next]_<<[s \in Sources |-> [c \in Candidates |-> Fate(s, c)]],
                            {r \in Records : Live(r)}, words, theirs, OwnerLocked,
                            UNION {call[k].missed : k \in Calls}>>
    BY <1>1 DEF FateNow, KeptNow, MissedNow
  <1> QED
    BY <1>2, InitKeepsPromise, Invariance, PTL
       DEF Spec, KeepsPromise, Promise!Spec, Promise!promiseVars
=============================================================================

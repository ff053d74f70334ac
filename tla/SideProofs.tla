----------------------------- MODULE SideProofs ------------------------------
(***************************************************************************)
(* What MCSide's run checks of the components that share no state, for      *)
(* every value of the constants.  Each component has an invariant of its    *)
(* own, that its initial states satisfy and its steps, and those of the     *)
(* others, preserve.                                                        *)
(***************************************************************************)
EXTENDS MCSide, FiniteSetTheorems, NaturalsInduction, SequenceTheorems,
        WellFoundedInduction, TLAPS

-----------------------------------------------------------------------------
(* Suggestions of the apps (AppSuggestions) *)

Grants == [id: 0 .. MaxVersions, version: Nat, terms: Terms]
Submitted ==
    [at: {"unsent", "sent", "write", "suggest", "decided", "done", "failed"},
     content: Contents \cup {None},
     decision: {"DENY", "NEEDS_CONFIRMATION", "ALLOW", None},
     read: Grants \cup {None}]

SuggestTypes ==
    /\ Suggest!SuggestTypeOK
    /\ permission \in Grants
    /\ submission \in [Submissions -> Submitted]
    /\ DOMAIN filed = Submissions

\* What a transaction that goes on to its insert was told of the permissions it
\* read, which were there.
MayWrite(s) ==
    /\ s.read.id # 0 /\ ~ s.read.terms.requiresConfirmation
    /\ Suggest!Covers(s.read, "WRITE", s.content)
MaySuggest(s) == s.read.id # 0 /\ Suggest!Covers(s.read, "SUGGEST", s.content)
SubmittedOK(s) ==
    /\ s.at = "write" => MayWrite(s)
    /\ s.at = "decided" /\ s.decision # "DENY" => MaySuggest(s)

SuggestInv ==
    /\ SuggestTypes
    /\ \A n \in Submissions : SubmittedOK(submission[n])
    /\ Suggest!FiledUnderItsPermissions

LEMMA SuggestInit == Suggest!SuggestInit => SuggestInv
  <1> SUFFICES ASSUME Suggest!SuggestInit PROVE SuggestInv
    OBVIOUS
  <1>1. permission \in Grants
    BY SuggestAssumption DEF Suggest!SuggestInit, Grants
  <1>2. Suggest!Start \in Submitted /\ Suggest!Start.at = "unsent"
    BY DEF Suggest!Start, Submitted
  <1>3. SuggestTypes
    BY <1>1, <1>2, SuggestAssumption
       DEF Suggest!SuggestInit, SuggestTypes, Suggest!SuggestTypeOK, Grants
  <1> QED
    BY <1>2, <1>3
       DEF Suggest!SuggestInit, SuggestInv, SubmittedOK, Suggest!FiledUnderItsPermissions

\* One submission moves on; what is in the vault is as it was.
LEMMA SubmissionSet ==
    ASSUME SuggestInv, NEW n \in Submissions, NEW s \in Submitted, SubmittedOK(s),
           submission' = [submission EXCEPT ![n] = s]
    PROVE  /\ submission' \in [Submissions -> Submitted]
           /\ \A m \in Submissions : SubmittedOK(submission'[m])
           /\ \A m \in Submissions : submission'[m].at \in
                {"unsent", "sent", "write", "suggest", "decided", "done", "failed"}
  <1>1. submission \in [Submissions -> Submitted]
    BY DEF SuggestInv, SuggestTypes
  <1>2. submission' \in [Submissions -> Submitted]
    BY <1>1
  <1>3. \A m \in Submissions : submission'[m] = IF m = n THEN s ELSE submission[m]
    BY <1>1
  <1>4. \A m \in Submissions : SubmittedOK(submission'[m])
    BY <1>3 DEF SuggestInv
  <1> QED
    BY <1>2, <1>4 DEF Submitted

LEMMA SubmissionStep ==
    ASSUME SuggestInv, NEW n \in Submissions, NEW s \in Submitted, SubmittedOK(s),
           submission' = [submission EXCEPT ![n] = s],
           UNCHANGED <<trust, permission, versions, filed, toEmbed>>
    PROVE  SuggestInv'
  BY SubmissionSet
     DEF SuggestInv, SuggestTypes, Suggest!SuggestTypeOK, Suggest!FiledUnderItsPermissions

LEMMA CreateSuggestionStep ==
    ASSUME SuggestInv, NEW n \in Submissions, NEW c \in Contents,
           Suggest!CreateSuggestion(n, c)
    PROVE  SuggestInv'
  <1>1. submission[n] \in Submitted
    BY DEF SuggestInv, SuggestTypes
  <1>2. PICK s : s = [submission[n] EXCEPT !.at = "sent", !.content = c]
    OBVIOUS
  <1>3. s \in Submitted /\ s.at = "sent"
    BY <1>1, <1>2 DEF Submitted
  <1>4. submission' = [submission EXCEPT ![n] = s]
    BY <1>2 DEF Suggest!CreateSuggestion, SuggestInv, SuggestTypes
  <1> QED
    BY <1>3, <1>4, SubmissionStep DEF SubmittedOK, Suggest!CreateSuggestion

\* What an evaluation that does not deny has seen.
LEMMA EvaluatedAllows ==
    ASSUME SuggestInv, NEW operation, NEW content, NEW d,
           d = Suggest!Evaluated(operation, content)
    PROVE  /\ d \in {"DENY", "NEEDS_CONFIRMATION", "ALLOW"}
           /\ d # "DENY" =>
                permission.id # 0 /\ Suggest!Covers(permission, operation, content)
           /\ d = "ALLOW" => ~ permission.terms.requiresConfirmation
  <1> DEFINE allowed == {c \in {content} : Suggest!Permitted(c, permission.terms, 1)}
  <1>1. CASE Suggest!GateDenies(trust, permission.id, permission.terms, operation, 1)
    BY <1>1 DEF Suggest!Evaluated
  <1>2. CASE ~ Suggest!GateDenies(trust, permission.id, permission.terms, operation, 1)
    <2>1. d = Suggest!Decision(permission.terms, allowed)
      BY <1>2 DEF Suggest!Evaluated
    <2>2. permission.id # 0 /\ operation \in permission.terms.operations
      BY <1>2 DEF Suggest!GateDenies, Suggest!Null
    <2>3. allowed # {} => Suggest!Permitted(content, permission.terms, 1)
      OBVIOUS
    <2> HIDE DEF allowed
    <2> QED
      BY <2>1, <2>2, <2>3 DEF Suggest!Decision, Suggest!Covers
  <1> QED
    BY <1>1, <1>2

LEMMA EvaluateStep ==
    ASSUME SuggestInv, NEW n \in Submissions, NEW at \in {"write", "suggest", "decided"},
           NEW operation, NEW d, d = Suggest!Evaluated(operation, submission[n].content),
           at = "write" => operation = "WRITE" /\ d = "ALLOW",
           at = "decided" => operation = "SUGGEST",
           Suggest!Step(n, at, d)
    PROVE  SuggestInv'
  <1>1. submission[n] \in Submitted /\ permission \in Grants
    BY DEF SuggestInv, SuggestTypes
  <1>2. PICK p \in Grants : p = permission
    BY <1>1
  <1>3. PICK s : s = [submission[n] EXCEPT !.at = at, !.decision = d, !.read = p]
    OBVIOUS
  <1>4. /\ d \in {"DENY", "NEEDS_CONFIRMATION", "ALLOW"}
        /\ d # "DENY" =>
              p.id # 0 /\ Suggest!Covers(p, operation, submission[n].content)
        /\ d = "ALLOW" => ~ p.terms.requiresConfirmation
    BY <1>2, EvaluatedAllows
  <1>5. /\ s \in Submitted /\ s.at = at /\ s.decision = d /\ s.read = p
        /\ s.content = submission[n].content
    BY <1>1, <1>2, <1>3, <1>4 DEF Submitted
  <1>6. submission' = [submission EXCEPT ![n] = s]
    BY <1>2, <1>3 DEF Suggest!Step, SuggestInv, SuggestTypes
  <1>7. SubmittedOK(s)
    BY <1>4, <1>5 DEF SubmittedOK, MayWrite, MaySuggest
  <1> QED
    BY <1>5, <1>6, <1>7, SubmissionStep DEF Suggest!Step

LEMMA EvaluateWriteStep ==
    ASSUME SuggestInv, NEW n \in Submissions, Suggest!EvaluateWrite(n)
    PROVE  SuggestInv'
  <1>1. PICK d : d = Suggest!Evaluated("WRITE", submission[n].content)
    OBVIOUS
  <1>2. PICK at \in {"write", "suggest"} : at = IF d = "ALLOW" THEN "write" ELSE "suggest"
    OBVIOUS
  <1>3. Suggest!Step(n, at, d)
    BY <1>1, <1>2 DEF Suggest!EvaluateWrite
  <1> QED
    BY <1>1, <1>2, <1>3, EvaluateStep

LEMMA EvaluateSuggestStep ==
    ASSUME SuggestInv, NEW n \in Submissions, Suggest!EvaluateSuggest(n)
    PROVE  SuggestInv'
  <1>1. PICK d : d = Suggest!Evaluated("SUGGEST", submission[n].content)
    OBVIOUS
  <1> QED
    BY <1>1, EvaluateStep DEF Suggest!EvaluateSuggest

\* What is filed, and under which permissions.
LEMMA FileStep ==
    ASSUME SuggestInv, NEW n \in Submissions, NEW kind, Suggest!File(n, kind),
           kind = "memory" => MayWrite(submission[n]),
           kind = "queued" => MaySuggest(submission[n])
    PROVE  SuggestInv'
  <1>1. submission[n] \in Submitted
    BY DEF SuggestInv, SuggestTypes
  <1>2. PICK s : s = [submission[n] EXCEPT !.at = "done"]
    OBVIOUS
  <1>3. s \in Submitted /\ s.at = "done"
    BY <1>1, <1>2 DEF Submitted
  <1>4. submission' = [submission EXCEPT ![n] = s]
    BY <1>2 DEF Suggest!File, SuggestInv, SuggestTypes
  <1>5. /\ submission' \in [Submissions -> Submitted]
        /\ \A m \in Submissions : SubmittedOK(submission'[m])
        /\ \A m \in Submissions : submission'[m].at \in
             {"unsent", "sent", "write", "suggest", "decided", "done", "failed"}
    BY <1>3, <1>4, SubmissionSet DEF SubmittedOK
  <1>6. PICK f : f = [kind |-> kind, content |-> submission[n].content,
                      under |-> submission[n].read]
    OBVIOUS
  <1>7. filed' = [filed EXCEPT ![n] = f]
    BY <1>6 DEF Suggest!File, Suggest!DecidedUnder
  <1>8. /\ DOMAIN filed' = Submissions
        /\ filed'[n] = f /\ \A m \in Submissions \ {n} : filed'[m] = filed[m]
    BY <1>7 DEF SuggestInv, SuggestTypes
  <1>9. Suggest!FiledUnderItsPermissions'
    <2>1. ASSUME NEW m \in Submissions, NEW g, g = filed'[m], g # None
          PROVE  /\ g.kind = "memory" =>
                      Suggest!Covers(g.under, "WRITE", g.content)
                        /\ ~ g.under.terms.requiresConfirmation
                 /\ g.kind = "queued" => Suggest!Covers(g.under, "SUGGEST", g.content)
      <3>1. CASE m = n
        BY <1>6, <1>8, <2>1, <3>1 DEF MayWrite, MaySuggest
      <3>2. CASE m # n
        BY <1>8, <2>1, <3>2 DEF SuggestInv, Suggest!FiledUnderItsPermissions
      <3> QED
        BY <3>1, <3>2
    <2> QED
      BY <2>1 DEF Suggest!FiledUnderItsPermissions, Suggest!Covers
  <1> QED
    BY <1>5, <1>8, <1>9
       DEF SuggestInv, SuggestTypes, Suggest!SuggestTypeOK, Suggest!File

LEMMA CreateDirectMemoryStep ==
    ASSUME SuggestInv, NEW n \in Submissions, Suggest!CreateDirectMemoryFromSuggestion(n)
    PROVE  SuggestInv'
  <1>1. MayWrite(submission[n])
    BY DEF SuggestInv, SubmittedOK, Suggest!CreateDirectMemoryFromSuggestion
  <1> QED
    BY <1>1, FileStep DEF Suggest!CreateDirectMemoryFromSuggestion

LEMMA CreateEvaluatedStep ==
    ASSUME SuggestInv, NEW n \in Submissions, Suggest!CreateEvaluatedSuggestion(n)
    PROVE  SuggestInv'
  <1>1. PICK kind \in {"denied", "queued"} :
           kind = IF submission[n].decision = "DENY" THEN "denied" ELSE "queued"
    OBVIOUS
  <1>2. kind = "queued" => MaySuggest(submission[n])
    BY <1>1 DEF SuggestInv, SubmittedOK, Suggest!CreateEvaluatedSuggestion
  <1>3. Suggest!File(n, kind)
    BY <1>1 DEF Suggest!CreateEvaluatedSuggestion
  <1> QED
    BY <1>1, <1>2, <1>3, FileStep

LEMMA RollBackStep ==
    ASSUME SuggestInv, NEW n \in Submissions, Suggest!RollBack(n)
    PROVE  SuggestInv'
  <1>1. submission[n] \in Submitted
    BY DEF SuggestInv, SuggestTypes
  <1>2. PICK s : s = [submission[n] EXCEPT !.at = "failed"]
    OBVIOUS
  <1>3. s \in Submitted /\ s.at = "failed"
    BY <1>1, <1>2 DEF Submitted
  <1>4. submission' = [submission EXCEPT ![n] = s]
    BY <1>2 DEF Suggest!RollBack, SuggestInv, SuggestTypes
  <1> QED
    BY <1>3, <1>4, SubmissionStep DEF SubmittedOK, Suggest!RollBack

\* The owner's steps leave what was submitted and what was filed.
LEMMA OwnerStep ==
    ASSUME SuggestInv, UNCHANGED <<submission, filed>>, permission' \in Grants,
           trust' \in {"APPROVED", "BLOCKED", "ABSENT"}, versions' \in 1 .. MaxVersions,
           toEmbed' \subseteq Submissions
    PROVE  SuggestInv'
  BY DEF SuggestInv, SuggestTypes, Suggest!SuggestTypeOK, Grants,
         Suggest!FiledUnderItsPermissions

LEMMA OwnersStep ==
    ASSUME SuggestInv,
           \/ \E n \in Submissions : Suggest!EnqueueEmbeddingGeneration(n)
           \/ \E t \in Terms : Suggest!SavePermissions(t)
           \/ Suggest!RemovePermissions
           \/ \E level \in {"APPROVED", "BLOCKED", "ABSENT"} : Suggest!SetTrust(level)
    PROVE  SuggestInv'
  <1>1. /\ permission \in Grants /\ trust \in {"APPROVED", "BLOCKED", "ABSENT"}
        /\ versions \in 1 .. MaxVersions /\ toEmbed \subseteq Submissions
    BY DEF SuggestInv, SuggestTypes, Suggest!SuggestTypeOK
  <1>2. [permission EXCEPT !.id = 0] \in Grants
    BY <1>1, SuggestAssumption DEF Grants
  <1>3. CASE \E n \in Submissions : Suggest!EnqueueEmbeddingGeneration(n)
    BY <1>1, <1>3, OwnerStep DEF Suggest!EnqueueEmbeddingGeneration
  <1>4. ASSUME NEW t \in Terms, Suggest!SavePermissions(t) PROVE SuggestInv'
    <2>1. PICK v : v = versions + 1
      OBVIOUS
    <2>2. v \in 1 .. MaxVersions
      BY <1>1, <1>4, <2>1, SuggestAssumption DEF Suggest!SavePermissions
    <2>3. PICK i : i = IF permission.id = 0 THEN v ELSE permission.id
      OBVIOUS
    <2>4. i \in 0 .. MaxVersions
      BY <1>1, <2>2, <2>3, SuggestAssumption DEF Grants
    <2>5. PICK p : p = [id |-> i, version |-> v, terms |-> t]
      OBVIOUS
    <2>6. p \in Grants
      BY <2>2, <2>4, <2>5, SuggestAssumption DEF Grants
    <2>7. permission' = p /\ versions' = v
      BY <1>4, <2>1, <2>3, <2>5 DEF Suggest!SavePermissions, Suggest!Null
    <2> QED
      BY <1>1, <1>4, <2>2, <2>6, <2>7, OwnerStep DEF Suggest!SavePermissions
  <1>5. CASE Suggest!RemovePermissions
    BY <1>1, <1>2, <1>5, OwnerStep DEF Suggest!RemovePermissions, Suggest!Null
  <1>6. CASE \E level \in {"APPROVED", "BLOCKED", "ABSENT"} : Suggest!SetTrust(level)
    BY <1>1, <1>2, <1>6, OwnerStep DEF Suggest!SetTrust, Suggest!Null
  <1> QED
    BY <1>3, <1>4, <1>5, <1>6

LEMMA SuggestStep ==
    ASSUME SuggestInv, Suggest!SuggestNext
    PROVE  SuggestInv'
  BY CreateSuggestionStep, EvaluateWriteStep, EvaluateSuggestStep, CreateDirectMemoryStep,
     CreateEvaluatedStep, RollBackStep, OwnersStep DEF Suggest!SuggestNext

LEMMA SuggestStutter ==
    ASSUME SuggestInv, UNCHANGED suggestVars
    PROVE  SuggestInv'
  BY DEF SuggestInv, suggestVars, SuggestTypes, Suggest!SuggestTypeOK,
         Suggest!FiledUnderItsPermissions

\* What a step may not add.
LEMMA SuggestSteps ==
    ASSUME SuggestInv, Suggest!SuggestNext
    PROVE  Suggest!RemovedAppAddsNothing
  <1> SUFFICES ASSUME NEW n \in Submissions, filed'[n] # filed[n],
                      filed'[n].kind \in {"memory", "queued"}
               PROVE  trust # "ABSENT" /\ permission.id = submission[n].read.id
    BY DEF Suggest!RemovedAppAddsNothing
  <1>1. ASSUME NEW m \in Submissions, NEW kind, Suggest!File(m, kind)
        PROVE  /\ m = n /\ filed'[n].kind = kind
               /\ kind # "denied" =>
                    trust # "ABSENT"
                      /\ (submission[n].read.id # 0 =>
                            permission.id = submission[n].read.id)
    <2>1. m = n
      BY <1>1 DEF Suggest!File, SuggestInv, SuggestTypes
    <2>2. filed'[n].kind = kind
      BY <1>1, <2>1 DEF Suggest!File, SuggestInv, SuggestTypes
    <2> QED
      BY <1>1, <2>1, <2>2 DEF Suggest!File, Suggest!Referenced, Suggest!Null
  <1>2. ASSUME NEW m \in Submissions, Suggest!CreateDirectMemoryFromSuggestion(m)
        PROVE  trust # "ABSENT" /\ permission.id = submission[n].read.id
    <2>1. submission[m].read.id # 0
      BY <1>2 DEF SuggestInv, SubmittedOK, MayWrite,
                  Suggest!CreateDirectMemoryFromSuggestion
    <2> QED
      BY <1>1, <1>2, <2>1 DEF Suggest!CreateDirectMemoryFromSuggestion
  <1>3. ASSUME NEW m \in Submissions, Suggest!CreateEvaluatedSuggestion(m)
        PROVE  trust # "ABSENT" /\ permission.id = submission[n].read.id
    <2>1. PICK kind \in {"denied", "queued"} :
             kind = IF submission[m].decision = "DENY" THEN "denied" ELSE "queued"
      OBVIOUS
    <2>2. Suggest!File(m, kind)
      BY <1>3, <2>1 DEF Suggest!CreateEvaluatedSuggestion
    <2>3. kind = "queued" => submission[m].read.id # 0
      BY <1>3, <2>1 DEF SuggestInv, SubmittedOK, MaySuggest,
                        Suggest!CreateEvaluatedSuggestion
    <2> QED
      BY <1>1, <2>1, <2>2, <2>3
  <1> QED
    BY <1>2, <1>3
       DEF Suggest!SuggestNext, Suggest!CreateSuggestion, Suggest!EvaluateWrite,
           Suggest!EvaluateSuggest, Suggest!Step, Suggest!RollBack,
           Suggest!EnqueueEmbeddingGeneration, Suggest!SavePermissions,
           Suggest!RemovePermissions, Suggest!SetTrust

LEMMA SuggestInvariance == Spec => [](part = "suggest" => SuggestInv)
  <1>1. Init => (part = "suggest" => SuggestInv)
    BY SuggestInit DEF Init
  <1>2. (part = "suggest" => SuggestInv) /\ [Next]_vars => (part = "suggest" => SuggestInv)'
    <2> SUFFICES ASSUME part = "suggest" => SuggestInv, [Next]_vars, part' = "suggest"
                 PROVE  SuggestInv'
      OBVIOUS
    <2>1. CASE part = "suggest" /\ Suggest!SuggestNext
      BY <2>1, SuggestStep
    <2>2. CASE part = "suggest" /\ UNCHANGED suggestVars
      BY <2>2, SuggestStutter
    <2> QED
      BY <2>1, <2>2 DEF Next, vars
  <1> QED
    BY <1>1, <1>2, PTL DEF Spec

-----------------------------------------------------------------------------
(* Tools of the steward (StewardTools) *)

\* What a call that changes something has changed, once it is executed.
ToolCallOK(c) ==
    /\ c.stage # "idle" => c.turn \in Turns /\ c.tool \in Steward!Tools
    /\ c.stage = "executed" /\ c.tool \in Steward!Mutations => c.items \subseteq touched[c.turn]
    /\ c.stage = "rejecting" => \E s \in Proposed : c.items = {s}

ReceiptsOK ==
    \A t \in Turns : \A e \in receipts[t] :
        e.tool \in Steward!Mutations => e.items \subseteq touched[t]

StewardInv ==
    /\ Steward!StewardTypeOK
    /\ ReceiptsOK
    /\ \A k \in ToolCalls : ToolCallOK(toolCall[k])

StewardCalls ==
    [stage: {"idle", "rejecting", "executed"}, turn: Turns \cup {None},
     tool: Steward!Tools \cup {None}, items: SUBSET Steward!Items]

LEMMA StewardTypes ==
    Steward!StewardTypeOK =>
        /\ toolCall \in [ToolCalls -> StewardCalls]
        /\ receipts \in [Turns -> SUBSET [tool: Steward!Tools, items: SUBSET Steward!Items]]
        /\ touched \in [Turns -> SUBSET Steward!Items]
  BY DEF Steward!StewardTypeOK, StewardCalls

LEMMA NoToolCallOK ==
    Steward!NoToolCall \in StewardCalls /\ Steward!NoToolCall.stage = "idle"
  BY DEF Steward!NoToolCall, StewardCalls

LEMMA StewardInit == Steward!StewardInit => StewardInv
  <1> SUFFICES ASSUME Steward!StewardInit PROVE StewardInv
    OBVIOUS
  <1>1. candidate \in [Turns -> [intent: {"correction", "retraction"}, about: Steward!Subject,
                                status: {"pending"} \cup Steward!Resolved]]
    <2>1. [intent: {"correction", "retraction"}, about: Steward!Subject,
           status: {"pending"}]
            \subseteq [intent: {"correction", "retraction"}, about: Steward!Subject,
                       status: {"pending"} \cup Steward!Resolved]
      OBVIOUS
    <2> QED
      BY <2>1 DEF Steward!StewardInit
  <1>2. toolCall \in [ToolCalls -> StewardCalls]
    BY NoToolCallOK DEF Steward!StewardInit
  <1>3. Steward!StewardTypeOK
    BY <1>1, <1>2 DEF Steward!StewardInit, Steward!StewardTypeOK, StewardCalls, Steward!Subject
  <1> QED
    BY <1>3, NoToolCallOK DEF Steward!StewardInit, StewardInv, ReceiptsOK, ToolCallOK

\* What was touched stays touched.
TouchedStays == \A t \in Turns : touched[t] \subseteq touched'[t]

LEMMA ReceiptsStay ==
    ASSUME StewardInv, TouchedStays, UNCHANGED receipts
    PROVE  ReceiptsOK'
  BY DEF StewardInv, ReceiptsOK, TouchedStays

LEMMA ToolCallStays ==
    ASSUME TouchedStays, NEW c, ToolCallOK(c)
    PROVE  ToolCallOK(c)'
  BY DEF ToolCallOK, TouchedStays, Steward!Mutations, Steward!Tools

\* One tool call is set.
LEMMA ToolCallSet ==
    ASSUME StewardInv, TouchedStays, NEW k \in ToolCalls, NEW c \in StewardCalls,
           toolCall' = [toolCall EXCEPT ![k] = c], ToolCallOK(c)'
    PROVE  /\ toolCall' \in [ToolCalls -> StewardCalls]
           /\ \A i \in ToolCalls : ToolCallOK(toolCall[i])'
  <1>1. toolCall \in [ToolCalls -> StewardCalls]
    BY StewardTypes DEF StewardInv
  <1>2. ASSUME NEW i \in ToolCalls PROVE ToolCallOK(toolCall[i])'
    <2>1. CASE i = k
      <3>1. toolCall'[i] = c
        BY <1>1, <2>1
      <3> QED
        BY <3>1 DEF ToolCallOK
    <2>2. CASE i # k
      <3>1. PICK d : d = toolCall[i]
        OBVIOUS
      <3>2. toolCall'[i] = d
        BY <1>1, <2>2, <3>1
      <3>3. ToolCallOK(d)'
        BY <3>1, ToolCallStays DEF StewardInv
      <3> QED
        BY <3>2, <3>3 DEF ToolCallOK
    <2> QED
      BY <2>1, <2>2
  <1> QED
    BY <1>1, <1>2

\* A call is executed at once: what it returns or changed is in it.
LEMMA ExecutedStep ==
    ASSUME StewardInv, NEW k \in ToolCalls, NEW t \in Turns, NEW tool \in Steward!Tools,
           NEW items \in SUBSET Steward!Items, Steward!Executed(k, t, tool, items),
           TouchedStays, tool \in Steward!Mutations => items \subseteq touched'[t],
           touched' \in [Turns -> SUBSET Steward!Items],
           kept' \in [Kept -> [status: {"ABSENT", "ACTIVE", "ARCHIVED", "DELETED"},
                               about: Steward!Subject]],
           UNCHANGED <<proposed, candidate, receipts>>
    PROVE  StewardInv'
  <1>1. PICK c : c = [stage |-> "executed", turn |-> t, tool |-> tool, items |-> items]
    OBVIOUS
  <1>2. c \in StewardCalls
    BY <1>1 DEF StewardCalls
  <1>3. toolCall' = [toolCall EXCEPT ![k] = c]
    BY <1>1 DEF Steward!Executed
  <1>4. ToolCallOK(c)'
    BY <1>1 DEF ToolCallOK, Steward!Mutations, Steward!Tools
  <1>5. /\ toolCall' \in [ToolCalls -> StewardCalls]
        /\ \A i \in ToolCalls : ToolCallOK(toolCall[i])'
    BY <1>2, <1>3, <1>4, ToolCallSet
  <1> QED
    BY <1>5, ReceiptsStay DEF StewardInv, Steward!StewardTypeOK, StewardCalls

LEMMA SearchStep ==
    ASSUME StewardInv, NEW k \in ToolCalls, NEW t \in Turns, NEW subject,
           \/ Steward!SearchMemories(k, t, subject)
           \/ Steward!ListQueuedSuggestions(k, t, subject)
    PROVE  StewardInv'
  <1>1. /\ Steward!Active \subseteq Steward!Items /\ Steward!Queued \subseteq Steward!Items
        /\ Steward!MemoriesAbout(subject) \subseteq Steward!Active
        /\ Steward!QueuedAbout(subject) \subseteq Steward!Queued
    BY DEF Steward!Active, Steward!Queued, Steward!Items, Steward!MemoriesAbout,
           Steward!QueuedAbout
  <1>2. /\ UNCHANGED <<kept, proposed, candidate, receipts, touched>>
        /\ \E tool \in {"search_memories", "list_queued_memory_suggestions"},
              items \in SUBSET Steward!Items : Steward!Executed(k, t, tool, items)
    BY <1>1 DEF Steward!SearchMemories, Steward!ListQueuedSuggestions, Steward!Matches,
                Steward!QueueListing
  <1>3. PICK tool \in {"search_memories", "list_queued_memory_suggestions"},
             items \in SUBSET Steward!Items : Steward!Executed(k, t, tool, items)
    BY <1>2
  <1>4. tool \in Steward!Tools /\ tool \notin Steward!Mutations
    BY <1>3 DEF Steward!Tools, Steward!Mutations, Steward!MemorySearch,
                Steward!SuggestionSearch
  <1> QED
    BY <1>2, <1>3, <1>4, ExecutedStep DEF TouchedStays, StewardInv, Steward!StewardTypeOK

LEMMA TouchStays ==
    ASSUME StewardInv, NEW t \in Turns, NEW r \in Steward!Items, Steward!Touch(t, r)
    PROVE  /\ TouchedStays /\ touched' \in [Turns -> SUBSET Steward!Items]
           /\ r \in touched'[t]
  BY DEF StewardInv, Steward!StewardTypeOK, Steward!Touch, TouchedStays

LEMMA ChangeMemoryStep ==
    ASSUME StewardInv, NEW k \in ToolCalls, NEW t \in Turns, NEW m \in Kept,
           \/ \E subject \in Steward!Subject : Steward!UpdateMemory(k, t, m, subject)
           \/ Steward!ArchiveMemory(k, t, m)
    PROVE  StewardInv'
  <1>1. PICK tool \in {"update_memory", "archive_memory"} :
           Steward!Executed(k, t, tool, {m})
    BY DEF Steward!UpdateMemory, Steward!ArchiveMemory
  <1>2. tool \in Steward!Tools
    BY <1>1 DEF Steward!Tools, Steward!Mutations
  <1>3. /\ Steward!Touch(t, m) /\ UNCHANGED <<proposed, candidate, receipts>>
        /\ m \in Steward!Items
    BY DEF Steward!UpdateMemory, Steward!ArchiveMemory, Steward!Items
  <1>4. kept' \in [Kept -> [status: {"ABSENT", "ACTIVE", "ARCHIVED", "DELETED"},
                            about: Steward!Subject]]
    <2>1. kept \in [Kept -> [status: {"ABSENT", "ACTIVE", "ARCHIVED", "DELETED"},
                             about: Steward!Subject]]
      BY DEF StewardInv, Steward!StewardTypeOK
    <2>2. ASSUME NEW subject \in Steward!Subject, kept' = [kept EXCEPT ![m].about = subject]
          PROVE  kept' \in [Kept -> [status: {"ABSENT", "ACTIVE", "ARCHIVED", "DELETED"},
                                     about: Steward!Subject]]
      BY <2>1, <2>2
    <2>3. CASE kept' = [kept EXCEPT ![m].status = "ARCHIVED"]
      BY <2>1, <2>3
    <2> QED
      BY <2>2, <2>3 DEF Steward!UpdateMemory, Steward!ArchiveMemory
  <1> QED
    BY <1>1, <1>2, <1>3, <1>4, TouchStays, ExecutedStep

LEMMA RejectSuggestionStep ==
    ASSUME StewardInv, NEW k \in ToolCalls, NEW t \in Turns, NEW s \in Proposed,
           Steward!RejectSuggestion(k, t, s)
    PROVE  StewardInv'
  <1>1. PICK c : c = [stage |-> "rejecting", turn |-> t,
                      tool |-> "reject_memory_suggestion", items |-> {s}]
    OBVIOUS
  <1>2. c \in StewardCalls
    BY <1>1 DEF StewardCalls, Steward!Tools, Steward!Mutations, Steward!Items
  <1>3. toolCall' = [toolCall EXCEPT ![k] = c]
    BY <1>1 DEF Steward!RejectSuggestion
  <1>4. ToolCallOK(c)'
    BY <1>1 DEF ToolCallOK, Steward!Tools, Steward!Mutations
  <1>5. TouchedStays /\ UNCHANGED <<kept, proposed, candidate, receipts, touched>>
    BY DEF Steward!RejectSuggestion, TouchedStays
  <1>6. /\ toolCall' \in [ToolCalls -> StewardCalls]
        /\ \A i \in ToolCalls : ToolCallOK(toolCall[i])'
    BY <1>2, <1>3, <1>4, <1>5, ToolCallSet
  <1> QED
    BY <1>5, <1>6, ReceiptsStay DEF StewardInv, Steward!StewardTypeOK, StewardCalls

\* A call is over, however it ended.
LEMMA ToolCallOver ==
    ASSUME StewardInv, TouchedStays, NEW k \in ToolCalls,
           toolCall' = [toolCall EXCEPT ![k] = Steward!NoToolCall]
    PROVE  /\ toolCall' \in [ToolCalls -> StewardCalls]
           /\ \A i \in ToolCalls : ToolCallOK(toolCall[i])'
  <1>1. PICK c \in StewardCalls : c = Steward!NoToolCall /\ c.stage = "idle"
    BY NoToolCallOK
  <1> QED
    BY <1>1, ToolCallSet DEF ToolCallOK

LEMMA ClaimRejectedStep ==
    ASSUME StewardInv, NEW k \in ToolCalls, Steward!ClaimRejected(k)
    PROVE  StewardInv'
  <1>1. PICK d \in StewardCalls : d = toolCall[k]
    BY StewardTypes DEF StewardInv
  <1>2. /\ d.stage = "rejecting" /\ d.turn \in Turns /\ d.tool \in Steward!Tools
        /\ \E s \in Proposed : d.items = {s}
    BY <1>1 DEF StewardInv, ToolCallOK, Steward!ClaimRejected
  <1>3. PICK s \in Proposed : d.items = {s}
    BY <1>2
  <1>4. CASE /\ proposed' = [proposed EXCEPT ![s].status = "REJECTED"]
             /\ Steward!Touch(d.turn, s)
             /\ toolCall' = [toolCall EXCEPT ![k].stage = "executed"]
    <2>1. PICK c : c = [d EXCEPT !.stage = "executed"]
      OBVIOUS
    <2>2. /\ c \in StewardCalls /\ c.items = {s} /\ c.turn = d.turn
          /\ c.turn \in Turns /\ c.tool \in Steward!Tools /\ c.stage = "executed"
      BY <1>1, <1>2, <1>3, <2>1 DEF StewardCalls
    <2>3. toolCall' = [toolCall EXCEPT ![k] = c]
      BY <1>1, <1>4, <2>1, StewardTypes DEF StewardInv
    <2>4. /\ TouchedStays /\ touched' \in [Turns -> SUBSET Steward!Items]
          /\ s \in touched'[d.turn]
      BY <1>2, <1>4, TouchStays DEF Steward!Items
    <2>5. ToolCallOK(c)'
      BY <2>2, <2>4 DEF ToolCallOK
    <2>6. /\ toolCall' \in [ToolCalls -> StewardCalls]
          /\ \A i \in ToolCalls : ToolCallOK(toolCall[i])'
      BY <2>2, <2>3, <2>4, <2>5, ToolCallSet
    <2>7. ReceiptsOK'
      BY <2>4, ReceiptsStay DEF Steward!ClaimRejected
    <2>8. proposed' \in [Proposed ->
          [status: {"ABSENT", "QUEUED_FOR_REVIEW", "APPLIED", "REJECTED"},
           about: Steward!Subject]]
      BY <1>4 DEF StewardInv, Steward!StewardTypeOK
    <2> QED
      BY <2>4, <2>6, <2>7, <2>8
         DEF StewardInv, Steward!StewardTypeOK, StewardCalls, Steward!ClaimRejected
  <1>5. CASE /\ toolCall' = [toolCall EXCEPT ![k] = Steward!NoToolCall]
             /\ UNCHANGED <<proposed, touched>>
    <2>1. TouchedStays
      BY <1>5 DEF TouchedStays
    <2>2. /\ toolCall' \in [ToolCalls -> StewardCalls]
          /\ \A i \in ToolCalls : ToolCallOK(toolCall[i])'
      BY <1>5, <2>1, ToolCallOver
    <2>3. ReceiptsOK'
      BY <2>1, ReceiptsStay DEF Steward!ClaimRejected
    <2> QED
      BY <1>5, <2>2, <2>3
         DEF StewardInv, Steward!StewardTypeOK, StewardCalls, Steward!ClaimRejected
  <1> QED
    BY <1>1, <1>3, <1>4, <1>5 DEF Steward!ClaimRejected

LEMMA RecordToolStep ==
    ASSUME StewardInv, NEW k \in ToolCalls, Steward!RecordTool(k)
    PROVE  StewardInv'
  <1>1. PICK d \in StewardCalls : d = toolCall[k]
    BY StewardTypes DEF StewardInv
  <1>2. /\ d.stage = "executed" /\ d.turn \in Turns /\ d.tool \in Steward!Tools
        /\ d.tool \in Steward!Mutations => d.items \subseteq touched[d.turn]
        /\ d.items \subseteq Steward!Items
    BY <1>1 DEF StewardInv, ToolCallOK, Steward!RecordTool, Steward!Recordable, StewardCalls
  <1>3. PICK e : e = [tool |-> d.tool, items |-> d.items]
    OBVIOUS
  <1>4. PICK t \in Turns : t = d.turn
    BY <1>2
  <1>5. receipts' = [receipts EXCEPT ![t] = @ \cup {e}]
    BY <1>1, <1>3, <1>4 DEF Steward!RecordTool
  <1>6. e \in [tool: Steward!Tools, items: SUBSET Steward!Items]
    BY <1>2, <1>3
  <1>7. receipts' \in [Turns -> SUBSET [tool: Steward!Tools, items: SUBSET Steward!Items]]
    BY <1>5, <1>6, StewardTypes DEF StewardInv
  <1>8. \A u \in Turns : \A r \in receipts'[u] : r \in receipts[u] \/ (u = t /\ r = e)
    BY <1>5, StewardTypes DEF StewardInv
  <1>9. touched' = touched /\ TouchedStays
    BY DEF Steward!RecordTool, TouchedStays
  <1>10. ReceiptsOK'
    BY <1>2, <1>3, <1>4, <1>8, <1>9 DEF StewardInv, ReceiptsOK
  <1>11. /\ toolCall' \in [ToolCalls -> StewardCalls]
         /\ \A i \in ToolCalls : ToolCallOK(toolCall[i])'
    BY <1>9, ToolCallOver DEF Steward!RecordTool
  <1> QED
    BY <1>7, <1>10, <1>11
       DEF StewardInv, Steward!StewardTypeOK, StewardCalls, Steward!RecordTool

LEMMA LoseToolCallStep ==
    ASSUME StewardInv, NEW k \in ToolCalls, Steward!LoseToolCall(k)
    PROVE  StewardInv'
  <1>1. TouchedStays
    BY DEF Steward!LoseToolCall, TouchedStays
  <1>2. /\ toolCall' \in [ToolCalls -> StewardCalls]
        /\ \A i \in ToolCalls : ToolCallOK(toolCall[i])'
    BY <1>1, ToolCallOver DEF Steward!LoseToolCall
  <1>3. ReceiptsOK'
    BY <1>1, ReceiptsStay DEF Steward!LoseToolCall
  <1> QED
    BY <1>2, <1>3
       DEF StewardInv, Steward!StewardTypeOK, StewardCalls, Steward!LoseToolCall

\* What leaves the calls and their receipts alone.
LEMMA VaultStep ==
    ASSUME StewardInv, UNCHANGED <<receipts, toolCall, touched>>,
           kept' \in [Kept -> [status: {"ABSENT", "ACTIVE", "ARCHIVED", "DELETED"},
                               about: Steward!Subject]],
           proposed' \in [Proposed ->
              [status: {"ABSENT", "QUEUED_FOR_REVIEW", "APPLIED", "REJECTED"},
               about: Steward!Subject]],
           candidate' \in [Turns -> [intent: {"correction", "retraction"},
                                     about: Steward!Subject,
                                     status: {"pending"} \cup Steward!Resolved]]
    PROVE  StewardInv'
  BY DEF StewardInv, Steward!StewardTypeOK, ReceiptsOK, ToolCallOK

LEMMA ResolvedType ==
    ASSUME StewardInv, NEW t \in Turns, NEW outcome \in Steward!Resolved,
           Steward!Resolve(t, outcome)
    PROVE  candidate' \in [Turns -> [intent: {"correction", "retraction"},
                                     about: Steward!Subject,
                                     status: {"pending"} \cup Steward!Resolved]]
  <1>1. candidate[t] \in [intent: {"correction", "retraction"}, about: Steward!Subject,
                          status: {"pending"} \cup Steward!Resolved]
    BY DEF StewardInv, Steward!StewardTypeOK
  <1>2. [candidate[t] EXCEPT !.status = outcome]
           \in [intent: {"correction", "retraction"}, about: Steward!Subject,
                status: {"pending"} \cup Steward!Resolved]
    BY <1>1
  <1> QED
    BY <1>2 DEF StewardInv, Steward!StewardTypeOK, Steward!Resolve

LEMMA CompleteStep ==
    ASSUME StewardInv, NEW t \in Turns,
           Steward!CompleteHandled(t) \/ Steward!CompleteCreate(t)
    PROVE  StewardInv'
  <1>1. PICK outcome \in Steward!Resolved : Steward!Resolve(t, outcome)
    BY DEF Steward!CompleteHandled, Steward!CompleteCreate, Steward!Resolved
  <1>2. candidate[t].about \in Steward!Subject
    BY DEF StewardInv, Steward!StewardTypeOK
  <1>3. kept' \in [Kept -> [status: {"ABSENT", "ACTIVE", "ARCHIVED", "DELETED"},
                            about: Steward!Subject]]
    BY <1>2 DEF StewardInv, Steward!StewardTypeOK, Steward!CompleteHandled,
                Steward!CompleteCreate
  <1>4. proposed' \in [Proposed ->
              [status: {"ABSENT", "QUEUED_FOR_REVIEW", "APPLIED", "REJECTED"},
               about: Steward!Subject]]
    BY <1>2 DEF StewardInv, Steward!StewardTypeOK, Steward!CompleteHandled,
                Steward!CompleteCreate
  <1> QED
    BY <1>1, <1>3, <1>4, ResolvedType, VaultStep
       DEF Steward!CompleteHandled, Steward!CompleteCreate

LEMMA OwnerAndAppsStep ==
    ASSUME StewardInv,
           \/ \E m \in Kept, subject \in Steward!Subject :
                 \/ Steward!AddMemory(m, subject)
                 \/ \E status \in {"ACTIVE", "ARCHIVED", "DELETED"} :
                       Steward!EditMemory(m, status, subject)
           \/ \E s \in Proposed, subject \in Steward!Subject :
                 Steward!FileSuggestion(s, subject)
           \/ \E s \in Proposed, m \in Kept : Steward!ApproveSuggestion(s, m)
    PROVE  StewardInv'
  <1>1. /\ kept \in [Kept -> [status: {"ABSENT", "ACTIVE", "ARCHIVED", "DELETED"},
                               about: Steward!Subject]]
        /\ proposed \in [Proposed ->
              [status: {"ABSENT", "QUEUED_FOR_REVIEW", "APPLIED", "REJECTED"},
               about: Steward!Subject]]
        /\ candidate \in [Turns -> [intent: {"correction", "retraction"},
                                     about: Steward!Subject,
                                     status: {"pending"} \cup Steward!Resolved]]
    BY DEF StewardInv, Steward!StewardTypeOK
  <1>2. CASE \E m \in Kept, subject \in Steward!Subject :
                 \/ Steward!AddMemory(m, subject)
                 \/ \E status \in {"ACTIVE", "ARCHIVED", "DELETED"} :
                       Steward!EditMemory(m, status, subject)
    BY <1>1, <1>2, VaultStep DEF Steward!AddMemory, Steward!EditMemory
  <1>3. CASE \E s \in Proposed, subject \in Steward!Subject :
                 Steward!FileSuggestion(s, subject)
    BY <1>1, <1>3, VaultStep DEF Steward!FileSuggestion
  <1>4. CASE \E s \in Proposed, m \in Kept : Steward!ApproveSuggestion(s, m)
    BY <1>1, <1>4, VaultStep DEF Steward!ApproveSuggestion
  <1> QED
    BY <1>2, <1>3, <1>4

LEMMA StewardStep ==
    ASSUME StewardInv, Steward!StewardNext
    PROVE  StewardInv'
  BY SearchStep, ChangeMemoryStep, RejectSuggestionStep, ClaimRejectedStep, RecordToolStep,
     LoseToolCallStep, CompleteStep, OwnerAndAppsStep DEF Steward!StewardNext

LEMMA StewardStutter ==
    ASSUME StewardInv, UNCHANGED stewardVars
    PROVE  StewardInv'
  BY DEF StewardInv, stewardVars, Steward!StewardTypeOK, ReceiptsOK, ToolCallOK

LEMMA StewardHolds ==
    ASSUME StewardInv
    PROVE  Steward!ReceiptsAreTrue
  BY DEF StewardInv, ReceiptsOK, Steward!ReceiptsAreTrue, Steward!ItemsOf, Steward!Of

\* What a step of the steward may not do.
LEMMA StewardSteps ==
    ASSUME StewardInv, Steward!StewardNext
    PROVE  Steward!ReconciledWithTheVault
  <1>1. ASSUME NEW t \in Turns, candidate[t].status = "pending",
               candidate'[t].status # "pending"
        PROVE  LET about == candidate[t].about
                   live == Steward!MemoriesAbout(about) \cup Steward!QueuedAbout(about)
               IN  /\ candidate'[t].status \in {"APPLIED", "QUEUED_FOR_REVIEW"} =>
                         live = {} /\ candidate[t].intent = "correction"
                   /\ candidate'[t].status = "reconciled" =>
                         touched[t] # {} /\ live \subseteq touched[t]
    <2>1. CASE Steward!CompleteHandled(t)
      <3>1. candidate'[t].status = "reconciled"
        BY <2>1 DEF Steward!CompleteHandled, Steward!Resolve, StewardInv,
                    Steward!StewardTypeOK
      <3>2. Steward!ItemsOf(t, Steward!Mutations) \subseteq touched[t]
        BY StewardHolds DEF Steward!ReceiptsAreTrue
      <3> QED
        BY <2>1, <3>1, <3>2 DEF Steward!CompleteHandled, Steward!Matched
    <2>2. CASE Steward!CompleteCreate(t)
      <3>1. candidate[t].intent = "correction"
        BY <2>2 DEF Steward!CompleteCreate, Steward!Creates, StewardInv,
                    Steward!StewardTypeOK
      <3>2. candidate'[t].status # "reconciled"
        BY <2>2 DEF Steward!CompleteCreate, Steward!Resolve, StewardInv,
                    Steward!StewardTypeOK
      <3> QED
        BY <2>2, <3>1, <3>2 DEF Steward!CompleteCreate, Steward!Creates, Steward!Matched
    <2>3. ASSUME NEW u \in Turns, u # t,
                 Steward!CompleteHandled(u) \/ Steward!CompleteCreate(u)
          PROVE  FALSE
      BY <1>1, <2>3 DEF Steward!CompleteHandled, Steward!CompleteCreate, Steward!Resolve,
                        StewardInv, Steward!StewardTypeOK
    <2>4. CASE UNCHANGED candidate
      BY <1>1, <2>4
    <2> QED
      BY <2>1, <2>2, <2>3, <2>4
         DEF Steward!StewardNext, Steward!SearchMemories, Steward!ListQueuedSuggestions,
             Steward!UpdateMemory, Steward!ArchiveMemory, Steward!RejectSuggestion,
             Steward!ClaimRejected, Steward!RecordTool, Steward!LoseToolCall,
             Steward!AddMemory, Steward!EditMemory, Steward!FileSuggestion,
             Steward!ApproveSuggestion
  <1>2. ASSUME NEW s \in Proposed, proposed[s].status \in {"APPLIED", "REJECTED"}
        PROVE  proposed'[s] = proposed[s]
    <2>1. ASSUME NEW k \in ToolCalls, Steward!ClaimRejected(k)
          PROVE  proposed'[s] = proposed[s]
      BY <1>2, <2>1 DEF Steward!ClaimRejected, Steward!Claimable, Steward!Queued,
                        StewardInv, Steward!StewardTypeOK
    <2>2. ASSUME NEW t \in Turns, Steward!CompleteHandled(t) \/ Steward!CompleteCreate(t)
          PROVE  proposed'[s] = proposed[s]
      BY <1>2, <2>2 DEF Steward!CompleteHandled, Steward!CompleteCreate,
                        StewardInv, Steward!StewardTypeOK
    <2>3. ASSUME NEW r \in Proposed,
                 \/ \E subject \in Steward!Subject : Steward!FileSuggestion(r, subject)
                 \/ \E m \in Kept : Steward!ApproveSuggestion(r, m)
          PROVE  proposed'[s] = proposed[s]
      BY <1>2, <2>3 DEF Steward!FileSuggestion, Steward!ApproveSuggestion, Steward!Queued,
                        StewardInv, Steward!StewardTypeOK
    <2>4. CASE UNCHANGED proposed
      BY <2>4
    <2> QED
      BY <2>1, <2>2, <2>3, <2>4
         DEF Steward!StewardNext, Steward!SearchMemories, Steward!ListQueuedSuggestions,
             Steward!UpdateMemory, Steward!ArchiveMemory, Steward!RejectSuggestion,
             Steward!RecordTool, Steward!LoseToolCall, Steward!AddMemory,
             Steward!EditMemory
  <1> QED
    BY <1>1, <1>2 DEF Steward!ReconciledWithTheVault

LEMMA StewardInvariance == Spec => [](part = "steward" => StewardInv)
  <1>1. Init => (part = "steward" => StewardInv)
    BY StewardInit DEF Init
  <1>2. (part = "steward" => StewardInv) /\ [Next]_vars => (part = "steward" => StewardInv)'
    <2> SUFFICES ASSUME part = "steward" => StewardInv, [Next]_vars, part' = "steward"
                 PROVE  StewardInv'
      OBVIOUS
    <2>1. CASE part = "steward" /\ Steward!StewardNext
      BY <2>1, StewardStep
    <2>2. CASE part = "steward" /\ UNCHANGED stewardVars
      BY <2>2, StewardStutter
    <2> QED
      BY <2>1, <2>2 DEF Next, vars
  <1> QED
    BY <1>1, <1>2, PTL DEF Spec

-----------------------------------------------------------------------------
(* Providers of an extraction (ExtractionProviders) *)

Works ==
    [system: {"system_1", "system_2"}, length: Provider!Paragraphs,
     stage: Provider!Stages, call: {"none", "cleared", "sent"}, attempt: {0, 1},
     marks: [1 .. Examined -> Provider!Marks],
     proposal: Provider!AllCandidates \cup {None},
     candidate: Provider!AllCandidates \cup {None},
     verdict: Provider!Verdicts, partial: BOOLEAN]

\* Nothing is sent for a provider that is not the owner's any more, but for the
\* request that was already cleared.
CallsOK ==
    /\ late \in Nat /\ late <= 1
    /\ chosen \in BOOLEAN
    /\ chosen \/ work.call = "cleared" => late = 0

\* What the classifier's stages make of the language model's candidate.
Faithful ==
    LET c == work.candidate
        p == work.proposal
    IN  /\ c.disposition = "eligible" =>
             /\ p.disposition = "eligible"
             /\ work.system = "system_1" =>
                  /\ work.verdict.supported = "yes"
                  /\ work.verdict.atomic /\ work.verdict.categories
                  /\ ~ Provider!UncertainRequest
        /\ c.intent = "confirmation" => p.intent = "confirmation"
        /\ c.evidence = p.evidence
        /\ c.atomic = p.atomic /\ c.ambiguousDate = p.ambiguousDate
        /\ p.flaws \cap {"secret", "quote"} \subseteq c.flaws
        /\ work.system = "system_1" /\ work.verdict.sensitivity = "RESTRICTED" =>
             "restricted" \in c.flaws
        /\ work.system = "system_2" => c.flaws = p.flaws

StagesOK ==
    /\ work.stage \in {"select", "normalize"} => work.candidate = None
    /\ work.stage \in {"check", "validate"} =>
          work.candidate # None /\ work.proposal # None
    /\ work.stage = "check" =>
          work.candidate = work.proposal /\ work.system = "system_1"
    /\ work.stage \in {"validate", "done"} /\ work.candidate # None => Faithful
    /\ work.stage = "done" /\ work.candidate # None =>
          LET c == work.candidate
          IN  c.disposition = "eligible" =>
                /\ c.flaws = {} /\ Provider!CitesSource(c)
                /\ c.atomic /\ ~ c.ambiguousDate

ProviderInv == work \in Works /\ CallsOK /\ StagesOK

LEMMA ProviderInit == Provider!ProviderInit => ProviderInv
  <1> SUFFICES ASSUME Provider!ProviderInit PROVE ProviderInv
    OBVIOUS
  <1>1. PICK system \in {"system_1", "system_2"}, length \in Provider!Paragraphs :
           work = [system |-> system, length |-> length,
                  stage |-> IF system = "system_1" THEN "select" ELSE "normalize",
                  call |-> "none", attempt |-> 0,
                  marks |-> [i \in 1 .. Examined |-> {}],
                  proposal |-> None, candidate |-> None, verdict |-> Provider!NoVerdict,
                  partial |-> FALSE]
    BY DEF Provider!ProviderInit
  <1>2. Provider!NoVerdict \in Provider!Verdicts
    BY DEF Provider!NoVerdict, Provider!Verdicts
  <1>3. [i \in 1 .. Examined |-> {}] \in [1 .. Examined -> Provider!Marks]
    BY DEF Provider!Marks
  <1>4. PICK stage \in Provider!Stages :
           stage = IF system = "system_1" THEN "select" ELSE "normalize"
    BY DEF Provider!Stages
  <1>5. work \in Works
    BY <1>1, <1>2, <1>3, <1>4 DEF Works
  <1> QED
    BY <1>1, <1>5 DEF ProviderInv, CallsOK, StagesOK, Provider!ProviderInit

\* A step that changes only how a stage's request stands.
SameWork(w) ==
    /\ w.candidate = work.candidate /\ w.proposal = work.proposal
    /\ w.system = work.system /\ w.verdict = work.verdict
    /\ w.marks = work.marks /\ w.length = work.length
    /\ w.partial = work.partial

LEMMA FaithfulStays ==
    ASSUME Faithful, NEW w, work' = w, SameWork(w)
    PROVE  Faithful'
  BY DEF SameWork, Faithful, Provider!UncertainRequest, Provider!Cited, Provider!Spans

LEMMA CallStep ==
    ASSUME ProviderInv, NEW w \in Works, work' = w, SameWork(w), CallsOK',
           w.stage \in {work.stage, "failed"}
    PROVE  ProviderInv'
  <1>1. Faithful => Faithful'
    BY FaithfulStays
  <1> QED
    BY <1>1 DEF ProviderInv, StagesOK, Provider!CitesSource, SameWork

LEMMA CallSteps ==
    ASSUME ProviderInv,
           \/ Provider!ClearCall \/ Provider!SendCall \/ Provider!CallFails
           \/ Provider!AbortExtraction
    PROVE  ProviderInv'
  <1>1. PICK w0 \in Works : w0 = work
    BY DEF ProviderInv
  <1>2. PICK w : w = work'
    OBVIOUS
  <1>3. CASE Provider!ClearCall /\ chosen
    <2>1. w = [w0 EXCEPT !.call = "cleared"]
      BY <1>1, <1>2, <1>3 DEF Provider!ClearCall
    <2>2. w \in Works /\ SameWork(w) /\ w.stage = work.stage /\ w.call = "cleared"
      BY <1>1, <2>1 DEF Works, SameWork
    <2>3. CallsOK'
      BY <1>3 DEF ProviderInv, CallsOK, Provider!ClearCall
    <2> QED
      BY <1>2, <2>2, <2>3, CallStep
  <1>4. CASE Provider!ClearCall /\ ~ chosen
    <2>1. w = [w0 EXCEPT !.stage = "failed"]
      BY <1>1, <1>2, <1>4 DEF Provider!ClearCall
    <2>2. w \in Works /\ SameWork(w) /\ w.stage = "failed" /\ w.call = work.call
      BY <1>1, <2>1 DEF Works, SameWork, Provider!Stages
    <2>3. CallsOK'
      BY <1>2, <1>4, <2>2 DEF ProviderInv, CallsOK, Provider!ClearCall
    <2> QED
      BY <1>2, <2>2, <2>3, CallStep
  <1>5. CASE Provider!SendCall
    <2>1. w = [w0 EXCEPT !.call = "sent"]
      BY <1>1, <1>2, <1>5 DEF Provider!SendCall
    <2>2. w \in Works /\ SameWork(w) /\ w.stage = work.stage /\ w.call = "sent"
      BY <1>1, <2>1 DEF Works, SameWork
    <2>3. late' = IF chosen THEN late ELSE late + 1
      BY <1>5 DEF Provider!SendCall
    <2>4. work.call = "cleared" /\ chosen' = chosen
      BY <1>5 DEF Provider!SendCall
    <2>5. CallsOK'
      BY <1>2, <2>2, <2>3, <2>4 DEF ProviderInv, CallsOK
    <2> QED
      BY <1>2, <2>2, <2>5, CallStep
  <1>6. CASE Provider!CallFails /\ work.attempt = 0
    <2>1. w = [w0 EXCEPT !.call = "none", !.attempt = 1]
      BY <1>1, <1>2, <1>6 DEF Provider!CallFails, Provider!Retried
    <2>2. w \in Works /\ SameWork(w) /\ w.stage = work.stage /\ w.call = "none"
      BY <1>1, <2>1 DEF Works, SameWork
    <2>3. CallsOK'
      BY <1>2, <1>6, <2>2 DEF ProviderInv, CallsOK, Provider!CallFails
    <2> QED
      BY <1>2, <2>2, <2>3, CallStep
  <1>7. CASE Provider!AbortExtraction \/ (Provider!CallFails /\ work.attempt # 0)
    <2>1. w = [w0 EXCEPT !.stage = "failed", !.call = "none"]
      BY <1>1, <1>2, <1>7 DEF Provider!CallFails, Provider!AbortExtraction
    <2>2. w \in Works /\ SameWork(w) /\ w.stage = "failed" /\ w.call = "none"
      BY <1>1, <2>1 DEF Works, SameWork, Provider!Stages
    <2>3. CallsOK'
      BY <1>2, <1>7, <2>2
         DEF ProviderInv, CallsOK, Provider!CallFails, Provider!AbortExtraction
    <2> QED
      BY <1>2, <2>2, <2>3, CallStep
  <1> QED
    BY <1>3, <1>4, <1>5, <1>6, <1>7

LEMMA SwitchStep ==
    ASSUME ProviderInv, Provider!SwitchProvider
    PROVE  ProviderInv'
  <1>1. CallsOK'
    BY DEF ProviderInv, CallsOK, Provider!SwitchProvider
  <1> QED
    BY <1>1
       DEF ProviderInv, StagesOK, Faithful, Provider!UncertainRequest, Provider!Cited,
           Provider!Spans, Provider!CitesSource, Provider!SwitchProvider

\* The next stage starts with no request.
AdvanceFields(w, stage) ==
    /\ w \in Works /\ w.stage = stage /\ w.call = "none"
    /\ w.system = work.system /\ w.length = work.length

LEMMA AdvancedCalls ==
    ASSUME ProviderInv, NEW w, NEW stage, work' = w, AdvanceFields(w, stage),
           UNCHANGED <<chosen, late>>
    PROVE  CallsOK'
  BY DEF ProviderInv, CallsOK, AdvanceFields

\* A page that is left without a candidate.
LEMMA NothingFound ==
    ASSUME NEW w, NEW stage \in {"done", "normalize"}, work' = w, w.candidate = None,
           AdvanceFields(w, stage), CallsOK'
    PROVE  ProviderInv'
  <1>1. /\ work' \in Works /\ work'.candidate = None
        /\ work'.stage \notin {"check", "validate"}
    BY DEF AdvanceFields
  <1>2. StagesOK'
    BY <1>1 DEF StagesOK
  <1> QED
    BY <1>1, <1>2 DEF ProviderInv

LEMMA AnswerSelectionStep ==
    ASSUME ProviderInv, NEW marks \in [1 .. Examined -> Provider!Marks],
           Provider!AnswerSelection(marks)
    PROVE  ProviderInv'
  <1>1. PICK w0 \in Works : w0 = work
    BY DEF ProviderInv
  <1>2. work.candidate = None
    BY DEF ProviderInv, StagesOK, Provider!AnswerSelection
  <1>3. PICK w : w = work'
    OBVIOUS
  <1>4. PICK b \in BOOLEAN : b = Provider!Unread
    <2>1. CASE Provider!Unread
      <3>1. TRUE = Provider!Unread
        BY <2>1 DEF Provider!Unread
      <3> QED
        BY <3>1
    <2>2. CASE ~ Provider!Unread
      <3>1. FALSE = Provider!Unread
        BY <2>2 DEF Provider!Unread
      <3> QED
        BY <3>1
    <2> QED
      BY <2>1, <2>2
  <1>5. \/ w = [w0 EXCEPT !.stage = "done", !.call = "none", !.attempt = 0, !.partial = b]
        \/ w = [w0 EXCEPT !.stage = "normalize", !.call = "none", !.attempt = 0,
                          !.marks = marks]
    <2>1. \/ work' = [Provider!Advanced("done") EXCEPT !.partial = b]
          \/ work' = [Provider!Advanced("normalize") EXCEPT !.marks = marks]
      BY <1>4 DEF Provider!AnswerSelection
    <2> QED
      BY <1>1, <1>3, <2>1 DEF Provider!Advanced, Works
  <1>6. w.candidate = None /\ \E stage \in {"done", "normalize"} : AdvanceFields(w, stage)
    <2>1. w \in Works
      <3>1. CASE w = [w0 EXCEPT !.stage = "done", !.call = "none", !.attempt = 0,
                                !.partial = b]
        BY <3>1 DEF Works, Provider!Stages
      <3>2. CASE w = [w0 EXCEPT !.stage = "normalize", !.call = "none", !.attempt = 0,
                                !.marks = marks]
        BY <3>2 DEF Works, Provider!Stages
      <3> QED
        BY <1>5, <3>1, <3>2
    <2>2. /\ w.candidate = w0.candidate /\ w.stage \in {"done", "normalize"}
          /\ w.call = "none" /\ w.system = w0.system /\ w.length = w0.length
      BY <1>5 DEF Works
    <2> QED
      BY <1>1, <1>2, <2>1, <2>2 DEF AdvanceFields
  <1>7. CallsOK'
    BY <1>3, <1>6, AdvancedCalls DEF Provider!AnswerSelection
  <1> QED
    BY <1>3, <1>6, <1>7, NothingFound

LEMMA AnswerNormalizationStep ==
    ASSUME ProviderInv, NEW partial \in BOOLEAN, Provider!AnswerNormalization(partial)
    PROVE  ProviderInv'
  <1>1. PICK w0 \in Works : w0 = work
    BY DEF ProviderInv
  <1>2. work.candidate = None
    BY DEF ProviderInv, StagesOK, Provider!AnswerNormalization
  <1>3. PICK w : w = work'
    OBVIOUS
  <1>4. CASE work' = [Provider!Advanced("done") EXCEPT !.partial = partial]
    <2>1. w = [w0 EXCEPT !.stage = "done", !.call = "none", !.attempt = 0,
                         !.partial = partial]
      BY <1>1, <1>3, <1>4 DEF Provider!Advanced, Works
    <2>4. w \in Works
      BY <2>1 DEF Works, Provider!Stages
    <2>5. /\ w.candidate = w0.candidate /\ w.stage = "done" /\ w.call = "none"
          /\ w.system = w0.system /\ w.length = w0.length
      BY <2>1 DEF Works
    <2>2. w.candidate = None /\ AdvanceFields(w, "done")
      BY <1>1, <1>2, <2>4, <2>5 DEF AdvanceFields
    <2>3. CallsOK'
      BY <1>3, <2>2, AdvancedCalls DEF Provider!AnswerNormalization
    <2> QED
      BY <1>3, <2>2, <2>3, NothingFound
  <1>5. ASSUME NEW c \in Proposals,
               work' = [Provider!Advanced(IF work.system = "system_1"
                                          THEN "check" ELSE "validate")
                     EXCEPT !.proposal = c, !.candidate = c, !.partial = partial]
        PROVE  ProviderInv'
    <2>1. PICK stage \in {"check", "validate"} :
             stage = IF work.system = "system_1" THEN "check" ELSE "validate"
      OBVIOUS
    <2>2. w = [w0 EXCEPT !.stage = stage, !.call = "none", !.attempt = 0,
                         !.proposal = c, !.candidate = c, !.partial = partial]
      BY <1>1, <1>3, <1>5, <2>1 DEF Provider!Advanced, Works
    <2>3. c \in Provider!AllCandidates /\ c # None
      BY ProviderAssumption
    <2>4. w.candidate = c /\ w.proposal = c /\ AdvanceFields(w, stage)
      BY <1>1, <2>1, <2>2, <2>3 DEF Works, AdvanceFields, Provider!Stages
    <2>5. CallsOK'
      BY <1>3, <1>5, <2>4, AdvancedCalls DEF Provider!AnswerNormalization
    <2>6. stage = "validate" => Faithful'
      BY <1>3, <2>1, <2>4 DEF Faithful, AdvanceFields
    <2> QED
      BY <1>3, <2>1, <2>3, <2>4, <2>5, <2>6 DEF ProviderInv, StagesOK, AdvanceFields
  <1> QED
    BY <1>4, <1>5 DEF Provider!AnswerNormalization

\* The classifier's judgement adds no doubt away.
LEMMA AnswerCheckStep ==
    ASSUME ProviderInv, Provider!AnswerCheck
    PROVE  ProviderInv'
  <1>1. PICK w0 \in Works : w0 = work
    BY DEF ProviderInv
  <1>2. PICK c \in Provider!AllCandidates : c = work.candidate /\ c = work.proposal
    BY <1>1 DEF ProviderInv, StagesOK, Works, Provider!AnswerCheck
  <1>3. PICK w : w = work'
    OBVIOUS
  <1>4. PICK v \in Opinions :
           work' = [Provider!Advanced("validate") EXCEPT
                 !.verdict = v, !.partial = Provider!LeftOut,
                 !.candidate = [c EXCEPT !.intent = Provider!JudgedIntent(c),
                                         !.disposition = Provider!JudgedDisposition(c, v),
                                         !.flaws = Provider!JudgedFlaws(c, v)]]
    BY <1>2 DEF Provider!AnswerCheck
  <1>5. v \in Provider!Verdicts
    BY ProviderAssumption
  <1>6. PICK i \in Provider!Intents : i = Provider!JudgedIntent(c)
    BY <1>2 DEF Provider!JudgedIntent, Provider!Intents, Provider!AllCandidates
  <1>7. PICK d \in Provider!Dispositions : d = Provider!JudgedDisposition(c, v)
    BY <1>2 DEF Provider!JudgedDisposition, Provider!Dispositions, Provider!AllCandidates
  <1>8. PICK f \in SUBSET Provider!Flaws : f = Provider!JudgedFlaws(c, v)
    <2>1. c.flaws \subseteq Provider!Flaws
      BY <1>2 DEF Provider!AllCandidates
    <2>2. Provider!JudgedFlaws(c, v) \subseteq c.flaws \cup {"restricted"}
      BY DEF Provider!JudgedFlaws
    <2>3. "restricted" \in Provider!Flaws
      BY DEF Provider!Flaws
    <2> QED
      BY <2>1, <2>2, <2>3
  <1>9. PICK b \in BOOLEAN : b = Provider!LeftOut
    <2>1. CASE Provider!LeftOut
      <3>1. TRUE = Provider!LeftOut
        BY <2>1 DEF Provider!LeftOut
      <3> QED
        BY <3>1
    <2>2. CASE ~ Provider!LeftOut
      <3>1. FALSE = Provider!LeftOut
        BY <2>2 DEF Provider!LeftOut
      <3> QED
        BY <3>1
    <2> QED
      BY <2>1, <2>2
  <1>10. PICK e : e = [c EXCEPT !.intent = i, !.disposition = d, !.flaws = f]
    OBVIOUS
  <1>11. /\ e \in Provider!AllCandidates /\ e # None
         /\ e.evidence = c.evidence /\ e.intent = i /\ e.disposition = d
         /\ e.flaws = f /\ e.atomic = c.atomic /\ e.ambiguousDate = c.ambiguousDate
    <2>1. e \in Provider!AllCandidates
      BY <1>2, <1>6, <1>7, <1>8, <1>10 DEF Provider!AllCandidates
    <2> QED
      BY <1>2, <1>10, <2>1, ProviderAssumption DEF Provider!AllCandidates
  <1>12. w = [w0 EXCEPT !.stage = "validate", !.call = "none", !.attempt = 0,
                       !.verdict = v, !.partial = b, !.candidate = e]
    <2>1. work' = [Provider!Advanced("validate") EXCEPT
                      !.verdict = v, !.partial = b, !.candidate = e]
      BY <1>4, <1>6, <1>7, <1>8, <1>9, <1>10
    <2> QED
      BY <1>1, <1>3, <2>1 DEF Provider!Advanced, Works
  <1>13. /\ AdvanceFields(w, "validate")
         /\ w.candidate = e /\ w.proposal = c /\ w.verdict = v /\ w.partial = b
         /\ w.marks = work.marks
    BY <1>1, <1>2, <1>5, <1>9, <1>11, <1>12 DEF Works, AdvanceFields, Provider!Stages
  <1>14. CallsOK'
    BY <1>3, <1>13, AdvancedCalls DEF Provider!AnswerCheck
  <1>15. Provider!UncertainRequest' <=> Provider!UncertainRequest
    BY <1>2, <1>3, <1>11, <1>13
       DEF Provider!UncertainRequest, Provider!Cited, Provider!Spans, AdvanceFields
  <1>16. Faithful'
    <2>1. d = "eligible" =>
             /\ c.disposition = "eligible" /\ v.supported = "yes"
             /\ v.atomic /\ v.categories /\ ~ Provider!UncertainRequest
      BY <1>5, <1>7 DEF Provider!JudgedDisposition, Provider!Verdicts
    <2>2. i = "confirmation" => c.intent = "confirmation"
      BY <1>6 DEF Provider!JudgedIntent
    <2>3. c.flaws \cap {"secret", "quote"} \subseteq f
      BY <1>8 DEF Provider!JudgedFlaws
    <2>4. v.sensitivity = "RESTRICTED" => "restricted" \in f
      BY <1>8 DEF Provider!JudgedFlaws
    <2>5. work.system = "system_1" /\ w.system = "system_1"
      BY <1>13 DEF ProviderInv, StagesOK, Provider!AnswerCheck, AdvanceFields
    <2> QED
      BY <1>3, <1>11, <1>13, <1>15, <2>1, <2>2, <2>3, <2>4, <2>5 DEF Faithful
  <1> QED
    BY <1>2, <1>3, <1>11, <1>13, <1>14, <1>16, ProviderAssumption
       DEF ProviderInv, StagesOK, AdvanceFields

LEMMA ValidateCandidateStep ==
    ASSUME ProviderInv, Provider!ValidateCandidate
    PROVE  ProviderInv'
  <1>1. PICK w0 \in Works : w0 = work
    BY DEF ProviderInv
  <1>2. PICK c \in Provider!AllCandidates : c = work.candidate
    BY <1>1 DEF ProviderInv, StagesOK, Works, Provider!ValidateCandidate
  <1>3. PICK w : w = work'
    OBVIOUS
  <1>4. PICK d \in Provider!Dispositions : d = Provider!Validated(c)
    BY <1>2 DEF Provider!Validated, Provider!Dispositions, Provider!AllCandidates
  <1>5. PICK e : e = [c EXCEPT !.disposition = d]
    OBVIOUS
  <1>6. /\ e.evidence = c.evidence /\ e.intent = c.intent /\ e.disposition = d
        /\ e.flaws = c.flaws /\ e.atomic = c.atomic /\ e.ambiguousDate = c.ambiguousDate
        /\ e \in Provider!AllCandidates /\ e # None
    <2>1. e \in Provider!AllCandidates
      BY <1>4, <1>5 DEF Provider!AllCandidates
    <2> QED
      BY <1>5, <2>1, ProviderAssumption DEF Provider!AllCandidates
  <1>7. w = [w0 EXCEPT !.stage = "done", !.candidate = e]
    BY <1>1, <1>2, <1>3, <1>4, <1>5 DEF Works, Provider!ValidateCandidate
  <1>8. /\ w \in Works /\ w.stage = "done" /\ w.candidate = e /\ w.call = work.call
        /\ w.proposal = work.proposal /\ w.system = work.system
        /\ w.verdict = work.verdict /\ w.partial = work.partial
        /\ w.marks = work.marks /\ w.length = work.length
    BY <1>1, <1>6, <1>7 DEF Works, Provider!Stages
  <1>9. CallsOK'
    BY <1>3, <1>8 DEF ProviderInv, CallsOK, Provider!ValidateCandidate
  <1>10. Provider!UncertainRequest' <=> Provider!UncertainRequest
    BY <1>2, <1>3, <1>6, <1>8
       DEF Provider!UncertainRequest, Provider!Cited, Provider!Spans
  <1>11. d = "eligible" =>
            /\ c.disposition = "eligible" /\ c.flaws = {} /\ Provider!CitesSource(c)
            /\ c.atomic /\ ~ c.ambiguousDate
    BY <1>4 DEF Provider!Validated
  <1>12. Faithful
    BY <1>2, ProviderAssumption DEF ProviderInv, StagesOK, Provider!ValidateCandidate
  <1>13. Faithful'
    BY <1>2, <1>3, <1>6, <1>8, <1>10, <1>11, <1>12 DEF Faithful
  <1> QED
    BY <1>3, <1>6, <1>8, <1>9, <1>11, <1>13
       DEF ProviderInv, StagesOK, Provider!CitesSource

LEMMA ProviderStep ==
    ASSUME ProviderInv, Provider!ProviderNext
    PROVE  ProviderInv'
  BY CallSteps, SwitchStep, AnswerSelectionStep, AnswerNormalizationStep, AnswerCheckStep,
     ValidateCandidateStep DEF Provider!ProviderNext

LEMMA ProviderStutter ==
    ASSUME ProviderInv, UNCHANGED providerVars
    PROVE  ProviderInv'
  BY DEF ProviderInv, providerVars, CallsOK, StagesOK, Faithful,
         Provider!UncertainRequest, Provider!Cited, Provider!Spans, Provider!CitesSource

LEMMA ProviderHolds ==
    ASSUME ProviderInv
    PROVE  /\ Provider!ProviderTypeOK /\ Provider!OneRequestAtMost
           /\ Provider!EligibleIsSound
  <1>1. Provider!ProviderTypeOK /\ Provider!OneRequestAtMost
    BY DEF ProviderInv, CallsOK, Works, Provider!ProviderTypeOK, Provider!OneRequestAtMost
  <1>2. Provider!EligibleIsSound
    <2> SUFFICES ASSUME work.stage = "done", work.candidate # None,
                        work.candidate.disposition = "eligible"
                 PROVE  LET first == work.proposal IN
            /\ first.disposition = "eligible" /\ first.atomic /\ ~ first.ambiguousDate
            /\ first.flaws \cap {"secret", "quote"} = {}
            /\ first.evidence \ {Provider!Earlier} # {}
            /\ Provider!Earlier \in first.evidence => first.intent = "confirmation"
            /\ work.system = "system_2" => first.flaws = {}
            /\ work.system = "system_1" =>
                 /\ work.verdict.supported = "yes"
                 /\ work.verdict.atomic /\ work.verdict.categories
                 /\ work.verdict.sensitivity # "RESTRICTED"
                 /\ \A i \in 1 .. work.length :
                       <<i, i>> \in first.evidence /\ i <= Examined =>
                          "hardly" \notin work.marks[i]
      BY DEF Provider!EligibleIsSound
    <2>1. PICK c \in Provider!AllCandidates : c = work.candidate
      BY DEF ProviderInv, Works
    <2>2. /\ Faithful /\ c.flaws = {} /\ Provider!CitesSource(c)
          /\ c.atomic /\ ~ c.ambiguousDate
      BY <2>1 DEF ProviderInv, StagesOK
    <2>3. c.evidence # {}
      BY <2>1 DEF Provider!AllCandidates
    <2>4. c.evidence \ {Provider!Earlier} # {}
      BY <2>2, <2>3 DEF Provider!CitesSource
    <2>5. work.system = "system_1" =>
             \A i \in 1 .. work.length :
                <<i, i>> \in c.evidence /\ i <= Examined => "hardly" \notin work.marks[i]
      BY <2>1, <2>2
         DEF Faithful, Provider!UncertainRequest, Provider!Cited, Provider!Spans
    <2>6. Provider!Earlier \in c.evidence => work.proposal.intent = "confirmation"
      BY <2>1, <2>2 DEF Faithful, Provider!CitesSource
    <2> QED
      BY <2>1, <2>2, <2>4, <2>5, <2>6 DEF Faithful
  <1> QED
    BY <1>1, <1>2

LEMMA ProviderInvariance == Spec => [](part = "provider" => ProviderInv)
  <1>1. Init => (part = "provider" => ProviderInv)
    BY ProviderInit DEF Init
  <1>2. (part = "provider" => ProviderInv) /\ [Next]_vars => (part = "provider" => ProviderInv)'
    <2> SUFFICES ASSUME part = "provider" => ProviderInv, [Next]_vars, part' = "provider"
                 PROVE  ProviderInv'
      OBVIOUS
    <2>1. CASE part = "provider" /\ Provider!ProviderNext
      BY <2>1, ProviderStep
    <2>2. CASE part = "provider" /\ UNCHANGED providerVars
      BY <2>2, ProviderStutter
    <2> QED
      BY <2>1, <2>2 DEF Next, vars
  <1> QED
    BY <1>1, <1>2, PTL DEF Spec

-----------------------------------------------------------------------------
(* Export and import (VaultTransfer) *)

\* What the panel and the requests name has been downloaded.
FilesOK ==
    /\ panel.text # None => file[panel.text] # None
    /\ \A i \in Imports : import[i].phase # "free" =>
          import[i].file # None /\ file[import[i].file] # None

\* A dialog is about a file, and nothing is sent before it is answered.
DialogOK == panel.dialog => panel.text # None /\ panel.busy = None

TransferInv ==
    /\ Transfer!TypeOK
    /\ FilesOK
    /\ DialogOK
    /\ Transfer!DormantStaysDormant

\* A set of numbers has a smallest one.
LEMMA Smallest ==
    ASSUME NEW S, S \subseteq Nat, S # {}
    PROVE  \E n \in S : \A k \in S : n <= k
  <1>1. IsWellFoundedOn(OpToRel(<, Nat), Nat)
    BY NatLessThanWellFounded
  <1>2. PICK x \in S : \A y \in S : ~ (<<y, x>> \in OpToRel(<, Nat))
    BY <1>1, WFMin
  <1>3. \A y \in S : ~ (y < x)
    BY <1>2 DEF OpToRel
  <1> QED
    BY <1>3

LEMMA EmptyName == <<>> \in Transfer!Name
  <1>1. 0 \in 0 .. MaxDepth
    BY TransferAssumption
  <1>2. <<>> \in [1 .. 0 -> 1 .. MaxCopies]
    OBVIOUS
  <1> QED
    BY <1>1, <1>2 DEF Transfer!Name

LEMMA LongerName ==
    ASSUME NEW base \in Transfer!Name, Len(base) < MaxDepth, NEW n \in 1 .. MaxCopies
    PROVE  Append(base, n) \in Transfer!Name
  <1>1. PICK k \in 0 .. MaxDepth : base \in [1 .. k -> 1 .. MaxCopies]
    BY DEF Transfer!Name
  <1>2. k \in Nat /\ base \in Seq(1 .. MaxCopies)
    BY <1>1, TransferAssumption
  <1>3. Len(base) = k
    BY <1>1, <1>2
  <1>4. Append(base, n) \in [1 .. k + 1 -> 1 .. MaxCopies]
    <2>1. /\ Append(base, n) \in Seq(1 .. MaxCopies)
          /\ Len(Append(base, n)) = k + 1
      BY <1>2, <1>3
    <2> QED
      BY <2>1, LenProperties
  <1>5. k + 1 \in 0 .. MaxDepth
    BY <1>2, <1>3, TransferAssumption
  <1> QED
    BY <1>4, <1>5 DEF Transfer!Name

LEMMA UniqueName ==
    ASSUME NEW base \in Transfer!Name, NEW names, Len(base) < MaxDepth,
           Transfer!FreeCopies(base, names) # {}
    PROVE  Transfer!UniqueImportName(base, names) \in Transfer!Name
  <1>1. PICK S : S = Transfer!FreeCopies(base, names)
    OBVIOUS
  <1>2. S \subseteq 1 .. MaxCopies /\ S # {}
    BY <1>1 DEF Transfer!FreeCopies
  <1>3. S \subseteq Nat
    BY <1>2, TransferAssumption
  <1>4. \E n \in S : \A k \in S : n <= k
    BY <1>2, <1>3, Smallest
  <1>5. (CHOOSE n \in S : \A k \in S : n <= k) \in S
    BY <1>4
  <1>6. (CHOOSE n \in S : \A k \in S : n <= k) \in 1 .. MaxCopies
    BY <1>2, <1>5
  <1>7. Transfer!UniqueImportName(base, names)
          = Append(base, CHOOSE n \in S : \A k \in S : n <= k)
    BY <1>1 DEF Transfer!UniqueImportName
  <1> QED
    BY <1>6, <1>7, LongerName

LEMMA TransferInit == Transfer!Init => TransferInv
  <1> SUFFICES ASSUME Transfer!Init PROVE TransferInv
    OBVIOUS
  <1>1. PICK r, a : r = (CHOOSE x \in Rows : TRUE) /\ a = (CHOOSE x \in Apps : TRUE)
    OBVIOUS
  <1>2. a \in Apps
    BY <1>1, TransferAssumption
  <1>3. PICK dated \in BOOLEAN :
           /\ passed = FALSE /\ edits = 0
           /\ row = [x \in Rows |-> IF x = r
                       THEN [status |-> "ACTIVE", dated |-> dated, source |-> a,
                             dormant |-> FALSE]
                       ELSE None]
           /\ app = [x \in Apps |-> IF x = a THEN Transfer!OwnersClient ELSE None]
           /\ queued = {} /\ jobs = 0 /\ reading = None
           /\ file = [f \in Files |-> None]
           /\ panel = Transfer!Idle
           /\ import = [i \in Imports |-> Transfer!NoImport]
    BY <1>1 DEF Transfer!Init
  <1>4. PICK m : m = [status |-> "ACTIVE", dated |-> dated, source |-> a, dormant |-> FALSE]
    OBVIOUS
  <1>5. m \in Transfer!Row /\ ~ m.dormant
    BY <1>2, <1>4 DEF Transfer!Row, Transfer!Statuses
  <1>6. \A x \in Rows : row[x] = m \/ row[x] = None
    BY <1>3, <1>4
  <1>7. row \in [Rows -> Transfer!Row \cup {None}]
    BY <1>3, <1>4, <1>5
  <1>8. app \in [Apps -> Transfer!App \cup {None}]
    BY <1>3, EmptyName DEF Transfer!OwnersClient, Transfer!App
  <1>9. edits \in 0 .. MaxEdits /\ jobs \in 0 .. MaxJobs
    BY <1>3, TransferAssumption
  <1>10. panel \in Transfer!Panel /\ panel.text = None /\ ~ panel.dialog
    BY <1>3 DEF Transfer!Idle, Transfer!Panel, Transfer!Modes
  <1>11. /\ import \in [Imports -> Transfer!Import]
         /\ \A i \in Imports : import[i].phase = "free"
    BY <1>3 DEF Transfer!NoImport, Transfer!Import, Transfer!Modes
  <1>12. Transfer!DormantStaysDormant
    BY <1>3, <1>5, <1>6, TransferAssumption
       DEF Transfer!DormantStaysDormant, Transfer!Live
  <1> QED
    BY <1>3, <1>7, <1>8, <1>9, <1>10, <1>11, <1>12
       DEF TransferInv, Transfer!TypeOK, FilesOK, DialogOK

-----------------------------------------------------------------------------
(* What the owner does meanwhile. *)

\* A step that changes only rows.
LEMMA TransferRows ==
    ASSUME TransferInv,
           row' \in [Rows -> Transfer!Row \cup {None}],
           app' \in [Apps -> Transfer!App \cup {None}],
           edits' \in 0 .. MaxEdits, Transfer!DormantStaysDormant',
           passed' \in BOOLEAN, queued' \subseteq Transfer!Queued,
           UNCHANGED <<jobs, reading, file, panel, import>>
    PROVE  TransferInv'
  BY DEF TransferInv, Transfer!TypeOK, FilesOK, DialogOK

\* A memory that is not dormant, or not retrievable, may take any place.
LEMMA RowWritten ==
    ASSUME TransferInv, NEW r \in Rows, NEW m \in Transfer!Row,
           m.dormant => ~ Transfer!Retrievable(m),
           row' = [row EXCEPT ![r] = m], UNCHANGED <<passed, app>>,
           edits' \in 0 .. MaxEdits, queued' \subseteq queued,
           UNCHANGED <<jobs, reading, file, panel, import>>
    PROVE  TransferInv'
  <1>1. /\ row \in [Rows -> Transfer!Row \cup {None}] /\ queued \subseteq Transfer!Queued
        /\ app \in [Apps -> Transfer!App \cup {None}] /\ passed \in BOOLEAN
    BY DEF TransferInv, Transfer!TypeOK
  <1>2. row' \in [Rows -> Transfer!Row \cup {None}]
    BY <1>1
  <1>3. ASSUME NEW q \in Rows, row'[q] # None, row'[q].dormant
        PROVE  ~ (row'[q].status = "ACTIVE" /\ ~ (row'[q].dated /\ passed))
    <2>1. CASE q = r
      BY <1>1, <1>3, <2>1 DEF Transfer!Retrievable, Transfer!Lapsed
    <2>2. CASE q # r
      BY <1>1, <1>3, <2>2 DEF TransferInv, Transfer!DormantStaysDormant, Transfer!Live,
                              Transfer!Retrievable, Transfer!Lapsed
    <2> QED
      BY <2>1, <2>2
  <1>4. Transfer!DormantStaysDormant'
    BY <1>3 DEF TransferInv, Transfer!DormantStaysDormant, Transfer!Live,
                Transfer!Retrievable, Transfer!Lapsed
  <1> QED
    BY <1>1, <1>2, <1>4, TransferRows

LEMMA OwnerSteps ==
    ASSUME TransferInv,
           \/ \E r \in Rows, s \in Transfer!Statuses, dated \in BOOLEAN :
                Transfer!UpdateMemory(r, s, dated)
           \/ \E r \in Rows, q \in Transfer!Queued : Transfer!ApproveQueued(r, q)
           \/ Transfer!DatePasses
           \/ \E a \in Apps : \/ Transfer!CreateClient(a) \/ Transfer!CreatePolicy(a)
                              \/ Transfer!DeleteClient(a)
    PROVE  TransferInv'
  <1>1. /\ row \in [Rows -> Transfer!Row \cup {None}]
        /\ app \in [Apps -> Transfer!App \cup {None}]
        /\ edits \in 0 .. MaxEdits
        /\ passed \in BOOLEAN /\ queued \subseteq Transfer!Queued
    BY DEF TransferInv, Transfer!TypeOK
  <1>2. ASSUME Transfer!Edit
        PROVE  edits' \in 0 .. MaxEdits
    BY <1>1, <1>2, TransferAssumption DEF Transfer!Edit
  <1>3. ASSUME NEW r \in Rows, NEW s \in Transfer!Statuses, NEW dated \in BOOLEAN,
               Transfer!UpdateMemory(r, s, dated)
        PROVE  TransferInv'
    <2>1. PICK m \in Transfer!Row : m = row[r]
      BY <1>1, <1>3 DEF Transfer!UpdateMemory, Transfer!Live
    <2>2. PICK n : n = [m EXCEPT !.status = s, !.dated = dated, !.dormant = FALSE]
      OBVIOUS
    <2>3. n \in Transfer!Row /\ ~ n.dormant
      BY <2>1, <2>2 DEF Transfer!Row
    <2>4. row' = [row EXCEPT ![r] = n]
      BY <1>1, <1>3, <2>1, <2>2 DEF Transfer!UpdateMemory
    <2> QED
      BY <1>2, <1>3, <2>3, <2>4, RowWritten DEF Transfer!UpdateMemory
  <1>6. ASSUME NEW r \in Rows, NEW q \in Transfer!Queued, Transfer!ApproveQueued(r, q)
        PROVE  TransferInv'
    <2>1. PICK m : m = [status |-> "ACTIVE", dated |-> q.dated, source |-> None,
                        dormant |-> Transfer!Lapsed(q)]
      OBVIOUS
    <2>2. m \in Transfer!Row /\ (m.dormant => ~ Transfer!Retrievable(m))
      BY <1>1, <2>1 DEF Transfer!Row, Transfer!Statuses, Transfer!Queued, Transfer!Lapsed,
                        Transfer!Retrievable
    <2>3. row' = [row EXCEPT ![r] = m] /\ queued' \subseteq queued
      BY <1>6, <2>1 DEF Transfer!ApproveQueued
    <2> QED
      BY <1>1, <1>6, <2>2, <2>3, RowWritten DEF Transfer!ApproveQueued
  <1>7. CASE Transfer!DatePasses
    <2>1. Transfer!DormantStaysDormant'
      BY <1>7 DEF Transfer!DatePasses, TransferInv, Transfer!DormantStaysDormant,
                  Transfer!Live, Transfer!Retrievable, Transfer!Lapsed
    <2> QED
      BY <1>1, <1>7, <2>1, TransferRows DEF Transfer!DatePasses
  <1>4. ASSUME NEW a \in Apps, Transfer!CreateClient(a) \/ Transfer!CreatePolicy(a)
        PROVE  TransferInv'
    <2>1. app' \in [Apps -> Transfer!App \cup {None}]
      <3>1. CASE Transfer!CreateClient(a)
        <4>1. Transfer!OwnersClient \in Transfer!App
          BY EmptyName DEF Transfer!OwnersClient, Transfer!App
        <4> QED
          BY <1>1, <3>1, <4>1 DEF Transfer!CreateClient
      <3>2. CASE Transfer!CreatePolicy(a)
        <4>1. PICK c \in Transfer!App : c = app[a]
          BY <1>1, <3>2 DEF Transfer!CreatePolicy, Transfer!Known
        <4>2. PICK d : d = [c EXCEPT !.policy = TRUE]
          OBVIOUS
        <4>3. d \in Transfer!App
          BY <4>2 DEF Transfer!App
        <4>4. app' = [app EXCEPT ![a] = d]
          BY <3>2, <4>1, <4>2 DEF Transfer!CreatePolicy
        <4> QED
          BY <1>1, <4>3, <4>4
      <3> QED
        BY <1>4, <3>1, <3>2
    <2>2. Transfer!DormantStaysDormant'
      BY <1>4 DEF Transfer!CreateClient, Transfer!CreatePolicy, TransferInv,
                  Transfer!DormantStaysDormant, Transfer!Live, Transfer!Retrievable,
                  Transfer!Lapsed
    <2> QED
      BY <1>1, <1>2, <1>4, <2>1, <2>2, TransferRows
         DEF Transfer!CreateClient, Transfer!CreatePolicy
  <1>5. ASSUME NEW a \in Apps, Transfer!DeleteClient(a)
        PROVE  TransferInv'
    <2>1. app' \in [Apps -> Transfer!App \cup {None}]
      BY <1>1, <1>5 DEF Transfer!DeleteClient
    <2>2. row' = [r \in Rows |-> IF row[r] # None /\ row[r].source = a
                                 THEN [row[r] EXCEPT !.source = None] ELSE row[r]]
      BY <1>5 DEF Transfer!DeleteClient
    <2>3. ASSUME NEW r \in Rows
          PROVE  /\ row'[r] \in Transfer!Row \cup {None}
                 /\ row'[r] = row[r] \/ /\ row[r] # None
                                        /\ row'[r].dormant = row[r].dormant
                                        /\ row'[r].dated = row[r].dated
                                        /\ row'[r].status = row[r].status
      <3>1. CASE row[r] # None /\ row[r].source = a
        <4>1. PICK m \in Transfer!Row : m = row[r]
          BY <1>1, <3>1
        <4>2. row'[r] = [m EXCEPT !.source = None]
          BY <2>2, <3>1, <4>1
        <4> QED
          BY <3>1, <4>1, <4>2 DEF Transfer!Row
      <3>2. CASE ~ (row[r] # None /\ row[r].source = a)
        BY <1>1, <2>2, <3>2
      <3> QED
        BY <3>1, <3>2
    <2>4. row' \in [Rows -> Transfer!Row \cup {None}]
      BY <2>2, <2>3
    <2>5. Transfer!DormantStaysDormant'
      BY <1>5, <2>3
         DEF Transfer!DeleteClient, TransferInv, Transfer!DormantStaysDormant, Transfer!Live,
             Transfer!Retrievable, Transfer!Lapsed
    <2> QED
      BY <1>1, <1>2, <1>5, <2>1, <2>4, <2>5, TransferRows DEF Transfer!DeleteClient
  <1> QED
    BY <1>3, <1>4, <1>5, <1>6, <1>7

-----------------------------------------------------------------------------
(* The export. *)

\* A step that changes only what is being read.
LEMMA ReadingSet ==
    ASSUME TransferInv,
           reading' = None \/ reading' \in [left : SUBSET Transfer!Reads, got : Transfer!Export],
           UNCHANGED <<row, passed, edits, app, queued, jobs, file, panel, import>>
    PROVE  TransferInv'
  BY DEF TransferInv, Transfer!TypeOK, FilesOK, DialogOK, Transfer!DormantStaysDormant,
         Transfer!Live, Transfer!Retrievable, Transfer!Lapsed

LEMMA ReadStep ==
    ASSUME TransferInv, NEW p \in Transfer!Reads, NEW archived \in BOOLEAN,
           Transfer!ReadPart(p, archived)
    PROVE  TransferInv'
  <1>1. PICK r \in [left : SUBSET Transfer!Reads, got : Transfer!Export] : r = reading
    BY DEF Transfer!ReadPart, TransferInv, Transfer!TypeOK
  <1>2. PICK memories, clients, policies :
           /\ memories = Transfer!ExportedRows(archived)
           /\ clients = {<<a, app[a].name>> : a \in Transfer!Known}
           /\ policies = {a \in Transfer!Known : app[a].policy}
    OBVIOUS
  <1>3. memories \in SUBSET (Rows \X Transfer!Row)
    BY <1>2 DEF Transfer!ExportedRows, Transfer!Live, TransferInv, Transfer!TypeOK
  <1>4. clients \in SUBSET (Apps \X Transfer!Name) /\ policies \in SUBSET Apps
    BY <1>2 DEF Transfer!Known, TransferInv, Transfer!TypeOK, Transfer!App
  <1>5. PICK got : got = CASE p = "memories" -> [r.got EXCEPT !.memories = memories]
                           [] p = "clients" -> [r.got EXCEPT !.clients = clients]
                           [] OTHER -> [r.got EXCEPT !.policies = policies]
    OBVIOUS
  <1>6. reading' = [left |-> r.left \ {p}, got |-> got]
    BY <1>1, <1>2, <1>5 DEF Transfer!ReadPart
  <1>7. r.got \in Transfer!Export /\ r.left \in SUBSET Transfer!Reads
    BY <1>1
  <1>8. got \in Transfer!Export
    <2>1. CASE p = "memories"
      <3>1. got = [r.got EXCEPT !.memories = memories]
        BY <1>5, <2>1
      <3> QED
        BY <1>3, <1>7, <3>1 DEF Transfer!Export
    <2>2. CASE p = "clients"
      <3>1. got = [r.got EXCEPT !.clients = clients]
        BY <1>5, <2>2
      <3> QED
        BY <1>4, <1>7, <3>1 DEF Transfer!Export
    <2>3. CASE p # "memories" /\ p # "clients"
      <3>1. got = [r.got EXCEPT !.policies = policies]
        BY <1>5, <2>3
      <3> QED
        BY <1>4, <1>7, <3>1 DEF Transfer!Export
    <2> QED
      BY <2>1, <2>2, <2>3
  <1>9. reading' \in [left : SUBSET Transfer!Reads, got : Transfer!Export]
    BY <1>6, <1>7, <1>8
  <1> QED
    BY <1>9, ReadingSet DEF Transfer!ReadPart

LEMMA ExportSteps ==
    ASSUME TransferInv,
           \/ Transfer!StartExport \/ Transfer!ExportFails
           \/ \E f \in Files : Transfer!Download(f)
    PROVE  TransferInv'
  <1>1. CASE Transfer!StartExport
    <2>1. Transfer!NoExport \in Transfer!Export
      BY DEF Transfer!NoExport, Transfer!Export
    <2> QED
      BY <1>1, <2>1, ReadingSet DEF Transfer!StartExport
  <1>2. CASE Transfer!ExportFails
    BY <1>2, ReadingSet DEF Transfer!ExportFails
  <1>3. ASSUME NEW f \in Files, Transfer!Download(f)
        PROVE  TransferInv'
    <2>1. PICK x \in Transfer!Export : x = reading.got
      BY <1>3 DEF Transfer!Download, TransferInv, Transfer!TypeOK
    <2>2. Transfer!Valid(x) /\ file' = [file EXCEPT ![f] = x] /\ file[f] = None
      BY <1>3, <2>1 DEF Transfer!Download, Transfer!Accepted
    <2>3. file \in [Files -> Transfer!Export \cup {None}]
      BY DEF TransferInv, Transfer!TypeOK
    <2>4. file' \in [Files -> Transfer!Export \cup {None}]
      BY <2>1, <2>2, <2>3
    <2>6. FilesOK'
      <3>1. \A g \in Files : file[g] # None => file'[g] # None
        BY <2>2, <2>3
      <3>2. /\ panel.text \in Files \cup {None}
            /\ \A i \in Imports : import[i].file \in Files \cup {None}
        BY DEF TransferInv, Transfer!TypeOK, Transfer!Panel, Transfer!Import
      <3> QED
        BY <1>3, <3>1, <3>2 DEF TransferInv, FilesOK, Transfer!Download
    <2> QED
      BY <1>3, <2>4, <2>6
         DEF Transfer!Download, TransferInv, Transfer!TypeOK, DialogOK,
             Transfer!DormantStaysDormant, Transfer!Live, Transfer!Retrievable,
             Transfer!Lapsed
  <1> QED
    BY <1>1, <1>2, <1>3

-----------------------------------------------------------------------------
(* The import panel. *)

\* A step that changes only the panel and the requests.
LEMMA PanelSet ==
    ASSUME TransferInv, panel' \in Transfer!Panel,
           import' \in [Imports -> Transfer!Import], FilesOK', DialogOK',
           UNCHANGED <<row, passed, edits, app, queued, jobs, reading, file>>
    PROVE  TransferInv'
  BY DEF TransferInv, Transfer!TypeOK, Transfer!DormantStaysDormant, Transfer!Live,
         Transfer!Retrievable, Transfer!Lapsed

LEMMA PanelSteps ==
    ASSUME TransferInv,
           \/ \E f \in Files : Transfer!Load(f)
           \/ \E mode \in Transfer!Modes : Transfer!SetMode(mode)
           \/ Transfer!PreviewImport \/ Transfer!PreviewAnswered \/ Transfer!PreviewFails
           \/ Transfer!Dismiss
           \/ \E i \in Imports : Transfer!ImportLost(i)
    PROVE  TransferInv'
  <1>1. panel \in Transfer!Panel /\ import \in [Imports -> Transfer!Import]
    BY DEF TransferInv, Transfer!TypeOK
  <1>2. UNCHANGED <<row, passed, edits, app, queued, jobs, reading, file, import>>
    BY DEF Transfer!Load, Transfer!SetMode, Transfer!PreviewImport, Transfer!PreviewAnswered,
           Transfer!PreviewFails, Transfer!Dismiss, Transfer!ImportLost
  <1> DEFINE Moved ==
        /\ panel' \in Transfer!Panel
        /\ \/ panel'.text = panel.text
           \/ panel'.text \in Files /\ file[panel'.text] # None /\ ~ panel.dialog
        /\ panel'.dialog => panel.dialog /\ panel'.busy \in {panel.busy, None}
  <1>3. Moved
    <2>1. ASSUME NEW f \in Files, Transfer!Load(f)
          PROVE  Moved
      BY <1>1, <2>1 DEF Transfer!Load, Transfer!Panel
    <2>2. ASSUME NEW mode \in Transfer!Modes, Transfer!SetMode(mode)
          PROVE  Moved
      BY <1>1, <2>2 DEF Transfer!SetMode, Transfer!Panel
    <2>3. CASE Transfer!PreviewImport
      BY <1>1, <2>3 DEF Transfer!PreviewImport, Transfer!Panel
    <2>4. CASE Transfer!PreviewAnswered
      <3>1. PICK s \in Files \cup {None} :
               s = IF Transfer!Valid(file[panel.previewing]) THEN panel.previewing ELSE None
        BY <1>1 DEF Transfer!Panel
      <3>2. panel' = [panel EXCEPT !.previewing = None, !.shown = s]
        BY <2>4, <3>1 DEF Transfer!PreviewAnswered
      <3> QED
        BY <1>1, <3>2 DEF Transfer!Panel
    <2>5. CASE Transfer!PreviewFails
      BY <1>1, <2>5 DEF Transfer!PreviewFails, Transfer!Panel
    <2>6. CASE Transfer!Dismiss
      BY <1>1, <2>6 DEF Transfer!Dismiss, Transfer!Panel
    <2>7. ASSUME NEW i \in Imports, Transfer!ImportLost(i)
          PROVE  Moved
      BY <1>1, <2>7 DEF Transfer!ImportLost, Transfer!Panel
    <2> QED
      BY <2>1, <2>2, <2>3, <2>4, <2>5, <2>6, <2>7
  <1>4. FilesOK'
    BY <1>2, <1>3 DEF TransferInv, FilesOK
  <1>5. DialogOK'
    BY <1>3 DEF TransferInv, DialogOK
  <1> QED
    BY <1>1, <1>2, <1>3, <1>4, <1>5, PanelSet

LEMMA SentStep ==
    ASSUME TransferInv, NEW i \in Imports, Transfer!Send(i, panel.text, panel.mode),
           panel.text # None, UNCHANGED <<row, passed, edits, app, queued, jobs, reading, file>>
    PROVE  TransferInv'
  <1>1. panel \in Transfer!Panel /\ import \in [Imports -> Transfer!Import]
    BY DEF TransferInv, Transfer!TypeOK
  <1>2. PICK s : s = [Transfer!NoImport EXCEPT !.phase = "sent", !.file = panel.text,
                                               !.mode = panel.mode]
    OBVIOUS
  <1>3. s \in Transfer!Import /\ s.file = panel.text
    BY <1>1, <1>2 DEF Transfer!NoImport, Transfer!Import, Transfer!Panel, Transfer!Modes
  <1>4. import' = [import EXCEPT ![i] = s]
        /\ panel' = [panel EXCEPT !.busy = i, !.dialog = FALSE]
    BY <1>2 DEF Transfer!Send
  <1>5. import' \in [Imports -> Transfer!Import]
    BY <1>1, <1>3, <1>4
  <1>6. panel' \in Transfer!Panel /\ ~ panel'.dialog /\ panel'.text = panel.text
    BY <1>1, <1>4 DEF Transfer!Panel
  <1>7. FilesOK'
    BY <1>1, <1>3, <1>4, <1>6 DEF TransferInv, FilesOK
  <1> QED
    BY <1>5, <1>6, <1>7, PanelSet DEF DialogOK

LEMMA ApplySteps ==
    ASSUME TransferInv, NEW i \in Imports, Transfer!ApplyImport(i) \/ Transfer!Confirm(i)
    PROVE  TransferInv'
  <1>1. panel \in Transfer!Panel /\ import \in [Imports -> Transfer!Import]
    BY DEF TransferInv, Transfer!TypeOK
  <1>2. CASE Transfer!Confirm(i)
    BY <1>2, SentStep DEF Transfer!Confirm, TransferInv, DialogOK
  <1>3. CASE Transfer!ApplyImport(i) /\ ~ Transfer!HighImpact
    BY <1>3, SentStep DEF Transfer!ApplyImport
  <1>4. CASE Transfer!ApplyImport(i) /\ Transfer!HighImpact
    <2>1. panel' = [panel EXCEPT !.dialog = TRUE] /\ UNCHANGED import
          /\ UNCHANGED <<row, passed, edits, app, queued, jobs, reading, file>>
          /\ panel.busy = None /\ panel.text # None
      BY <1>4 DEF Transfer!ApplyImport, Transfer!Busy
    <2>2. panel' \in Transfer!Panel /\ panel'.text = panel.text /\ panel'.busy = panel.busy
      BY <1>1, <2>1 DEF Transfer!Panel
    <2>3. FilesOK' /\ DialogOK'
      BY <2>1, <2>2 DEF TransferInv, FilesOK, DialogOK
    <2> QED
      BY <1>1, <2>1, <2>2, <2>3, PanelSet
  <1> QED
    BY <1>2, <1>3, <1>4

-----------------------------------------------------------------------------
(* The import's transaction. *)

LEMMA BeginOrFail ==
    ASSUME TransferInv, NEW i \in Imports,
           Transfer!BeginImport(i) \/ Transfer!ImportFails(i)
    PROVE  TransferInv'
  <1>1. panel \in Transfer!Panel /\ import \in [Imports -> Transfer!Import]
    BY DEF TransferInv, Transfer!TypeOK
  <1>2. CASE Transfer!BeginImport(i)
    <2>1. PICK names : names = Transfer!Names
      OBVIOUS
    <2>2. names \in SUBSET Transfer!Name
      BY <2>1 DEF Transfer!Names, Transfer!Known, TransferInv, Transfer!TypeOK, Transfer!App
    <2>3. PICK s : s = [import[i] EXCEPT !.phase = "writing", !.names = names]
      OBVIOUS
    <2>4. s \in Transfer!Import /\ s.file = import[i].file
      BY <1>1, <2>2, <2>3 DEF Transfer!Import
    <2>5. import' = [import EXCEPT ![i] = s] /\ import[i].phase # "free"
      BY <1>1, <1>2, <2>1, <2>3 DEF Transfer!BeginImport
    <2>6. import' \in [Imports -> Transfer!Import]
      BY <1>1, <2>4, <2>5
    <2>7. FilesOK'
      BY <1>1, <1>2, <2>4, <2>5 DEF TransferInv, FilesOK, Transfer!BeginImport
    <2>8. DialogOK'
      BY <1>2 DEF TransferInv, DialogOK, Transfer!BeginImport
    <2> QED
      BY <1>1, <1>2, <2>6, <2>7, <2>8, PanelSet DEF Transfer!BeginImport
  <1>3. CASE Transfer!ImportFails(i)
    <2>1. Transfer!NoImport \in Transfer!Import /\ Transfer!NoImport.phase = "free"
      BY DEF Transfer!NoImport, Transfer!Import, Transfer!Modes
    <2>2. import' \in [Imports -> Transfer!Import]
      BY <1>1, <1>3, <2>1 DEF Transfer!ImportFails
    <2>3. /\ panel' \in Transfer!Panel /\ panel'.text = panel.text
          /\ panel'.dialog = panel.dialog /\ panel'.busy \in {panel.busy, None}
      BY <1>1, <1>3 DEF Transfer!ImportFails, Transfer!Panel
    <2>4. FilesOK'
      BY <1>1, <1>3, <2>1, <2>3 DEF TransferInv, FilesOK, Transfer!ImportFails
    <2>5. DialogOK'
      BY <2>3 DEF TransferInv, DialogOK
    <2> QED
      BY <1>3, <2>2, <2>3, <2>4, <2>5, PanelSet DEF Transfer!ImportFails
  <1> QED
    BY <1>2, <1>3

ComesUntrusted(a) == app[a] = None /\ ~ app'[a].trusted /\ ~ app'[a].token

ComesAsItWas(r) ==
    /\ row[r] = None
    /\ row'[r].dormant => ~ Transfer!Retrievable(row'[r])
    /\ row'[r].source # None =>
          row'[r].source \in Apps \ Transfer!Known /\ app'[row'[r].source] # None

\* What the transaction writes.  Its clients are new ones without trust or
\* token, and its memory goes to a place where there was none.
LEMMA CommitWrites ==
    ASSUME TransferInv, NEW i \in Imports, Transfer!CommitImport(i)
    PROVE  /\ app' \in [Apps -> Transfer!App \cup {None}]
           /\ row' \in [Rows -> Transfer!Row \cup {None}]
           /\ \A a \in Apps : app'[a] = app[a] \/ ComesUntrusted(a)
           /\ \A r \in Rows : row'[r] = row[r] \/ ComesAsItWas(r)
           /\ queued' \subseteq Transfer!Queued
           /\ \A q \in queued' : q.status # "ARCHIVED"
  <1> DEFINE x == file[import[i].file]
             memories == {p[2] : p \in x.memories}
             mode == import[i].mode
             names == import[i].names
             restored == {m \in memories : Transfer!Restored(m, mode)}
             free == Apps \ Transfer!Known
             open == Rows \ Transfer!Live
             rename(c) == Transfer!UniqueImportName(c[2], names)
             clientId(fresh, a) == Transfer!ImportedClient(x, a, fresh)
             newApp(fresh, a) ==
                IF \E c \in x.clients : clientId(fresh, c[1]) = a
                THEN [name |-> rename(CHOOSE c \in x.clients : TRUE),
                      trusted |-> FALSE, token |-> FALSE,
                      policy |-> \E b \in x.policies : clientId(fresh, b) = a]
                ELSE app[a]
             newRow(fresh, place, r) ==
                IF r = place
                THEN LET m == CHOOSE m1 \in restored : TRUE
                     IN Transfer!RestoreExportedMemory(m, clientId(fresh, m.source))
                ELSE row[r]
  <1>8. PICK fresh \in IF x.clients = {} THEN {None} ELSE free,
             place \in IF restored = {} THEN {None} ELSE open :
          /\ app' = [a \in Apps |-> newApp(fresh, a)]
          /\ row' = [r \in Rows |-> newRow(fresh, place, r)]
    BY DEF Transfer!CommitImport
  <1>7. /\ \A c \in x.clients : Transfer!FreeCopies(c[2], names) # {} /\ Len(c[2]) < MaxDepth
        /\ queued' = queued \cup {[status |-> m.status, dated |-> m.dated] :
                                    m \in memories \ restored}
    BY DEF Transfer!CommitImport
  <1>1. x \in Transfer!Export
    BY DEF Transfer!CommitImport, TransferInv, Transfer!TypeOK, Transfer!Import, FilesOK
  <1>3. memories \subseteq Transfer!Row
    BY <1>1 DEF Transfer!Export
  <1>5. restored \subseteq memories
        /\ \A m \in memories \ restored : m.status # "ARCHIVED"
    BY DEF Transfer!Restored
  <1>6. free \subseteq Apps /\ (\A a \in free : app[a] = None)
        /\ \A r \in open : row[r] = None
    BY DEF Transfer!Known, Transfer!Live
  <1> HIDE DEF x, memories, mode, names, restored, free, open
  <1>9. \A a : clientId(fresh, a) \in {fresh, None}
    BY DEF Transfer!ImportedClient, Transfer!MappedClient
  <1>10. clientId(fresh, None) \in Apps \cup {None}
         /\ \A a : clientId(fresh, a) \in Apps \cup {None}
    BY <1>6, <1>8, <1>9
  <1>11. \A c \in x.clients : clientId(fresh, c[1]) = fresh /\ fresh \in free
    BY <1>6, <1>8 DEF Transfer!ImportedClient, Transfer!MappedClient
  <1>12. \A c \in x.clients : rename(c) \in Transfer!Name
    <2> SUFFICES ASSUME NEW c \in x.clients PROVE rename(c) \in Transfer!Name
      OBVIOUS
    <2>1. c[2] \in Transfer!Name
      BY <1>1 DEF Transfer!Export
    <2> QED
      BY <1>7, <2>1, UniqueName
  <1>13. app \in [Apps -> Transfer!App \cup {None}] /\ row \in [Rows -> Transfer!Row \cup {None}]
         /\ queued \subseteq Transfer!Queued /\ passed \in BOOLEAN
    BY DEF TransferInv, Transfer!TypeOK
  <1>14. /\ \A a \in Apps : app'[a] \in Transfer!App \cup {None}
         /\ \A a \in Apps : app'[a] = app[a] \/ ComesUntrusted(a)
    <2> SUFFICES ASSUME NEW a \in Apps
                 PROVE  /\ app'[a] \in Transfer!App \cup {None}
                        /\ app'[a] = app[a] \/ ComesUntrusted(a)
      OBVIOUS
    <2>1. CASE \E c \in x.clients : clientId(fresh, c[1]) = a
      <3>1. (CHOOSE c \in x.clients : TRUE) \in x.clients
        BY <2>1
      <3>2. PICK n \in Transfer!Name : n = rename(CHOOSE c \in x.clients : TRUE)
        BY <1>12, <3>1
      <3>3. PICK b \in BOOLEAN : b = (\E q \in x.policies : clientId(fresh, q) = a)
        OBVIOUS
      <3>4. app'[a] = [name |-> n, trusted |-> FALSE, token |-> FALSE, policy |-> b]
        BY <1>8, <2>1, <3>2, <3>3
      <3>5. a = fresh /\ fresh \in free
        BY <1>11, <2>1
      <3>6. app[a] = None
        BY <1>6, <3>5
      <3> QED
        BY <3>4, <3>6 DEF Transfer!App, ComesUntrusted
    <2>2. CASE ~ \E c \in x.clients : clientId(fresh, c[1]) = a
      BY <1>8, <1>13, <2>2
    <2> QED
      BY <2>1, <2>2
  <1>15. /\ \A r \in Rows : row'[r] \in Transfer!Row \cup {None}
         /\ \A r \in Rows : row'[r] = row[r] \/ ComesAsItWas(r)
    <2> SUFFICES ASSUME NEW r \in Rows
                 PROVE  /\ row'[r] \in Transfer!Row \cup {None}
                        /\ row'[r] = row[r] \/ ComesAsItWas(r)
      OBVIOUS
    <2>1. CASE r = place
      <3>1. restored # {} /\ r \in open
        BY <1>8, <2>1, TransferAssumption
      <3>2. PICK m \in restored : m = (CHOOSE m1 \in restored : TRUE)
        BY <3>1
      <3>3. PICK s \in Apps \cup {None} : s = clientId(fresh, m.source)
        BY <1>10
      <3>4. row'[r] = Transfer!RestoreExportedMemory(m, s)
        BY <1>8, <2>1, <3>2, <3>3
      <3>5. m \in Transfer!Row
        BY <1>3, <1>5
      <3>6. PICK status \in Transfer!Statuses : status = Transfer!ImportedActiveStatus(m)
        BY DEF Transfer!ImportedActiveStatus, Transfer!Statuses
      <3>7. PICK d : d = (m.status \in {"ARCHIVED", "EXPIRED"} \/ Transfer!Lapsed(m))
        OBVIOUS
      <3>8. row'[r] = [status |-> status, dated |-> m.dated, source |-> s, dormant |-> d]
        BY <3>4, <3>6, <3>7 DEF Transfer!RestoreExportedMemory
      <3>9. row[r] = None
        BY <1>6, <3>1
      <3>10. d \in BOOLEAN /\ (d => status # "ACTIVE")
        BY <3>6, <3>7 DEF Transfer!ImportedActiveStatus
      <3>11. s # None => s = fresh /\ fresh \in free /\ app'[fresh] # None
        <4> SUFFICES ASSUME s # None
                     PROVE  s = fresh /\ fresh \in free /\ app'[fresh] # None
          OBVIOUS
        <4>1. PICK c \in x.clients : c[1] = m.source
          BY <3>3 DEF Transfer!ImportedClient
        <4>2. clientId(fresh, c[1]) = fresh /\ fresh \in free
          BY <1>11, <4>1
        <4>3. s = fresh
          BY <3>3, <4>1, <4>2
        <4>4. (\E c1 \in x.clients : clientId(fresh, c1[1]) = fresh) /\ fresh \in Apps
          BY <1>6, <4>1, <4>2
        <4>5. app'[fresh] = newApp(fresh, fresh)
          BY <1>8, <4>4
        <4>6. newApp(fresh, fresh)
                = [name |-> rename(CHOOSE c1 \in x.clients : TRUE),
                   trusted |-> FALSE, token |-> FALSE,
                   policy |-> \E b \in x.policies : clientId(fresh, b) = fresh]
          BY <4>4
        <4>7. app'[fresh] \in Transfer!App
          <5>1. (CHOOSE c1 \in x.clients : TRUE) \in x.clients
            BY <4>1
          <5>2. PICK n \in Transfer!Name : n = rename(CHOOSE c1 \in x.clients : TRUE)
            BY <1>12, <5>1
          <5>3. PICK b \in BOOLEAN : b = (\E q \in x.policies : clientId(fresh, q) = fresh)
            OBVIOUS
          <5>4. app'[fresh] = [name |-> n, trusted |-> FALSE, token |-> FALSE, policy |-> b]
            BY <4>5, <4>6, <5>2, <5>3
          <5> HIDE DEF newApp
          <5> QED
            BY <5>4 DEF Transfer!App
        <4> QED
          BY <4>2, <4>3, <4>7, TransferAssumption
      <3>12. row'[r] \in Transfer!Row
        BY <3>5, <3>8, <3>10 DEF Transfer!Row
      <3>13. row'[r].dormant => ~ Transfer!Retrievable(row'[r])
        BY <3>8, <3>10 DEF Transfer!Retrievable
      <3>14. row'[r].source # None =>
                row'[r].source \in Apps \ Transfer!Known /\ app'[row'[r].source] # None
        BY <3>8, <3>11 DEF free
      <3> QED
        BY <3>9, <3>12, <3>13, <3>14 DEF ComesAsItWas
    <2>2. CASE r # place
      BY <1>8, <1>13, <2>2
    <2> QED
      BY <2>1, <2>2
  <1>16. \A m \in memories \ restored :
            /\ [status |-> m.status, dated |-> m.dated] \in Transfer!Queued
            /\ m.status # "ARCHIVED"
    BY <1>3, <1>5 DEF Transfer!Row, Transfer!Queued
  <1>17. \A q \in queued' : q.status # "ARCHIVED"
    BY <1>7, <1>16 DEF TransferInv, Transfer!DormantStaysDormant
  <1>18. queued' \subseteq Transfer!Queued
    BY <1>7, <1>13, <1>16
  <1> HIDE DEF newApp, newRow
  <1>19. /\ app' \in [Apps -> Transfer!App \cup {None}]
         /\ row' \in [Rows -> Transfer!Row \cup {None}]
    BY <1>8, <1>14, <1>15
  <1> QED
    BY <1>14, <1>15, <1>17, <1>18, <1>19

LEMMA CommitStep ==
    ASSUME TransferInv, NEW i \in Imports, Transfer!CommitImport(i)
    PROVE  TransferInv' /\ Transfer!ImportsOnlyAdd
  <1>1. /\ panel \in Transfer!Panel /\ import \in [Imports -> Transfer!Import]
        /\ jobs \in 0 .. MaxJobs
    BY DEF TransferInv, Transfer!TypeOK
  <1>2. jobs' \in 0 .. MaxJobs
    <2>1. jobs < MaxJobs /\ jobs' = jobs + 1
      BY DEF Transfer!CommitImport
    <2> QED
      BY <1>1, <2>1, TransferAssumption
  <1>3. /\ import' = [import EXCEPT ![i] = Transfer!NoImport]
        /\ panel' = IF panel.busy = i
                    THEN [panel EXCEPT !.busy = None, !.shown = None, !.text = None]
                    ELSE panel
        /\ UNCHANGED <<passed, edits, reading, file>>
    BY DEF Transfer!CommitImport
  <1>4. Transfer!NoImport \in Transfer!Import /\ Transfer!NoImport.phase = "free"
    BY DEF Transfer!NoImport, Transfer!Import, Transfer!Modes
  <1>5. import' \in [Imports -> Transfer!Import]
    BY <1>1, <1>3, <1>4
  <1>6. panel' \in Transfer!Panel /\ panel'.text \in {panel.text, None}
    BY <1>1, <1>3 DEF Transfer!Panel
  <1>7. FilesOK'
    BY <1>1, <1>3, <1>4, <1>6 DEF TransferInv, FilesOK
  <1>8. DialogOK'
    <2>1. CASE panel.busy = i
      <3>1. ~ panel.dialog
        BY <2>1, TransferAssumption DEF TransferInv, DialogOK
      <3>2. panel'.dialog = panel.dialog
        BY <1>1, <1>3 DEF Transfer!Panel
      <3> QED
        BY <3>1, <3>2 DEF DialogOK
    <2>2. CASE panel.busy # i
      BY <1>3, <2>2 DEF TransferInv, DialogOK
    <2> QED
      BY <2>1, <2>2
  <1>9. Transfer!DormantStaysDormant'
    <2>1. ASSUME NEW r \in Rows, row'[r] # None, row'[r].dormant
          PROVE  ~ (row'[r].status = "ACTIVE" /\ ~ (row'[r].dated /\ passed'))
      BY <1>3, <2>1, CommitWrites
         DEF TransferInv, Transfer!DormantStaysDormant, Transfer!Live, ComesAsItWas,
             Transfer!Retrievable, Transfer!Lapsed
    <2> QED
      BY <2>1, CommitWrites DEF Transfer!DormantStaysDormant, Transfer!Live,
                                Transfer!Retrievable, Transfer!Lapsed
  <1>11. Transfer!ImportsOnlyAdd
    BY CommitWrites
       DEF Transfer!ImportsOnlyAdd, Transfer!Known, Transfer!Live, ComesUntrusted,
           ComesAsItWas
  <1> QED
    BY <1>2, <1>3, <1>5, <1>6, <1>7, <1>8, <1>9, <1>11, CommitWrites
       DEF TransferInv, Transfer!TypeOK

LEMMA TransferStep ==
    ASSUME TransferInv, Transfer!Next
    PROVE  TransferInv'
  BY OwnerSteps, ReadStep, ExportSteps, PanelSteps, ApplySteps, BeginOrFail, CommitStep
     DEF Transfer!Next

LEMMA TransferStutter ==
    ASSUME TransferInv, UNCHANGED transferVars
    PROVE  TransferInv'
  BY DEF TransferInv, transferVars, Transfer!TypeOK, FilesOK, DialogOK,
         Transfer!DormantStaysDormant, Transfer!Live, Transfer!Retrievable,
         Transfer!Lapsed

LEMMA TransferSteps ==
    ASSUME TransferInv, Transfer!Next
    PROVE  Transfer!ImportsOnlyAdd
  <1>1. CASE UNCHANGED jobs
    BY <1>1 DEF Transfer!ImportsOnlyAdd
  <1> QED
    BY <1>1, CommitStep
       DEF Transfer!Next, Transfer!UpdateMemory, Transfer!ApproveQueued, Transfer!DatePasses,
           Transfer!CreateClient, Transfer!CreatePolicy,
           Transfer!DeleteClient, Transfer!StartExport, Transfer!ExportFails,
           Transfer!ReadPart, Transfer!Download, Transfer!Load, Transfer!SetMode,
           Transfer!PreviewImport, Transfer!PreviewAnswered, Transfer!PreviewFails,
           Transfer!Dismiss, Transfer!ApplyImport, Transfer!Confirm, Transfer!ImportLost,
           Transfer!BeginImport, Transfer!ImportFails

LEMMA TransferInvariance == Spec => [](part = "transfer" => TransferInv)
  <1>1. Init => (part = "transfer" => TransferInv)
    BY TransferInit DEF Init
  <1>2. (part = "transfer" => TransferInv) /\ [Next]_vars => (part = "transfer" => TransferInv)'
    <2> SUFFICES ASSUME part = "transfer" => TransferInv, [Next]_vars, part' = "transfer"
                 PROVE  TransferInv'
      OBVIOUS
    <2>1. CASE part = "transfer" /\ Transfer!Next
      BY <2>1, TransferStep
    <2>2. CASE part = "transfer" /\ UNCHANGED transferVars
      BY <2>2, TransferStutter
    <2> QED
      BY <2>1, <2>2 DEF Next, vars
  <1> QED
    BY <1>1, <1>2, PTL DEF Spec

-----------------------------------------------------------------------------
(* Memories and their index (MemoryIndex) *)

\* Nothing is under way before there is a memory, and an update that was read
\* knows the status it read if it changes it.
RequestsOK ==
    \A q \in Requests :
        /\ memory = None => request[q].phase = "idle"
        /\ request[q].phase = "read" =>
              /\ request[q].patch \in Index!Patch
              /\ request[q].patch[1] = "status" => request[q].before \in Index!Statuses

\* A job has a run, and one that waits may be given out once more.
JobsOK ==
    \A r \in Runs :
        /\ memory = None => run[r] = None
        /\ job[r] # None => run[r] # None
        /\ job[r] # None /\ job[r].at = "waiting" => job[r].given < MaxDeliveries

WorkerOK ==
    /\ worker.phase # "idle" =>
          worker.run \in Runs /\ job[worker.run] # None /\ run[worker.run] # None
    /\ worker.phase \in {"generate", "store"} => worker.content # None

Latest(r) == run[r] # None /\ run[r].latest

\* What the worker read for the latest run is what the memory still says.
LatestOK ==
    worker.phase # "idle" /\ Latest(worker.run) =>
        /\ worker.phase = "clear" => ~ Index!IsEmbeddable(memory)
        /\ worker.phase \in {"generate", "store"} => worker.content = Index!ContentOf(memory)
        /\ worker.phase \in {"done", "ack"} /\ Index!IsEmbeddable(memory) =>
              Index!ContentOf(memory) \in vectors.of

\* No vector is taken from the latest run that has succeeded.
ClearOK ==
    worker.phase = "clear" =>
        \A r \in Runs : Latest(r) /\ run[r].status = "SUCCEEDED" =>
            ~ Index!IsEmbeddable(memory)

IndexInv ==
    /\ Index!IndexTypeOK
    /\ RequestsOK
    /\ JobsOK
    /\ WorkerOK
    /\ LatestOK
    /\ ClearOK
    /\ Index!HistoryTellsStatus
    /\ Index!CurrentIsEmbedded

\* A search by meaning joins only memories that may be embedded.
LEMMA IndexHolds ==
    IndexInv => /\ Index!IndexTypeOK
                /\ Index!HistoryTellsStatus
                /\ Index!CurrentIsEmbedded
                /\ Index!DormantNotFoundByMeaning
  BY DEF IndexInv, Index!DormantNotFoundByMeaning, Index!FoundByMeaning,
         Index!SemanticMatch, Index!Joined, Index!IsEmbeddable

LEMMA IndexInit == Index!IndexInit => IndexInv
  <1> SUFFICES ASSUME Index!IndexInit PROVE IndexInv
    OBVIOUS
  <1>1. /\ memory \in Index!Memory \cup {None}
        /\ told \in Index!Entry \cup {None}
        /\ vectors \in Index!Vectors
        /\ Index!HistoryTellsStatus
    <2>1. CASE memory = None
      <3>1. \A t \in FirstTexts : [text |-> t, status |-> "ACTIVE", level |-> "NORMAL"] # None
        BY IndexAssumption DEF Index!Memory, Index!Statuses, Index!Levels
      <3>2. told = None /\ vectors = Index!NoVectors
        BY <2>1, <3>1 DEF Index!IndexInit
      <3> QED
        BY <2>1, <3>2 DEF Index!NoVectors, Index!Vectors, Index!HistoryTellsStatus
    <2>2. CASE memory # None
      <3>1. PICK t \in FirstTexts :
               memory = [text |-> t, status |-> "ACTIVE", level |-> "NORMAL"]
        BY <2>2 DEF Index!IndexInit
      <3>2. PICK c : c = Index!ContentOf(memory)
        OBVIOUS
      <3>3. c \in Index!Content
        BY <3>1, <3>2, IndexAssumption DEF Index!ContentOf, Index!Content, Index!Levels
      <3>4. vectors = [of |-> {c}, latest |-> c]
            /\ told = [type |-> "CREATED", status |-> "ACTIVE"]
        BY <2>2, <3>2 DEF Index!IndexInit
      <3> QED
        BY <3>1, <3>3, <3>4, IndexAssumption
           DEF Index!Memory, Index!Statuses, Index!Levels, Index!Entry, Index!Vectors,
               Index!HistoryTellsStatus
    <2> QED
      BY <2>1, <2>2
  <1>2. /\ version \in 0 .. MaxVersion
        /\ request \in [Requests -> Index!Request]
        /\ \A q \in Requests : request[q].phase = "idle"
        /\ redis \in BOOLEAN
        /\ run = [r \in Runs |-> None] /\ job = [r \in Runs |-> None]
        /\ worker \in Index!Worker /\ worker.phase = "idle"
    BY IndexAssumption
       DEF Index!IndexInit, Index!NoRequest, Index!Request, Index!IdleWorker, Index!Worker
  <1> QED
    BY <1>1, <1>2
       DEF IndexInv, Index!IndexTypeOK, RequestsOK, JobsOK, WorkerOK, LatestOK, ClearOK,
           Index!CurrentIsEmbedded

-----------------------------------------------------------------------------
(* The owner's requests. *)

LEMMA RequestSet ==
    ASSUME IndexInv, NEW q \in Requests, NEW n \in Index!Request,
           request' = [request EXCEPT ![q] = n],
           memory = None => n.phase = "idle",
           n.phase = "read" =>
              /\ n.patch \in Index!Patch
              /\ n.patch[1] = "status" => n.before \in Index!Statuses,
           UNCHANGED memory
    PROVE  request' \in [Requests -> Index!Request] /\ RequestsOK'
  <1>1. request \in [Requests -> Index!Request]
    BY DEF IndexInv, Index!IndexTypeOK
  <1>2. ASSUME NEW x \in Requests
        PROVE  request'[x] = IF x = q THEN n ELSE request[x]
    BY <1>1
  <1> QED
    BY <1>1, <1>2 DEF IndexInv, RequestsOK

LEMMA OnlyRequests ==
    ASSUME IndexInv, request' \in [Requests -> Index!Request], RequestsOK',
           UNCHANGED <<memory, version, told, redis, run, job, worker, vectors>>
    PROVE  IndexInv'
  BY DEF IndexInv, Index!IndexTypeOK, JobsOK, WorkerOK, LatestOK, ClearOK, Latest,
         Index!HistoryTellsStatus, Index!CurrentIsEmbedded

LEMMA RequestSteps ==
    ASSUME IndexInv, NEW q \in Requests,
           \/ \E patch \in Patches, delete \in BOOLEAN : Index!ReadForUpdate(q, patch, delete)
           \/ \E r \in Runs : Index!RetryJob(q, r)
           \/ Index!UpdateFails(q) \/ Index!EnqueueLost(q)
    PROVE  IndexInv'
  <1>1. CASE \E patch \in Patches, delete \in BOOLEAN : Index!ReadForUpdate(q, patch, delete)
    <2>1. PICK patch \in Patches, delete \in BOOLEAN : Index!ReadForUpdate(q, patch, delete)
      BY <1>1
    <2>2. PICK before : before = IF patch[1] = "status" THEN memory.status ELSE None
      OBVIOUS
    <2>3. memory \in Index!Memory /\ patch \in Index!Patch
      BY <2>1, IndexAssumption DEF Index!ReadForUpdate, IndexInv, Index!IndexTypeOK
    <2>4. /\ before \in Index!Statuses \cup {None}
          /\ patch[1] = "status" => before \in Index!Statuses
      BY <2>2, <2>3 DEF Index!Memory
    <2>5. PICK n : n = [Index!NoRequest EXCEPT !.phase = "read", !.patch = patch,
                                               !.delete = delete, !.before = before]
      OBVIOUS
    <2>6. n \in Index!Request /\ n.phase = "read" /\ n.patch = patch /\ n.before = before
      BY <2>3, <2>4, <2>5 DEF Index!NoRequest, Index!Request
    <2>7. request' = [request EXCEPT ![q] = n] /\ memory # None
          /\ UNCHANGED <<memory, version, told, redis, run, job, worker, vectors>>
      BY <2>1, <2>2, <2>5 DEF Index!ReadForUpdate
    <2>8. request' \in [Requests -> Index!Request] /\ RequestsOK'
      BY <2>3, <2>4, <2>6, <2>7, RequestSet
    <2> QED
      BY <2>7, <2>8, OnlyRequests
  <1>2. CASE \E r \in Runs : Index!RetryJob(q, r)
    <2>1. PICK n : n = [Index!NoRequest EXCEPT !.phase = "enqueue", !.latest = TRUE]
      OBVIOUS
    <2>2. n \in Index!Request /\ n.phase = "enqueue"
      BY <2>1 DEF Index!NoRequest, Index!Request
    <2>3. request' = [request EXCEPT ![q] = n] /\ memory # None
          /\ UNCHANGED <<memory, version, told, redis, run, job, worker, vectors>>
      BY <1>2, <2>1 DEF Index!RetryJob, IndexInv, JobsOK
    <2>4. request' \in [Requests -> Index!Request] /\ RequestsOK'
      BY <2>2, <2>3, RequestSet
    <2> QED
      BY <2>3, <2>4, OnlyRequests
  <1>3. CASE Index!UpdateFails(q) \/ Index!EnqueueLost(q)
    <2>1. Index!NoRequest \in Index!Request /\ Index!NoRequest.phase = "idle"
      BY DEF Index!NoRequest, Index!Request
    <2>2. request' = [request EXCEPT ![q] = Index!NoRequest]
          /\ UNCHANGED <<memory, version, told, redis, run, job, worker, vectors>>
      BY <1>3 DEF Index!UpdateFails, Index!EnqueueLost
    <2>3. request' \in [Requests -> Index!Request] /\ RequestsOK'
      BY <2>1, <2>2, RequestSet
    <2> QED
      BY <2>2, <2>3, OnlyRequests
  <1> QED
    BY <1>1, <1>2, <1>3

LEMMA CreateMemoryStep ==
    ASSUME IndexInv, NEW q \in Requests, NEW t \in FirstTexts,
           NEW status \in Index!Statuses, Index!CreateMemory(q, t, status)
    PROVE  IndexInv'
  <1>1. version' \in 0 .. MaxVersion
    <2>1. version \in 0 .. MaxVersion /\ version < MaxVersion /\ version' = version + 1
      BY DEF Index!CreateMemory, IndexInv, Index!IndexTypeOK
    <2> QED
      BY <2>1, IndexAssumption
  <1>2. /\ memory' \in Index!Memory /\ told' \in Index!Entry
        /\ Index!HistoryTellsStatus'
    BY IndexAssumption
       DEF Index!CreateMemory, Index!Memory, Index!Statuses, Index!Levels, Index!Entry,
           Index!HistoryTellsStatus
  <1>3. PICK n : n = [Index!NoRequest EXCEPT !.phase = "enqueue", !.latest = TRUE]
    OBVIOUS
  <1>4. n \in Index!Request /\ n.phase = "enqueue"
    BY <1>3 DEF Index!NoRequest, Index!Request
  <1>5. request \in [Requests -> Index!Request] /\ request' = [request EXCEPT ![q] = n]
    BY <1>3 DEF Index!CreateMemory, IndexInv, Index!IndexTypeOK
  <1>6. request' \in [Requests -> Index!Request]
    BY <1>4, <1>5
  <1>7. ASSUME NEW x \in Requests PROVE request'[x].phase \in {"idle", "enqueue"}
    BY <1>4, <1>5 DEF Index!CreateMemory, IndexInv, RequestsOK
  <1>8. /\ memory = None /\ \A r \in Runs : run[r] = None /\ job[r] = None
        /\ UNCHANGED <<redis, run, job, worker, vectors>>
    BY DEF Index!CreateMemory, IndexInv, JobsOK
  <1>9. worker.phase = "idle"
    BY <1>8 DEF IndexInv, WorkerOK
  <1>10. RequestsOK'
    <2>1. memory' # None
      BY <1>2, IndexAssumption
    <2> QED
      BY <1>7, <2>1 DEF RequestsOK
  <1> QED
    BY <1>1, <1>2, <1>6, <1>8, <1>9, <1>10
       DEF IndexInv, Index!IndexTypeOK, JobsOK, WorkerOK, LatestOK, ClearOK, Latest,
           Index!CurrentIsEmbedded

\* The provenance tells the status the update writes, whatever it had read.
LEMMA UpdateWrites ==
    ASSUME IndexInv, NEW p \in Index!Patch, NEW before,
           p[1] = "status" => before \in Index!Statuses,
           memory \in Index!Memory
    PROVE  /\ Index!Patched(memory, p) \in Index!Memory
           /\ Index!Told(before, p) \in Index!Entry \cup {None}
           /\ Index!Told(before, p).status = Index!Patched(memory, p).status
  <1>1. told \in Index!Entry \cup {None} /\ told.status = memory.status
    BY IndexAssumption DEF IndexInv, Index!IndexTypeOK, Index!HistoryTellsStatus
  <1>2. CASE p[1] = "status"
    <2>1. p[2] \in Index!Statuses
      BY <1>2 DEF Index!Patch
    <2>2. Index!Patched(memory, p) = [memory EXCEPT !.status = p[2]]
      BY <1>2 DEF Index!Patched
    <2>3. PICK l : l = Index!Lifecycle(before, p[2])
      OBVIOUS
    <2>4. l \in {None, "ARCHIVED", "DELETED", "RESTORED"}
      BY <2>1, <2>3 DEF Index!Lifecycle, Index!Statuses
    <2>5. PICK type \in {"STATUS_CHANGED", "ARCHIVED", "DELETED", "RESTORED"} :
             type = IF l = None THEN "STATUS_CHANGED" ELSE l
      BY <2>4
    <2>6. Index!Told(before, p) = [type |-> type, status |-> p[2]]
      BY <1>2, <2>3, <2>5 DEF Index!Told
    <2> QED
      BY <2>1, <2>2, <2>5, <2>6 DEF Index!Memory, Index!Entry
  <1>3. CASE p[1] = "text"
    <2>1. p[2] \in Texts
      BY <1>3 DEF Index!Patch
    <2>2. Index!Patched(memory, p) = [memory EXCEPT !.text = p[2]]
          /\ Index!Told(before, p) = told
      BY <1>3 DEF Index!Patched, Index!Told
    <2> QED
      BY <1>1, <2>1, <2>2 DEF Index!Memory
  <1>4. CASE p[1] = "level"
    <2>1. p[2] \in Index!Levels
      BY <1>4 DEF Index!Patch
    <2>2. Index!Patched(memory, p) = [memory EXCEPT !.level = p[2]]
          /\ Index!Told(before, p) = told
      BY <1>4 DEF Index!Patched, Index!Told
    <2> QED
      BY <1>1, <2>1, <2>2 DEF Index!Memory
  <1> QED
    BY <1>2, <1>3, <1>4 DEF Index!Patch

\* After a change no run is the latest.
LEMMA CommitUpdateStep ==
    ASSUME IndexInv, NEW q \in Requests, Index!CommitUpdate(q)
    PROVE  IndexInv'
  <1>1. /\ request \in [Requests -> Index!Request] /\ run \in [Runs -> Index!Run \cup {None}]
        /\ version \in 0 .. MaxVersion
    BY DEF IndexInv, Index!IndexTypeOK
  <1>2. PICK p, before : p = request[q].patch /\ before = request[q].before
    OBVIOUS
  <1>3. p \in Index!Patch /\ (p[1] = "status" => before \in Index!Statuses)
        /\ memory \in Index!Memory
    BY <1>2 DEF IndexInv, Index!IndexTypeOK, RequestsOK, Index!CommitUpdate
  <1>4. /\ memory' \in Index!Memory
        /\ told' \in Index!Entry \cup {None}
        /\ told'.status = memory'.status
    BY <1>2, <1>3, UpdateWrites DEF Index!CommitUpdate
  <1>5. version' \in 0 .. MaxVersion
    <2>1. version < MaxVersion /\ version' = version + 1
      BY DEF Index!CommitUpdate
    <2> QED
      BY <1>1, <2>1, IndexAssumption
  <1>6. PICK n : n = IF request[q].delete THEN Index!NoRequest
                     ELSE [Index!NoRequest EXCEPT !.phase = "enqueue", !.latest = TRUE]
    OBVIOUS
  <1>7. n \in Index!Request /\ n.phase \in {"idle", "enqueue"}
    BY <1>6 DEF Index!NoRequest, Index!Request
  <1>8. request' = [x \in Requests |->
                      IF x # q THEN [request[x] EXCEPT !.latest = FALSE] ELSE n]
    BY <1>6 DEF Index!CommitUpdate
  <1>9. ASSUME NEW x \in Requests
        PROVE  /\ request'[x] \in Index!Request
               /\ request'[x].phase = "read" => /\ request[x].phase = "read"
                                                /\ request'[x].patch = request[x].patch
                                                /\ request'[x].before = request[x].before
    <2>1. CASE x = q
      BY <1>7, <1>8, <2>1
    <2>2. CASE x # q
      <3>1. request'[x] = [request[x] EXCEPT !.latest = FALSE]
        BY <1>8, <2>2
      <3>2. request[x] \in Index!Request
        BY <1>1
      <3> QED
        BY <3>1, <3>2 DEF Index!Request
    <2> QED
      BY <2>1, <2>2
  <1>10. request' \in [Requests -> Index!Request]
    BY <1>8, <1>9
  <1>11. RequestsOK'
    BY <1>4, <1>9, IndexAssumption DEF IndexInv, RequestsOK
  <1>12. run' = [r \in Runs |-> IF run[r] = None THEN None ELSE [run[r] EXCEPT !.latest = FALSE]]
    BY DEF Index!CommitUpdate
  <1>13. ASSUME NEW r \in Runs
         PROVE  /\ run'[r] \in Index!Run \cup {None}
                /\ run'[r] # None => ~ run'[r].latest
                /\ run'[r] = None <=> run[r] = None
    <2>1. CASE run[r] = None
      BY <1>12, <2>1
    <2>2. CASE run[r] # None
      <3>1. PICK u \in Index!Run : u = run[r]
        BY <1>1, <2>2
      <3>2. run'[r] = [u EXCEPT !.latest = FALSE]
        BY <1>12, <2>2, <3>1
      <3>3. run'[r] \in Index!Run /\ ~ run'[r].latest
        BY <3>2 DEF Index!Run
      <3> QED
        BY <2>2, <3>3, IndexAssumption
    <2> QED
      BY <2>1, <2>2
  <1>14. run' \in [Runs -> Index!Run \cup {None}]
    BY <1>12, <1>13
  <1>15. UNCHANGED <<redis, job, worker, vectors>>
    BY DEF Index!CommitUpdate
  <1>16. JobsOK'
    BY <1>4, <1>13, <1>15, IndexAssumption DEF IndexInv, JobsOK
  <1>17. WorkerOK' /\ LatestOK' /\ ClearOK' /\ Index!CurrentIsEmbedded'
    BY <1>13, <1>15 DEF IndexInv, WorkerOK, LatestOK, ClearOK, Latest, Index!CurrentIsEmbedded
  <1> QED
    BY <1>4, <1>5, <1>10, <1>11, <1>14, <1>15, <1>16, <1>17
       DEF IndexInv, Index!IndexTypeOK, Index!HistoryTellsStatus

\* A run is recorded for a request, with or without a job.
LEMMA RunRecorded ==
    ASSUME IndexInv, NEW q \in Requests, NEW r \in Runs,
           Index!Enqueue(q, r) \/ Index!QueueFails(q, r)
    PROVE  IndexInv'
  <1>1. PICK status \in {"QUEUED", "CANCELLED"} :
           run' = [run EXCEPT ![r] = [status |-> status, latest |-> request[q].latest]]
    <2>1. CASE Index!Enqueue(q, r) /\ redis
      BY <2>1 DEF Index!Enqueue
    <2>2. CASE Index!Enqueue(q, r) /\ ~ redis
      BY <2>2 DEF Index!Enqueue
    <2>3. CASE Index!QueueFails(q, r)
      BY <2>3 DEF Index!QueueFails
    <2> QED
      BY <2>1, <2>2, <2>3
  <1>2. PICK u : u = [status |-> status, latest |-> request[q].latest]
    OBVIOUS
  <1>3. /\ request \in [Requests -> Index!Request] /\ run \in [Runs -> Index!Run \cup {None}]
        /\ job \in [Runs -> Index!Job \cup {None}]
    BY DEF IndexInv, Index!IndexTypeOK
  <1>4. u \in Index!Run /\ u.status # "SUCCEEDED" /\ u # None
    <2>1. u \in Index!Run /\ u.status # "SUCCEEDED"
      BY <1>2, <1>3 DEF Index!Run, Index!Request
    <2> QED
      BY <2>1, IndexAssumption
  <1>5. run' = [run EXCEPT ![r] = u] /\ run[r] = None /\ request[q].phase = "enqueue"
    BY <1>1, <1>2 DEF Index!Enqueue, Index!QueueFails
  <1>6. run' \in [Runs -> Index!Run \cup {None}]
    BY <1>3, <1>4, <1>5
  <1>7. /\ job' \in [Runs -> Index!Job \cup {None}]
        /\ \A x \in Runs : x # r => job'[x] = job[x]
        /\ job'[r] # None /\ job'[r].at = "waiting" => job'[r].given < MaxDeliveries
    <2>1. CASE UNCHANGED job
      BY <1>3, <2>1 DEF IndexInv, JobsOK
    <2>2. CASE job' = [job EXCEPT ![r] = [at |-> "waiting", given |-> 0]]
      <3>1. 0 \in 0 .. MaxDeliveries /\ 0 < MaxDeliveries
        BY IndexAssumption
      <3>2. [at |-> "waiting", given |-> 0] \in Index!Job
        BY <3>1 DEF Index!Job
      <3>3. job'[r] = [at |-> "waiting", given |-> 0]
        BY <1>3, <2>2
      <3>4. job'[r].given = 0
        BY <3>3
      <3> QED
        BY <1>3, <2>2, <3>1, <3>2, <3>4
    <2> QED
      BY <2>1, <2>2 DEF Index!Enqueue, Index!QueueFails
  <1>8. Index!NoRequest \in Index!Request /\ Index!NoRequest.phase = "idle"
    BY DEF Index!NoRequest, Index!Request
  <1>9. request' = [request EXCEPT ![q] = Index!NoRequest]
        /\ UNCHANGED <<memory, version, told, redis, worker, vectors>>
    BY DEF Index!Enqueue, Index!QueueFails
  <1>10. request' \in [Requests -> Index!Request] /\ RequestsOK'
    BY <1>8, <1>9, RequestSet
  <1>11. memory # None
    BY <1>5 DEF IndexInv, RequestsOK
  <1>12. \A x \in Runs : x # r => run'[x] = run[x]
    BY <1>3, <1>5
  <1>13. run'[r] = u
    BY <1>3, <1>5
  <1>14. JobsOK'
    BY <1>4, <1>7, <1>9, <1>11, <1>12, <1>13 DEF IndexInv, JobsOK
  <1>15. worker.phase # "idle" => worker.run \in Runs /\ worker.run # r
    BY <1>5 DEF IndexInv, WorkerOK
  <1>16. WorkerOK' /\ LatestOK'
    BY <1>7, <1>9, <1>12, <1>15 DEF IndexInv, WorkerOK, LatestOK, Latest
  <1>17. ClearOK' /\ Index!CurrentIsEmbedded'
    BY <1>4, <1>9, <1>12, <1>13 DEF IndexInv, ClearOK, Latest, Index!CurrentIsEmbedded
  <1> QED
    BY <1>6, <1>7, <1>9, <1>10, <1>14, <1>16, <1>17
       DEF IndexInv, Index!IndexTypeOK, Index!HistoryTellsStatus

-----------------------------------------------------------------------------
(* The worker. *)

\* A step that changes only the worker's phase and what it holds, or vectors.
LEMMA WorkerMoves ==
    ASSUME IndexInv, worker' \in Index!Worker, vectors' \in Index!Vectors,
           worker'.phase # "idle" => worker'.run = worker.run /\ worker.phase # "idle",
           worker'.phase \in {"generate", "store"} => worker'.content # None,
           LatestOK', ClearOK', Index!CurrentIsEmbedded',
           UNCHANGED <<memory, version, told, request, redis, run, job>>
    PROVE  IndexInv'
  BY DEF IndexInv, Index!IndexTypeOK, RequestsOK, JobsOK, WorkerOK,
         Index!HistoryTellsStatus

LEMMA ReadMemoryStep ==
    ASSUME IndexInv, Index!ReadMemory
    PROVE  IndexInv'
  <1>1. worker \in Index!Worker /\ worker.phase = "read" /\ worker.run \in Runs
        /\ run[worker.run] # None
    BY DEF Index!ReadMemory, IndexInv, Index!IndexTypeOK, WorkerOK
  <1>2. memory \in Index!Memory
    BY <1>1 DEF IndexInv, Index!IndexTypeOK, JobsOK
  <1>3. PICK content : content = Index!ContentOf(memory)
    OBVIOUS
  <1>4. content \in Index!Content /\ content # None
    <2>1. content \in Index!Content
      BY <1>2, <1>3 DEF Index!ContentOf, Index!Content, Index!Memory
    <2> QED
      BY <2>1, IndexAssumption
  <1>5. PICK embeddable \in BOOLEAN, existing \in BOOLEAN :
           /\ embeddable <=> Index!IsEmbeddable(memory)
           /\ existing <=> Index!Existing(content)
    OBVIOUS
  <1>6. PICK c, phase :
           /\ c = IF embeddable /\ ~ existing THEN content ELSE None
           /\ phase = IF ~ embeddable THEN "clear"
                      ELSE IF existing THEN "done" ELSE "generate"
    OBVIOUS
  <1>7. worker' = [worker EXCEPT !.content = c, !.phase = phase]
    BY <1>3, <1>5, <1>6 DEF Index!ReadMemory
  <1>8. /\ worker' \in Index!Worker /\ worker'.run = worker.run
        /\ worker'.phase = phase /\ worker'.content = c
    BY <1>1, <1>4, <1>6, <1>7 DEF Index!Worker
  <1>9. UNCHANGED <<memory, version, told, request, redis, run, job, vectors>>
    BY DEF Index!ReadMemory
  <1>10. LatestOK'
    BY <1>3, <1>5, <1>6, <1>8, <1>9 DEF LatestOK, Index!Existing
  <1>11. ClearOK'
    BY <1>5, <1>6, <1>8, <1>9 DEF ClearOK
  <1>12. Index!CurrentIsEmbedded' /\ vectors' \in Index!Vectors
    BY <1>9 DEF IndexInv, Index!CurrentIsEmbedded, Index!IndexTypeOK
  <1>13. worker'.phase \in {"generate", "store"} => worker'.content # None
    BY <1>4, <1>6, <1>8
  <1> QED
    BY <1>1, <1>8, <1>9, <1>10, <1>11, <1>12, <1>13, WorkerMoves

LEMMA VectorSteps ==
    ASSUME IndexInv, Index!ClearVectors \/ Index!Generate \/ Index!StoreVector
    PROVE  IndexInv'
  <1>1. worker \in Index!Worker /\ vectors \in Index!Vectors
    BY DEF IndexInv, Index!IndexTypeOK
  <1>2. CASE Index!ClearVectors
    <2>1. /\ worker' \in Index!Worker /\ worker'.run = worker.run /\ worker'.phase = "done"
      BY <1>1, <1>2 DEF Index!ClearVectors, Index!Worker
    <2>2. vectors' \in Index!Vectors
      BY <1>2 DEF Index!ClearVectors, Index!NoVectors, Index!Vectors
    <2>3. UNCHANGED <<memory, version, told, request, redis, run, job>>
          /\ worker.phase = "clear"
      BY <1>2 DEF Index!ClearVectors
    <2>4. LatestOK' /\ ClearOK'
      BY <2>1, <2>3 DEF IndexInv, LatestOK, Latest, ClearOK
    <2>5. Index!CurrentIsEmbedded'
      BY <2>3 DEF IndexInv, ClearOK, Latest, Index!CurrentIsEmbedded
    <2> QED
      BY <2>1, <2>2, <2>3, <2>4, <2>5, WorkerMoves
  <1>3. CASE Index!Generate
    <2>1. /\ worker' \in Index!Worker /\ worker'.run = worker.run /\ worker'.phase = "store"
          /\ worker'.content = worker.content
      BY <1>1, <1>3 DEF Index!Generate, Index!Worker
    <2>2. UNCHANGED <<memory, version, told, request, redis, run, job, vectors>>
          /\ worker.phase = "generate"
      BY <1>3 DEF Index!Generate
    <2>3. LatestOK' /\ ClearOK' /\ Index!CurrentIsEmbedded' /\ worker'.content # None
      BY <2>1, <2>2
         DEF IndexInv, LatestOK, Latest, ClearOK, Index!CurrentIsEmbedded, WorkerOK
    <2> QED
      BY <1>1, <2>1, <2>2, <2>3, WorkerMoves
  <1>4. CASE Index!StoreVector
    <2>1. PICK c \in Index!Content : c = worker.content
      BY <1>1, <1>4 DEF Index!StoreVector, IndexInv, WorkerOK, Index!Worker
    <2>2. /\ worker' \in Index!Worker /\ worker'.run = worker.run /\ worker'.phase = "done"
      BY <1>1, <1>4 DEF Index!StoreVector, Index!Worker
    <2>3. vectors' = [of |-> vectors.of \cup {c}, latest |-> c]
      BY <1>4, <2>1 DEF Index!StoreVector
    <2>4. vectors' \in Index!Vectors /\ c \in vectors'.of /\ vectors.of \subseteq vectors'.of
      BY <1>1, <2>1, <2>3 DEF Index!Vectors
    <2>5. UNCHANGED <<memory, version, told, request, redis, run, job>>
          /\ worker.phase = "store"
      BY <1>4 DEF Index!StoreVector
    <2>6. LatestOK' /\ ClearOK'
      BY <2>1, <2>2, <2>4, <2>5 DEF IndexInv, LatestOK, Latest, ClearOK
    <2>7. Index!CurrentIsEmbedded'
      BY <2>4, <2>5 DEF IndexInv, Index!CurrentIsEmbedded
    <2> QED
      BY <2>2, <2>4, <2>5, <2>6, <2>7, WorkerMoves
  <1> QED
    BY <1>2, <1>3, <1>4

LEMMA TakeJobStep ==
    ASSUME IndexInv, NEW r \in Runs, Index!TakeJob(r)
    PROVE  IndexInv'
  <1>1. PICK j \in Index!Job, u \in Index!Run : j = job[r] /\ u = run[r]
    BY DEF Index!TakeJob, IndexInv, Index!IndexTypeOK, JobsOK
  <1>2. PICK k, v : k = [at |-> "active", given |-> j.given + 1]
                    /\ v = [u EXCEPT !.status = "RUNNING"]
    OBVIOUS
  <1>3. job' = [job EXCEPT ![r] = k] /\ run' = [run EXCEPT ![r] = v]
    BY <1>1, <1>2 DEF Index!TakeJob
  <1>4. j.given + 1 \in 0 .. MaxDeliveries
    <2>1. j.given \in 0 .. MaxDeliveries /\ j.given < MaxDeliveries
      BY <1>1 DEF Index!Job, IndexInv, JobsOK, Index!TakeJob
    <2> QED
      BY <2>1, IndexAssumption
  <1>5. k \in Index!Job /\ v \in Index!Run
    BY <1>1, <1>2, <1>4 DEF Index!Job, Index!Run
  <1>6. k # None /\ k.at = "active" /\ v # None /\ v.latest = u.latest
        /\ v.status = "RUNNING"
    BY <1>1, <1>2, <1>5, IndexAssumption DEF Index!Run
  <1>7. /\ run \in [Runs -> Index!Run \cup {None}] /\ job \in [Runs -> Index!Job \cup {None}]
    BY DEF IndexInv, Index!IndexTypeOK
  <1>8. /\ run' \in [Runs -> Index!Run \cup {None}] /\ job' \in [Runs -> Index!Job \cup {None}]
        /\ run'[r] = v /\ job'[r] = k
        /\ \A x \in Runs : x # r => run'[x] = run[x] /\ job'[x] = job[x]
    BY <1>3, <1>5, <1>7
  <1>9. /\ worker' \in Index!Worker /\ worker'.run = r /\ worker'.phase = "read"
        /\ UNCHANGED <<memory, version, told, request, redis, vectors>>
    BY DEF Index!TakeJob, Index!IdleWorker, Index!Worker
  <1>10. memory # None
    BY <1>1, <1>6 DEF IndexInv, JobsOK, Index!TakeJob
  <1>11. JobsOK' /\ WorkerOK' /\ LatestOK' /\ ClearOK' /\ RequestsOK'
    BY <1>6, <1>8, <1>9, <1>10 DEF IndexInv, JobsOK, WorkerOK, LatestOK, ClearOK, RequestsOK
  <1>12. Index!CurrentIsEmbedded'
    BY <1>6, <1>8, <1>9 DEF IndexInv, Index!CurrentIsEmbedded
  <1> QED
    BY <1>8, <1>9, <1>11, <1>12 DEF IndexInv, Index!IndexTypeOK, Index!HistoryTellsStatus

\* The worker leaves a job, which goes back to the queue or ends.
LEMMA JobLeft ==
    ASSUME IndexInv, NEW r \in Runs, r = worker.run,
           run' \in [Runs -> Index!Run \cup {None}],
           run'[r] # None,
           run'[r] = run[r] \/ run'[r].status = "FAILED",
           \A x \in Runs : x # r => run'[x] = run[x],
           job' = [job EXCEPT ![r] = None] \/ job' = [job EXCEPT ![r] = Index!GivenBack(@)],
           worker.phase # "idle", worker' = Index!IdleWorker,
           UNCHANGED <<memory, version, told, request, redis, vectors>>
    PROVE  IndexInv'
  <1>1. PICK j \in Index!Job : j = job[r]
    BY DEF IndexInv, Index!IndexTypeOK, WorkerOK
  <1>2. PICK k \in Index!Job \cup {None} :
           /\ job' = [job EXCEPT ![r] = k]
           /\ k # None /\ k.at = "waiting" => k.given < MaxDeliveries
    <2>1. CASE job' = [job EXCEPT ![r] = None]
      BY <2>1
    <2>2. CASE job' = [job EXCEPT ![r] = Index!GivenBack(@)]
      <3>1. PICK b : b = Index!GivenBack(j)
        OBVIOUS
      <3>2. job' = [job EXCEPT ![r] = b]
        BY <1>1, <2>2, <3>1
      <3>3. b \in Index!Job \cup {None}
        BY <3>1 DEF Index!GivenBack, Index!Job
      <3>4. b # None => b.given < MaxDeliveries
        BY <3>1 DEF Index!GivenBack, Index!Job
      <3> QED
        BY <3>2, <3>3, <3>4
    <2> QED
      BY <2>1, <2>2
  <1>3. job \in [Runs -> Index!Job \cup {None}] /\ run \in [Runs -> Index!Run \cup {None}]
    BY DEF IndexInv, Index!IndexTypeOK
  <1>4. /\ job' \in [Runs -> Index!Job \cup {None}] /\ job'[r] = k
        /\ \A x \in Runs : x # r => job'[x] = job[x]
    BY <1>2, <1>3
  <1>5. worker' \in Index!Worker /\ worker'.phase = "idle"
    BY DEF Index!IdleWorker, Index!Worker
  <1>6. memory # None
    BY <1>1 DEF IndexInv, JobsOK, WorkerOK
  <1>7. JobsOK' /\ RequestsOK'
    BY <1>2, <1>4, <1>6 DEF IndexInv, JobsOK, RequestsOK
  <1>8. WorkerOK' /\ LatestOK' /\ ClearOK'
    BY <1>5 DEF WorkerOK, LatestOK, ClearOK
  <1>9. Index!CurrentIsEmbedded'
    BY DEF IndexInv, Index!CurrentIsEmbedded
  <1> QED
    BY <1>4, <1>5, <1>7, <1>8, <1>9 DEF IndexInv, Index!IndexTypeOK, Index!HistoryTellsStatus

LEMMA LeaveSteps ==
    ASSUME IndexInv, Index!GenerateFails \/ Index!Acknowledge \/ Index!WorkerDies
    PROVE  IndexInv'
  <1>1. PICK r \in Runs : r = worker.run /\ run[r] # None /\ worker.phase # "idle"
    BY DEF Index!GenerateFails, Index!Acknowledge, Index!WorkerDies, IndexInv, WorkerOK
  <1>2. run \in [Runs -> Index!Run \cup {None}]
    BY DEF IndexInv, Index!IndexTypeOK
  <1>3. /\ run' \in [Runs -> Index!Run \cup {None}]
        /\ run'[r] # None
        /\ run'[r] = run[r] \/ run'[r].status = "FAILED"
        /\ \A x \in Runs : x # r => run'[x] = run[x]
    <2>1. CASE Index!GenerateFails
      <3>1. PICK u \in Index!Run : u = run[r]
        BY <1>1, <1>2
      <3>2. PICK v : v = [u EXCEPT !.status = "FAILED"]
        OBVIOUS
      <3>3. v \in Index!Run /\ v.status = "FAILED"
        BY <3>2 DEF Index!Run
      <3>4. run' = [run EXCEPT ![r] = v]
        BY <1>1, <2>1, <3>1, <3>2 DEF Index!GenerateFails
      <3> QED
        BY <1>2, <3>3, <3>4, IndexAssumption
    <2>2. CASE UNCHANGED run
      BY <1>1, <1>2, <2>2
    <2> QED
      BY <2>1, <2>2 DEF Index!Acknowledge, Index!WorkerDies
  <1>4. /\ job' = [job EXCEPT ![r] = None] \/ job' = [job EXCEPT ![r] = Index!GivenBack(@)]
        /\ worker' = Index!IdleWorker
        /\ UNCHANGED <<memory, version, told, request, redis, vectors>>
    BY <1>1 DEF Index!GenerateFails, Index!Acknowledge, Index!WorkerDies
  <1> QED
    BY <1>1, <1>3, <1>4, JobLeft

LEMMA SucceedStep ==
    ASSUME IndexInv, Index!Succeed
    PROVE  IndexInv'
  <1>1. PICK r \in Runs : r = worker.run /\ run[r] # None /\ job[r] # None
    BY DEF Index!Succeed, IndexInv, WorkerOK
  <1>2. run \in [Runs -> Index!Run \cup {None}]
    BY DEF IndexInv, Index!IndexTypeOK
  <1>3. PICK u \in Index!Run : u = run[r]
    BY <1>1, <1>2
  <1>4. PICK v : v = [u EXCEPT !.status = "SUCCEEDED"]
    OBVIOUS
  <1>5. v \in Index!Run /\ v.latest = u.latest /\ v # None
    <2>1. v \in Index!Run /\ v.latest = u.latest
      BY <1>4 DEF Index!Run
    <2> QED
      BY <2>1, IndexAssumption
  <1>6. run' = [run EXCEPT ![r] = v] /\ worker.phase = "done"
        /\ worker' = [worker EXCEPT !.phase = "ack"]
        /\ UNCHANGED <<memory, version, told, request, redis, job, vectors>>
    BY <1>1, <1>3, <1>4 DEF Index!Succeed
  <1>7. /\ run' \in [Runs -> Index!Run \cup {None}] /\ run'[r] = v
        /\ \A x \in Runs : x # r => run'[x] = run[x]
    BY <1>2, <1>5, <1>6
  <1>8. worker' \in Index!Worker /\ worker'.phase = "ack" /\ worker'.run = r
    BY <1>1, <1>6 DEF IndexInv, Index!IndexTypeOK, Index!Worker
  <1>9. Latest(r)' <=> Latest(r)
    BY <1>1, <1>3, <1>5, <1>7 DEF Latest
  <1>10. Latest(r) /\ Index!IsEmbeddable(memory) => Index!ContentOf(memory) \in vectors.of
    BY <1>1, <1>6 DEF IndexInv, LatestOK
  <1>11. LatestOK' /\ ClearOK'
    BY <1>6, <1>8, <1>9, <1>10 DEF LatestOK, ClearOK, Latest
  <1>12. Index!CurrentIsEmbedded'
    <2> SUFFICES ASSUME NEW x \in Runs, run'[x] # None, run'[x].status = "SUCCEEDED",
                        run'[x].latest, Index!IsEmbeddable(memory)
                 PROVE  Index!ContentOf(memory) \in vectors.of
      BY <1>6 DEF Index!CurrentIsEmbedded
    <2>1. CASE x = r
      BY <1>9, <1>10, <2>1 DEF Latest
    <2>2. CASE x # r
      BY <1>7, <2>2 DEF IndexInv, Index!CurrentIsEmbedded
    <2> QED
      BY <2>1, <2>2
  <1>13. memory # None
    BY <1>1 DEF IndexInv, JobsOK
  <1>14. JobsOK' /\ WorkerOK' /\ RequestsOK'
    BY <1>1, <1>5, <1>6, <1>7, <1>8, <1>13 DEF IndexInv, JobsOK, WorkerOK, RequestsOK
  <1> QED
    BY <1>6, <1>7, <1>8, <1>11, <1>12, <1>14
       DEF IndexInv, Index!IndexTypeOK, Index!HistoryTellsStatus

-----------------------------------------------------------------------------

LEMMA FirstOf ==
    ASSUME NEW slots PROVE Index!First(slots) \subseteq slots
  BY DEF Index!First

LEMMA IndexStep ==
    ASSUME IndexInv, Index!IndexNext
    PROVE  IndexInv'
  <1>1. Index!FreeRequest \subseteq Requests /\ Index!FreeRun \subseteq Runs
    BY FirstOf DEF Index!FreeRequest, Index!FreeRun
  <1>2. CASE \E q \in Index!FreeRequest :
                \/ \E t \in FirstTexts, status \in Index!Statuses :
                      Index!CreateMemory(q, t, status)
                \/ \E patch \in Patches, delete \in BOOLEAN :
                      Index!ReadForUpdate(q, patch, delete)
                \/ \E r \in Runs : Index!RetryJob(q, r)
    BY <1>1, <1>2, CreateMemoryStep, RequestSteps
  <1>3. CASE \E q \in Requests :
                \/ Index!CommitUpdate(q) \/ Index!UpdateFails(q) \/ Index!EnqueueLost(q)
                \/ \E r \in Index!FreeRun : Index!Enqueue(q, r) \/ Index!QueueFails(q, r)
    BY <1>1, <1>3, CommitUpdateStep, RequestSteps, RunRecorded
  <1>4. CASE Index!Work \/ Index!WorkerDies
    BY <1>4, ReadMemoryStep, VectorSteps, TakeJobStep, LeaveSteps, SucceedStep
       DEF Index!Work
  <1> QED
    BY <1>2, <1>3, <1>4 DEF Index!IndexNext

LEMMA IndexStutter ==
    ASSUME IndexInv, UNCHANGED indexVars
    PROVE  IndexInv'
  BY DEF IndexInv, indexVars, Index!IndexTypeOK, RequestsOK, JobsOK, WorkerOK, LatestOK,
         ClearOK, Latest, Index!HistoryTellsStatus, Index!CurrentIsEmbedded

LEMMA IndexInvariance == Spec => [](part = "index" => IndexInv)
  <1>1. Init => (part = "index" => IndexInv)
    BY IndexInit DEF Init
  <1>2. (part = "index" => IndexInv) /\ [Next]_vars => (part = "index" => IndexInv)'
    <2> SUFFICES ASSUME part = "index" => IndexInv, [Next]_vars, part' = "index"
                 PROVE  IndexInv'
      OBVIOUS
    <2>1. CASE part = "index" /\ Index!IndexNext
      BY <2>1, IndexStep
    <2>2. CASE part = "index" /\ UNCHANGED indexVars
      BY <2>2, IndexStutter
    <2> QED
      BY <2>1, <2>2 DEF Next, vars
  <1> QED
    BY <1>1, <1>2, PTL DEF Spec

-----------------------------------------------------------------------------
(* Accounts (Accounts) *)

\* A session that is live, or whose owner has confirmed the deletion, is of an
\* account that exists, and it was confirmed by its identity.
SessionOK(x) ==
    LET s == session[x] IN
    s # None =>
        /\ s.live => user[s.user] # None
        /\ s.verified # None => user[s.user] # None /\ s.verified = user[s.user].subject

AttemptOK(a) ==
    attempt[a] # None =>
        attempt[a].uses <= 1 /\ (attempt[a].open => attempt[a].uses = 0)

BegunIn(a, b) == attempt[a] # None /\ attempt[a].by = b

\* What the cookies of a browser name was begun in it.
CookiesOK(cookies, b) == cookies.attempt # None => BegunIn(cookies.attempt, b)
JarOK(b) ==
    /\ CookiesOK(jar[b], b)
    /\ jar[b].session # None =>
          session[jar[b].session] # None /\ session[jar[b].session].origin = b

\* What a callback has got so far; past its first statement it is in the browser
\* that began its attempt.
CallbackOK(c) ==
    /\ attempt[c.attempt] # None
    /\ CookiesOK(c.cookies, c.browser)
    /\ c.phase # "find" => c.cookies.attempt = c.attempt
    /\ c.phase = "verify" => attempt[c.attempt].session # None
    /\ c.phase \notin {"find", "consume", "exchange"} =>
          c.subject # None /\ c.email # None
    /\ c.phase = "session" => c.user # None
CallbacksOK == \A k \in Callbacks : callback[k] # None => CallbackOK(callback[k])

DeletionOK ==
    deletion # None =>
        user[deletion.user] # None /\ deletion.proof = user[deletion.user].subject

LoginInv ==
    /\ Login!AccountsTypeOK
    /\ \A x \in Sessions : SessionOK(x)
    /\ \A a \in Attempts : AttemptOK(a)
    /\ \A b \in Browsers : JarOK(b)
    /\ CallbacksOK
    /\ DeletionOK

LEMMA LoginInit == Login!AccountsInit => LoginInv
  BY LoginAssumption
     DEF Login!AccountsInit, LoginInv, Login!AccountsTypeOK, Login!Jar,
         SessionOK, AttemptOK, JarOK, CookiesOK, CallbackOK, DeletionOK, CallbacksOK

\* The attempts stay, with the browsers that began them.
AttemptsKept ==
    \A a \in Attempts : attempt[a] # None =>
        /\ attempt'[a] # None /\ attempt'[a].by = attempt[a].by
        /\ attempt'[a].session = attempt[a].session

LEMMA AttemptsStay ==
    ASSUME LoginInv, AttemptsKept
    PROVE  /\ \A c \in Login!Callback : CallbackOK(c) => CallbackOK(c)'
           /\ \A c \in Login!Jar, b \in Browsers : CookiesOK(c, b) => CookiesOK(c, b)'
  <1>1. \A c \in Login!Jar, b \in Browsers : CookiesOK(c, b) => CookiesOK(c, b)'
    BY DEF CookiesOK, BegunIn, Login!Jar, AttemptsKept
  <1>2. \A c \in Login!Callback : CallbackOK(c) => CallbackOK(c)'
    <2> SUFFICES ASSUME NEW c \in Login!Callback, CallbackOK(c) PROVE CallbackOK(c)'
      OBVIOUS
    <2>1. /\ c.attempt \in Attempts /\ c.cookies \in Login!Jar /\ c.browser \in Browsers
      BY DEF Login!Callback
    <2>2. CookiesOK(c.cookies, c.browser)'
      BY <1>1, <2>1 DEF CallbackOK
    <2> QED
      BY <2>1, <2>2 DEF CallbackOK, AttemptsKept
  <1> QED
    BY <1>1, <1>2

\* One callback changes; the rest are as they were.
LEMMA CallbackSet ==
    ASSUME LoginInv, NEW k \in Callbacks, NEW c \in Login!Callback \cup {None},
           callback' = [callback EXCEPT ![k] = c],
           \A d \in Login!Callback : CallbackOK(d) => CallbackOK(d)',
           c # None => CallbackOK(c)'
    PROVE  callback' \in [Callbacks -> Login!Callback \cup {None}] /\ CallbacksOK'
  <1>1. callback \in [Callbacks -> Login!Callback \cup {None}]
    BY DEF LoginInv, Login!AccountsTypeOK
  <1>2. callback' \in [Callbacks -> Login!Callback \cup {None}]
    BY <1>1
  <1>3. ASSUME NEW i \in Callbacks, NEW d, d = callback'[i], d # None
        PROVE  CallbackOK(d)'
    <2>1. CASE i = k
      BY <1>1, <1>3, <2>1
    <2>2. CASE i # k
      <3>1. d = callback[i]
        BY <1>1, <1>3, <2>2
      <3> QED
        BY <1>1, <1>3, <3>1 DEF LoginInv, CallbacksOK
    <2> QED
      BY <2>1, <2>2
  <1> QED
    BY <1>2, <1>3 DEF CallbacksOK, CallbackOK, CookiesOK, BegunIn

LEMMA UnusedIsNone ==
    \A f : \A x \in Login!Unused(f) : x \in DOMAIN f /\ f[x] = None
  <1> SUFFICES ASSUME NEW f, NEW x \in Login!Unused(f)
               PROVE  x \in DOMAIN f /\ f[x] = None
    OBVIOUS
  <1> DEFINE free == {y \in DOMAIN f : f[y] = None}
  <1>1. free # {} /\ x = CHOOSE y \in free : TRUE
    BY DEF Login!Unused
  <1> QED
    BY <1>1

LEMMA BeginStep ==
    ASSUME LoginInv, NEW b \in Browsers, NEW a \in Attempts,
           NEW x \in Sessions \cup {None}, Login!Begin(b, a, x)
    PROVE  LoginInv'
  <1> DEFINE new == [open |-> TRUE, by |-> b, session |-> x, uses |-> 0]
  <1>1. new \in Login!Attempt /\ new # None
    <2>1. new \in Login!Attempt
      BY DEF Login!Attempt
    <2> QED
      BY <2>1, LoginAssumption
  <1>2. attempt' = [attempt EXCEPT ![a] = new] /\ attempt[a] = None
    BY DEF Login!Begin
  <1> HIDE DEF new
  <1>3. \A i \in Attempts : attempt[i] # None => attempt'[i] = attempt[i] /\ i # a
    BY <1>2 DEF LoginInv, Login!AccountsTypeOK
  <1>4. CallbacksOK'
    BY <1>3, AttemptsStay
       DEF LoginInv, CallbacksOK, Login!AccountsTypeOK, Login!Begin, AttemptsKept
  <1>5. Login!AccountsTypeOK'
    BY <1>1, <1>2 DEF LoginInv, Login!AccountsTypeOK, Login!Begin, Login!Jar
  <1>6. \A i \in Browsers : JarOK(i)'
    BY <1>1, <1>2, <1>3
       DEF LoginInv, JarOK, CookiesOK, BegunIn, Login!Begin, Login!AccountsTypeOK,
           Login!Jar, new
  <1>7. \A i \in Attempts : AttemptOK(i)'
    BY <1>1, <1>2 DEF LoginInv, AttemptOK, Login!AccountsTypeOK, Login!Attempt, new
  <1> QED
    BY <1>4, <1>5, <1>6, <1>7
       DEF LoginInv, Login!Begin, SessionOK, DeletionOK

\* No session is removed or given to another browser.
SessionsKept ==
    \A x \in Sessions : session[x] # None =>
        session'[x] # None /\ session'[x].origin = session[x].origin

LEMMA JarStays ==
    ASSUME LoginInv, AttemptsKept, SessionsKept, UNCHANGED jar
    PROVE  \A b \in Browsers : JarOK(b)'
  BY AttemptsStay
     DEF LoginInv, Login!AccountsTypeOK, Login!Jar, JarOK, SessionsKept, CookiesOK, BegunIn

\* An answer takes the attempt's cookie, and may bring a session begun there.
LEMMA JarAnswered ==
    ASSUME LoginInv, AttemptsKept, SessionsKept, NEW k \in Callbacks, callback[k] # None,
           NEW x \in Sessions \cup {None}, Login!Answer(k, x),
           x # None => session'[x] # None /\ session'[x].origin = callback[k].browser
    PROVE  jar' \in [Browsers -> Login!Jar] /\ \A b \in Browsers : JarOK(b)'
  <1>1. PICK b \in Browsers : b = callback[k].browser
    BY DEF LoginInv, Login!AccountsTypeOK, Login!Callback
  <1>2. PICK y \in Sessions \cup {None} : y = IF x = None THEN jar[b].session ELSE x
    BY DEF LoginInv, Login!AccountsTypeOK, Login!Jar
  <1>3. PICK c : c = [attempt |-> None, session |-> y]
    OBVIOUS
  <1>4. c \in Login!Jar
    BY <1>3 DEF Login!Jar
  <1>5. jar' = [jar EXCEPT ![b] = c]
    BY <1>1, <1>2, <1>3 DEF Login!Answer, LoginInv, Login!AccountsTypeOK
  <1>6. jar' \in [Browsers -> Login!Jar]
    BY <1>4, <1>5 DEF LoginInv, Login!AccountsTypeOK
  <1>7. ASSUME NEW i \in Browsers PROVE JarOK(i)'
    <2>1. CASE i = b
      <3>1. jar'[i].attempt = None /\ jar'[i].session = y
        BY <1>3, <1>5, <2>1 DEF LoginInv, Login!AccountsTypeOK
      <3>2. y # None => session'[y] # None /\ session'[y].origin = b
        BY <1>1, <1>2 DEF LoginInv, JarOK, SessionsKept, Login!AccountsTypeOK, Login!Jar
      <3> QED
        BY <2>1, <3>1, <3>2 DEF JarOK, CookiesOK
    <2>2. CASE i # b
      <3>1. jar'[i] = jar[i]
        BY <1>5, <2>2 DEF LoginInv, Login!AccountsTypeOK
      <3> QED
        BY <3>1, AttemptsStay
           DEF LoginInv, Login!AccountsTypeOK, Login!Jar, JarOK, SessionsKept, CookiesOK,
               BegunIn
    <2> QED
      BY <2>1, <2>2
  <1> QED
    BY <1>6, <1>7

\* A step of a callback that only sets it.
LEMMA SetStep ==
    ASSUME LoginInv, NEW k \in Callbacks, NEW c \in Login!Callback, CallbackOK(c),
           callback' = [callback EXCEPT ![k] = c],
           UNCHANGED <<user, session, attempt, jar, deletion>>
    PROVE  LoginInv'
  <1>1. AttemptsKept /\ SessionsKept
    BY DEF AttemptsKept, SessionsKept
  <1>2. CallbackOK(c)'
    BY DEF CallbackOK, CookiesOK, BegunIn
  <1>3. callback' \in [Callbacks -> Login!Callback \cup {None}] /\ CallbacksOK'
    BY <1>1, <1>2, AttemptsStay, CallbackSet
  <1>4. \A b \in Browsers : JarOK(b)'
    BY <1>1, JarStays
  <1> QED
    BY <1>3, <1>4
       DEF LoginInv, Login!AccountsTypeOK, SessionOK, AttemptOK, DeletionOK

\* An answer that signs nobody in.
LEMMA AnswerStep ==
    ASSUME LoginInv, NEW k \in Callbacks, callback[k] # None, Login!Answer(k, None),
           UNCHANGED <<user, session, attempt, deletion>>
    PROVE  LoginInv'
  <1>1. AttemptsKept /\ SessionsKept
    BY DEF AttemptsKept, SessionsKept
  <1>2. callback' \in [Callbacks -> Login!Callback \cup {None}] /\ CallbacksOK'
    BY <1>1, AttemptsStay, CallbackSet DEF Login!Answer
  <1>3. jar' \in [Browsers -> Login!Jar] /\ \A b \in Browsers : JarOK(b)'
    BY <1>1, JarAnswered
  <1> QED
    BY <1>2, <1>3
       DEF LoginInv, Login!AccountsTypeOK, SessionOK, AttemptOK, DeletionOK

LEMMA CallbackType ==
    ASSUME LoginInv, NEW k \in Callbacks, callback[k] # None
    PROVE  callback[k] \in Login!Callback /\ CallbackOK(callback[k])
  BY DEF LoginInv, Login!AccountsTypeOK, CallbacksOK

LEMMA PhaseType ==
    ASSUME NEW c \in Login!Callback,
           NEW phase \in {"find", "consume", "exchange", "verify", "lookup", "email",
                          "create", "recover", "session"}
    PROVE  [c EXCEPT !.phase = phase] \in Login!Callback
  BY DEF Login!Callback

LEMMA OpenCallbackStep ==
    ASSUME LoginInv, NEW b \in Browsers, NEW a \in Attempts, NEW k \in Callbacks,
           Login!OpenCallback(b, a, k)
    PROVE  LoginInv'
  <1>1. PICK c : c = [phase |-> "find", browser |-> b, attempt |-> a, cookies |-> jar[b],
                      subject |-> None, email |-> None, user |-> None]
    OBVIOUS
  <1>2. c \in Login!Callback
    BY <1>1 DEF Login!Callback, LoginInv, Login!AccountsTypeOK
  <1>3. CallbackOK(c)
    BY <1>1 DEF LoginInv, CallbackOK, JarOK, Login!OpenCallback
  <1> QED
    BY <1>1, <1>2, <1>3, SetStep DEF Login!OpenCallback

LEMMA FindAttemptStep ==
    ASSUME LoginInv, NEW k \in Callbacks, Login!FindAttempt(k)
    PROVE  LoginInv'
  <1>1. PICK c : c = [callback[k] EXCEPT !.phase = "consume"]
    OBVIOUS
  <1>2. callback[k] \in Login!Callback /\ CallbackOK(callback[k])
    BY CallbackType DEF Login!FindAttempt
  <1>3. c \in Login!Callback
    BY <1>1, <1>2, PhaseType
  <1>4. CASE /\ Login!BoundToBrowser(k) /\ Login!To(k, "consume") /\ UNCHANGED jar
    <2>1. CallbackOK(c)
      BY <1>1, <1>2, <1>4 DEF CallbackOK, Login!Callback, Login!BoundToBrowser
    <2>2. callback' = [callback EXCEPT ![k] = c]
      BY <1>1, <1>4 DEF Login!To, LoginInv, Login!AccountsTypeOK
    <2> QED
      BY <1>3, <1>4, <2>1, <2>2, SetStep DEF Login!FindAttempt
  <1>5. CASE Login!Answer(k, None)
    BY <1>5, AnswerStep DEF Login!FindAttempt
  <1> QED
    BY <1>4, <1>5 DEF Login!FindAttempt

LEMMA ConsumeStep ==
    ASSUME LoginInv, NEW k \in Callbacks, Login!ConsumeAttempt(k)
    PROVE  LoginInv'
  <1>1. callback[k] \in Login!Callback /\ CallbackOK(callback[k])
    BY CallbackType DEF Login!ConsumeAttempt
  <1>2. PICK a \in Attempts : a = callback[k].attempt
    BY <1>1 DEF Login!Callback
  <1>3. attempt[a] \in Login!Attempt /\ AttemptOK(a) /\ attempt[a] # None
    BY <1>1, <1>2 DEF CallbackOK, LoginInv, Login!AccountsTypeOK
  <1>4. PICK n \in 0..1 : n = attempt[a].uses + (IF Login!Consumed(a) THEN 1 ELSE 0)
    <2>1. attempt[a].uses \in 0..2 /\ attempt[a].open \in BOOLEAN
      BY <1>3 DEF Login!Attempt
    <2>2. attempt[a].uses \in 0..1
      BY <1>3, <2>1 DEF AttemptOK
    <2>3. CASE attempt[a].open
      BY <1>3, <2>3 DEF AttemptOK, Login!Consumed
    <2>4. CASE ~ attempt[a].open
      BY <2>2, <2>4 DEF Login!Consumed
    <2> QED
      BY <2>3, <2>4
  <1>5. PICK new : new = [attempt[a] EXCEPT !.open = FALSE, !.uses = n]
    OBVIOUS
  <1>6. new \in Login!Attempt
    <2>1. n \in 0..2
      BY <1>4
    <2> QED
      BY <1>3, <1>5, <2>1 DEF Login!Attempt
  <1>7. /\ new # None /\ new.uses = n /\ ~ new.open
        /\ new.by = attempt[a].by /\ new.session = attempt[a].session
    BY <1>3, <1>5, <1>6, LoginAssumption DEF Login!Attempt
  <1>8. attempt' = [attempt EXCEPT ![a] = new]
    BY <1>2, <1>4, <1>5 DEF Login!ConsumeAttempt, LoginInv, Login!AccountsTypeOK
  <1>9. /\ attempt' \in [Attempts -> Login!Attempt \cup {None}]
        /\ \A i \in Attempts : AttemptOK(i)'
        /\ AttemptsKept /\ SessionsKept
    <2>1. attempt \in [Attempts -> Login!Attempt \cup {None}]
      BY DEF LoginInv, Login!AccountsTypeOK
    <2>2. attempt' \in [Attempts -> Login!Attempt \cup {None}]
      BY <1>6, <1>8, <2>1
    <2>3. \A i \in Attempts : attempt'[i] = IF i = a THEN new ELSE attempt[i]
      BY <1>8, <2>1
    <2>4. n <= 1
      BY <1>4
    <2>5. ASSUME NEW i \in Attempts PROVE AttemptOK(i)'
      <3>1. CASE i = a
        BY <1>7, <2>3, <2>4, <3>1 DEF AttemptOK
      <3>2. CASE i # a
        BY <2>3, <3>2 DEF AttemptOK, LoginInv
      <3> QED
        BY <3>1, <3>2
    <2>6. AttemptsKept
      BY <1>3, <1>7, <2>3 DEF AttemptsKept
    <2>7. SessionsKept
      BY DEF SessionsKept, Login!ConsumeAttempt
    <2> QED
      BY <2>2, <2>5, <2>6, <2>7
  <1>10. CASE Login!To(k, "exchange") /\ UNCHANGED jar
    <2>1. PICK c : c = [callback[k] EXCEPT !.phase = "exchange"]
      OBVIOUS
    <2>2. c \in Login!Callback
      BY <1>1, <2>1, PhaseType
    <2>3. CallbackOK(c)
      BY <1>1, <2>1 DEF CallbackOK, Login!Callback, Login!ConsumeAttempt
    <2>4. callback' = [callback EXCEPT ![k] = c]
      BY <2>1, <1>10 DEF Login!To, LoginInv, Login!AccountsTypeOK
    <2>5. callback' \in [Callbacks -> Login!Callback \cup {None}] /\ CallbacksOK'
      BY <1>9, <2>2, <2>3, <2>4, AttemptsStay, CallbackSet
    <2>6. \A b \in Browsers : JarOK(b)'
      BY <1>9, <1>10, JarStays
    <2> QED
      BY <1>9, <1>10, <2>5, <2>6
         DEF LoginInv, Login!AccountsTypeOK, SessionOK, DeletionOK, Login!ConsumeAttempt
  <1>11. CASE Login!Answer(k, None)
    <2>1. callback' \in [Callbacks -> Login!Callback \cup {None}] /\ CallbacksOK'
      BY <1>9, <1>11, AttemptsStay, CallbackSet DEF Login!Answer
    <2>2. jar' \in [Browsers -> Login!Jar] /\ \A b \in Browsers : JarOK(b)'
      BY <1>9, <1>11, JarAnswered DEF Login!ConsumeAttempt
    <2> QED
      BY <1>9, <2>1, <2>2
         DEF LoginInv, Login!AccountsTypeOK, SessionOK, DeletionOK, Login!ConsumeAttempt
  <1> QED
    BY <1>10, <1>11 DEF Login!ConsumeAttempt

LEMMA ExchangeStep ==
    ASSUME LoginInv, NEW k \in Callbacks, NEW s \in Subjects, NEW e \in Emails,
           Login!Exchange(k, s, e)
    PROVE  LoginInv'
  <1>1. callback[k] \in Login!Callback /\ CallbackOK(callback[k])
    BY CallbackType DEF Login!Exchange
  <1>2. PICK p \in {"lookup", "verify"} :
           p = IF attempt[callback[k].attempt].session = None THEN "lookup" ELSE "verify"
    OBVIOUS
  <1>3. PICK c : c = [callback[k] EXCEPT !.subject = s, !.email = e, !.phase = p]
    OBVIOUS
  <1>4. c \in Login!Callback
    BY <1>1, <1>3 DEF Login!Callback
  <1>5. CallbackOK(c)
    BY <1>1, <1>2, <1>3, LoginAssumption DEF CallbackOK, Login!Callback, Login!Exchange
  <1>6. callback' = [callback EXCEPT ![k] = c]
    BY <1>2, <1>3 DEF Login!Exchange, LoginInv, Login!AccountsTypeOK
  <1> QED
    BY <1>4, <1>5, <1>6, SetStep DEF Login!Exchange

LEMMA CallbacksStay ==
    ASSUME LoginInv, AttemptsKept, UNCHANGED callback
    PROVE  CallbacksOK'
  <1>1. ASSUME NEW k \in Callbacks, callback[k] # None
        PROVE  CallbackOK(callback[k])'
    <2>1. PICK c \in Login!Callback : c = callback[k]
      BY <1>1 DEF LoginInv, Login!AccountsTypeOK
    <2>2. CallbackOK(c)'
      BY <1>1, <2>1, AttemptsStay DEF LoginInv, CallbacksOK
    <2> QED
      BY <2>1, <2>2 DEF CallbackOK, CookiesOK, BegunIn
  <1> QED
    BY <1>1 DEF CallbacksOK, CallbackOK, CookiesOK, BegunIn

LEMMA AttemptExpiresStep ==
    ASSUME LoginInv, NEW a \in Attempts, Login!AttemptExpires(a)
    PROVE  LoginInv'
  <1>1. attempt[a] \in Login!Attempt /\ AttemptOK(a) /\ attempt[a] # None
    BY DEF Login!AttemptExpires, LoginInv, Login!AccountsTypeOK
  <1>2. PICK new : new = [attempt[a] EXCEPT !.open = FALSE]
    OBVIOUS
  <1>3. new \in Login!Attempt
    BY <1>1, <1>2 DEF Login!Attempt
  <1>4. /\ new # None /\ new.uses = attempt[a].uses /\ ~ new.open
        /\ new.by = attempt[a].by /\ new.session = attempt[a].session
    BY <1>1, <1>2, <1>3, LoginAssumption DEF Login!Attempt
  <1>5. attempt' = [attempt EXCEPT ![a] = new]
    BY <1>2 DEF Login!AttemptExpires, LoginInv, Login!AccountsTypeOK
  <1>6. AttemptsKept /\ SessionsKept
    BY <1>1, <1>4, <1>5
       DEF AttemptsKept, SessionsKept, LoginInv, Login!AccountsTypeOK,
           Login!AttemptExpires
  <1>7. attempt' \in [Attempts -> Login!Attempt \cup {None}]
    BY <1>3, <1>5 DEF LoginInv, Login!AccountsTypeOK
  <1>8. \A i \in Attempts : AttemptOK(i)'
    BY <1>1, <1>4, <1>5 DEF AttemptOK, LoginInv, Login!AccountsTypeOK
  <1>9. CallbacksOK'
    BY <1>6, CallbacksStay DEF Login!AttemptExpires
  <1>10. \A b \in Browsers : JarOK(b)'
    BY <1>6, JarStays DEF Login!AttemptExpires
  <1> QED
    BY <1>7, <1>8, <1>9, <1>10
       DEF LoginInv, Login!AccountsTypeOK, SessionOK, DeletionOK, Login!AttemptExpires

LEMMA CallbackFailsStep ==
    ASSUME LoginInv, NEW k \in Callbacks, Login!CallbackFails(k)
    PROVE  LoginInv'
  BY AnswerStep DEF Login!CallbackFails

\* One session changes, and keeps its user and its browser.
LEMMA SessionSet ==
    ASSUME LoginInv, NEW x \in Sessions, session[x] # None, NEW new,
           new \in Login!Session, new.origin = session[x].origin,
           new.user = session[x].user,
           new.live => session[x].live \/ user[new.user] # None,
           new.verified # None =>
               \/ new.verified = session[x].verified
               \/ user[new.user] # None /\ new.verified = user[new.user].subject,
           session' = [session EXCEPT ![x] = new],
           UNCHANGED user
    PROVE  /\ session' \in [Sessions -> Login!Session \cup {None}]
           /\ \A y \in Sessions : SessionOK(y)'
           /\ SessionsKept
  <1>1. session \in [Sessions -> Login!Session \cup {None}] /\ \A y \in Sessions : SessionOK(y)
    BY DEF LoginInv, Login!AccountsTypeOK
  <1>2. \A y \in Sessions : session'[y] = IF y = x THEN new ELSE session[y]
    BY <1>1
  <1>3. new # None
    BY LoginAssumption
  <1>4. ASSUME NEW y \in Sessions PROVE SessionOK(y)'
    BY <1>1, <1>2, <1>4 DEF SessionOK
  <1> QED
    BY <1>1, <1>2, <1>3, <1>4 DEF SessionsKept

LEMMA VerifiedType ==
    ASSUME NEW y \in Login!Session, NEW s \in Subjects, NEW new,
           new = [y EXCEPT !.verified = s]
    PROVE  /\ new \in Login!Session /\ new.origin = y.origin
           /\ new.user = y.user /\ new.verified = s /\ new.live = y.live
  BY DEF Login!Session

\* The identity of a session's account is confirmed in it.
LEMMA SessionVerified ==
    ASSUME LoginInv, NEW x \in Sessions, session[x] # None, NEW s \in Subjects,
           user[session[x].user] # None, user[session[x].user].subject = s,
           session' = [session EXCEPT ![x].verified = s], UNCHANGED user
    PROVE  /\ session' \in [Sessions -> Login!Session \cup {None}]
           /\ \A y \in Sessions : SessionOK(y)'
           /\ SessionsKept
  <1>1. PICK y \in Login!Session : y = session[x]
    BY DEF LoginInv, Login!AccountsTypeOK
  <1>2. PICK new : new = [y EXCEPT !.verified = s]
    OBVIOUS
  <1>3. session' = [session EXCEPT ![x] = new]
    BY <1>1, <1>2 DEF LoginInv, Login!AccountsTypeOK
  <1>4. /\ new \in Login!Session
        /\ new.origin = y.origin /\ new.user = y.user
        /\ new.verified = s /\ new.live = y.live
    BY <1>1, <1>2, VerifiedType
  <1>5. user[new.user] # None /\ new.verified = user[new.user].subject
    BY <1>1, <1>4
  <1>6. /\ new.origin = session[x].origin /\ new.user = session[x].user
        /\ new.live => session[x].live \/ user[new.user] # None
        /\ new.verified # None =>
              \/ new.verified = session[x].verified
              \/ user[new.user] # None /\ new.verified = user[new.user].subject
    BY <1>1, <1>4, <1>5
  <1> QED
    BY <1>3, <1>4, <1>6, SessionSet

LEMMA VerifyDeletionStep ==
    ASSUME LoginInv, NEW k \in Callbacks, Login!VerifyDeletion(k)
    PROVE  LoginInv'
  <1>1. callback[k] \in Login!Callback /\ CallbackOK(callback[k])
    BY CallbackType DEF Login!VerifyDeletion
  <1>2. PICK x \in Sessions : x = attempt[callback[k].attempt].session
    BY <1>1 DEF CallbackOK, LoginInv, Login!AccountsTypeOK, Login!Attempt, Login!Callback,
                Login!VerifyDeletion
  <1>3. /\ session' \in [Sessions -> Login!Session \cup {None}]
        /\ \A y \in Sessions : SessionOK(y)'
        /\ SessionsKept
    <2>1. CASE UNCHANGED session
      BY <2>1 DEF LoginInv, Login!AccountsTypeOK, SessionOK, SessionsKept,
                  Login!VerifyDeletion
    <2>2. CASE /\ Login!Live(x) /\ Login!SameIdentity(k, x)
               /\ session' = [session EXCEPT ![x].verified = callback[k].subject]
      <3>1. /\ session[x] \in Login!Session /\ session[x].live /\ session[x] # None
            /\ user[session[x].user] # None
            /\ user[session[x].user].subject = callback[k].subject
        BY <2>2 DEF Login!Live, Login!SameIdentity, LoginInv, SessionOK,
                    Login!AccountsTypeOK
      <3>2. PICK s \in Subjects : s = callback[k].subject
        BY <1>1 DEF CallbackOK, Login!Callback, Login!VerifyDeletion
      <3> QED
        BY <2>2, <3>1, <3>2, SessionVerified DEF Login!VerifyDeletion
    <2> QED
      BY <1>2, <2>1, <2>2 DEF Login!VerifyDeletion
  <1>4. AttemptsKept
    BY DEF AttemptsKept, Login!VerifyDeletion
  <1>5. callback' \in [Callbacks -> Login!Callback \cup {None}] /\ CallbacksOK'
    BY <1>4, AttemptsStay, CallbackSet DEF Login!Answer, Login!VerifyDeletion
  <1>6. jar' \in [Browsers -> Login!Jar] /\ \A b \in Browsers : JarOK(b)'
    BY <1>3, <1>4, JarAnswered DEF Login!VerifyDeletion
  <1> QED
    BY <1>3, <1>5, <1>6
       DEF LoginInv, Login!AccountsTypeOK, AttemptOK, DeletionOK, Login!VerifyDeletion

\* From the lookup on, a callback moves on with the identity it has.
LEMMA ToStep ==
    ASSUME LoginInv, NEW k \in Callbacks, callback[k] # None,
           callback[k].phase \in {"lookup", "email", "create", "recover"},
           NEW phase \in {"email", "create", "recover"}, Login!To(k, phase),
           UNCHANGED <<user, session, attempt, jar, deletion>>
    PROVE  LoginInv'
  <1>1. callback[k] \in Login!Callback /\ CallbackOK(callback[k])
    BY CallbackType
  <1>2. PICK c : c = [callback[k] EXCEPT !.phase = phase]
    OBVIOUS
  <1>3. c \in Login!Callback
    BY <1>1, <1>2, PhaseType
  <1>4. CallbackOK(c)
    BY <1>1, <1>2 DEF CallbackOK, Login!Callback
  <1>5. callback' = [callback EXCEPT ![k] = c]
    BY <1>2 DEF Login!To, LoginInv, Login!AccountsTypeOK
  <1> QED
    BY <1>3, <1>4, <1>5, SetStep

\* The callback that an account was found or created for.
LEMMA SignedIn ==
    ASSUME LoginInv, NEW k \in Callbacks, callback[k] # None,
           callback[k].phase \in {"lookup", "create", "recover"},
           NEW u \in Users, Login!SignInTo(k, u)
    PROVE  \E c \in Login!Callback :
              CallbackOK(c) /\ callback' = [callback EXCEPT ![k] = c]
  <1>1. callback[k] \in Login!Callback /\ CallbackOK(callback[k])
    BY CallbackType
  <1>2. PICK c : c = [callback[k] EXCEPT !.user = u, !.phase = "session"]
    OBVIOUS
  <1>3. c \in Login!Callback
    BY <1>1, <1>2 DEF Login!Callback
  <1>4. CallbackOK(c)
    BY <1>1, <1>2, LoginAssumption DEF CallbackOK, Login!Callback
  <1>5. callback' = [callback EXCEPT ![k] = c]
    BY <1>2 DEF Login!SignInTo, LoginInv, Login!AccountsTypeOK
  <1> QED
    BY <1>3, <1>4, <1>5

LEMMA LookupIdentityStep ==
    ASSUME LoginInv, NEW k \in Callbacks, Login!LookupIdentity(k)
    PROVE  LoginInv'
  <1>1. CASE Login!To(k, "email")
    BY <1>1, ToStep DEF Login!LookupIdentity
  <1>2. ASSUME NEW u \in Users, Login!SignInTo(k, u) PROVE LoginInv'
    BY <1>2, SignedIn, SetStep DEF Login!LookupIdentity
  <1> QED
    BY <1>1, <1>2 DEF Login!LookupIdentity, Login!Owners

LEMMA CheckEmailStep ==
    ASSUME LoginInv, NEW k \in Callbacks, Login!CheckEmail(k)
    PROVE  LoginInv'
  BY ToStep DEF Login!CheckEmail, Login!OnConflict

LEMMA RecoverStep ==
    ASSUME LoginInv, NEW k \in Callbacks, Login!Recover(k)
    PROVE  LoginInv'
  <1>1. CASE Login!Answer(k, None)
    BY <1>1, AnswerStep DEF Login!Recover
  <1>2. ASSUME NEW u \in Users, Login!SignInTo(k, u), UNCHANGED jar PROVE LoginInv'
    BY <1>2, SignedIn, SetStep DEF Login!Recover
  <1> QED
    BY <1>1, <1>2 DEF Login!Recover, Login!Owners

LEMMA CreateUserStep ==
    ASSUME LoginInv, NEW k \in Callbacks, NEW u \in Users, Login!CreateUser(k, u)
    PROVE  LoginInv'
  <1>1. CASE Login!To(k, "recover") /\ UNCHANGED user
    BY <1>1, ToStep DEF Login!CreateUser
  <1>2. ASSUME user' = [user EXCEPT ![u] = [subject |-> callback[k].subject,
                                            email |-> callback[k].email]],
               Login!SignInTo(k, u)
        PROVE  LoginInv'
    <2>1. callback[k] \in Login!Callback /\ CallbackOK(callback[k])
      BY CallbackType DEF Login!CreateUser
    <2>2. PICK new : new = [subject |-> callback[k].subject, email |-> callback[k].email]
      OBVIOUS
    <2>3. new \in Login!User
      BY <2>1, <2>2 DEF CallbackOK, Login!Callback, Login!User, Login!CreateUser
    <2>4. user' \in [Users -> Login!User \cup {None}]
      BY <1>2, <2>2, <2>3 DEF LoginInv, Login!AccountsTypeOK
    <2>5. \A i \in Users : user[i] # None => user'[i] = user[i]
      BY <1>2, <2>2 DEF LoginInv, Login!AccountsTypeOK, Login!CreateUser
    <2>6. AttemptsKept /\ SessionsKept
      BY DEF AttemptsKept, SessionsKept, Login!CreateUser
    <2>7. PICK c \in Login!Callback :
             CallbackOK(c) /\ callback' = [callback EXCEPT ![k] = c]
      BY <1>2, SignedIn DEF Login!CreateUser
    <2>8. callback' \in [Callbacks -> Login!Callback \cup {None}] /\ CallbacksOK'
      BY <2>6, <2>7, AttemptsStay, CallbackSet
    <2>9. \A b \in Browsers : JarOK(b)'
      BY <2>6, JarStays DEF Login!CreateUser
    <2>10. \A x \in Sessions : SessionOK(x)'
      BY <2>5 DEF LoginInv, Login!AccountsTypeOK, Login!Session, SessionOK,
                  Login!CreateUser
    <2>11. DeletionOK'
      BY <2>5 DEF LoginInv, Login!AccountsTypeOK, Login!Deletion, DeletionOK,
                  Login!CreateUser
    <2> QED
      BY <2>4, <2>8, <2>9, <2>10, <2>11
         DEF LoginInv, Login!AccountsTypeOK, AttemptOK, Login!CreateUser
  <1> QED
    BY <1>1, <1>2 DEF Login!CreateUser

LEMMA CreateSessionStep ==
    ASSUME LoginInv, NEW k \in Callbacks, NEW x \in Sessions, Login!CreateSession(k, x)
    PROVE  LoginInv'
  <1>1. CASE Login!Answer(k, None) /\ UNCHANGED session
    BY <1>1, AnswerStep DEF Login!CreateSession
  <1>2. ASSUME user[callback[k].user] # None,
               session' = [session EXCEPT ![x] =
                  [user |-> callback[k].user, live |-> TRUE, verified |-> None,
                   origin |-> attempt[callback[k].attempt].by]],
               Login!Answer(k, x)
        PROVE  LoginInv'
    <2>1. callback[k] \in Login!Callback /\ CallbackOK(callback[k])
      BY CallbackType DEF Login!CreateSession
    <2>2. PICK u \in Users : u = callback[k].user
      BY <2>1 DEF CallbackOK, Login!Callback, Login!CreateSession
    <2>3. PICK b \in Browsers : b = callback[k].browser
      BY <2>1 DEF Login!Callback
    <2>4. attempt[callback[k].attempt].by = b
      BY <2>1, <2>3, LoginAssumption
         DEF CallbackOK, CookiesOK, BegunIn, Login!Callback, Login!CreateSession
    <2>5. PICK new : new = [user |-> u, live |-> TRUE, verified |-> None, origin |-> b]
      OBVIOUS
    <2>6. new \in Login!Session /\ new # None
      <3>1. new \in Login!Session
        BY <2>5 DEF Login!Session
      <3> QED
        BY <3>1, LoginAssumption
    <2>7. session' = [session EXCEPT ![x] = new]
      BY <1>2, <2>2, <2>4, <2>5
    <2>8. session' \in [Sessions -> Login!Session \cup {None}]
      BY <2>6, <2>7 DEF LoginInv, Login!AccountsTypeOK
    <2>9. \A y \in Sessions : session'[y] = IF y = x THEN new ELSE session[y]
      BY <2>7 DEF LoginInv, Login!AccountsTypeOK
    <2>10. \A y \in Sessions : SessionOK(y)'
      BY <1>2, <2>2, <2>5, <2>9 DEF LoginInv, SessionOK, Login!CreateSession
    <2>11. AttemptsKept /\ SessionsKept
      BY <2>9 DEF AttemptsKept, SessionsKept, Login!CreateSession
    <2>12. callback' \in [Callbacks -> Login!Callback \cup {None}] /\ CallbacksOK'
      BY <1>2, <2>11, AttemptsStay, CallbackSet DEF Login!Answer, Login!CreateSession
    <2>13. jar' \in [Browsers -> Login!Jar] /\ \A i \in Browsers : JarOK(i)'
      <3>1. session'[x] # None /\ session'[x].origin = callback[k].browser
        BY <2>3, <2>5, <2>6, <2>9
      <3> QED
        BY <1>2, <2>11, <3>1, JarAnswered DEF Login!CreateSession
    <2> QED
      BY <2>8, <2>10, <2>12, <2>13
         DEF LoginInv, Login!AccountsTypeOK, AttemptOK, DeletionOK, Login!CreateSession
  <1> QED
    BY <1>1, <1>2 DEF Login!CreateSession

\* What a session's change leaves: everything but the sessions.
LEMMA SessionStep ==
    ASSUME LoginInv, session' \in [Sessions -> Login!Session \cup {None}],
           \A y \in Sessions : SessionOK(y)', SessionsKept,
           UNCHANGED <<user, attempt, jar, callback, deletion>>
    PROVE  LoginInv'
  <1>1. AttemptsKept
    BY DEF AttemptsKept
  <1>2. CallbacksOK' /\ \A b \in Browsers : JarOK(b)'
    BY <1>1, CallbacksStay, JarStays
  <1> QED
    BY <1>2 DEF LoginInv, Login!AccountsTypeOK, AttemptOK, DeletionOK

\* A session ends, or what was confirmed in it is forgotten.
LEMMA SessionEnds ==
    ASSUME LoginInv, NEW x \in Sessions, session[x] # None,
           \/ session' = [session EXCEPT ![x].live = FALSE]
           \/ session' = [session EXCEPT ![x].verified = None],
           UNCHANGED user
    PROVE  /\ session' \in [Sessions -> Login!Session \cup {None}]
           /\ \A y \in Sessions : SessionOK(y)'
           /\ SessionsKept
  <1>1. session[x] \in Login!Session
    BY DEF LoginInv, Login!AccountsTypeOK
  <1>2. PICK new \in {[session[x] EXCEPT !.live = FALSE],
                      [session[x] EXCEPT !.verified = None]} :
           session' = [session EXCEPT ![x] = new]
    BY DEF LoginInv, Login!AccountsTypeOK
  <1>3. /\ new \in Login!Session
        /\ new.origin = session[x].origin /\ new.user = session[x].user
        /\ new.live => session[x].live
        /\ new.verified # None => new.verified = session[x].verified
    BY <1>1, <1>2 DEF Login!Session
  <1> QED
    BY <1>2, <1>3, SessionSet

LEMMA SessionExpiresStep ==
    ASSUME LoginInv, NEW x \in Sessions,
           Login!SessionExpires(x) \/ Login!VerificationExpires(x)
    PROVE  LoginInv'
  <1>1. session[x] # None /\ UNCHANGED <<user, attempt, jar, callback, deletion>>
    BY DEF Login!SessionExpires, Login!VerificationExpires, Login!Live
  <1>2. /\ session' \in [Sessions -> Login!Session \cup {None}]
        /\ \A y \in Sessions : SessionOK(y)'
        /\ SessionsKept
    BY <1>1, SessionEnds DEF Login!SessionExpires, Login!VerificationExpires
  <1> QED
    BY <1>1, <1>2, SessionStep

\* A browser forgets its session.
LEMMA JarCleared ==
    ASSUME LoginInv, AttemptsKept, SessionsKept, NEW b \in Browsers,
           jar' = [jar EXCEPT ![b].session = None]
    PROVE  jar' \in [Browsers -> Login!Jar] /\ \A i \in Browsers : JarOK(i)'
  <1>1. jar' \in [Browsers -> Login!Jar]
    BY DEF LoginInv, Login!AccountsTypeOK, Login!Jar
  <1>2. ASSUME NEW i \in Browsers PROVE JarOK(i)'
    <2>1. /\ jar'[i].attempt = jar[i].attempt
          /\ jar'[i].session # None => jar'[i].session = jar[i].session
      BY DEF LoginInv, Login!AccountsTypeOK, Login!Jar
    <2> QED
      BY <2>1 DEF LoginInv, Login!AccountsTypeOK, Login!Jar, JarOK, CookiesOK, BegunIn,
                  AttemptsKept, SessionsKept
  <1> QED
    BY <1>1, <1>2

LEMMA LogoutStep ==
    ASSUME LoginInv, NEW b \in Browsers, Login!Logout(b)
    PROVE  LoginInv'
  <1>1. PICK x \in Sessions : x = jar[b].session /\ session[x] # None
    BY DEF LoginInv, Login!AccountsTypeOK, Login!Jar, Login!Logout, Login!Live
  <1>2. /\ session' \in [Sessions -> Login!Session \cup {None}]
        /\ \A y \in Sessions : SessionOK(y)'
        /\ SessionsKept
    BY <1>1, SessionEnds DEF Login!Logout
  <1>3. AttemptsKept
    BY DEF AttemptsKept, Login!Logout
  <1>4. CallbacksOK' /\ jar' \in [Browsers -> Login!Jar] /\ \A i \in Browsers : JarOK(i)'
    BY <1>2, <1>3, CallbacksStay, JarCleared DEF Login!Logout
  <1> QED
    BY <1>2, <1>4 DEF LoginInv, Login!AccountsTypeOK, AttemptOK, DeletionOK, Login!Logout

LEMMA CheckDeletionStep ==
    ASSUME LoginInv, NEW b \in Browsers, Login!CheckDeletion(b)
    PROVE  LoginInv'
  <1>1. PICK x \in Sessions : x = jar[b].session
    BY DEF LoginInv, Login!AccountsTypeOK, Login!Jar, Login!CheckDeletion, Login!Live
  <1>2. /\ session[x] \in Login!Session /\ session[x].verified # None
        /\ user[session[x].user] # None
        /\ session[x].verified = user[session[x].user].subject
    BY <1>1 DEF LoginInv, Login!AccountsTypeOK, SessionOK, Login!CheckDeletion, Login!Live
  <1>3. deletion' \in Login!Deletion /\ DeletionOK'
    BY <1>1, <1>2 DEF Login!CheckDeletion, Login!Deletion, Login!Session, DeletionOK
  <1>4. AttemptsKept /\ SessionsKept
    BY DEF AttemptsKept, SessionsKept, Login!CheckDeletion
  <1>5. CallbacksOK' /\ \A i \in Browsers : JarOK(i)'
    BY <1>4, CallbacksStay, JarStays DEF Login!CheckDeletion
  <1> QED
    BY <1>3, <1>5
       DEF LoginInv, Login!AccountsTypeOK, AttemptOK, SessionOK, Login!CheckDeletion

LEMMA DeleteAccountStep ==
    ASSUME LoginInv, Login!DeleteAccount
    PROVE  LoginInv'
  <1>1. PICK u \in Users, b \in Browsers : u = deletion.user /\ b = deletion.browser
    BY DEF LoginInv, Login!AccountsTypeOK, Login!Deletion, Login!DeleteAccount
  <1>2. /\ user' \in [Users -> Login!User \cup {None}]
        /\ \A v \in Users : v # u => user'[v] = user[v]
    BY <1>1 DEF LoginInv, Login!AccountsTypeOK, Login!DeleteAccount
  <1>3. ASSUME NEW x \in Sessions, session[x] # None, session[x].user = u
        PROVE  \E d \in Login!Session :
                  /\ session'[x] = d /\ ~ d.live /\ d.verified = None
                  /\ d.origin = session[x].origin
    <2>1. session[x] \in Login!Session
      BY <1>3 DEF LoginInv, Login!AccountsTypeOK
    <2>2. PICK d : d = [session[x] EXCEPT !.live = FALSE, !.verified = None]
      OBVIOUS
    <2>3. /\ d \in Login!Session /\ ~ d.live /\ d.verified = None
          /\ d.origin = session[x].origin
      BY <2>1, <2>2 DEF Login!Session
    <2>4. session'[x] = d
      BY <1>1, <1>3, <2>2 DEF Login!DeleteAccount
    <2> QED
      BY <2>3, <2>4
  <1>4. \A x \in Sessions : session[x] = None \/ session[x].user # u => session'[x] = session[x]
    BY <1>1 DEF Login!DeleteAccount
  <1>5. session' \in [Sessions -> Login!Session \cup {None}]
    <2>1. \A x \in Sessions : session'[x] \in Login!Session \cup {None}
      BY <1>3, <1>4 DEF LoginInv, Login!AccountsTypeOK
    <2>2. session' = [x \in Sessions |-> session'[x]]
      BY DEF Login!DeleteAccount
    <2> QED
      BY <2>1, <2>2
  <1>6. ASSUME NEW x \in Sessions PROVE SessionOK(x)'
    <2>1. CASE session[x] # None /\ session[x].user = u
      BY <1>3, <2>1 DEF SessionOK
    <2>2. CASE session[x] # None /\ session[x].user # u
      <3>1. session[x].user \in Users
        BY <2>2 DEF LoginInv, Login!AccountsTypeOK, Login!Session
      <3> QED
        BY <1>2, <1>4, <2>2, <3>1 DEF SessionOK, LoginInv
    <2>3. CASE session[x] = None
      BY <1>4, <2>3 DEF SessionOK
    <2> QED
      BY <2>1, <2>2, <2>3
  <1>7. AttemptsKept /\ SessionsKept
    <2>1. AttemptsKept
      BY <1>3, <1>4 DEF AttemptsKept, Login!DeleteAccount
    <2>2. SessionsKept
      BY <1>3, <1>4, LoginAssumption DEF SessionsKept, Login!DeleteAccount
    <2> QED
      BY <2>1, <2>2
  <1>8. CallbacksOK' /\ jar' \in [Browsers -> Login!Jar] /\ \A i \in Browsers : JarOK(i)'
    BY <1>1, <1>7, CallbacksStay, JarCleared DEF Login!DeleteAccount
  <1>9. deletion' = None /\ attempt' = attempt /\ callback' = callback
    BY DEF Login!DeleteAccount
  <1>10. Login!AccountsTypeOK'
    BY <1>2, <1>5, <1>8, <1>9 DEF LoginInv, Login!AccountsTypeOK
  <1>11. DeletionOK' /\ \A a \in Attempts : AttemptOK(a)'
    BY <1>9 DEF LoginInv, AttemptOK, DeletionOK
  <1> QED
    BY <1>6, <1>8, <1>10, <1>11 DEF LoginInv

LEMMA LoginStep ==
    ASSUME LoginInv, Login!AccountsNext
    PROVE  LoginInv'
  <1>1. CASE \E b \in Browsers : Login!Logout(b) \/ Login!CheckDeletion(b)
    BY <1>1, LogoutStep, CheckDeletionStep
  <1>2. ASSUME NEW b \in Browsers, NEW a \in Login!Unused(attempt),
               Login!StartLogin(b, a) \/ Login!StartVerification(b, a)
        PROVE  LoginInv'
    <2>1. a \in Attempts
      BY UnusedIsNone DEF LoginInv, Login!AccountsTypeOK
    <2>2. jar[b].session \in Sessions \cup {None}
      BY DEF LoginInv, Login!AccountsTypeOK, Login!Jar
    <2> QED
      BY <1>2, <2>1, <2>2, BeginStep DEF Login!StartLogin, Login!StartVerification
  <1>3. ASSUME NEW b \in Browsers, NEW a \in Attempts, NEW k \in Login!Unused(callback),
               Login!OpenCallback(b, a, k)
        PROVE  LoginInv'
    <2>1. k \in Callbacks
      BY UnusedIsNone DEF LoginInv, Login!AccountsTypeOK
    <2> QED
      BY <1>3, <2>1, OpenCallbackStep
  <1>4. CASE \E a \in Attempts : Login!AttemptExpires(a)
    BY <1>4, AttemptExpiresStep
  <1>5. ASSUME NEW k \in Callbacks,
               \/ Login!FindAttempt(k) \/ Login!ConsumeAttempt(k) \/ Login!CallbackFails(k)
               \/ Login!VerifyDeletion(k) \/ Login!LookupIdentity(k)
               \/ Login!CheckEmail(k) \/ Login!Recover(k)
               \/ \E s \in Subjects, e \in Emails : Login!Exchange(k, s, e)
        PROVE  LoginInv'
    BY <1>5, FindAttemptStep, ConsumeStep, CallbackFailsStep, VerifyDeletionStep,
       LookupIdentityStep, CheckEmailStep, RecoverStep, ExchangeStep
  <1>6. ASSUME NEW k \in Callbacks, NEW u \in Login!Unused(user), Login!CreateUser(k, u)
        PROVE  LoginInv'
    <2>1. u \in Users
      BY UnusedIsNone DEF LoginInv, Login!AccountsTypeOK
    <2> QED
      BY <1>6, <2>1, CreateUserStep
  <1>7. ASSUME NEW k \in Callbacks, NEW x \in Login!Unused(session),
               Login!CreateSession(k, x)
        PROVE  LoginInv'
    <2>1. x \in Sessions
      BY UnusedIsNone DEF LoginInv, Login!AccountsTypeOK
    <2> QED
      BY <1>7, <2>1, CreateSessionStep
  <1>8. CASE \E x \in Sessions : Login!SessionExpires(x) \/ Login!VerificationExpires(x)
    BY <1>8, SessionExpiresStep
  <1>9. CASE Login!DeleteAccount
    BY <1>9, DeleteAccountStep
  <1> QED
    BY <1>1, <1>2, <1>3, <1>4, <1>5, <1>6, <1>7, <1>8, <1>9 DEF Login!AccountsNext

\* What a step of the accounts may not do.
LEMMA LoginSteps ==
    ASSUME LoginInv, Login!AccountsNext
    PROVE  Login!FirstSignInsAgree /\ Login!DeletedByItsIdentity
  <1>1. ASSUME NEW u \in Users, user[u] # None, user'[u] = None
        PROVE  deletion.proof = user[u].subject
    <2>1. CASE Login!DeleteAccount
      <3>1. u = deletion.user
        BY <1>1, <2>1 DEF LoginInv, Login!AccountsTypeOK, Login!Deletion,
                          Login!DeleteAccount
      <3> QED
        BY <2>1, <3>1 DEF LoginInv, DeletionOK, Login!DeleteAccount
    <2>2. ASSUME NEW k \in Callbacks, NEW v \in Login!Unused(user), Login!CreateUser(k, v)
          PROVE  FALSE
      <3>1. CASE user' = user
        BY <1>1, <3>1
      <3>2. CASE user' = [user EXCEPT ![v] = [subject |-> callback[k].subject,
                                            email |-> callback[k].email]]
        <4>1. v # u
          BY <1>1, <2>2 DEF Login!CreateUser
        <4> QED
          BY <1>1, <3>2, <4>1 DEF LoginInv, Login!AccountsTypeOK
      <3> QED
        BY <2>2, <3>1, <3>2 DEF Login!CreateUser
    <2>3. CASE UNCHANGED user
      BY <1>1, <2>3
    <2> QED
      BY <2>1, <2>2, <2>3
         DEF Login!AccountsNext, Login!Logout, Login!CheckDeletion, Login!StartLogin,
             Login!StartVerification, Login!Begin, Login!OpenCallback,
             Login!AttemptExpires, Login!FindAttempt, Login!ConsumeAttempt,
             Login!CallbackFails, Login!VerifyDeletion, Login!LookupIdentity,
             Login!CheckEmail, Login!Recover, Login!Exchange, Login!CreateSession,
             Login!SessionExpires, Login!VerificationExpires
  <1>2. ASSUME NEW k \in Callbacks, callback[k] # None,
               callback[k].phase \in {"email", "create", "recover"}, callback'[k] = None
        PROVE  Login!Owners(callback[k].subject) = {}
    <2>1. callback[k] \in Login!Callback
      BY <1>2, CallbackType
    <2>2. ASSUME NEW p \in {"recover", "create"}, Login!To(k, p) PROVE FALSE
      <3>1. PICK c : c = [callback[k] EXCEPT !.phase = p]
        OBVIOUS
      <3>2. c \in Login!Callback
        BY <2>1, <3>1, PhaseType
      <3>3. callback'[k] = c
        BY <2>2, <3>1 DEF Login!To, LoginInv, Login!AccountsTypeOK
      <3> QED
        BY <1>2, <3>2, <3>3, LoginAssumption
    <2>3. ASSUME NEW u \in Users, Login!SignInTo(k, u) PROVE FALSE
      <3>1. PICK c : c = [callback[k] EXCEPT !.user = u, !.phase = "session"]
        OBVIOUS
      <3>2. c \in Login!Callback
        BY <2>1, <3>1 DEF Login!Callback
      <3>3. callback'[k] = c
        BY <2>3, <3>1 DEF Login!SignInTo, LoginInv, Login!AccountsTypeOK
      <3> QED
        BY <1>2, <3>2, <3>3, LoginAssumption
    <2>4. ASSUME NEW j \in Callbacks, j # k, NEW c, callback' = [callback EXCEPT ![j] = c]
          PROVE  FALSE
      BY <1>2, <2>4 DEF LoginInv, Login!AccountsTypeOK
    <2>5. ASSUME NEW j \in Callbacks,
                 \/ Login!FindAttempt(j) \/ Login!ConsumeAttempt(j)
                 \/ Login!CallbackFails(j) \/ Login!VerifyDeletion(j)
                 \/ Login!LookupIdentity(j)
                 \/ \E s \in Subjects, e \in Emails : Login!Exchange(j, s, e)
                 \/ \E x \in Login!Unused(session) : Login!CreateSession(j, x)
          PROVE  FALSE
      <3>1. j # k
        BY <1>2, <2>5
           DEF Login!FindAttempt, Login!ConsumeAttempt, Login!CallbackFails,
               Login!VerifyDeletion, Login!LookupIdentity, Login!Exchange,
               Login!CreateSession
      <3>2. callback'[k] = callback[k]
        BY <2>5, <3>1
           DEF Login!FindAttempt, Login!ConsumeAttempt, Login!CallbackFails,
               Login!VerifyDeletion, Login!LookupIdentity, Login!Exchange,
               Login!CreateSession, Login!To, Login!SignInTo, Login!Answer,
               LoginInv, Login!AccountsTypeOK
      <3> QED
        BY <1>2, <3>2
    <2>6. ASSUME NEW j \in Callbacks,
                 \/ Login!CheckEmail(j) \/ Login!Recover(j)
                 \/ \E u \in Login!Unused(user) : Login!CreateUser(j, u)
          PROVE  Login!Owners(callback[k].subject) = {}
      <3>1. CASE j # k
        <4>1. callback'[k] = callback[k]
          BY <2>6, <3>1
             DEF Login!CheckEmail, Login!Recover, Login!CreateUser, Login!OnConflict,
                 Login!To, Login!SignInTo, Login!Answer, LoginInv, Login!AccountsTypeOK
        <4> QED
          BY <1>2, <4>1
      <3>2. CASE j = k /\ Login!CheckEmail(k)
        BY <2>2, <3>2 DEF Login!CheckEmail, Login!OnConflict
      <3>3. CASE j = k /\ Login!Recover(k)
        BY <2>3, <3>3 DEF Login!Recover, Login!Owners
      <3>4. ASSUME NEW u \in Login!Unused(user), Login!CreateUser(k, u) PROVE FALSE
        <4>1. u \in Users
          BY UnusedIsNone DEF LoginInv, Login!AccountsTypeOK
        <4> QED
          BY <2>2, <2>3, <3>4, <4>1 DEF Login!CreateUser
      <3> QED
        BY <2>6, <3>1, <3>2, <3>3, <3>4
    <2>7. ASSUME NEW b \in Browsers, NEW a \in Attempts, NEW j \in Login!Unused(callback),
                 Login!OpenCallback(b, a, j)
          PROVE  FALSE
      <3>1. j \in Callbacks /\ j # k
        BY <1>2, <2>7, UnusedIsNone DEF LoginInv, Login!AccountsTypeOK
      <3> QED
        BY <2>4, <2>7, <3>1 DEF Login!OpenCallback
    <2>8. CASE UNCHANGED callback
      BY <1>2, <2>8
    <2> QED
      BY <2>5, <2>6, <2>7, <2>8
         DEF Login!AccountsNext, Login!Logout, Login!CheckDeletion, Login!StartLogin,
             Login!StartVerification, Login!Begin, Login!AttemptExpires,
             Login!SessionExpires, Login!VerificationExpires, Login!DeleteAccount
  <1> QED
    BY <1>1, <1>2 DEF Login!FirstSignInsAgree, Login!DeletedByItsIdentity

LEMMA LoginStutter ==
    ASSUME LoginInv, UNCHANGED loginVars
    PROVE  LoginInv'
  BY DEF LoginInv, loginVars, Login!AccountsTypeOK, SessionOK, AttemptOK, JarOK, CookiesOK,
         CallbacksOK, CallbackOK, BegunIn, DeletionOK

LEMMA LoginHolds ==
    ASSUME LoginInv
    PROVE  Login!AttemptUsedOnce /\ Login!SignedInWhereBegun
  BY DEF LoginInv, AttemptOK, JarOK, Login!AttemptUsedOnce, Login!SignedInWhereBegun

LEMMA LoginInvariance == Spec => [](part = "login" => LoginInv)
  <1>1. Init => (part = "login" => LoginInv)
    BY LoginInit DEF Init
  <1>2. (part = "login" => LoginInv) /\ [Next]_vars => (part = "login" => LoginInv)'
    <2> SUFFICES ASSUME part = "login" => LoginInv, [Next]_vars, part' = "login"
                 PROVE  LoginInv'
      OBVIOUS
    <2>1. CASE part = "login" /\ Login!AccountsNext
      BY <2>1, LoginStep
    <2>2. CASE part = "login" /\ UNCHANGED loginVars
      BY <2>2, LoginStutter
    <2> QED
      BY <2>1, <2>2 DEF Next, vars
  <1> QED
    BY <1>1, <1>2, PTL DEF Spec

-----------------------------------------------------------------------------
(* The MCP server (McpServer) *)

\* A request that was let into a session came with its token, and a session is
\* opened for a token that was accepted.
McpCallOK(c) ==
    /\ c.session # None => mcpSession[c.session] # None
    /\ c.phase = "tool" =>
          /\ c.session \in SessionIds /\ mcpSession[c.session] # None
          /\ mcpSession[c.session].token = c.token
    /\ c.phase = "open" => c.vetted
McpCallsOK == \A q \in Calls : call[q] # None => McpCallOK(call[q])
VettedOK == \A i \in SessionIds : mcpSession[i] # None => mcpSession[i].vetted

\* The requests that passed, of a count f.
Counts(f, from, to) ==
    {p \in Mcp!Times \X Nat : from <= p[1] /\ p[1] < to /\ 1 <= p[2] /\ p[2] <= f[p[1]]}

Total(f, from, to) == Cardinality(Counts(f, from, to))

\* A window that starts at c is the first one to count anything then, and for the
\* length of a window less than the limit has passed.
Fresh(f, c) ==
    /\ f[c] = 0
    /\ \A x \in Mcp!Times : c <= x + Window => Total(f, x, c + 1) < RateMax

\* Of the current window at most as many have passed as were counted and as are
\* allowed, the first one when it began, none after its end; before its start,
\* for the length of a window, less than the limit.
Within(f, c, w) ==
    /\ w.windowStartedAt <= c
    /\ w.count >= 1 /\ f[w.windowStartedAt] >= 1
    /\ Total(f, w.windowStartedAt, c + 1) <= RateMax
    /\ Total(f, w.windowStartedAt, c + 1) <= w.count
    /\ \A y \in Mcp!Times : w.windowStartedAt + Window < y => f[y] = 0
    /\ \A x \in Mcp!Times : w.windowStartedAt <= x + Window =>
          Total(f, x, w.windowStartedAt) < RateMax

\* What passed of a token by the time c, whose window is w: nothing in the future,
\* and less than twice the limit in any stretch of a window's length.
RateOK(f, c, w) ==
    /\ IsFiniteSet(Counts(f, 0, MaxClock + 1))
    /\ \A y \in Mcp!Times : c < y => f[y] = 0
    /\ IF w = None THEN Fresh(f, c) ELSE Within(f, c, w)
    /\ \A x \in Mcp!Times : Total(f, x, x + Window + 1) < 2 * RateMax

McpInv ==
    /\ Mcp!McpTypeOK
    /\ McpCallsOK /\ VettedOK
    /\ \A t \in Tokens : RateOK(admitted[t], clock, windows[t])

LEMMA CountsArePassed ==
    ASSUME admitted \in [Tokens -> [Mcp!Times -> Nat]], NEW t \in Tokens, NEW from, NEW to
    PROVE  Mcp!Passed(t, from, to) = Counts(admitted[t], from, to)
  <1>1. PICK f \in [Mcp!Times -> Nat] : f = admitted[t]
    OBVIOUS
  <1>2. ASSUME NEW p
        PROVE  p \in Mcp!Passed(t, from, to) <=> p \in Counts(f, from, to)
    <2>1. p \in Mcp!Passed(t, from, to) <=>
            \E y \in Mcp!Times : from <= y /\ y < to /\ p \in {y} \X (1 .. f[y])
      BY <1>1 DEF Mcp!Passed
    <2>2. ASSUME NEW y \in Mcp!Times, from <= y, y < to, p \in {y} \X (1 .. f[y])
          PROVE  p \in Counts(f, from, to)
      <3>1. p[1] = y /\ p[2] \in 1 .. f[y] /\ p = <<p[1], p[2]>> /\ f[y] \in Nat
        BY <2>2, <1>1
      <3>2. p[2] \in Nat /\ 1 <= p[2] /\ p[2] <= f[y]
        BY <3>1
      <3> QED
        BY <2>2, <3>1, <3>2 DEF Counts
    <2>3. ASSUME p \in Counts(f, from, to)
          PROVE  \E y \in Mcp!Times : from <= y /\ y < to /\ p \in {y} \X (1 .. f[y])
      <3>1. /\ p[1] \in Mcp!Times /\ p[2] \in Nat /\ p = <<p[1], p[2]>>
            /\ from <= p[1] /\ p[1] < to /\ 1 <= p[2] /\ p[2] <= f[p[1]]
        BY <2>3 DEF Counts
      <3>2. f[p[1]] \in Nat
        BY <3>1
      <3>3. p[2] \in 1 .. f[p[1]]
        BY <3>1, <3>2
      <3> QED
        BY <3>1, <3>3
    <2> QED
      BY <2>1, <2>2, <2>3
  <1> QED
    BY <1>1, <1>2

\* From f to g one more has passed, at c.
Adds(f, g, c) ==
    /\ g \in [Mcp!Times -> Nat]
    /\ g[c] = f[c] + 1
    /\ \A y \in Mcp!Times : y # c => g[y] = f[y]

LEMMA AddsOne ==
    ASSUME NEW f \in [Mcp!Times -> Nat], NEW c \in Mcp!Times
    PROVE  Adds(f, [f EXCEPT ![c] = f[c] + 1], c)
  BY DEF Adds

\* It is one more element of the stretches it lies in.
LEMMA OneMore ==
    ASSUME NEW f \in [Mcp!Times -> Nat], NEW c \in Mcp!Times, NEW g, Adds(f, g, c),
           NEW from \in Nat, NEW to \in Nat
    PROVE  /\ from <= c /\ c < to =>
                 /\ Counts(g, from, to) = Counts(f, from, to) \cup {<<c, f[c] + 1>>}
                 /\ <<c, f[c] + 1>> \notin Counts(f, from, to)
           /\ ~ (from <= c /\ c < to) => Counts(g, from, to) = Counts(f, from, to)
  <1>1. g \in [Mcp!Times -> Nat] /\ g[c] = f[c] + 1
        /\ \A y \in Mcp!Times : y # c => g[y] = f[y]
    BY DEF Adds
  <1>2. Mcp!Times \subseteq Nat
    BY McpAssumption DEF Mcp!Times
  <1>3. ASSUME from <= c, c < to
        PROVE  /\ Counts(g, from, to) = Counts(f, from, to) \cup {<<c, f[c] + 1>>}
               /\ <<c, f[c] + 1>> \notin Counts(f, from, to)
    <2>1. f[c] \in Nat /\ f[c] + 1 \in Nat /\ 1 <= f[c] + 1 /\ ~ (f[c] + 1 <= f[c])
      OBVIOUS
    <2>2. <<c, f[c] + 1>> \notin Counts(f, from, to)
      BY <2>1 DEF Counts
    <2>3. <<c, f[c] + 1>> \in Counts(g, from, to)
      BY <1>1, <1>3, <2>1 DEF Counts
    <2>4. ASSUME NEW p \in Mcp!Times \X Nat, p # <<c, f[c] + 1>>
          PROVE  p[2] <= g[p[1]] <=> p[2] <= f[p[1]]
      <3>1. p[1] \in Mcp!Times /\ p[2] \in Nat /\ p = <<p[1], p[2]>>
        OBVIOUS
      <3>2. CASE p[1] = c
        <4>1. p[2] # f[c] + 1
          BY <2>4, <3>1, <3>2
        <4>2. p[2] <= f[c] + 1 <=> p[2] <= f[c]
          BY <2>1, <3>1, <4>1
        <4> QED
          BY <1>1, <3>2, <4>2
      <3>3. CASE p[1] # c
        BY <1>1, <3>1, <3>3
      <3> QED
        BY <3>2, <3>3
    <2>5. \A p \in Mcp!Times \X Nat : p # <<c, f[c] + 1>> =>
             (p \in Counts(g, from, to) <=> p \in Counts(f, from, to))
      BY <2>4 DEF Counts
    <2>6. \A p : p \in Counts(g, from, to) \/ p \in Counts(f, from, to)
                   => p \in Mcp!Times \X Nat
      BY DEF Counts
    <2> QED
      BY <2>2, <2>3, <2>5, <2>6
  <1>4. ASSUME ~ (from <= c /\ c < to)
        PROVE  Counts(g, from, to) = Counts(f, from, to)
    <2>1. ASSUME NEW p \in Mcp!Times \X Nat, from <= p[1], p[1] < to
          PROVE  g[p[1]] = f[p[1]]
      BY <1>1, <1>4, <2>1
    <2> QED
      BY <2>1 DEF Counts
  <1> QED
    BY <1>1, <1>3, <1>4

LEMMA SubStretch ==
    ASSUME NEW f \in [Mcp!Times -> Nat],
           NEW from \in Nat, NEW to \in Nat, NEW from1 \in Nat, NEW to1 \in Nat,
           from <= from1, to1 <= to, IsFiniteSet(Counts(f, from, to))
    PROVE  /\ Counts(f, from1, to1) \subseteq Counts(f, from, to)
           /\ IsFiniteSet(Counts(f, from1, to1))
           /\ Cardinality(Counts(f, from1, to1)) \in Nat
           /\ Cardinality(Counts(f, from, to)) \in Nat
           /\ Cardinality(Counts(f, from1, to1)) <= Cardinality(Counts(f, from, to))
  <1>1. Mcp!Times \subseteq Nat
    BY McpAssumption DEF Mcp!Times
  <1>2. \A y \in Mcp!Times : from1 <= y /\ y < to1 => from <= y /\ y < to
    BY <1>1
  <1>3. Counts(f, from1, to1) \subseteq Counts(f, from, to)
    BY <1>2 DEF Counts
  <1> QED
    BY <1>3, FS_Subset, FS_CardinalityType

\* Two stretches that follow each other.
LEMMA TwoStretches ==
    ASSUME NEW f \in [Mcp!Times -> Nat], NEW from \in Nat, NEW at \in Nat, NEW to \in Nat,
           from <= at, at <= to, IsFiniteSet(Counts(f, from, to))
    PROVE  Cardinality(Counts(f, from, to))
             <= Cardinality(Counts(f, from, at)) + Cardinality(Counts(f, at, to))
  <1>1. Mcp!Times \subseteq Nat
    BY McpAssumption DEF Mcp!Times
  <1>2. \A y \in Mcp!Times : from <= y /\ y < to => (from <= y /\ y < at) \/ (at <= y /\ y < to)
    BY <1>1
  <1>3. Counts(f, from, to) \subseteq Counts(f, from, at) \cup Counts(f, at, to)
    BY <1>2 DEF Counts
  <1>4. /\ Counts(f, from, at) \subseteq Counts(f, from, to)
        /\ IsFiniteSet(Counts(f, from, at)) /\ Cardinality(Counts(f, from, at)) \in Nat
        /\ Counts(f, at, to) \subseteq Counts(f, from, to)
        /\ IsFiniteSet(Counts(f, at, to)) /\ Cardinality(Counts(f, at, to)) \in Nat
    BY SubStretch
  <1>5. Counts(f, from, to) = Counts(f, from, at) \cup Counts(f, at, to)
    BY <1>3, <1>4
  <1>6. PICK A, B : A = Counts(f, from, at) /\ B = Counts(f, at, to)
    OBVIOUS
  <1>7. Cardinality(A \cup B) = Cardinality(A) + Cardinality(B) - Cardinality(A \cap B)
    BY <1>4, <1>6, FS_Union
  <1>8. IsFiniteSet(A \cap B)
    BY <1>4, <1>6, FS_Subset
  <1>9. Cardinality(A \cap B) \in Nat
    BY <1>8, FS_CardinalityType
  <1>10. Cardinality(A \cup B) <= Cardinality(A) + Cardinality(B)
    BY <1>4, <1>6, <1>7, <1>9
  <1> QED
    BY <1>5, <1>6, <1>10

\* Nothing passed after c: what passed up to c is what passed.
LEMMA NothingAfter ==
    ASSUME NEW f \in [Mcp!Times -> Nat], NEW c \in Nat,
           \A y \in Mcp!Times : c < y => f[y] = 0,
           NEW from \in Nat, NEW to \in Nat, c < to
    PROVE  Counts(f, from, to) = Counts(f, from, c + 1)
  <1>1. Mcp!Times \subseteq Nat
    BY McpAssumption DEF Mcp!Times
  <1>2. ASSUME NEW p \in Mcp!Times \X Nat, 1 <= p[2], p[2] <= f[p[1]]
        PROVE  p[1] < to <=> p[1] < c + 1
    <2>1. p[1] \in Nat /\ p[1] \in Mcp!Times /\ p[2] \in Nat
      BY <1>1
    <2>2. f[p[1]] # 0 /\ f[p[1]] \in Nat
      BY <1>2, <2>1
    <2>3. p[1] <= c
      BY <2>1, <2>2
    <2> QED
      BY <2>1, <2>3
  <1> QED
    BY <1>2 DEF Counts

\* Every stretch lies in the one that is known to be finite.
LEMMA Sizes ==
    ASSUME NEW f \in [Mcp!Times -> Nat], IsFiniteSet(Counts(f, 0, MaxClock + 1)),
           NEW from \in Nat, NEW to \in Nat
    PROVE  /\ Counts(f, from, to) \subseteq Counts(f, 0, MaxClock + 1)
           /\ IsFiniteSet(Counts(f, from, to))
           /\ Total(f, from, to) \in Nat
  <1>1. \A y \in Mcp!Times : 0 <= y /\ y < MaxClock + 1
    BY McpAssumption DEF Mcp!Times
  <1>2. Counts(f, from, to) \subseteq Counts(f, 0, MaxClock + 1)
    BY <1>1 DEF Counts
  <1> QED
    BY <1>2, FS_Subset, FS_CardinalityType DEF Total

\* A smaller stretch holds no more than a greater one.
LEMMA Smaller ==
    ASSUME NEW f \in [Mcp!Times -> Nat], IsFiniteSet(Counts(f, 0, MaxClock + 1)),
           NEW from \in Nat, NEW to \in Nat, NEW from1 \in Nat, NEW to1 \in Nat,
           from <= from1, to1 <= to
    PROVE  Total(f, from1, to1) <= Total(f, from, to)
  <1>1. IsFiniteSet(Counts(f, from, to))
    BY Sizes
  <1> QED
    BY <1>1, SubStretch DEF Total

\* When a window has run out, or was swept, the next one is the first to count
\* anything, and less than the limit has passed for the length of a window.
LEMMA Restarting ==
    ASSUME NEW f \in [Mcp!Times -> Nat], NEW c \in Mcp!Times,
           NEW w \in Mcp!RateWindow \cup {None}, RateOK(f, c, w),
           w # None => c - w.windowStartedAt > Window
    PROVE  Fresh(f, c)
  <1>1. CASE w = None
    BY <1>1 DEF RateOK
  <1>2. CASE w # None
    <2>1. PICK start \in Nat : start = w.windowStartedAt /\ start \in Mcp!Times
      BY <1>2, McpAssumption DEF Mcp!RateWindow, Mcp!Times
    <2>2. c \in Nat /\ Window \in Nat /\ RateMax \in Nat /\ start + Window < c
      BY <1>2, <2>1, McpAssumption DEF Mcp!Times
    <2>3. f[c] = 0 /\ f[start] >= 1 /\ Total(f, start, c + 1) <= RateMax
      BY <1>2, <2>1, <2>2 DEF RateOK, Within
    <2>4. ASSUME NEW x \in Mcp!Times, c <= x + Window
          PROVE  Total(f, x, c + 1) < RateMax
      <3>1. x \in Nat /\ start < x
        BY <2>2, <2>4, McpAssumption DEF Mcp!Times
      <3>2. /\ IsFiniteSet(Counts(f, start, c + 1)) /\ Total(f, start, c + 1) \in Nat
            /\ IsFiniteSet(Counts(f, x, c + 1)) /\ Total(f, x, c + 1) \in Nat
        <4>1. c + 1 \in Nat /\ start \in Nat /\ IsFiniteSet(Counts(f, 0, MaxClock + 1))
          BY <2>1, <2>2 DEF RateOK
        <4> QED
          BY <3>1, <4>1, Sizes
      <3>3. Counts(f, x, c + 1) \subseteq Counts(f, start, c + 1)
        BY <2>2, <3>1, <3>2, SubStretch
      <3>4. <<start, 1>> \in Counts(f, start, c + 1)
        BY <2>1, <2>2, <2>3 DEF Counts
      <3>5. <<start, 1>> \notin Counts(f, x, c + 1)
        BY <3>1 DEF Counts
      <3>6. Counts(f, x, c + 1) \subseteq Counts(f, start, c + 1) \ {<<start, 1>>}
        BY <3>3, <3>5
      <3>7. PICK A, B : A = Counts(f, start, c + 1) /\ B = Counts(f, x, c + 1)
        OBVIOUS
      <3>8. /\ IsFiniteSet(A \ {<<start, 1>>})
            /\ Cardinality(A \ {<<start, 1>>}) = Cardinality(A) - 1
        BY <3>2, <3>4, <3>7, FS_RemoveElement
      <3>9. Cardinality(B) <= Cardinality(A \ {<<start, 1>>})
        BY <3>6, <3>7, <3>8, FS_Subset
      <3> QED
        BY <2>2, <2>3, <3>2, <3>7, <3>8, <3>9 DEF Total
    <2> QED
      BY <2>3, <2>4 DEF Fresh
  <1> QED
    BY <1>1, <1>2

\* A request that is refused for its token only counts.
LEMMA RefusedRate ==
    ASSUME NEW f \in [Mcp!Times -> Nat], clock \in Mcp!Times,
           NEW w \in Mcp!RateWindow \cup {None}, RateOK(f, clock, w),
           Mcp!Limited(w, RateMax)
    PROVE  RateOK(f, clock, Mcp!Counted(w, RateMax))
  <1>1. w # None /\ ~ Mcp!Restarts(w) /\ w \in Mcp!RateWindow
    BY DEF Mcp!Limited, Mcp!Restarts
  <1>2. PICK n \in Nat : n = (IF w.count > RateMax THEN w.count ELSE w.count + 1)
    BY <1>1, McpAssumption DEF Mcp!RateWindow
  <1>3. PICK v : v = [w EXCEPT !.count = n]
    OBVIOUS
  <1>4. Mcp!Counted(w, RateMax) = v
    BY <1>1, <1>2, <1>3 DEF Mcp!Counted, Mcp!RateWindow
  <1>5. v.windowStartedAt = w.windowStartedAt /\ v.count = n /\ v \in Mcp!RateWindow
    BY <1>1, <1>3 DEF Mcp!RateWindow
  <1>6. v # None
    BY <1>5, McpAssumption
  <1>7. Within(f, clock, w)
    BY <1>1 DEF RateOK
  <1>8. Total(f, w.windowStartedAt, clock + 1) \in Nat
    <2>1. w.windowStartedAt \in Nat /\ clock + 1 \in Nat
      BY <1>1, McpAssumption DEF Mcp!RateWindow, Mcp!Times
    <2> QED
      BY <2>1, Sizes DEF RateOK
  <1>9. w.count \in Nat /\ w.count <= n
    <2>1. w.count \in Nat
      BY <1>1 DEF Mcp!RateWindow
    <2>2. w.count <= w.count + 1 /\ w.count <= w.count
      BY <2>1
    <2> QED
      BY <1>2, <2>1, <2>2
  <1>10. Total(f, v.windowStartedAt, clock + 1) <= v.count /\ v.count >= 1
    BY <1>2, <1>5, <1>7, <1>8, <1>9 DEF Within
  <1>11. Within(f, clock, v)
    BY <1>5, <1>7, <1>10 DEF Within
  <1> QED
    BY <1>4, <1>6, <1>11 DEF RateOK

\* One more that passes.
LEMMA PlusOne ==
    ASSUME NEW f \in [Mcp!Times -> Nat], NEW c \in Mcp!Times,
           IsFiniteSet(Counts(f, 0, MaxClock + 1)), NEW g, Adds(f, g, c),
           NEW from \in Nat, NEW to \in Nat
    PROVE  /\ IsFiniteSet(Counts(g, from, to))
           /\ from <= c /\ c < to => Total(g, from, to) = Total(f, from, to) + 1
           /\ ~ (from <= c /\ c < to) => Total(g, from, to) = Total(f, from, to)
  <1>1. IsFiniteSet(Counts(f, from, to))
    BY Sizes
  <1>2. /\ from <= c /\ c < to =>
                 /\ Counts(g, from, to) = Counts(f, from, to) \cup {<<c, f[c] + 1>>}
                 /\ <<c, f[c] + 1>> \notin Counts(f, from, to)
        /\ ~ (from <= c /\ c < to) => Counts(g, from, to) = Counts(f, from, to)
    BY OneMore
  <1>3. CASE from <= c /\ c < to
    <2>1. /\ Counts(g, from, to) = Counts(f, from, to) \cup {<<c, f[c] + 1>>}
          /\ <<c, f[c] + 1>> \notin Counts(f, from, to)
      BY <1>3, <1>2
    <2>2. PICK A, e : A = Counts(f, from, to) /\ e = <<c, f[c] + 1>>
      OBVIOUS
    <2>3. /\ IsFiniteSet(A \cup {e})
          /\ Cardinality(A \cup {e}) = Cardinality(A) + 1
      BY <1>1, <2>1, <2>2, FS_AddElement
    <2> QED
      BY <1>3, <2>1, <2>2, <2>3 DEF Total
  <1>4. CASE ~ (from <= c /\ c < to)
    <2>1. Counts(g, from, to) = Counts(f, from, to)
      BY <1>4, <1>2
    <2> QED
      BY <1>1, <1>4, <2>1 DEF Total
  <1> QED
    BY <1>3, <1>4

LEMMA StillFinite ==
    ASSUME NEW f \in [Mcp!Times -> Nat], NEW c \in Mcp!Times,
           IsFiniteSet(Counts(f, 0, MaxClock + 1)), NEW g, Adds(f, g, c)
    PROVE  g \in [Mcp!Times -> Nat] /\ IsFiniteSet(Counts(g, 0, MaxClock + 1))
  <1>1. 0 \in Nat /\ MaxClock + 1 \in Nat
    BY McpAssumption
  <1> QED
    BY <1>1, PlusOne DEF Adds

\* What has passed by now is all that has passed.
LEMMA SoFar ==
    ASSUME NEW f \in [Mcp!Times -> Nat], NEW c \in Mcp!Times,
           \A y \in Mcp!Times : c < y => f[y] = 0,
           NEW from \in Nat, NEW to \in Nat, c < to
    PROVE  Total(f, from, to) = Total(f, from, c + 1)
  <1>1. c \in Nat
    BY McpAssumption DEF Mcp!Times
  <1> QED
    BY <1>1, NothingAfter DEF Total

\* A request that begins a window.
LEMMA AdmittedFirst ==
    ASSUME NEW f \in [Mcp!Times -> Nat], NEW c \in Mcp!Times,
           NEW w \in Mcp!RateWindow \cup {None}, RateOK(f, c, w), Fresh(f, c),
           NEW g, Adds(f, g, c),
           NEW v \in Mcp!RateWindow, v.count = 1, v.windowStartedAt = c
    PROVE  RateOK(g, c, v)
  <1>1. c \in Nat /\ Window \in Nat /\ RateMax \in Nat \ {0} /\ Mcp!Times \subseteq Nat
    BY McpAssumption DEF Mcp!Times
  <1>2. IsFiniteSet(Counts(f, 0, MaxClock + 1)) /\ f[c] = 0
        /\ \A y \in Mcp!Times : c < y => f[y] = 0
    BY DEF RateOK, Fresh
  <1>3. g \in [Mcp!Times -> Nat] /\ IsFiniteSet(Counts(g, 0, MaxClock + 1))
    BY <1>2, StillFinite
  <1>4. g[c] = 1 /\ \A y \in Mcp!Times : c < y => g[y] = 0
    BY <1>1, <1>2 DEF Adds
  <1>5. Total(g, c, c + 1) = 1
    <2>1. Counts(f, c, c + 1) = {}
      <3>1. ASSUME NEW y \in Mcp!Times, c <= y, y < c + 1 PROVE f[y] = 0
        <4>1. y \in Nat
          BY <1>1
        <4>2. y = c
          BY <1>1, <3>1, <4>1
        <4> QED
          BY <1>2, <4>2
      <3>2. ASSUME NEW y \in Mcp!Times, NEW n \in Nat, c <= y, y < c + 1
            PROVE  ~ (1 <= n /\ n <= f[y])
        BY <3>1, <3>2
      <3> QED
        BY <3>2 DEF Counts
    <2>2. Total(f, c, c + 1) = 0
      BY <2>1, FS_EmptySet DEF Total
    <2>3. c + 1 \in Nat /\ c <= c /\ c < c + 1
      BY <1>1
    <2>4. Total(g, c, c + 1) = Total(f, c, c + 1) + 1
      BY <1>1, <1>2, <2>3, PlusOne
    <2> QED
      BY <2>2, <2>4
  <1>6. ASSUME NEW x \in Mcp!Times, c <= x + Window
        PROVE  Total(g, x, c) < RateMax
    <2>1. x \in Nat /\ Total(f, x, c) \in Nat /\ Total(f, x, c + 1) \in Nat
      <3>1. x \in Nat /\ c \in Nat /\ c + 1 \in Nat
        BY <1>1
      <3> QED
        BY <1>2, <3>1, Sizes
    <2>2. Total(f, x, c) <= Total(f, x, c + 1)
      BY <1>1, <1>2, <2>1, Smaller
    <2>3. Total(f, x, c + 1) < RateMax
      BY <1>6 DEF Fresh
    <2>4. Total(g, x, c) = Total(f, x, c)
      <3>1. ~ (x <= c /\ c < c)
        BY <1>1
      <3> QED
        BY <1>1, <1>2, <2>1, <3>1, PlusOne
    <2> QED
      BY <1>1, <2>1, <2>2, <2>3, <2>4
  <1>7. Within(g, c, v)
    BY <1>1, <1>4, <1>5, <1>6 DEF Within
  <1>8. ASSUME NEW x \in Mcp!Times PROVE Total(g, x, x + Window + 1) < 2 * RateMax
    <2>1. x \in Nat /\ x + Window + 1 \in Nat /\ Total(f, x, x + Window + 1) \in Nat
      <3>1. x \in Nat /\ x + Window + 1 \in Nat
        BY <1>1
      <3> QED
        BY <1>2, <3>1, Sizes
    <2>2. CASE x <= c /\ c < x + Window + 1
      <3>1. Total(f, x, x + Window + 1) = Total(f, x, c + 1)
        BY <1>2, <2>1, <2>2, SoFar
      <3>2. Total(f, x, c + 1) < RateMax
        BY <1>1, <2>1, <2>2 DEF Fresh
      <3>3. Total(g, x, x + Window + 1) = Total(f, x, x + Window + 1) + 1
        BY <1>2, <2>1, <2>2, PlusOne
      <3> QED
        BY <1>1, <2>1, <3>1, <3>2, <3>3
    <2>3. CASE ~ (x <= c /\ c < x + Window + 1)
      <3>1. Total(g, x, x + Window + 1) = Total(f, x, x + Window + 1)
        BY <1>2, <2>1, <2>3, PlusOne
      <3> QED
        BY <3>1 DEF RateOK
    <2> QED
      BY <2>2, <2>3
  <1>9. v # None
    BY McpAssumption
  <1> QED
    BY <1>3, <1>4, <1>7, <1>8, <1>9 DEF RateOK

\* A request that a window counts and lets pass.
LEMMA AdmittedMore ==
    ASSUME NEW f \in [Mcp!Times -> Nat], NEW c \in Mcp!Times,
           NEW w \in Mcp!RateWindow, RateOK(f, c, w), c - w.windowStartedAt <= Window,
           w.count + 1 <= RateMax,
           NEW g, Adds(f, g, c),
           NEW v \in Mcp!RateWindow, v.count = w.count + 1,
           v.windowStartedAt = w.windowStartedAt
    PROVE  RateOK(g, c, v)
  <1>1. c \in Nat /\ Window \in Nat /\ RateMax \in Nat \ {0} /\ Mcp!Times \subseteq Nat
    BY McpAssumption DEF Mcp!Times
  <1>2. PICK s \in Mcp!Times : s = w.windowStartedAt
    BY DEF Mcp!RateWindow
  <1>3. w # None /\ v # None /\ s \in Nat /\ w.count \in Nat
    BY <1>1, <1>2, McpAssumption DEF Mcp!RateWindow
  <1>4. IsFiniteSet(Counts(f, 0, MaxClock + 1)) /\ Within(f, c, w)
        /\ \A y \in Mcp!Times : c < y => f[y] = 0
    BY <1>3 DEF RateOK
  <1>5. s <= c /\ c <= s + Window
    BY <1>1, <1>2, <1>3, <1>4 DEF Within
  <1>6. g \in [Mcp!Times -> Nat] /\ IsFiniteSet(Counts(g, 0, MaxClock + 1))
    BY <1>4, StillFinite
  <1>7. g[s] >= 1 /\ \A y \in Mcp!Times : c < y => g[y] = 0
    <2>1. f[s] \in Nat /\ f[s] >= 1
      BY <1>2, <1>4 DEF Within
    <2>2. g[s] = f[s] \/ g[s] = f[s] + 1
      BY DEF Adds
    <2>3. \A y \in Mcp!Times : c < y => g[y] = f[y]
      BY <1>1 DEF Adds
    <2> QED
      BY <1>4, <2>1, <2>2, <2>3
  <1>8. /\ Total(g, s, c + 1) \in Nat
        /\ Total(g, s, c + 1) <= RateMax /\ Total(g, s, c + 1) <= v.count
    <2>1. c + 1 \in Nat /\ c < c + 1
      BY <1>1
    <2>2. Total(f, s, c + 1) \in Nat
      BY <1>3, <1>4, <2>1, Sizes
    <2>3. Total(g, s, c + 1) = Total(f, s, c + 1) + 1
      BY <1>3, <1>4, <1>5, <2>1, PlusOne
    <2>4. Total(f, s, c + 1) <= w.count
      BY <1>2, <1>4 DEF Within
    <2> QED
      BY <1>1, <1>3, <2>2, <2>3, <2>4
  <1>9. ASSUME NEW x \in Mcp!Times, s <= x + Window
        PROVE  Total(g, x, s) < RateMax
    <2>1. x \in Nat /\ ~ (c < s)
      BY <1>1, <1>3, <1>5
    <2>2. Total(g, x, s) = Total(f, x, s)
      BY <1>3, <1>4, <2>1, PlusOne
    <2> QED
      BY <1>2, <1>4, <1>9, <2>2 DEF Within
  <1>10. Within(g, c, v)
    <2>1. \A y \in Mcp!Times : s + Window < y => g[y] = 0
      BY <1>1, <1>3, <1>5, <1>7
    <2>2. v.count >= 1
      BY <1>3
    <2> QED
      BY <1>2, <1>5, <1>7, <1>8, <1>9, <2>1, <2>2 DEF Within
  <1>11. ASSUME NEW x \in Mcp!Times PROVE Total(g, x, x + Window + 1) < 2 * RateMax
    <2>1. x \in Nat /\ x + Window + 1 \in Nat /\ c + 1 \in Nat
      BY <1>1
    <2>2. CASE x <= c /\ c < x + Window + 1
      <3>1. Total(g, x, x + Window + 1) = Total(g, x, c + 1)
        BY <1>6, <1>7, <2>1, <2>2, SoFar
      <3>2. Total(g, x, c + 1) \in Nat
        BY <1>6, <2>1, Sizes
      <3>3. CASE s <= x
        <4>1. /\ s \in Nat /\ x \in Nat /\ c + 1 \in Nat /\ c + 1 <= c + 1
              /\ g \in [Mcp!Times -> Nat] /\ IsFiniteSet(Counts(g, 0, MaxClock + 1))
          BY <1>3, <1>6, <2>1
        <4>2. Total(g, x, c + 1) <= Total(g, s, c + 1)
          BY <3>3, <4>1, Smaller
        <4> QED
          BY <1>1, <1>8, <3>1, <3>2, <4>2
      <3>4. CASE x < s
        <4>1. s <= x + Window
          BY <1>1, <1>3, <1>5, <2>1, <2>2
        <4>2. Total(g, x, s) < RateMax
          BY <1>9, <4>1
        <4>3. Total(g, x, s) \in Nat /\ IsFiniteSet(Counts(g, x, c + 1))
          BY <1>3, <1>6, <2>1, Sizes
        <4>4. x <= s /\ s <= c + 1
          BY <1>1, <1>3, <1>5, <2>1, <3>4
        <4>5. Total(g, x, c + 1) <= Total(g, x, s) + Total(g, s, c + 1)
          BY <1>3, <1>6, <2>1, <4>3, <4>4, TwoStretches DEF Total
        <4> QED
          BY <1>1, <1>8, <3>1, <3>2, <4>2, <4>3, <4>5
      <3> QED
        BY <1>3, <2>1, <3>3, <3>4
    <2>3. CASE ~ (x <= c /\ c < x + Window + 1)
      <3>1. Total(g, x, x + Window + 1) = Total(f, x, x + Window + 1)
        BY <1>4, <2>1, <2>3, PlusOne
      <3> QED
        BY <3>1 DEF RateOK
    <2> QED
      BY <2>2, <2>3
  <1> QED
    BY <1>3, <1>6, <1>7, <1>10, <1>11 DEF RateOK

\* A request that its token lets pass.
LEMMA AdmittedRate ==
    ASSUME NEW f \in [Mcp!Times -> Nat], clock \in Mcp!Times,
           NEW w \in Mcp!RateWindow \cup {None}, RateOK(f, clock, w),
           ~ Mcp!Limited(w, RateMax),
           NEW g, Adds(f, g, clock)
    PROVE  RateOK(g, clock, Mcp!Counted(w, RateMax))
  <1>1. CASE Mcp!Restarts(w)
    <2>1. Fresh(f, clock)
      BY <1>1, Restarting DEF Mcp!Restarts
    <2>2. PICK v : v = [count |-> 1, windowStartedAt |-> clock]
      OBVIOUS
    <2>3. v \in Mcp!RateWindow /\ v.count = 1 /\ v.windowStartedAt = clock
      BY <2>2 DEF Mcp!RateWindow
    <2>4. RateOK(g, clock, v)
      BY <2>1, <2>3, AdmittedFirst
    <2> QED
      BY <1>1, <2>2, <2>4 DEF Mcp!Counted
  <1>2. CASE ~ Mcp!Restarts(w)
    <2>1. w \in Mcp!RateWindow /\ ~ (clock - w.windowStartedAt > Window)
      BY <1>2 DEF Mcp!Restarts
    <2>2. w.count \in Nat /\ w.windowStartedAt \in Nat /\ clock \in Nat
      BY <2>1, McpAssumption DEF Mcp!RateWindow, Mcp!Times
    <2>3. Window \in Nat /\ RateMax \in Nat
      BY McpAssumption
    <2>4. clock - w.windowStartedAt <= Window
      BY <2>1, <2>2, <2>3
    <2>5. PICK n \in Nat : n = (IF w.count > RateMax THEN w.count ELSE w.count + 1)
      BY <2>2
    <2>6. PICK v : v = [w EXCEPT !.count = n]
      OBVIOUS
    <2>7. Mcp!Counted(w, RateMax) = v
      BY <1>2, <2>1, <2>5, <2>6 DEF Mcp!Counted, Mcp!RateWindow
    <2>8. v \in Mcp!RateWindow /\ v.count = n /\ v.windowStartedAt = w.windowStartedAt
      BY <2>1, <2>6 DEF Mcp!RateWindow
    <2>9. ~ (n > RateMax)
      BY <1>2, <2>7, <2>8 DEF Mcp!Limited
    <2>10. n = w.count + 1 /\ w.count + 1 <= RateMax
      BY <2>2, <2>3, <2>5, <2>9
    <2>11. RateOK(g, clock, v)
      BY <2>1, <2>4, <2>8, <2>10, AdmittedMore
    <2> QED
      BY <2>7, <2>11
  <1> QED
    BY <1>1, <1>2

\* Time passes.
LEMMA LaterRate ==
    ASSUME NEW f \in [Mcp!Times -> Nat], NEW c \in Mcp!Times, c + 1 \in Mcp!Times,
           NEW w \in Mcp!RateWindow \cup {None}, RateOK(f, c, w)
    PROVE  RateOK(f, c + 1, w)
  <1>1. c \in Nat /\ Window \in Nat /\ Mcp!Times \subseteq Nat
    BY McpAssumption DEF Mcp!Times
  <1>2. \A y \in Mcp!Times : c + 1 < y => f[y] = 0
    BY <1>1 DEF RateOK
  <1>3. ASSUME NEW x \in Nat PROVE Total(f, x, c + 1 + 1) = Total(f, x, c + 1)
    <2>1. c + 1 + 1 \in Nat /\ c < c + 1 + 1
      BY <1>1
    <2> QED
      BY <2>1, SoFar DEF RateOK
  <1>4. CASE w = None
    <2>1. f[c + 1] = 0
      BY <1>1 DEF RateOK
    <2>2. ASSUME NEW x \in Mcp!Times, c + 1 <= x + Window
          PROVE  Total(f, x, c + 1 + 1) < RateMax
      <3>1. x \in Nat /\ c <= x + Window
        BY <1>1, <2>2
      <3> QED
        BY <1>3, <1>4, <3>1 DEF RateOK, Fresh
    <2> QED
      BY <1>2, <1>4, <2>1, <2>2 DEF RateOK, Fresh
  <1>5. CASE w # None
    <2>1. w.windowStartedAt \in Nat
      BY <1>1, <1>5 DEF Mcp!RateWindow
    <2>2. Within(f, c, w)
      BY <1>5 DEF RateOK
    <2>3. w.windowStartedAt <= c + 1
      BY <1>1, <2>1, <2>2 DEF Within
    <2>4. Within(f, c + 1, w)
      BY <1>3, <2>1, <2>2, <2>3 DEF Within
    <2> QED
      BY <1>2, <1>5, <2>4 DEF RateOK
  <1> QED
    BY <1>4, <1>5

\* The sweep: a window that has run out is forgotten.
LEMMA SweptRate ==
    ASSUME NEW f \in [Mcp!Times -> Nat], NEW c \in Mcp!Times,
           NEW w \in Mcp!RateWindow \cup {None}, RateOK(f, c, w),
           w # None => c - w.windowStartedAt > Window
    PROVE  RateOK(f, c, None)
  BY Restarting DEF RateOK
LEMMA McpInit == Mcp!McpInit => McpInv
  <1> SUFFICES ASSUME Mcp!McpInit PROVE McpInv
    OBVIOUS
  <1>1. Mcp!McpTypeOK
    <2>1. 0 \in Mcp!Times
      BY McpAssumption DEF Mcp!Times
    <2> QED
      BY <2>1 DEF Mcp!McpInit, Mcp!McpTypeOK
  <1>2. McpCallsOK /\ VettedOK
    BY DEF Mcp!McpInit, McpCallsOK, VettedOK
  <1>3. ASSUME NEW t \in Tokens PROVE RateOK(admitted[t], clock, windows[t])
    <2>1. PICK f \in [Mcp!Times -> Nat] : f = admitted[t] /\ \A x \in Mcp!Times : f[x] = 0
      BY DEF Mcp!McpInit
    <2>2. clock = 0 /\ windows[t] = None /\ 0 \in Mcp!Times
      BY McpAssumption DEF Mcp!McpInit, Mcp!Keys, Mcp!Times
    <2>3. ASSUME NEW from, NEW to
          PROVE  IsFiniteSet(Counts(f, from, to)) /\ Total(f, from, to) = 0
      <3>1. Counts(f, from, to) = {}
        <4>1. \A y \in Mcp!Times, n \in Nat : ~ (1 <= n /\ n <= f[y])
          BY <2>1
        <4> QED
          BY <4>1 DEF Counts
      <3> QED
        BY <3>1, FS_EmptySet DEF Total
    <2>4. RateMax \in Nat \ {0}
      BY McpAssumption
    <2>5. 0 < RateMax /\ 0 < 2 * RateMax
      BY <2>4
    <2> QED
      BY <2>1, <2>2, <2>3, <2>5 DEF RateOK, Fresh
  <1> QED
    BY <1>1, <1>2, <1>3 DEF McpInv

\* Sessions stay, with the tokens they were opened for.
McpSessionsKept ==
    \A i \in SessionIds : mcpSession[i] # None =>
        mcpSession'[i] # None /\ mcpSession'[i].token = mcpSession[i].token

\* One call changes; the rest are as they were.
LEMMA McpCallSet ==
    ASSUME McpInv, McpSessionsKept, NEW q \in Calls, NEW c \in Mcp!Call \cup {None},
           call' = [call EXCEPT ![q] = c], c # None => McpCallOK(c)'
    PROVE  call' \in [Calls -> Mcp!Call \cup {None}] /\ McpCallsOK'
  <1>1. call \in [Calls -> Mcp!Call \cup {None}]
    BY DEF McpInv, Mcp!McpTypeOK
  <1>2. call' \in [Calls -> Mcp!Call \cup {None}]
    BY <1>1
  <1>3. ASSUME NEW i \in Calls, NEW d, d = call'[i], d # None
        PROVE  McpCallOK(d)'
    <2>1. CASE i = q
      BY <1>1, <1>3, <2>1
    <2>2. CASE i # q
      <3>1. d = call[i] /\ d \in Mcp!Call
        BY <1>1, <1>3, <2>2
      <3>2. McpCallOK(d)
        BY <1>3, <3>1 DEF McpInv, McpCallsOK
      <3> QED
        BY <3>1, <3>2 DEF McpCallOK, McpSessionsKept, Mcp!Call
    <2> QED
      BY <2>1, <2>2
  <1> QED
    BY <1>2, <1>3 DEF McpCallsOK, McpCallOK

LEMMA CallsStay ==
    ASSUME McpInv, McpSessionsKept, UNCHANGED call
    PROVE  McpCallsOK'
  <1>1. ASSUME NEW i \in Calls, NEW d, d = call[i], d # None
        PROVE  McpCallOK(d)'
    <2>1. d \in Mcp!Call /\ McpCallOK(d)
      BY <1>1 DEF McpInv, Mcp!McpTypeOK, McpCallsOK
    <2> QED
      BY <2>1 DEF McpCallOK, McpSessionsKept, Mcp!Call
  <1> QED
    BY <1>1 DEF McpCallsOK, McpCallOK

\* One session changes.
LEMMA McpSessionSet ==
    ASSUME McpInv, NEW i \in SessionIds, NEW s \in Mcp!Session, s.vetted,
           mcpSession' = [mcpSession EXCEPT ![i] = s],
           mcpSession[i] # None => s.token = mcpSession[i].token
    PROVE  /\ mcpSession' \in [SessionIds -> Mcp!Session \cup {None}]
           /\ VettedOK' /\ McpSessionsKept
  <1>1. mcpSession \in [SessionIds -> Mcp!Session \cup {None}] /\ VettedOK
    BY DEF McpInv, Mcp!McpTypeOK
  <1>2. \A j \in SessionIds : mcpSession'[j] = IF j = i THEN s ELSE mcpSession[j]
    BY <1>1
  <1>3. s # None
    BY McpAssumption
  <1>4. mcpSession' \in [SessionIds -> Mcp!Session \cup {None}]
    BY <1>1
  <1>5. VettedOK'
    BY <1>1, <1>2 DEF VettedOK
  <1>6. McpSessionsKept
    BY <1>2, <1>3 DEF McpSessionsKept
  <1> QED
    BY <1>4, <1>5, <1>6

\* Only the session's time and whether it is open.
LEMMA SessionServed ==
    ASSUME McpInv, NEW i \in SessionIds, mcpSession[i] # None,
           NEW x \in Mcp!Times, NEW o \in BOOLEAN,
           mcpSession' = [mcpSession EXCEPT ![i] = [@ EXCEPT !.lastSeenAt = x, !.open = o]]
    PROVE  /\ mcpSession' \in [SessionIds -> Mcp!Session \cup {None}]
           /\ VettedOK' /\ McpSessionsKept
  <1>1. PICK s : s = [mcpSession[i] EXCEPT !.lastSeenAt = x, !.open = o]
    OBVIOUS
  <1>2. mcpSession[i] \in Mcp!Session /\ mcpSession[i].vetted
    BY DEF McpInv, Mcp!McpTypeOK, VettedOK
  <1>3. /\ s \in Mcp!Session /\ s.token = mcpSession[i].token
        /\ s.vetted = mcpSession[i].vetted
    BY <1>1, <1>2 DEF Mcp!Session
  <1>4. mcpSession' = [mcpSession EXCEPT ![i] = s]
    BY <1>1 DEF McpInv, Mcp!McpTypeOK
  <1> QED
    BY <1>2, <1>3, <1>4, McpSessionSet

-----------------------------------------------------------------------------

LEMMA CountedType ==
    ASSUME clock \in Mcp!Times, NEW w \in Mcp!RateWindow \cup {None}, NEW n \in Nat
    PROVE  Mcp!Counted(w, n) \in Mcp!RateWindow
  <1>1. CASE Mcp!Restarts(w)
    BY <1>1 DEF Mcp!Counted, Mcp!RateWindow
  <1>2. CASE ~ Mcp!Restarts(w)
    <2>1. w \in Mcp!RateWindow
      BY <1>2 DEF Mcp!Restarts
    <2>2. PICK m \in Nat : m = IF w.count > n THEN w.count ELSE w.count + 1
      BY <2>1 DEF Mcp!RateWindow
    <2>3. Mcp!Counted(w, n) = [w EXCEPT !.count = m]
      BY <1>2, <2>1, <2>2 DEF Mcp!Counted, Mcp!RateWindow
    <2> QED
      BY <2>1, <2>3 DEF Mcp!RateWindow
  <1> QED
    BY <1>1, <1>2

\* What a request counts.
LEMMA CountedWindows ==
    ASSUME McpInv, NEW address \in Addresses, NEW token \in Tokens \cup {None},
           Mcp!Count(address, token)
    PROVE  /\ windows' \in [Mcp!Keys -> Mcp!RateWindow \cup {None}]
           /\ \A t \in Tokens :
                 windows'[t] = IF t = token /\ ~ Mcp!Limited(windows[address], PreAuthMax)
                               THEN Mcp!Counted(windows[t], RateMax) ELSE windows[t]
  <1>1. /\ windows \in [Mcp!Keys -> Mcp!RateWindow \cup {None}] /\ clock \in Mcp!Times
        /\ Tokens \subseteq Mcp!Keys /\ address \in Mcp!Keys
    BY DEF McpInv, Mcp!McpTypeOK, Mcp!Keys
  <1>2. PICK a : a = Mcp!Counted(windows[address], PreAuthMax)
    OBVIOUS
  <1>3. a \in Mcp!RateWindow
    BY <1>1, <1>2, CountedType, McpAssumption
  <1>4. PICK counted : counted = [windows EXCEPT ![address] = a]
    OBVIOUS
  <1>5. /\ counted \in [Mcp!Keys -> Mcp!RateWindow \cup {None}]
        /\ \A t \in Tokens : counted[t] = windows[t]
    BY <1>1, <1>3, <1>4, McpAssumption
  <1>6. CASE Mcp!Limited(windows[address], PreAuthMax) \/ token = None
    <2>1. windows' = counted
      BY <1>1, <1>2, <1>4, <1>6 DEF Mcp!Count
    <2> QED
      BY <1>5, <1>6, <2>1, McpAssumption
  <1>7. CASE ~ (Mcp!Limited(windows[address], PreAuthMax) \/ token = None)
    <2>1. token \in Tokens
      BY <1>7
    <2>2. PICK b : b = Mcp!Counted(windows[token], RateMax)
      OBVIOUS
    <2>3. b \in Mcp!RateWindow
      BY <1>1, <2>1, <2>2, CountedType, McpAssumption
    <2>4. windows' = [counted EXCEPT ![token] = b]
      BY <1>1, <1>2, <1>4, <1>5, <1>7, <2>1, <2>2 DEF Mcp!Count
    <2> QED
      BY <1>1, <1>5, <1>7, <2>1, <2>2, <2>3, <2>4
  <1> QED
    BY <1>6, <1>7

LEMMA TokenTypes ==
    ASSUME McpInv, NEW t \in Tokens
    PROVE  /\ admitted[t] \in [Mcp!Times -> Nat] /\ clock \in Mcp!Times
           /\ windows[t] \in Mcp!RateWindow \cup {None}
           /\ RateOK(admitted[t], clock, windows[t])
  BY DEF McpInv, Mcp!McpTypeOK, Mcp!Keys

LEMMA RefuseStep ==
    ASSUME McpInv, NEW address \in Addresses, NEW token \in Tokens \cup {None},
           Mcp!Refuse(address, token)
    PROVE  McpInv'
  <1>1. /\ windows' \in [Mcp!Keys -> Mcp!RateWindow \cup {None}]
        /\ \A t \in Tokens :
              windows'[t] = IF t = token /\ ~ Mcp!Limited(windows[address], PreAuthMax)
                            THEN Mcp!Counted(windows[t], RateMax) ELSE windows[t]
    BY CountedWindows DEF Mcp!Refuse
  <1>2. ASSUME NEW t \in Tokens PROVE RateOK(admitted[t], clock, windows'[t])
    <2>1. CASE t = token /\ ~ Mcp!Limited(windows[address], PreAuthMax)
      <3>1. Mcp!Limited(windows[t], RateMax)
        BY <2>1, McpAssumption DEF Mcp!Refuse, Mcp!Passes
      <3> QED
        BY <1>1, <2>1, <3>1, TokenTypes, RefusedRate
    <2>2. CASE ~ (t = token /\ ~ Mcp!Limited(windows[address], PreAuthMax))
      BY <1>1, <2>2, TokenTypes
    <2> QED
      BY <2>1, <2>2
  <1>3. UNCHANGED <<clock, granted, mcpSession, call, admitted, server>>
    BY DEF Mcp!Refuse
  <1>4. McpCallsOK' /\ VettedOK'
    BY <1>3 DEF McpInv, McpCallsOK, McpCallOK, VettedOK
  <1> QED
    BY <1>1, <1>2, <1>3, <1>4 DEF McpInv, Mcp!McpTypeOK

LEMMA AdmitRates ==
    ASSUME McpInv, NEW address \in Addresses, NEW token \in Tokens \cup {None},
           Mcp!Admit(address, token)
    PROVE  /\ windows' \in [Mcp!Keys -> Mcp!RateWindow \cup {None}]
           /\ admitted' \in [Tokens -> [Mcp!Times -> Nat]]
           /\ \A t \in Tokens : RateOK(admitted'[t], clock, windows'[t])
  <1>1. /\ windows' \in [Mcp!Keys -> Mcp!RateWindow \cup {None}]
        /\ \A t \in Tokens :
              windows'[t] = IF t = token /\ ~ Mcp!Limited(windows[address], PreAuthMax)
                            THEN Mcp!Counted(windows[t], RateMax) ELSE windows[t]
    BY CountedWindows DEF Mcp!Admit
  <1>2. /\ token \in Tokens /\ ~ Mcp!Limited(windows[token], RateMax)
        /\ ~ Mcp!Limited(windows[address], PreAuthMax)
    BY DEF Mcp!Admit, Mcp!Passes
  <1>3. admitted[token] \in [Mcp!Times -> Nat] /\ clock \in Mcp!Times
    BY <1>2, TokenTypes
  <1>4. PICK g : g = [admitted[token] EXCEPT ![clock] = admitted[token][clock] + 1]
    OBVIOUS
  <1>5. Adds(admitted[token], g, clock)
    BY <1>3, <1>4, AddsOne
  <1>6. admitted' = [admitted EXCEPT ![token] = g]
    BY <1>2, <1>3, <1>4 DEF Mcp!Admit, McpInv, Mcp!McpTypeOK
  <1>7. g \in [Mcp!Times -> Nat] /\ admitted \in [Tokens -> [Mcp!Times -> Nat]]
    BY <1>5 DEF Adds, McpInv, Mcp!McpTypeOK
  <1>8. ASSUME NEW t \in Tokens PROVE RateOK(admitted'[t], clock, windows'[t])
    <2>1. CASE t = token
      <3>1. admitted'[t] = g
        BY <1>6, <1>7, <2>1
      <3>2. RateOK(g, clock, Mcp!Counted(windows[token], RateMax))
        BY <1>2, <1>3, <1>5, TokenTypes, AdmittedRate
      <3> QED
        BY <1>1, <1>2, <2>1, <3>1, <3>2
    <2>2. CASE t # token
      <3>1. admitted'[t] = admitted[t] /\ windows'[t] = windows[t]
        BY <1>1, <1>6, <1>7, <2>2
      <3> QED
        BY <3>1, TokenTypes
    <2> QED
      BY <2>1, <2>2
  <1> QED
    BY <1>1, <1>6, <1>7, <1>8

LEMMA PostStep ==
    ASSUME McpInv, NEW q \in Calls, NEW address \in Addresses,
           NEW token \in Tokens \cup {None}, NEW i \in SessionIds \cup {None},
           Mcp!Post(q, address, token, i)
    PROVE  McpInv'
  <1>1. PICK c : c = [phase |-> "body", token |-> token, session |-> i, vetted |-> FALSE]
    OBVIOUS
  <1>2. token \in Tokens /\ (i # None => mcpSession[i] # None) /\ UNCHANGED mcpSession
        /\ UNCHANGED <<clock, granted, server>>
    BY DEF Mcp!Post, Mcp!Admit, Mcp!Passes
  <1>3. c \in Mcp!Call /\ c.phase = "body" /\ c.session = i
    BY <1>1, <1>2 DEF Mcp!Call
  <1>4. McpSessionsKept
    BY <1>2 DEF McpSessionsKept
  <1>5. McpCallOK(c)'
    BY <1>2, <1>3 DEF McpCallOK
  <1>6. call' \in [Calls -> Mcp!Call \cup {None}] /\ McpCallsOK'
    BY <1>1, <1>3, <1>4, <1>5, McpCallSet DEF Mcp!Post
  <1>7. /\ windows' \in [Mcp!Keys -> Mcp!RateWindow \cup {None}]
        /\ admitted' \in [Tokens -> [Mcp!Times -> Nat]]
        /\ \A t \in Tokens : RateOK(admitted'[t], clock, windows'[t])
    BY AdmitRates DEF Mcp!Post
  <1>8. VettedOK'
    BY <1>2 DEF McpInv, VettedOK
  <1> QED
    BY <1>2, <1>6, <1>7, <1>8 DEF McpInv, Mcp!McpTypeOK

LEMMA GetOrDeleteStep ==
    ASSUME McpInv, NEW address \in Addresses, NEW token \in Tokens \cup {None},
           NEW i \in SessionIds, NEW delete \in BOOLEAN,
           Mcp!GetOrDelete(address, token, i, delete)
    PROVE  McpInv'
  <1>1. UNCHANGED <<clock, granted, server, call>>
    BY DEF Mcp!GetOrDelete, Mcp!Admit
  <1>2. /\ windows' \in [Mcp!Keys -> Mcp!RateWindow \cup {None}]
        /\ admitted' \in [Tokens -> [Mcp!Times -> Nat]]
        /\ \A t \in Tokens : RateOK(admitted'[t], clock, windows'[t])
    BY AdmitRates DEF Mcp!GetOrDelete
  <1>3. /\ mcpSession' \in [SessionIds -> Mcp!Session \cup {None}]
        /\ VettedOK' /\ McpSessionsKept
    <2>1. CASE Mcp!Served(i, token)
      <3>1. PICK o \in BOOLEAN : o = ~ delete
        OBVIOUS
      <3>2. mcpSession[i] # None /\ clock \in Mcp!Times
        BY <2>1 DEF Mcp!Served, Mcp!Open, McpInv, Mcp!McpTypeOK
      <3>3. mcpSession' = [mcpSession EXCEPT ![i] = [@ EXCEPT !.lastSeenAt = clock, !.open = o]]
        BY <2>1, <3>1 DEF Mcp!GetOrDelete
      <3> QED
        BY <3>2, <3>3, SessionServed
    <2>2. CASE ~ Mcp!Served(i, token)
      BY <2>2 DEF Mcp!GetOrDelete, McpInv, Mcp!McpTypeOK, VettedOK, McpSessionsKept
    <2> QED
      BY <2>1, <2>2
  <1>4. McpCallsOK'
    BY <1>1, <1>3, CallsStay
  <1> QED
    BY <1>1, <1>2, <1>3, <1>4 DEF McpInv, Mcp!McpTypeOK

\* A step that sets one call and leaves the rest.
LEMMA McpCallStep ==
    ASSUME McpInv, NEW q \in Calls, NEW c \in Mcp!Call \cup {None},
           call' = [call EXCEPT ![q] = c], c # None => McpCallOK(c),
           UNCHANGED <<clock, granted, mcpSession, windows, admitted, server>>
    PROVE  McpInv'
  <1>1. McpSessionsKept
    BY DEF McpSessionsKept
  <1>2. c # None => McpCallOK(c)'
    BY DEF McpCallOK
  <1>3. call' \in [Calls -> Mcp!Call \cup {None}] /\ McpCallsOK'
    BY <1>1, <1>2, McpCallSet
  <1> QED
    BY <1>3 DEF McpInv, Mcp!McpTypeOK, VettedOK

LEMMA McpCallType ==
    ASSUME McpInv, NEW q \in Calls, call[q] # None
    PROVE  call[q] \in Mcp!Call /\ McpCallOK(call[q])
  BY DEF McpInv, Mcp!McpTypeOK, McpCallsOK

LEMMA DoneStep ==
    ASSUME McpInv, NEW q \in Calls, Mcp!Done(q),
           UNCHANGED <<clock, granted, mcpSession, windows, admitted, server>>
    PROVE  McpInv'
  BY McpCallStep DEF Mcp!Done

LEMMA UseSessionStep ==
    ASSUME McpInv, NEW q \in Calls, Mcp!UseSession(q)
    PROVE  McpInv'
  <1>1. call[q] \in Mcp!Call /\ McpCallOK(call[q])
    BY McpCallType DEF Mcp!UseSession
  <1>2. PICK i \in SessionIds : i = call[q].session
    BY <1>1 DEF Mcp!UseSession, Mcp!Call
  <1>3. UNCHANGED <<clock, granted, windows, admitted, server>>
    BY DEF Mcp!UseSession
  <1>4. CASE Mcp!Served(i, call[q].token)
    <2>1. mcpSession[i] \in Mcp!Session /\ mcpSession[i].token = call[q].token
          /\ mcpSession[i] # None /\ clock \in Mcp!Times /\ mcpSession[i].vetted
      BY <1>4 DEF Mcp!Served, Mcp!Open, Mcp!Owned, McpInv, Mcp!McpTypeOK, VettedOK
    <2>2. PICK s : s = [mcpSession[i] EXCEPT !.lastSeenAt = clock]
      OBVIOUS
    <2>3. s \in Mcp!Session /\ s.token = mcpSession[i].token /\ s.vetted
      BY <2>1, <2>2 DEF Mcp!Session
    <2>4. mcpSession' = [mcpSession EXCEPT ![i] = s]
      BY <1>2, <1>4, <2>2 DEF Mcp!UseSession, McpInv, Mcp!McpTypeOK
    <2>5. /\ mcpSession' \in [SessionIds -> Mcp!Session \cup {None}]
          /\ VettedOK' /\ McpSessionsKept
      BY <2>3, <2>4, McpSessionSet
    <2>6. PICK c : c = [call[q] EXCEPT !.phase = "tool"]
      OBVIOUS
    <2>7. c \in Mcp!Call /\ c.phase = "tool" /\ c.session = i /\ c.token = call[q].token
      BY <1>1, <1>2, <2>6 DEF Mcp!Call
    <2>8. McpCallOK(c)'
      BY <2>1, <2>5, <2>7 DEF McpCallOK, McpSessionsKept
    <2>9. call' = [call EXCEPT ![q] = c]
      BY <1>2, <1>4, <2>6 DEF Mcp!UseSession, McpInv, Mcp!McpTypeOK
    <2>10. call' \in [Calls -> Mcp!Call \cup {None}] /\ McpCallsOK'
      BY <2>5, <2>7, <2>8, <2>9, McpCallSet
    <2> QED
      BY <1>3, <2>5, <2>10 DEF McpInv, Mcp!McpTypeOK
  <1>5. CASE ~ Mcp!Served(i, call[q].token)
    BY <1>2, <1>5, DoneStep DEF Mcp!UseSession
  <1> QED
    BY <1>4, <1>5

LEMMA InitializeStep ==
    ASSUME McpInv, NEW q \in Calls, NEW initialize \in BOOLEAN,
           Mcp!Initialize(q, initialize)
    PROVE  McpInv'
  <1>1. call[q] \in Mcp!Call /\ McpCallOK(call[q]) /\ call[q].session = None
    BY McpCallType DEF Mcp!Initialize
  <1>2. CASE initialize
    <2>1. PICK c : c = [call[q] EXCEPT !.phase = "verify"]
      OBVIOUS
    <2>2. c \in Mcp!Call /\ c.phase = "verify" /\ c.session = None
      BY <1>1, <2>1 DEF Mcp!Call
    <2>3. McpCallOK(c)
      BY <2>2 DEF McpCallOK
    <2>4. call' = [call EXCEPT ![q] = c]
      BY <1>2, <2>1 DEF Mcp!Initialize, McpInv, Mcp!McpTypeOK
    <2> QED
      BY <2>2, <2>3, <2>4, McpCallStep DEF Mcp!Initialize
  <1>3. CASE ~ initialize
    BY <1>3, DoneStep DEF Mcp!Initialize
  <1> QED
    BY <1>2, <1>3

LEMMA VerifyTokenStep ==
    ASSUME McpInv, NEW q \in Calls, Mcp!VerifyToken(q)
    PROVE  McpInv'
  <1>1. call[q] \in Mcp!Call /\ McpCallOK(call[q])
    BY McpCallType DEF Mcp!VerifyToken
  <1>2. CASE Mcp!TokenIsValid(call[q].token)
    <2>1. (call[q].token \in granted) = TRUE
      BY <1>2 DEF Mcp!TokenIsValid
    <2>2. PICK c : c = [call[q] EXCEPT !.phase = "open", !.vetted = TRUE]
      OBVIOUS
    <2>3. TRUE \in BOOLEAN
      OBVIOUS
    <2>4. c \in Mcp!Call /\ c.phase = "open" /\ c.session = call[q].session
          /\ c.vetted = TRUE
      BY <1>1, <2>2, <2>3 DEF Mcp!Call
    <2>5. McpCallOK(c)
      BY <1>1, <2>3, <2>4 DEF McpCallOK
    <2>6. call' = [call EXCEPT ![q] = c]
      BY <1>2, <2>1, <2>2 DEF Mcp!VerifyToken, McpInv, Mcp!McpTypeOK
    <2> QED
      BY <2>4, <2>5, <2>6, McpCallStep DEF Mcp!VerifyToken
  <1>3. CASE ~ Mcp!TokenIsValid(call[q].token)
    BY <1>3, DoneStep DEF Mcp!VerifyToken
  <1> QED
    BY <1>2, <1>3

LEMMA OpenSessionStep ==
    ASSUME McpInv, NEW q \in Calls, NEW i \in SessionIds, Mcp!OpenSession(q, i)
    PROVE  McpInv'
  <1>1. call[q] \in Mcp!Call /\ McpCallOK(call[q]) /\ call[q].phase = "open"
    BY McpCallType DEF Mcp!OpenSession
  <1>2. PICK s : s = [token |-> call[q].token, lastSeenAt |-> clock, open |-> TRUE,
                      vetted |-> call[q].vetted]
    OBVIOUS
  <1>3. clock \in Mcp!Times
    BY DEF McpInv, Mcp!McpTypeOK
  <1>4. s \in Mcp!Session /\ s.vetted = call[q].vetted
    BY <1>1, <1>2, <1>3 DEF Mcp!Session, Mcp!Call
  <1>5. s.vetted
    BY <1>1, <1>4 DEF McpCallOK
  <1>6. /\ mcpSession' \in [SessionIds -> Mcp!Session \cup {None}]
        /\ VettedOK' /\ McpSessionsKept
    BY <1>2, <1>4, <1>5, McpSessionSet DEF Mcp!OpenSession
  <1>7. call' \in [Calls -> Mcp!Call \cup {None}] /\ McpCallsOK'
    BY <1>6, McpCallSet DEF Mcp!OpenSession, Mcp!Done
  <1> QED
    BY <1>6, <1>7 DEF McpInv, Mcp!McpTypeOK, Mcp!OpenSession

LEMMA TickStep ==
    ASSUME McpInv, Mcp!Tick
    PROVE  McpInv'
  <1>1. clock \in Mcp!Times /\ clock + 1 \in Mcp!Times /\ clock' = clock + 1
    BY McpAssumption DEF McpInv, Mcp!McpTypeOK, Mcp!Tick, Mcp!Times
  <1>2. ASSUME NEW t \in Tokens PROVE RateOK(admitted[t], clock + 1, windows[t])
    BY <1>1, TokenTypes, LaterRate
  <1>3. UNCHANGED <<granted, mcpSession, windows, call, admitted, server>>
    BY DEF Mcp!Tick
  <1>4. McpCallsOK' /\ VettedOK'
    BY <1>3 DEF McpInv, McpCallsOK, McpCallOK, VettedOK
  <1>5. \A t \in Tokens : RateOK(admitted'[t], clock', windows'[t])
    BY <1>1, <1>2, <1>3
  <1> QED
    BY <1>1, <1>3, <1>4, <1>5 DEF McpInv, Mcp!McpTypeOK

LEMMA SweepStep ==
    ASSUME McpInv, Mcp!Sweep
    PROVE  McpInv'
  <1>1. UNCHANGED <<clock, granted, call, admitted, server>>
    BY DEF Mcp!Sweep
  <1>2. /\ mcpSession' \in [SessionIds -> Mcp!Session \cup {None}]
        /\ VettedOK' /\ McpSessionsKept
    <2>1. ASSUME NEW i \in SessionIds, mcpSession[i] # None
          PROVE  \E s \in Mcp!Session :
                    /\ mcpSession'[i] = s /\ s.vetted /\ s.token = mcpSession[i].token
      <3>1. mcpSession[i] \in Mcp!Session /\ mcpSession[i].vetted
        BY <2>1 DEF McpInv, Mcp!McpTypeOK, VettedOK
      <3>2. PICK s : s = [mcpSession[i] EXCEPT !.open = FALSE]
        OBVIOUS
      <3>3. s \in Mcp!Session /\ s.vetted /\ s.token = mcpSession[i].token
        BY <3>1, <3>2 DEF Mcp!Session
      <3>4. mcpSession'[i] = s \/ mcpSession'[i] = mcpSession[i]
        BY <3>2 DEF Mcp!Sweep
      <3> QED
        BY <3>1, <3>3, <3>4
    <2>2. \A i \in SessionIds : mcpSession[i] = None => mcpSession'[i] = None
      BY DEF Mcp!Sweep, Mcp!Open
    <2>3. mcpSession' = [i \in SessionIds |-> mcpSession'[i]]
      BY DEF Mcp!Sweep
    <2>4. mcpSession' \in [SessionIds -> Mcp!Session \cup {None}]
      BY <2>1, <2>2, <2>3
    <2> QED
      BY <2>1, <2>2, <2>4, McpAssumption DEF VettedOK, McpSessionsKept
  <1>3. McpCallsOK'
    BY <1>1, <1>2, CallsStay
  <1>4. windows' \in [Mcp!Keys -> Mcp!RateWindow \cup {None}]
    BY DEF Mcp!Sweep, McpInv, Mcp!McpTypeOK
  <1>5. ASSUME NEW t \in Tokens PROVE RateOK(admitted[t], clock, windows'[t])
    <2>1. windows'[t] = IF windows[t] # None /\ Mcp!Stale(windows[t]) THEN None
                        ELSE windows[t]
      BY DEF Mcp!Sweep, Mcp!Keys
    <2>2. CASE windows[t] # None /\ Mcp!Stale(windows[t])
      <3>1. RateOK(admitted[t], clock, None)
        BY <2>2, TokenTypes, SweptRate DEF Mcp!Stale
      <3> QED
        BY <2>1, <2>2, <3>1
    <2>3. CASE ~ (windows[t] # None /\ Mcp!Stale(windows[t]))
      BY <2>1, <2>3, TokenTypes
    <2> QED
      BY <2>2, <2>3
  <1> QED
    BY <1>1, <1>2, <1>3, <1>4, <1>5 DEF McpInv, Mcp!McpTypeOK

\* Revocation, and the steps of the shutdown.
LEMMA ShutdownStep ==
    ASSUME McpInv,
           \/ Mcp!Shutdown \/ Mcp!Closed \/ \E t \in Tokens : Mcp!Revoke(t)
           \/ \E i \in SessionIds : Mcp!CloseSession(i)
    PROVE  McpInv'
  <1>1. CASE Mcp!Shutdown \/ \E t \in Tokens : Mcp!Revoke(t)
    BY <1>1 DEF McpInv, Mcp!McpTypeOK, McpCallsOK, McpCallOK, VettedOK, Mcp!Shutdown, Mcp!Revoke
  <1>2. CASE Mcp!Closed
    <2>1. \A q \in Calls : call'[q] = call[q] \/ call'[q] = None
      BY <1>2 DEF Mcp!Closed
    <2>2. call' \in [Calls -> Mcp!Call \cup {None}]
      BY <1>2 DEF Mcp!Closed, McpInv, Mcp!McpTypeOK
    <2>3. McpCallsOK'
      <3>1. ASSUME NEW q \in Calls, NEW c, c = call'[q], c # None PROVE McpCallOK(c)'
        <4>1. c = call[q] /\ McpCallOK(c)
          BY <2>1, <3>1 DEF McpInv, McpCallsOK
        <4> QED
          BY <1>2, <4>1 DEF McpCallOK, Mcp!Closed
      <3> QED
        BY <3>1 DEF McpCallsOK, McpCallOK
    <2> QED
      BY <1>2, <2>2, <2>3 DEF McpInv, Mcp!McpTypeOK, VettedOK, Mcp!Closed
  <1>3. ASSUME NEW i \in SessionIds, Mcp!CloseSession(i)
        PROVE  McpInv'
    <2>1. mcpSession[i] \in Mcp!Session /\ mcpSession[i].vetted
      BY <1>3 DEF McpInv, Mcp!McpTypeOK, VettedOK, Mcp!CloseSession, Mcp!Open
    <2>2. PICK s : s = [mcpSession[i] EXCEPT !.open = FALSE]
      OBVIOUS
    <2>3. s \in Mcp!Session /\ s.vetted /\ s.token = mcpSession[i].token
      BY <2>1, <2>2 DEF Mcp!Session
    <2>4. mcpSession' = [mcpSession EXCEPT ![i] = s]
      BY <1>3, <2>2 DEF Mcp!CloseSession, McpInv, Mcp!McpTypeOK
    <2>5. /\ mcpSession' \in [SessionIds -> Mcp!Session \cup {None}]
          /\ VettedOK' /\ McpSessionsKept
      BY <2>3, <2>4, McpSessionSet
    <2>6. McpCallsOK'
      BY <1>3, <2>5, CallsStay DEF Mcp!CloseSession
    <2> QED
      BY <1>3, <2>5, <2>6 DEF McpInv, Mcp!McpTypeOK, Mcp!CloseSession
  <1> QED
    BY <1>1, <1>2, <1>3

LEMMA McpStep ==
    ASSUME McpInv, Mcp!McpNext
    PROVE  McpInv'
  <1>1. ASSUME NEW address \in Addresses, NEW token \in Tokens \cup {None},
               \/ Mcp!Refuse(address, token)
               \/ \E q \in Mcp!FreeCall, i \in SessionIds \cup {None} :
                     Mcp!Post(q, address, token, i)
               \/ \E i \in SessionIds, delete \in BOOLEAN :
                     Mcp!GetOrDelete(address, token, i, delete)
        PROVE  McpInv'
    <2>1. Mcp!FreeCall \subseteq Calls
      <3>1. CASE Mcp!FreeCalls = {}
        BY <3>1 DEF Mcp!FreeCall
      <3>2. CASE Mcp!FreeCalls # {}
        <4>1. (CHOOSE q \in Mcp!FreeCalls : TRUE) \in Mcp!FreeCalls
          BY <3>2
        <4> QED
          BY <3>2, <4>1 DEF Mcp!FreeCall, Mcp!FreeCalls
      <3> QED
        BY <3>1, <3>2
    <2> QED
      BY <1>1, <2>1, RefuseStep, PostStep, GetOrDeleteStep
  <1>2. ASSUME NEW q \in Calls,
               \/ Mcp!BodyFails(q) \/ Mcp!UseSession(q) \/ Mcp!VerifyToken(q)
               \/ Mcp!VerifyFails(q) \/ Mcp!CallTool(q)
               \/ \E initialize \in BOOLEAN : Mcp!Initialize(q, initialize)
               \/ \E i \in SessionIds : Mcp!OpenSession(q, i)
        PROVE  McpInv'
    <2>1. CASE Mcp!BodyFails(q) \/ Mcp!VerifyFails(q) \/ Mcp!CallTool(q)
      BY <2>1, DoneStep DEF Mcp!BodyFails, Mcp!VerifyFails, Mcp!CallTool
    <2> QED
      BY <1>2, <2>1, UseSessionStep, VerifyTokenStep, InitializeStep, OpenSessionStep
  <1>3. CASE \/ Mcp!Tick \/ Mcp!Sweep \/ Mcp!Shutdown \/ Mcp!Closed
             \/ \E t \in Tokens : Mcp!Revoke(t)
             \/ \E i \in SessionIds : Mcp!CloseSession(i)
    BY <1>3, TickStep, SweepStep, ShutdownStep
  <1> QED
    BY <1>1, <1>2, <1>3 DEF Mcp!McpNext

LEMMA McpStutter ==
    ASSUME McpInv, UNCHANGED mcpVars
    PROVE  McpInv'
  BY DEF McpInv, mcpVars, Mcp!McpTypeOK, McpCallsOK, McpCallOK, VettedOK

\* The server's module counts as this one does.
LEMMA SameCardinality == \A S : Mcp!Cardinality(S) = Cardinality(S)
  BY DEF Mcp!Cardinality, Cardinality

LEMMA McpHolds ==
    ASSUME McpInv
    PROVE  Mcp!McpTypeOK /\ Mcp!SpeaksForItself /\ Mcp!RateHolds
  <1>1. Mcp!SpeaksForItself
    BY DEF McpInv, McpCallsOK, McpCallOK, VettedOK, Mcp!SpeaksForItself
  <1>2. ASSUME NEW t \in Tokens, NEW x \in Mcp!Times
        PROVE  Cardinality(Mcp!Passed(t, x, x + Window + 1)) < 2 * RateMax
    <2>1. Mcp!Passed(t, x, x + Window + 1) = Counts(admitted[t], x, x + Window + 1)
      BY CountsArePassed DEF McpInv, Mcp!McpTypeOK
    <2>2. RateOK(admitted[t], clock, windows[t])
      BY TokenTypes
    <2>3. Total(admitted[t], x, x + Window + 1) < 2 * RateMax
      BY <2>2 DEF RateOK
    <2> QED
      BY <2>1, <2>3 DEF Total
  <1> QED
    BY <1>1, <1>2, SameCardinality DEF McpInv, Mcp!RateHolds

\* What a step of the server may not do.
LEMMA McpSteps ==
    ASSUME McpInv, Mcp!McpNext
    PROVE  Mcp!IdleSessionStaysDead
  <1> SUFFICES ASSUME NEW i \in SessionIds, mcpSession[i] # None,
                      clock - mcpSession[i].lastSeenAt > Ttl
               PROVE  mcpSession'[i].lastSeenAt = mcpSession[i].lastSeenAt
    BY DEF Mcp!IdleSessionStaysDead
  <1>1. /\ mcpSession \in [SessionIds -> Mcp!Session \cup {None}]
        /\ mcpSession[i] \in Mcp!Session
    BY DEF McpInv, Mcp!McpTypeOK
  <1>2. \A t : ~ Mcp!Served(i, t)
    BY DEF Mcp!Served, Mcp!Idle
  <1>3. ASSUME NEW j \in SessionIds, j # i, NEW s,
               mcpSession' = [mcpSession EXCEPT ![j] = s]
        PROVE  mcpSession'[i] = mcpSession[i]
    BY <1>1, <1>3
  <1>4. ASSUME NEW address, NEW token, NEW j \in SessionIds, NEW delete,
               Mcp!GetOrDelete(address, token, j, delete)
        PROVE  mcpSession'[i] = mcpSession[i]
    <2>1. CASE Mcp!Served(j, token)
      <3>1. j # i
        BY <1>2, <2>1
      <3> QED
        BY <1>1, <1>4, <2>1, <3>1 DEF Mcp!GetOrDelete
    <2>2. CASE ~ Mcp!Served(j, token)
      BY <1>4, <2>2 DEF Mcp!GetOrDelete
    <2> QED
      BY <2>1, <2>2
  <1>5. ASSUME NEW q \in Calls, Mcp!UseSession(q)
        PROVE  mcpSession'[i] = mcpSession[i]
    <2>1. PICK j : j = call[q].session
      OBVIOUS
    <2>2. CASE Mcp!Served(j, call[q].token)
      <3>1. j # i
        BY <1>2, <2>2
      <3> QED
        BY <1>1, <1>5, <2>1, <2>2, <3>1 DEF Mcp!UseSession
    <2>3. CASE ~ Mcp!Served(j, call[q].token)
      BY <1>5, <2>1, <2>3 DEF Mcp!UseSession
    <2> QED
      BY <2>2, <2>3
  <1>6. ASSUME NEW q \in Calls, NEW j \in SessionIds, Mcp!OpenSession(q, j)
        PROVE  mcpSession'[i] = mcpSession[i]
    BY <1>1, <1>6 DEF Mcp!OpenSession
  <1>7. ASSUME NEW s, s = [mcpSession[i] EXCEPT !.open = FALSE]
        PROVE  s.lastSeenAt = mcpSession[i].lastSeenAt
    BY <1>1, <1>7 DEF Mcp!Session
  <1>8. CASE Mcp!Sweep
    <2>1. mcpSession'[i] = [mcpSession[i] EXCEPT !.open = FALSE]
          \/ mcpSession'[i] = mcpSession[i]
      BY <1>8 DEF Mcp!Sweep
    <2> QED
      BY <1>7, <2>1
  <1>9. ASSUME NEW j \in SessionIds, Mcp!CloseSession(j)
        PROVE  mcpSession'[i].lastSeenAt = mcpSession[i].lastSeenAt
    <2>1. CASE j = i
      <3>1. mcpSession'[i] = [mcpSession[i] EXCEPT !.open = FALSE]
        BY <1>1, <1>9, <2>1 DEF Mcp!CloseSession
      <3> QED
        BY <1>7, <3>1
    <2>2. CASE j # i
      BY <1>1, <1>9, <2>2 DEF Mcp!CloseSession
    <2> QED
      BY <2>1, <2>2
  <1>10. CASE UNCHANGED mcpSession
    BY <1>10
  <1> QED
    BY <1>4, <1>5, <1>6, <1>8, <1>9, <1>10
       DEF Mcp!McpNext, Mcp!Refuse, Mcp!Post, Mcp!BodyFails, Mcp!VerifyToken,
           Mcp!VerifyFails, Mcp!CallTool, Mcp!Initialize, Mcp!Revoke, Mcp!Tick,
           Mcp!Shutdown, Mcp!Closed

LEMMA McpInvariance == Spec => [](part = "mcp" => McpInv)
  <1>1. Init => (part = "mcp" => McpInv)
    BY McpInit DEF Init
  <1>2. (part = "mcp" => McpInv) /\ [Next]_vars => (part = "mcp" => McpInv)'
    <2> SUFFICES ASSUME part = "mcp" => McpInv, [Next]_vars, part' = "mcp"
                 PROVE  McpInv'
      OBVIOUS
    <2>1. CASE part = "mcp" /\ Mcp!McpNext
      BY <2>1, McpStep
    <2>2. CASE part = "mcp" /\ UNCHANGED mcpVars
      BY <2>2, McpStutter
    <2> QED
      BY <2>1, <2>2 DEF Next, vars
  <1> QED
    BY <1>1, <1>2, PTL DEF Spec

-----------------------------------------------------------------------------
(* Apps and their permissions (AccessEditor) *)

\* The form holds the values and the token of the app it shows.
PanelOK ==
    /\ editor.draft = editor.selected
    /\ editor.token # None => editor.token = editor.selected
    /\ editor.mode = "create" => editor.selected = None

ClientCalls ==
    [op : {"create", "update", "rotate", "trust", "remove"}, id : Clients \cup {None},
     draft : Clients \cup {None}, at : {"sent", "done"}]

\* Only a creation goes to no app, and it ends with one.
ClientCallOK ==
    saving # None =>
        /\ saving.op = "update" => saving.draft = saving.id
        /\ saving.op = "create" /\ saving.at = "sent" => saving.draft = None
        /\ saving.op # "create" \/ saving.at = "done" => saving.id \in Clients

PermForms ==
    [mode : {"closed", "create", "edit"}, id : 0 .. MaxPolicies, app : Clients \cup {None}]
PermRequests ==
    [op : {"create", "update", "remove", "restore"}, app : Clients, id : 0 .. MaxPolicies,
     form : PermForms, at : {"sent", "done"}, live : BOOLEAN]

\* An open form is of the app whose editor is mounted.
PermitOK == permit.mode # "closed" => permit.app = Access!shown

AccessInv ==
    /\ Access!AccessTypeOK
    /\ PanelOK
    /\ saving \in ClientCalls \cup {None}
    /\ ClientCallOK
    /\ PermitOK
    /\ permCall \in [PermCalls -> PermRequests \cup {None}]
    /\ Access!PermissionsForTheirApp

LEMMA AccessHolds ==
    AccessInv => /\ Access!AccessTypeOK
                 /\ Access!SavedToItsApp
                 /\ Access!TokenOfSelected
                 /\ Access!PermissionsForTheirApp
  BY DEF AccessInv, PanelOK, ClientCallOK, Access!SavedToItsApp, Access!TokenOfSelected

LEMMA AccessInit == Access!AccessInit => AccessInv
  <1> SUFFICES ASSUME Access!AccessInit PROVE AccessInv
    OBVIOUS
  <1>1. 0 \in 0 .. MaxPolicies
    BY AccessAssumption
  <1>2. /\ connected \in [Clients -> {"none", "live", "gone"}]
        /\ policy \in [Clients -> 0 .. MaxPolicies] /\ made \in 0 .. MaxPolicies
        /\ list \subseteq Clients
        /\ seen \in [Clients -> 0 .. MaxPolicies]
    BY <1>1 DEF Access!AccessInit
  <1>3. editor \in [selected : Clients \cup {None}, mode : {"edit", "create"},
                    draft : Clients \cup {None}, token : Clients \cup {None}]
        /\ PanelOK
    BY DEF Access!AccessInit, Access!EmptyDraft, PanelOK
  <1>4. permit \in PermForms /\ permit.mode = "closed"
    BY <1>1 DEF Access!AccessInit, Access!Closed, PermForms
  <1>5. permCall = [p \in PermCalls |-> None]
    BY DEF Access!AccessInit
  <1> QED
    BY <1>2, <1>3, <1>4, <1>5
       DEF Access!AccessInit, AccessInv, Access!AccessTypeOK, ClientCallOK, PermitOK,
           Access!PermissionsForTheirApp, PermForms

\* The form or the list changes; the permissions form of another app is another one.
LEMMA RemountedStep ==
    ASSUME AccessInv, Access!Remounted, PanelOK', list' \subseteq Clients,
           editor' \in [selected : Clients \cup {None}, mode : {"edit", "create"},
                        draft : Clients \cup {None}, token : Clients \cup {None}],
           saving' \in {saving, None}, UNCHANGED <<connected, policy, made, seen>>
    PROVE  AccessInv'
  <1>1. CASE Access!Mounted(editor', list') = Access!Mounted(editor, list)
    <2>1. UNCHANGED <<permit, permCall>> /\ UNCHANGED Access!shown
      BY <1>1 DEF Access!Remounted, Access!shown, Access!Mounted
    <2> QED
      BY <2>1 DEF AccessInv, Access!AccessTypeOK, ClientCallOK, PermitOK,
                  Access!PermissionsForTheirApp
  <1>2. CASE Access!Mounted(editor', list') # Access!Mounted(editor, list)
    <2>1. permit' = Access!Closed
          /\ permCall' = [p \in PermCalls |->
                           IF permCall[p] = None THEN None
                           ELSE [permCall[p] EXCEPT !.live = FALSE]]
      BY <1>2 DEF Access!Remounted
    <2>2. permit' \in PermForms /\ permit'.mode = "closed"
      BY <2>1, AccessAssumption DEF Access!Closed, PermForms
    <2>3. ASSUME NEW p \in PermCalls
          PROVE  /\ permCall'[p] \in PermRequests \cup {None}
                 /\ permCall'[p] # None => /\ permCall[p] # None
                                           /\ permCall'[p].op = permCall[p].op
                                           /\ permCall'[p].app = permCall[p].app
                                           /\ permCall'[p].form = permCall[p].form
      <3>1. CASE permCall[p] = None
        BY <2>1, <3>1
      <3>2. CASE permCall[p] # None
        <4>1. PICK q \in PermRequests : q = permCall[p]
          BY <3>2 DEF AccessInv
        <4>2. permCall'[p] = [q EXCEPT !.live = FALSE]
          BY <2>1, <3>2, <4>1
        <4>3. [q EXCEPT !.live = FALSE] \in PermRequests
          BY DEF PermRequests
        <4> QED
          BY <3>2, <4>1, <4>2, <4>3 DEF PermRequests
      <3> QED
        BY <3>1, <3>2
    <2>4. permCall' \in [PermCalls -> PermRequests \cup {None}]
      BY <2>1, <2>3
    <2>5. Access!PermissionsForTheirApp'
      BY <2>3 DEF AccessInv, Access!PermissionsForTheirApp
    <2> QED
      BY <2>2, <2>4, <2>5 DEF AccessInv, Access!AccessTypeOK, ClientCallOK, PermitOK, PermForms
  <1> QED
    BY <1>1, <1>2

LEMMA ClientClicks ==
    ASSUME AccessInv,
           \/ \E c \in Clients : Access!SelectClient(c)
           \/ Access!StartClientCreate \/ Access!CancelCreate
           \/ Access!RefetchClients
    PROVE  AccessInv'
  <1>1. CASE \E c \in Clients : Access!SelectClient(c)
    <2>1. PICK c \in Clients : Access!SelectClient(c)
      BY <1>1
    <2>2. \/ editor' = [selected |-> None, mode |-> "edit", draft |-> None, token |-> None]
          \/ editor' = [selected |-> c, mode |-> "edit", draft |-> c, token |-> None]
      BY <2>1 DEF Access!SelectClient, Access!EmptyDraft, Access!ToClientDraft
    <2>3. PanelOK' /\ editor' \in [selected : Clients \cup {None}, mode : {"edit", "create"},
                                   draft : Clients \cup {None}, token : Clients \cup {None}]
      BY <2>2 DEF PanelOK
    <2> QED
      BY <2>1, <2>3, RemountedStep DEF Access!SelectClient, Access!rows, AccessInv,
         Access!AccessTypeOK
  <1>2. CASE Access!StartClientCreate
    <2>1. PanelOK' /\ editor' \in [selected : Clients \cup {None}, mode : {"edit", "create"},
                                   draft : Clients \cup {None}, token : Clients \cup {None}]
      BY <1>2 DEF Access!StartClientCreate, Access!EmptyDraft, PanelOK
    <2> QED
      BY <1>2, <2>1, RemountedStep DEF Access!StartClientCreate, Access!rows, AccessInv,
         Access!AccessTypeOK
  <1>3. CASE Access!CancelCreate
    <2>1. PanelOK' /\ editor' \in [selected : Clients \cup {None}, mode : {"edit", "create"},
                                   draft : Clients \cup {None}, token : Clients \cup {None}]
      BY <1>3 DEF Access!CancelCreate, Access!Cancelled, Access!EmptyDraft, PanelOK,
         AccessInv, Access!AccessTypeOK
    <2> QED
      BY <1>3, <2>1, RemountedStep DEF Access!CancelCreate, Access!rows, AccessInv,
         Access!AccessTypeOK
  <1>4. CASE Access!RefetchClients
    <2>1. PanelOK' /\ list' \subseteq Clients
      BY <1>4 DEF Access!RefetchClients, PanelOK, AccessInv
    <2> QED
      BY <1>4, <2>1, RemountedStep DEF Access!RefetchClients, Access!rows, AccessInv,
         Access!AccessTypeOK
  <1> QED
    BY <1>1, <1>2, <1>3, <1>4

\* The answer of a request selects its app, or nothing.
LEMMA ClientAnswer ==
    ASSUME AccessInv, Access!Answer
    PROVE  AccessInv'
  <1>1. PICK r \in ClientCalls : r = saving /\ r.at = "done" /\ r.id \in Clients
    BY DEF Access!Answer, AccessInv, ClientCallOK
  <1>2. /\ editor' \in [selected : Clients \cup {None}, mode : {"edit", "create"},
                        draft : Clients \cup {None}, token : Clients \cup {None}]
        /\ PanelOK'
    <2>1. CASE r.op = "remove"
      <3>1. editor' = [Access!Cancelled(editor) EXCEPT !.selected = None]
        BY <1>1, <2>1 DEF Access!Answer
      <3> QED
        BY <3>1 DEF Access!Cancelled, Access!EmptyDraft, PanelOK, AccessInv,
           Access!AccessTypeOK
    <2>2. CASE r.op # "remove"
      <3>1. PICK t \in {r.id, None} :
               t = IF r.op \in {"create", "rotate"} THEN r.id ELSE None
        OBVIOUS
      <3>2. editor' = [selected |-> r.id, mode |-> "edit", draft |-> r.id, token |-> t]
        BY <1>1, <2>2, <3>1 DEF Access!Answer, Access!ApplyClient, Access!ToClientDraft
      <3> QED
        BY <1>1, <3>2 DEF PanelOK
    <2> QED
      BY <2>1, <2>2
  <1> QED
    BY <1>2, RemountedStep DEF Access!Answer, Access!rows, AccessInv, Access!AccessTypeOK

\* A request of the form, and what the server makes of it.
LEMMA ClientSending ==
    ASSUME AccessInv, NEW op \in {"create", "update", "rotate", "trust", "remove"},
           NEW c \in Clients \cup {None}, NEW draft \in Clients \cup {None},
           Access!Send(op, c, draft),
           op = "update" => draft = c,
           op = "create" => draft = None,
           op # "create" => c \in Clients
    PROVE  AccessInv'
  <1>1. PICK r : r = [op |-> op, id |-> c, draft |-> draft, at |-> "sent"]
    OBVIOUS
  <1>2. r \in ClientCalls /\ saving' = r
    BY <1>1 DEF ClientCalls, Access!Send
  <1>3. ClientCallOK'
    BY <1>1, <1>2 DEF ClientCallOK
  <1>4. UNCHANGED <<connected, policy, made, list, seen, editor, permit, permCall>>
    BY DEF Access!Send, Access!rows
  <1>5. UNCHANGED Access!shown
    BY <1>4 DEF Access!shown, Access!Mounted
  <1> QED
    BY <1>2, <1>3, <1>4, <1>5
       DEF AccessInv, Access!AccessTypeOK, PanelOK, PermitOK, Access!PermissionsForTheirApp

LEMMA ClientSends ==
    ASSUME AccessInv,
           \/ \E c \in Clients : Access!UpdateClientTrust(c)
           \/ Access!SaveClient \/ Access!ConfirmRotateToken \/ Access!ConfirmDeleteClient
    PROVE  AccessInv'
  <1>1. CASE \E c \in Clients : Access!UpdateClientTrust(c)
    BY <1>1, ClientSending DEF Access!UpdateClientTrust, Access!EmptyDraft
  <1>2. CASE Access!SaveClient
    <2>1. PICK op \in {"create", "update"} :
             op = IF editor.selected # None THEN "update" ELSE "create"
      OBVIOUS
    <2>2. Access!Send(op, editor.selected, editor.draft)
      BY <1>2, <2>1 DEF Access!SaveClient
    <2>3. /\ editor.selected \in Clients \cup {None} /\ editor.draft \in Clients \cup {None}
          /\ editor.draft = editor.selected
      BY DEF AccessInv, Access!AccessTypeOK, PanelOK
    <2> QED
      BY <2>1, <2>2, <2>3, ClientSending
  <1>3. CASE Access!ConfirmRotateToken \/ Access!ConfirmDeleteClient
    <2>1. editor.selected \in Clients
      BY <1>3 DEF Access!ConfirmRotateToken, Access!ConfirmDeleteClient, Access!Mounted,
                  AccessInv, Access!AccessTypeOK
    <2> QED
      BY <1>3, <2>1, ClientSending
         DEF Access!ConfirmRotateToken, Access!ConfirmDeleteClient, Access!EmptyDraft
  <1> QED
    BY <1>1, <1>2, <1>3

LEMMA ClientServed ==
    ASSUME AccessInv, NEW c \in Clients, NEW state \in {"live", "gone"},
           Access!Served(c, state), saving # None,
           saving.op # "create" => c = saving.id,
           policy' \in [Clients -> 0 .. MaxPolicies]
    PROVE  AccessInv'
  <1>1. PICK r \in ClientCalls : r = saving
    BY DEF AccessInv
  <1>2. PICK q : q = [r EXCEPT !.at = "done", !.id = c]
    OBVIOUS
  <1>3. q \in ClientCalls /\ saving' = q /\ q.at = "done" /\ q.id = c /\ q.op = r.op
        /\ q.draft = r.draft
    BY <1>1, <1>2 DEF ClientCalls, Access!Served
  <1>4. ClientCallOK'
    BY <1>1, <1>3 DEF ClientCallOK, AccessInv
  <1>5. UNCHANGED <<made, list, seen, editor, permit, permCall>>
    BY DEF Access!Served
  <1>6. UNCHANGED Access!shown
    BY <1>5 DEF Access!shown, Access!Mounted
  <1>7. connected' \in [Clients -> {"none", "live", "gone"}]
    BY DEF Access!Served, AccessInv, Access!AccessTypeOK
  <1> QED
    BY <1>3, <1>4, <1>5, <1>6, <1>7
       DEF AccessInv, Access!AccessTypeOK, PanelOK, PermitOK, Access!PermissionsForTheirApp

LEMMA ClientServes ==
    ASSUME AccessInv,
           Access!ServeCreate \/ Access!ServeUpdate \/ Access!ServeRemove \/ Access!CallFails
    PROVE  AccessInv'
  <1>1. policy \in [Clients -> 0 .. MaxPolicies] /\ 0 \in 0 .. MaxPolicies
    BY AccessAssumption DEF AccessInv, Access!AccessTypeOK
  <1>2. CASE Access!ServeCreate
    BY <1>1, <1>2, ClientServed DEF Access!ServeCreate
  <1>3. CASE Access!ServeUpdate
    <2>1. saving.id \in Clients
      BY <1>3 DEF Access!ServeUpdate, AccessInv, ClientCallOK
    <2> QED
      BY <1>1, <1>3, <2>1, ClientServed DEF Access!ServeUpdate
  <1>4. CASE Access!ServeRemove
    <2>1. saving.id \in Clients
      BY <1>4 DEF Access!ServeRemove, AccessInv, ClientCallOK
    <2>2. policy' \in [Clients -> 0 .. MaxPolicies]
      BY <1>1, <1>4 DEF Access!ServeRemove
    <2> QED
      BY <1>4, <2>1, <2>2, ClientServed DEF Access!ServeRemove
  <1>5. CASE Access!CallFails
    <2>1. UNCHANGED <<connected, policy, made, list, seen, editor, permit, permCall>>
          /\ saving' = None
      BY <1>5 DEF Access!CallFails, Access!rows
    <2>2. UNCHANGED Access!shown
      BY <2>1 DEF Access!shown, Access!Mounted
    <2> QED
      BY <2>1, <2>2
         DEF AccessInv, Access!AccessTypeOK, PanelOK, PermitOK, ClientCallOK,
             Access!PermissionsForTheirApp
  <1> QED
    BY <1>2, <1>3, <1>4, <1>5

\* What the cache, the server's rows or the permissions form hold.
LEMMA RowsSet ==
    ASSUME AccessInv,
           connected' \in [Clients -> {"none", "live", "gone"}],
           policy' \in [Clients -> 0 .. MaxPolicies], made' \in 0 .. MaxPolicies,
           seen' \in [Clients -> 0 .. MaxPolicies],
           permit' \in PermForms, permit' \in {permit, Access!Closed} \/ permit'.app = Access!shown,
           permCall' \in [PermCalls -> PermRequests \cup {None}],
           Access!PermissionsForTheirApp',
           UNCHANGED <<list, editor, saving>>
    PROVE  AccessInv'
  <1>1. UNCHANGED Access!shown
    BY DEF Access!shown, Access!Mounted
  <1>2. PermitOK'
    BY <1>1 DEF PermitOK, AccessInv, Access!Closed
  <1> QED
    BY <1>2 DEF AccessInv, Access!AccessTypeOK, PanelOK, ClientCallOK, PermForms

\* An app's permissions are set up, whoever does it.
LEMMA PolicyMade ==
    ASSUME AccessInv, NEW c \in Clients, Access!MakePolicy(c)
    PROVE  policy' \in [Clients -> 0 .. MaxPolicies] /\ made' \in 0 .. MaxPolicies
  <1>1. made \in 0 .. MaxPolicies /\ made < MaxPolicies /\ made' = made + 1
    BY DEF AccessInv, Access!AccessTypeOK, Access!MakePolicy
  <1>2. made' \in 0 .. MaxPolicies
    BY <1>1, AccessAssumption
  <1> QED
    BY <1>2 DEF AccessInv, Access!AccessTypeOK, Access!MakePolicy

LEMMA ElsewhereStep ==
    ASSUME AccessInv, NEW c \in Clients, Access!Elsewhere(c)
    PROVE  AccessInv'
  <1>1. 0 \in 0 .. MaxPolicies
    BY AccessAssumption
  <1>2. /\ policy \in [Clients -> 0 .. MaxPolicies]
        /\ connected \in [Clients -> {"none", "live", "gone"}]
        /\ made \in 0 .. MaxPolicies
    BY DEF AccessInv, Access!AccessTypeOK
  <1>3. policy' \in [Clients -> 0 .. MaxPolicies] /\ made' \in 0 .. MaxPolicies
    <2>1. CASE policy' = [policy EXCEPT ![c] = 0] /\ UNCHANGED made
      BY <1>1, <1>2, <2>1
    <2>2. CASE Access!MakePolicy(c)
      BY <2>2, PolicyMade
    <2> QED
      BY <2>1, <2>2 DEF Access!Elsewhere
  <1>4. connected' \in [Clients -> {"none", "live", "gone"}]
    BY <1>2 DEF Access!Elsewhere
  <1>5. UNCHANGED <<list, seen, editor, saving, permit, permCall>>
    BY DEF Access!Elsewhere
  <1>6. Access!PermissionsForTheirApp'
    BY <1>5 DEF AccessInv, Access!PermissionsForTheirApp
  <1> QED
    BY <1>3, <1>4, <1>5, <1>6, RowsSet DEF AccessInv, Access!AccessTypeOK, PermForms

LEMMA PermitClicks ==
    ASSUME AccessInv,
           \/ Access!RefetchPolicies
           \/ Access!StartPolicyCreate \/ Access!TogglePolicyEditor \/ Access!CancelPolicy
    PROVE  AccessInv'
  <1>1. CASE Access!RefetchPolicies
    <2>1. seen' \in [Clients -> 0 .. MaxPolicies]
      <3>1. editor.selected \in Clients
        BY <1>1 DEF Access!RefetchPolicies, Access!Mounted, AccessInv, Access!AccessTypeOK
      <3> QED
        BY <1>1, <3>1 DEF Access!RefetchPolicies, AccessInv, Access!AccessTypeOK
    <2>2. UNCHANGED <<connected, policy, made, list, editor, saving, permit, permCall>>
      BY <1>1 DEF Access!RefetchPolicies, Access!rows
    <2>3. Access!PermissionsForTheirApp'
      BY <2>2 DEF AccessInv, Access!PermissionsForTheirApp
    <2> QED
      BY <2>1, <2>2, <2>3, RowsSet DEF AccessInv, Access!AccessTypeOK, PermForms
  <1>2. CASE Access!StartPolicyCreate \/ Access!TogglePolicyEditor \/ Access!CancelPolicy
    <2>1. UNCHANGED <<connected, policy, made, list, seen, editor, saving, permCall>>
      BY <1>2 DEF Access!StartPolicyCreate, Access!TogglePolicyEditor, Access!CancelPolicy,
                  Access!Form, Access!rows
    <2>2. Access!shown \in Clients
      BY <1>2 DEF Access!StartPolicyCreate, Access!TogglePolicyEditor, Access!CancelPolicy,
                  Access!shown, Access!Mounted, AccessInv, Access!AccessTypeOK
    <2>3. seen[Access!shown] \in 0 .. MaxPolicies /\ 0 \in 0 .. MaxPolicies
      BY <2>2, AccessAssumption DEF AccessInv, Access!AccessTypeOK
    <2>4. \/ permit' = Access!Closed
          \/ permit' = [mode |-> "create", id |-> 0, app |-> Access!shown]
          \/ permit' = [mode |-> "edit", id |-> seen[Access!shown], app |-> Access!shown]
      BY <1>2 DEF Access!StartPolicyCreate, Access!TogglePolicyEditor, Access!CancelPolicy,
                  Access!Form
    <2>5. permit' \in PermForms /\ (permit' = Access!Closed \/ permit'.app = Access!shown)
      BY <2>2, <2>3, <2>4 DEF PermForms, Access!Closed
    <2>6. Access!PermissionsForTheirApp'
      BY <2>1 DEF AccessInv, Access!PermissionsForTheirApp
    <2> QED
      BY <2>1, <2>5, <2>6, RowsSet DEF AccessInv, Access!AccessTypeOK
  <1> QED
    BY <1>1, <1>2

\* What is sent carries the form of the app it goes to.
LEMMA PermSending ==
    ASSUME AccessInv, NEW op \in {"create", "update", "remove", "restore"},
           NEW id \in 0 .. MaxPolicies, Access!SendPolicy(op, id),
           Access!shown \in Clients,
           op \in {"create", "update"} => permit.app = Access!shown
    PROVE  AccessInv'
  <1>1. PICK q : q = [op |-> op, app |-> Access!shown, id |-> id, form |-> permit,
                      at |-> "sent", live |-> TRUE]
    OBVIOUS
  <1>2. PICK p \in PermCalls : permCall' = [permCall EXCEPT ![p] = q]
    BY <1>1 DEF Access!SendPolicy
  <1>3. q \in PermRequests
    BY <1>1 DEF PermRequests, AccessInv, Access!AccessTypeOK, PermForms
  <1>4. permCall \in [PermCalls -> PermRequests \cup {None}]
    BY DEF AccessInv
  <1>5. permCall' \in [PermCalls -> PermRequests \cup {None}]
    BY <1>2, <1>3, <1>4
  <1>6. Access!PermissionsForTheirApp'
    <2> SUFFICES ASSUME NEW i \in PermCalls, permCall'[i] # None,
                        permCall'[i].op \in {"create", "update"}
                 PROVE  permCall'[i].form.app = permCall'[i].app
      BY DEF Access!PermissionsForTheirApp
    <2>1. CASE i = p
      BY <1>1, <1>2, <1>4, <2>1
    <2>2. CASE i # p
      BY <1>2, <1>4, <2>2 DEF AccessInv, Access!PermissionsForTheirApp
    <2> QED
      BY <2>1, <2>2
  <1>7. UNCHANGED <<connected, policy, made, list, seen, editor, saving, permit>>
    BY DEF Access!SendPolicy, Access!rows
  <1> QED
    BY <1>5, <1>6, <1>7, RowsSet DEF AccessInv, Access!AccessTypeOK, PermForms

LEMMA PermSends ==
    ASSUME AccessInv,
           Access!SavePolicy \/ Access!ConfirmDeletePolicy \/ Access!RestoreDefaults
    PROVE  AccessInv'
  <1>1. Access!shown \in Clients
    BY DEF Access!SavePolicy, Access!ConfirmDeletePolicy, Access!RestoreDefaults,
           Access!shown, Access!Mounted, AccessInv, Access!AccessTypeOK
  <1>2. /\ seen[Access!shown] \in 0 .. MaxPolicies /\ 0 \in 0 .. MaxPolicies
        /\ permit.id \in 0 .. MaxPolicies
    BY <1>1, AccessAssumption DEF AccessInv, Access!AccessTypeOK
  <1>3. CASE Access!SavePolicy
    <2>1. permit.mode # "closed"
      BY <1>3 DEF Access!SavePolicy, Access!EditorShown
    <2>2. permit.app = Access!shown
      BY <2>1 DEF AccessInv, PermitOK
    <2>3. PICK op \in {"create", "update"} :
             op = IF permit.mode = "edit" THEN "update" ELSE "create"
      OBVIOUS
    <2>4. Access!SendPolicy(op, permit.id)
      BY <1>3, <2>3 DEF Access!SavePolicy
    <2> QED
      BY <1>1, <1>2, <2>2, <2>3, <2>4, PermSending
  <1>4. CASE Access!ConfirmDeletePolicy
    BY <1>1, <1>2, <1>4, PermSending DEF Access!ConfirmDeletePolicy
  <1>5. CASE Access!RestoreDefaults
    BY <1>1, <1>2, <1>5, PermSending DEF Access!RestoreDefaults
  <1> QED
    BY <1>3, <1>4, <1>5

\* A request that ends, or is served.
LEMMA PermCallSet ==
    ASSUME AccessInv, NEW p \in PermCalls, NEW q \in PermRequests \cup {None},
           permCall' = [permCall EXCEPT ![p] = q],
           q # None => /\ permCall[p] # None /\ q.op = permCall[p].op
                       /\ q.app = permCall[p].app /\ q.form = permCall[p].form
    PROVE  /\ permCall' \in [PermCalls -> PermRequests \cup {None}]
           /\ Access!PermissionsForTheirApp'
  <1>1. permCall \in [PermCalls -> PermRequests \cup {None}]
    BY DEF AccessInv
  <1>2. ASSUME NEW i \in PermCalls, permCall'[i] # None,
               permCall'[i].op \in {"create", "update"}
        PROVE  permCall'[i].form.app = permCall'[i].app
    <2>1. CASE i = p
      BY <1>1, <1>2, <2>1 DEF AccessInv, Access!PermissionsForTheirApp
    <2>2. CASE i # p
      BY <1>1, <1>2, <2>2 DEF AccessInv, Access!PermissionsForTheirApp
    <2> QED
      BY <2>1, <2>2
  <1> QED
    BY <1>1, <1>2 DEF Access!PermissionsForTheirApp

LEMMA PermDone ==
    ASSUME AccessInv, NEW p \in PermCalls, permCall[p] # None,
           permCall' = [permCall EXCEPT ![p].at = "done"]
    PROVE  /\ permCall' \in [PermCalls -> PermRequests \cup {None}]
           /\ Access!PermissionsForTheirApp'
  <1>1. PICK r \in PermRequests : r = permCall[p]
    BY DEF AccessInv
  <1>2. PICK q : q = [r EXCEPT !.at = "done"]
    OBVIOUS
  <1>3. permCall' = [permCall EXCEPT ![p] = q]
    BY <1>1, <1>2
  <1>4. q \in PermRequests /\ q.op = r.op /\ q.app = r.app /\ q.form = r.form
    BY <1>1, <1>2 DEF PermRequests
  <1> QED
    BY <1>1, <1>3, <1>4, PermCallSet

LEMMA PermServes ==
    ASSUME AccessInv, NEW p \in PermCalls,
           \/ Access!ServePolicy(p) \/ Access!PolicyConflicts(p)
           \/ Access!AnswerPolicy(p) \/ Access!PolicyFails(p)
    PROVE  AccessInv'
  <1>1. /\ policy \in [Clients -> 0 .. MaxPolicies] /\ 0 \in 0 .. MaxPolicies
        /\ made \in 0 .. MaxPolicies /\ permit \in PermForms
    BY AccessAssumption DEF AccessInv, Access!AccessTypeOK, PermForms
  <1>2. PICK r \in PermRequests : r = permCall[p]
    BY DEF Access!ServePolicy, Access!PolicyConflicts, Access!AnswerPolicy,
           Access!PolicyFails, AccessInv
  <1>3. r.app \in Clients /\ permCall[p] # None
    BY <1>2 DEF PermRequests, Access!ServePolicy, Access!PolicyConflicts,
                Access!AnswerPolicy, Access!PolicyFails
  <1>4. CASE Access!ServePolicy(p)
    <2>1. policy' \in [Clients -> 0 .. MaxPolicies] /\ made' \in 0 .. MaxPolicies
      <3>1. CASE Access!MakePolicy(r.app)
        BY <1>3, <3>1, PolicyMade
      <3>2. CASE UNCHANGED <<policy, made>>
        BY <1>1, <3>2
      <3>3. CASE policy' = [policy EXCEPT ![r.app] = 0] /\ UNCHANGED made
        BY <1>1, <1>3, <3>3
      <3> QED
        BY <1>2, <1>4, <3>1, <3>2, <3>3 DEF Access!ServePolicy
    <2> QED
      BY <1>1, <1>3, <1>4, <2>1, PermDone, RowsSet
         DEF Access!ServePolicy, AccessInv, Access!AccessTypeOK
  <1>5. CASE Access!PolicyConflicts(p)
    BY <1>1, <1>3, <1>5, PermDone, RowsSet
       DEF Access!PolicyConflicts, Access!rows, AccessInv, Access!AccessTypeOK
  <1>6. CASE Access!AnswerPolicy(p) \/ Access!PolicyFails(p)
    <2>1. permit' \in PermForms /\ permit' \in {permit, Access!Closed}
      BY <1>1, <1>6 DEF Access!AnswerPolicy, Access!PolicyFails, Access!Closed, PermForms
    <2>2. /\ permCall' \in [PermCalls -> PermRequests \cup {None}]
          /\ Access!PermissionsForTheirApp'
      BY <1>6, PermCallSet DEF Access!AnswerPolicy, Access!PolicyFails
    <2> QED
      BY <1>1, <1>6, <2>1, <2>2, RowsSet
         DEF Access!AnswerPolicy, Access!PolicyFails, Access!rows, AccessInv,
             Access!AccessTypeOK
  <1> QED
    BY <1>4, <1>5, <1>6

LEMMA AccessStep ==
    ASSUME AccessInv, Access!AccessNext
    PROVE  AccessInv'
  BY ClientClicks, ClientAnswer, ClientSends, ClientServes, ElsewhereStep, PermitClicks,
     PermSends, PermServes DEF Access!AccessNext

LEMMA AccessStutter ==
    ASSUME AccessInv, UNCHANGED accessVars
    PROVE  AccessInv'
  <1>1. UNCHANGED Access!shown
    BY DEF accessVars, Access!shown, Access!Mounted
  <1> QED
    BY <1>1 DEF AccessInv, accessVars, Access!AccessTypeOK, PanelOK, ClientCallOK, PermitOK,
                Access!PermissionsForTheirApp

\* Only serving a request makes it done, and it found the row it names.
LEMMA AccessSteps ==
    ASSUME AccessInv, Access!AccessNext
    PROVE  Access!RecreatedPolicyUntouched
  <1> SUFFICES ASSUME NEW p \in PermCalls, permCall[p] # None,
                      permCall[p].op \in {"update", "remove"}, permCall'[p] # None,
                      permCall[p].at = "sent", permCall'[p].at = "done"
               PROVE  policy[permCall[p].app] = permCall[p].id
    BY DEF Access!RecreatedPolicyUntouched
  <1>1. permCall \in [PermCalls -> PermRequests \cup {None}]
    BY DEF AccessInv
  <1>2. permCall' # permCall
    OBVIOUS
  <1>3. ~ Access!Remounted
    <2> SUFFICES ASSUME Access!Remounted PROVE FALSE
      OBVIOUS
    <2>1. permCall'[p] = [permCall[p] EXCEPT !.live = FALSE]
      BY <1>2 DEF Access!Remounted
    <2>2. permCall[p] \in PermRequests
      BY <1>1
    <2> QED
      BY <2>1, <2>2 DEF PermRequests
  <1>4. ASSUME NEW op, NEW id, Access!SendPolicy(op, id) PROVE FALSE
    BY <1>1, <1>4 DEF Access!SendPolicy
  <1>5. ASSUME NEW i \in PermCalls,
               Access!PolicyConflicts(i) \/ Access!AnswerPolicy(i) \/ Access!PolicyFails(i)
        PROVE  FALSE
    BY <1>1, <1>5 DEF Access!PolicyConflicts, Access!AnswerPolicy, Access!PolicyFails
  <1>6. PICK i \in PermCalls : Access!ServePolicy(i)
    BY <1>2, <1>3, <1>4, <1>5
       DEF Access!AccessNext, Access!SelectClient, Access!UpdateClientTrust,
           Access!Elsewhere, Access!StartClientCreate, Access!CancelCreate,
           Access!SaveClient, Access!ConfirmRotateToken, Access!ConfirmDeleteClient,
           Access!ServeCreate, Access!ServeUpdate, Access!ServeRemove, Access!CallFails,
           Access!Answer, Access!RefetchClients, Access!RefetchPolicies,
           Access!StartPolicyCreate, Access!TogglePolicyEditor, Access!CancelPolicy,
           Access!SavePolicy, Access!ConfirmDeletePolicy, Access!RestoreDefaults,
           Access!Send, Access!Served, Access!Form
  <1>7. i = p
    BY <1>1, <1>6 DEF Access!ServePolicy
  <1> QED
    BY <1>6, <1>7 DEF Access!ServePolicy, Access!FoundPolicy

LEMMA AccessInvariance == Spec => [](part = "access" => AccessInv)
  <1>1. Init => (part = "access" => AccessInv)
    BY AccessInit DEF Init
  <1>2. (part = "access" => AccessInv) /\ [Next]_vars => (part = "access" => AccessInv)'
    <2> SUFFICES ASSUME part = "access" => AccessInv, [Next]_vars, part' = "access"
                 PROVE  AccessInv'
      OBVIOUS
    <2>1. CASE part = "access" /\ Access!AccessNext
      BY <2>1, AccessStep
    <2>2. CASE part = "access" /\ UNCHANGED accessVars
      BY <2>2, AccessStutter
    <2> QED
      BY <2>1, <2>2 DEF Next, vars
  <1> QED
    BY <1>1, <1>2, PTL DEF Spec

-----------------------------------------------------------------------------
(* The review page (ReviewScreen) *)

Ticks == [id : Asks, revision : 0 .. MaxRevision, ids : SUBSET Offered]
Screens ==
    [id : Asks \cup {None}, selection : Ticks \cup {None}, blocked : Asks \cup {None}]
Decisions == [shown : (0 .. MaxRevision) \cup {None}, ids : SUBSET Offered]
InFlight ==
    [id : Asks, action : {"approve", "deny"}, revision : 0 .. MaxRevision,
     ids : SUBSET Offered, at : {"sent", "done"}]

ReviewInv ==
    /\ Review!ReviewTypeOK
    /\ cache \in [Asks -> Review!Previews \cup {None}]
    /\ screen \in Screens
    /\ decision \in [Asks -> Decisions \cup {None}]
    /\ sent \in InFlight \cup {None}
    /\ refreshing \in [id : Asks, fetched : BOOLEAN] \cup {None}

LEMMA ReviewInit == Review!ReviewInit => ReviewInv
  <1> SUFFICES ASSUME Review!ReviewInit PROVE ReviewInv
    OBVIOUS
  <1>1. 0 \in 0 .. MaxRevision
    BY ReviewAssumption
  <1>2. offer \in [Asks -> [revision : 0 .. MaxRevision, items : SUBSET Offered]]
    BY <1>1, ReviewAssumption DEF Review!ReviewInit
  <1>3. screen \in Screens
    BY DEF Review!ReviewInit, Screens
  <1> QED
    BY <1>2, <1>3 DEF Review!ReviewInit, ReviewInv, Review!ReviewTypeOK

\* What a preview that is shown is.
LEMMA PreviewShown ==
    ASSUME ReviewInv, Review!Preview # None
    PROVE  /\ screen.id \in Asks
           /\ Review!Preview = cache[screen.id]
           /\ Review!Preview \in Review!Previews
           /\ Review!Mine => screen.selection.revision = Review!Preview.revision
           /\ Review!Selected.ids \in SUBSET Offered
  <1>1. Review!Preview = Review!Detail /\ ~ Review!ChangedSelection
    BY DEF Review!Preview
  <1>2. screen.id # None /\ Review!Detail = cache[screen.id]
    BY <1>1 DEF Review!Detail
  <1>3. screen.id \in Asks
    BY <1>2 DEF ReviewInv, Screens
  <1>4. cache[screen.id] \in Review!Previews
    BY <1>1, <1>2, <1>3 DEF ReviewInv
  <1>5. Review!Mine => screen.selection.revision = Review!Preview.revision
    BY <1>1 DEF Review!ChangedSelection
  <1>6. Review!Selected.ids \in SUBSET Offered
    <2>1. CASE Review!Mine
      <3>1. Review!Selected = screen.selection
        BY <1>5, <2>1 DEF Review!Selected
      <3>2. screen.selection \in Ticks
        BY <2>1 DEF Review!Mine, ReviewInv, Screens
      <3> QED
        BY <3>1, <3>2 DEF Ticks
    <2>2. CASE ~ Review!Mine
      <3>1. Review!Selected.ids = Review!Preview.items
        BY <2>2 DEF Review!Selected
      <3> QED
        BY <1>1, <1>2, <1>4, <3>1 DEF Review!Previews
    <2> QED
      BY <2>1, <2>2
  <1> QED
    BY <1>1, <1>2, <1>3, <1>4, <1>5, <1>6

\* A preview that can be approved carries the owner's ticks.
LEMMA ReviewHolds == ReviewInv => Review!ReviewTypeOK /\ Review!TicksAreTheOwners
  <1> SUFFICES ASSUME ReviewInv, Review!Preview # None, Review!Mine
               PROVE  Review!Selected = screen.selection
    BY DEF ReviewInv, Review!TicksAreTheOwners
  <1> QED
    BY PreviewShown DEF Review!Selected

\* A step that changes only the screen.
LEMMA ScreenSet ==
    ASSUME ReviewInv, screen' \in Screens,
           UNCHANGED <<offer, decision, cache, stale, sent, refreshing>>
    PROVE  ReviewInv'
  BY DEF ReviewInv, Review!ReviewTypeOK, Screens, Ticks

LEMMA ReviewClicks ==
    ASSUME ReviewInv,
           \/ \E r \in Asks : Review!SelectRequest(r) \/ Review!FollowLink(r)
           \/ \E m \in Offered : Review!Tick(m)
    PROVE  ReviewInv'
  <1>1. CASE \E r \in Asks : screen' = Review!Choose(r)
    <2>1. screen' \in Screens
      BY <1>1 DEF Review!Choose, Screens
    <2> QED
      BY <2>1, ScreenSet DEF Review!SelectRequest, Review!FollowLink, Review!Tick
  <1>2. ASSUME NEW m \in Offered, Review!Tick(m)
        PROVE  ReviewInv'
    <2>1. PICK ids : ids = IF m \in Review!Selected.ids THEN Review!Selected.ids \ {m}
                           ELSE Review!Selected.ids \cup {m}
      OBVIOUS
    <2>2. PICK t : t = [id |-> screen.id, revision |-> Review!Preview.revision, ids |-> ids]
      OBVIOUS
    <2>3. ids \in SUBSET Offered
      BY <1>2, <2>1, PreviewShown DEF Review!Tick
    <2>4. t \in Ticks
      BY <1>2, <2>2, <2>3, PreviewShown DEF Review!Tick, Ticks, Review!Previews
    <2>5. screen' = [screen EXCEPT !.selection = t]
      BY <1>2, <2>1, <2>2 DEF Review!Tick
    <2>6. screen' \in Screens
      BY <2>4, <2>5 DEF ReviewInv, Screens
    <2> QED
      BY <1>2, <2>6, ScreenSet DEF Review!Tick
  <1> QED
    BY <1>1, <1>2 DEF Review!SelectRequest, Review!FollowLink

LEMMA DecideStep ==
    ASSUME ReviewInv, NEW action \in {"approve", "deny"}, Review!Decide(action)
    PROVE  ReviewInv'
  <1>1. Review!Preview # None
    BY DEF Review!Decide, Review!CanDecide
  <1>2. sent' \in InFlight
    BY <1>1, PreviewShown DEF Review!Decide, InFlight, Review!Previews
  <1> QED
    BY <1>2 DEF Review!Decide, ReviewInv, Review!ReviewTypeOK

\* The server approves the preview it would show, with the ticks that came.
LEMMA DecisionServed ==
    ASSUME ReviewInv, Review!ServeDecision
    PROVE  ReviewInv' /\ Review!ApprovedAsShown
  <1>1. PICK s \in InFlight : s = sent
    BY DEF Review!ServeDecision, ReviewInv
  <1>2. PICK d : d = IF s.action = "deny" THEN [shown |-> None, ids |-> {}]
                     ELSE [shown |-> offer[s.id].revision, ids |-> s.ids]
    OBVIOUS
  <1>3. /\ s.id \in Asks
        /\ decision' = [decision EXCEPT ![s.id] = d]
        /\ sent' = [s EXCEPT !.at = "done"]
        /\ s.action = "approve" => offer[s.id].revision = s.revision
    BY <1>1, <1>2 DEF Review!ServeDecision, InFlight, Review!Current
  <1>4. d \in Decisions
    BY <1>1, <1>2, <1>3 DEF Decisions, InFlight, ReviewInv, Review!ReviewTypeOK
  <1>5. decision \in [Asks -> Decisions \cup {None}]
    BY DEF ReviewInv
  <1>6. decision' \in [Asks -> Decisions \cup {None}]
    BY <1>3, <1>4, <1>5
  <1>7. sent' \in InFlight
    BY <1>1, <1>3 DEF InFlight
  <1>8. ReviewInv'
    BY <1>6, <1>7 DEF ReviewInv, Review!ReviewTypeOK, Review!ServeDecision, Decisions
  <1>9. Review!ApprovedAsShown
    <2> SUFFICES ASSUME NEW r \in Asks, decision'[r] # decision[r],
                        decision'[r].shown # None
                 PROVE  /\ decision'[r].shown = s.revision
                        /\ decision'[r].ids = s.ids
                        /\ r = s.id
      BY <1>1 DEF Review!ApprovedAsShown
    <2>1. r = s.id /\ decision'[r] = d
      BY <1>3, <1>5
    <2>2. s.action = "approve"
      BY <1>1, <1>2, <2>1 DEF InFlight
    <2> QED
      BY <1>2, <1>3, <2>1, <2>2
  <1> QED
    BY <1>8, <1>9

LEMMA DecisionAnswers ==
    ASSUME ReviewInv, Review!Decided \/ Review!DecisionFails
    PROVE  ReviewInv'
  <1>1. screen' \in Screens
    BY DEF Review!Decided, Review!DecisionFails, ReviewInv, Screens, InFlight
  <1>2. stale' \subseteq Asks /\ sent' = None
    BY DEF Review!Decided, Review!DecisionFails, ReviewInv, Review!ReviewTypeOK
  <1> QED
    BY <1>1, <1>2
       DEF Review!Decided, Review!DecisionFails, ReviewInv, Review!ReviewTypeOK, Screens, Ticks

LEMMA PreviewStep ==
    ASSUME ReviewInv, NEW r \in Asks, NEW items \in Changes[r],
           Review!PreviewChanges(r, items)
    PROVE  ReviewInv'
  <1>1. PICK o : o = [revision |-> offer[r].revision + 1, items |-> items]
    OBVIOUS
  <1>2. items \in SUBSET Offered
    BY ReviewAssumption
  <1>3. offer[r].revision \in 0 .. MaxRevision
    BY DEF ReviewInv, Review!ReviewTypeOK
  <1>4. offer[r].revision < MaxRevision
    BY DEF Review!PreviewChanges
  <1>5. offer[r].revision + 1 \in 0 .. MaxRevision
    BY <1>3, <1>4, ReviewAssumption
  <1>6. o \in [revision : 0 .. MaxRevision, items : SUBSET Offered]
    BY <1>1, <1>2, <1>5
  <1>7. offer' = [offer EXCEPT ![r] = o]
    BY <1>1 DEF Review!PreviewChanges
  <1>8. offer' \in [Asks -> [revision : 0 .. MaxRevision, items : SUBSET Offered]]
    BY <1>6, <1>7 DEF ReviewInv, Review!ReviewTypeOK
  <1> QED
    BY <1>8 DEF ReviewInv, Review!ReviewTypeOK, Review!PreviewChanges

\* A preview is fetched into the cache.
LEMMA CacheSet ==
    ASSUME ReviewInv, NEW r \in Asks,
           cache' = [cache EXCEPT ![r] = Review!Fetched(r)], stale' = stale \ {r},
           refreshing' \in [id : Asks, fetched : BOOLEAN] \cup {None},
           UNCHANGED <<offer, decision, screen, sent>>
    PROVE  ReviewInv'
  <1>1. PICK f : f = Review!Fetched(r)
    OBVIOUS
  <1>2. f \in Review!Previews
    BY <1>1 DEF Review!Fetched, Review!Previews, ReviewInv, Review!ReviewTypeOK
  <1>3. cache' \in [Asks -> Review!Previews \cup {None}]
    BY <1>1, <1>2 DEF ReviewInv
  <1> QED
    BY <1>3 DEF ReviewInv, Review!ReviewTypeOK

LEMMA FetchSteps ==
    ASSUME ReviewInv,
           \/ Review!Load \/ Review!Refresh \/ Review!RefreshFetched
           \/ Review!RefreshDone \/ Review!RefreshFails
    PROVE  ReviewInv'
  <1>1. CASE Review!Load
    <2>1. screen.id \in Asks
      BY <1>1 DEF Review!Load, ReviewInv, Screens
    <2>2. refreshing' \in [id : Asks, fetched : BOOLEAN] \cup {None}
      BY <1>1 DEF Review!Load, ReviewInv
    <2> QED
      BY <1>1, <2>1, <2>2, CacheSet DEF Review!Load
  <1>2. CASE Review!RefreshFetched
    <2>1. PICK f \in [id : Asks, fetched : BOOLEAN] : f = refreshing
      BY <1>2 DEF Review!RefreshFetched, ReviewInv
    <2>2. refreshing' \in [id : Asks, fetched : BOOLEAN]
      BY <1>2, <2>1 DEF Review!RefreshFetched
    <2> QED
      BY <1>2, <2>1, <2>2, CacheSet DEF Review!RefreshFetched
  <1>3. CASE Review!Refresh \/ Review!RefreshDone \/ Review!RefreshFails
    <2>1. screen' \in Screens
      BY <1>3 DEF Review!Refresh, Review!RefreshDone, Review!RefreshFails, ReviewInv, Screens
    <2>2. refreshing' \in [id : Asks, fetched : BOOLEAN] \cup {None}
      <3>1. CASE Review!Refresh
        <4>1. screen.id \in Asks
          BY <3>1 DEF Review!Refresh, ReviewInv, Screens
        <4> QED
          BY <3>1, <4>1 DEF Review!Refresh
      <3>2. CASE Review!RefreshDone \/ Review!RefreshFails
        BY <3>2 DEF Review!RefreshDone, Review!RefreshFails
      <3> QED
        BY <1>3, <3>1, <3>2
    <2> QED
      BY <1>3, <2>1, <2>2
         DEF Review!Refresh, Review!RefreshDone, Review!RefreshFails, ReviewInv,
             Review!ReviewTypeOK, Screens, Ticks
  <1> QED
    BY <1>1, <1>2, <1>3

LEMMA ReviewStep ==
    ASSUME ReviewInv, Review!ReviewNext
    PROVE  ReviewInv'
  BY ReviewClicks, DecideStep, DecisionServed, DecisionAnswers, PreviewStep, FetchSteps
     DEF Review!ReviewNext

LEMMA ReviewStutter ==
    ASSUME ReviewInv, UNCHANGED reviewVars
    PROVE  ReviewInv'
  BY DEF ReviewInv, reviewVars, Review!ReviewTypeOK

LEMMA ReviewSteps ==
    ASSUME ReviewInv, Review!ReviewNext
    PROVE  Review!ApprovedAsShown
  <1>1. CASE UNCHANGED decision
    BY <1>1 DEF Review!ApprovedAsShown
  <1> QED
    BY <1>1, DecisionServed
       DEF Review!ReviewNext, Review!SelectRequest, Review!FollowLink, Review!Tick,
           Review!Decide, Review!Decided, Review!DecisionFails, Review!PreviewChanges,
           Review!Load, Review!Refresh, Review!RefreshFetched, Review!RefreshDone,
           Review!RefreshFails

LEMMA ReviewInvariance == Spec => [](part = "review" => ReviewInv)
  <1>1. Init => (part = "review" => ReviewInv)
    BY ReviewInit DEF Init
  <1>2. (part = "review" => ReviewInv) /\ [Next]_vars => (part = "review" => ReviewInv)'
    <2> SUFFICES ASSUME part = "review" => ReviewInv, [Next]_vars, part' = "review"
                 PROVE  ReviewInv'
      OBVIOUS
    <2>1. CASE part = "review" /\ Review!ReviewNext
      BY <2>1, ReviewStep
    <2>2. CASE part = "review" /\ UNCHANGED reviewVars
      BY <2>2, ReviewStutter
    <2> QED
      BY <2>1, <2>2 DEF Next, vars
  <1> QED
    BY <1>1, <1>2, PTL DEF Spec

-----------------------------------------------------------------------------
(* The memory page (MemoryEditor) *)

Dialogs == [op: {"update", "remove"}, id: Memories \cup {None}]
Sendings ==
    [op: {"create", "update", "patch", "remove"}, id: Memories \cup {None},
     status: Editor!Statuses, named: Memories \cup {None},
     knew: Editor!Statuses \cup {"none"}, at: {"sent", "done"}]

\* A form that edits is of the memory the address names.
FormOK ==
    /\ form.mode = "edit" => form.id # None /\ form.id = url
    /\ form.mode = "create" => form.status # "DELETED"

\* A request that deletes names what a dialog named, or is about what the page took
\* for deleted.
SendingOK ==
    sending # None /\ sending.status = "DELETED" =>
        /\ sending.op \in {"update", "remove"}
        /\ sending.named = sending.id \/ sending.knew = "DELETED"

EditorInv ==
    /\ Editor!EditorTypeOK
    /\ ask \in Dialogs \cup {None}
    /\ sending \in Sendings \cup {None}
    /\ FormOK
    /\ SendingOK

LEMMA EditorInit == Editor!EditorInit => EditorInv
  <1> SUFFICES ASSUME Editor!EditorInit PROVE EditorInv
    OBVIOUS
  <1>1. /\ stored \in [Memories -> Editor!Statuses \cup {"none"}]
        /\ shown \in [Memories -> Editor!Statuses \cup {"none"}]
    BY DEF Editor!EditorInit, Editor!Statuses
  <1> QED
    BY <1>1 DEF Editor!EditorInit, EditorInv, Editor!EditorTypeOK, Editor!NoForm, FormOK,
                SendingOK, Editor!Statuses

\* The owner's clicks that send nothing.
LEMMA EditorClicks ==
    ASSUME EditorInv,
           \/ \E m \in Memories : Editor!SelectMemory(m)
           \/ \E v \in Editor!Statuses : Editor!SetStatus(v)
           \/ Editor!StartCreate \/ Editor!StartEdit \/ Editor!CancelEditor
    PROVE  EditorInv'
  <1>1. UNCHANGED <<stored, shown, url, ask, sending>>
    BY DEF Editor!SelectMemory, Editor!StartCreate, Editor!StartEdit, Editor!SetStatus,
           Editor!CancelEditor
  <1>2. going' \in Memories \cup {None, Nowhere}
    BY DEF Editor!SelectMemory, Editor!StartCreate, Editor!StartEdit, Editor!SetStatus,
           Editor!CancelEditor, EditorInv, Editor!EditorTypeOK
  <1>3. /\ form' \in [mode : {"closed", "create", "edit"}, id : Memories \cup {None},
                      status : Editor!Statuses]
        /\ FormOK'
    <2>1. CASE form' = Editor!NoForm
      BY <2>1 DEF Editor!NoForm, FormOK, Editor!Statuses
    <2>2. CASE form' = [Editor!NoForm EXCEPT !.mode = "create"]
      BY <2>2 DEF Editor!NoForm, FormOK, Editor!Statuses
    <2>3. CASE Editor!StartEdit
      BY <1>1, <2>3 DEF Editor!StartEdit, Editor!Known, FormOK, EditorInv,
                        Editor!EditorTypeOK
    <2>4. CASE \E v \in Editor!Statuses : Editor!SetStatus(v)
      BY <1>1, <2>4 DEF Editor!SetStatus, FormOK, EditorInv, Editor!EditorTypeOK
    <2> QED
      BY <2>1, <2>2, <2>3, <2>4
         DEF Editor!SelectMemory, Editor!StartCreate, Editor!CancelEditor
  <1> QED
    BY <1>1, <1>2, <1>3 DEF EditorInv, Editor!EditorTypeOK, SendingOK

\* The address changes, and the effect runs.
LEMMA ArriveStep ==
    ASSUME EditorInv, NEW m \in Memories \cup {None}, Editor!Arrive(m),
           going' \in {going, Nowhere}
    PROVE  EditorInv'
  <1>1. form' = Editor!NoForm \/ (form' = form /\ (form.id = None \/ form.id = m))
    BY DEF Editor!Arrive, Editor!CloseEffect
  <1>2. /\ form' \in [mode : {"closed", "create", "edit"}, id : Memories \cup {None},
                      status : Editor!Statuses]
        /\ FormOK'
    <2>1. CASE form' = Editor!NoForm
      BY <2>1 DEF Editor!NoForm, FormOK, Editor!Statuses
    <2>2. CASE form' = form /\ (form.id = None \/ form.id = m)
      <3>1. url' = m
        BY DEF Editor!Arrive
      <3> QED
        BY <2>2, <3>1 DEF FormOK, EditorInv, Editor!EditorTypeOK
    <2> QED
      BY <1>1, <2>1, <2>2
  <1> QED
    BY <1>2 DEF EditorInv, Editor!EditorTypeOK, SendingOK, Editor!Arrive

\* What is sent.
LEMMA SendingSet ==
    ASSUME EditorInv, NEW op \in {"create", "update", "patch", "remove"},
           NEW m \in Memories \cup {None}, NEW status \in Editor!Statuses,
           NEW named \in Memories \cup {None}, Editor!Request(op, m, status, named),
           status = "DELETED" =>
              /\ op \in {"update", "remove"}
              /\ named = m \/ (m # None /\ shown[m] = "DELETED"),
           ask' \in Dialogs \cup {None}, UNCHANGED <<stored, shown, url, going, form>>
    PROVE  EditorInv'
  <1>1. PICK knew \in Editor!Statuses \cup {"none"} :
           knew = IF m = None THEN "none" ELSE shown[m]
    BY DEF EditorInv, Editor!EditorTypeOK
  <1>2. PICK r : r = [op |-> op, id |-> m, status |-> status, named |-> named,
                      knew |-> knew, at |-> "sent"]
    OBVIOUS
  <1>3. r \in Sendings /\ sending' = r
    BY <1>1, <1>2 DEF Sendings, Editor!Request
  <1> QED
    BY <1>1, <1>2, <1>3 DEF EditorInv, Editor!EditorTypeOK, FormOK, SendingOK

LEMMA SaveMemoryStep ==
    ASSUME EditorInv, Editor!SaveMemory
    PROVE  EditorInv'
  <1>1. PICK asks \in BOOLEAN : asks <=> Editor!AsksFirst(form)
    OBVIOUS
  <1>2. form.id \in Memories \cup {None} /\ form.status \in Editor!Statuses
    BY DEF EditorInv, Editor!EditorTypeOK
  <1>3. CASE asks
    <2>1. ask' = [op |-> "update", id |-> form.id] /\ UNCHANGED sending
      BY <1>1, <1>3 DEF Editor!SaveMemory
    <2> QED
      BY <1>2, <2>1
         DEF EditorInv, Editor!EditorTypeOK, FormOK, SendingOK, Dialogs, Editor!SaveMemory
  <1>4. CASE ~ asks
    <2>1. PICK op \in {"create", "update"} :
             op = IF form.mode = "edit" THEN "update" ELSE "create"
      OBVIOUS
    <2>2. Editor!Request(op, form.id, form.status, None) /\ UNCHANGED ask
      BY <1>1, <1>4, <2>1 DEF Editor!SaveMemory
    <2>3. form.status = "DELETED" =>
             op = "update" /\ form.id # None /\ shown[form.id] = "DELETED"
      BY <1>1, <1>4, <2>1
         DEF EditorInv, Editor!EditorTypeOK, FormOK, Editor!SaveMemory, Editor!AsksFirst
    <2> QED
      BY <1>2, <2>1, <2>2, <2>3, SendingSet DEF EditorInv, Editor!SaveMemory
  <1> QED
    BY <1>3, <1>4

LEMMA SendSteps ==
    ASSUME EditorInv, Editor!PatchSelected \/ Editor!Confirm
    PROVE  EditorInv'
  <1>1. CASE Editor!PatchSelected
    <2>1. PICK v \in {"ACTIVE", "ARCHIVED"} :
             v = IF shown[url] = "ARCHIVED" THEN "ACTIVE" ELSE "ARCHIVED"
      OBVIOUS
    <2>2. url \in Memories \cup {None} /\ Editor!Request("patch", url, v, None)
      BY <1>1, <2>1 DEF Editor!PatchSelected, EditorInv, Editor!EditorTypeOK
    <2>3. v \in Editor!Statuses
      BY DEF Editor!Statuses
    <2> QED
      BY <1>1, <2>1, <2>2, <2>3, SendingSet DEF Editor!PatchSelected, EditorInv
  <1>2. CASE Editor!Confirm
    <2>1. PICK a \in Dialogs : a = ask
      BY <1>2 DEF Editor!Confirm, EditorInv
    <2>2. /\ a.op \in {"update", "remove"} /\ a.id \in Memories \cup {None}
          /\ Editor!Request(a.op, a.id, "DELETED", a.id)
      BY <1>2, <2>1 DEF Editor!Confirm, Editor!Confirmed, Dialogs
    <2>3. "DELETED" \in Editor!Statuses
      BY DEF Editor!Statuses
    <2> QED
      BY <1>2, <2>2, <2>3, SendingSet DEF Editor!Confirm
  <1> QED
    BY <1>1, <1>2

LEMMA DialogSteps ==
    ASSUME EditorInv, Editor!ConfirmDeleteSelected \/ Editor!Dismiss \/ Editor!Fails
    PROVE  EditorInv'
  <1>1. ask' \in Dialogs \cup {None}
    BY DEF Editor!ConfirmDeleteSelected, Editor!Dismiss, Editor!Fails, EditorInv,
           Editor!EditorTypeOK, Dialogs
  <1> QED
    BY <1>1 DEF Editor!ConfirmDeleteSelected, Editor!Dismiss, Editor!Fails, EditorInv,
                Editor!EditorTypeOK, FormOK, SendingOK

LEMMA ServeStep ==
    ASSUME EditorInv, Editor!Serve
    PROVE  EditorInv' /\ Editor!OnlyConfirmedIsDeleted
  <1>1. PICK r \in Sendings : r = sending /\ r # None
    BY DEF Editor!Serve, EditorInv
  <1>2. PICK m \in Memories :
           /\ IF r.op = "create" THEN stored[m] = "none" ELSE m = r.id
           /\ stored' = [stored EXCEPT ![m] = r.status]
           /\ sending' = [r EXCEPT !.at = "done", !.id = m]
    BY <1>1 DEF Editor!Serve
  <1>3. r.status = "DELETED" =>
           /\ r.op \in {"update", "remove"} /\ m = r.id
           /\ r.named = m \/ r.knew = "DELETED"
    BY <1>1, <1>2 DEF EditorInv, SendingOK
  <1>4. PICK q : q = [r EXCEPT !.at = "done", !.id = m]
    OBVIOUS
  <1>5. /\ q \in Sendings /\ q.status = r.status /\ q.op = r.op /\ q.id = m
        /\ q.named = r.named /\ q.knew = r.knew
    BY <1>1, <1>4 DEF Sendings
  <1>6. stored \in [Memories -> Editor!Statuses \cup {"none"}]
        /\ r.status \in Editor!Statuses
    BY <1>1 DEF EditorInv, Editor!EditorTypeOK, Sendings
  <1>7. stored' \in [Memories -> Editor!Statuses \cup {"none"}]
    BY <1>2, <1>6
  <1>8. SendingOK'
    BY <1>2, <1>3, <1>4, <1>5 DEF SendingOK
  <1>9. Editor!OnlyConfirmedIsDeleted
    <2> SUFFICES ASSUME NEW i \in Memories, stored[i] # "DELETED", stored'[i] = "DELETED"
                 PROVE  sending.named = i \/ (sending.id = i /\ sending.knew = "DELETED")
      BY DEF Editor!OnlyConfirmedIsDeleted
    <2>1. i = m /\ r.status = "DELETED"
      BY <1>2, <1>6
    <2> QED
      BY <1>1, <1>3, <2>1
  <1> QED
    BY <1>2, <1>4, <1>5, <1>7, <1>8, <1>9
       DEF EditorInv, Editor!EditorTypeOK, FormOK, Editor!Serve

LEMMA PerformedStep ==
    ASSUME EditorInv, Editor!Performed
    PROVE  EditorInv'
  <1>1. going' \in Memories \cup {None, Nowhere}
    BY DEF Editor!Performed, EditorInv, Sendings
  <1>2. /\ form' \in [mode : {"closed", "create", "edit"}, id : Memories \cup {None},
                      status : Editor!Statuses]
        /\ FormOK'
    BY DEF Editor!Performed, Editor!NoForm, FormOK, Editor!Statuses
  <1>3. shown' \in [Memories -> Editor!Statuses \cup {"none"}]
    BY DEF Editor!Performed, EditorInv, Editor!EditorTypeOK, Sendings
  <1> QED
    BY <1>1, <1>2, <1>3 DEF EditorInv, Editor!EditorTypeOK, SendingOK, Editor!Performed

\* What happens to memories elsewhere, and what the page hears of it.
LEMMA ElsewhereSteps ==
    ASSUME EditorInv, NEW m \in Memories,
           \/ Editor!Fetch(m)
           \/ \E status \in Editor!Statuses : Editor!OtherSession(m, status)
    PROVE  EditorInv'
  <1>1. /\ stored' \in [Memories -> Editor!Statuses \cup {"none"}]
        /\ shown' \in [Memories -> Editor!Statuses \cup {"none"}]
        /\ UNCHANGED <<url, going, form, ask, sending>>
    <2>1. CASE Editor!Fetch(m)
      BY <2>1 DEF Editor!Fetch, EditorInv, Editor!EditorTypeOK
    <2>2. ASSUME NEW status \in Editor!Statuses, Editor!OtherSession(m, status)
          PROVE  /\ stored' \in [Memories -> Editor!Statuses \cup {"none"}]
                 /\ shown' \in [Memories -> Editor!Statuses \cup {"none"}]
                 /\ UNCHANGED <<url, going, form, ask, sending>>
      BY <2>2 DEF Editor!OtherSession, EditorInv, Editor!EditorTypeOK
    <2> QED
      BY <2>1, <2>2
  <1> QED
    BY <1>1 DEF EditorInv, Editor!EditorTypeOK, FormOK, SendingOK

LEMMA EditorStep ==
    ASSUME EditorInv, Editor!EditorNext
    PROVE  EditorInv'
  <1>1. CASE Editor!Navigate
    <2>1. going \in Memories \cup {None}
      BY <1>1 DEF Editor!Navigate, EditorInv, Editor!EditorTypeOK
    <2> QED
      BY <1>1, <2>1, ArriveStep DEF Editor!Navigate
  <1>2. CASE \E m \in Memories \cup {None} : Editor!Back(m)
    BY <1>2, ArriveStep DEF Editor!Back
  <1>3. CASE \E m \in Memories :
                \/ Editor!Fetch(m)
                \/ \E status \in Editor!Statuses : Editor!OtherSession(m, status)
    BY <1>3, ElsewhereSteps
  <1>4. CASE \/ \E m \in Memories : Editor!SelectMemory(m)
             \/ \E v \in Editor!Statuses : Editor!SetStatus(v)
             \/ Editor!StartCreate \/ Editor!StartEdit \/ Editor!CancelEditor
    BY <1>4, EditorClicks
  <1>5. CASE \/ Editor!SaveMemory \/ Editor!PatchSelected \/ Editor!ConfirmDeleteSelected
             \/ Editor!Confirm \/ Editor!Dismiss \/ Editor!Serve \/ Editor!Performed
             \/ Editor!Fails
    BY <1>5, SaveMemoryStep, SendSteps, DialogSteps, ServeStep, PerformedStep
  <1> QED
    BY <1>1, <1>2, <1>3, <1>4, <1>5 DEF Editor!EditorNext

LEMMA EditorStutter ==
    ASSUME EditorInv, UNCHANGED editorVars
    PROVE  EditorInv'
  BY DEF EditorInv, editorVars, Editor!EditorTypeOK, FormOK, SendingOK

LEMMA EditorSteps ==
    ASSUME EditorInv, Editor!EditorNext
    PROVE  Editor!OnlyConfirmedIsDeleted
  <1>1. CASE UNCHANGED stored
    BY <1>1 DEF Editor!OnlyConfirmedIsDeleted
  <1>2. CASE UNCHANGED sending
    BY <1>2 DEF Editor!OnlyConfirmedIsDeleted
  <1> QED
    BY <1>1, <1>2, ServeStep
       DEF Editor!EditorNext, Editor!SelectMemory, Editor!Back, Editor!Arrive,
           Editor!StartCreate, Editor!Navigate, Editor!StartEdit, Editor!SetStatus,
           Editor!CancelEditor, Editor!SaveMemory, Editor!PatchSelected,
           Editor!ConfirmDeleteSelected, Editor!Confirm, Editor!Dismiss,
           Editor!Performed, Editor!Fails, Editor!Fetch, Editor!OtherSession

LEMMA EditorInvariance == Spec => [](part = "editor" => EditorInv)
  <1>1. Init => (part = "editor" => EditorInv)
    BY EditorInit DEF Init
  <1>2. (part = "editor" => EditorInv) /\ [Next]_vars => (part = "editor" => EditorInv)'
    <2> SUFFICES ASSUME part = "editor" => EditorInv, [Next]_vars, part' = "editor"
                 PROVE  EditorInv'
      OBVIOUS
    <2>1. CASE part = "editor" /\ Editor!EditorNext
      BY <2>1, EditorStep
    <2>2. CASE part = "editor" /\ UNCHANGED editorVars
      BY <2>2, EditorStutter
    <2> QED
      BY <2>1, <2>2 DEF Next, vars
  <1> QED
    BY <1>1, <1>2, PTL DEF Spec

-----------------------------------------------------------------------------
(* Settings of the consolidation (ScheduleSettings) *)

TabStates ==
    [cached: Schedule!Settings, draft: Schedule!Settings \cup {None},
     save: Schedule!Saves]

\* A save that is under way knows what it sends, and what applies by itself was
\* agreed to before it is sent.
SaveOK(save) ==
    /\ save.step \in {"asking", "sent", "written", "saved"} => save.body # None
    /\ save.step = "sent" /\ Schedule!AutoApplies(save.body) => save.agreed

\* As long as the last update runs alone, nobody else is between its two steps.
CleanOK ==
    clean =>
        /\ \A t \in Schedule!Between :
              /\ setting = jobsTab[t].save.body /\ starting = "no"
              /\ Schedule!Between = {t}
        /\ Schedule!Between = {} => (scheduled <=> setting.enabled)
        /\ starting = "enabled" => setting.enabled

ScheduleInv ==
    /\ Schedule!ScheduleTypeOK
    /\ \A t \in Tabs : SaveOK(jobsTab[t].save)
    /\ Schedule!AutoApplyWasAgreed
    /\ CleanOK

LEMMA ScheduleInit == Schedule!ScheduleInit => ScheduleInv
  <1> SUFFICES ASSUME Schedule!ScheduleInit PROVE ScheduleInv
    OBVIOUS
  <1>1. Schedule!FirstSetting \in Schedule!Settings /\ ~ Schedule!FirstSetting.enabled
    BY DEF Schedule!FirstSetting, Schedule!Settings
  <1>2. /\ Schedule!NoSave \in Schedule!Saves /\ SaveOK(Schedule!NoSave)
        /\ Schedule!NoSave.step = "none"
    BY DEF Schedule!NoSave, Schedule!Saves, SaveOK
  <1>3. Schedule!ScheduleTypeOK
    BY <1>1, <1>2 DEF Schedule!ScheduleInit, Schedule!ScheduleTypeOK
  <1>4. Schedule!Between = {}
    BY <1>2 DEF Schedule!ScheduleInit, Schedule!Between
  <1> QED
    BY <1>1, <1>2, <1>3, <1>4
       DEF Schedule!ScheduleInit, ScheduleInv, CleanOK, Schedule!AutoApplyWasAgreed,
           Schedule!AutoApplies

LEMMA TabTypes == ScheduleInv => jobsTab \in [Tabs -> TabStates]
  BY DEF ScheduleInv, Schedule!ScheduleTypeOK, TabStates

\* The page of one tab changes.
LEMMA TabSet ==
    ASSUME ScheduleInv, NEW t \in Tabs, NEW p \in TabStates, SaveOK(p.save),
           jobsTab' = [jobsTab EXCEPT ![t] = p]
    PROVE  /\ jobsTab' \in [Tabs -> TabStates]
           /\ \A u \in Tabs : SaveOK(jobsTab'[u].save)
           /\ \A u \in Tabs : jobsTab'[u] = IF u = t THEN p ELSE jobsTab[u]
  <1>1. jobsTab \in [Tabs -> TabStates]
    BY TabTypes
  <1>2. \A u \in Tabs : jobsTab'[u] = IF u = t THEN p ELSE jobsTab[u]
    BY <1>1
  <1> QED
    BY <1>1, <1>2 DEF ScheduleInv

\* It is not between the two steps of an update, before or after.
LEMMA PageStep ==
    ASSUME ScheduleInv, NEW t \in Tabs, NEW p \in TabStates, SaveOK(p.save),
           jobsTab' = [jobsTab EXCEPT ![t] = p],
           jobsTab[t].save.step # "written", p.save.step # "written",
           UNCHANGED <<setting, scheduled, starting, agreed>>,
           clean' => clean, clean' \in BOOLEAN
    PROVE  ScheduleInv'
  <1>1. /\ jobsTab' \in [Tabs -> TabStates]
        /\ \A u \in Tabs : SaveOK(jobsTab'[u].save)
        /\ \A u \in Tabs : jobsTab'[u] = IF u = t THEN p ELSE jobsTab[u]
    BY TabSet
  <1>2. /\ Schedule!Between' = Schedule!Between
        /\ \A u \in Schedule!Between : jobsTab'[u] = jobsTab[u]
    BY <1>1 DEF Schedule!Between
  <1>3. CleanOK'
    BY <1>2 DEF ScheduleInv, CleanOK
  <1> QED
    BY <1>1, <1>3
       DEF ScheduleInv, Schedule!ScheduleTypeOK, TabStates, Schedule!AutoApplyWasAgreed,
           Schedule!AutoApplies

LEMMA ShownType ==
    ASSUME ScheduleInv, NEW t \in Tabs
    PROVE  Schedule!Shown(t) \in Schedule!Settings
  BY TabTypes DEF TabStates, Schedule!Shown

LEMMA ChooseModeStep ==
    ASSUME ScheduleInv, NEW t \in Tabs, NEW mode \in {"REVIEW_ONLY", "AUTO_APPLY"},
           Schedule!ChooseMode(t, mode)
    PROVE  ScheduleInv'
  <1>1. PICK q \in TabStates : q = jobsTab[t]
    BY TabTypes
  <1>2. PICK next \in Schedule!Settings : next = [Schedule!Shown(t) EXCEPT !.mode = mode]
    BY ShownType DEF Schedule!Settings
  <1>3. PICK p : p = [q EXCEPT !.draft = next]
    OBVIOUS
  <1>4. p \in TabStates /\ p.save = q.save
    BY <1>1, <1>2, <1>3 DEF TabStates
  <1>5. jobsTab' = [jobsTab EXCEPT ![t] = p]
    BY <1>1, <1>2, <1>3, TabTypes DEF Schedule!ChooseMode
  <1>6. q.save.step = "none" /\ SaveOK(p.save)
    BY <1>1, <1>4 DEF Schedule!ChooseMode, Schedule!Free, ScheduleInv
  <1> QED
    BY <1>1, <1>4, <1>5, <1>6, PageStep
       DEF Schedule!ChooseMode, ScheduleInv, Schedule!ScheduleTypeOK

LEMMA SaveStep ==
    ASSUME ScheduleInv, NEW t \in Tabs, NEW next \in Schedule!Settings,
           Schedule!Save(t, next)
    PROVE  ScheduleInv'
  <1>1. PICK q \in TabStates : q = jobsTab[t]
    BY TabTypes
  <1>2. PICK step \in {"asking", "sent"} :
           step = IF Schedule!AutoApplies(next) THEN "asking" ELSE "sent"
    OBVIOUS
  <1>3. PICK save : save = [step |-> step, body |-> next, back |-> q.draft, agreed |-> FALSE]
    OBVIOUS
  <1>4. PICK draft \in Schedule!Settings \cup {None} :
           draft = IF Schedule!AutoApplies(next) THEN q.draft ELSE next
    BY <1>1 DEF TabStates
  <1>5. PICK p : p = [q EXCEPT !.save = save, !.draft = draft]
    OBVIOUS
  <1>6. save \in Schedule!Saves /\ p \in TabStates /\ p.save = save
    BY <1>1, <1>2, <1>3, <1>4, <1>5 DEF TabStates, Schedule!Saves
  <1>7. SaveOK(save) /\ save.step # "written"
    BY <1>2, <1>3, ScheduleAssumption DEF SaveOK
  <1>8. jobsTab' = [jobsTab EXCEPT ![t] = p]
    BY <1>1, <1>2, <1>3, <1>4, <1>5, TabTypes DEF Schedule!Save
  <1>9. q.save.step = "none"
    BY <1>1 DEF Schedule!Save, Schedule!Free
  <1> QED
    BY <1>1, <1>6, <1>7, <1>8, <1>9, PageStep
       DEF Schedule!Save, ScheduleInv, Schedule!ScheduleTypeOK

LEMMA AnswerDialogStep ==
    ASSUME ScheduleInv, NEW t \in Tabs, NEW yes \in BOOLEAN, Schedule!AnswerDialog(t, yes)
    PROVE  ScheduleInv'
  <1>1. PICK q \in TabStates : q = jobsTab[t]
    BY TabTypes
  <1>2. q.save.step = "asking" /\ q.save \in Schedule!Saves
        /\ q.save.body \in Schedule!Settings
    BY <1>1 DEF Schedule!AnswerDialog, ScheduleInv, SaveOK, TabStates, Schedule!Saves
  <1>3. CASE yes
    <2>1. PICK save : save = [q.save EXCEPT !.step = "sent", !.agreed = TRUE]
      OBVIOUS
    <2>2. /\ save \in Schedule!Saves /\ save.step = "sent" /\ save.agreed
          /\ save.body = q.save.body
      BY <1>2, <2>1 DEF Schedule!Saves
    <2>3. PICK p : p = [q EXCEPT !.save = save, !.draft = q.save.body]
      OBVIOUS
    <2>4. p \in TabStates /\ p.save = save
      BY <1>1, <1>2, <2>2, <2>3 DEF TabStates
    <2>5. SaveOK(save)
      BY <1>2, <2>2, ScheduleAssumption DEF SaveOK
    <2>6. jobsTab' = [jobsTab EXCEPT ![t] = p]
      BY <1>1, <1>3, <2>1, <2>3, TabTypes DEF Schedule!AnswerDialog, TabStates
    <2> QED
      BY <1>1, <1>2, <2>2, <2>4, <2>5, <2>6, PageStep
         DEF Schedule!AnswerDialog, ScheduleInv, Schedule!ScheduleTypeOK
  <1>4. CASE ~ yes
    <2>1. PICK p : p = [q EXCEPT !.save = Schedule!NoSave]
      OBVIOUS
    <2>2. /\ p \in TabStates /\ p.save = Schedule!NoSave /\ SaveOK(p.save)
          /\ p.save.step = "none"
      BY <1>1, <2>1 DEF TabStates, Schedule!NoSave, Schedule!Saves, SaveOK
    <2>3. jobsTab' = [jobsTab EXCEPT ![t] = p]
      BY <1>1, <1>4, <2>1, TabTypes DEF Schedule!AnswerDialog
    <2> QED
      BY <1>1, <1>2, <2>2, <2>3, PageStep
         DEF Schedule!AnswerDialog, ScheduleInv, Schedule!ScheduleTypeOK
  <1> QED
    BY <1>3, <1>4

LEMMA FinishSaveStep ==
    ASSUME ScheduleInv, NEW t \in Tabs, Schedule!FinishSave(t)
    PROVE  ScheduleInv'
  <1>1. PICK q \in TabStates : q = jobsTab[t]
    BY TabTypes
  <1>2. Schedule!NoSave \in Schedule!Saves /\ SaveOK(Schedule!NoSave)
        /\ Schedule!NoSave.step = "none"
    BY DEF Schedule!NoSave, Schedule!Saves, SaveOK
  <1>3. CASE q.save.step = "saved"
    <2>1. q.save.body \in Schedule!Settings
      BY <1>1, <1>3 DEF ScheduleInv, SaveOK, TabStates, Schedule!Saves
    <2>2. PICK p : p = [cached |-> q.save.body, draft |-> None, save |-> Schedule!NoSave]
      OBVIOUS
    <2>3. p \in TabStates /\ p.save = Schedule!NoSave
      BY <1>2, <2>1, <2>2 DEF TabStates
    <2>4. jobsTab' = [jobsTab EXCEPT ![t] = p]
      BY <1>1, <1>3, <2>2 DEF Schedule!FinishSave
    <2> QED
      BY <1>1, <1>2, <1>3, <2>3, <2>4, PageStep
         DEF Schedule!FinishSave, ScheduleInv, Schedule!ScheduleTypeOK
  <1>4. CASE q.save.step = "failed"
    <2>1. PICK p : p = [q EXCEPT !.draft = q.save.back, !.save = Schedule!NoSave]
      OBVIOUS
    <2>2. p \in TabStates /\ p.save = Schedule!NoSave
      BY <1>1, <1>2, <2>1 DEF TabStates, Schedule!Saves
    <2>3. jobsTab' = [jobsTab EXCEPT ![t] = p]
      BY <1>1, <1>4, <2>1 DEF Schedule!FinishSave
    <2> QED
      BY <1>1, <1>2, <1>4, <2>2, <2>3, PageStep
         DEF Schedule!FinishSave, ScheduleInv, Schedule!ScheduleTypeOK
  <1> QED
    BY <1>1, <1>3, <1>4 DEF Schedule!FinishSave

\* The page of one tab is loaded again.
LEMMA RefetchStep ==
    ASSUME ScheduleInv, NEW t \in Tabs, Schedule!Refetch(t)
    PROVE  ScheduleInv'
  <1>1. PICK q \in TabStates : q = jobsTab[t]
    BY TabTypes
  <1>2. PICK s \in Schedule!Settings : s = setting
    BY DEF ScheduleInv, Schedule!ScheduleTypeOK
  <1>3. PICK p : p = [q EXCEPT !.cached = s]
    OBVIOUS
  <1>4. p \in TabStates /\ p.save = q.save
    BY <1>1, <1>2, <1>3 DEF TabStates
  <1>5. jobsTab' = [jobsTab EXCEPT ![t] = p]
    BY <1>1, <1>2, <1>3, TabTypes DEF Schedule!Refetch
  <1>6. /\ jobsTab' \in [Tabs -> TabStates]
        /\ \A u \in Tabs : SaveOK(jobsTab'[u].save)
        /\ \A u \in Tabs : jobsTab'[u] = IF u = t THEN p ELSE jobsTab[u]
    BY <1>1, <1>4, <1>5, TabSet DEF ScheduleInv
  <1>7. /\ Schedule!Between' = Schedule!Between
        /\ \A u \in Schedule!Between : jobsTab'[u].save = jobsTab[u].save
    BY <1>1, <1>4, <1>6 DEF Schedule!Between
  <1>8. CleanOK'
    BY <1>7 DEF ScheduleInv, CleanOK, Schedule!Refetch
  <1> QED
    BY <1>6, <1>8
       DEF ScheduleInv, Schedule!ScheduleTypeOK, TabStates, Schedule!AutoApplyWasAgreed,
           Schedule!AutoApplies, Schedule!Refetch

\* The step of a save that is under way.
LEMMA StepSet ==
    ASSUME ScheduleInv, NEW t \in Tabs, NEW step \in {"written", "saved", "failed"},
           jobsTab[t].save.step \in {"sent", "written", "saved"}, Schedule!Step(t, step)
    PROVE  \E p \in TabStates :
              /\ SaveOK(p.save) /\ p.save.step = step /\ p.save.body = jobsTab[t].save.body
              /\ jobsTab' = [jobsTab EXCEPT ![t] = p]
  <1>1. PICK q \in TabStates : q = jobsTab[t]
    BY TabTypes
  <1>2. PICK save : save = [q.save EXCEPT !.step = step]
    OBVIOUS
  <1>3. /\ save \in Schedule!Saves /\ save.step = step /\ save.body = q.save.body
        /\ save.body # None
    BY <1>1, <1>2 DEF ScheduleInv, SaveOK, TabStates, Schedule!Saves
  <1>4. PICK p : p = [q EXCEPT !.save = save]
    OBVIOUS
  <1>5. p \in TabStates /\ p.save = save
    BY <1>1, <1>3, <1>4 DEF TabStates
  <1>6. jobsTab' = [jobsTab EXCEPT ![t] = p]
    BY <1>1, <1>2, <1>4, TabTypes DEF Schedule!Step, TabStates
  <1> QED
    BY <1>1, <1>3, <1>5, <1>6 DEF SaveOK

LEMMA WriteSettingStep ==
    ASSUME ScheduleInv, NEW t \in Tabs, Schedule!WriteSetting(t)
    PROVE  ScheduleInv'
  <1>1. PICK q \in TabStates : q = jobsTab[t]
    BY TabTypes
  <1>2. /\ q.save.step = "sent" /\ SaveOK(q.save) /\ q.save.body \in Schedule!Settings
        /\ q.save.agreed \in BOOLEAN
    BY <1>1 DEF Schedule!WriteSetting, ScheduleInv, SaveOK, TabStates, Schedule!Saves
  <1>3. PICK p \in TabStates :
           /\ SaveOK(p.save) /\ p.save.step = "written" /\ p.save.body = q.save.body
           /\ jobsTab' = [jobsTab EXCEPT ![t] = p]
    BY <1>1, <1>2, StepSet DEF Schedule!WriteSetting
  <1>4. /\ jobsTab' \in [Tabs -> TabStates]
        /\ \A u \in Tabs : SaveOK(jobsTab'[u].save)
        /\ \A u \in Tabs : jobsTab'[u] = IF u = t THEN p ELSE jobsTab[u]
    BY <1>3, TabSet
  <1>5. setting' = q.save.body /\ agreed' = q.save.agreed
    BY <1>1 DEF Schedule!WriteSetting, Schedule!WrittenRow
  <1>6. Schedule!Between' = Schedule!Between \cup {t}
    BY <1>3, <1>4 DEF Schedule!Between
  <1>7. clean' \in BOOLEAN /\ (clean' => Schedule!Between = {} /\ starting = "no")
    BY DEF Schedule!WriteSetting, Schedule!Undisturbed
  <1>8. CleanOK'
    <2> SUFFICES ASSUME clean' PROVE CleanOK'
      BY DEF CleanOK
    <2>1. Schedule!Between' = {t} /\ starting' = "no"
      BY <1>6, <1>7 DEF Schedule!WriteSetting
    <2> QED
      BY <1>3, <1>4, <1>5, <2>1 DEF CleanOK
  <1>9. Schedule!AutoApplyWasAgreed'
    BY <1>2, <1>5 DEF SaveOK, Schedule!AutoApplyWasAgreed, Schedule!AutoApplies
  <1> QED
    BY <1>2, <1>4, <1>5, <1>7, <1>8, <1>9
       DEF ScheduleInv, Schedule!ScheduleTypeOK, TabStates, Schedule!WriteSetting

LEMMA SyncScheduleStep ==
    ASSUME ScheduleInv, NEW t \in Tabs, Schedule!SyncSchedule(t)
    PROVE  ScheduleInv'
  <1>1. PICK q \in TabStates : q = jobsTab[t]
    BY TabTypes
  <1>2. /\ q.save.step = "written" /\ q.save.body \in Schedule!Settings
        /\ q.save.body.enabled \in BOOLEAN
    BY <1>1 DEF Schedule!SyncSchedule, ScheduleInv, SaveOK, TabStates, Schedule!Saves,
                Schedule!Settings
  <1>3. PICK p \in TabStates :
           /\ SaveOK(p.save) /\ p.save.step = "saved" /\ p.save.body = q.save.body
           /\ jobsTab' = [jobsTab EXCEPT ![t] = p]
    BY <1>1, <1>2, StepSet DEF Schedule!SyncSchedule
  <1>4. /\ jobsTab' \in [Tabs -> TabStates]
        /\ \A u \in Tabs : SaveOK(jobsTab'[u].save)
        /\ \A u \in Tabs : jobsTab'[u] = IF u = t THEN p ELSE jobsTab[u]
    BY <1>3, TabSet
  <1>5. t \in Schedule!Between /\ Schedule!Between' = Schedule!Between \ {t}
    BY <1>1, <1>2, <1>3, <1>4 DEF Schedule!Between
  <1>6. scheduled' = q.save.body.enabled
    BY <1>1 DEF Schedule!SyncSchedule, Schedule!Synced
  <1>7. CleanOK'
    <2> SUFFICES ASSUME clean PROVE CleanOK'
      BY DEF CleanOK, Schedule!SyncSchedule
    <2>1. setting = q.save.body /\ Schedule!Between = {t} /\ starting = "no"
      BY <1>1, <1>5 DEF ScheduleInv, CleanOK
    <2>2. Schedule!Between' = {}
      BY <1>5, <2>1
    <2>3. setting' = setting /\ starting' = starting
      BY DEF Schedule!SyncSchedule
    <2> QED
      BY <1>2, <1>6, <2>1, <2>2, <2>3 DEF CleanOK
  <1> QED
    BY <1>2, <1>4, <1>6, <1>7
       DEF ScheduleInv, Schedule!ScheduleTypeOK, TabStates, Schedule!AutoApplyWasAgreed,
           Schedule!AutoApplies, Schedule!SyncSchedule

LEMMA FailSaveStep ==
    ASSUME ScheduleInv, NEW t \in Tabs, Schedule!FailSave(t)
    PROVE  ScheduleInv'
  <1>1. PICK p \in TabStates :
           /\ SaveOK(p.save) /\ p.save.step = "failed"
           /\ jobsTab' = [jobsTab EXCEPT ![t] = p]
    BY StepSet DEF Schedule!FailSave
  <1>2. CASE jobsTab[t].save.step # "written"
    BY <1>1, <1>2, PageStep DEF Schedule!FailSave, ScheduleInv, Schedule!ScheduleTypeOK
  <1>3. CASE jobsTab[t].save.step = "written"
    <2>1. clean' = FALSE
      BY <1>3 DEF Schedule!FailSave
    <2>2. /\ jobsTab' \in [Tabs -> TabStates]
          /\ \A u \in Tabs : SaveOK(jobsTab'[u].save)
      BY <1>1, TabSet
    <2> QED
      BY <2>1, <2>2
         DEF ScheduleInv, Schedule!ScheduleTypeOK, TabStates, CleanOK,
             Schedule!AutoApplyWasAgreed, Schedule!AutoApplies, Schedule!FailSave
  <1> QED
    BY <1>2, <1>3

LEMMA WorkerStep ==
    ASSUME ScheduleInv,
           Schedule!StartWorker \/ Schedule!UpsertEnabled \/ Schedule!StartFails
    PROVE  ScheduleInv'
  <1>1. /\ UNCHANGED <<setting, jobsTab, agreed>> /\ Schedule!Between' = Schedule!Between
        /\ Schedule!AutoApplyWasAgreed'
    BY DEF Schedule!StartWorker, Schedule!UpsertEnabled, Schedule!StartFails,
           Schedule!Between, ScheduleInv, Schedule!AutoApplyWasAgreed,
           Schedule!AutoApplies
  <1>2. CASE Schedule!StartWorker
    <2>1. clean' \in BOOLEAN /\ (clean' => clean /\ Schedule!Between = {})
      BY <1>2 DEF Schedule!StartWorker
    <2>2. CleanOK'
      BY <1>1, <1>2, <2>1 DEF ScheduleInv, CleanOK, Schedule!StartWorker
    <2> QED
      BY <1>1, <1>2, <2>1, <2>2
         DEF ScheduleInv, Schedule!ScheduleTypeOK, Schedule!StartWorker
  <1>3. CASE Schedule!UpsertEnabled
    <2>1. CleanOK'
      BY <1>1, <1>3 DEF ScheduleInv, CleanOK, Schedule!UpsertEnabled
    <2> QED
      BY <1>1, <1>3, <2>1
         DEF ScheduleInv, Schedule!ScheduleTypeOK, Schedule!UpsertEnabled
  <1>4. CASE Schedule!StartFails
    <2>1. CleanOK'
      BY <1>1, <1>4 DEF ScheduleInv, CleanOK, Schedule!StartFails
    <2> QED
      BY <1>1, <1>4, <2>1
         DEF ScheduleInv, Schedule!ScheduleTypeOK, Schedule!StartFails
  <1> QED
    BY <1>2, <1>3, <1>4

LEMMA ScheduleStep ==
    ASSUME ScheduleInv, Schedule!ScheduleNext
    PROVE  ScheduleInv'
  <1>1. ASSUME NEW t \in Tabs, Schedule!SaveSettings(t) \/ Schedule!ChangeEnabled(t)
        PROVE  ScheduleInv'
    <2>1. Schedule!Shown(t) \in Schedule!Settings
      BY ShownType
    <2>2. [Schedule!Shown(t) EXCEPT !.enabled = ~ @] \in Schedule!Settings
      BY <2>1 DEF Schedule!Settings
    <2> QED
      BY <1>1, <2>1, <2>2, SaveStep DEF Schedule!SaveSettings, Schedule!ChangeEnabled
  <1> QED
    BY <1>1, ChooseModeStep, AnswerDialogStep, FinishSaveStep, RefetchStep,
       WriteSettingStep, SyncScheduleStep, FailSaveStep, WorkerStep
       DEF Schedule!ScheduleNext

LEMMA ScheduleStutter ==
    ASSUME ScheduleInv, UNCHANGED scheduleVars
    PROVE  ScheduleInv'
  BY DEF ScheduleInv, scheduleVars, Schedule!ScheduleTypeOK, Schedule!AutoApplyWasAgreed,
         CleanOK, Schedule!Between

LEMMA ScheduleHolds ==
    ASSUME ScheduleInv
    PROVE  Schedule!ScheduleFollowsSetting
  BY DEF ScheduleInv, CleanOK, Schedule!ScheduleFollowsSetting, Schedule!Undisturbed

LEMMA ScheduleInvariance == Spec => [](part = "schedule" => ScheduleInv)
  <1>1. Init => (part = "schedule" => ScheduleInv)
    BY ScheduleInit DEF Init
  <1>2. (part = "schedule" => ScheduleInv) /\ [Next]_vars => (part = "schedule" => ScheduleInv)'
    <2> SUFFICES ASSUME part = "schedule" => ScheduleInv, [Next]_vars, part' = "schedule"
                 PROVE  ScheduleInv'
      OBVIOUS
    <2>1. CASE part = "schedule" /\ Schedule!ScheduleNext
      BY <2>1, ScheduleStep
    <2>2. CASE part = "schedule" /\ UNCHANGED scheduleVars
      BY <2>2, ScheduleStutter
    <2> QED
      BY <2>1, <2>2 DEF Next, vars
  <1> QED
    BY <1>1, <1>2, PTL DEF Spec

-----------------------------------------------------------------------------
(* The properties of the run *)

\* Whatever changed between the reads a file was assembled from, its import offers
\* nothing that was archived, restores nothing dormant to retrieval, and leaves what
\* has lapsed lapsed (vault-export, vault-import).
THEOREM TransferStaysSound == Spec => []TransferSound
  <1>1. (part = "transfer" => TransferInv) => TransferSound
    BY DEF TransferSound, TransferInv
  <1> QED
    BY <1>1, TransferInvariance, PTL

\* However changes of a memory, its jobs and the worker's runs interleave, and
\* whatever is delivered twice, its provenance tells its status, once the latest
\* job has succeeded there is a vector of what it says now, and searching by
\* meaning finds no archived or deleted memory (memories.service,
\* embeddings.service).
THEOREM IndexStaysSound == Spec => []IndexSound
  <1>1. (part = "index" => IndexInv) => IndexSound
    BY IndexHolds DEF IndexSound
  <1> QED
    BY <1>1, IndexInvariance, PTL

\* However often and from wherever the callback of a login attempt is opened, the
\* attempt is exchanged at most once, and it signs in only the browser that began
\* it (google-login.service, finish).
THEOREM LoginsStaySound == Spec => []LoginsSound
  <1>1. (part = "login" => LoginInv) => LoginsSound
    BY LoginHolds DEF LoginsSound, LoginInv
  <1> QED
    BY <1>1, LoginInvariance, PTL

\* The MCP server calls the API with a token only for requests that brought it,
\* and whatever the limits and the lifetimes are, in no stretch of a window's
\* length a token passes twice its limit (http-server, isRateLimited).
THEOREM McpStaysSound == Spec => []McpSound
  <1>1. (part = "mcp" => McpInv) => McpSound
    BY McpHolds DEF McpSound
  <1> QED
    BY <1>1, McpInvariance, PTL

\* What may become a memory: an app's suggestion is filed under permissions that
\* cover it, a tool's receipt tells what the tool did, and of the candidates of a
\* provider only sound ones may be written, none after the owner has left it but
\* for one request on its way (memory-suggestions.service, the steward's tools and
\* the extraction's providers).
THEOREM IntakeStaysSound == Spec => []IntakeSound
  <1>1. (part = "suggest" => SuggestInv)
          => (part = "suggest" => Suggest!SuggestTypeOK /\ Suggest!FiledUnderItsPermissions)
    BY DEF SuggestInv, SuggestTypes
  <1>2. (part = "steward" => StewardInv)
          => (part = "steward" => Steward!StewardTypeOK /\ Steward!ReceiptsAreTrue)
    BY StewardHolds DEF StewardInv
  <1>3. (/\ part = "suggest" => SuggestInv
         /\ part = "steward" => StewardInv
         /\ part = "provider" => ProviderInv)
           => IntakeSound
    BY <1>1, <1>2, ProviderHolds DEF IntakeSound
  <1> QED
    BY <1>3, SuggestInvariance, StewardInvariance, ProviderInvariance, PTL

\* The pages: what a form sends goes to the app it was filled in for, a preview
\* under the owner's ticks is never exchanged for another one, and consolidation
\* applies by itself only what the owner agreed to, when its setting says so (the
\* settings, access and review pages).
THEOREM PagesStaySound == Spec => []PagesSound
  <1>1. (/\ part = "access" => AccessInv
         /\ part = "review" => ReviewInv
         /\ part = "editor" => EditorInv
         /\ part = "schedule" => ScheduleInv)
           => PagesSound
    BY AccessHolds, ReviewHolds, ScheduleHolds DEF PagesSound, EditorInv, ScheduleInv
  <1> QED
    BY <1>1, AccessInvariance, ReviewInvariance, EditorInvariance, ScheduleInvariance, PTL

\* What a step may not do, for the components that have such a property: an import
\* changes nothing that was there, first sign-ins of one identity agree and an
\* account is deleted by its own identity, an idle MCP session is not revived, a
\* removed app adds nothing, new permissions are not touched by an old form, what
\* is approved was shown, only what a dialog named is deleted, and a correction is
\* completed only when the vault agrees with it.
THEOREM StepsStaySound == Spec => StepsSound
  <1> DEFINE Invs ==
        /\ part = "transfer" => TransferInv
        /\ part = "login" => LoginInv
        /\ part = "mcp" => McpInv
        /\ part = "suggest" => SuggestInv
        /\ part = "access" => AccessInv
        /\ part = "review" => ReviewInv
        /\ part = "editor" => EditorInv
        /\ part = "steward" => StewardInv
  <1> DEFINE Allowed ==
        /\ part = "transfer" => Transfer!ImportsOnlyAdd
        /\ part = "login" => Login!FirstSignInsAgree /\ Login!DeletedByItsIdentity
        /\ part = "mcp" => Mcp!IdleSessionStaysDead
        /\ part = "suggest" => Suggest!RemovedAppAddsNothing
        /\ part = "access" => Access!RecreatedPolicyUntouched
        /\ part = "review" => Review!ApprovedAsShown
        /\ part = "editor" => Editor!OnlyConfirmedIsDeleted
        /\ part = "steward" => Steward!ReconciledWithTheVault
  <1>1. ASSUME Invs, Next
        PROVE  Allowed
    <2>1. CASE part = "transfer"
      <3>1. TransferInv /\ Transfer!Next
        BY <1>1, <2>1 DEF Next
      <3> QED
        BY <2>1, <3>1, TransferSteps
    <2>2. CASE part = "login"
      <3>1. LoginInv /\ Login!AccountsNext
        BY <1>1, <2>2 DEF Next
      <3> QED
        BY <2>2, <3>1, LoginSteps
    <2>3. CASE part = "mcp"
      <3>1. McpInv /\ Mcp!McpNext
        BY <1>1, <2>3 DEF Next
      <3> QED
        BY <2>3, <3>1, McpSteps
    <2>4. CASE part = "suggest"
      <3>1. SuggestInv /\ Suggest!SuggestNext
        BY <1>1, <2>4 DEF Next
      <3> QED
        BY <2>4, <3>1, SuggestSteps
    <2>5. CASE part = "access"
      <3>1. AccessInv /\ Access!AccessNext
        BY <1>1, <2>5 DEF Next
      <3> QED
        BY <2>5, <3>1, AccessSteps
    <2>6. CASE part = "review"
      <3>1. ReviewInv /\ Review!ReviewNext
        BY <1>1, <2>6 DEF Next
      <3> QED
        BY <2>6, <3>1, ReviewSteps
    <2>7. CASE part = "editor"
      <3>1. EditorInv /\ Editor!EditorNext
        BY <1>1, <2>7 DEF Next
      <3> QED
        BY <2>7, <3>1, EditorSteps
    <2>8. CASE part = "steward"
      <3>1. StewardInv /\ Steward!StewardNext
        BY <1>1, <2>8 DEF Next
      <3> QED
        BY <2>8, <3>1, StewardSteps
    <2>9. CASE part \notin {"transfer", "login", "mcp", "suggest", "access", "review",
                            "editor", "steward"}
      BY <2>9
    <2> QED
      BY <2>1, <2>2, <2>3, <2>4, <2>5, <2>6, <2>7, <2>8, <2>9
  <1>2. Invs /\ [Next]_vars => [Allowed]_vars
    BY <1>1
  <1>3. Spec => []Invs
    BY TransferInvariance, LoginInvariance, McpInvariance, SuggestInvariance,
       AccessInvariance, ReviewInvariance, EditorInvariance, StewardInvariance, PTL
  <1>4. Spec => [][Allowed]_vars
    <2> HIDE DEF Invs, Allowed
    <2> QED
      BY <1>2, <1>3, PTL DEF Spec
  <1> QED
    BY <1>4 DEF StepsSound
=============================================================================

--------------------------- MODULE AppSuggestions ----------------------------
(***************************************************************************)
(* Memories proposed by a connected app: in one transaction the app's       *)
(* permissions are evaluated for WRITE and, when that is not allowed        *)
(* outright, again for SUGGEST; the memory, the suggestion or the denial is *)
(* filed with the permissions it was decided under.  The transaction locks  *)
(* nothing until it files, so the owner may change, remove or set up the    *)
(* permissions, or block or delete the app, between its reads.  A committed *)
(* transaction is one step, at its insert.                                  *)
(***************************************************************************)
EXTENDS PolicyEvaluation, FiniteSets

CONSTANTS
    Submissions,    \* proposals the app makes
    Contents,       \* what may be proposed, as candidate memories
    Terms,          \* what the owner may write in the permissions
    MaxVersions,    \* how often the permissions are written
    None

VARIABLES
    trust,          \* the app: its trust level, or "ABSENT" once deleted
    permission,     \* its permission row: id, version and terms; id Null when absent
    versions,       \* how often the permissions were written
    submission,     \* the transaction of each proposal
    filed,          \* what it left in the vault
    toEmbed         \* memories whose embedding was asked for

suggestVars == <<trust, permission, versions, submission, filed, toEmbed>>

Start == [at |-> "unsent", content |-> None, decision |-> None, read |-> None]

SuggestInit ==
    /\ trust = "APPROVED"
    /\ \E t \in Terms : permission = [id |-> 1, version |-> 1, terms |-> t]
    /\ versions = 1
    /\ submission = [n \in Submissions |-> Start]
    /\ filed = [n \in Submissions |-> None]
    /\ toEmbed = {}

-----------------------------------------------------------------------------

\* evaluateForClient of one proposed memory.
Evaluated(operation, content) ==
    IF GateDenies(trust, permission.id, permission.terms, operation, 1) THEN "DENY"
    ELSE Decision(permission.terms,
                  {c \in {content} : Permitted(c, permission.terms, 1)})

\* The text holds no secret and its categories exist; the rest is refused
\* before anything is read.
CreateSuggestion(n, content) ==
    /\ submission[n].at = "unsent"
    /\ submission' = [submission EXCEPT ![n].at = "sent", ![n].content = content]
    /\ UNCHANGED <<trust, permission, versions, filed, toEmbed>>

Step(n, at, decision) ==
    /\ submission' = [submission EXCEPT ![n].at = at, ![n].decision = decision,
                                        ![n].read = permission]
    /\ UNCHANGED <<trust, permission, versions, filed, toEmbed>>

EvaluateWrite(n) ==
    /\ submission[n].at = "sent"
    /\ LET d == Evaluated("WRITE", submission[n].content)
       IN  Step(n, IF d = "ALLOW" THEN "write" ELSE "suggest", d)

EvaluateSuggest(n) ==
    /\ submission[n].at = "suggest"
    /\ Step(n, "decided", Evaluated("SUGGEST", submission[n].content))

\* The permissions recorded with a proposal are read when it is filed.
DecidedUnder_Now(n) == permission

DecidedUnder(n) == submission[n].read

\* A row that names an app and permissions can only be filed while they exist.
Referenced_Nothing(id) == TRUE

Referenced(id) ==
    /\ trust # "ABSENT"
    /\ id # Null => permission.id = id

File(n, kind) ==
    /\ Referenced(IF kind = "denied" THEN Null ELSE submission[n].read.id)
    /\ filed' = [filed EXCEPT ![n] = [kind |-> kind, content |-> submission[n].content,
                                      under |-> DecidedUnder(n)]]
    /\ submission' = [submission EXCEPT ![n].at = "done"]
    /\ UNCHANGED <<trust, permission, versions, toEmbed>>

CreateDirectMemoryFromSuggestion(n) ==
    submission[n].at = "write" /\ File(n, "memory")

CreateEvaluatedSuggestion(n) ==
    /\ submission[n].at = "decided"
    /\ File(n, IF submission[n].decision = "DENY" THEN "denied" ELSE "queued")

\* The app or its permissions are gone, or the database fails: nothing is left.
RollBack(n) ==
    /\ submission[n].at \in {"sent", "write", "suggest", "decided"}
    /\ submission' = [submission EXCEPT ![n].at = "failed"]
    /\ UNCHANGED <<trust, permission, versions, filed, toEmbed>>

\* After the commit; a queue that is down is ignored.
EnqueueEmbeddingGeneration(n) ==
    /\ submission[n].at = "done" /\ filed[n].kind = "memory" /\ n \notin toEmbed
    /\ toEmbed' = toEmbed \cup {n}
    /\ UNCHANGED <<trust, permission, versions, submission, filed>>

-----------------------------------------------------------------------------
(* The owner. *)

SavePermissions(t) ==
    /\ trust # "ABSENT" /\ versions < MaxVersions
    /\ versions' = versions + 1
    /\ permission' = [id |-> IF permission.id = Null THEN versions' ELSE permission.id,
                      version |-> versions', terms |-> t]
    /\ UNCHANGED <<trust, submission, filed, toEmbed>>

RemovePermissions ==
    /\ permission.id # Null
    /\ permission' = [permission EXCEPT !.id = Null]
    /\ UNCHANGED <<trust, versions, submission, filed, toEmbed>>

SetTrust(level) ==
    /\ trust \notin {level, "ABSENT"}
    /\ trust' = level
    /\ permission' = IF level = "ABSENT" THEN [permission EXCEPT !.id = Null] ELSE permission
    /\ UNCHANGED <<versions, submission, filed, toEmbed>>

SuggestNext ==
    \/ \E n \in Submissions :
        \/ \E c \in Contents : CreateSuggestion(n, c)
        \/ EvaluateWrite(n) \/ EvaluateSuggest(n)
        \/ CreateDirectMemoryFromSuggestion(n) \/ CreateEvaluatedSuggestion(n)
        \/ RollBack(n) \/ EnqueueEmbeddingGeneration(n)
    \/ \E t \in Terms : SavePermissions(t)
    \/ RemovePermissions
    \/ \E level \in {"APPROVED", "BLOCKED", "ABSENT"} : SetTrust(level)

SuggestSpec == SuggestInit /\ [][SuggestNext]_suggestVars

-----------------------------------------------------------------------------

SuggestTypeOK ==
    /\ trust \in {"APPROVED", "BLOCKED", "ABSENT"}
    /\ permission.terms \in Terms /\ permission.id \in 0 .. MaxVersions
    /\ versions \in 1 .. MaxVersions
    /\ \A n \in Submissions : submission[n].at \in
          {"unsent", "sent", "write", "suggest", "decided", "done", "failed"}
    /\ toEmbed \subseteq Submissions

Covers(p, operation, content) ==
    /\ operation \in p.terms.operations
    /\ Permitted(content, p.terms, 1)

\* A memory an app wrote without the owner's review names permissions that
\* really let it write that memory unasked, and a queued suggestion ones that
\* let it suggest: the version on record is the one the decision was taken
\* under, however the owner edits the permissions while it is taken.
FiledUnderItsPermissions ==
    \A n \in Submissions : filed[n] # None =>
        /\ filed[n].kind = "memory" =>
              Covers(filed[n].under, "WRITE", filed[n].content)
                /\ ~ filed[n].under.terms.requiresConfirmation
        /\ filed[n].kind = "queued" =>
              Covers(filed[n].under, "SUGGEST", filed[n].content)

\* Once an app or its permissions are removed it adds nothing more, not even
\* from a request that was allowed before; setting permissions up anew does
\* not let that request through.
RemovedAppAddsNothing ==
    \A n \in Submissions :
      filed'[n] # filed[n] /\ filed'[n].kind \in {"memory", "queued"} =>
         trust # "ABSENT" /\ permission.id = submission[n].read.id
=============================================================================

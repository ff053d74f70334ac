-------------------------- MODULE PolicyEvaluation --------------------------
(***************************************************************************)
(* The authority gate every client operation passes through               *)
(* (policies/policy-evaluation.service.ts): whether a client may perform an *)
(* operation at all, and which candidate memories its policy covers.  Both  *)
(* are pure functions of the rows they are given and of the clock.          *)
(*                                                                         *)
(* A sensitivity is its rank in sensitivityRank, a time is a natural number *)
(* greater than 0, and the value 0 stands for the null of an optional time  *)
(* or id.  The reasons reported with a denial are left out: the first one   *)
(* that applies is reported, and any of them denies.                        *)
(***************************************************************************)
EXTENDS Integers

CONSTANT Categories         \* keys of the memory categories

Null == 0

MemoryStatuses == {"SUGGESTED", "ACTIVE", "ARCHIVED", "EXPIRED", "DELETED"}
ReviewStates == {"PENDING", "APPROVED", "REJECTED"}
TrustLevels == {"UNKNOWN", "APPROVED", "BLOCKED"}
Operations == {"READ", "SUGGEST", "WRITE", "SUMMARIZE", "EXPORT"}
SensitivityRanks == 0 .. 5

\* The columns of a memory that the evaluation looks at.
MemoryContents ==
    [status: MemoryStatuses, reviewState: ReviewStates, expiresAt: Nat,
     sensitivity: SensitivityRanks, categories: SUBSET Categories]

\* What the owner writes in a client's policy.
PolicyTerms ==
    [operations: SUBSET Operations, maxSensitivity: SensitivityRanks,
     allowed: SUBSET Categories, denied: SUBSET Categories,
     requiresConfirmation: BOOLEAN, expiresAt: Nat]

Passed(expiresAt, now) == expiresAt # Null /\ expiresAt <= now

\* evaluateForClient, up to its early return: an absent or blocked client, no
\* policy, an expired one or one without the operation is denied.
GateDenies(trust, policyId, terms, operation, now) ==
    \/ trust \in {"ABSENT", "BLOCKED"}
    \/ policyId = Null
    \/ Passed(terms.expiresAt, now)
    \/ operation \notin terms.operations

\* denialReason returns null: the policy covers this memory.  An empty allow
\* list covers every category; the deny list wins over it.
Permitted(content, terms, now) ==
    /\ content.status = "ACTIVE"
    /\ content.reviewState = "APPROVED"
    /\ ~ Passed(content.expiresAt, now)
    /\ content.sensitivity <= terms.maxSensitivity
    /\ content.categories \cap terms.denied = {}
    /\ terms.allowed = {} \/ content.categories \cap terms.allowed # {}

\* The decision of evaluateCandidateMemories for the candidates it permits.
Decision(terms, permitted) ==
    IF permitted = {} THEN "DENY"
    ELSE IF terms.requiresConfirmation THEN "NEEDS_CONFIRMATION" ELSE "ALLOW"
=============================================================================

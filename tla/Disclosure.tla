----------------------------- MODULE Disclosure -----------------------------
(***************************************************************************)
(* Memory requests and the one-time disclosure approval of one owner's      *)
(* vault (memory-requests/), with the edits of memories, policies and       *)
(* clients that race with them.                                             *)
(*                                                                         *)
(* The API serves any number of calls at once, and PostgreSQL runs them at  *)
(* READ COMMITTED: every statement sees the rows as they are when it runs.  *)
(* A call is therefore a sequence of steps, one per group of reads, and its *)
(* writes take place with its last read.  A transaction that has taken the  *)
(* FOR UPDATE lock of a request row ("locked") excludes every other step    *)
(* that locks or rewrites that row.  A deletion of a client that has to wait *)
(* for such a row ("deleting") meanwhile holds the client's.                 *)
(*                                                                         *)
(* updatedAt is the version of a memory and of a policy.  A save takes the   *)
(* next instant of the clock as its updatedAt, so two saves never share a    *)
(* millisecond.                                                             *)
(***************************************************************************)
EXTENDS PolicyEvaluation, Sequences, FiniteSets

CONSTANTS
    Memories,           \* ids of the owner's memories
    Clients,            \* ids of the registered clients
    Requests,           \* ids of memory requests
    Calls,              \* concurrent API calls
    Profiles,           \* values of a client's name, retention and token hash
    ClientInputs,       \* the rows an owner saves for a client
    MemoryInputs,       \* the contents an owner saves in a memory
    PolicyInputs,       \* the terms an owner saves in a policy
    Tokens,             \* estimated tokens of each memory's text
    Budget,             \* token budget of a request
    ApprovalTtl,        \* disclosureApprovalTtlMs
    MaxTime             \* bound on the clock, hence on the number of saves

ASSUME DisclosureAssumption ==
    /\ IsFiniteSet(Memories)
    /\ Clients # {} /\ Requests # {} /\ Profiles # {}
    /\ ClientInputs \subseteq [trust: TrustLevels, profile: Profiles]
    /\ MemoryInputs \subseteq MemoryContents
    /\ PolicyInputs \subseteq PolicyTerms
    /\ Tokens \in [Memories -> Nat \ {0}]
    /\ Budget \in Nat \ {0}
    /\ ApprovalTtl \in Nat \ {0}
    /\ MaxTime \in Nat

VARIABLES
    now,        \* the clock
    memory,     \* memory rows: content and version
    client,     \* client rows
    policy,     \* the policy row of each client, at most one (clientId is unique)
    request,    \* memory request rows
    call,       \* calls in progress
    deleting,   \* clients whose deletion holds their row and waits for a request's
    shown,      \* the preview of each request the owner saw last
    audit       \* the audit events of each request, oldest first

vars == <<now, memory, client, policy, request, call, deleting, shown, audit>>

-----------------------------------------------------------------------------
(* Rows *)

NoTerms ==
    [operations |-> {}, maxSensitivity |-> 0, allowed |-> {}, denied |-> {},
     requiresConfirmation |-> FALSE, expiresAt |-> Null]
NoPolicy == [id |-> Null, version |-> Null, terms |-> NoTerms]
ClientRows == [trust: TrustLevels \cup {"ABSENT"}, profile: Profiles]

\* reviewSnapshot: the memories offered or granted, the version of every
\* eligible memory, and the versions of the authority.  An item's text is the
\* text of its memory at that version.
Snapshots ==
    [items: SUBSET Memories, versions: [Memories -> Nat],
     policyId: Nat, policyVersion: Nat, clientVersion: ClientRows]

\* {}, which snapshotSchema does not accept.
EmptySnapshot ==
    [items |-> {}, versions |-> [m \in Memories |-> Null],
     policyId |-> Null, policyVersion |-> Null,
     clientVersion |-> CHOOSE row \in ClientRows : TRUE]

RequestStatuses ==
    {"ABSENT", "DELETED", "NEEDS_USER_APPROVAL", "APPROVED", "DENIED", "FULFILLED"}

RequestRows ==
    [status: RequestStatuses, client: Clients, policyId: Nat,
     policyVersion: Nat, approvalExpiresAt: Nat, reviewSnapshot: Snapshots]

NoRequest ==
    [status |-> "ABSENT", client |-> CHOOSE c \in Clients : TRUE,
     policyId |-> Null, policyVersion |-> Null, approvalExpiresAt |-> Null,
     reviewSnapshot |-> EmptySnapshot]

\* What evaluateForClient returns, with the instant it read.
Authorities ==
    [denied: BOOLEAN, policyId: Nat, policyVersion: Nat, terms: PolicyTerms,
     clientVersion: ClientRows, at: Nat]

NoAuthority ==
    [denied |-> TRUE, policyId |-> Null, policyVersion |-> Null,
     terms |-> NoTerms, clientVersion |-> CHOOSE row \in ClientRows : TRUE,
     at |-> Null]

MemoryRows == [content: MemoryContents, version: Nat]

NoContent ==
    [status |-> "DELETED", reviewState |-> "REJECTED", expiresAt |-> Null,
     sensitivity |-> 0, categories |-> {}]

CallRecords ==
    [kind: {"none", "bundle", "preview", "approve", "result"},
     phase: {"idle", "gated", "retrieved", "read", "locked"},
     client: Clients, request: Requests, candidates: Seq(Memories),
     authority: Authorities, live: [Memories -> MemoryRows],
     revision: Snapshots, selected: SUBSET Memories]

AuditEvents ==
    [type: {"DISCLOSURE", "ONE_TIME_DISCLOSURE", "APPROVED", "DENIED", "INVALIDATED"},
     client: Clients, snapshot: Snapshots]

TypeOK ==
    /\ now \in Nat
    /\ memory \in [Memories -> MemoryRows]
    /\ client \in [Clients -> ClientRows]
    /\ policy \in [Clients -> [id: Nat, version: Nat, terms: PolicyTerms]]
    /\ request \in [Requests -> RequestRows]
    /\ call \in [Calls -> CallRecords]
    /\ deleting \subseteq Clients
    /\ shown \in [Requests -> Snapshots]
    /\ audit \in [Requests -> Seq(AuditEvents)]

-----------------------------------------------------------------------------
(* Reads *)

\* evaluateForClient(READ), without candidates, at this instant.
Authority(c) ==
    [denied |-> GateDenies(client[c].trust, policy[c].id, policy[c].terms,
                           "READ", now),
     policyId |-> policy[c].id, policyVersion |-> policy[c].version,
     terms |-> policy[c].terms, clientVersion |-> client[c], at |-> now]

\* The filter of both retrieval queries.
Retrievable ==
    {m \in Memories : /\ memory[m].content.status = "ACTIVE"
                      /\ memory[m].content.reviewState = "APPROVED"
                      /\ ~ Passed(memory[m].content.expiresAt, now)}

\* Every ranked list of distinct members of S.
Rankings(S) ==
    UNION {{f \in [1 .. n -> S] : \A i, j \in 1 .. n : f[i] = f[j] => i = j}
              : n \in 0 .. Cardinality(S)}

Listed(candidates) == {candidates[i] : i \in DOMAIN candidates}

\* BundleCompilerService.compile over the eligible candidates in their order:
\* tokens[i] is estimatedTokens after candidate i.  The first item is always
\* taken, clipped to the budget if it is longer; a later one if it still fits.
Bundle(candidates, eligible) ==
    LET fits(i, used) == /\ candidates[i] \in eligible
                         /\ used = 0 \/ used + Tokens[candidates[i]] <= Budget
        clipped(m) == IF Tokens[m] > Budget THEN Budget ELSE Tokens[m]
        tokens[i \in 0 .. Len(candidates)] ==
            IF i = 0 THEN 0
            ELSE IF fits(i, tokens[i - 1])
                 THEN tokens[i - 1] + clipped(candidates[i])
                 ELSE tokens[i - 1]
    IN  {candidates[i] : i \in {j \in DOMAIN candidates : fits(j, tokens[j - 1])}}

Locked(r) == \E k \in Calls : call[k].phase = "locked" /\ call[k].request = r

\* An insert that refers to the client, or a write of its row, does not wait for
\* a deletion that holds it.
ClientFree(c) == c \notin deleting

\* disclosureContext: is the request still bound to the client's policy, and
\* which of the ids does that policy cover now?
Bound(row, authority) ==
    row.policyId # Null /\ row.policyId = authority.policyId

Allowed(row, authority, ids) ==
    {m \in ids : /\ Bound(row, authority)
                 /\ ~ authority.denied
                 /\ Permitted(memory[m].content, authority.terms, now)}

\* Mutant: the versions of the granted memories are not compared.
SnapshotIsCurrent_AnyVersion(row, authority) ==
    LET s == row.reviewSnapshot
    IN  /\ row.approvalExpiresAt # Null
        /\ now < row.approvalExpiresAt
        /\ Bound(row, authority)
        /\ authority.policyVersion = s.policyVersion
        /\ authority.clientVersion = s.clientVersion
        /\ s.items \subseteq Allowed(row, authority, s.items)

\* snapshotIsCurrent
SnapshotIsCurrent(row, authority) ==
    LET s == row.reviewSnapshot
    IN  /\ row.approvalExpiresAt # Null
        /\ now < row.approvalExpiresAt
        /\ Bound(row, authority)
        /\ row.policyId = s.policyId
        /\ row.policyVersion = s.policyVersion
        /\ authority.policyId = s.policyId
        /\ authority.policyVersion = s.policyVersion
        /\ authority.clientVersion = s.clientVersion
        /\ s.items \subseteq Allowed(row, authority, s.items)
        /\ \A m \in s.items : memory[m].version = s.versions[m]

\* The snapshot previewDisclosure builds.  An approved row shows its grant.
PreviewSnapshot(row, authority, candidates) ==
    LET eligible == Allowed(row, authority, Listed(candidates))
        fresh == [items |-> Bundle(candidates, eligible),
                  versions |-> [m \in Memories |->
                      IF m \in eligible THEN memory[m].version ELSE Null],
                  policyId |-> authority.policyId,
                  policyVersion |-> authority.policyVersion,
                  clientVersion |-> authority.clientVersion]
        granted == row.reviewSnapshot
    IN  IF row.status = "APPROVED"
        THEN [fresh EXCEPT
                !.items = IF SnapshotIsCurrent(row, authority)
                          THEN granted.items ELSE {},
                !.versions = granted.versions]
        ELSE fresh

-----------------------------------------------------------------------------
(* Writes to a request row and its audit trail *)

\* Mutants: the row falls back to the column's default status; it keeps the
\* permissions version it had.
FreshReview_Pending(row, policyVersion) ==
    [row EXCEPT !.status = "PENDING", !.policyVersion = policyVersion,
                !.approvalExpiresAt = Null, !.reviewSnapshot = EmptySnapshot]

FreshReview_KeepsVersion(row, policyVersion) ==
    [row EXCEPT !.status = "NEEDS_USER_APPROVAL",
                !.approvalExpiresAt = Null,
                !.reviewSnapshot = EmptySnapshot]

\* requireFreshReview
FreshReview(row, policyVersion) ==
    [row EXCEPT !.status = "NEEDS_USER_APPROVAL",
                !.policyVersion = policyVersion,
                !.approvalExpiresAt = Null,
                !.reviewSnapshot = EmptySnapshot]

\* Mutant: the request is bound to whatever policy the client has now.
Invalidated_Rebinds(row, authority) ==
    [FreshReview(row, authority.policyVersion)
        EXCEPT !.policyId = authority.policyId]

\* invalidate: the version is renewed only while the policy is still bound.
Invalidated(row, authority) ==
    FreshReview(row, IF Bound(row, authority) THEN authority.policyVersion
                                              ELSE row.policyVersion)

Event(type, c, snapshot) ==
    [type |-> type, client |-> c, snapshot |-> snapshot]

Record(r, event) == audit' = [audit EXCEPT ![r] = Append(@, event)]

IdleCall ==
    [kind |-> "none", phase |-> "idle", client |-> CHOOSE c \in Clients : TRUE,
     request |-> CHOOSE r \in Requests : TRUE, candidates |-> <<>>,
     authority |-> NoAuthority,
     live |-> [m \in Memories |-> [content |-> NoContent, version |-> Null]],
     revision |-> EmptySnapshot, selected |-> {}]

Finish(k) == call' = [call EXCEPT ![k] = IdleCall]

-----------------------------------------------------------------------------
(* createBundleRequest: a client asks for a bundle *)

\* The gate, before the transaction.  A denied request retrieves nothing and
\* keeps the gate's answer.  The id of the row to come is reserved here.
StartBundle(k, c, r) ==
    /\ call[k].phase = "idle"
    /\ client[c].trust # "ABSENT"
    /\ request[r].status = "ABSENT"
    /\ \A j \in Calls : call[j].kind = "bundle" => call[j].request # r
    /\ call' = [call EXCEPT ![k] =
          [IdleCall EXCEPT !.kind = "bundle", !.client = c, !.request = r,
             !.phase = IF Authority(c).denied THEN "read" ELSE "gated",
             !.authority = IF Authority(c).denied THEN Authority(c)
                           ELSE [NoAuthority EXCEPT !.denied = FALSE]]]
    /\ UNCHANGED <<now, memory, client, policy, request, deleting, shown, audit>>

\* retrieve, still outside the transaction: the keyword and vector searches
\* rank some of the live memories.  Also the second half of candidates().
Retrieve(k) ==
    /\ call[k].phase = "gated"
    /\ \E found \in Rankings(Retrievable) :
          call' = [call EXCEPT ![k] =
                      [@ EXCEPT !.candidates = found, !.phase = "retrieved"]]
    /\ UNCHANGED <<now, memory, client, policy, request, deleting, shown, audit>>

\* The transaction's first statement: the candidates' rows.
ReadCandidates(k) ==
    /\ call[k].kind = "bundle" /\ call[k].phase = "retrieved"
    /\ call' = [call EXCEPT ![k] =
          [@ EXCEPT !.phase = "read",
             !.live = [m \in Memories |-> IF m \in Listed(call[k].candidates)
                                          THEN memory[m] ELSE call[k].live[m]]]]
    /\ UNCHANGED <<now, memory, client, policy, request, deleting, shown, audit>>

\* The authority a bundle is decided under: a denied gate is not asked again.
DecidingAuthority(k) ==
    IF call[k].authority.denied THEN call[k].authority
    ELSE Authority(call[k].client)

\* Mutant: the policy of a denied gate may be gone by now.
ReferencesHold_ClientOnly(k) == client[call[k].client].trust # "ABSENT"

\* clientId and policyId of the new row must still exist.
ReferencesHold(k) ==
    /\ client[call[k].client].trust # "ABSENT"
    /\ DecidingAuthority(k).policyId \in {Null, policy[call[k].client].id}

\* The rest of the transaction: evaluate the policy over the rows just read,
\* create the request and, when it is allowed outright, the bundle's items and
\* the disclosure's audit event.
CommitBundle(k) ==
    /\ call[k].kind = "bundle" /\ call[k].phase = "read"
    /\ ReferencesHold(k) /\ ClientFree(call[k].client)
    /\ LET r == call[k].request
           c == call[k].client
           a == DecidingAuthority(k)
           permitted == {m \in Listed(call[k].candidates) :
                           /\ ~ a.denied
                           /\ Permitted(call[k].live[m].content, a.terms, now)}
           status == CASE Decision(a.terms, permitted) = "ALLOW" -> "FULFILLED"
                       [] Decision(a.terms, permitted) = "NEEDS_CONFIRMATION"
                            -> "NEEDS_USER_APPROVAL"
                       [] OTHER -> "DENIED"
           disclosed == [items |-> Bundle(call[k].candidates, permitted),
                         versions |-> [m \in Memories |->
                            IF m \in permitted THEN call[k].live[m].version
                                               ELSE Null],
                         policyId |-> a.policyId,
                         policyVersion |-> a.policyVersion,
                         clientVersion |-> a.clientVersion]
       IN  /\ request' = [request EXCEPT ![r] =
                 [NoRequest EXCEPT !.status = status, !.client = c,
                    !.policyId = a.policyId,
                    !.policyVersion = a.policyVersion]]
           /\ CASE status = "FULFILLED" ->
                      Record(r, Event("DISCLOSURE", c, disclosed))
                [] status = "DENIED" ->
                      Record(r, Event("DENIED", c, EmptySnapshot))
                [] OTHER -> UNCHANGED audit
    /\ Finish(k)
    /\ UNCHANGED <<now, memory, client, policy, deleting, shown>>

\* A foreign key fails and the transaction rolls back.
AbortBundle(k) ==
    /\ call[k].kind = "bundle" /\ call[k].phase = "read"
    /\ ~ ReferencesHold(k)
    /\ Finish(k)
    /\ UNCHANGED <<now, memory, client, policy, request, deleting, shown, audit>>

-----------------------------------------------------------------------------
(* preview and decide: the owner reviews a request *)

\* candidates(): the row and the gate are read before the transaction; only a
\* request awaiting review, with a policy that is not denied, retrieves.
BeginReview(k, r, kind, revision, selected) ==
    /\ call[k].phase = "idle"
    /\ request[r].status \notin {"ABSENT", "DELETED"}
    /\ call' = [call EXCEPT ![k] =
          [IdleCall EXCEPT !.kind = kind, !.request = r,
             !.client = request[r].client,
             !.revision = revision, !.selected = selected,
             !.phase = IF /\ request[r].status = "NEEDS_USER_APPROVAL"
                          /\ request[r].policyId # Null
                          /\ ~ Authority(request[r].client).denied
                       THEN "gated" ELSE "retrieved"]]
    /\ UNCHANGED <<now, memory, client, policy, request, deleting, shown, audit>>

StartPreview(k, r) == BeginReview(k, r, "preview", EmptySnapshot, {})

\* The owner approves a non-empty selection at a revision it was shown.
StartApprove(k, r) ==
    \E selected \in (SUBSET shown[r].items) \ {{}} :
        BeginReview(k, r, "approve", shown[r], selected)

\* get_memory_request by an authenticated client, not always the requester.
StartResult(k, c, r) ==
    /\ call[k].phase = "idle"
    /\ client[c].trust # "ABSENT"
    /\ request[r].status \notin {"ABSENT", "DELETED"}
    /\ call' = [call EXCEPT ![k] =
          [IdleCall EXCEPT !.kind = "result", !.phase = "retrieved",
                           !.client = c, !.request = r]]
    /\ UNCHANGED <<now, memory, client, policy, request, deleting, shown, audit>>

\* lockDisclosureRequest is about to answer: the row is free for call k.
AtLock(k) ==
    /\ call[k].kind \in {"preview", "approve", "result"}
    /\ call[k].phase = "retrieved"
    /\ ~ Locked(call[k].request)

\* Mutant: any client may collect the result.
RowFound_AnyClient(k) == request[call[k].request].status # "DELETED"

\* lockDisclosureRequest finds the row: it exists, and result also asks for
\* the requesting client's id.
RowFound(k) ==
    /\ request[call[k].request].status # "DELETED"
    /\ call[k].kind = "result" => request[call[k].request].client = call[k].client

\* Mutants: a request is reviewed again; a collected result is answered again.
StatusFits_ReviewAgain(k) ==
    call[k].kind = "result" => request[call[k].request].status = "APPROVED"

StatusFits_CollectAgain(k) ==
    LET status == request[call[k].request].status
    IN  CASE call[k].kind = "approve" -> status = "NEEDS_USER_APPROVAL"
          [] call[k].kind = "result" -> status \in {"APPROVED", "FULFILLED"}
          [] OTHER -> TRUE

\* The row's status lets the call go on.
StatusFits(k) ==
    LET status == request[call[k].request].status
    IN  CASE call[k].kind = "approve" -> status = "NEEDS_USER_APPROVAL"
          [] call[k].kind = "result" -> status = "APPROVED"
          [] OTHER -> TRUE

ApprovalLapsed(k) ==
    /\ call[k].kind = "result"
    /\ Passed(request[call[k].request].approvalExpiresAt, now)

\* Lock the row and read the client and its policy.
Lock(k) ==
    /\ AtLock(k) /\ RowFound(k) /\ StatusFits(k) /\ ~ ApprovalLapsed(k)
    /\ call' = [call EXCEPT ![k] =
          [@ EXCEPT !.phase = "locked",
                    !.authority = Authority(request[call[k].request].client)]]
    /\ UNCHANGED <<now, memory, client, policy, request, deleting, shown, audit>>

\* Mutant: a call that finds the row in another status is never answered.
Refuse_OnlyMissing(k) ==
    /\ AtLock(k)
    /\ ~ RowFound(k)
    /\ Finish(k)
    /\ UNCHANGED <<now, memory, client, policy, request, deleting, shown, audit>>

\* Not found, already reviewed, or nothing to hand out.
Refuse(k) ==
    /\ AtLock(k)
    /\ ~ RowFound(k) \/ ~ StatusFits(k)
    /\ Finish(k)
    /\ UNCHANGED <<now, memory, client, policy, request, deleting, shown, audit>>

\* The approval is older than its lifetime: back to review, not audited.
Lapse(k) ==
    /\ AtLock(k) /\ RowFound(k) /\ StatusFits(k) /\ ApprovalLapsed(k)
    /\ request' = [request EXCEPT ![call[k].request] =
                      FreshReview(@, @.policyVersion)]
    /\ Finish(k)
    /\ UNCHANGED <<now, memory, client, policy, deleting, shown, audit>>

\* previewDisclosure invalidates a request bound to other permissions.
PermissionsChanged(row, authority) ==
    /\ row.status = "NEEDS_USER_APPROVAL"
    /\ row.policyId # Null
    /\ \/ ~ Bound(row, authority)
       \/ row.policyVersion # authority.policyVersion

\* Mutant: the revision the owner saw is not compared.
Approvable_AnyRevision(k) ==
    LET row == request[call[k].request]
        s == PreviewSnapshot(row, call[k].authority, call[k].candidates)
    IN  /\ Bound(row, call[k].authority)
        /\ s.items # {}
        /\ call[k].selected \subseteq s.items

\* canApprove, the same revision, and a selection out of this preview.
Approvable(k) ==
    LET row == request[call[k].request]
        s == PreviewSnapshot(row, call[k].authority, call[k].candidates)
    IN  /\ Bound(row, call[k].authority)
        /\ s.items # {}
        /\ s = call[k].revision
        /\ call[k].selected \subseteq s.items

\* Does the transaction that has locked the row insert an audit event, which
\* refers to the client?  An invalidation is recorded even if it is rolled back.
WritesEvent(k) ==
    LET row == request[call[k].request] IN
        \/ call[k].kind = "result"
        \/ call[k].kind = "approve" /\ Approvable(k)
        \/ PermissionsChanged(row, call[k].authority)

\* The requesting client of the row a call has locked.
ClientOf(k) == request[call[k].request].client

Preview(k) ==
    /\ call[k].kind = "preview" /\ call[k].phase = "locked"
    /\ ClientFree(ClientOf(k)) \/ ~ WritesEvent(k)
    /\ LET r == call[k].request
           a == call[k].authority
           s == PreviewSnapshot(request[r], a, call[k].candidates)
       IN  /\ shown' = [shown EXCEPT ![r] = s]
           /\ IF PermissionsChanged(request[r], a)
              THEN /\ request' = [request EXCEPT ![r] = Invalidated(@, a)]
                   /\ Record(r, Event("INVALIDATED", request[r].client, EmptySnapshot))
              ELSE UNCHANGED <<request, audit>>
    /\ Finish(k)
    /\ UNCHANGED <<now, memory, client, policy, deleting>>

\* The selected part of a snapshot.
Selection(s, selected) ==
    [s EXCEPT !.items = selected,
              !.versions = [m \in Memories |->
                  IF m \in selected THEN s.versions[m] ELSE Null]]

Approve(k) ==
    /\ call[k].kind = "approve" /\ call[k].phase = "locked"
    /\ Approvable(k) /\ ClientFree(ClientOf(k))
    /\ LET r == call[k].request
           a == call[k].authority
           s == PreviewSnapshot(request[r], a, call[k].candidates)
           granted == Selection(s, call[k].selected)
           changed == PermissionsChanged(request[r], a)
           row == IF changed THEN Invalidated(request[r], a) ELSE request[r]
           approval == Event("APPROVED", row.client, granted)
           invalidation == Event("INVALIDATED", row.client, EmptySnapshot)
       IN  /\ request' = [request EXCEPT ![r] =
                 [row EXCEPT !.status = "APPROVED",
                             !.approvalExpiresAt = now + ApprovalTtl,
                             !.reviewSnapshot = granted]]
           /\ audit' = [audit EXCEPT ![r] =
                 Append(IF changed THEN Append(@, invalidation) ELSE @, approval)]
    /\ Finish(k)
    /\ UNCHANGED <<now, memory, client, policy, deleting, shown>>

\* The preview changed: the transaction rolls back, an invalidation with it.
RefuseApproval(k) ==
    /\ call[k].kind = "approve" /\ call[k].phase = "locked"
    /\ ~ Approvable(k)
    /\ ClientFree(ClientOf(k)) \/ ~ WritesEvent(k)
    /\ Finish(k)
    /\ UNCHANGED <<now, memory, client, policy, request, deleting, shown, audit>>

\* decide(deny): one locked read and write.
Deny(r) ==
    /\ request[r].status = "NEEDS_USER_APPROVAL" /\ ~ Locked(r)
    /\ ClientFree(request[r].client)
    /\ request' = [request EXCEPT ![r] =
          [@ EXCEPT !.status = "DENIED", !.reviewSnapshot = EmptySnapshot]]
    /\ Record(r, Event("DENIED", request[r].client, EmptySnapshot))
    /\ UNCHANGED <<now, memory, client, policy, call, deleting, shown>>

-----------------------------------------------------------------------------
(* result: the client collects an approved bundle *)

Deliver(k) ==
    /\ call[k].kind = "result" /\ call[k].phase = "locked"
    /\ ClientFree(ClientOf(k))
    /\ LET r == call[k].request
       IN  /\ SnapshotIsCurrent(request[r], call[k].authority)
           /\ Record(r, Event("ONE_TIME_DISCLOSURE", call[k].client,
                              request[r].reviewSnapshot))
           /\ request' = [request EXCEPT ![r] =
                 [@ EXCEPT !.status = "FULFILLED",
                           !.reviewSnapshot = EmptySnapshot]]
    /\ Finish(k)
    /\ UNCHANGED <<now, memory, client, policy, deleting, shown>>

Withdraw(k) ==
    /\ call[k].kind = "result" /\ call[k].phase = "locked"
    /\ ClientFree(ClientOf(k))
    /\ LET r == call[k].request
       IN  /\ ~ SnapshotIsCurrent(request[r], call[k].authority)
           /\ request' = [request EXCEPT ![r] =
                             Invalidated(@, call[k].authority)]
           /\ Record(r, Event("INVALIDATED", request[r].client, EmptySnapshot))
    /\ Finish(k)
    /\ UNCHANGED <<now, memory, client, policy, deleting, shown>>

-----------------------------------------------------------------------------
(* The owner's edits, and time *)

Save == now < MaxTime /\ now' = now + 1

\* createMemory, updateMemory and the soft deletion of deleteMemory.
EditMemory(m, content) ==
    /\ Save
    /\ memory' = [memory EXCEPT ![m] = [content |-> content, version |-> now']]
    /\ UNCHANGED <<client, policy, request, call, deleting, shown, audit>>

CreatePolicy(c, terms) ==
    /\ client[c].trust # "ABSENT" /\ policy[c].id = Null /\ ClientFree(c)
    /\ Save
    /\ policy' = [policy EXCEPT ![c] = [id |-> now', version |-> now',
                                        terms |-> terms]]
    /\ UNCHANGED <<memory, client, request, call, deleting, shown, audit>>

\* Only categories differ: they live in join tables, and the ORM may leave the
\* policy row, with its updatedAt, untouched.
OnlyCategoriesDiffer(old, new) ==
    old = [new EXCEPT !.allowed = old.allowed, !.denied = old.denied]

UpdatePolicy(c, terms) ==
    /\ policy[c].id # Null /\ ClientFree(c)
    /\ Save
    /\ \E version \in {now'} \cup (IF OnlyCategoriesDiffer(policy[c].terms, terms)
                                   THEN {policy[c].version} ELSE {}) :
          policy' = [policy EXCEPT ![c] =
                        [@ EXCEPT !.version = version, !.terms = terms]]
    /\ UNCHANGED <<memory, client, request, call, deleting, shown, audit>>

\* deletePolicy: ON DELETE SET NULL rewrites the requests bound to it, so it
\* waits for their locks.
DeletePolicy(c) ==
    /\ policy[c].id # Null /\ ClientFree(c)
    /\ \A r \in Requests : request[r].client = c => ~ Locked(r)
    /\ policy' = [policy EXCEPT ![c] = NoPolicy]
    /\ request' = [r \in Requests |->
          IF request[r].client = c /\ request[r].policyId = policy[c].id
          THEN [request[r] EXCEPT !.policyId = Null] ELSE request[r]]
    /\ UNCHANGED <<now, memory, client, call, deleting, shown, audit>>

\* updateClient: name, retention, trust level or a rotated token.
UpdateClient(c, row) ==
    /\ client[c].trust # "ABSENT" /\ client[c] # row /\ ClientFree(c)
    /\ Save
    /\ client' = [client EXCEPT ![c] = row]
    /\ UNCHANGED <<memory, policy, request, call, deleting, shown, audit>>

\* deleteClient deletes the client's row and then, by cascade, its requests: it
\* waits for the calls that have locked one, and holds the client while it does.
AwaitLocks(c) ==
    /\ client[c].trust # "ABSENT" /\ ClientFree(c)
    /\ \E r \in Requests : request[r].client = c /\ Locked(r)
    /\ deleting' = deleting \cup {c}
    /\ UNCHANGED <<now, memory, client, policy, request, call, shown, audit>>

\* The policy and the requests go with the client.
DeleteClient(c) ==
    /\ client[c].trust # "ABSENT"
    /\ \A r \in Requests : request[r].client = c => ~ Locked(r)
    /\ client' = [client EXCEPT ![c].trust = "ABSENT"]
    /\ policy' = [policy EXCEPT ![c] = NoPolicy]
    /\ request' = [r \in Requests |->
          IF request[r].client = c /\ request[r].status # "ABSENT"
          THEN [NoRequest EXCEPT !.status = "DELETED"] ELSE request[r]]
    /\ deleting' = deleting \ {c}
    /\ UNCHANGED <<now, memory, call, shown, audit>>

\* A call that has locked a request waits for the client, whose deletion waits
\* for the request.  PostgreSQL breaks the cycle: it fails one of the two, which
\* is rolled back and not tried again.
Deadlock(k) ==
    /\ call[k].phase = "locked" /\ WritesEvent(k) /\ ~ ClientFree(ClientOf(k))
    /\ \/ Finish(k) /\ UNCHANGED deleting
       \/ deleting' = deleting \ {ClientOf(k)} /\ UNCHANGED call
    /\ UNCHANGED <<now, memory, client, policy, request, shown, audit>>

Tick ==
    /\ Save
    /\ UNCHANGED <<memory, client, policy, request, call, deleting, shown, audit>>

-----------------------------------------------------------------------------

Init ==
    /\ now = 1
    /\ memory \in [Memories -> [content: MemoryInputs, version: {1}]]
    /\ client \in [Clients -> {row \in ClientInputs : row.trust # "BLOCKED"}]
    /\ policy \in [Clients -> [id: {1}, version: {1}, terms: PolicyInputs]]
    /\ request = [r \in Requests |-> NoRequest]
    /\ call = [k \in Calls |-> IdleCall]
    /\ deleting = {}
    /\ shown = [r \in Requests |-> EmptySnapshot]
    /\ audit = [r \in Requests |-> <<>>]

\* The step a call in progress takes next.
Advance(k) ==
    \/ Retrieve(k) \/ ReadCandidates(k) \/ CommitBundle(k) \/ AbortBundle(k)
    \/ Lock(k) \/ Refuse(k) \/ Lapse(k)
    \/ Preview(k) \/ Approve(k) \/ RefuseApproval(k)
    \/ Deliver(k) \/ Withdraw(k)

ClientCall(k) ==
    \E c \in Clients, r \in Requests : StartBundle(k, c, r) \/ StartResult(k, c, r)

OwnerCall(k) ==
    \E r \in Requests : StartPreview(k, r) \/ StartApprove(k, r)

Edit ==
    \/ \E r \in Requests : Deny(r)
    \/ \E m \in Memories, content \in MemoryInputs : EditMemory(m, content)
    \/ \E c \in Clients, terms \in PolicyInputs :
          CreatePolicy(c, terms) \/ UpdatePolicy(c, terms)
    \/ \E c \in Clients : DeletePolicy(c) \/ AwaitLocks(c) \/ DeleteClient(c)
    \/ \E c \in Clients, row \in ClientInputs : UpdateClient(c, row)

Next ==
    \/ \E k \in Calls : Advance(k) \/ ClientCall(k) \/ OwnerCall(k) \/ Deadlock(k)
    \/ Edit
    \/ Tick

Spec == Init /\ [][Next]_vars

\* Every statement of a call, and of a deletion that waits, is eventually answered:
\* PostgreSQL grants a contended lock in the order it was asked for, and looks for
\* cycles of transactions that wait for each other.
FairSpec ==
    /\ Spec
    /\ \A k \in Calls : SF_vars(Advance(k)) /\ WF_vars(Deadlock(k))
    /\ \A c \in Clients : SF_vars(~ ClientFree(c) /\ DeleteClient(c))

-----------------------------------------------------------------------------
(* Properties *)

Disclosures == {"DISCLOSURE", "ONE_TIME_DISCLOSURE"}

\* Does this event end a trail?
Ends(event) == event.type \in Disclosures \cup {"DENIED"}

\* A disclosure or a denial is the last thing that ever happens to a request:
\* nothing is disclosed twice, disclosed after a denial, or reopened, whatever
\* calls of client and owner overlap (decide and result, which lock the row and
\* look at its status).
TrailEnds ==
    \A r \in Requests : \A i \in DOMAIN audit[r] :
        Ends(audit[r][i]) => i = Len(audit[r])

\* A one-time disclosure hands out exactly what the owner's most recent
\* decision approved, to the client that asked for it: no invalidation came
\* between, and no part of the grant was changed (decide saves the selection in
\* reviewSnapshot, result sends it).
DisclosureWasGranted ==
    \A r \in Requests : \A i \in DOMAIN audit[r] :
        audit[r][i].type = "ONE_TIME_DISCLOSURE" =>
            /\ i > 1
            /\ audit[r][i - 1] = Event("APPROVED", audit[r][i].client,
                                      audit[r][i].snapshot)

\* An approved row agrees with the grant it stores: same permissions version,
\* a lifetime, something to hand out, and a policy that is the granted one or
\* has been deleted.  result relies on it when it compares the two.
ApprovedRowIsItsGrant ==
    \A r \in Requests : request[r].status = "APPROVED" =>
        LET s == request[r].reviewSnapshot
        IN  /\ s.items # {}
            /\ request[r].approvalExpiresAt # Null
            /\ request[r].policyVersion = s.policyVersion
            /\ request[r].policyId \in {Null, s.policyId}

\* A request that still names a policy names its client's policy: deletion
\* clears the name even in requests that were being created or reviewed.
BoundPolicyExists ==
    \A r \in Requests :
        request[r].policyId # Null =>
            request[r].policyId = policy[request[r].client].id

\* A request's row agrees with what it refers to: an approved one with the grant
\* it stores, and one that names a policy with the policy of its client, however
\* deletions, reviews and collections overlap.
RowsAgree == ApprovedRowIsItsGrant /\ BoundPolicyExists

\* The step adds an event of this type to r's trail.
Adds(r, type) ==
    /\ Len(audit'[r]) > Len(audit[r])
    /\ audit'[r][Len(audit'[r])].type = type

\* Deleting a policy orphans its requests for good (ADR 0044): a request
\* without a policy is never bound again, approved or disclosed, even when the
\* client is given a new policy or an approval was in progress.
OrphansStayOrphans ==
    [][\A r \in Requests :
          request[r].status # "ABSENT" /\ request[r].policyId = Null =>
             /\ request'[r].policyId = Null
             /\ ~ Adds(r, "APPROVED")
             /\ ~ Adds(r, "ONE_TIME_DISCLOSURE")]_vars

\* What is approved is what the owner was looking at: the selected part of the
\* revision the approval carried, however much changed since it was shown.
GrantIsWhatWasShown ==
    [][\A r \in Requests : Adds(r, "APPROVED") =>
          \E k \in Calls :
             /\ call[k].kind = "approve" /\ call[k].request = r
             /\ audit'[r][Len(audit'[r])].snapshot =
                   Selection(call[k].revision, call[k].selected)]_vars

\* The text of a one-time disclosure and the permissions it is sent under were
\* in force together, at the instant result read the permissions: the memories
\* are read by a later statement, and their versions show they had not changed.
DisclosedAtOneInstant ==
    [][\A r \in Requests : Adds(r, "ONE_TIME_DISCLOSURE") =>
          LET s == audit'[r][Len(audit'[r])].snapshot
          IN  \E k \in Calls :
                LET a == call[k].authority
                IN  /\ call[k].request = r /\ call[k].phase = "locked"
                    /\ ~ a.denied
                    /\ \A m \in s.items :
                          /\ s.versions[m] = memory[m].version
                          /\ memory[m].version <= a.at
                          /\ Permitted(memory[m].content, a.terms, a.at)]_vars

\* Nothing goes out on stale authority: a request whose policy was deleted is
\* never approved or disclosed again, and the text of a one-time disclosure and
\* the permissions it is sent under were in force together.
AuthorityIsCurrent == OrphansStayOrphans /\ DisclosedAtOneInstant

\* "Re-read authority and candidate content at commit": a memory disclosed
\* without a review is one the client's policy covers as the bundle commits.
AutomaticDisclosureIsPermitted ==
    [][\A r \in Requests : Adds(r, "DISCLOSURE") =>
          LET s == audit'[r][Len(audit'[r])].snapshot
          IN  \A m \in s.items :
                 Permitted(memory[m].content,
                           policy[request'[r].client].terms, now)]_vars

\* Every call is answered, and every deletion of a client ends: none waits forever
\* for a row, though a review holds its request and wants the client while the
\* deletion holds the client and wants the request.
CallsFinish ==
    /\ \A k \in Calls : call[k].phase # "idle" ~> call[k].phase = "idle"
    /\ \A c \in Clients : ~ ClientFree(c) ~> ClientFree(c)

\* The requests implement the one-time grant the owner is promised.
GrantState(status) ==
    CASE status = "ABSENT" -> "none"
      [] status = "NEEDS_USER_APPROVAL" -> "pending"
      [] status = "APPROVED" -> "granted"
      [] OTHER -> "closed"

Promise == INSTANCE OneTimeGrant WITH
    Offers <- Snapshots,
    NoOffer <- EmptySnapshot,
    grant <- [r \in Requests |->
        [state |-> GrantState(request[r].status),
         offer |-> request[r].reviewSnapshot]],
    delivered <- [r \in Requests |->
        {<<i, audit[r][i].snapshot>> :
            i \in {j \in DOMAIN audit[r] : audit[r][j].type \in Disclosures}}]

KeepsPromise == Promise!Spec
=============================================================================

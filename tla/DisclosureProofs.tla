-------------------------- MODULE DisclosureProofs --------------------------
(***************************************************************************)
(* Proofs about memory requests, for any number of memories, clients,       *)
(* requests and calls: type correctness; every audit trail ends at a         *)
(* disclosure or a denial and discloses only what was approved; a row agrees *)
(* with its grant and its policy; what is approved is what was shown, and     *)
(* nothing goes out on stale authority; and the requests implement            *)
(* OneTimeGrant.                                                             *)
(***************************************************************************)
EXTENDS Disclosure, TLAPS

USE DEF Null

Reviews == {"preview", "approve", "result"}

\* What a call in progress may rely on: a bundle's id is its own until the row
\* exists, every other call names a row that was created, and a call that
\* holds a row lock is the only one, with the row as it was when it took it.
CallsInOrder ==
    /\ \A k \in Calls : call[k].kind = "bundle" =>
          request[call[k].request].status = "ABSENT"
    /\ \A j, k \in Calls :
          call[j].kind = "bundle" /\ call[k].kind = "bundle"
             /\ call[j].request = call[k].request => j = k
    /\ \A k \in Calls : call[k].kind \in Reviews =>
          request[call[k].request].status # "ABSENT"
    /\ \A k \in Calls : call[k].phase = "locked" =>
          call[k].kind \in Reviews /\ RowFound(k) /\ StatusFits(k)
    /\ \A j, k \in Calls :
          call[j].phase = "locked" /\ call[k].phase = "locked"
             /\ call[j].request = call[k].request => j = k

\* No event of this trail ends it.
Open(trail) == \A i \in DOMAIN trail : ~ Ends(trail[i])

\* A request that is awaited or approved has an open trail, and an approved one
\* ends in its approval.
Matches(row, trail) ==
    /\ row.status = "ABSENT" => trail = <<>>
    /\ row.status \in {"NEEDS_USER_APPROVAL", "APPROVED"} => Open(trail)
    /\ row.status = "APPROVED" =>
          /\ trail # <<>>
          /\ trail[Len(trail)] = Event("APPROVED", row.client, row.reviewSnapshot)

\* TrailEnds and DisclosureWasGranted, of one trail.
Sound(trail) ==
    \A i \in DOMAIN trail :
       /\ Ends(trail[i]) => i = Len(trail)
       /\ trail[i].type = "ONE_TIME_DISCLOSURE" =>
             /\ i > 1
             /\ trail[i - 1] = Event("APPROVED", trail[i].client, trail[i].snapshot)

RowsMatchTrails ==
    \A r \in Requests : Matches(request[r], audit[r]) /\ Sound(audit[r])

IInv == TypeOK /\ CallsInOrder /\ RowsMatchTrails

-----------------------------------------------------------------------------
(* The rows the operators build are rows *)

LEMMA NullRows ==
    /\ NoTerms \in PolicyTerms
    /\ EmptySnapshot \in Snapshots
    /\ EmptySnapshot.items = {}
    /\ NoRequest \in RequestRows
    /\ NoAuthority \in Authorities
    /\ NoContent \in MemoryContents
  <1>1. NoTerms \in PolicyTerms
    BY DEF NoTerms, PolicyTerms, SensitivityRanks
  <1>2. PICK p \in Profiles : TRUE
    BY DisclosureAssumption
  <1>3. [trust |-> "ABSENT", profile |-> p] \in ClientRows
    BY <1>2 DEF ClientRows
  <1>4. (CHOOSE row \in ClientRows : TRUE) \in ClientRows
    BY <1>3
  <1>5. EmptySnapshot \in Snapshots /\ EmptySnapshot.items = {}
    BY <1>4 DEF EmptySnapshot, Snapshots
  <1>6. (CHOOSE c \in Clients : TRUE) \in Clients
    BY DisclosureAssumption
  <1>7. NoRequest \in RequestRows
    BY <1>5, <1>6 DEF NoRequest, RequestRows, RequestStatuses
  <1>8. NoAuthority \in Authorities
    BY <1>1, <1>4 DEF NoAuthority, Authorities
  <1>9. NoContent \in MemoryContents
    BY DEF NoContent, MemoryContents, MemoryStatuses, ReviewStates,
           SensitivityRanks
  <1> QED
    BY <1>1, <1>5, <1>7, <1>8, <1>9

LEMMA IdleCallType ==
    IdleCall \in CallRecords /\ IdleCall.kind = "none" /\ IdleCall.phase = "idle"
  <1>1. (CHOOSE c \in Clients : TRUE) \in Clients
    BY DisclosureAssumption
  <1>2. (CHOOSE r \in Requests : TRUE) \in Requests
    BY DisclosureAssumption
  <1>3. [m \in Memories |-> [content |-> NoContent, version |-> Null]]
           \in [Memories -> MemoryRows]
    BY NullRows DEF MemoryRows
  <1> QED
    BY <1>1, <1>2, <1>3, NullRows DEF IdleCall, CallRecords

LEMMA AuthorityType ==
    ASSUME TypeOK, NEW c \in Clients
    PROVE  Authority(c) \in Authorities
  <1>1. GateDenies(client[c].trust, policy[c].id, policy[c].terms, "READ", now)
           \in BOOLEAN
    BY DEF GateDenies, Passed
  <1> QED
    BY <1>1 DEF TypeOK, Authority, Authorities

LEMMA BundleType ==
    ASSUME NEW candidates \in Seq(Memories), NEW eligible
    PROVE  Bundle(candidates, eligible) \subseteq Memories
  <1>1. \A i \in DOMAIN candidates : candidates[i] \in Memories
    OBVIOUS
  <1> QED
    BY <1>1, Zenon DEF Bundle

LEMMA SnapshotType ==
    ASSUME TypeOK, NEW row \in RequestRows, NEW authority \in Authorities,
           NEW candidates \in Seq(Memories)
    PROVE  PreviewSnapshot(row, authority, candidates) \in Snapshots
  <1> DEFINE eligible == Allowed(row, authority, Listed(candidates))
             fresh == [items |-> Bundle(candidates, eligible),
                  versions |-> [m \in Memories |->
                      IF m \in eligible THEN memory[m].version ELSE Null],
                  policyId |-> authority.policyId,
                  policyVersion |-> authority.policyVersion,
                  clientVersion |-> authority.clientVersion]
  <1>1. Bundle(candidates, eligible) \in SUBSET Memories
    BY BundleType
  <1>2. [m \in Memories |-> IF m \in eligible THEN memory[m].version ELSE Null]
           \in [Memories -> Nat]
    BY DEF TypeOK, MemoryRows
  <1>3. fresh \in Snapshots
    BY <1>1, <1>2 DEF Snapshots, Authorities
  <1>4. row.reviewSnapshot \in Snapshots
    BY DEF RequestRows
  <1> HIDE DEF eligible
  <1>5. CASE row.status = "APPROVED"
    <2>1. (IF SnapshotIsCurrent(row, authority)
           THEN row.reviewSnapshot.items ELSE {}) \in SUBSET Memories
      BY <1>4 DEF Snapshots
    <2> QED
      BY <1>3, <1>4, <1>5, <2>1 DEF PreviewSnapshot, Snapshots, eligible
  <1>6. CASE row.status # "APPROVED"
    BY <1>3, <1>6 DEF PreviewSnapshot, eligible
  <1> QED
    BY <1>5, <1>6

LEMMA RankingType ==
    ASSUME NEW S \in SUBSET Memories, NEW found \in Rankings(S)
    PROVE  found \in Seq(Memories)
  <1>1. PICK n \in 0 .. Cardinality(S) : found \in [1 .. n -> S]
    BY DEF Rankings
  <1>2. n \in Nat
    BY <1>1
  <1> QED
    BY <1>1, <1>2

LEMMA RowTypes ==
    ASSUME NEW row \in RequestRows
    PROVE  /\ \A v \in Nat : FreshReview(row, v) \in RequestRows
           /\ \A a \in Authorities : Invalidated(row, a) \in RequestRows
           /\ \A t \in Nat, s \in Snapshots, status \in RequestStatuses :
                /\ [row EXCEPT !.status = status, !.reviewSnapshot = s]
                      \in RequestRows
                /\ [row EXCEPT !.status = status, !.approvalExpiresAt = t,
                               !.reviewSnapshot = s] \in RequestRows
           /\ [row EXCEPT !.policyId = Null] \in RequestRows
  <1>1. \A v \in Nat : FreshReview(row, v) \in RequestRows
    BY NullRows DEF FreshReview, RequestRows, RequestStatuses
  <1>2. \A a \in Authorities : Invalidated(row, a) \in RequestRows
    BY <1>1 DEF Invalidated, RequestRows, Authorities
  <1>3. ASSUME NEW t \in Nat, NEW s \in Snapshots, NEW status \in RequestStatuses
        PROVE  /\ [row EXCEPT !.status = status, !.reviewSnapshot = s]
                     \in RequestRows
               /\ [row EXCEPT !.status = status, !.approvalExpiresAt = t,
                              !.reviewSnapshot = s] \in RequestRows
    BY DEF RequestRows
  <1>4. [row EXCEPT !.policyId = Null] \in RequestRows
    BY DEF RequestRows
  <1> QED
    BY <1>1, <1>2, <1>3, <1>4

LEMMA EventType ==
    ASSUME NEW type \in {"DISCLOSURE", "ONE_TIME_DISCLOSURE", "APPROVED",
                         "DENIED", "INVALIDATED"},
           NEW c \in Clients, NEW s \in Snapshots
    PROVE  Event(type, c, s) \in AuditEvents
  BY DEF Event, AuditEvents

LEMMA SelectionType ==
    ASSUME NEW s \in Snapshots, NEW selected \in SUBSET Memories
    PROVE  Selection(s, selected) \in Snapshots
  BY DEF Selection, Snapshots

-----------------------------------------------------------------------------
(* Updates of one row keep the types *)

LEMMA UpdatedCall ==
    ASSUME TypeOK, NEW k \in Calls, NEW new \in CallRecords,
           call' = [call EXCEPT ![k] = new]
    PROVE  call' \in [Calls -> CallRecords]
  BY DEF TypeOK

LEMMA FinishedCall ==
    ASSUME TypeOK, NEW k \in Calls, Finish(k)
    PROVE  call' \in [Calls -> CallRecords]
  BY IdleCallType, UpdatedCall DEF Finish

LEMMA UpdatedRequest ==
    ASSUME TypeOK, NEW r \in Requests, NEW new \in RequestRows,
           request' = [request EXCEPT ![r] = new]
    PROVE  request' \in [Requests -> RequestRows]
  BY DEF TypeOK

LEMMA Recorded ==
    ASSUME TypeOK, NEW r \in Requests, NEW event \in AuditEvents,
           Record(r, event)
    PROVE  audit' \in [Requests -> Seq(AuditEvents)]
  BY DEF TypeOK, Record

LEMMA LockedParts ==
    ASSUME TypeOK, NEW k \in Calls
    PROVE  /\ call[k] \in CallRecords
           /\ call[k].request \in Requests /\ call[k].client \in Clients
           /\ call[k].candidates \in Seq(Memories)
           /\ call[k].authority \in Authorities
           /\ call[k].selected \in SUBSET Memories
           /\ call[k].live \in [Memories -> MemoryRows]
           /\ request[call[k].request] \in RequestRows
           /\ request[call[k].request].client \in Clients
           /\ request[call[k].request].reviewSnapshot \in Snapshots
  BY DEF TypeOK, CallRecords, RequestRows

-----------------------------------------------------------------------------
(* Every step keeps the types *)

LEMMA InitTypeOK == Init => TypeOK
  <1> SUFFICES ASSUME Init PROVE TypeOK
    OBVIOUS
  <1>1. memory \in [Memories -> MemoryRows]
    BY DisclosureAssumption DEF Init, MemoryRows
  <1>2. client \in [Clients -> ClientRows]
    BY DisclosureAssumption DEF Init, ClientRows
  <1>3. policy \in [Clients -> [id: Nat, version: Nat, terms: PolicyTerms]]
    BY DisclosureAssumption DEF Init
  <1>4. audit \in [Requests -> Seq(AuditEvents)]
    BY DEF Init
  <1> QED
    BY <1>1, <1>2, <1>3, <1>4, NullRows, IdleCallType DEF Init, TypeOK

LEMMA StartsKeepTypes ==
    ASSUME TypeOK, NEW k \in Calls, ClientCall(k) \/ OwnerCall(k)
    PROVE  TypeOK'
  <1>1. \A a \in Authorities : [a EXCEPT !.denied = FALSE] \in Authorities
    BY DEF Authorities
  <1>2. ASSUME NEW c \in Clients, NEW r \in Requests, StartBundle(k, c, r)
        PROVE  TypeOK'
    <2>1. /\ Authority(c) \in Authorities
          /\ [NoAuthority EXCEPT !.denied = FALSE] \in Authorities
      BY <1>1, AuthorityType, NullRows
    <2> DEFINE new == [IdleCall EXCEPT !.kind = "bundle", !.client = c, !.request = r,
             !.phase = IF Authority(c).denied THEN "read" ELSE "gated",
             !.authority = IF Authority(c).denied THEN Authority(c)
                           ELSE [NoAuthority EXCEPT !.denied = FALSE]]
    <2>2. new \in CallRecords
      BY <2>1, IdleCallType DEF CallRecords
    <2>3. call' = [call EXCEPT ![k] = new]
      BY <1>2 DEF StartBundle
    <2> HIDE DEF new
    <2>4. call' \in [Calls -> CallRecords]
      BY <2>2, <2>3, UpdatedCall
    <2> QED
      BY <1>2, <2>4 DEF StartBundle, TypeOK
  <1>3. ASSUME NEW c \in Clients, NEW r \in Requests, StartResult(k, c, r)
        PROVE  TypeOK'
    <2> DEFINE new == [IdleCall EXCEPT !.kind = "result", !.phase = "retrieved",
                                       !.client = c, !.request = r]
    <2>1. new \in CallRecords
      BY IdleCallType DEF CallRecords
    <2>2. call' = [call EXCEPT ![k] = new]
      BY <1>3 DEF StartResult
    <2> HIDE DEF new
    <2>3. call' \in [Calls -> CallRecords]
      BY <2>1, <2>2, UpdatedCall
    <2> QED
      BY <1>3, <2>3 DEF StartResult, TypeOK
  <1>4. ASSUME NEW r \in Requests, NEW kind \in {"preview", "approve"},
               NEW revision \in Snapshots, NEW selected \in SUBSET Memories,
               BeginReview(k, r, kind, revision, selected)
        PROVE  TypeOK'
    <2> DEFINE new == [IdleCall EXCEPT !.kind = kind, !.request = r,
             !.client = request[r].client,
             !.revision = revision, !.selected = selected,
             !.phase = IF /\ request[r].status = "NEEDS_USER_APPROVAL"
                          /\ request[r].policyId # Null
                          /\ ~ Authority(request[r].client).denied
                       THEN "gated" ELSE "retrieved"]
    <2>1. request[r].client \in Clients
      BY DEF TypeOK, RequestRows
    <2>2. new \in CallRecords
      BY <2>1, IdleCallType DEF CallRecords
    <2>3. call' = [call EXCEPT ![k] = new]
      BY <1>4 DEF BeginReview
    <2> HIDE DEF new
    <2>4. call' \in [Calls -> CallRecords]
      BY <2>2, <2>3, UpdatedCall
    <2> QED
      BY <1>4, <2>4 DEF BeginReview, TypeOK
  <1>5. ASSUME NEW r \in Requests, StartPreview(k, r)
        PROVE  TypeOK'
    BY <1>4, <1>5, NullRows DEF StartPreview
  <1>6. ASSUME NEW r \in Requests, StartApprove(k, r)
        PROVE  TypeOK'
    <2>1. PICK selected \in SUBSET shown[r].items :
             BeginReview(k, r, "approve", shown[r], selected)
      BY <1>6 DEF StartApprove
    <2>2. shown[r] \in Snapshots /\ selected \in SUBSET Memories
      BY <2>1 DEF TypeOK, Snapshots
    <2> QED
      BY <1>4, <2>1, <2>2
  <1> QED
    BY <1>2, <1>3, <1>5, <1>6 DEF ClientCall, OwnerCall

LEMMA ReadsKeepTypes ==
    ASSUME TypeOK, NEW k \in Calls,
           \/ Retrieve(k) \/ ReadCandidates(k) \/ AbortBundle(k) \/ Lock(k)
           \/ Refuse(k) \/ RefuseApproval(k)
    PROVE  TypeOK'
  <1>1. CASE Retrieve(k)
    <2>1. PICK found \in Rankings(Retrievable) :
             call' = [call EXCEPT ![k] =
                        [@ EXCEPT !.candidates = found, !.phase = "retrieved"]]
      BY <1>1 DEF Retrieve
    <2> DEFINE new == [call[k] EXCEPT !.candidates = found, !.phase = "retrieved"]
    <2>2. found \in Seq(Memories)
      BY <2>1, RankingType DEF Retrievable
    <2>3. new \in CallRecords
      BY <2>2, LockedParts DEF CallRecords
    <2>4. call' = [call EXCEPT ![k] = new]
      BY <2>1
    <2> HIDE DEF new
    <2>5. call' \in [Calls -> CallRecords]
      BY <2>3, <2>4, UpdatedCall
    <2> QED
      BY <1>1, <2>5 DEF Retrieve, TypeOK
  <1>2. CASE ReadCandidates(k)
    <2> DEFINE live == [m \in Memories |->
                          IF m \in Listed(call[k].candidates)
                          THEN memory[m] ELSE call[k].live[m]]
               new == [call[k] EXCEPT !.phase = "read", !.live = live]
    <2>1. live \in [Memories -> MemoryRows]
      BY LockedParts DEF TypeOK
    <2>2. call' = [call EXCEPT ![k] = new]
      BY <1>2 DEF ReadCandidates
    <2> HIDE DEF live
    <2>3. new \in CallRecords
      BY <2>1, LockedParts DEF CallRecords
    <2> HIDE DEF new
    <2>4. call' \in [Calls -> CallRecords]
      BY <2>2, <2>3, UpdatedCall
    <2> QED
      BY <1>2, <2>4 DEF ReadCandidates, TypeOK
  <1>3. CASE Lock(k)
    <2> DEFINE authority == Authority(request[call[k].request].client)
               new == [call[k] EXCEPT !.phase = "locked", !.authority = authority]
    <2>1. authority \in Authorities
      BY LockedParts, AuthorityType
    <2>2. call' = [call EXCEPT ![k] = new]
      BY <1>3 DEF Lock
    <2> HIDE DEF authority
    <2>3. new \in CallRecords
      BY <2>1, LockedParts DEF CallRecords
    <2> HIDE DEF new
    <2>4. call' \in [Calls -> CallRecords]
      BY <2>2, <2>3, UpdatedCall
    <2> QED
      BY <1>3, <2>4 DEF Lock, TypeOK
  <1>4. CASE AbortBundle(k) \/ Refuse(k) \/ RefuseApproval(k)
    BY <1>4, FinishedCall DEF AbortBundle, Refuse, RefuseApproval, TypeOK
  <1> QED
    BY <1>1, <1>2, <1>3, <1>4

\* The snapshot a bundle discloses outright.
LEMMA DisclosedType ==
    ASSUME TypeOK, NEW k \in Calls, NEW a \in Authorities, NEW permitted
    PROVE  [items |-> Bundle(call[k].candidates, permitted),
            versions |-> [m \in Memories |->
               IF m \in permitted THEN call[k].live[m].version ELSE Null],
            policyId |-> a.policyId,
            policyVersion |-> a.policyVersion,
            clientVersion |-> a.clientVersion] \in Snapshots
  <1>1. Bundle(call[k].candidates, permitted) \in SUBSET Memories
    BY BundleType, LockedParts
  <1>2. [m \in Memories |->
           IF m \in permitted THEN call[k].live[m].version ELSE Null]
             \in [Memories -> Nat]
    BY LockedParts DEF MemoryRows
  <1> QED
    BY <1>1, <1>2 DEF Snapshots, Authorities

\* The row and the trail a committed bundle leaves.
LEMMA CommitEffect ==
    ASSUME TypeOK, NEW k \in Calls, CommitBundle(k)
    PROVE  \E new \in RequestRows, disclosed \in Snapshots :
              /\ request' = [request EXCEPT ![call[k].request] = new]
              /\ new.client = call[k].client
              /\ new.policyId \in {Null, policy[call[k].client].id}
              /\ new.reviewSnapshot = EmptySnapshot
              /\ \/ /\ new.status = "FULFILLED"
                    /\ Record(call[k].request,
                              Event("DISCLOSURE", call[k].client, disclosed))
                 \/ /\ new.status = "DENIED"
                    /\ Record(call[k].request,
                              Event("DENIED", call[k].client, EmptySnapshot))
                 \/ new.status = "NEEDS_USER_APPROVAL" /\ UNCHANGED audit
  <1> DEFINE r == call[k].request
             c == call[k].client
             a == DecidingAuthority(k)
             permitted == {m \in Listed(call[k].candidates) :
                             /\ ~ a.denied
                             /\ Permitted(call[k].live[m].content, a.terms, now)}
             status == CASE Decision(a.terms, permitted) = "ALLOW" -> "FULFILLED"
                         [] Decision(a.terms, permitted) = "NEEDS_CONFIRMATION"
                              -> "NEEDS_USER_APPROVAL"
                         [] OTHER -> "DENIED"
             disclosed == [items |-> Bundle(call[k].candidates, permitted),
                           versions |-> [m \in Memories |->
                              IF m \in permitted THEN call[k].live[m].version
                                                 ELSE Null],
                           policyId |-> a.policyId,
                           policyVersion |-> a.policyVersion,
                           clientVersion |-> a.clientVersion]
             new == [NoRequest EXCEPT !.status = status, !.client = c,
                       !.policyId = a.policyId, !.policyVersion = a.policyVersion]
  <1>1. /\ request' = [request EXCEPT ![r] = new]
        /\ CASE status = "FULFILLED" -> Record(r, Event("DISCLOSURE", c, disclosed))
             [] status = "DENIED" -> Record(r, Event("DENIED", c, EmptySnapshot))
             [] OTHER -> UNCHANGED audit
        /\ Finish(k)
        /\ UNCHANGED <<now, memory, client, policy, deleting, shown>>
    BY DEF CommitBundle
  <1>2. r \in Requests /\ c \in Clients
    BY LockedParts
  <1>3. a \in Authorities
    BY <1>2, LockedParts, AuthorityType DEF DecidingAuthority
  <1> HIDE DEF a, permitted
  <1>4. status \in {"FULFILLED", "NEEDS_USER_APPROVAL", "DENIED"}
    OBVIOUS
  <1>5. disclosed \in Snapshots
    BY <1>3, DisclosedType
  <1> HIDE DEF status, disclosed
  <1>6. /\ new \in RequestRows /\ new.status = status
        /\ new.client = c /\ new.policyId = a.policyId
        /\ new.reviewSnapshot = EmptySnapshot
    <2>1. NoRequest.reviewSnapshot = EmptySnapshot
      BY DEF NoRequest
    <2> QED
      BY <1>2, <1>3, <1>4, <2>1, NullRows
         DEF RequestRows, RequestStatuses, Authorities
  <1>8. a.policyId \in {Null, policy[c].id}
    BY DEF CommitBundle, ReferencesHold, a
  <1> HIDE DEF new, r, c
  <1>7. \/ new.status = "FULFILLED" /\ Record(r, Event("DISCLOSURE", c, disclosed))
        \/ new.status = "DENIED" /\ Record(r, Event("DENIED", c, EmptySnapshot))
        \/ new.status = "NEEDS_USER_APPROVAL" /\ UNCHANGED audit
    BY <1>1, <1>4, <1>6
  <1> QED
    BY <1>1, <1>5, <1>6, <1>7, <1>8 DEF r, c

LEMMA CommitKeepsTypes ==
    ASSUME TypeOK, NEW k \in Calls, CommitBundle(k)
    PROVE  TypeOK'
  <1> DEFINE r == call[k].request
             c == call[k].client
  <1>1. r \in Requests /\ c \in Clients
    BY LockedParts
  <1>2. PICK new \in RequestRows, disclosed \in Snapshots :
           /\ request' = [request EXCEPT ![r] = new]
           /\ \/ Record(r, Event("DISCLOSURE", c, disclosed))
              \/ Record(r, Event("DENIED", c, EmptySnapshot))
              \/ UNCHANGED audit
    BY CommitEffect
  <1>3. request' \in [Requests -> RequestRows]
    BY <1>1, <1>2, UpdatedRequest
  <1>4. audit' \in [Requests -> Seq(AuditEvents)]
    <2>1. /\ Event("DISCLOSURE", c, disclosed) \in AuditEvents
          /\ Event("DENIED", c, EmptySnapshot) \in AuditEvents
      BY <1>1, NullRows, EventType
    <2> QED
      BY <1>1, <1>2, <2>1, Recorded DEF TypeOK
  <1> QED
    BY <1>3, <1>4, FinishedCall DEF CommitBundle, TypeOK

LEMMA ReviewsKeepTypes ==
    ASSUME TypeOK, NEW k \in Calls,
           \/ Lapse(k) \/ Preview(k) \/ Approve(k) \/ Deliver(k) \/ Withdraw(k)
    PROVE  TypeOK'
  <1> DEFINE r == call[k].request
             a == call[k].authority
             s == PreviewSnapshot(request[r], a, call[k].candidates)
  <1>1. /\ r \in Requests /\ request[r] \in RequestRows
        /\ a \in Authorities
        /\ s \in Snapshots
        /\ request[r].client \in Clients
        /\ request[r].policyVersion \in Nat
    BY LockedParts, SnapshotType DEF RequestRows
  <1>2. Invalidated(request[r], a) \in RequestRows
    BY <1>1, RowTypes
  <1>3. Event("INVALIDATED", request[r].client, EmptySnapshot) \in AuditEvents
    BY <1>1, EventType, NullRows
  <1>4. CASE Lapse(k)
    <2>1. FreshReview(request[r], request[r].policyVersion) \in RequestRows
      BY <1>1, RowTypes
    <2>2. request' \in [Requests -> RequestRows]
      BY <1>1, <1>4, <2>1, UpdatedRequest DEF Lapse
    <2> QED
      BY <1>4, <2>2, FinishedCall DEF Lapse, TypeOK
  <1>5. CASE Preview(k)
    <2> HIDE DEF s
    <2>1. shown' = [shown EXCEPT ![r] = s]
      BY <1>5 DEF Preview, s
    <2>2. shown' \in [Requests -> Snapshots]
      BY <1>1, <2>1 DEF TypeOK
    <2>3. /\ request' \in [Requests -> RequestRows]
          /\ audit' \in [Requests -> Seq(AuditEvents)]
      <3>1. CASE PermissionsChanged(request[r], a)
        <4>1. request' = [request EXCEPT ![r] = Invalidated(request[r], a)]
          BY <1>5, <3>1 DEF Preview
        <4>2. Record(r, Event("INVALIDATED", request[r].client, EmptySnapshot))
          BY <1>5, <3>1 DEF Preview
        <4> QED
          BY <1>1, <1>2, <1>3, <4>1, <4>2, UpdatedRequest, Recorded
      <3>2. CASE ~ PermissionsChanged(request[r], a)
        BY <1>5, <3>2 DEF Preview, TypeOK
      <3> QED
        BY <3>1, <3>2
    <2> QED
      BY <1>5, <2>2, <2>3, FinishedCall DEF Preview, TypeOK
  <1>6. CASE Approve(k)
    <2> DEFINE granted == Selection(s, call[k].selected)
               changed == PermissionsChanged(request[r], a)
               row == IF changed THEN Invalidated(request[r], a) ELSE request[r]
               approval == Event("APPROVED", row.client, granted)
               invalidation == Event("INVALIDATED", row.client, EmptySnapshot)
               new == [row EXCEPT !.status = "APPROVED",
                                  !.approvalExpiresAt = now + ApprovalTtl,
                                  !.reviewSnapshot = granted]
               trail == Append(IF changed THEN Append(audit[r], invalidation)
                                          ELSE audit[r], approval)
    <2>1. /\ request' = [request EXCEPT ![r] = new]
          /\ audit' = [audit EXCEPT ![r] = trail]
      BY <1>6 DEF Approve
    <2>2. granted \in Snapshots
      BY <1>1, LockedParts, SelectionType
    <2> HIDE DEF s
    <2>3. row \in RequestRows /\ row.client \in Clients
      BY <1>1, <1>2 DEF RequestRows
    <2> HIDE DEF granted, changed, row
    <2>4. new \in RequestRows
      <3>1. now + ApprovalTtl \in Nat /\ "APPROVED" \in RequestStatuses
        BY DisclosureAssumption DEF TypeOK, RequestStatuses
      <3> QED
        BY <2>2, <2>3, <3>1, RowTypes
    <2>5. approval \in AuditEvents /\ invalidation \in AuditEvents
      BY <2>2, <2>3, NullRows, EventType
    <2> HIDE DEF new, approval, invalidation
    <2>6. trail \in Seq(AuditEvents)
      BY <1>1, <2>5 DEF TypeOK
    <2> HIDE DEF trail
    <2>7. audit' \in [Requests -> Seq(AuditEvents)]
      BY <1>1, <2>1, <2>6 DEF TypeOK
    <2>8. request' \in [Requests -> RequestRows]
      BY <1>1, <2>1, <2>4, UpdatedRequest
    <2> QED
      BY <1>6, <2>7, <2>8, FinishedCall DEF Approve, TypeOK
  <1>7. CASE Deliver(k)
    <2> HIDE DEF s
    <2> DEFINE new == [request[r] EXCEPT !.status = "FULFILLED",
                                         !.reviewSnapshot = EmptySnapshot]
    <2>1. /\ request' = [request EXCEPT ![r] = new]
          /\ Record(r, Event("ONE_TIME_DISCLOSURE", call[k].client,
                             request[r].reviewSnapshot))
      BY <1>7 DEF Deliver
    <2>2. new \in RequestRows
      BY <1>1, NullRows, RowTypes DEF RequestStatuses
    <2> HIDE DEF new
    <2>3. request' \in [Requests -> RequestRows]
      BY <1>1, <2>1, <2>2, UpdatedRequest
    <2>4. audit' \in [Requests -> Seq(AuditEvents)]
      BY <1>1, <2>1, LockedParts, EventType, Recorded
    <2> QED
      BY <1>7, <2>3, <2>4, FinishedCall DEF Deliver, TypeOK
  <1>8. CASE Withdraw(k)
    <2> HIDE DEF s
    <2>1. /\ request' = [request EXCEPT ![r] = Invalidated(request[r], a)]
          /\ Record(r, Event("INVALIDATED", request[r].client, EmptySnapshot))
      BY <1>8 DEF Withdraw
    <2>2. /\ request' \in [Requests -> RequestRows]
          /\ audit' \in [Requests -> Seq(AuditEvents)]
      BY <1>1, <1>2, <1>3, <2>1, UpdatedRequest, Recorded
    <2> QED
      BY <1>8, <2>2, FinishedCall DEF Withdraw, TypeOK
  <1> QED
    BY <1>4, <1>5, <1>6, <1>7, <1>8

LEMMA EditsKeepTypes ==
    ASSUME TypeOK, Edit \/ Tick
    PROVE  TypeOK'
  <1>1. Save => now' \in Nat
    BY DEF Save, TypeOK
  <1>2. ASSUME NEW r \in Requests, Deny(r)
        PROVE  TypeOK'
    <2> DEFINE new == [request[r] EXCEPT !.status = "DENIED",
                                         !.reviewSnapshot = EmptySnapshot]
    <2>1. request[r] \in RequestRows /\ request[r].client \in Clients
      BY DEF TypeOK, RequestRows
    <2>2. new \in RequestRows
      BY <2>1, NullRows, RowTypes DEF RequestStatuses
    <2>3. request' = [request EXCEPT ![r] = new]
      BY <1>2 DEF Deny
    <2> HIDE DEF new
    <2>4. request' \in [Requests -> RequestRows]
      BY <2>2, <2>3, UpdatedRequest
    <2>5. audit' \in [Requests -> Seq(AuditEvents)]
      BY <1>2, <2>1, NullRows, EventType, Recorded DEF Deny
    <2> QED
      BY <1>2, <2>4, <2>5 DEF Deny, TypeOK
  <1>3. ASSUME NEW m \in Memories, NEW content \in MemoryInputs,
               EditMemory(m, content)
        PROVE  TypeOK'
    BY <1>1, <1>3, DisclosureAssumption DEF EditMemory, MemoryRows, TypeOK
  <1>4. ASSUME NEW c \in Clients, NEW terms \in PolicyInputs,
               CreatePolicy(c, terms)
        PROVE  TypeOK'
    BY <1>1, <1>4, DisclosureAssumption DEF CreatePolicy, TypeOK
  <1>5. ASSUME NEW c \in Clients, NEW terms \in PolicyInputs,
               UpdatePolicy(c, terms)
        PROVE  TypeOK'
    <2>1. PICK version \in {now', policy[c].version} :
             policy' = [policy EXCEPT ![c] =
                          [@ EXCEPT !.version = version, !.terms = terms]]
      BY <1>5 DEF UpdatePolicy
    <2> DEFINE new == [policy[c] EXCEPT !.version = version, !.terms = terms]
    <2>4. policy[c] \in [id: Nat, version: Nat, terms: PolicyTerms]
      BY DEF TypeOK
    <2>5. version \in Nat /\ terms \in PolicyTerms
      BY <1>1, <1>5, <2>4, DisclosureAssumption DEF UpdatePolicy
    <2>2. new \in [id: Nat, version: Nat, terms: PolicyTerms]
      BY <2>4, <2>5
    <2>3. policy' = [policy EXCEPT ![c] = new]
      BY <2>1
    <2> HIDE DEF new
    <2> QED
      BY <1>1, <1>5, <2>2, <2>3 DEF UpdatePolicy, TypeOK
  <1>6. NoPolicy \in [id: Nat, version: Nat, terms: PolicyTerms]
    BY NullRows DEF NoPolicy
  <1>7. ASSUME NEW c \in Clients, DeletePolicy(c)
        PROVE  TypeOK'
    <2>1. request' \in [Requests -> RequestRows]
      BY <1>7, RowTypes DEF DeletePolicy, TypeOK
    <2>2. policy' \in [Clients -> [id: Nat, version: Nat, terms: PolicyTerms]]
      BY <1>6, <1>7 DEF DeletePolicy, TypeOK
    <2> QED
      BY <1>7, <2>1, <2>2 DEF DeletePolicy, TypeOK
  <1>8. ASSUME NEW c \in Clients, DeleteClient(c)
        PROVE  TypeOK'
    <2> DEFINE deleted == [NoRequest EXCEPT !.status = "DELETED"]
    <2>1. deleted \in RequestRows
      BY NullRows DEF RequestRows, RequestStatuses
    <2>2. request' = [r \in Requests |->
             IF request[r].client = c /\ request[r].status # "ABSENT"
             THEN deleted ELSE request[r]]
      BY <1>8 DEF DeleteClient
    <2> HIDE DEF deleted
    <2>3. request' \in [Requests -> RequestRows]
      BY <2>1, <2>2 DEF TypeOK
    <2>4. policy' \in [Clients -> [id: Nat, version: Nat, terms: PolicyTerms]]
      BY <1>6, <1>8 DEF DeleteClient, TypeOK
    <2>5. client' \in [Clients -> ClientRows]
      BY <1>8 DEF DeleteClient, ClientRows, TypeOK
    <2> QED
      BY <1>8, <2>3, <2>4, <2>5 DEF DeleteClient, TypeOK
  <1>9. ASSUME NEW c \in Clients, NEW row \in ClientInputs, UpdateClient(c, row)
        PROVE  TypeOK'
    <2>1. row \in ClientRows
      BY DisclosureAssumption DEF ClientRows
    <2> QED
      BY <1>1, <1>9, <2>1 DEF UpdateClient, TypeOK
  <1>10. CASE Tick
    BY <1>1, <1>10 DEF Tick, TypeOK
  <1>11. ASSUME NEW c \in Clients, AwaitLocks(c)
         PROVE  TypeOK'
    BY <1>11 DEF AwaitLocks, TypeOK
  <1> QED
    BY <1>2, <1>3, <1>4, <1>5, <1>7, <1>8, <1>9, <1>10, <1>11 DEF Edit

\* Whichever of the two PostgreSQL fails, a cycle ends with the call where it is,
\* or at rest, and every row as it was.
LEMMA DeadlockEffect ==
    ASSUME NEW k \in Calls, Deadlock(k)
    PROVE  /\ UNCHANGED <<now, memory, client, policy, request, shown, audit>>
           /\ deleting' \subseteq deleting
           /\ UNCHANGED call \/ Finish(k)
  BY DEF Deadlock

LEMMA DeadlockKeepsTypes ==
    ASSUME TypeOK, NEW k \in Calls, Deadlock(k)
    PROVE  TypeOK'
  <1>1. call' \in [Calls -> CallRecords]
    BY DeadlockEffect, FinishedCall DEF TypeOK
  <1> QED
    BY <1>1, DeadlockEffect DEF TypeOK

LEMMA NextTypeOK == TypeOK /\ [Next]_vars => TypeOK'
  <1> SUFFICES ASSUME TypeOK, [Next]_vars PROVE TypeOK'
    OBVIOUS
  <1>1. ASSUME NEW k \in Calls, Advance(k)
        PROVE  TypeOK'
    BY <1>1, ReadsKeepTypes, CommitKeepsTypes, ReviewsKeepTypes DEF Advance
  <1>2. ASSUME NEW k \in Calls, ClientCall(k) \/ OwnerCall(k)
        PROVE  TypeOK'
    BY <1>2, StartsKeepTypes
  <1>3. CASE Edit \/ Tick
    BY <1>3, EditsKeepTypes
  <1>4. CASE UNCHANGED vars
    BY <1>4 DEF vars, TypeOK
  <1>5. ASSUME NEW k \in Calls, Deadlock(k)
        PROVE  TypeOK'
    BY <1>5, DeadlockKeepsTypes
  <1> QED
    BY <1>1, <1>2, <1>3, <1>4, <1>5 DEF Next

\* Every row, call and audit event keeps its type, for any number of memories,
\* clients, requests and concurrent calls.
THEOREM TypeCorrect == Spec => []TypeOK
  BY InitTypeOK, NextTypeOK, PTL DEF Spec

-----------------------------------------------------------------------------
(* Trails *)

\* Adding to an open trail: it ends at the addition at the latest, and a
\* one-time disclosure is sound when the trail ended in its approval.
LEMMA AppendToOpen ==
    ASSUME NEW trail \in Seq(AuditEvents), Open(trail), NEW event \in AuditEvents,
           event.type = "ONE_TIME_DISCLOSURE" =>
              /\ trail # <<>>
              /\ trail[Len(trail)] = Event("APPROVED", event.client, event.snapshot)
    PROVE  /\ Append(trail, event) \in Seq(AuditEvents)
           /\ Append(trail, event) # <<>>
           /\ Append(trail, event)[Len(Append(trail, event))] = event
           /\ Sound(Append(trail, event))
           /\ ~ Ends(event) => Open(Append(trail, event))
  <1> DEFINE new == Append(trail, event)
  <1>1. /\ new \in Seq(AuditEvents)
        /\ Len(new) = Len(trail) + 1 /\ Len(trail) \in Nat
        /\ DOMAIN new = 1 .. Len(trail) + 1
        /\ DOMAIN trail = 1 .. Len(trail)
        /\ new[Len(trail) + 1] = event
        /\ \A i \in 1 .. Len(trail) : new[i] = trail[i]
        /\ new # <<>>
    OBVIOUS
  <1> HIDE DEF new
  <1>2. ~ Ends(event) => Open(new)
    BY <1>1 DEF Open
  <1>3. \A i \in DOMAIN new : Ends(new[i]) => i = Len(new)
    BY <1>1 DEF Open
  <1>4. \A i \in 1 .. Len(trail) : trail[i].type # "ONE_TIME_DISCLOSURE"
    BY <1>1 DEF Open, Ends, Disclosures
  <1>5. ASSUME NEW i \in DOMAIN new, new[i].type = "ONE_TIME_DISCLOSURE"
        PROVE  /\ i > 1
               /\ new[i - 1] = Event("APPROVED", new[i].client, new[i].snapshot)
    <2>1. i = Len(trail) + 1 /\ new[i] = event
      BY <1>1, <1>4, <1>5
    <2>2. trail # <<>> /\ trail[Len(trail)] = Event("APPROVED", event.client, event.snapshot)
      BY <1>5, <2>1
    <2>3. Len(trail) > 0
      BY <1>1, <2>2
    <2> QED
      BY <1>1, <2>1, <2>2, <2>3
  <1>6. Sound(new)
    BY <1>3, <1>5 DEF Sound
  <1> QED
    BY <1>1, <1>2, <1>6 DEF new

LEMMA EmptyTrail == Open(<<>>) /\ Sound(<<>>)
  BY DEF Open, Sound

LEMMA EventFields ==
    ASSUME NEW type, NEW c, NEW s
    PROVE  /\ Event(type, c, s).type = type
           /\ Event(type, c, s).client = c
           /\ Event(type, c, s).snapshot = s
  BY DEF Event

\* Only r's row and trail change, and they match again.
LEMMA TrailStep ==
    ASSUME RowsMatchTrails, NEW r \in Requests,
           \A q \in Requests \ {r} : request'[q] = request[q] /\ audit'[q] = audit[q],
           Matches(request'[r], audit'[r]), Sound(audit'[r])
    PROVE  RowsMatchTrails'
  <1> SUFFICES ASSUME NEW q \in Requests
               PROVE  Matches(request'[q], audit'[q]) /\ Sound(audit'[q])
    BY DEF RowsMatchTrails
  <1>1. CASE q = r
    BY <1>1
  <1>2. CASE q # r
    BY <1>2 DEF RowsMatchTrails
  <1> QED
    BY <1>1, <1>2

-----------------------------------------------------------------------------
(* Calls *)

\* Only r's row changes; no call but the finished ones was creating or locking
\* it.
LEMMA OrderStep ==
    ASSUME TypeOK, TypeOK', CallsInOrder, NEW r \in Requests,
           \A j \in Calls : call'[j] \in {call[j], IdleCall},
           \A q \in Requests \ {r} : request'[q] = request[q],
           request'[r].status # "ABSENT",
           \A j \in Calls :
              call'[j].kind = "bundle" \/ call'[j].phase = "locked" =>
                 call'[j].request # r
    PROVE  CallsInOrder'
  <1>1. \A j \in Calls : call'[j].kind # "none" \/ call'[j].phase # "idle" =>
           call'[j] = call[j]
    BY IdleCallType
  <1>2. \A j \in Calls : call'[j].request \in Requests
    BY DEF TypeOK, CallRecords
  <1>3. ASSUME NEW k \in Calls, call'[k].kind = "bundle"
        PROVE  request'[call'[k].request].status = "ABSENT"
    BY <1>1, <1>2, <1>3 DEF CallsInOrder
  <1>4. ASSUME NEW k \in Calls, call'[k].kind \in Reviews
        PROVE  request'[call'[k].request].status # "ABSENT"
    BY <1>1, <1>2, <1>4 DEF CallsInOrder, Reviews
  <1>5. ASSUME NEW k \in Calls, call'[k].phase = "locked"
        PROVE  /\ call'[k] = call[k] /\ call[k].kind \in Reviews
               /\ RowFound(k)' /\ StatusFits(k)'
    <2>1. call'[k] = call[k]
      BY <1>1, <1>5
    <2>2. request'[call'[k].request] = request[call[k].request]
      BY <1>2, <1>5, <2>1
    <2>3. call[k].kind \in Reviews /\ RowFound(k) /\ StatusFits(k)
      BY <1>5, <2>1 DEF CallsInOrder
    <2> QED
      BY <2>1, <2>2, <2>3 DEF RowFound, StatusFits
  <1>6. \A j, k \in Calls :
          call'[j].kind = "bundle" /\ call'[k].kind = "bundle"
             /\ call'[j].request = call'[k].request => j = k
    BY <1>1 DEF CallsInOrder
  <1>7. \A j, k \in Calls :
          call'[j].phase = "locked" /\ call'[k].phase = "locked"
             /\ call'[j].request = call'[k].request => j = k
    BY <1>5 DEF CallsInOrder
  <1> QED
    BY <1>3, <1>4, <1>5, <1>6, <1>7 DEF CallsInOrder

\* A call k is finished, started or moved on, and no row changes.
LEMMA CallStep ==
    ASSUME TypeOK, TypeOK', CallsInOrder, NEW k \in Calls,
           \A j \in Calls \ {k} : call'[j] = call[j], request' = request,
           call'[k].kind = "bundle" =>
              /\ request[call'[k].request].status = "ABSENT"
              /\ \A j \in Calls \ {k} :
                    call[j].kind = "bundle" => call[j].request # call'[k].request,
           call'[k].kind \in Reviews => request[call'[k].request].status # "ABSENT",
           call'[k].phase = "locked" =>
              /\ call'[k].kind \in Reviews /\ RowFound(k)' /\ StatusFits(k)'
              /\ \A j \in Calls \ {k} :
                    call[j].phase = "locked" => call[j].request # call'[k].request
    PROVE  CallsInOrder'
  <1>1. ASSUME NEW j \in Calls, call'[j].kind = "bundle"
        PROVE  request'[call'[j].request].status = "ABSENT"
    BY <1>1 DEF CallsInOrder
  <1>2. ASSUME NEW j \in Calls, call'[j].kind \in Reviews
        PROVE  request'[call'[j].request].status # "ABSENT"
    BY <1>2 DEF CallsInOrder
  <1>3. ASSUME NEW j \in Calls, call'[j].phase = "locked"
        PROVE  call'[j].kind \in Reviews /\ RowFound(j)' /\ StatusFits(j)'
    <2>1. CASE j = k
      BY <1>3, <2>1
    <2>2. CASE j # k
      BY <1>3, <2>2 DEF CallsInOrder, RowFound, StatusFits
    <2> QED
      BY <2>1, <2>2
  <1>4. \A i, j \in Calls :
          call'[i].kind = "bundle" /\ call'[j].kind = "bundle"
             /\ call'[i].request = call'[j].request => i = j
    BY DEF CallsInOrder
  <1>5. \A i, j \in Calls :
          call'[i].phase = "locked" /\ call'[j].phase = "locked"
             /\ call'[i].request = call'[j].request => i = j
    BY DEF CallsInOrder
  <1> QED
    BY <1>1, <1>2, <1>3, <1>4, <1>5 DEF CallsInOrder

LEMMA Finished ==
    ASSUME TypeOK, NEW k \in Calls, Finish(k)
    PROVE  /\ call'[k] = IdleCall
           /\ \A j \in Calls \ {k} : call'[j] = call[j]
           /\ \A j \in Calls : call'[j] \in {call[j], IdleCall}
  BY DEF TypeOK, Finish

\* Only one call holds the lock of a row, and it alone rewrites the row: the
\* step of call k that rewrites its locked row keeps the calls in order.
LEMMA LockedStep ==
    ASSUME TypeOK, TypeOK', CallsInOrder, NEW k \in Calls, Finish(k),
           call[k].phase = "locked",
           \A q \in Requests \ {call[k].request} : request'[q] = request[q],
           request'[call[k].request].status # "ABSENT"
    PROVE  CallsInOrder'
  <1> DEFINE r == call[k].request
  <1>1. /\ r \in Requests
        /\ call[k].kind \in Reviews
        /\ request[r].status # "ABSENT"
    BY LockedParts DEF CallsInOrder
  <1>2. ASSUME NEW j \in Calls,
               call'[j].kind = "bundle" \/ call'[j].phase = "locked"
        PROVE  call'[j].request # r
    <2>1. j # k /\ call'[j] = call[j]
      BY <1>2, Finished, IdleCallType
    <2> QED
      BY <1>1, <1>2, <2>1 DEF CallsInOrder
  <1>3. \A j \in Calls : call'[j] \in {call[j], IdleCall}
    BY Finished
  <1> HIDE DEF r
  <1>4. /\ \A q \in Requests \ {r} : request'[q] = request[q]
        /\ request'[r].status # "ABSENT"
    BY DEF r
  <1> QED
    BY <1>1, <1>2, <1>3, <1>4, OrderStep

-----------------------------------------------------------------------------
(* Every step keeps the inductive invariant *)

LEMMA InitIInv == Init => IInv
  <1> SUFFICES ASSUME Init PROVE IInv
    OBVIOUS
  <1>1. CallsInOrder
    BY IdleCallType DEF Init, CallsInOrder, Reviews
  <1>2. \A r \in Requests : request[r].status = "ABSENT" /\ audit[r] = <<>>
    BY DEF Init, NoRequest
  <1>3. RowsMatchTrails
    BY <1>2, EmptyTrail DEF RowsMatchTrails, Matches
  <1> QED
    BY <1>1, <1>3, InitTypeOK DEF IInv

LEMMA StartsKeepIInv ==
    ASSUME IInv, TypeOK', NEW k \in Calls, ClientCall(k) \/ OwnerCall(k)
    PROVE  IInv'
  <1> USE DEF IInv
  <1>1. request' = request /\ audit' = audit
    BY DEF ClientCall, OwnerCall, StartBundle, StartResult, StartPreview,
           StartApprove, BeginReview
  <1>2. RowsMatchTrails'
    BY <1>1 DEF RowsMatchTrails
  <1>3. ASSUME NEW c \in Clients, NEW r \in Requests, StartBundle(k, c, r)
        PROVE  CallsInOrder'
    <2>1. /\ \A j \in Calls \ {k} : call'[j] = call[j]
          /\ call'[k].kind = "bundle" /\ call'[k].request = r
          /\ call'[k].phase # "locked"
      BY <1>3, IdleCallType DEF StartBundle, TypeOK, CallRecords
    <2>2. /\ request[r].status = "ABSENT"
          /\ \A j \in Calls : call[j].kind = "bundle" => call[j].request # r
      BY <1>3 DEF StartBundle
    <2> QED
      BY <1>1, <2>1, <2>2, CallStep DEF Reviews
  <1>4. ASSUME NEW c \in Clients, NEW r \in Requests, StartResult(k, c, r)
        PROVE  CallsInOrder'
    <2>1. /\ \A j \in Calls \ {k} : call'[j] = call[j]
          /\ call'[k].kind = "result" /\ call'[k].request = r
          /\ call'[k].phase # "locked"
          /\ request[r].status # "ABSENT"
      BY <1>4, IdleCallType DEF StartResult, TypeOK, CallRecords
    <2> QED
      BY <1>1, <2>1, CallStep DEF Reviews
  <1>5. ASSUME NEW r \in Requests, NEW kind \in {"preview", "approve"},
               NEW revision, NEW selected,
               BeginReview(k, r, kind, revision, selected)
        PROVE  CallsInOrder'
    <2>1. /\ \A j \in Calls \ {k} : call'[j] = call[j]
          /\ call'[k].kind = kind /\ call'[k].request = r
          /\ call'[k].phase # "locked"
          /\ request[r].status # "ABSENT"
      BY <1>5, IdleCallType DEF BeginReview, TypeOK, CallRecords
    <2> QED
      BY <1>1, <2>1, CallStep DEF Reviews
  <1>6. CallsInOrder'
    BY <1>3, <1>4, <1>5 DEF ClientCall, OwnerCall, StartPreview, StartApprove
  <1> QED
    BY <1>2, <1>6

LEMMA ReadsKeepIInv ==
    ASSUME IInv, TypeOK', NEW k \in Calls,
           \/ Retrieve(k) \/ ReadCandidates(k) \/ AbortBundle(k) \/ Lock(k)
           \/ Refuse(k) \/ RefuseApproval(k)
    PROVE  IInv'
  <1> USE DEF IInv
  <1>1. request' = request /\ audit' = audit
    BY DEF Retrieve, ReadCandidates, AbortBundle, Lock, Refuse, RefuseApproval
  <1>2. RowsMatchTrails'
    BY <1>1 DEF RowsMatchTrails
  <1>3. CASE Retrieve(k) \/ ReadCandidates(k)
    <2>1. /\ \A j \in Calls \ {k} : call'[j] = call[j]
          /\ call'[k].kind = call[k].kind /\ call'[k].request = call[k].request
          /\ call'[k].phase # "locked"
      <3>1. CASE Retrieve(k)
        <4>1. PICK found : call' = [call EXCEPT ![k] =
                 [@ EXCEPT !.candidates = found, !.phase = "retrieved"]]
          BY <3>1 DEF Retrieve
        <4> QED
          BY <4>1, LockedParts DEF TypeOK, CallRecords
      <3>2. CASE ReadCandidates(k)
        <4>1. PICK live : call' = [call EXCEPT ![k] =
                 [@ EXCEPT !.phase = "read", !.live = live]]
          BY <3>2 DEF ReadCandidates
        <4> QED
          BY <4>1, LockedParts DEF TypeOK, CallRecords
      <3> QED
        BY <1>3, <3>1, <3>2
    <2> QED
      BY <1>1, <1>2, <2>1, CallStep DEF CallsInOrder
  <1>4. CASE Lock(k)
    <2>1. /\ \A j \in Calls \ {k} : call'[j] = call[j]
          /\ call'[k].kind = call[k].kind /\ call'[k].request = call[k].request
          /\ call'[k].client = call[k].client
      BY <1>4, LockedParts DEF Lock, TypeOK, CallRecords
    <2>2. /\ call[k].kind \in Reviews /\ RowFound(k) /\ StatusFits(k)
          /\ \A j \in Calls :
                call[j].phase = "locked" => call[j].request # call[k].request
      BY <1>4 DEF Lock, AtLock, Locked, Reviews
    <2>3. RowFound(k)' /\ StatusFits(k)'
      BY <1>1, <2>1, <2>2 DEF RowFound, StatusFits
    <2>4. call[k].kind # "bundle" /\ request[call[k].request].status # "ABSENT"
      BY <2>2 DEF CallsInOrder, Reviews
    <2> QED
      BY <1>1, <1>2, <2>1, <2>2, <2>3, <2>4, CallStep
  <1>5. CASE AbortBundle(k) \/ Refuse(k) \/ RefuseApproval(k)
    <2>1. Finish(k)
      BY <1>5 DEF AbortBundle, Refuse, RefuseApproval
    <2> QED
      BY <1>1, <1>2, <2>1, Finished, IdleCallType, CallStep DEF Reviews
  <1> QED
    BY <1>2, <1>3, <1>4, <1>5

LEMMA CommitKeepsIInv ==
    ASSUME IInv, TypeOK', NEW k \in Calls, CommitBundle(k)
    PROVE  IInv'
  <1> USE DEF IInv
  <1> DEFINE r == call[k].request
             c == call[k].client
  <1>1. r \in Requests /\ c \in Clients
    BY LockedParts
  <1>2. call[k].kind = "bundle" /\ request[r].status = "ABSENT" /\ Finish(k)
    BY DEF CommitBundle, CallsInOrder
  <1>3. PICK new \in RequestRows, disclosed \in Snapshots :
           /\ request' = [request EXCEPT ![r] = new]
           /\ \/ /\ new.status = "FULFILLED"
                 /\ Record(r, Event("DISCLOSURE", c, disclosed))
              \/ /\ new.status = "DENIED"
                 /\ Record(r, Event("DENIED", c, EmptySnapshot))
              \/ new.status = "NEEDS_USER_APPROVAL" /\ UNCHANGED audit
    BY CommitEffect
  <1>4. /\ \A q \in Requests \ {r} : request'[q] = request[q]
        /\ request'[r] = new /\ request'[r].status # "ABSENT"
    BY <1>1, <1>3 DEF TypeOK
  <1>5. CallsInOrder'
    <2>1. \A j \in Calls : call'[j] \in {call[j], IdleCall}
      BY <1>2, Finished
    <2>2. ASSUME NEW j \in Calls,
                 call'[j].kind = "bundle" \/ call'[j].phase = "locked"
          PROVE  call'[j].request # r
      <3>1. j # k /\ call'[j] = call[j]
        BY <1>2, <2>2, Finished, IdleCallType
      <3> QED
        BY <1>2, <2>2, <3>1 DEF CallsInOrder
    <2> QED
      BY <1>1, <1>4, <2>1, <2>2, OrderStep
  <1>6. audit[r] = <<>>
    BY <1>1, <1>2 DEF RowsMatchTrails, Matches
  <1>7. /\ \A q \in Requests \ {r} : audit'[q] = audit[q]
        /\ Matches(request'[r], audit'[r]) /\ Sound(audit'[r])
    <2>1. CASE new.status = "NEEDS_USER_APPROVAL"
      BY <1>1, <1>3, <1>4, <1>6, <2>1, EmptyTrail DEF Matches
    <2>2. ASSUME NEW type \in {"DISCLOSURE", "DENIED"}, NEW s,
                 Record(r, Event(type, c, s)),
                 new.status \in {"FULFILLED", "DENIED"}
          PROVE  /\ \A q \in Requests \ {r} : audit'[q] = audit[q]
                 /\ Matches(request'[r], audit'[r]) /\ Sound(audit'[r])
      <3> DEFINE event == Event(type, c, s)
      <3>1. /\ audit'[r] = Append(<<>>, event)
            /\ \A q \in Requests \ {r} : audit'[q] = audit[q]
        BY <1>1, <1>6, <2>2 DEF Record, TypeOK
      <3>2. event.type = type
        BY EventFields
      <3> HIDE DEF event
      <3>3. event \in AuditEvents
        <4>1. audit'[r] \in Seq(AuditEvents)
          BY <1>1 DEF TypeOK
        <4>2. audit'[r] = <<event>>
          BY <3>1
        <4> QED
          BY <4>1, <4>2
      <3>4. Sound(Append(<<>>, event))
        <4>1. event.type # "ONE_TIME_DISCLOSURE" /\ <<>> \in Seq(AuditEvents)
          BY <2>2, <3>2
        <4> QED
          BY <3>3, <4>1, EmptyTrail, AppendToOpen
      <3> QED
        BY <1>4, <2>2, <3>1, <3>4 DEF Matches
    <2> QED
      BY <1>3, <2>1, <2>2
  <1>8. RowsMatchTrails'
    BY <1>1, <1>4, <1>7, TrailStep
  <1> QED
    BY <1>5, <1>8

\* One event, of a kind that does not end the trail or that ends it properly,
\* is added to the open trail of r.
LEMMA RecordOpen ==
    ASSUME TypeOK, NEW r \in Requests, Open(audit[r]),
           NEW event \in AuditEvents, Record(r, event),
           event.type = "ONE_TIME_DISCLOSURE" =>
              /\ audit[r] # <<>>
              /\ audit[r][Len(audit[r])] =
                    Event("APPROVED", event.client, event.snapshot)
    PROVE  /\ audit'[r] = Append(audit[r], event)
           /\ \A q \in Requests \ {r} : audit'[q] = audit[q]
           /\ Sound(audit'[r])
           /\ ~ Ends(event) => Open(audit'[r])
  <1>1. /\ audit'[r] = Append(audit[r], event)
        /\ \A q \in Requests \ {r} : audit'[q] = audit[q]
        /\ audit[r] \in Seq(AuditEvents)
    BY DEF Record, TypeOK
  <1> QED
    BY <1>1, AppendToOpen

\* A row sent back to review awaits it, whatever it was bound to.
LEMMA FreshStatus ==
    ASSUME NEW row \in RequestRows, NEW v
    PROVE  FreshReview(row, v).status = "NEEDS_USER_APPROVAL"
           /\ FreshReview(row, v).client = row.client
  BY DEF FreshReview, RequestRows

\* Sending an open request back to review, with the event that says so.
LEMMA InvalidationKeepsTrails ==
    ASSUME TypeOK, RowsMatchTrails, NEW r \in Requests, NEW a,
           Open(audit[r]),
           request' = [request EXCEPT ![r] = Invalidated(request[r], a)],
           Record(r, Event("INVALIDATED", request[r].client, EmptySnapshot))
    PROVE  /\ RowsMatchTrails'
           /\ \A q \in Requests \ {r} : request'[q] = request[q]
           /\ request'[r].status # "ABSENT"
  <1> DEFINE event == Event("INVALIDATED", request[r].client, EmptySnapshot)
  <1>1. request[r] \in RequestRows /\ request[r].client \in Clients
    BY DEF TypeOK, RequestRows
  <1>2. /\ event \in AuditEvents /\ event.type = "INVALIDATED"
        /\ ~ Ends(event)
    BY <1>1, NullRows, EventType, EventFields DEF Ends, Disclosures
  <1> HIDE DEF event
  <1>3. Record(r, event)
    BY DEF event
  <1>4. /\ \A q \in Requests \ {r} : audit'[q] = audit[q]
        /\ Sound(audit'[r]) /\ Open(audit'[r])
    BY <1>2, <1>3, RecordOpen
  <1>5. /\ \A q \in Requests \ {r} : request'[q] = request[q]
        /\ request'[r].status = "NEEDS_USER_APPROVAL"
    BY <1>1, FreshStatus DEF TypeOK, Invalidated
  <1>6. Matches(request'[r], audit'[r])
    BY <1>4, <1>5 DEF Matches
  <1> QED
    BY <1>4, <1>5, <1>6, TrailStep

LEMMA ReviewsKeepIInv ==
    ASSUME IInv, TypeOK', NEW k \in Calls,
           \/ Lapse(k) \/ Preview(k) \/ Approve(k) \/ Deliver(k) \/ Withdraw(k)
    PROVE  IInv'
  <1> USE DEF IInv
  <1> DEFINE r == call[k].request
             a == call[k].authority
  <1>1. /\ r \in Requests /\ request[r] \in RequestRows
        /\ request[r].client \in Clients /\ a \in Authorities
        /\ request[r].reviewSnapshot \in Snapshots
        /\ audit[r] \in Seq(AuditEvents)
    BY LockedParts DEF TypeOK
  <1>2. Matches(request[r], audit[r])
    BY <1>1 DEF RowsMatchTrails
  <1>3. Finish(k)
    BY DEF Lapse, Preview, Approve, Deliver, Withdraw
  <1>4. call[k].phase = "locked" => RowFound(k) /\ StatusFits(k)
    BY DEF CallsInOrder
  <1>5. CASE Lapse(k)
    <2>1. /\ request[r].status = "APPROVED"
          /\ \A j \in Calls : call[j].phase = "locked" => call[j].request # r
      BY <1>5 DEF Lapse, AtLock, ApprovalLapsed, StatusFits, Locked
    <2>2. /\ \A q \in Requests \ {r} : request'[q] = request[q]
          /\ request'[r].status = "NEEDS_USER_APPROVAL"
          /\ audit' = audit
      BY <1>1, <1>5, FreshStatus DEF Lapse, TypeOK
    <2>3. ASSUME NEW j \in Calls,
                 call'[j].kind = "bundle" \/ call'[j].phase = "locked"
          PROVE  call'[j].request # r
      <3>1. j # k /\ call'[j] = call[j]
        BY <1>3, <2>3, Finished, IdleCallType
      <3> QED
        BY <2>1, <2>3, <3>1 DEF CallsInOrder
    <2>4. \A j \in Calls : call'[j] \in {call[j], IdleCall}
      BY <1>3, Finished
    <2> HIDE DEF r
    <2>5. CallsInOrder'
      BY <1>1, <2>2, <2>3, <2>4, OrderStep
    <2>6. Matches(request'[r], audit'[r]) /\ Sound(audit'[r])
      BY <1>1, <1>2, <2>1, <2>2 DEF Matches, RowsMatchTrails
    <2> QED
      BY <1>1, <2>2, <2>5, <2>6, TrailStep
  <1>6. CASE Preview(k)
    <2>1. CASE PermissionsChanged(request[r], a)
      <3>1. /\ request' = [request EXCEPT ![r] = Invalidated(request[r], a)]
            /\ Record(r, Event("INVALIDATED", request[r].client, EmptySnapshot))
            /\ call[k].phase = "locked"
        BY <1>6, <2>1 DEF Preview
      <3>2. Open(audit[r])
        BY <1>2, <2>1 DEF PermissionsChanged, Matches
      <3>3. /\ RowsMatchTrails'
            /\ \A q \in Requests \ {r} : request'[q] = request[q]
            /\ request'[r].status # "ABSENT"
        BY <1>1, <3>1, <3>2, InvalidationKeepsTrails
      <3> QED
        BY <1>3, <3>1, <3>3, LockedStep
    <2>2. CASE ~ PermissionsChanged(request[r], a)
      <3>1. request' = request /\ audit' = audit
        BY <1>6, <2>2 DEF Preview
      <3>2. RowsMatchTrails'
        BY <3>1 DEF RowsMatchTrails
      <3>3. CallsInOrder'
        BY <1>3, <3>1, Finished, IdleCallType, CallStep DEF Reviews
      <3> QED
        BY <3>2, <3>3
    <2> QED
      BY <2>1, <2>2
  <1>7. CASE Approve(k)
    <2> DEFINE s == PreviewSnapshot(request[r], a, call[k].candidates)
               granted == Selection(s, call[k].selected)
               changed == PermissionsChanged(request[r], a)
               row == IF changed THEN Invalidated(request[r], a) ELSE request[r]
               approval == Event("APPROVED", row.client, granted)
               invalidation == Event("INVALIDATED", row.client, EmptySnapshot)
               new == [row EXCEPT !.status = "APPROVED",
                                  !.approvalExpiresAt = now + ApprovalTtl,
                                  !.reviewSnapshot = granted]
               before == IF changed THEN Append(audit[r], invalidation) ELSE audit[r]
    <2>1. /\ request' = [request EXCEPT ![r] = new]
          /\ audit' = [audit EXCEPT ![r] = Append(before, approval)]
          /\ call[k].phase = "locked" /\ call[k].kind = "approve"
      BY <1>7 DEF Approve
    <2>2. granted \in Snapshots
      BY <1>1, LockedParts, SnapshotType, SelectionType
    <2> HIDE DEF s, granted
    <2>3. row \in RequestRows /\ row.client = request[r].client
      BY <1>1, FreshStatus, RowTypes DEF Invalidated
    <2> HIDE DEF row
    <2>4. /\ new.status = "APPROVED" /\ new.client = row.client
          /\ new.reviewSnapshot = granted
      BY <2>3 DEF RequestRows
    <2>5. /\ approval \in AuditEvents /\ invalidation \in AuditEvents
          /\ approval.type = "APPROVED" /\ invalidation.type = "INVALIDATED"
          /\ approval = Event("APPROVED", new.client, new.reviewSnapshot)
      BY <1>1, <2>2, <2>3, <2>4, NullRows, EventType, EventFields
    <2>6. ~ Ends(approval) /\ ~ Ends(invalidation)
      BY <2>5 DEF Ends, Disclosures
    <2> HIDE DEF new, approval, invalidation, changed
    <2>7. Open(audit[r])
      BY <1>2, <1>4, <2>1 DEF StatusFits, Matches
    <2>8. before \in Seq(AuditEvents) /\ Open(before)
      BY <1>1, <2>5, <2>6, <2>7, AppendToOpen
    <2> HIDE DEF before
    <2>9. /\ Append(before, approval) # <<>>
          /\ Append(before, approval)[Len(Append(before, approval))] = approval
          /\ Sound(Append(before, approval)) /\ Open(Append(before, approval))
      BY <2>5, <2>6, <2>8, AppendToOpen
    <2>10. /\ request'[r] = new /\ audit'[r] = Append(before, approval)
           /\ \A q \in Requests \ {r} : request'[q] = request[q] /\ audit'[q] = audit[q]
      BY <1>1, <2>1 DEF TypeOK
    <2>11. Matches(request'[r], audit'[r]) /\ Sound(audit'[r])
      BY <2>4, <2>5, <2>9, <2>10 DEF Matches
    <2>12. CallsInOrder'
      BY <1>3, <2>1, <2>4, <2>10, LockedStep
    <2> QED
      BY <1>1, <2>10, <2>11, <2>12, TrailStep
  <1>8. CASE Deliver(k)
    <2> DEFINE new == [request[r] EXCEPT !.status = "FULFILLED",
                                         !.reviewSnapshot = EmptySnapshot]
               event == Event("ONE_TIME_DISCLOSURE", call[k].client,
                              request[r].reviewSnapshot)
    <2>1. /\ request' = [request EXCEPT ![r] = new] /\ Record(r, event)
          /\ call[k].phase = "locked" /\ call[k].kind = "result"
      BY <1>8 DEF Deliver
    <2>2. /\ request[r].status = "APPROVED"
          /\ request[r].client = call[k].client
      BY <1>4, <2>1 DEF StatusFits, RowFound
    <2>3. /\ event \in AuditEvents
          /\ event.client = request[r].client
          /\ event.snapshot = request[r].reviewSnapshot
      BY <1>1, <2>2, EventType, EventFields
    <2>4. new.status = "FULFILLED"
      BY <1>1 DEF RequestRows
    <2> HIDE DEF new, event
    <2>5. /\ Open(audit[r]) /\ audit[r] # <<>>
          /\ audit[r][Len(audit[r])] = Event("APPROVED", event.client, event.snapshot)
      BY <1>2, <2>2, <2>3 DEF Matches
    <2>6. /\ \A q \in Requests \ {r} : audit'[q] = audit[q]
          /\ Sound(audit'[r])
      BY <1>1, <2>1, <2>3, <2>5, RecordOpen
    <2>7. /\ request'[r] = new
          /\ \A q \in Requests \ {r} : request'[q] = request[q]
      BY <1>1, <2>1 DEF TypeOK
    <2>8. Matches(request'[r], audit'[r])
      BY <2>4, <2>7 DEF Matches
    <2>9. CallsInOrder'
      BY <1>3, <2>1, <2>4, <2>7, LockedStep
    <2> QED
      BY <1>1, <2>6, <2>7, <2>8, <2>9, TrailStep
  <1>9. CASE Withdraw(k)
    <2>1. /\ request' = [request EXCEPT ![r] = Invalidated(request[r], a)]
          /\ Record(r, Event("INVALIDATED", request[r].client, EmptySnapshot))
          /\ call[k].phase = "locked" /\ call[k].kind = "result"
      BY <1>9 DEF Withdraw
    <2>2. Open(audit[r])
      BY <1>2, <1>4, <2>1 DEF StatusFits, Matches
    <2>3. /\ RowsMatchTrails'
          /\ \A q \in Requests \ {r} : request'[q] = request[q]
          /\ request'[r].status # "ABSENT"
      BY <1>1, <2>1, <2>2, InvalidationKeepsTrails
    <2> QED
      BY <1>3, <2>1, <2>3, LockedStep
  <1> QED
    BY <1>5, <1>6, <1>7, <1>8, <1>9

\* Rows that no call has locked change, and none is created.
LEMMA UnlockedStep ==
    ASSUME TypeOK, CallsInOrder, call' = call,
           \A r \in Requests :
              /\ Locked(r) => request'[r] = request[r]
              /\ request'[r].status = "ABSENT" <=> request[r].status = "ABSENT"
    PROVE  CallsInOrder'
  <1>1. \A k \in Calls : call[k].request \in Requests
    BY LockedParts
  <1>2. ASSUME NEW k \in Calls, call[k].phase = "locked"
        PROVE  call[k].kind \in Reviews /\ RowFound(k)' /\ StatusFits(k)'
    <2>1. request'[call[k].request] = request[call[k].request]
      BY <1>1, <1>2 DEF Locked
    <2> QED
      BY <1>2, <2>1 DEF CallsInOrder, RowFound, StatusFits
  <1> QED
    BY <1>1, <1>2 DEF CallsInOrder

LEMMA EditsKeepIInv ==
    ASSUME IInv, TypeOK', Edit \/ Tick
    PROVE  IInv'
  <1> USE DEF IInv
  <1>1. ASSUME request' = request, audit' = audit, call' = call
        PROVE  IInv'
    <2>1. CallsInOrder'
      BY <1>1, UnlockedStep
    <2> QED
      BY <1>1, <2>1 DEF RowsMatchTrails
  <1>2. ASSUME NEW r \in Requests, Deny(r)
        PROVE  IInv'
    <2> DEFINE new == [request[r] EXCEPT !.status = "DENIED",
                                         !.reviewSnapshot = EmptySnapshot]
               event == Event("DENIED", request[r].client, EmptySnapshot)
    <2>1. /\ request' = [request EXCEPT ![r] = new] /\ Record(r, event)
          /\ request[r].status = "NEEDS_USER_APPROVAL"
          /\ ~ Locked(r) /\ call' = call
      BY <1>2 DEF Deny
    <2>2. request[r] \in RequestRows /\ request[r].client \in Clients
      BY DEF TypeOK, RequestRows
    <2>3. new.status = "DENIED"
      BY <2>2 DEF RequestRows
    <2>4. event \in AuditEvents /\ event.type = "DENIED"
      BY <2>2, NullRows, EventType, EventFields
    <2> HIDE DEF new, event
    <2>5. Open(audit[r])
      BY <2>1 DEF RowsMatchTrails, Matches
    <2>6. /\ \A q \in Requests \ {r} : audit'[q] = audit[q]
          /\ Sound(audit'[r])
      BY <2>1, <2>4, <2>5, RecordOpen
    <2>7. /\ request'[r] = new
          /\ \A q \in Requests \ {r} : request'[q] = request[q]
      BY <2>1 DEF TypeOK
    <2>8. Matches(request'[r], audit'[r])
      BY <2>3, <2>7 DEF Matches
    <2>9. CallsInOrder'
      BY <2>1, <2>3, <2>7, UnlockedStep
    <2> QED
      BY <2>6, <2>7, <2>8, <2>9, TrailStep
  <1>3. ASSUME NEW c \in Clients, DeletePolicy(c)
        PROVE  IInv'
    <2>1. call' = call /\ audit' = audit
      BY <1>3 DEF DeletePolicy
    <2>2. ASSUME NEW r \in Requests
          PROVE  /\ Locked(r) => request'[r] = request[r]
                 /\ request'[r].status = request[r].status
                 /\ request'[r].client = request[r].client
                 /\ request'[r].reviewSnapshot = request[r].reviewSnapshot
      <3>1. request[r] \in RequestRows
        BY DEF TypeOK
      <3> QED
        BY <1>3, <3>1 DEF DeletePolicy, RequestRows
    <2>3. CallsInOrder'
      BY <2>1, <2>2, UnlockedStep
    <2>4. RowsMatchTrails'
      BY <2>1, <2>2 DEF RowsMatchTrails, Matches
    <2> QED
      BY <2>3, <2>4
  <1>4. ASSUME NEW c \in Clients, DeleteClient(c)
        PROVE  IInv'
    <2> DEFINE deleted == [NoRequest EXCEPT !.status = "DELETED"]
    <2>1. deleted.status = "DELETED"
      BY NullRows DEF RequestRows
    <2>2. /\ request' = [r \in Requests |->
                IF request[r].client = c /\ request[r].status # "ABSENT"
                THEN deleted ELSE request[r]]
          /\ \A r \in Requests : request[r].client = c => ~ Locked(r)
          /\ call' = call /\ audit' = audit
      BY <1>4 DEF DeleteClient
    <2> HIDE DEF deleted
    <2>3. \A r \in Requests :
             /\ Locked(r) => request'[r] = request[r]
             /\ request'[r].status = "ABSENT" <=> request[r].status = "ABSENT"
      BY <2>1, <2>2
    <2>4. CallsInOrder'
      BY <2>2, <2>3, UnlockedStep
    <2>5. RowsMatchTrails'
      BY <2>1, <2>2 DEF RowsMatchTrails, Matches
    <2> QED
      BY <2>4, <2>5
  <1>5. CASE Tick
    BY <1>1, <1>5 DEF Tick
  <1>6. CASE Edit
    BY <1>1, <1>2, <1>3, <1>4, <1>6
       DEF Edit, EditMemory, CreatePolicy, UpdatePolicy, UpdateClient, AwaitLocks
  <1> QED
    BY <1>5, <1>6

LEMMA DeadlockKeepsIInv ==
    ASSUME IInv, TypeOK', NEW k \in Calls, Deadlock(k)
    PROVE  IInv'
  <1> USE DEF IInv
  <1>1. request' = request /\ audit' = audit
    BY DeadlockEffect
  <1>2. RowsMatchTrails'
    BY <1>1 DEF RowsMatchTrails
  <1>3. CASE UNCHANGED call
    BY <1>1, <1>2, <1>3, UnlockedStep
  <1>4. CASE Finish(k)
    BY <1>1, <1>2, <1>4, Finished, IdleCallType, CallStep DEF Reviews
  <1> QED
    BY <1>3, <1>4, DeadlockEffect

LEMMA NextIInv == IInv /\ [Next]_vars => IInv'
  <1> SUFFICES ASSUME IInv, [Next]_vars PROVE IInv'
    OBVIOUS
  <1>1. TypeOK'
    BY NextTypeOK DEF IInv
  <1>2. ASSUME NEW k \in Calls, Advance(k)
        PROVE  IInv'
    BY <1>1, <1>2, ReadsKeepIInv, CommitKeepsIInv, ReviewsKeepIInv DEF Advance
  <1>3. ASSUME NEW k \in Calls, ClientCall(k) \/ OwnerCall(k)
        PROVE  IInv'
    BY <1>1, <1>3, StartsKeepIInv
  <1>4. CASE Edit \/ Tick
    BY <1>1, <1>4, EditsKeepIInv
  <1>5. CASE UNCHANGED vars
    BY <1>1, <1>5, UnlockedStep DEF vars, IInv, RowsMatchTrails
  <1>6. ASSUME NEW k \in Calls, Deadlock(k)
        PROVE  IInv'
    BY <1>1, <1>6, DeadlockKeepsIInv
  <1> QED
    BY <1>2, <1>3, <1>4, <1>5, <1>6 DEF Next

-----------------------------------------------------------------------------
(* Grants *)

\* What a row agrees with: the policies and the clock it is read under.
RowAgrees(row, policies, time) ==
    /\ row.status = "ABSENT" => row.policyId = Null
    /\ row.policyId # Null => row.policyId = policies[row.client].id
    /\ row.status # "APPROVED" => row.reviewSnapshot = EmptySnapshot
    /\ row.status = "APPROVED" =>
          /\ row.reviewSnapshot.items # {}
          /\ row.approvalExpiresAt # Null
          /\ row.policyVersion = row.reviewSnapshot.policyVersion
          /\ row.policyId \in {Null, row.reviewSnapshot.policyId}
    /\ \A m \in Memories : row.reviewSnapshot.versions[m] <= time

\* What a call read, it read in the past; an approval selects something.
CallAgrees(record, time) ==
    /\ record.authority.at <= time
    /\ record.kind = "approve" => record.selected # {}

\* The grant of a locked row is not younger than the authority read with it.
LockAgrees(k) ==
    call[k].phase = "locked" =>
       \A m \in Memories :
          request[call[k].request].reviewSnapshot.versions[m] <= call[k].authority.at

\* The strengthening the properties of grants need: versions are instants of the
\* past, and a row stores a grant exactly while it is approved.
GrantsAgree ==
    /\ \A m \in Memories : memory[m].version <= now
    /\ \A r \in Requests : RowAgrees(request[r], policy, now)
    /\ \A k \in Calls : CallAgrees(call[k], now) /\ LockAgrees(k)

\* The parts of an approval: it grants the selected part of the revision the owner
\* was shown, under the authority read with the lock.
LEMMA ApproveEffect ==
    ASSUME IInv, GrantsAgree, NEW k \in Calls, Approve(k)
    PROVE  \E new \in RequestRows, granted \in Snapshots,
              before \in {audit[call[k].request],
                          Append(audit[call[k].request],
                                 Event("INVALIDATED",
                                       request[call[k].request].client,
                                       EmptySnapshot))} :
              /\ request[call[k].request].status = "NEEDS_USER_APPROVAL"
              /\ request' = [request EXCEPT ![call[k].request] = new]
              /\ audit' = [audit EXCEPT ![call[k].request] =
                    Append(before, Event("APPROVED",
                                         request[call[k].request].client, granted))]
              /\ granted = Selection(call[k].revision, call[k].selected)
              /\ new.status = "APPROVED"
              /\ new.client = request[call[k].request].client
              /\ new.reviewSnapshot = granted
              /\ new.policyId # Null
              /\ new.policyId = request[call[k].request].policyId
              /\ RowAgrees(new, policy, now)
  <1> USE DEF IInv
  <1> DEFINE r == call[k].request
             a == call[k].authority
             s == PreviewSnapshot(request[r], a, call[k].candidates)
             granted == Selection(s, call[k].selected)
             changed == PermissionsChanged(request[r], a)
             row == IF changed THEN Invalidated(request[r], a) ELSE request[r]
             approval == Event("APPROVED", row.client, granted)
             invalidation == Event("INVALIDATED", row.client, EmptySnapshot)
             new == [row EXCEPT !.status = "APPROVED",
                                !.approvalExpiresAt = now + ApprovalTtl,
                                !.reviewSnapshot = granted]
             before == IF changed THEN Append(audit[r], invalidation) ELSE audit[r]
  <1>1. /\ request' = [request EXCEPT ![r] = new]
        /\ audit' = [audit EXCEPT ![r] = Append(before, approval)]
        /\ call[k].phase = "locked" /\ call[k].kind = "approve"
    BY DEF Approve
  <1>2. /\ Bound(request[r], a) /\ s = call[k].revision
    BY DEF Approve, Approvable
  <1>3. request[r].status = "NEEDS_USER_APPROVAL"
    BY <1>1 DEF CallsInOrder, StatusFits
  <1>4. /\ r \in Requests /\ request[r] \in RequestRows /\ a \in Authorities
        /\ s \in Snapshots /\ granted \in Snapshots
        /\ request[r].client \in Clients
        /\ request[r].policyId \in Nat /\ request[r].policyVersion \in Nat
        /\ a.policyVersion \in Nat
    BY LockedParts, SnapshotType, SelectionType DEF RequestRows, Authorities
  <1>5. /\ s.policyId = a.policyId /\ s.policyVersion = a.policyVersion
        /\ \A m \in Memories : s.versions[m] \in {memory[m].version, Null}
    BY <1>3 DEF PreviewSnapshot
  <1>6. /\ granted.items = call[k].selected
        /\ granted.policyId = a.policyId /\ granted.policyVersion = a.policyVersion
        /\ \A m \in Memories : granted.versions[m] \in {memory[m].version, Null}
    BY <1>4, <1>5 DEF Selection, Snapshots
  <1>7. granted.items # {}
    BY <1>1, <1>6 DEF GrantsAgree, CallAgrees
  <1>8. granted = Selection(call[k].revision, call[k].selected)
    BY <1>2
  <1> HIDE DEF s, granted
  <1>9. \A m \in Memories : granted.versions[m] <= now
    <2>1. Null <= now
      BY DEF TypeOK
    <2> QED
      BY <1>6, <2>1 DEF GrantsAgree
  <1>10. /\ request[r].policyId = a.policyId /\ a.policyId # Null
         /\ request[r].policyId = policy[request[r].client].id
    BY <1>2, <1>4 DEF Bound, GrantsAgree, RowAgrees
  <1>11. /\ row \in RequestRows /\ row.client = request[r].client
         /\ row.policyId = a.policyId
         /\ row.policyVersion = a.policyVersion
    <2>1. CASE changed
      <3>1. row = Invalidated(request[r], a) /\ row \in RequestRows
        BY <1>4, <2>1, RowTypes
      <3>2. PICK old \in RequestRows : old = request[r]
        BY <1>4
      <3>3. row = FreshReview(old, a.policyVersion)
        BY <1>2, <3>1, <3>2 DEF Invalidated
      <3>4. row.client = old.client /\ row.policyId = old.policyId
            /\ row.policyVersion = a.policyVersion
        BY <3>2, <3>3 DEF FreshReview, RequestRows
      <3> QED
        BY <1>10, <3>1, <3>2, <3>4
    <2>2. CASE ~ changed
      BY <1>2, <1>3, <1>4, <1>10, <2>2 DEF PermissionsChanged
    <2> QED
      BY <2>1, <2>2
  <1> HIDE DEF row, changed
  <1>12. /\ new \in RequestRows
         /\ new.status = "APPROVED" /\ new.client = row.client
         /\ new.reviewSnapshot = granted
         /\ new.policyId = row.policyId /\ new.policyVersion = row.policyVersion
         /\ new.approvalExpiresAt = now + ApprovalTtl
    <2>1. now + ApprovalTtl \in Nat
      BY DisclosureAssumption DEF TypeOK
    <2> QED
      BY <1>4, <1>11, <2>1 DEF RequestRows, RequestStatuses
  <1>13. now + ApprovalTtl # Null
    BY DisclosureAssumption DEF TypeOK
  <1> HIDE DEF new
  <1>14. RowAgrees(new, policy, now)
    BY <1>6, <1>7, <1>9, <1>10, <1>11, <1>12, <1>13 DEF RowAgrees
  <1>15. before \in {audit[r], Append(audit[r], Event("INVALIDATED",
                                            request[r].client, EmptySnapshot))}
    BY <1>11
  <1>16. approval = Event("APPROVED", request[r].client, granted)
    BY <1>11
  <1> HIDE DEF before, approval
  <1> QED
    BY <1>1, <1>3, <1>4, <1>8, <1>10, <1>11, <1>12, <1>14, <1>15, <1>16

\* A row that no longer stores a grant, bound as before.
LEMMA ClearedRow ==
    ASSUME GrantsAgree, TypeOK, NEW r \in Requests, NEW new \in RequestRows,
           new.status \notin {"ABSENT", "APPROVED"},
           new.client = request[r].client, new.policyId = request[r].policyId,
           new.reviewSnapshot = EmptySnapshot
    PROVE  RowAgrees(new, policy, now)
  <1>1. \A m \in Memories : EmptySnapshot.versions[m] = Null
    BY DEF EmptySnapshot
  <1>2. now \in Nat
    BY DEF TypeOK
  <1> QED
    BY <1>1, <1>2 DEF GrantsAgree, RowAgrees

\* The rows that review, collection and denial leave without a grant.
LEMMA ClearedRows ==
    ASSUME GrantsAgree, TypeOK, NEW r \in Requests
    PROVE  /\ \A v \in Nat : RowAgrees(FreshReview(request[r], v), policy, now)
           /\ \A a \in Authorities : RowAgrees(Invalidated(request[r], a), policy, now)
           /\ \A status \in {"FULFILLED", "DENIED"} :
                 RowAgrees([request[r] EXCEPT !.status = status,
                                              !.reviewSnapshot = EmptySnapshot],
                           policy, now)
  <1>1. request[r] \in RequestRows /\ request[r].policyVersion \in Nat
    BY DEF TypeOK, RequestRows
  <1>2. ASSUME NEW v \in Nat
        PROVE  RowAgrees(FreshReview(request[r], v), policy, now)
    <2> DEFINE new == FreshReview(request[r], v)
    <2>1. /\ new \in RequestRows /\ new.status = "NEEDS_USER_APPROVAL"
          /\ new.client = request[r].client /\ new.policyId = request[r].policyId
          /\ new.reviewSnapshot = EmptySnapshot
      BY <1>1, NullRows DEF FreshReview, RequestRows, RequestStatuses
    <2> HIDE DEF new
    <2>2. RowAgrees(new, policy, now)
      BY <2>1, ClearedRow
    <2> QED
      BY <2>2 DEF new
  <1>3. ASSUME NEW a \in Authorities
        PROVE  RowAgrees(Invalidated(request[r], a), policy, now)
    BY <1>1, <1>2 DEF Invalidated, Authorities
  <1>4. ASSUME NEW status \in {"FULFILLED", "DENIED"}
        PROVE  RowAgrees([request[r] EXCEPT !.status = status,
                                            !.reviewSnapshot = EmptySnapshot],
                         policy, now)
    <2> DEFINE new == [request[r] EXCEPT !.status = status,
                                         !.reviewSnapshot = EmptySnapshot]
    <2>1. /\ new \in RequestRows /\ new.status = status
          /\ new.client = request[r].client /\ new.policyId = request[r].policyId
          /\ new.reviewSnapshot = EmptySnapshot
      BY <1>1, NullRows DEF RequestRows, RequestStatuses
    <2> HIDE DEF new
    <2>2. RowAgrees(new, policy, now)
      BY <2>1, ClearedRow
    <2> QED
      BY <2>2 DEF new
  <1> QED
    BY <1>2, <1>3, <1>4

\* Only call k and the row r change; nothing r's lock protects is in progress.
LEMMA RowStep ==
    ASSUME IInv, IInv', GrantsAgree, NEW r \in Requests,
           UNCHANGED <<now, memory, policy>>,
           \A q \in Requests \ {r} : request'[q] = request[q],
           RowAgrees(request'[r], policy', now'),
           \A j \in Calls : call'[j] \in {call[j], IdleCall},
           \A j \in Calls : call'[j].phase = "locked" => call'[j].request # r
    PROVE  GrantsAgree'
  <1> USE DEF IInv
  <1>2. \A q \in Requests : RowAgrees(request'[q], policy', now')
    BY DEF GrantsAgree
  <1>3. IdleCall.authority.at <= now /\ IdleCall.kind # "approve"
    BY DEF IdleCall, NoAuthority, TypeOK
  <1>4. ASSUME NEW j \in Calls
        PROVE  CallAgrees(call'[j], now') /\ LockAgrees(j)'
    <2>1. CallAgrees(call'[j], now')
      BY <1>3 DEF GrantsAgree, CallAgrees
    <2>2. LockAgrees(j)'
      <3> SUFFICES ASSUME call'[j].phase = "locked" PROVE LockAgrees(j)'
        BY DEF LockAgrees
      <3>1. call'[j] = call[j]
        BY IdleCallType
      <3>2. call[j].request \in Requests \ {r}
        BY <3>1, LockedParts
      <3> QED
        BY <3>1, <3>2 DEF GrantsAgree, LockAgrees
    <2> QED
      BY <2>1, <2>2
  <1> QED
    BY <1>2, <1>4 DEF GrantsAgree

\* No row changes; call k moves on.
LEMMA GrantCallStep ==
    ASSUME IInv, GrantsAgree, NEW k \in Calls,
           UNCHANGED <<now, memory, policy, request>>,
           \A j \in Calls \ {k} : call'[j] = call[j],
           CallAgrees(call'[k], now'), LockAgrees(k)'
    PROVE  GrantsAgree'
  <1>1. \A r \in Requests : RowAgrees(request'[r], policy', now')
    BY DEF GrantsAgree, RowAgrees
  <1>2. ASSUME NEW j \in Calls
        PROVE  CallAgrees(call'[j], now') /\ LockAgrees(j)'
    <2>1. CASE j = k
      BY <2>1 DEF CallAgrees
    <2>2. CASE j # k
      BY <2>2 DEF GrantsAgree, CallAgrees, LockAgrees
    <2> QED
      BY <2>1, <2>2
  <1> QED
    BY <1>1, <1>2 DEF GrantsAgree

LEMMA StartsKeepGrants ==
    ASSUME IInv, GrantsAgree, NEW k \in Calls, ClientCall(k) \/ OwnerCall(k)
    PROVE  GrantsAgree'
  <1> USE DEF IInv
  <1>1. Null <= now /\ now <= now
    BY DEF TypeOK
  <1>2. UNCHANGED <<now, memory, policy, request>>
    BY DEF ClientCall, OwnerCall, StartBundle, StartResult, StartPreview,
           StartApprove, BeginReview
  <1>3. IdleCall.authority = NoAuthority /\ NoAuthority.at = Null
    BY DEF IdleCall, NoAuthority
  <1>4. ASSUME NEW c \in Clients, NEW r \in Requests, StartBundle(k, c, r)
        PROVE  GrantsAgree'
    <2>1. /\ \A j \in Calls \ {k} : call'[j] = call[j]
          /\ call'[k].kind = "bundle" /\ call'[k].phase # "locked"
          /\ call'[k].authority \in
                {Authority(c), [NoAuthority EXCEPT !.denied = FALSE]}
      BY <1>4, IdleCallType DEF StartBundle, TypeOK, CallRecords
    <2>2. /\ Authority(c).at = now
          /\ [NoAuthority EXCEPT !.denied = FALSE].at = Null
      BY <1>3, NullRows DEF Authority, Authorities
    <2> QED
      BY <1>1, <1>2, <2>1, <2>2, GrantCallStep DEF CallAgrees, LockAgrees
  <1>5. ASSUME NEW c \in Clients, NEW r \in Requests, StartResult(k, c, r)
        PROVE  GrantsAgree'
    <2>1. /\ \A j \in Calls \ {k} : call'[j] = call[j]
          /\ call'[k].kind = "result" /\ call'[k].phase # "locked"
          /\ call'[k].authority = NoAuthority
      BY <1>3, <1>5, IdleCallType DEF StartResult, TypeOK, CallRecords
    <2> QED
      BY <1>1, <1>2, <1>3, <2>1, GrantCallStep DEF CallAgrees, LockAgrees
  <1>6. ASSUME NEW r \in Requests, NEW kind \in {"preview", "approve"},
               NEW revision, NEW selected, kind = "approve" => selected # {},
               BeginReview(k, r, kind, revision, selected)
        PROVE  GrantsAgree'
    <2>1. /\ \A j \in Calls \ {k} : call'[j] = call[j]
          /\ call'[k].kind = kind /\ call'[k].selected = selected
          /\ call'[k].phase # "locked"
          /\ call'[k].authority = NoAuthority
      BY <1>3, <1>6, IdleCallType DEF BeginReview, TypeOK, CallRecords
    <2> QED
      BY <1>1, <1>2, <1>3, <1>6, <2>1, GrantCallStep DEF CallAgrees, LockAgrees
  <1>7. ASSUME NEW r \in Requests, StartPreview(k, r)
        PROVE  GrantsAgree'
    BY <1>6, <1>7 DEF StartPreview
  <1>8. ASSUME NEW r \in Requests, StartApprove(k, r)
        PROVE  GrantsAgree'
    <2>1. PICK selected \in (SUBSET shown[r].items) \ {{}} :
             BeginReview(k, r, "approve", shown[r], selected)
      BY <1>8 DEF StartApprove
    <2>2. selected # {}
      BY <2>1
    <2>3. BeginReview(k, r, "approve", shown[r], selected)
      BY <2>1
    <2> QED
      BY <1>6, <2>2, <2>3
  <1> QED
    BY <1>4, <1>5, <1>7, <1>8 DEF ClientCall, OwnerCall

LEMMA ReadsKeepGrants ==
    ASSUME IInv, GrantsAgree, NEW k \in Calls,
           \/ Retrieve(k) \/ ReadCandidates(k) \/ AbortBundle(k) \/ Lock(k)
           \/ Refuse(k) \/ RefuseApproval(k)
    PROVE  GrantsAgree'
  <1> USE DEF IInv
  <1>1. UNCHANGED <<now, memory, policy, request>>
    BY DEF Retrieve, ReadCandidates, AbortBundle, Lock, Refuse, RefuseApproval
  <1>2. CallAgrees(call[k], now)
    BY DEF GrantsAgree
  <1>3. CASE Retrieve(k)
    <2>1. PICK found : call' = [call EXCEPT ![k] =
             [@ EXCEPT !.candidates = found, !.phase = "retrieved"]]
      BY <1>3 DEF Retrieve
    <2>2. /\ \A j \in Calls \ {k} : call'[j] = call[j]
          /\ call'[k].kind = call[k].kind /\ call'[k].selected = call[k].selected
          /\ call'[k].phase # "locked" /\ call'[k].authority = call[k].authority
      BY <2>1, LockedParts DEF TypeOK, CallRecords
    <2> QED
      BY <1>1, <1>2, <2>2, GrantCallStep DEF CallAgrees, LockAgrees
  <1>4. CASE ReadCandidates(k)
    <2>1. /\ \A j \in Calls \ {k} : call'[j] = call[j]
          /\ call'[k].kind = call[k].kind /\ call'[k].selected = call[k].selected
          /\ call'[k].phase # "locked" /\ call'[k].authority = call[k].authority
      BY <1>4, LockedParts DEF ReadCandidates, TypeOK, CallRecords
    <2> QED
      BY <1>1, <1>2, <2>1, GrantCallStep DEF CallAgrees, LockAgrees
  <1>5. CASE Lock(k)
    <2> DEFINE c == request[call[k].request].client
    <2>1. Authority(c).at = now /\ now <= now
      BY DEF Authority, TypeOK
    <2>2. /\ \A j \in Calls \ {k} : call'[j] = call[j]
          /\ call'[k].kind = call[k].kind /\ call'[k].selected = call[k].selected
          /\ call'[k].request = call[k].request
          /\ call'[k].authority = Authority(c)
      BY <1>5, LockedParts DEF Lock, TypeOK, CallRecords
    <2>3. LockAgrees(k)'
      <3>1. \A m \in Memories :
               request[call[k].request].reviewSnapshot.versions[m] <= now
        BY LockedParts DEF GrantsAgree, RowAgrees
      <3> QED
        BY <1>1, <2>1, <2>2, <3>1 DEF LockAgrees
    <2> QED
      BY <1>1, <1>2, <2>1, <2>2, <2>3, GrantCallStep DEF CallAgrees
  <1>6. CASE AbortBundle(k) \/ Refuse(k) \/ RefuseApproval(k)
    <2>1. Finish(k)
      BY <1>6 DEF AbortBundle, Refuse, RefuseApproval
    <2>2. IdleCall.authority.at <= now
      BY DEF IdleCall, NoAuthority, TypeOK
    <2> QED
      BY <1>1, <2>1, <2>2, Finished, IdleCallType, GrantCallStep
         DEF CallAgrees, LockAgrees
  <1> QED
    BY <1>3, <1>4, <1>5, <1>6

\* The step of call k that rewrites its row leaves no other call at that row's
\* lock.
LEMMA LastHolder ==
    ASSUME IInv, NEW k \in Calls, Finish(k),
           call[k].phase = "locked" \/ ~ Locked(call[k].request)
    PROVE  /\ \A j \in Calls : call'[j] \in {call[j], IdleCall}
           /\ \A j \in Calls :
                 call'[j].phase = "locked" => call'[j].request # call[k].request
  <1> USE DEF IInv
  <1>1. ASSUME NEW j \in Calls, call'[j].phase = "locked"
        PROVE  call'[j].request # call[k].request
    <2>1. j # k /\ call'[j] = call[j]
      BY <1>1, Finished, IdleCallType
    <2> QED
      BY <1>1, <2>1 DEF CallsInOrder, Locked
  <1> QED
    BY <1>1, Finished

LEMMA CommitKeepsGrants ==
    ASSUME IInv, IInv', GrantsAgree, NEW k \in Calls, CommitBundle(k)
    PROVE  GrantsAgree'
  <1> USE DEF IInv
  <1> DEFINE r == call[k].request
  <1>1. r \in Requests
    BY LockedParts
  <1>2. PICK new \in RequestRows :
           /\ request' = [request EXCEPT ![r] = new]
           /\ new.client = call[k].client
           /\ new.policyId \in {Null, policy[call[k].client].id}
           /\ new.reviewSnapshot = EmptySnapshot
           /\ new.status \in {"FULFILLED", "DENIED", "NEEDS_USER_APPROVAL"}
    BY CommitEffect
  <1>3. /\ UNCHANGED <<now, memory, policy>> /\ Finish(k)
        /\ call[k].kind = "bundle" /\ request[r].status = "ABSENT"
    BY DEF CommitBundle, CallsInOrder
  <1>4. /\ \A q \in Requests \ {r} : request'[q] = request[q]
        /\ request'[r] = new
    BY <1>1, <1>2 DEF TypeOK
  <1>5. RowAgrees(new, policy, now)
    <2>1. \A m \in Memories : EmptySnapshot.versions[m] <= now
      BY DEF EmptySnapshot, TypeOK
    <2> QED
      BY <1>2, <2>1 DEF RowAgrees
  <1>6. ~ Locked(r)
    BY <1>3 DEF Locked, CallsInOrder
  <1> HIDE DEF r
  <1>7. /\ \A j \in Calls : call'[j] \in {call[j], IdleCall}
        /\ \A j \in Calls : call'[j].phase = "locked" => call'[j].request # r
    BY <1>3, <1>6, LastHolder DEF r
  <1> QED
    BY <1>1, <1>3, <1>4, <1>5, <1>7, RowStep

LEMMA ReviewsKeepGrants ==
    ASSUME IInv, IInv', GrantsAgree, NEW k \in Calls,
           \/ Lapse(k) \/ Preview(k) \/ Approve(k) \/ Deliver(k) \/ Withdraw(k)
    PROVE  GrantsAgree'
  <1> USE DEF IInv
  <1> DEFINE r == call[k].request
             a == call[k].authority
  <1>1. /\ r \in Requests /\ a \in Authorities
        /\ request[r].policyVersion \in Nat
    BY LockedParts DEF RequestRows
  <1>2. UNCHANGED <<now, memory, policy>> /\ Finish(k)
    BY DEF Lapse, Preview, Approve, Deliver, Withdraw
  <1>3. /\ \A j \in Calls : call'[j] \in {call[j], IdleCall}
        /\ \A j \in Calls : call'[j].phase = "locked" => call'[j].request # r
    <2>1. call[k].phase = "locked" \/ ~ Locked(r)
      BY DEF Lapse, Preview, Approve, Deliver, Withdraw, AtLock
    <2> QED
      BY <1>2, <2>1, LastHolder
  <1>4. ASSUME NEW new, RowAgrees(new, policy, now),
               request' = [request EXCEPT ![r] = new]
        PROVE  GrantsAgree'
    <2>1. /\ \A q \in Requests \ {r} : request'[q] = request[q]
          /\ request'[r] = new
      BY <1>1, <1>4 DEF TypeOK
    <2> HIDE DEF r
    <2> QED
      BY <1>1, <1>2, <1>3, <1>4, <2>1, RowStep
  <1>5. CASE Lapse(k)
    BY <1>1, <1>4, <1>5, ClearedRows DEF Lapse
  <1>6. CASE Preview(k)
    <2>1. CASE PermissionsChanged(request[r], a)
      BY <1>1, <1>4, <1>6, <2>1, ClearedRows DEF Preview
    <2>2. CASE ~ PermissionsChanged(request[r], a)
      <3>1. request' = request
        BY <1>6, <2>2 DEF Preview
      <3>2. IdleCall.authority.at <= now
        BY DEF IdleCall, NoAuthority, TypeOK
      <3> QED
        BY <1>2, <3>1, <3>2, Finished, IdleCallType, GrantCallStep
           DEF CallAgrees, LockAgrees
    <2> QED
      BY <2>1, <2>2
  <1>7. CASE Approve(k)
    BY <1>4, <1>7, ApproveEffect
  <1>8. CASE Deliver(k)
    BY <1>1, <1>4, <1>8, ClearedRows DEF Deliver
  <1>9. CASE Withdraw(k)
    BY <1>1, <1>4, <1>9, ClearedRows DEF Withdraw
  <1> QED
    BY <1>5, <1>6, <1>7, <1>8, <1>9

LEMMA EditsKeepGrants ==
    ASSUME IInv, IInv', GrantsAgree, Edit \/ Tick
    PROVE  GrantsAgree'
  <1> USE DEF IInv
  <1>1. now \in Nat /\ now' \in Nat
    BY DEF TypeOK
  <1>2. Save => now' = now + 1
    BY DEF Save
  \* Time passes under rows, calls and memories that stay.
  <1>3. ASSUME now <= now', call' = call,
               \A m \in Memories : memory'[m].version \in {memory[m].version, now'},
               \A r \in Requests :
                  /\ RowAgrees(request'[r], policy', now)
                  /\ Locked(r) => request'[r] = request[r]
        PROVE  GrantsAgree'
    <2>1. ASSUME NEW m \in Memories
          PROVE  memory'[m].version <= now'
      <3>1. memory[m].version \in Nat /\ memory[m].version <= now
        BY DEF TypeOK, MemoryRows, GrantsAgree
      <3> QED
        BY <1>1, <1>3, <3>1
    <2>2. ASSUME NEW r \in Requests
          PROVE  RowAgrees(request'[r], policy', now')
      <3>1. \A m \in Memories : request'[r].reviewSnapshot.versions[m] \in Nat
        <4>1. request'[r] \in RequestRows
          BY DEF TypeOK
        <4> QED
          BY <4>1 DEF RequestRows, Snapshots
      <3>2. RowAgrees(request'[r], policy', now)
        BY <1>3
      <3>3. \A m \in Memories : request'[r].reviewSnapshot.versions[m] <= now'
        BY <1>1, <1>3, <3>1, <3>2 DEF RowAgrees
      <3> QED
        BY <3>2, <3>3 DEF RowAgrees
    <2>3. ASSUME NEW k \in Calls
          PROVE  CallAgrees(call'[k], now') /\ LockAgrees(k)'
      <3>1. call[k].authority.at \in Nat
        BY LockedParts DEF Authorities
      <3>2. CallAgrees(call'[k], now')
        BY <1>1, <1>3, <3>1 DEF GrantsAgree, CallAgrees
      <3>3. LockAgrees(k)'
        BY <1>3, LockedParts DEF GrantsAgree, LockAgrees, Locked
      <3> QED
        BY <3>2, <3>3
    <2> QED
      BY <2>1, <2>2, <2>3 DEF GrantsAgree
  <1>4. \A r \in Requests : RowAgrees(request[r], policy, now)
    BY DEF GrantsAgree
  <1>5. ASSUME NEW r \in Requests, Deny(r)
        PROVE  GrantsAgree'
    <2> DEFINE new == [request[r] EXCEPT !.status = "DENIED",
                                         !.reviewSnapshot = EmptySnapshot]
    <2>1. /\ request' = [request EXCEPT ![r] = new] /\ ~ Locked(r)
          /\ UNCHANGED <<now, memory, policy, call>>
      BY <1>5 DEF Deny
    <2>2. RowAgrees(new, policy, now)
      BY ClearedRows
    <2> HIDE DEF new
    <2>3. \A q \in Requests : request'[q] = IF q = r THEN new ELSE request[q]
      BY <2>1 DEF TypeOK
    <2> QED
      BY <1>1, <1>3, <1>4, <2>1, <2>2, <2>3
  <1>6. ASSUME NEW m \in Memories, NEW content \in MemoryInputs,
               EditMemory(m, content)
        PROVE  GrantsAgree'
    <2>1. \A n \in Memories : memory'[n].version \in {memory[n].version, now'}
      BY <1>6 DEF EditMemory, TypeOK, MemoryRows
    <2> QED
      BY <1>1, <1>2, <1>3, <1>4, <1>6, <2>1 DEF EditMemory
  <1>7. ASSUME NEW c \in Clients, NEW terms \in PolicyInputs,
               CreatePolicy(c, terms)
        PROVE  GrantsAgree'
    <2>1. policy[c].id = Null /\ \A d \in Clients \ {c} : policy'[d] = policy[d]
      BY <1>7 DEF CreatePolicy, TypeOK
    <2>2. ASSUME NEW r \in Requests
          PROVE  RowAgrees(request[r], policy', now)
      <3>1. request[r].client \in Clients
        BY DEF TypeOK, RequestRows
      <3> QED
        BY <1>4, <2>1, <3>1 DEF RowAgrees
    <2>4. UNCHANGED <<memory, request, call>> /\ Save
      BY <1>7 DEF CreatePolicy
    <2>5. \A r \in Requests : RowAgrees(request'[r], policy', now)
      BY <2>2, <2>4
    <2> QED
      BY <1>1, <1>2, <1>3, <2>4, <2>5
  <1>8. ASSUME NEW c \in Clients, NEW terms \in PolicyInputs,
               UpdatePolicy(c, terms)
        PROVE  GrantsAgree'
    <2>1. PICK version :
             policy' = [policy EXCEPT ![c] =
                          [@ EXCEPT !.version = version, !.terms = terms]]
      BY <1>8 DEF UpdatePolicy
    <2>2. \A d \in Clients : policy'[d].id = policy[d].id
      BY <2>1 DEF TypeOK
    <2>3. ASSUME NEW r \in Requests
          PROVE  RowAgrees(request[r], policy', now)
      <3>1. request[r].client \in Clients
        BY DEF TypeOK, RequestRows
      <3> QED
        BY <1>4, <2>2, <3>1 DEF RowAgrees
    <2>4. UNCHANGED <<memory, request, call>> /\ Save
      BY <1>8 DEF UpdatePolicy
    <2>5. \A r \in Requests : RowAgrees(request'[r], policy', now)
      BY <2>3, <2>4
    <2> QED
      BY <1>1, <1>2, <1>3, <2>4, <2>5
  <1>9. ASSUME NEW c \in Clients, DeletePolicy(c)
        PROVE  GrantsAgree'
    <2>1. /\ \A d \in Clients \ {c} : policy'[d] = policy[d]
          /\ UNCHANGED <<now, memory, call>>
      BY <1>9 DEF DeletePolicy, TypeOK
    <2>2. ASSUME NEW r \in Requests
          PROVE  /\ RowAgrees(request'[r], policy', now)
                 /\ Locked(r) => request'[r] = request[r]
      <3>1. request[r] \in RequestRows /\ request[r].client \in Clients
        BY DEF TypeOK, RequestRows
      <3>2. CASE request[r].client = c /\ request[r].policyId = policy[c].id
        <4>1. request'[r] = [request[r] EXCEPT !.policyId = Null] /\ ~ Locked(r)
          BY <1>9, <3>2 DEF DeletePolicy
        <4>2. /\ request'[r].policyId = Null
              /\ request'[r].status = request[r].status
              /\ request'[r].reviewSnapshot = request[r].reviewSnapshot
              /\ request'[r].approvalExpiresAt = request[r].approvalExpiresAt
              /\ request'[r].policyVersion = request[r].policyVersion
          BY <3>1, <4>1 DEF RequestRows
        <4> QED
          BY <1>4, <4>1, <4>2 DEF RowAgrees
      <3>3. CASE ~ (request[r].client = c /\ request[r].policyId = policy[c].id)
        <4>1. request'[r] = request[r]
          BY <1>9, <3>3 DEF DeletePolicy
        <4> QED
          BY <1>4, <2>1, <3>1, <3>3, <4>1 DEF RowAgrees
      <3> QED
        BY <3>2, <3>3
    <2> QED
      BY <1>1, <1>3, <2>1, <2>2
  <1>10. ASSUME NEW c \in Clients, DeleteClient(c)
         PROVE  GrantsAgree'
    <2> DEFINE deleted == [NoRequest EXCEPT !.status = "DELETED"]
    <2>1. /\ request' = [r \in Requests |->
                IF request[r].client = c /\ request[r].status # "ABSENT"
                THEN deleted ELSE request[r]]
          /\ \A r \in Requests : request[r].client = c => ~ Locked(r)
          /\ \A d \in Clients \ {c} : policy'[d] = policy[d]
          /\ UNCHANGED <<now, memory, call>>
      BY <1>10 DEF DeleteClient, TypeOK
    <2>2. RowAgrees(deleted, policy', now)
      <3>1. /\ deleted.status = "DELETED" /\ deleted.policyId = Null
            /\ deleted.reviewSnapshot = EmptySnapshot
        BY DEF NoRequest
      <3>2. \A m \in Memories : EmptySnapshot.versions[m] <= now
        BY DEF EmptySnapshot, TypeOK
      <3> QED
        BY <3>1, <3>2 DEF RowAgrees
    <2> HIDE DEF deleted
    <2>3. ASSUME NEW r \in Requests
          PROVE  /\ RowAgrees(request'[r], policy', now)
                 /\ Locked(r) => request'[r] = request[r]
      <3>1. request[r].client \in Clients
        BY DEF TypeOK, RequestRows
      <3>2. CASE request[r].client = c /\ request[r].status # "ABSENT"
        BY <2>1, <2>2, <3>2
      <3>3. CASE ~ (request[r].client = c /\ request[r].status # "ABSENT")
        <4>1. request'[r] = request[r]
          BY <2>1, <3>3
        <4> QED
          BY <1>4, <2>1, <3>1, <3>3, <4>1 DEF RowAgrees
      <3> QED
        BY <3>2, <3>3
    <2> QED
      BY <1>1, <1>3, <2>1, <2>3
  <1>11. ASSUME NEW c \in Clients, NEW row \in ClientInputs, UpdateClient(c, row)
         PROVE  GrantsAgree'
    BY <1>1, <1>2, <1>3, <1>4, <1>11 DEF UpdateClient
  <1>12. CASE Tick
    BY <1>1, <1>2, <1>3, <1>4, <1>12 DEF Tick
  <1>13. ASSUME NEW c \in Clients, AwaitLocks(c)
         PROVE  GrantsAgree'
    BY <1>13 DEF AwaitLocks, GrantsAgree, LockAgrees
  <1> QED
    BY <1>5, <1>6, <1>7, <1>8, <1>9, <1>10, <1>11, <1>12, <1>13 DEF Edit

LEMMA DeadlockKeepsGrants ==
    ASSUME IInv, GrantsAgree, NEW k \in Calls, Deadlock(k)
    PROVE  GrantsAgree'
  <1>1. CASE UNCHANGED call
    BY <1>1, DeadlockEffect DEF GrantsAgree, LockAgrees
  <1>2. CASE Finish(k)
    <2>1. IdleCall.authority.at <= now
      BY DEF IdleCall, NoAuthority, IInv, TypeOK
    <2> QED
      BY <1>2, <2>1, DeadlockEffect, Finished, IdleCallType, GrantCallStep
         DEF CallAgrees, LockAgrees, IInv
  <1> QED
    BY <1>1, <1>2, DeadlockEffect

LEMMA InitGrants == Init => GrantsAgree
  <1> SUFFICES ASSUME Init PROVE GrantsAgree
    OBVIOUS
  <1>1. /\ NoRequest.status = "ABSENT" /\ NoRequest.policyId = Null
        /\ NoRequest.reviewSnapshot = EmptySnapshot
        /\ \A m \in Memories : EmptySnapshot.versions[m] = Null
    BY DEF NoRequest, EmptySnapshot
  <1>2. /\ IdleCall.authority.at = Null /\ IdleCall.kind # "approve"
        /\ IdleCall.phase # "locked"
    BY DEF IdleCall, NoAuthority
  <1>3. \A m \in Memories : memory[m].version <= now
    BY DEF Init
  <1>4. \A r \in Requests : RowAgrees(request[r], policy, now)
    BY <1>1 DEF Init, RowAgrees
  <1>5. \A k \in Calls : CallAgrees(call[k], now) /\ LockAgrees(k)
    BY <1>2 DEF Init, CallAgrees, LockAgrees
  <1> QED
    BY <1>3, <1>4, <1>5 DEF GrantsAgree

LEMMA NextGrants == IInv /\ IInv' /\ GrantsAgree /\ [Next]_vars => GrantsAgree'
  <1> SUFFICES ASSUME IInv, IInv', GrantsAgree, [Next]_vars PROVE GrantsAgree'
    OBVIOUS
  <1>1. ASSUME NEW k \in Calls, Advance(k)
        PROVE  GrantsAgree'
    BY <1>1, ReadsKeepGrants, CommitKeepsGrants, ReviewsKeepGrants DEF Advance
  <1>2. ASSUME NEW k \in Calls, ClientCall(k) \/ OwnerCall(k)
        PROVE  GrantsAgree'
    BY <1>2, StartsKeepGrants
  <1>3. CASE Edit \/ Tick
    BY <1>3, EditsKeepGrants
  <1>4. CASE UNCHANGED vars
    BY <1>4 DEF vars, GrantsAgree, LockAgrees
  <1>5. ASSUME NEW k \in Calls, Deadlock(k)
        PROVE  GrantsAgree'
    BY <1>5, DeadlockKeepsGrants
  <1> QED
    BY <1>1, <1>2, <1>3, <1>4, <1>5 DEF Next

-----------------------------------------------------------------------------
(* The one-time grant *)

\* The deliveries of a trail, and the state functions that stand for the
\* variables of OneTimeGrant.
DeliveredOf(trail) ==
    {<<i, trail[i].snapshot>> :
        i \in {j \in DOMAIN trail : trail[j].type \in Disclosures}}

Granting ==
    [r \in Requests |-> [state |-> GrantState(request[r].status),
                         offer |-> request[r].reviewSnapshot]]

Delivering == [r \in Requests |-> DeliveredOf(audit[r])]

\* The steps of OneTimeGrant, in terms of the state functions.
Settles(r, state, offer) ==
    Granting' = [Granting EXCEPT ![r] = [state |-> state, offer |-> offer]]

LEMMA PromiseSteps ==
    ASSUME NEW r \in Requests
    PROVE  /\ Promise!Open(r) <=>
                 /\ Granting[r].state = "none"
                 /\ Settles(r, "pending", EmptySnapshot)
                 /\ UNCHANGED Delivering
           /\ Promise!RefuseAtOnce(r) <=>
                 /\ Granting[r].state = "none"
                 /\ Settles(r, "closed", EmptySnapshot)
                 /\ UNCHANGED Delivering
           /\ Promise!Withdraw(r) <=>
                 /\ Granting[r].state = "granted"
                 /\ Settles(r, "pending", EmptySnapshot)
                 /\ UNCHANGED Delivering
           /\ Promise!Refuse(r) <=>
                 /\ Granting[r].state = "pending"
                 /\ Settles(r, "closed", EmptySnapshot)
                 /\ UNCHANGED Delivering
  BY DEF Promise!Open, Promise!RefuseAtOnce, Promise!Withdraw, Promise!Refuse,
         Promise!Settle, Settles, Granting, Delivering, DeliveredOf

LEMMA PromiseDeliveries ==
    ASSUME NEW r \in Requests, NEW offer \in Snapshots, NEW d,
           Delivering[r] = {}, d[2] = offer, 
           Delivering' = [Delivering EXCEPT ![r] = {d}],
           Settles(r, "closed", EmptySnapshot)
    PROVE  /\ Granting[r].state = "none" => Promise!DeliverAtOnce(r)
           /\ Granting[r].state = "granted" /\ Granting[r].offer = offer =>
                 Promise!Consume(r)
  <1>1. d \in Delivering'[r]
    BY DEF Delivering
  <1>2. Promise!HandOut(r, d[2])
    BY <1>1 DEF Promise!HandOut, Delivering, DeliveredOf
  <1>3. Promise!Settle(r, "closed", EmptySnapshot)
    BY DEF Promise!Settle, Settles, Granting
  <1>4. ASSUME Granting[r].state = "none"
        PROVE  Promise!DeliverAtOnce(r)
    BY <1>1, <1>2, <1>3, <1>4
       DEF Promise!DeliverAtOnce, Granting, Delivering, DeliveredOf
  <1>5. ASSUME Granting[r].state = "granted", Granting[r].offer = offer
        PROVE  Promise!Consume(r)
    <2>1. Promise!HandOut(r, Granting[r].offer)
      BY <1>1, <1>5 DEF Promise!HandOut, Delivering, DeliveredOf
    <2> QED
      BY <1>3, <1>5, <2>1 DEF Promise!Consume, Granting
  <1> QED
    BY <1>4, <1>5

LEMMA PromiseGrants ==
    ASSUME NEW r \in Requests, NEW offer \in Snapshots,
           Granting[r].state = "pending",
           Settles(r, "granted", offer), UNCHANGED Delivering
    PROVE  Promise!Grant(r)
  <1>1. Granting'[r].offer = offer
    BY DEF Settles, Granting
  <1> QED
    BY <1>1 DEF Promise!Grant, Promise!Settle, Settles, Granting, Delivering,
                DeliveredOf

LEMMA Deliveries ==
    ASSUME NEW trail \in Seq(AuditEvents), NEW event \in AuditEvents
    PROVE  /\ Open(trail) => DeliveredOf(trail) = {}
           /\ event.type \notin Disclosures =>
                 DeliveredOf(Append(trail, event)) = DeliveredOf(trail)
           /\ Open(trail) /\ event.type \in Disclosures =>
                 DeliveredOf(Append(trail, event)) =
                    {<<Len(trail) + 1, event.snapshot>>}
  <1> DEFINE new == Append(trail, event)
  <1>1. /\ Len(trail) \in Nat
        /\ DOMAIN new = 1 .. Len(trail) + 1
        /\ DOMAIN trail = 1 .. Len(trail)
        /\ new[Len(trail) + 1] = event
        /\ \A i \in 1 .. Len(trail) : new[i] = trail[i]
    OBVIOUS
  <1> HIDE DEF new
  <1>2. Open(trail) => {j \in DOMAIN trail : trail[j].type \in Disclosures} = {}
    BY DEF Open, Ends
  <1>3. Open(trail) => DeliveredOf(trail) = {}
    BY <1>2 DEF DeliveredOf
  <1>4. ASSUME event.type \notin Disclosures
        PROVE  DeliveredOf(new) = DeliveredOf(trail)
    <2>1. {j \in DOMAIN new : new[j].type \in Disclosures} =
             {j \in DOMAIN trail : trail[j].type \in Disclosures}
      BY <1>1, <1>4
    <2>2. \A j \in DOMAIN trail : new[j] = trail[j]
      BY <1>1
    <2> QED
      BY <2>1, <2>2 DEF DeliveredOf
  <1>5. ASSUME Open(trail), event.type \in Disclosures
        PROVE  DeliveredOf(new) = {<<Len(trail) + 1, event.snapshot>>}
    <2>1. {j \in DOMAIN new : new[j].type \in Disclosures} = {Len(trail) + 1}
      BY <1>1, <1>5 DEF Open, Ends
    <2> QED
      BY <1>1, <2>1 DEF DeliveredOf
  <1> QED
    BY <1>3, <1>4, <1>5 DEF new

\* Only the row and the trail of r change.
LEMMA RowMoves ==
    ASSUME NEW r \in Requests,
           \A q \in Requests \ {r} : request'[q] = request[q] /\ audit'[q] = audit[q]
    PROVE  /\ Settles(r, GrantState(request'[r].status), request'[r].reviewSnapshot)
           /\ Delivering' = [Delivering EXCEPT ![r] = DeliveredOf(audit'[r])]
           /\ DeliveredOf(audit'[r]) = DeliveredOf(audit[r]) => UNCHANGED Delivering
           /\ /\ GrantState(request'[r].status) = GrantState(request[r].status)
              /\ request'[r].reviewSnapshot = request[r].reviewSnapshot
              => UNCHANGED Granting
           /\ Granting[r].state = GrantState(request[r].status)
           /\ Granting[r].offer = request[r].reviewSnapshot
           /\ Delivering[r] = DeliveredOf(audit[r])
  <1>1. Granting' = [Granting EXCEPT ![r] =
                        [state |-> GrantState(request'[r].status),
                         offer |-> request'[r].reviewSnapshot]]
    BY DEF Granting
  <1>2. Delivering' = [Delivering EXCEPT ![r] = DeliveredOf(audit'[r])]
    BY DEF Delivering
  <1>3. DeliveredOf(audit'[r]) = DeliveredOf(audit[r]) => UNCHANGED Delivering
    BY <1>2 DEF Delivering
  <1>4. /\ GrantState(request'[r].status) = GrantState(request[r].status)
        /\ request'[r].reviewSnapshot = request[r].reviewSnapshot
        => UNCHANGED Granting
    BY <1>1 DEF Granting
  <1> QED
    BY <1>1, <1>2, <1>3, <1>4 DEF Settles, Granting, Delivering

LEMMA GrantStates ==
    /\ GrantState("ABSENT") = "none"
    /\ GrantState("NEEDS_USER_APPROVAL") = "pending"
    /\ GrantState("APPROVED") = "granted"
    /\ \A status \in {"FULFILLED", "DENIED", "DELETED"} :
          GrantState(status) = "closed"
  BY DEF GrantState

\* A step of the requests is a step of the one-time grant, or none.
PromiseStep == Promise!Next \/ UNCHANGED <<Granting, Delivering>>

LEMMA CommitKeepsPromise ==
    ASSUME IInv, IInv', GrantsAgree, NEW k \in Calls, CommitBundle(k)
    PROVE  PromiseStep
  <1> USE DEF IInv
  <1>0. PICK r \in Requests, c \in Clients :
           r = call[k].request /\ c = call[k].client
    BY LockedParts
  <1>2. PICK new \in RequestRows, disclosed \in Snapshots :
           /\ request' = [request EXCEPT ![r] = new]
           /\ new.reviewSnapshot = EmptySnapshot
           /\ \/ /\ new.status = "FULFILLED"
                 /\ Record(r, Event("DISCLOSURE", c, disclosed))
              \/ /\ new.status = "DENIED"
                 /\ Record(r, Event("DENIED", c, EmptySnapshot))
              \/ new.status = "NEEDS_USER_APPROVAL" /\ UNCHANGED audit
    BY <1>0, CommitEffect
  <1>3. request[r].status = "ABSENT" /\ audit[r] = <<>>
    BY <1>0 DEF CommitBundle, CallsInOrder, RowsMatchTrails, Matches
  <1>4. /\ \A q \in Requests \ {r} : request'[q] = request[q] /\ audit'[q] = audit[q]
        /\ request'[r] = new
    BY <1>2 DEF TypeOK, Record
  <1>5. DeliveredOf(audit[r]) = {} /\ audit[r] \in Seq(AuditEvents)
    BY <1>3 DEF DeliveredOf, TypeOK
  <1>6. /\ Granting[r].state = "none"
        /\ Settles(r, GrantState(new.status), EmptySnapshot)
        /\ Delivering' = [Delivering EXCEPT ![r] = DeliveredOf(audit'[r])]
        /\ DeliveredOf(audit'[r]) = DeliveredOf(audit[r]) => UNCHANGED Delivering
        /\ Delivering[r] = {}
    BY <1>2, <1>3, <1>4, <1>5, RowMoves, GrantStates
  <1>7. CASE new.status = "NEEDS_USER_APPROVAL" /\ UNCHANGED audit
    <2>1. Promise!Open(r)
      BY <1>6, <1>7, GrantStates, PromiseSteps
    <2> QED
      BY <2>1 DEF PromiseStep, Promise!Next
  <1>8. CASE /\ new.status = "DENIED"
             /\ Record(r, Event("DENIED", c, EmptySnapshot))
    <2> DEFINE event == Event("DENIED", c, EmptySnapshot)
    <2>1. event \in AuditEvents /\ event.type \notin Disclosures
      BY NullRows, EventType, EventFields DEF Disclosures
    <2>2. audit'[r] = Append(audit[r], event)
      BY <1>8 DEF Record, TypeOK
    <2> HIDE DEF event
    <2>3. Promise!RefuseAtOnce(r)
      BY <1>5, <1>6, <1>8, <2>1, <2>2, Deliveries, GrantStates, PromiseSteps
    <2> QED
      BY <2>3 DEF PromiseStep, Promise!Next
  <1>9. CASE /\ new.status = "FULFILLED"
             /\ Record(r, Event("DISCLOSURE", c, disclosed))
    <2> DEFINE event == Event("DISCLOSURE", c, disclosed)
               d == <<Len(audit[r]) + 1, event.snapshot>>
    <2>1. /\ event \in AuditEvents /\ event.type \in Disclosures
          /\ event.snapshot = disclosed
      BY EventType, EventFields DEF Disclosures
    <2>2. audit'[r] = Append(audit[r], event)
      BY <1>9 DEF Record, TypeOK
    <2> HIDE DEF event
    <2>3. Open(audit[r])
      BY <1>3, EmptyTrail
    <2>4. DeliveredOf(audit'[r]) = {d} /\ d[2] = disclosed
      BY <1>5, <2>1, <2>2, <2>3, Deliveries
    <2> HIDE DEF d
    <2>5. Promise!DeliverAtOnce(r)
      BY <1>6, <1>9, <2>4, GrantStates, PromiseDeliveries
    <2> QED
      BY <2>5 DEF PromiseStep, Promise!Next
  <1> QED
    BY <1>2, <1>7, <1>8, <1>9

LEMMA ReviewsKeepPromise ==
    ASSUME IInv, IInv', GrantsAgree, GrantsAgree', NEW k \in Calls,
           \/ Lapse(k) \/ Preview(k) \/ Approve(k) \/ Deliver(k) \/ Withdraw(k)
    PROVE  PromiseStep
  <1> USE DEF IInv
  <1>0. PICK r \in Requests : r = call[k].request
    BY LockedParts
  <1> DEFINE a == call[k].authority
  <1>1. /\ request[r] \in RequestRows
        /\ request[r].client \in Clients
        /\ request[r].reviewSnapshot \in Snapshots
        /\ audit[r] \in Seq(AuditEvents)
    BY <1>0, LockedParts DEF TypeOK
  <1>2. /\ request[r].status # "APPROVED" => request[r].reviewSnapshot = EmptySnapshot
        /\ request'[r].status # "APPROVED" => request'[r].reviewSnapshot = EmptySnapshot
    BY <1>1 DEF GrantsAgree, RowAgrees
  <1>3. call[k].phase = "locked" => StatusFits(k)
    BY DEF CallsInOrder
  <1>4. Matches(request[r], audit[r])
    BY <1>1 DEF RowsMatchTrails
  <1> DEFINE invalidation == Event("INVALIDATED", request[r].client, EmptySnapshot)
  <1>5. invalidation \in AuditEvents /\ invalidation.type \notin Disclosures
    BY <1>1, NullRows, EventType, EventFields DEF Disclosures
  <1> HIDE DEF invalidation
  \* A row goes back to review: a grant is withdrawn, or nothing is.
  <1>6. ASSUME request[r].status \in {"NEEDS_USER_APPROVAL", "APPROVED"},
               NEW new, new.status = "NEEDS_USER_APPROVAL",
               request' = [request EXCEPT ![r] = new],
               Record(r, invalidation) \/ UNCHANGED audit
        PROVE  PromiseStep
    <2>1. /\ \A q \in Requests \ {r} : request'[q] = request[q] /\ audit'[q] = audit[q]
          /\ request'[r] = new
          /\ audit'[r] \in {audit[r], Append(audit[r], invalidation)}
      BY <1>1, <1>6 DEF TypeOK, Record
    <2>2. DeliveredOf(audit'[r]) = DeliveredOf(audit[r])
      BY <1>1, <1>5, <2>1, Deliveries
    <2>3. new.reviewSnapshot = EmptySnapshot
      BY <1>2, <1>6, <2>1
    <2>4. /\ Settles(r, "pending", EmptySnapshot)
          /\ UNCHANGED Delivering
          /\ Granting[r].state = GrantState(request[r].status)
          /\ /\ GrantState(request[r].status) = "pending"
             /\ request[r].reviewSnapshot = EmptySnapshot
             => UNCHANGED Granting
      BY <1>1, <1>6, <2>1, <2>2, <2>3, RowMoves, GrantStates
    <2>5. CASE request[r].status = "APPROVED"
      <3>1. Promise!Withdraw(r)
        BY <1>1, <2>4, <2>5, GrantStates, PromiseSteps
      <3> QED
        BY <1>1, <3>1 DEF PromiseStep, Promise!Next
    <2>6. CASE request[r].status = "NEEDS_USER_APPROVAL"
      BY <1>2, <2>4, <2>6, GrantStates DEF PromiseStep
    <2> QED
      BY <1>6, <2>5, <2>6
  <1>7. CASE Lapse(k)
    <2>1. /\ request' = [request EXCEPT ![r] =
                FreshReview(request[r], request[r].policyVersion)]
          /\ UNCHANGED audit
          /\ request[r].status = "APPROVED"
      BY <1>0, <1>7 DEF Lapse, ApprovalLapsed, StatusFits
    <2> QED
      BY <1>1, <1>6, <2>1, FreshStatus
  <1>8. CASE Preview(k)
    <2>1. CASE PermissionsChanged(request[r], a)
      <3>1. /\ request' = [request EXCEPT ![r] = Invalidated(request[r], a)]
            /\ Record(r, invalidation)
            /\ request[r].status = "NEEDS_USER_APPROVAL"
        BY <1>0, <1>8, <2>1 DEF Preview, PermissionsChanged, invalidation
      <3> QED
        BY <1>1, <1>6, <3>1, FreshStatus DEF Invalidated
    <2>2. CASE ~ PermissionsChanged(request[r], a)
      BY <1>0, <1>8, <2>2 DEF Preview, PromiseStep, Granting, Delivering
    <2> QED
      BY <2>1, <2>2
  <1>9. CASE Withdraw(k)
    <2>1. /\ request' = [request EXCEPT ![r] = Invalidated(request[r], a)]
          /\ Record(r, invalidation)
          /\ request[r].status = "APPROVED"
      BY <1>0, <1>3, <1>9 DEF Withdraw, StatusFits, invalidation
    <2> QED
      BY <1>1, <1>6, <2>1, FreshStatus DEF Invalidated
  <1>10. CASE Approve(k)
    <2>1. PICK new \in RequestRows, granted \in Snapshots,
               before \in {audit[r], Append(audit[r], invalidation)} :
             /\ request[r].status = "NEEDS_USER_APPROVAL"
             /\ request' = [request EXCEPT ![r] = new]
             /\ audit' = [audit EXCEPT ![r] =
                   Append(before, Event("APPROVED", request[r].client, granted))]
             /\ new.status = "APPROVED" /\ new.reviewSnapshot = granted
      BY <1>0, <1>10, ApproveEffect DEF invalidation
    <2> DEFINE event == Event("APPROVED", request[r].client, granted)
    <2>2. event \in AuditEvents /\ event.type \notin Disclosures
      BY <1>1, EventType, EventFields DEF Disclosures
    <2>3. /\ \A q \in Requests \ {r} : request'[q] = request[q] /\ audit'[q] = audit[q]
          /\ request'[r] = new /\ audit'[r] = Append(before, event)
      BY <1>1, <2>1 DEF TypeOK
    <2> HIDE DEF event
    <2>4. before \in Seq(AuditEvents) /\ DeliveredOf(before) = DeliveredOf(audit[r])
      <3>1. /\ Append(audit[r], invalidation) \in Seq(AuditEvents)
            /\ DeliveredOf(Append(audit[r], invalidation)) = DeliveredOf(audit[r])
        BY <1>1, <1>5, Deliveries
      <3> QED
        BY <1>1, <3>1
    <2>5. DeliveredOf(audit'[r]) = DeliveredOf(audit[r])
      BY <2>2, <2>3, <2>4, Deliveries
    <2>6. /\ Granting[r].state = "pending" /\ Settles(r, "granted", granted)
          /\ UNCHANGED Delivering
      BY <1>1, <2>1, <2>3, <2>5, RowMoves, GrantStates
    <2>7. Promise!Grant(r)
      BY <1>1, <2>6, PromiseGrants
    <2> QED
      BY <1>1, <2>7 DEF PromiseStep, Promise!Next
  <1>11. CASE Deliver(k)
    <2> DEFINE new == [request[r] EXCEPT !.status = "FULFILLED",
                                         !.reviewSnapshot = EmptySnapshot]
               event == Event("ONE_TIME_DISCLOSURE", call[k].client,
                              request[r].reviewSnapshot)
               d == <<Len(audit[r]) + 1, event.snapshot>>
    <2>1. /\ request' = [request EXCEPT ![r] = new] /\ Record(r, event)
          /\ request[r].status = "APPROVED"
      BY <1>0, <1>3, <1>11 DEF Deliver, StatusFits
    <2>2. /\ event \in AuditEvents /\ event.type \in Disclosures
          /\ event.snapshot = request[r].reviewSnapshot
      BY <1>1, LockedParts, EventType, EventFields DEF Disclosures
    <2>3. new.status = "FULFILLED" /\ new.reviewSnapshot = EmptySnapshot
      BY <1>1 DEF RequestRows
    <2> HIDE DEF new, event
    <2>4. /\ \A q \in Requests \ {r} : request'[q] = request[q] /\ audit'[q] = audit[q]
          /\ request'[r] = new /\ audit'[r] = Append(audit[r], event)
      BY <1>1, <2>1 DEF TypeOK, Record
    <2>5. Open(audit[r])
      BY <1>4, <2>1 DEF Matches
    <2>6. /\ DeliveredOf(audit[r]) = {} /\ DeliveredOf(audit'[r]) = {d}
          /\ d[2] = request[r].reviewSnapshot
      BY <1>1, <2>2, <2>4, <2>5, Deliveries
    <2> HIDE DEF d
    <2>7. /\ Granting[r].state = "granted"
          /\ Granting[r].offer = request[r].reviewSnapshot
          /\ Settles(r, "closed", EmptySnapshot)
          /\ Delivering[r] = {} /\ Delivering' = [Delivering EXCEPT ![r] = {d}]
      <3>1. /\ Granting[r].state = GrantState(request[r].status)
            /\ Granting[r].offer = request[r].reviewSnapshot
            /\ Settles(r, GrantState(request'[r].status), request'[r].reviewSnapshot)
            /\ Delivering[r] = DeliveredOf(audit[r])
            /\ Delivering' = [Delivering EXCEPT ![r] = DeliveredOf(audit'[r])]
        BY <2>4, RowMoves
      <3>2. Settles(r, "closed", EmptySnapshot)
        BY <2>3, <2>4, <3>1, GrantStates DEF Settles
      <3> QED
        BY <2>1, <2>6, <3>1, <3>2, GrantStates
    <2>8. Promise!Consume(r)
      BY <1>1, <2>6, <2>7, PromiseDeliveries
    <2> QED
      BY <1>1, <2>8 DEF PromiseStep, Promise!Next
  <1> QED
    BY <1>7, <1>8, <1>9, <1>10, <1>11

LEMMA EditsKeepPromise ==
    ASSUME IInv, IInv', GrantsAgree, GrantsAgree', Edit \/ Tick
    PROVE  PromiseStep
  <1> USE DEF IInv
  <1>1. ASSUME request' = request, audit' = audit
        PROVE  PromiseStep
    BY <1>1 DEF PromiseStep, Granting, Delivering
  <1>2. ASSUME NEW r \in Requests, Deny(r)
        PROVE  PromiseStep
    <2> DEFINE new == [request[r] EXCEPT !.status = "DENIED",
                                         !.reviewSnapshot = EmptySnapshot]
               event == Event("DENIED", request[r].client, EmptySnapshot)
    <2>1. /\ request' = [request EXCEPT ![r] = new] /\ Record(r, event)
          /\ request[r].status = "NEEDS_USER_APPROVAL"
      BY <1>2 DEF Deny
    <2>2. /\ request[r] \in RequestRows /\ request[r].client \in Clients
          /\ audit[r] \in Seq(AuditEvents)
      BY DEF TypeOK, RequestRows
    <2>3. new.status = "DENIED" /\ new.reviewSnapshot = EmptySnapshot
      BY <2>2 DEF RequestRows
    <2>4. event \in AuditEvents /\ event.type \notin Disclosures
      BY <2>2, NullRows, EventType, EventFields DEF Disclosures
    <2> HIDE DEF new, event
    <2>5. /\ \A q \in Requests \ {r} : request'[q] = request[q] /\ audit'[q] = audit[q]
          /\ request'[r] = new /\ audit'[r] = Append(audit[r], event)
      BY <2>1 DEF TypeOK, Record
    <2>6. DeliveredOf(audit'[r]) = DeliveredOf(audit[r])
      BY <2>2, <2>4, <2>5, Deliveries
    <2>7. /\ Granting[r].state = "pending" /\ UNCHANGED Delivering
          /\ Settles(r, "closed", EmptySnapshot)
      <3>1. /\ Granting[r].state = GrantState(request[r].status)
            /\ Settles(r, GrantState(request'[r].status), request'[r].reviewSnapshot)
            /\ UNCHANGED Delivering
        BY <2>5, <2>6, RowMoves
      <3> QED
        BY <2>1, <2>3, <2>5, <3>1, GrantStates DEF Settles
    <2>8. Promise!Refuse(r)
      BY <2>7, PromiseSteps
    <2> QED
      BY <2>8 DEF PromiseStep, Promise!Next
  <1>3. ASSUME NEW c \in Clients, DeletePolicy(c)
        PROVE  PromiseStep
    <2>1. audit' = audit
      BY <1>3 DEF DeletePolicy
    <2>2. ASSUME NEW r \in Requests
          PROVE  /\ request'[r].status = request[r].status
                 /\ request'[r].reviewSnapshot = request[r].reviewSnapshot
      <3>1. request[r] \in RequestRows
        BY DEF TypeOK
      <3> QED
        BY <1>3, <3>1 DEF DeletePolicy, RequestRows
    <2> QED
      BY <2>1, <2>2 DEF PromiseStep, Granting, Delivering
  <1>4. ASSUME NEW c \in Clients, DeleteClient(c)
        PROVE  PromiseStep
    <2>1. PICK rs \in SUBSET Requests :
             rs = {r \in Requests : request[r].client = c /\ request[r].status # "ABSENT"}
      OBVIOUS
    <2> DEFINE deleted == [NoRequest EXCEPT !.status = "DELETED"]
               closed == [state |-> "closed", offer |-> EmptySnapshot]
    <2>2. /\ request' = [r \in Requests |-> IF r \in rs THEN deleted ELSE request[r]]
          /\ audit' = audit
      BY <1>4, <2>1 DEF DeleteClient
    <2>3. deleted.status = "DELETED" /\ deleted.reviewSnapshot = EmptySnapshot
      BY DEF NoRequest
    <2> HIDE DEF deleted
    <2>4. Granting' = [r \in Requests |-> IF r \in rs THEN closed ELSE Granting[r]]
      BY <2>2, <2>3, GrantStates DEF Granting
    <2>5. ASSUME NEW r \in rs
          PROVE  Granting[r].state # "none"
      <3>1. r \in Requests /\ request[r].status \in RequestStatuses \ {"ABSENT"}
        BY <2>1 DEF TypeOK, RequestRows
      <3> QED
        BY <3>1, GrantStates DEF Granting, RequestStatuses
    <2>6. UNCHANGED Delivering
      BY <2>2 DEF Delivering
    <2>7. Promise!CloseAll(rs)
      BY <2>4, <2>5, <2>6
         DEF Promise!CloseAll, Granting, Delivering, DeliveredOf
    <2> QED
      BY <2>7 DEF PromiseStep, Promise!Next
  <1> QED
    BY <1>1, <1>2, <1>3, <1>4
       DEF Edit, Tick, EditMemory, CreatePolicy, UpdatePolicy, UpdateClient,
           AwaitLocks

LEMMA NextKeepsPromise ==
    IInv /\ IInv' /\ GrantsAgree /\ GrantsAgree' /\ [Next]_vars => PromiseStep
  <1> SUFFICES ASSUME IInv, IInv', GrantsAgree, GrantsAgree', [Next]_vars
               PROVE  PromiseStep
    OBVIOUS
  <1>1. ASSUME request' = request, audit' = audit
        PROVE  PromiseStep
    BY <1>1 DEF PromiseStep, Granting, Delivering
  <1>2. ASSUME NEW k \in Calls, Advance(k)
        PROVE  PromiseStep
    <2>1. CASE \/ Retrieve(k) \/ ReadCandidates(k) \/ AbortBundle(k) \/ Lock(k)
               \/ Refuse(k) \/ RefuseApproval(k)
      BY <1>1, <2>1 DEF Retrieve, ReadCandidates, AbortBundle, Lock, Refuse,
                        RefuseApproval
    <2> QED
      BY <1>2, <2>1, CommitKeepsPromise, ReviewsKeepPromise DEF Advance
  <1>3. ASSUME NEW k \in Calls, ClientCall(k) \/ OwnerCall(k)
        PROVE  PromiseStep
    BY <1>1, <1>3 DEF ClientCall, OwnerCall, StartBundle, StartResult,
                      StartPreview, StartApprove, BeginReview
  <1>4. CASE Edit \/ Tick
    BY <1>4, EditsKeepPromise
  <1>5. CASE UNCHANGED vars
    BY <1>1, <1>5 DEF vars
  <1>6. ASSUME NEW k \in Calls, Deadlock(k)
        PROVE  PromiseStep
    BY <1>1, <1>6, DeadlockEffect
  <1> QED
    BY <1>2, <1>3, <1>4, <1>5, <1>6 DEF Next

LEMMA InitKeepsPromise == Init => Promise!Init
  <1> SUFFICES ASSUME Init PROVE Promise!Init
    OBVIOUS
  <1>1. /\ NoRequest.status = "ABSENT"
        /\ NoRequest.reviewSnapshot = EmptySnapshot
    BY DEF NoRequest
  <1>2. Granting = [r \in Requests |-> [state |-> "none", offer |-> EmptySnapshot]]
    BY <1>1, GrantStates DEF Init, Granting
  <1>3. Delivering = [r \in Requests |-> {}]
    BY DEF Init, Delivering, DeliveredOf
  <1> QED
    BY <1>2, <1>3 DEF Promise!Init, Granting, Delivering, DeliveredOf

-----------------------------------------------------------------------------
(* What a step may add to a trail *)

\* Only Approve adds an approval, and only Deliver a one-time disclosure.
LEMMA WhoAdds ==
    ASSUME IInv, GrantsAgree, [Next]_vars, NEW r \in Requests
    PROVE  /\ Adds(r, "APPROVED") =>
                 \E k \in Calls : Approve(k) /\ call[k].request = r
           /\ Adds(r, "ONE_TIME_DISCLOSURE") =>
                 \E k \in Calls : Deliver(k) /\ call[k].request = r
  <1> USE DEF IInv
  <1> DEFINE Goal ==
        /\ Adds(r, "APPROVED") => \E k \in Calls : Approve(k) /\ call[k].request = r
        /\ Adds(r, "ONE_TIME_DISCLOSURE") =>
              \E k \in Calls : Deliver(k) /\ call[k].request = r
  <1>1. Len(audit[r]) \in Nat /\ audit[r] \in Seq(AuditEvents)
    BY DEF TypeOK
  <1>2. ASSUME audit'[r] = audit[r]
        PROVE  Goal
    BY <1>1, <1>2 DEF Adds
  <1>3. ASSUME NEW q \in Requests, NEW event \in AuditEvents, Record(q, event),
               event.type \notin {"APPROVED", "ONE_TIME_DISCLOSURE"}
        PROVE  Goal
    <2>1. CASE q = r
      <3>1. audit'[r] = Append(audit[r], event)
        BY <1>3, <2>1 DEF Record, TypeOK
      <3>2. audit'[r][Len(audit'[r])] = event
        BY <1>1, <3>1
      <3> QED
        BY <1>3, <3>2 DEF Adds
    <2>2. CASE q # r
      BY <1>2, <1>3, <2>2 DEF Record, TypeOK
    <2> QED
      BY <2>1, <2>2
  <1>4. ASSUME NEW q \in Requests, NEW type, NEW c \in Clients, NEW s \in Snapshots,
               type \in {"DISCLOSURE", "DENIED", "INVALIDATED"},
               Record(q, Event(type, c, s))
        PROVE  Goal
    BY <1>3, <1>4, EventType, EventFields
  <1>5. ASSUME NEW k \in Calls, Advance(k)
        PROVE  Goal
    <2>0. PICK q \in Requests : q = call[k].request
      BY LockedParts
    <2>1. request[q].client \in Clients /\ EmptySnapshot \in Snapshots
      BY NullRows DEF TypeOK, RequestRows
    <2>2. CASE \/ Retrieve(k) \/ ReadCandidates(k) \/ AbortBundle(k) \/ Lock(k)
               \/ Refuse(k) \/ RefuseApproval(k) \/ Lapse(k)
      BY <1>2, <2>2 DEF Retrieve, ReadCandidates, AbortBundle, Lock, Refuse,
                        RefuseApproval, Lapse
    <2>3. CASE CommitBundle(k)
      <3>1. call[k].client \in Clients
        BY LockedParts
      <3>2. PICK disclosed \in Snapshots :
               \/ Record(q, Event("DISCLOSURE", call[k].client, disclosed))
               \/ Record(q, Event("DENIED", call[k].client, EmptySnapshot))
               \/ UNCHANGED audit
        BY <2>0, <2>3, CommitEffect
      <3> QED
        BY <1>2, <1>4, <2>1, <3>1, <3>2
    <2>4. CASE Preview(k)
      <3>1. \/ Record(q, Event("INVALIDATED", request[q].client, EmptySnapshot))
            \/ UNCHANGED audit
        BY <2>0, <2>4 DEF Preview
      <3> QED
        BY <1>2, <1>4, <2>1, <3>1
    <2>5. CASE Withdraw(k)
      <3>1. Record(q, Event("INVALIDATED", request[q].client, EmptySnapshot))
        BY <2>0, <2>5 DEF Withdraw
      <3> QED
        BY <1>4, <2>1, <3>1
    <2>6. CASE Approve(k)
      <3>1. CASE q # r
        <4>1. audit'[r] = audit[r]
          BY <2>0, <2>6, <3>1 DEF Approve, TypeOK
        <4> QED
          BY <1>2, <4>1
      <3>2. CASE q = r
        <4>0. PICK granted \in Snapshots,
                   before \in {audit[call[k].request],
                      Append(audit[call[k].request],
                             Event("INVALIDATED", request[call[k].request].client,
                                   EmptySnapshot))} :
                 audit' = [audit EXCEPT ![call[k].request] =
                    Append(before, Event("APPROVED",
                              request[call[k].request].client, granted))]
          BY <2>6, ApproveEffect
        <4>1. /\ before \in {audit[r], Append(audit[r],
                      Event("INVALIDATED", request[r].client, EmptySnapshot))}
              /\ audit' = [audit EXCEPT ![r] =
                    Append(before, Event("APPROVED", request[r].client, granted))]
          BY <2>0, <3>2, <4>0
        <4> DEFINE event == Event("APPROVED", request[r].client, granted)
        <4>2. event \in AuditEvents /\ event.type = "APPROVED"
          BY <2>1, <3>2, EventType, EventFields
        <4>3. before \in Seq(AuditEvents)
          <5>1. Event("INVALIDATED", request[r].client, EmptySnapshot) \in AuditEvents
            BY <2>1, <3>2, EventType
          <5>2. audit[r] \in Seq(AuditEvents)
            BY <1>1
          <5>3. Append(audit[r], Event("INVALIDATED", request[r].client, EmptySnapshot))
                   \in Seq(AuditEvents)
            BY <5>1, <5>2
          <5> QED
            BY <4>1, <5>2, <5>3
        <4>4. audit'[r] = Append(before, event)
          BY <4>1 DEF TypeOK
        <4> HIDE DEF event
        <4>5. audit'[r][Len(audit'[r])] = event
          BY <4>2, <4>3, <4>4
        <4> QED
          BY <2>0, <2>6, <3>2, <4>2, <4>5 DEF Adds
      <3> QED
        BY <3>1, <3>2
    <2>7. CASE Deliver(k)
      <3>1. CASE q # r
        <4>1. audit'[r] = audit[r]
          BY <2>0, <2>7, <3>1 DEF Deliver, Record, TypeOK
        <4> QED
          BY <1>2, <4>1
      <3>2. CASE q = r
        <4> DEFINE event == Event("ONE_TIME_DISCLOSURE", call[k].client,
                                  request[r].reviewSnapshot)
        <4>1. event \in AuditEvents /\ event.type = "ONE_TIME_DISCLOSURE"
          <5>1. call[k].client \in Clients /\ request[r].reviewSnapshot \in Snapshots
            BY LockedParts DEF TypeOK, RequestRows
          <5> QED
            BY <5>1, EventType, EventFields
        <4>2. audit'[r] = Append(audit[r], event)
          BY <2>0, <2>7, <3>2 DEF Deliver, Record, TypeOK
        <4> HIDE DEF event
        <4>3. audit'[r][Len(audit'[r])] = event
          BY <1>1, <4>1, <4>2
        <4> QED
          BY <2>0, <2>7, <3>2, <4>1, <4>3 DEF Adds
      <3> QED
        BY <3>1, <3>2
    <2> QED
      BY <1>5, <2>2, <2>3, <2>4, <2>5, <2>6, <2>7 DEF Advance
  <1>6. ASSUME NEW k \in Calls, ClientCall(k) \/ OwnerCall(k)
        PROVE  Goal
    BY <1>2, <1>6 DEF ClientCall, OwnerCall, StartBundle, StartResult,
                      StartPreview, StartApprove, BeginReview
  <1>7. CASE Edit \/ Tick
    <2>1. ASSUME NEW q \in Requests, Deny(q)
          PROVE  Goal
      <3>1. request[q].client \in Clients
        BY DEF TypeOK, RequestRows
      <3> QED
        BY <1>4, <2>1, <3>1, NullRows DEF Deny
    <2> QED
      BY <1>2, <1>7, <2>1
         DEF Edit, Tick, EditMemory, CreatePolicy, UpdatePolicy, UpdateClient,
             DeletePolicy, DeleteClient, AwaitLocks
  <1>8. CASE UNCHANGED vars
    BY <1>2, <1>8 DEF vars
  <1>9. ASSUME NEW k \in Calls, Deadlock(k)
        PROVE  Goal
    BY <1>2, <1>9, DeadlockEffect
  <1> QED
    BY <1>5, <1>6, <1>7, <1>8, <1>9 DEF Next

\* An approval grants the selected part of the revision it carried.
LEMMA ApprovalShown ==
    ASSUME IInv, GrantsAgree, NEW r \in Requests, NEW k \in Calls,
           Approve(k), call[k].request = r
    PROVE  /\ call[k].kind = "approve"
           /\ request[r].policyId # Null
           /\ audit'[r][Len(audit'[r])].snapshot =
                 Selection(call[k].revision, call[k].selected)
  <1> USE DEF IInv
  <1>1. PICK new \in RequestRows, granted \in Snapshots,
             before \in {audit[call[k].request],
                Append(audit[call[k].request],
                       Event("INVALIDATED", request[call[k].request].client,
                             EmptySnapshot))} :
           /\ audit' = [audit EXCEPT ![call[k].request] =
                 Append(before, Event("APPROVED",
                           request[call[k].request].client, granted))]
           /\ granted = Selection(call[k].revision, call[k].selected)
           /\ new.policyId # Null
           /\ new.policyId = request[call[k].request].policyId
    BY ApproveEffect
  <1>2. request[r].client \in Clients /\ EmptySnapshot \in Snapshots
    BY NullRows DEF TypeOK, RequestRows
  <1> DEFINE event == Event("APPROVED", request[r].client, granted)
  <1>3. event \in AuditEvents /\ event.snapshot = granted
    BY <1>2, EventType, EventFields
  <1>4. Event("INVALIDATED", request[r].client, EmptySnapshot) \in AuditEvents
    BY <1>2, EventType
  <1>5. before \in {audit[r], Append(audit[r],
                       Event("INVALIDATED", request[r].client, EmptySnapshot))}
    BY <1>1
  <1>6. before \in Seq(AuditEvents)
    <2>1. audit[r] \in Seq(AuditEvents)
      BY DEF TypeOK
    <2> QED
      BY <1>4, <1>5, <2>1
  <1>7. audit'[r] = Append(before, event)
    BY <1>1 DEF TypeOK
  <1> HIDE DEF event
  <1>8. audit'[r][Len(audit'[r])] = event
    BY <1>3, <1>6, <1>7
  <1> QED
    BY <1>1, <1>3, <1>8 DEF Approve

\* A memory that is permitted now was permitted since it was last saved.
LEMMA PermittedBefore ==
    ASSUME NEW content \in MemoryContents, NEW terms, NEW at \in Nat,
           NEW later \in Nat, at <= later, Permitted(content, terms, later)
    PROVE  Permitted(content, terms, at)
  <1>1. content.expiresAt \in Nat
    BY DEF MemoryContents
  <1> QED
    BY <1>1 DEF Permitted, Passed

\* What a delivery sends, and under which authority.
LEMMA DeliveryCurrent ==
    ASSUME IInv, GrantsAgree, NEW r \in Requests, NEW k \in Calls,
           Deliver(k), call[k].request = r
    PROVE  /\ call[k].phase = "locked" /\ ~ call[k].authority.denied
           /\ request[r].policyId # Null
           /\ audit'[r][Len(audit'[r])].snapshot = request[r].reviewSnapshot
           /\ \A m \in request[r].reviewSnapshot.items :
                 /\ request[r].reviewSnapshot.versions[m] = memory[m].version
                 /\ memory[m].version <= call[k].authority.at
                 /\ Permitted(memory[m].content, call[k].authority.terms,
                              call[k].authority.at)
  <1> USE DEF IInv
  <1> DEFINE a == call[k].authority
             s == request[r].reviewSnapshot
  <1>1. /\ call[k].kind = "result" /\ call[k].phase = "locked"
        /\ SnapshotIsCurrent(request[r], a)
        /\ Record(r, Event("ONE_TIME_DISCLOSURE", call[k].client, s))
    BY DEF Deliver
  <1>2. /\ call[k].client \in Clients /\ s \in Snapshots /\ a.at \in Nat /\ now \in Nat
        /\ \A m \in Memories : memory[m].content \in MemoryContents
    BY LockedParts DEF TypeOK, RequestRows, MemoryRows, Authorities
  <1>3. request[r].status = "APPROVED"
    BY <1>1 DEF CallsInOrder, StatusFits
  <1>4. s.items # {} /\ s.items \subseteq Memories
    BY <1>2, <1>3 DEF GrantsAgree, RowAgrees, Snapshots
  <1>5. /\ Bound(request[r], a) /\ s.items \subseteq Allowed(request[r], a, s.items)
        /\ \A m \in s.items : memory[m].version = s.versions[m]
    BY <1>1 DEF SnapshotIsCurrent
  <1>6. /\ request[r].policyId # Null /\ ~ a.denied
        /\ \A m \in s.items : Permitted(memory[m].content, a.terms, now)
    BY <1>4, <1>5 DEF Allowed, Bound
  <1>7. a.at <= now /\ \A m \in Memories : s.versions[m] <= a.at
    BY <1>1 DEF GrantsAgree, CallAgrees, LockAgrees
  <1>8. \A m \in s.items : Permitted(memory[m].content, a.terms, a.at)
    BY <1>2, <1>4, <1>6, <1>7, PermittedBefore
  <1>9. audit'[r][Len(audit'[r])].snapshot = s
    <2> DEFINE event == Event("ONE_TIME_DISCLOSURE", call[k].client, s)
    <2>1. event \in AuditEvents /\ event.snapshot = s
      BY <1>2, EventType, EventFields
    <2>2. audit'[r] = Append(audit[r], event) /\ audit[r] \in Seq(AuditEvents)
      BY <1>1 DEF Record, TypeOK
    <2> HIDE DEF event
    <2>3. audit'[r][Len(audit'[r])] = event
      BY <2>1, <2>2
    <2> QED
      BY <2>1, <2>3
  <1> QED
    BY <1>1, <1>4, <1>5, <1>6, <1>7, <1>8, <1>9

\* A row without a policy stays without one.
LEMMA OrphanStep ==
    ASSUME IInv, GrantsAgree, [Next]_vars, NEW r \in Requests,
           request[r].status # "ABSENT", request[r].policyId = Null
    PROVE  request'[r].policyId = Null
  <1> USE DEF IInv
  <1>1. ASSUME request'[r] = request[r]
        PROVE  request'[r].policyId = Null
    BY <1>1
  <1>2. ASSUME NEW q \in Requests, NEW new,
               request' = [request EXCEPT ![q] = new],
               new.policyId = request[q].policyId
        PROVE  request'[r].policyId = Null
    BY <1>2 DEF TypeOK
  <1>3. \A row \in RequestRows : \A version :
           FreshReview(row, version).policyId = row.policyId
    BY DEF FreshReview, RequestRows
  <1>4. \A row \in RequestRows : \A a :
           Invalidated(row, a).policyId = row.policyId
    BY <1>3 DEF Invalidated
  <1>5. ASSUME NEW k \in Calls, Advance(k)
        PROVE  request'[r].policyId = Null
    <2>0. PICK q \in Requests : q = call[k].request
      BY LockedParts
    <2>1. request[q] \in RequestRows
      BY DEF TypeOK
    <2>2. CASE \/ Retrieve(k) \/ ReadCandidates(k) \/ AbortBundle(k) \/ Lock(k)
               \/ Refuse(k) \/ RefuseApproval(k)
      BY <2>2 DEF Retrieve, ReadCandidates, AbortBundle, Lock, Refuse,
                  RefuseApproval
    <2>3. CASE CommitBundle(k)
      <3>1. request[q].status = "ABSENT"
        BY <2>0, <2>3 DEF CommitBundle, CallsInOrder
      <3>2. PICK new \in RequestRows : request' = [request EXCEPT ![q] = new]
        BY <2>0, <2>3, CommitEffect
      <3> QED
        BY <3>1, <3>2 DEF TypeOK
    <2>4. CASE Lapse(k)
      <3>1. request' = [request EXCEPT ![q] =
                           FreshReview(request[q], request[q].policyVersion)]
        BY <2>0, <2>4 DEF Lapse
      <3> QED
        BY <1>2, <1>3, <2>1, <3>1
    <2>5. CASE Preview(k)
      <3>1. \/ request' = [request EXCEPT ![q] =
                              Invalidated(request[q], call[k].authority)]
            \/ UNCHANGED request
        BY <2>0, <2>5 DEF Preview
      <3> QED
        BY <1>1, <1>2, <1>4, <2>1, <3>1
    <2>6. CASE Approve(k)
      <3>1. PICK new \in RequestRows :
               /\ request' = [request EXCEPT ![call[k].request] = new]
               /\ new.policyId = request[call[k].request].policyId
        BY <2>6, ApproveEffect
      <3> QED
        BY <1>2, <2>0, <3>1
    <2>7. CASE Deliver(k)
      <3>1. request' = [request EXCEPT ![q] =
               [request[q] EXCEPT !.status = "FULFILLED",
                                  !.reviewSnapshot = EmptySnapshot]]
        BY <2>0, <2>7 DEF Deliver
      <3>2. [request[q] EXCEPT !.status = "FULFILLED",
                !.reviewSnapshot = EmptySnapshot].policyId = request[q].policyId
        BY <2>1 DEF RequestRows
      <3> QED
        BY <1>2, <3>1, <3>2
    <2>8. CASE Withdraw(k)
      <3>1. request' = [request EXCEPT ![q] =
                           Invalidated(request[q], call[k].authority)]
        BY <2>0, <2>8 DEF Withdraw
      <3> QED
        BY <1>2, <1>4, <2>1, <3>1
    <2> QED
      BY <1>5, <2>2, <2>3, <2>4, <2>5, <2>6, <2>7, <2>8 DEF Advance
  <1>6. ASSUME NEW k \in Calls, ClientCall(k) \/ OwnerCall(k)
        PROVE  request'[r].policyId = Null
    BY <1>6 DEF ClientCall, OwnerCall, StartBundle, StartResult, StartPreview,
                StartApprove, BeginReview
  <1>7. CASE Edit \/ Tick
    <2>1. ASSUME NEW q \in Requests, Deny(q)
          PROVE  request'[r].policyId = Null
      <3>1. request' = [request EXCEPT ![q] =
               [request[q] EXCEPT !.status = "DENIED",
                                  !.reviewSnapshot = EmptySnapshot]]
        BY <2>1 DEF Deny
      <3>2. [request[q] EXCEPT !.status = "DENIED",
                !.reviewSnapshot = EmptySnapshot].policyId = request[q].policyId
        BY DEF TypeOK, RequestRows
      <3> QED
        BY <1>2, <3>1, <3>2
    <2>2. ASSUME NEW c \in Clients, DeletePolicy(c)
          PROVE  request'[r].policyId = Null
      <3>1. request'[r] \in {request[r], [request[r] EXCEPT !.policyId = Null]}
        BY <2>2 DEF DeletePolicy
      <3>2. [request[r] EXCEPT !.policyId = Null].policyId = Null
        BY DEF TypeOK, RequestRows
      <3> QED
        BY <3>1, <3>2
    <2>3. ASSUME NEW c \in Clients, DeleteClient(c)
          PROVE  request'[r].policyId = Null
      <3>1. request'[r] \in {request[r], [NoRequest EXCEPT !.status = "DELETED"]}
        BY <2>3 DEF DeleteClient
      <3>2. [NoRequest EXCEPT !.status = "DELETED"].policyId = Null
        BY DEF NoRequest
      <3> QED
        BY <3>1, <3>2
    <2> QED
      BY <1>1, <1>7, <2>1, <2>2, <2>3
         DEF Edit, Tick, EditMemory, CreatePolicy, UpdatePolicy, UpdateClient,
             AwaitLocks
  <1>8. CASE UNCHANGED vars
    BY <1>8 DEF vars
  <1>9. ASSUME NEW k \in Calls, Deadlock(k)
        PROVE  request'[r].policyId = Null
    BY <1>9, DeadlockEffect
  <1> QED
    BY <1>5, <1>6, <1>7, <1>8, <1>9 DEF Next

-----------------------------------------------------------------------------

\* The inductive invariant holds in every reachable state: calls in progress are
\* in order and each row agrees with its audit trail.
THEOREM Invariance == Spec => []IInv
  BY InitIInv, NextIInv, PTL DEF Spec

\* Whatever calls of client and owner overlap, a disclosure or a denial is the
\* last event of a request: decide and result never answer a request twice.
THEOREM TrailsEnd == Spec => []TrailEnds
  <1>1. IInv => TrailEnds
    BY DEF IInv, RowsMatchTrails, Sound, TrailEnds
  <1> QED
    BY <1>1, Invariance, PTL

\* Whatever calls of client and owner overlap, a one-time disclosure is the
\* grant of the owner's latest approval, sent to the client that asked.
THEOREM DisclosuresWereGranted == Spec => []DisclosureWasGranted
  <1>1. IInv => DisclosureWasGranted
    BY DEF IInv, RowsMatchTrails, Sound, DisclosureWasGranted
  <1> QED
    BY <1>1, Invariance, PTL

\* Rows and grants agree in every reachable state: a row stores a grant exactly
\* while it is approved, and every version read is an instant of the past.
THEOREM GrantInvariance == Spec => []GrantsAgree
  BY InitGrants, NextGrants, Invariance, PTL DEF Spec

\* However deletions, reviews and collections overlap, an approved row agrees with
\* the grant it stores, and a row that names a policy names its client's.
THEOREM RowsAlwaysAgree == Spec => []RowsAgree
  <1>1. GrantsAgree => RowsAgree
    BY DEF GrantsAgree, RowAgrees, RowsAgree, ApprovedRowIsItsGrant,
           BoundPolicyExists
  <1> QED
    BY <1>1, GrantInvariance, PTL

\* The requests implement the one-time grant the owner is promised: every step of
\* the API, however its calls overlap, is a step of OneTimeGrant or changes
\* neither what is granted nor what was delivered.
THEOREM PromiseKept == Spec => KeepsPromise
  <1>1. Init => Promise!Init
    BY InitKeepsPromise
  <1>2. IInv /\ IInv' /\ GrantsAgree /\ GrantsAgree' /\ [Next]_vars =>
           [Promise!Next]_<<Granting, Delivering>>
    BY NextKeepsPromise DEF PromiseStep
  <1> QED
    BY <1>1, <1>2, Invariance, GrantInvariance, PTL
       DEF Spec, KeepsPromise, Promise!Spec, Granting, Delivering, DeliveredOf

\* What is approved is the selected part of what the owner was looking at, however
\* much the memories, the policy and the client changed since it was shown.
THEOREM GrantsAreWhatWasShown == Spec => GrantIsWhatWasShown
  <1>1. ASSUME IInv, GrantsAgree, [Next]_vars, NEW r \in Requests,
               Adds(r, "APPROVED")
        PROVE  \E k \in Calls :
                  /\ call[k].kind = "approve" /\ call[k].request = r
                  /\ audit'[r][Len(audit'[r])].snapshot =
                        Selection(call[k].revision, call[k].selected)
    BY <1>1, WhoAdds, ApprovalShown
  <1>2. IInv /\ GrantsAgree /\ [Next]_vars =>
           [\A r \in Requests : Adds(r, "APPROVED") =>
               \E k \in Calls :
                  /\ call[k].kind = "approve" /\ call[k].request = r
                  /\ audit'[r][Len(audit'[r])].snapshot =
                        Selection(call[k].revision, call[k].selected)]_vars
    BY <1>1
  <1> QED
    BY <1>2, Invariance, GrantInvariance, PTL DEF Spec, GrantIsWhatWasShown

\* Nothing goes out on stale authority: a request whose policy was deleted is never
\* bound, approved or disclosed again, and the text of a one-time disclosure and
\* the permissions it is sent under were in force together.
THEOREM AuthorityStaysCurrent == Spec => AuthorityIsCurrent
  <1>1. ASSUME IInv, GrantsAgree, [Next]_vars, NEW r \in Requests,
               request[r].status # "ABSENT", request[r].policyId = Null
        PROVE  /\ request'[r].policyId = Null
               /\ ~ Adds(r, "APPROVED")
               /\ ~ Adds(r, "ONE_TIME_DISCLOSURE")
    BY <1>1, OrphanStep, WhoAdds, ApprovalShown, DeliveryCurrent
  <1>2. IInv /\ GrantsAgree /\ [Next]_vars =>
           [\A r \in Requests :
               request[r].status # "ABSENT" /\ request[r].policyId = Null =>
                  /\ request'[r].policyId = Null
                  /\ ~ Adds(r, "APPROVED")
                  /\ ~ Adds(r, "ONE_TIME_DISCLOSURE")]_vars
    BY <1>1
  <1>3. ASSUME IInv, GrantsAgree, [Next]_vars, NEW r \in Requests,
               Adds(r, "ONE_TIME_DISCLOSURE")
        PROVE  LET s == audit'[r][Len(audit'[r])].snapshot
               IN  \E k \in Calls :
                     LET a == call[k].authority
                     IN  /\ call[k].request = r /\ call[k].phase = "locked"
                         /\ ~ a.denied
                         /\ \A m \in s.items :
                               /\ s.versions[m] = memory[m].version
                               /\ memory[m].version <= a.at
                               /\ Permitted(memory[m].content, a.terms, a.at)
    <2>1. PICK k \in Calls : Deliver(k) /\ call[k].request = r
      BY <1>3, WhoAdds
    <2>2. audit'[r][Len(audit'[r])].snapshot = request[r].reviewSnapshot
      BY <1>3, <2>1, DeliveryCurrent
    <2> QED
      BY <1>3, <2>1, <2>2, DeliveryCurrent
  <1>4. IInv /\ GrantsAgree /\ [Next]_vars =>
           [\A r \in Requests : Adds(r, "ONE_TIME_DISCLOSURE") =>
               LET s == audit'[r][Len(audit'[r])].snapshot
               IN  \E k \in Calls :
                     LET a == call[k].authority
                     IN  /\ call[k].request = r /\ call[k].phase = "locked"
                         /\ ~ a.denied
                         /\ \A m \in s.items :
                               /\ s.versions[m] = memory[m].version
                               /\ memory[m].version <= a.at
                               /\ Permitted(memory[m].content, a.terms, a.at)]_vars
    BY <1>3
  <1> QED
    BY <1>2, <1>4, Invariance, GrantInvariance, PTL
       DEF Spec, AuthorityIsCurrent, OrphansStayOrphans, DisclosedAtOneInstant
=============================================================================

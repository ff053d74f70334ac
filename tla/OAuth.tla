------------------------------- MODULE OAuth --------------------------------
(***************************************************************************)
(* The OAuth 2.1 authorization server of the API (oauth/) for one owner:    *)
(* dynamic registration, consent, authorization codes, rotating token       *)
(* pairs, revocation, and the owner's edits of the grant (clients/).        *)
(*                                                                         *)
(* Handlers run at once; most of them are a chain of separate statements    *)
(* with no transaction around them.  The phase of a call names the          *)
(* statement it executes next, and its record holds what earlier            *)
(* statements read.  A credential presented by a client that does not own   *)
(* it, an unknown one and an expired one are refused before anything is     *)
(* written, so only the presentations that go further are actions.  The     *)
(* token events of the audit trail are left out.                            *)
(*                                                                         *)
(* Lifetimes are abstracted to a step that makes a live row expired.        *)
(***************************************************************************)
EXTENDS Integers, FiniteSets, Sequences

Scopes == {"memory.read", "memory.suggest"}
Operations == {"READ", "SUGGEST", "WRITE"}
TrustLevels == {"UNKNOWN", "APPROVED", "BLOCKED"}
TokenTypes == {"ACCESS", "REFRESH"}
RowStates == {"ABSENT", "LIVE", "DELETED"}

CONSTANTS
    Registrations,      \* registered connectors (OAuthClientRegistration)
    AuthRequests,       \* authorization requests waiting for consent
    Codes,              \* authorization codes
    Pairs,              \* token pairs, an access and a refresh token each
    Calls,              \* concurrent API calls
    None,               \* no request, no code, no pair
    ScopeInputs,        \* the sets of scopes a connector asks the owner for
    RefreshInputs,      \* the sets of scopes a refresh asks for
    TrustInputs,        \* the trust levels the owner saves
    OperationInputs,    \* the permissions the owner saves
    MaxPending,         \* oauthMaxPendingRegistrations
    MaxRows             \* bound on the client and the policy rows of a grant

ASSUME OAuthAssumption ==
    /\ Registrations # {}
    /\ None \notin AuthRequests /\ None \notin Codes /\ None \notin Pairs
    /\ ScopeInputs \subseteq SUBSET Scopes
    /\ RefreshInputs \subseteq SUBSET Scopes
    /\ TrustInputs \subseteq TrustLevels
    /\ OperationInputs \subseteq SUBSET Operations
    /\ MaxPending \in Nat \ {0}
    /\ MaxRows \in Nat \ {0}

VARIABLES
    registration,   \* status of each registration
    request,        \* authorization request rows
    client,         \* the owner's client row of each registration (a grant)
    policy,         \* the permissions of that client
    code,           \* authorization code rows
    pair,           \* token rows, two by two
    call,           \* calls in progress
    replayed        \* codes whose replay has been answered

vars == <<registration, request, client, policy, code, pair, call, replayed>>

-----------------------------------------------------------------------------
(* Rows *)


Requests == [state: RowStates, registration: Registrations,
             scopes: SUBSET Scopes, decided: BOOLEAN, expired: BOOLEAN]
Grants == [exists: BOOLEAN, id: Nat, trust: TrustLevels]
Policies == [exists: BOOLEAN, id: Nat, operations: SUBSET Operations]
CodeRows == [state: RowStates, registration: Registrations, client: Nat,
             scopes: SUBSET Scopes, consumed: BOOLEAN, expired: BOOLEAN]

\* ACCESS and REFRESH hold the state of each token; revokedAt outlasts
\* expiresAt.  spent is the pair whose refresh token paid for this one.
PairRows == [state: RowStates, registration: Registrations, client: Nat,
             scopes: SUBSET Scopes, source: Codes \cup {None},
             token: [TokenTypes -> {"live", "expired", "revoked"}],
             spent: Pairs \cup {None}]

Phases == {"idle", "register", "consentClient", "consentPolicy", "commit",
           "deny", "consume", "rotate", "issue", "findForCode",
           "findForClient", "revoke", "update"}

CallRecords ==
    [phase: Phases, registration: Registrations, request: AuthRequests \cup {None},
     grant: Grants, policy: Policies, trust: TrustLevels, code: Codes \cup {None},
     scopes: SUBSET Scopes, spent: Pairs \cup {None},
     tokens: SUBSET (Pairs \X TokenTypes)]

TypeOK ==
    /\ registration \in [Registrations -> {"ABSENT", "PENDING", "APPROVED"}]
    /\ request \in [AuthRequests -> Requests]
    /\ client \in [Registrations -> Grants]
    /\ policy \in [Registrations -> Policies]
    /\ code \in [Codes -> CodeRows]
    /\ pair \in [Pairs -> PairRows]
    /\ call \in [Calls -> CallRecords]
    /\ replayed \subseteq Codes

AnyRegistration == CHOOSE g \in Registrations : TRUE
NoGrant == [exists |-> FALSE, id |-> 0, trust |-> "UNKNOWN"]
NoPolicy == [exists |-> FALSE, id |-> 0, operations |-> {}]

IdleCall ==
    [phase |-> "idle", registration |-> AnyRegistration,
     request |-> None,
     grant |-> NoGrant, policy |-> NoPolicy, trust |-> "UNKNOWN",
     code |-> None, scopes |-> {}, spent |-> None,
     tokens |-> {}]

\* A call about the grant a credential was issued to.
CallOn(row) ==
    [IdleCall EXCEPT !.registration = row.registration,
                     !.grant = [NoGrant EXCEPT !.id = row.client]]

Start(k, record) ==
    /\ call[k].phase = "idle"
    /\ call' = [call EXCEPT ![k] = record]

Continue(k, record) == call' = [call EXCEPT ![k] = record]
Finish(k) == call' = [call EXCEPT ![k] = IdleCall]

-----------------------------------------------------------------------------
(* Registration and authorization *)

Pending == {g \in Registrations : registration[g] = "PENDING"}

BelowPendingLimit == Cardinality(Pending) < MaxPending

\* registerClient counts the pending registrations, then inserts.
CountPending(k, g) ==
    /\ registration[g] = "ABSENT"
    /\ \A j \in Calls : call[j].phase = "register" => call[j].registration # g
    /\ BelowPendingLimit
    /\ Start(k, [IdleCall EXCEPT !.phase = "register", !.registration = g])
    /\ UNCHANGED <<registration, request, client, policy, code, pair, replayed>>

Register(k) ==
    /\ call[k].phase = "register"
    /\ registration' = [registration EXCEPT ![call[k].registration] = "PENDING"]
    /\ Finish(k)
    /\ UNCHANGED <<request, client, policy, code, pair, replayed>>

\* authorize; a connector that names no scope asks for all of them.
Authorize(g, q, scopes) ==
    /\ registration[g] # "ABSENT" /\ scopes # {}
    /\ request[q].state = "ABSENT"
    /\ request' = [request EXCEPT ![q] =
          [state |-> "LIVE", registration |-> g, scopes |-> scopes,
           decided |-> FALSE, expired |-> FALSE]]
    /\ UNCHANGED <<registration, client, policy, code, pair, call, replayed>>

-----------------------------------------------------------------------------
(* Consent *)

\* loadPendingRequest, before the transaction of approve or deny.
Decidable(q) ==
    request[q].state = "LIVE" /\ ~ request[q].decided /\ ~ request[q].expired

LoadRequest(k, q) ==
    /\ Decidable(q)
    /\ \E phase \in {"consentClient", "deny"} :
          Start(k, [IdleCall EXCEPT !.phase = phase, !.request = q,
                                    !.registration = request[q].registration,
                                    !.scopes = request[q].scopes])
    /\ UNCHANGED <<registration, request, client, policy, code, pair, replayed>>

\* The consent's transaction has written the client row and not committed.
Writes(record) == ~ record.grant.exists \/ record.grant.trust # "APPROVED"

RowLocked(g) ==
    \E k \in Calls : /\ call[k].phase = "commit" /\ call[k].registration = g
                     /\ Writes(call[k])

ConsentRefused(grant) == grant.exists /\ grant.trust = "BLOCKED"

\* consentClient: a blocked app is refused.
ReadConsentClient(k) ==
    /\ call[k].phase = "consentClient"
    /\ LET grant == client[call[k].registration]
       IN  IF ConsentRefused(grant) THEN Finish(k)
           ELSE Continue(k, [call[k] EXCEPT !.phase = "consentPolicy",
                                !.grant = IF grant.exists THEN grant ELSE NoGrant])
    /\ UNCHANGED <<registration, request, client, policy, code, pair, replayed>>

\* Is the row that was read still the row of this registration?
SameGrant(g, id) == client[g].exists /\ client[g].id = id

\* ensureGrantClient writes the row unless it is approved already, then
\* ensureGrantPolicy reads the permissions.
EnsureClient(k) ==
    /\ call[k].phase = "consentPolicy"
    /\ LET g == call[k].registration
           grant == call[k].grant
       IN  /\ Writes(call[k]) => ~ RowLocked(g)
           /\ IF grant.exists THEN Writes(call[k]) => SameGrant(g, grant.id)
                              ELSE ~ client[g].exists
           /\ Continue(k, [call[k] EXCEPT !.phase = "commit",
                 !.policy = IF grant.exists /\ SameGrant(g, grant.id)
                                            /\ policy[g].exists
                            THEN policy[g] ELSE NoPolicy])
    /\ UNCHANGED <<registration, request, client, policy, code, pair, replayed>>

\* Mutant: the scopes themselves are stored.
ScopesToOperations_Identity(scopes) == scopes

ScopesToOperations(scopes) ==
    (IF "memory.read" \in scopes THEN {"READ"} ELSE {})
        \cup (IF "memory.suggest" \in scopes THEN {"SUGGEST"} ELSE {})

ResultingOperations(existing, scopes) == existing \cup ScopesToOperations(scopes)

Merged(record) == ResultingOperations(record.policy.operations, record.scopes)

\* The unique keys and the foreign keys the transaction's writes rely on.
Committable(k) ==
    LET g == call[k].registration
        seen == call[k].policy
    IN  /\ call[k].grant.exists => SameGrant(g, call[k].grant.id)
        /\ ~ call[k].grant.exists => ~ client[g].exists
        /\ ~ seen.exists => ~ policy[g].exists
        /\ seen.exists /\ Merged(call[k]) # seen.operations =>
              policy[g].exists /\ policy[g].id = seen.id

\* The row of a fresh grant, or the approved row.
GrantedClient(k) ==
    LET g == call[k].registration
    IN  IF ~ call[k].grant.exists
        THEN [exists |-> TRUE, id |-> client[g].id + 1, trust |-> "APPROVED"]
        ELSE IF Writes(call[k]) THEN [client[g] EXCEPT !.trust = "APPROVED"]
        ELSE client[g]

\* The permissions created or widened by the requested scopes.
GrantedPolicy(k) ==
    LET g == call[k].registration
        seen == call[k].policy
    IN  IF ~ seen.exists
        THEN [exists |-> TRUE, id |-> policy[g].id + 1,
              operations |-> ScopesToOperations(call[k].scopes)]
        ELSE IF Merged(call[k]) # seen.operations
             THEN [policy[g] EXCEPT !.operations = Merged(call[k])]
             ELSE policy[g]

\* The rest of approve's transaction: the permissions, the registration, the
\* code, decidedAt and the audit event.
CommitGrant(k) ==
    /\ call[k].phase = "commit"
    /\ Committable(k)
    /\ LET g == call[k].registration
           q == call[k].request
       IN  /\ GrantedClient(k).id <= MaxRows /\ GrantedPolicy(k).id <= MaxRows
           /\ client' = [client EXCEPT ![g] = GrantedClient(k)]
           /\ policy' = [policy EXCEPT ![g] = GrantedPolicy(k)]
           /\ registration' = [registration EXCEPT ![g] = "APPROVED"]
           /\ \E c \in Codes :
                 /\ code[c].state = "ABSENT"
                 /\ code' = [code EXCEPT ![c] =
                       [state |-> "LIVE", registration |-> g,
                        client |-> GrantedClient(k).id, scopes |-> call[k].scopes,
                        consumed |-> FALSE, expired |-> FALSE]]
           /\ request' = [request EXCEPT ![q] = [@ EXCEPT !.decided = TRUE]]
    /\ Finish(k)
    /\ UNCHANGED <<pair, replayed>>

\* A unique key or a missing row fails the transaction.
AbortConsent(k) ==
    /\ \/ /\ call[k].phase = "consentPolicy"
          /\ LET g == call[k].registration
                 grant == call[k].grant
             IN  IF grant.exists THEN Writes(call[k]) /\ ~ SameGrant(g, grant.id)
                                 ELSE client[g].exists
       \/ call[k].phase = "commit" /\ ~ Committable(k)
    /\ Finish(k)
    /\ UNCHANGED <<registration, request, client, policy, code, pair, replayed>>

Deny(k) ==
    /\ call[k].phase = "deny"
    /\ request' = [request EXCEPT ![call[k].request] = [@ EXCEPT !.decided = TRUE]]
    /\ Finish(k)
    /\ UNCHANGED <<registration, client, policy, code, pair, replayed>>

-----------------------------------------------------------------------------
(* Tokens *)

\* The registration and the client a credential was issued to are approved.
GrantApproved(row) ==
    /\ registration[row.registration] = "APPROVED"
    /\ SameGrant(row.registration, row.client)
    /\ client[row.registration].trust = "APPROVED"

\* exchangeAuthorizationCode reads the code: a code that was consumed is a
\* replay, a good one goes on to be consumed.
PresentCode(k, c) ==
    /\ code[c].state = "LIVE"
    /\ \/ /\ code[c].consumed
          /\ Start(k, [CallOn(code[c]) EXCEPT !.phase = "findForCode", !.code = c])
       \/ /\ ~ code[c].consumed /\ ~ code[c].expired /\ GrantApproved(code[c])
          /\ Start(k, [CallOn(code[c]) EXCEPT !.phase = "consume", !.code = c,
                                              !.scopes = code[c].scopes])
    /\ UNCHANGED <<registration, request, client, policy, code, pair, replayed>>

\* Mutant: consumedAt is written whatever its value.
Unconsumed_Any(c) == code[c].state = "LIVE"

Unconsumed(c) == code[c].state = "LIVE" /\ ~ code[c].consumed

\* The conditional update that one call wins.
Consume(k) ==
    /\ call[k].phase = "consume"
    /\ LET c == call[k].code
       IN  IF Unconsumed(c)
           THEN /\ code' = [code EXCEPT ![c] = [@ EXCEPT !.consumed = TRUE]]
                /\ Continue(k, [call[k] EXCEPT !.phase = "issue"])
           ELSE Finish(k) /\ UNCHANGED code
    /\ UNCHANGED <<registration, request, client, policy, pair, replayed>>

\* Mutant: a refresh may ask for any scope.
ScopesWithin_Any(asked, granted) == asked # {}

ScopesWithin(asked, granted) == asked # {} /\ asked \subseteq granted

\* exchangeRefreshToken reads the token: a revoked one is a reuse, whoever
\* presents it; a usable one is rotated.
PresentRefreshToken(k, p, scopes) ==
    /\ pair[p].state = "LIVE"
    /\ \/ /\ pair[p].token["REFRESH"] = "revoked"
          /\ Start(k, [CallOn(pair[p]) EXCEPT !.phase = "findForClient"])
       \/ /\ pair[p].token["REFRESH"] = "live" /\ GrantApproved(pair[p])
          /\ ScopesWithin(scopes, pair[p].scopes)
          /\ Start(k, [CallOn(pair[p]) EXCEPT !.phase = "rotate", !.spent = p,
                                              !.code = pair[p].source,
                                              !.scopes = scopes])
    /\ UNCHANGED <<registration, request, client, policy, code, pair, replayed>>

\* Revoke the tokens in ids that still have a row.
Revoked(ids) ==
    [p \in Pairs |-> [pair[p] EXCEPT !.token = [t \in TokenTypes |->
        IF <<p, t>> \in ids THEN "revoked" ELSE pair[p].token[t]]]]

RotatedTokens(k) == {<<call[k].spent, "REFRESH">>}

\* revokeTokenById; how many rows it changed is not looked at.
Rotate(k) ==
    /\ call[k].phase = "rotate"
    /\ pair' = Revoked(RotatedTokens(k))
    /\ Continue(k, [call[k] EXCEPT !.phase = "issue"])
    /\ UNCHANGED <<registration, request, client, policy, code, replayed>>

\* Mutant: the client is looked up by its registration.
ReferencesHold_AnyGrant(k) == client[call[k].registration].exists

\* The client the new tokens refer to still has its row.
ReferencesHold(k) == SameGrant(call[k].registration, call[k].grant.id)

\* issueTokenPair, in a transaction of its own; a foreign key failure leaves
\* nothing.
Issue(k) ==
    /\ call[k].phase = "issue"
    /\ IF ReferencesHold(k)
       THEN \E p \in Pairs :
               /\ pair[p].state = "ABSENT"
               /\ pair' = [pair EXCEPT ![p] =
                     [state |-> "LIVE", registration |-> call[k].registration,
                      client |-> call[k].grant.id, scopes |-> call[k].scopes,
                      source |-> call[k].code, spent |-> call[k].spent,
                      token |-> [t \in TokenTypes |-> "live"]]]
       ELSE UNCHANGED pair
    /\ Finish(k)
    /\ UNCHANGED <<registration, request, client, policy, code, replayed>>

-----------------------------------------------------------------------------
(* Revocation *)

\* The tokens of these pairs with revokedAt still null.
Unrevoked(pairs) ==
    {id \in pairs \X TokenTypes :
        pair[id[1]].state = "LIVE" /\ pair[id[1]].token[id[2]] # "revoked"}

TokensOfCode(c) == Unrevoked({p \in Pairs : pair[p].source = c})

TokensOfClient(g, id) ==
    Unrevoked({p \in Pairs : pair[p].registration = g /\ pair[p].client = id})

\* The call is answered.  A revocation with a code answers a replay.
Answer(k) ==
    /\ Finish(k)
    /\ replayed' = replayed \cup ({call[k].code} \ {None})

\* The first statement of revokeTokensForSourceCode and revokeTokensForClient
\* finds the tokens, a later one revokes those it found.
FindTokens(k) ==
    /\ call[k].phase \in {"findForCode", "findForClient"}
    /\ LET found == IF call[k].phase = "findForCode" THEN TokensOfCode(call[k].code)
                    ELSE TokensOfClient(call[k].registration, call[k].grant.id)
       IN  IF found = {} THEN Answer(k)
           ELSE /\ Continue(k, [call[k] EXCEPT !.phase = "revoke", !.tokens = found])
                /\ UNCHANGED replayed
    /\ UNCHANGED <<registration, request, client, policy, code, pair>>

RevokeFound(k) ==
    /\ call[k].phase = "revoke"
    /\ pair' = Revoked(call[k].tokens)
    /\ Answer(k)
    /\ UNCHANGED <<registration, request, client, policy, code>>

\* revokeToken: the connector hands back a token it no longer needs.  A
\* refresh token ends the family, an access token only itself.
PresentForRevocation(k, p, type) ==
    /\ pair[p].state = "LIVE" /\ pair[p].token[type] # "revoked"
    /\ IF type = "REFRESH"
       THEN Start(k, [CallOn(pair[p]) EXCEPT !.phase = "findForClient"])
       ELSE Start(k, [CallOn(pair[p]) EXCEPT !.phase = "revoke",
                                            !.tokens = {<<p, type>>}])
    /\ UNCHANGED <<registration, request, client, policy, code, pair, replayed>>

-----------------------------------------------------------------------------
(* The owner's edits of the grant *)

\* updateClient reads the row before its transaction.
ReadClient(k, g, trust) ==
    /\ client[g].exists
    /\ Start(k, [IdleCall EXCEPT !.phase = "update", !.registration = g,
                                 !.grant = client[g], !.trust = trust])
    /\ UNCHANGED <<registration, request, client, policy, code, pair, replayed>>

\* Blocking a grant that was not blocked when it was read revokes its tokens.
CutOff(k) ==
    IF call[k].trust = "BLOCKED" /\ call[k].grant.trust # "BLOCKED"
    THEN TokensOfClient(call[k].registration, call[k].grant.id)
    ELSE {}

UpdateClient(k) ==
    /\ call[k].phase = "update"
    /\ LET g == call[k].registration
       IN  /\ ~ RowLocked(g)
           /\ IF SameGrant(g, call[k].grant.id)
              THEN /\ client' = [client EXCEPT ![g] = [@ EXCEPT !.trust = call[k].trust]]
                   /\ pair' = Revoked(CutOff(k))
              ELSE UNCHANGED <<client, pair>>
    /\ Finish(k)
    /\ UNCHANGED <<registration, request, policy, code, replayed>>

\* deleteClient: codes, tokens and permissions go with the row.
DeleteClient(g) ==
    /\ client[g].exists /\ ~ RowLocked(g)
    /\ client' = [client EXCEPT ![g] = [@ EXCEPT !.exists = FALSE]]
    /\ policy' = [policy EXCEPT ![g] = [@ EXCEPT !.exists = FALSE]]
    /\ code' = [c \in Codes |->
          IF code[c].state = "LIVE" /\ code[c].registration = g
          THEN [code[c] EXCEPT !.state = "DELETED"] ELSE code[c]]
    /\ pair' = [p \in Pairs |->
          IF pair[p].state = "LIVE" /\ pair[p].registration = g
          THEN [pair[p] EXCEPT !.state = "DELETED"] ELSE pair[p]]
    /\ UNCHANGED <<registration, request, call, replayed>>

\* createPolicy, updatePolicy and deletePolicy on the grant's permissions.
SavePolicy(g, operations) ==
    /\ client[g].exists
    /\ policy[g].exists \/ policy[g].id < MaxRows
    /\ policy' = [policy EXCEPT ![g] =
          [exists |-> TRUE, operations |-> operations,
           id |-> IF policy[g].exists THEN policy[g].id ELSE policy[g].id + 1]]
    /\ UNCHANGED <<registration, request, client, code, pair, call, replayed>>

DeletePolicy(g) ==
    /\ policy[g].exists
    /\ policy' = [policy EXCEPT ![g] = [@ EXCEPT !.exists = FALSE]]
    /\ UNCHANGED <<registration, request, client, code, pair, call, replayed>>

-----------------------------------------------------------------------------
(* Time.  Expiry changes nothing for a request that was decided or a code that *)
(* was consumed: both are looked at first. *)

ExpireRequest(q) ==
    /\ request[q].state = "LIVE" /\ ~ request[q].decided /\ ~ request[q].expired
    /\ request' = [request EXCEPT ![q] = [@ EXCEPT !.expired = TRUE]]
    /\ UNCHANGED <<registration, client, policy, code, pair, call, replayed>>

ExpireCode(c) ==
    /\ code[c].state = "LIVE" /\ ~ code[c].consumed /\ ~ code[c].expired
    /\ code' = [code EXCEPT ![c] = [@ EXCEPT !.expired = TRUE]]
    /\ UNCHANGED <<registration, request, client, policy, pair, call, replayed>>

ExpireToken(p, type) ==
    /\ pair[p].state = "LIVE" /\ pair[p].token[type] = "live"
    /\ pair' = [pair EXCEPT ![p] =
          [@ EXCEPT !.token = [pair[p].token EXCEPT ![type] = "expired"]]]
    /\ UNCHANGED <<registration, request, client, policy, code, call, replayed>>

-----------------------------------------------------------------------------

Init ==
    /\ registration = [g \in Registrations |-> "ABSENT"]
    /\ request = [q \in AuthRequests |->
          [state |-> "ABSENT", registration |-> AnyRegistration, scopes |-> {},
           decided |-> FALSE, expired |-> FALSE]]
    /\ client = [g \in Registrations |-> NoGrant]
    /\ policy = [g \in Registrations |-> NoPolicy]
    /\ code = [c \in Codes |->
          [state |-> "ABSENT", registration |-> AnyRegistration, client |-> 0,
           scopes |-> {}, consumed |-> FALSE, expired |-> FALSE]]
    /\ pair = [p \in Pairs |->
          [state |-> "ABSENT", registration |-> AnyRegistration, client |-> 0,
           scopes |-> {}, source |-> None, spent |-> None,
           token |-> [t \in TokenTypes |-> "live"]]]
    /\ call = [k \in Calls |-> IdleCall]
    /\ replayed = {}

\* A request that reaches the API.
Arrive(k) ==
    \/ \E g \in Registrations : CountPending(k, g)
    \/ \E q \in AuthRequests : LoadRequest(k, q)
    \/ \E c \in Codes : PresentCode(k, c)
    \/ \E p \in Pairs, scopes \in RefreshInputs : PresentRefreshToken(k, p, scopes)
    \/ \E p \in Pairs, type \in TokenTypes : PresentForRevocation(k, p, type)
    \/ \E g \in Registrations, trust \in TrustInputs : ReadClient(k, g, trust)

\* The next statement of a call in progress.
Advance(k) ==
    \/ Register(k) \/ ReadConsentClient(k) \/ EnsureClient(k) \/ CommitGrant(k)
    \/ AbortConsent(k) \/ Deny(k) \/ Consume(k) \/ Rotate(k) \/ Issue(k)
    \/ FindTokens(k) \/ RevokeFound(k) \/ UpdateClient(k)

Edit(g) ==
    \/ \E q \in AuthRequests, scopes \in ScopeInputs : Authorize(g, q, scopes)
    \/ DeleteClient(g)
    \/ \E operations \in OperationInputs : SavePolicy(g, operations)
    \/ DeletePolicy(g)

Expire ==
    \/ \E q \in AuthRequests : ExpireRequest(q)
    \/ \E c \in Codes : ExpireCode(c)
    \/ \E p \in Pairs, type \in TokenTypes : ExpireToken(p, type)

Next ==
    \/ \E k \in Calls : Arrive(k) \/ Advance(k)
    \/ \E g \in Registrations : Edit(g)
    \/ Expire

Spec == Init /\ [][Next]_vars

-----------------------------------------------------------------------------
(* Properties *)

Minted(p) == pair[p].state # "ABSENT"
HasLiveToken(p) ==
    pair[p].state = "LIVE" /\ \E t \in TokenTypes : pair[p].token[t] = "live"

\* A code is worth one token pair, however many calls present it at once: the
\* conditional update of consumedAt lets one of them through.  Pairs issued for
\* a refresh token descend from another pair and do not count.
CodeExchangedOnce ==
    \A p, r \in Pairs :
        /\ Minted(p) /\ pair[p].spent = None
        /\ Minted(r) /\ pair[r].spent = None
        /\ pair[p].source = pair[r].source
        => p = r

\* A token never carries more than was consented to: along any chain of
\* refreshes its scopes stay within those of the consumed code it descends from.
ScopesWithinConsent ==
    \A p \in Pairs : pair[p].state = "LIVE" =>
        /\ code[pair[p].source].consumed
        /\ pair[p].scopes \subseteq code[pair[p].source].scopes

\* A token never outlives its grant: a client row that was deleted and granted
\* anew has none of its predecessor's tokens, even when an exchange or a refresh
\* was between two of its statements (the cascade and the foreign key).
TokensStayWithGrant ==
    \A p \in Pairs : pair[p].state = "LIVE" =>
        /\ SameGrant(pair[p].registration, pair[p].client)
        /\ pair[p].client = code[pair[p].source].client

\* "Replayed authorization codes [...] revoke the grant's whole token family".
ReplayedCodeIsDead ==
    \A p \in Pairs : pair[p].source \in replayed => ~ HasLiveToken(p)

\* "Reused rotated refresh tokens revoke the grant's whole token family": a token
\* that paid for two pairs was used again, and none of them is left.
ReusedTokenIsDead ==
    \A p, r \in Pairs :
        /\ p # r /\ Minted(p) /\ Minted(r)
        /\ pair[p].spent # None /\ pair[p].spent = pair[r].spent
        => ~ HasLiveToken(p) /\ ~ HasLiveToken(r)

\* "Setting its trust to blocked [...] revokes all issued tokens immediately":
\* a blocked grant has no token left that would work again once it is unblocked.
BlockedGrantIsCutOff ==
    \A p \in Pairs :
        HasLiveToken(p) => client[pair[p].registration].trust # "BLOCKED"

\* What docs/mcp-integration.md says of revocation, of calls that overlap too.  It
\* does not hold: none of the three does (two pairs show it of a replayed code and
\* of a blocked grant, three of a reused refresh token).  The tokens are looked for
\* before an exchange or a refresh in progress stores the ones it issues.
RevocationIsComplete ==
    ReplayedCodeIsDead /\ ReusedTokenIsDead /\ BlockedGrantIsCutOff
=============================================================================

---------------------------- MODULE OAuthProofs -----------------------------
(***************************************************************************)
(* Proofs about the authorization server, for any number of registrations,  *)
(* requests, codes and token pairs.  However calls overlap: an               *)
(* authorization code is worth one token pair, and a token stays within the  *)
(* consent and the grant it descends from.                                   *)
(***************************************************************************)
EXTENDS OAuth, TLAPS

\* The call holds a credential it has read as good, and is on its way to issue
\* a token pair.
Exchanging(k) == call[k].phase \in {"consume", "rotate", "issue"}

\* A credential agrees with the code it descends from.
Descends(c, g, id, scopes) ==
    /\ c \in Codes
    /\ code[c].state # "ABSENT"
    /\ g = code[c].registration
    /\ id = code[c].client
    /\ scopes \subseteq code[c].scopes

\* What every exchange, every token pair and every code can rely on.
Lineage ==
    /\ \A c \in Codes : code[c].state = "ABSENT" => ~ code[c].consumed
    /\ \A k \in Calls : Exchanging(k) =>
          /\ Descends(call[k].code, call[k].registration, call[k].grant.id,
                      call[k].scopes)
          /\ call[k].phase = "consume" => call[k].spent = None
          /\ call[k].phase = "rotate" => call[k].spent # None
          /\ call[k].phase # "consume" => code[call[k].code].consumed
    /\ \A p \in Pairs : Minted(p) =>
          /\ Descends(pair[p].source, pair[p].registration, pair[p].client,
                      pair[p].scopes)
          /\ code[pair[p].source].consumed

\* A live token pair belongs to the client row of its registration.
Belongs ==
    \A p \in Pairs : pair[p].state = "LIVE" =>
        SameGrant(pair[p].registration, pair[p].client)

\* The right to issue the one pair a code is worth: held by the call that
\* consumed it, and then by the pair.
Claims(k, c) == call[k].phase = "issue" /\ call[k].spent = None /\ call[k].code = c
Paid(p, c) == Minted(p) /\ pair[p].spent = None /\ pair[p].source = c

OneClaim ==
    \A c \in Codes :
        /\ \A j, k \in Calls : Claims(j, c) /\ Claims(k, c) => j = k
        /\ \A k \in Calls, p \in Pairs : ~ (Claims(k, c) /\ Paid(p, c))
        /\ \A p, r \in Pairs : Paid(p, c) /\ Paid(r, c) => p = r

IInv == TypeOK /\ Lineage /\ Belongs /\ OneClaim

-----------------------------------------------------------------------------
(* Types *)

LEMMA IdleCallType ==
    /\ IdleCall \in CallRecords
    /\ IdleCall.phase = "idle"
    /\ IdleCall.spent = None
  <1>1. AnyRegistration \in Registrations
    BY OAuthAssumption DEF AnyRegistration
  <1> QED
    BY <1>1 DEF IdleCall, CallRecords, NoGrant, NoPolicy, Grants, Policies,
                Phases, TrustLevels, Operations, Scopes, TokenTypes

LEMMA CallOnType ==
    ASSUME NEW row, row.registration \in Registrations, row.client \in Nat
    PROVE  /\ CallOn(row) \in CallRecords
           /\ CallOn(row).registration = row.registration
           /\ CallOn(row).grant.id = row.client
           /\ CallOn(row).spent = None
  <1> DEFINE grant == [NoGrant EXCEPT !.id = row.client]
  <1>1. grant \in Grants /\ grant.id = row.client
    BY DEF NoGrant, Grants, TrustLevels
  <1>2. CallOn(row) = [IdleCall EXCEPT !.registration = row.registration,
                                       !.grant = grant]
    BY DEF CallOn
  <1> HIDE DEF grant
  <1> QED
    BY <1>1, <1>2, IdleCallType DEF CallRecords

LEMMA UpdatedCall ==
    ASSUME TypeOK, NEW k \in Calls, NEW record \in CallRecords,
           call' = [call EXCEPT ![k] = record]
    PROVE  /\ call' \in [Calls -> CallRecords]
           /\ call'[k] = record
           /\ \A j \in Calls : j # k => call'[j] = call[j]
  BY DEF TypeOK

LEMMA FinishedCall ==
    ASSUME TypeOK, NEW k \in Calls, Finish(k)
    PROVE  /\ call' \in [Calls -> CallRecords]
           /\ call'[k].phase = "idle"
           /\ \A j \in Calls : j # k => call'[j] = call[j]
  BY IdleCallType, UpdatedCall DEF Finish

LEMMA RevokedType ==
    ASSUME TypeOK, NEW ids
    PROVE  /\ Revoked(ids) \in [Pairs -> PairRows]
           /\ \A p \in Pairs :
                /\ Revoked(ids)[p].state = pair[p].state
                /\ Revoked(ids)[p].registration = pair[p].registration
                /\ Revoked(ids)[p].client = pair[p].client
                /\ Revoked(ids)[p].scopes = pair[p].scopes
                /\ Revoked(ids)[p].source = pair[p].source
                /\ Revoked(ids)[p].spent = pair[p].spent
  <1> SUFFICES ASSUME NEW p \in Pairs
               PROVE  LET row == Revoked(ids)[p]
                      IN  /\ row \in PairRows
                          /\ row.state = pair[p].state
                          /\ row.registration = pair[p].registration
                          /\ row.client = pair[p].client
                          /\ row.scopes = pair[p].scopes
                          /\ row.source = pair[p].source
                          /\ row.spent = pair[p].spent
    BY DEF Revoked
  <1> DEFINE tokens == [t \in TokenTypes |->
                IF <<p, t>> \in ids THEN "revoked" ELSE pair[p].token[t]]
  <1>1. pair[p] \in PairRows
    BY DEF TypeOK
  <1>2. tokens \in [TokenTypes -> {"live", "expired", "revoked"}]
    BY <1>1 DEF PairRows
  <1>3. Revoked(ids)[p] = [pair[p] EXCEPT !.token = tokens]
    BY DEF Revoked
  <1> HIDE DEF tokens
  <1> QED
    BY <1>1, <1>2, <1>3 DEF PairRows

\* Nothing but call changes, and the call that changes is not exchanging.
LEMMA OtherCall ==
    ASSUME IInv, NEW k \in Calls, NEW record \in CallRecords,
           call' = [call EXCEPT ![k] = record],
           record.phase \notin {"consume", "rotate", "issue"},
           registration' \in [Registrations -> {"ABSENT", "PENDING", "APPROVED"}],
           request' \in [AuthRequests -> Requests],
           policy' \in [Registrations -> Policies],
           replayed' \subseteq Codes,
           UNCHANGED <<client, code, pair>>
    PROVE  IInv'
  <1>1. /\ call' \in [Calls -> CallRecords]
        /\ call'[k] = record
        /\ \A j \in Calls : j # k => call'[j] = call[j]
    BY UpdatedCall DEF IInv
  <1>2. TypeOK'
    BY <1>1 DEF IInv, TypeOK
  <1>3. Lineage'
    BY <1>1 DEF IInv, Lineage, Exchanging, Descends, Minted
  <1>4. Belongs'
    BY DEF IInv, Belongs, SameGrant
  <1>5. OneClaim'
    BY <1>1 DEF IInv, OneClaim, Claims, Paid, Minted
  <1> QED
    BY <1>2, <1>3, <1>4, <1>5 DEF IInv

LEMMA InitialState == Init => IInv
  <1> SUFFICES ASSUME Init PROVE IInv
    OBVIOUS
  <1>1. AnyRegistration \in Registrations
    BY OAuthAssumption DEF AnyRegistration
  <1>2. /\ request \in [AuthRequests -> Requests]
        /\ code \in [Codes -> CodeRows]
    BY <1>1 DEF Init, Requests, CodeRows, RowStates, Scopes
  <1>3. pair \in [Pairs -> PairRows]
    BY <1>1 DEF Init, PairRows, RowStates, Scopes
  <1>4. client \in [Registrations -> Grants] /\ policy \in [Registrations -> Policies]
    BY DEF Init, NoGrant, NoPolicy, Grants, Policies, TrustLevels, Operations
  <1>5. call \in [Calls -> CallRecords]
    BY IdleCallType DEF Init
  <1>7. TypeOK
    BY <1>2, <1>3, <1>4, <1>5 DEF Init, TypeOK
  <1>8. Lineage /\ Belongs /\ OneClaim
    BY IdleCallType DEF Init, Lineage, Belongs, OneClaim, Exchanging, Minted,
                        Claims, Paid
  <1> QED
    BY <1>7, <1>8 DEF IInv

-----------------------------------------------------------------------------
(* Steps that issue nothing *)

\* A row that keeps what its descendants rely on.
Keeps(new, old) ==
    /\ new.registration = old.registration
    /\ new.client = old.client
    /\ new.scopes = old.scopes

\* Calls leave the exchange, codes are created but never changed in what a
\* token relies on, token rows are revoked, expire or go, and a live token has
\* its client.
LEMMA NothingIssued ==
    ASSUME IInv, TypeOK',
           \A k \in Calls : call'[k] = call[k] \/ ~ Exchanging(k)',
           \A c \in Codes : code'[c].state = "ABSENT" => ~ code'[c].consumed,
           \A c \in Codes : code[c].state # "ABSENT" =>
               /\ code'[c].state # "ABSENT"
               /\ code'[c].consumed = code[c].consumed
               /\ Keeps(code'[c], code[c]),
           \A p \in Pairs :
               /\ Minted(p)' = Minted(p)
               /\ pair'[p].source = pair[p].source
               /\ pair'[p].spent = pair[p].spent
               /\ Keeps(pair'[p], pair[p]),
           Belongs'
    PROVE  IInv'
  <1>1. Lineage'
    BY DEF IInv, Lineage, Exchanging, Descends, Keeps
  <1>2. OneClaim'
    BY DEF IInv, OneClaim, Claims, Paid, Exchanging
  <1> QED
    BY <1>1, <1>2 DEF IInv

\* A consent moves on with what it has read.
LEMMA ConsentCall ==
    ASSUME NEW c \in CallRecords, NEW grant \in Grants
    PROVE  /\ [c EXCEPT !.phase = "consentPolicy", !.grant = grant] \in CallRecords
           /\ [c EXCEPT !.phase = "consentPolicy", !.grant = grant].phase = "consentPolicy"
  BY DEF CallRecords, Phases

LEMMA GrantCall ==
    ASSUME NEW c \in CallRecords, NEW seen \in Policies
    PROVE  /\ [c EXCEPT !.phase = "commit", !.policy = seen] \in CallRecords
           /\ [c EXCEPT !.phase = "commit", !.policy = seen].phase = "commit"
  BY DEF CallRecords, Phases

LEMMA OtherCallSteps ==
    ASSUME IInv, NEW k \in Calls,
           \/ \E g \in Registrations : CountPending(k, g)
           \/ Register(k)
           \/ \E q \in AuthRequests : LoadRequest(k, q)
           \/ ReadConsentClient(k) \/ EnsureClient(k) \/ AbortConsent(k) \/ Deny(k)
           \/ FindTokens(k)
           \/ \E p \in Pairs, type \in TokenTypes : PresentForRevocation(k, p, type)
           \/ \E g \in Registrations, trust \in TrustInputs : ReadClient(k, g, trust)
    PROVE  IInv'
  <1> USE IdleCallType
  <1>0. TypeOK /\ call[k] \in CallRecords
    BY DEF IInv, TypeOK
  <1>1. ASSUME NEW g \in Registrations, CountPending(k, g) PROVE IInv'
    <2> DEFINE new == [IdleCall EXCEPT !.phase = "register", !.registration = g]
    <2>1. new \in CallRecords /\ new.phase = "register"
      BY DEF CallRecords, Phases
    <2>2. call' = [call EXCEPT ![k] = new]
      BY <1>1 DEF CountPending, Start
    <2> HIDE DEF new
    <2> QED
      BY <1>0, <1>1, <2>1, <2>2, OtherCall DEF CountPending, TypeOK
  <1>2. CASE Register(k)
    <2>1. registration' \in [Registrations -> {"ABSENT", "PENDING", "APPROVED"}]
      BY <1>0, <1>2 DEF Register, TypeOK
    <2> QED
      BY <1>0, <1>2, <2>1, OtherCall DEF Register, TypeOK, Finish
  <1>3. ASSUME NEW q \in AuthRequests, LoadRequest(k, q) PROVE IInv'
    <2>1. PICK phase \in {"consentClient", "deny"} :
             Start(k, [IdleCall EXCEPT !.phase = phase, !.request = q,
                                    !.registration = request[q].registration,
                                    !.scopes = request[q].scopes])
      BY <1>3 DEF LoadRequest
    <2> DEFINE new == [IdleCall EXCEPT !.phase = phase, !.request = q,
                                    !.registration = request[q].registration,
                                    !.scopes = request[q].scopes]
    <2>2. request[q].registration \in Registrations /\ request[q].scopes \subseteq Scopes
      BY <1>0 DEF TypeOK, Requests
    <2>3. new \in CallRecords /\ new.phase = phase
      BY <2>2 DEF CallRecords, Phases
    <2>4. call' = [call EXCEPT ![k] = new]
      BY <2>1 DEF Start
    <2> HIDE DEF new
    <2> QED
      BY <1>0, <1>3, <2>3, <2>4, OtherCall DEF LoadRequest, TypeOK
  <1>4. CASE ReadConsentClient(k)
    <2> DEFINE row == client[call[k].registration]
               grant == IF row.exists THEN row ELSE NoGrant
               new == [call[k] EXCEPT !.phase = "consentPolicy", !.grant = grant]
    <2>1. grant \in Grants
      BY <1>0 DEF TypeOK, CallRecords, NoGrant, Grants, TrustLevels
    <2>2. \/ call' = [call EXCEPT ![k] = new]
          \/ call' = [call EXCEPT ![k] = IdleCall]
      BY <1>4 DEF ReadConsentClient, Continue, Finish
    <2> HIDE DEF grant
    <2>3. new \in CallRecords /\ new.phase = "consentPolicy"
      BY <1>0, <2>1, ConsentCall
    <2> HIDE DEF new
    <2> QED
      BY <1>0, <1>4, <2>2, <2>3, OtherCall DEF ReadConsentClient, TypeOK
  <1>5. CASE EnsureClient(k)
    <2> DEFINE g == call[k].registration
               seen == IF call[k].grant.exists /\ SameGrant(g, call[k].grant.id)
                                                /\ policy[g].exists
                       THEN policy[g] ELSE NoPolicy
               new == [call[k] EXCEPT !.phase = "commit", !.policy = seen]
    <2>1. seen \in Policies
      BY <1>0 DEF TypeOK, CallRecords, NoPolicy, Policies, Operations
    <2>2. call' = [call EXCEPT ![k] = new]
      BY <1>5 DEF EnsureClient, Continue
    <2> HIDE DEF seen
    <2>3. new \in CallRecords /\ new.phase = "commit"
      BY <1>0, <2>1, GrantCall
    <2> HIDE DEF new
    <2> QED
      BY <1>0, <1>5, <2>2, <2>3, OtherCall DEF EnsureClient, TypeOK
  <1>6. CASE AbortConsent(k)
    BY <1>0, <1>6, OtherCall DEF AbortConsent, TypeOK, Finish
  <1>7. CASE Deny(k)
    <2>1. request' \in [AuthRequests -> Requests]
      <3>1. \A q \in AuthRequests : [request[q] EXCEPT !.decided = TRUE] \in Requests
        BY <1>0 DEF TypeOK, Requests
      <3> QED
        BY <1>0, <1>7, <3>1 DEF Deny, TypeOK
    <2> QED
      BY <1>0, <1>7, <2>1, OtherCall DEF Deny, TypeOK, Finish
  <1>8. CASE FindTokens(k)
    <2> DEFINE found == IF call[k].phase = "findForCode" THEN TokensOfCode(call[k].code)
                        ELSE TokensOfClient(call[k].registration, call[k].grant.id)
               new == [call[k] EXCEPT !.phase = "revoke", !.tokens = found]
    <2>1. found \in SUBSET (Pairs \X TokenTypes)
      BY DEF TokensOfCode, TokensOfClient, Unrevoked
    <2>2. \/ call' = [call EXCEPT ![k] = new] /\ UNCHANGED replayed
          \/ Answer(k)
      BY <1>8 DEF FindTokens, Continue
    <2>3. UNCHANGED <<registration, request, client, policy, code, pair>>
      BY <1>8 DEF FindTokens
    <2> HIDE DEF found
    <2>4. new \in CallRecords /\ new.phase = "revoke"
      BY <1>0, <2>1 DEF CallRecords, Phases
    <2> HIDE DEF new
    <2>5. CASE call' = [call EXCEPT ![k] = new] /\ UNCHANGED replayed
      BY <1>0, <2>3, <2>4, <2>5, OtherCall DEF TypeOK
    <2>6. CASE Answer(k)
      <3>1. replayed' \subseteq Codes
        BY <1>0, <2>6 DEF Answer, TypeOK, CallRecords
      <3> QED
        BY <1>0, <2>3, <2>6, <3>1, OtherCall DEF TypeOK, Answer, Finish
    <2> QED
      BY <2>2, <2>5, <2>6
  <1>9. ASSUME NEW p \in Pairs, NEW type \in TokenTypes,
               PresentForRevocation(k, p, type)
        PROVE  IInv'
    <2>1. pair[p].registration \in Registrations /\ pair[p].client \in Nat
      BY <1>0 DEF TypeOK, PairRows
    <2>2. PICK on \in CallRecords : on = CallOn(pair[p])
      BY <2>1, CallOnType
    <2> DEFINE family == [on EXCEPT !.phase = "findForClient"]
               single == [on EXCEPT !.phase = "revoke", !.tokens = {<<p, type>>}]
    <2>6. \/ call' = [call EXCEPT ![k] = [CallOn(pair[p]) EXCEPT !.phase = "findForClient"]]
          \/ call' = [call EXCEPT ![k] = [CallOn(pair[p]) EXCEPT !.phase = "revoke",
                                                               !.tokens = {<<p, type>>}]]
      BY <1>9 DEF PresentForRevocation, Start
    <2>3. \/ call' = [call EXCEPT ![k] = family]
          \/ call' = [call EXCEPT ![k] = single]
      BY <2>2, <2>6
    <2>4. {<<p, type>>} \in SUBSET (Pairs \X TokenTypes)
      OBVIOUS
    <2>7. family \in CallRecords /\ family.phase = "findForClient"
      BY DEF CallRecords, Phases
    <2>8. single \in CallRecords /\ single.phase = "revoke"
      BY <2>4 DEF CallRecords, Phases
    <2>5. /\ family \in CallRecords /\ family.phase = "findForClient"
          /\ single \in CallRecords /\ single.phase = "revoke"
      BY <2>7, <2>8
    <2> HIDE DEF family, single
    <2> QED
      BY <1>0, <1>9, <2>3, <2>5, OtherCall DEF PresentForRevocation, TypeOK
  <1>10. ASSUME NEW g \in Registrations, NEW trust \in TrustInputs,
                ReadClient(k, g, trust)
         PROVE  IInv'
    <2> DEFINE new == [IdleCall EXCEPT !.phase = "update", !.registration = g,
                                       !.grant = client[g], !.trust = trust]
    <2>1. client[g] \in Grants /\ trust \in TrustLevels
      BY <1>0, OAuthAssumption DEF TypeOK
    <2>2. call' = [call EXCEPT ![k] = new]
      BY <1>10 DEF ReadClient, Start
    <2>3. new \in CallRecords /\ new.phase = "update"
      BY <2>1 DEF CallRecords, Phases
    <2> HIDE DEF new
    <2> QED
      BY <1>0, <1>10, <2>2, <2>3, OtherCall DEF ReadClient, TypeOK
  <1> QED
    BY <1>1, <1>2, <1>3, <1>4, <1>5, <1>6, <1>7, <1>8, <1>9, <1>10

LEMMA OwnerSteps ==
    ASSUME IInv, NEW g \in Registrations, Edit(g)
    PROVE  IInv'
  <1>0. TypeOK
    BY DEF IInv
  <1>1. ASSUME NEW q \in AuthRequests, NEW scopes \in ScopeInputs, Authorize(g, q, scopes)
        PROVE  IInv'
    <2>1. [state |-> "LIVE", registration |-> g, scopes |-> scopes,
           decided |-> FALSE, expired |-> FALSE] \in Requests
      BY OAuthAssumption DEF Requests, RowStates
    <2>2. TypeOK'
      BY <1>0, <1>1, <2>1 DEF Authorize, TypeOK
    <2> QED
      BY <1>1, <2>2, NothingIssued
         DEF Authorize, IInv, Lineage, Keeps, Belongs, SameGrant, Minted
  <1>2. CASE DeleteClient(g)
    <2>1. client' \in [Registrations -> Grants] /\ policy' \in [Registrations -> Policies]
      <3>1. [client[g] EXCEPT !.exists = FALSE] \in Grants
        BY <1>0 DEF TypeOK, Grants
      <3>2. [policy[g] EXCEPT !.exists = FALSE] \in Policies
        BY <1>0 DEF TypeOK, Policies
      <3> QED
        BY <1>0, <1>2, <3>1, <3>2 DEF DeleteClient, TypeOK
    <2>2. \A c \in Codes :
             /\ code'[c] \in CodeRows
             /\ code'[c].state = "ABSENT" <=> code[c].state = "ABSENT"
             /\ code'[c].consumed = code[c].consumed
             /\ Keeps(code'[c], code[c])
      <3> SUFFICES ASSUME NEW c \in Codes
                   PROVE  /\ code'[c] \in CodeRows
                          /\ code'[c].state = "ABSENT" <=> code[c].state = "ABSENT"
                          /\ code'[c].consumed = code[c].consumed
                          /\ Keeps(code'[c], code[c])
        OBVIOUS
      <3>1. code[c] \in CodeRows
        BY <1>0 DEF TypeOK
      <3>2. \/ code'[c] = code[c]
            \/ code[c].state = "LIVE" /\ code'[c] = [code[c] EXCEPT !.state = "DELETED"]
        BY <1>2 DEF DeleteClient
      <3> QED
        BY <3>1, <3>2 DEF CodeRows, RowStates, Keeps
    <2>3. \A p \in Pairs :
             /\ pair'[p] \in PairRows
             /\ Minted(p)' = Minted(p)
             /\ pair'[p].state = "LIVE" => pair[p].state = "LIVE"
                                             /\ pair[p].registration # g
             /\ pair'[p].source = pair[p].source
             /\ pair'[p].spent = pair[p].spent
             /\ Keeps(pair'[p], pair[p])
      <3> SUFFICES ASSUME NEW p \in Pairs
                   PROVE  /\ pair'[p] \in PairRows
                          /\ Minted(p)' = Minted(p)
                          /\ pair'[p].state = "LIVE" => pair[p].state = "LIVE"
                                             /\ pair[p].registration # g
                          /\ pair'[p].source = pair[p].source
                          /\ pair'[p].spent = pair[p].spent
                          /\ Keeps(pair'[p], pair[p])
        OBVIOUS
      <3>1. pair[p] \in PairRows
        BY <1>0 DEF TypeOK
      <3>2. \/ /\ pair'[p] = pair[p]
               /\ ~ (pair[p].state = "LIVE" /\ pair[p].registration = g)
            \/ pair[p].state = "LIVE" /\ pair'[p] = [pair[p] EXCEPT !.state = "DELETED"]
        BY <1>2 DEF DeleteClient
      <3> QED
        BY <3>1, <3>2 DEF PairRows, RowStates, Keeps, Minted
    <2>4. TypeOK'
      BY <1>0, <1>2, <2>1, <2>2, <2>3 DEF DeleteClient, TypeOK
    <2>5. Belongs'
      <3>1. \A h \in Registrations : h # g => client'[h] = client[h]
        BY <1>0, <1>2 DEF DeleteClient, TypeOK
      <3>2. \A p \in Pairs : pair[p].registration \in Registrations
        BY <1>0 DEF TypeOK, PairRows
      <3> QED
        BY <2>3, <3>1, <3>2 DEF IInv, Belongs, SameGrant, Keeps
    <2> QED
      BY <1>2, <2>2, <2>3, <2>4, <2>5, NothingIssued DEF DeleteClient, IInv, Lineage
  <1>3. ASSUME NEW operations \in OperationInputs, SavePolicy(g, operations)
        PROVE  IInv'
    <2> DEFINE new == [exists |-> TRUE, operations |-> operations,
               id |-> IF policy[g].exists THEN policy[g].id ELSE policy[g].id + 1]
    <2>1. policy[g].id \in Nat
      BY <1>0 DEF TypeOK, Policies
    <2>2. new \in Policies
      BY <2>1, OAuthAssumption DEF Policies
    <2>3. policy' = [policy EXCEPT ![g] = new]
      BY <1>3 DEF SavePolicy
    <2> HIDE DEF new
    <2>4. TypeOK'
      BY <1>0, <1>3, <2>2, <2>3 DEF SavePolicy, TypeOK
    <2> QED
      BY <1>3, <2>4, NothingIssued
         DEF SavePolicy, IInv, Lineage, Keeps, Belongs, SameGrant, Minted
  <1>4. CASE DeletePolicy(g)
    <2>1. [policy[g] EXCEPT !.exists = FALSE] \in Policies
      BY <1>0 DEF TypeOK, Policies
    <2>2. TypeOK'
      BY <1>0, <1>4, <2>1 DEF DeletePolicy, TypeOK
    <2> QED
      BY <1>4, <2>2, NothingIssued
         DEF DeletePolicy, IInv, Lineage, Keeps, Belongs, SameGrant, Minted
  <1> QED
    BY <1>1, <1>2, <1>3, <1>4 DEF Edit

LEMMA ExpirySteps ==
    ASSUME IInv, Expire
    PROVE  IInv'
  <1>0. TypeOK
    BY DEF IInv
  <1>1. ASSUME NEW q \in AuthRequests, ExpireRequest(q) PROVE IInv'
    <2>1. [request[q] EXCEPT !.expired = TRUE] \in Requests
      BY <1>0 DEF TypeOK, Requests
    <2>2. TypeOK'
      BY <1>0, <1>1, <2>1 DEF ExpireRequest, TypeOK
    <2> QED
      BY <1>1, <2>2, NothingIssued
         DEF ExpireRequest, IInv, Lineage, Keeps, Belongs, SameGrant, Minted
  <1>2. ASSUME NEW c \in Codes, ExpireCode(c) PROVE IInv'
    <2> DEFINE new == [code[c] EXCEPT !.expired = TRUE]
    <2>1. /\ new \in CodeRows /\ new.state = code[c].state
          /\ new.consumed = code[c].consumed /\ Keeps(new, code[c])
      BY <1>0 DEF TypeOK, CodeRows, Keeps
    <2>2. code' = [code EXCEPT ![c] = new]
      BY <1>2 DEF ExpireCode
    <2> HIDE DEF new
    <2>3. TypeOK'
      BY <1>0, <1>2, <2>1, <2>2 DEF ExpireCode, TypeOK
    <2>4. \A d \in Codes : code'[d] = IF d = c THEN new ELSE code[d]
      BY <1>0, <2>2 DEF TypeOK
    <2> QED
      BY <1>2, <2>1, <2>3, <2>4, NothingIssued
         DEF ExpireCode, IInv, Lineage, Keeps, Belongs, SameGrant, Minted
  <1>3. ASSUME NEW p \in Pairs, NEW type \in TokenTypes, ExpireToken(p, type)
        PROVE  IInv'
    <2> DEFINE tokens == [pair[p].token EXCEPT ![type] = "expired"]
               new == [pair[p] EXCEPT !.token = tokens]
    <2>1. pair[p] \in PairRows
      BY <1>0 DEF TypeOK
    <2>2. tokens \in [TokenTypes -> {"live", "expired", "revoked"}]
      BY <2>1 DEF PairRows
    <2>3. pair' = [pair EXCEPT ![p] = new]
      BY <1>3 DEF ExpireToken
    <2> HIDE DEF tokens
    <2>4. /\ new \in PairRows /\ new.state = pair[p].state
          /\ new.source = pair[p].source /\ new.spent = pair[p].spent
          /\ Keeps(new, pair[p])
      BY <2>1, <2>2 DEF PairRows, Keeps
    <2> HIDE DEF new
    <2>5. TypeOK'
      BY <1>0, <1>3, <2>3, <2>4 DEF ExpireToken, TypeOK
    <2>6. \A r \in Pairs : pair'[r] = IF r = p THEN new ELSE pair[r]
      BY <1>0, <2>3 DEF TypeOK
    <2> QED
      BY <1>3, <2>4, <2>5, <2>6, NothingIssued
         DEF ExpireToken, IInv, Lineage, Keeps, Belongs, SameGrant, Minted
  <1> QED
    BY <1>1, <1>2, <1>3 DEF Expire

LEMMA RevokingSteps ==
    ASSUME IInv, NEW k \in Calls, RevokeFound(k) \/ UpdateClient(k)
    PROVE  IInv'
  <1>0. TypeOK /\ call[k] \in CallRecords
    BY DEF IInv, TypeOK
  <1>1. Finish(k)
    BY DEF RevokeFound, UpdateClient, Answer
  <1>2. /\ call' \in [Calls -> CallRecords]
        /\ call'[k].phase = "idle"
        /\ \A j \in Calls : j # k => call'[j] = call[j]
    BY <1>0, <1>1, FinishedCall
  <1>3. pair' = pair \/ \E ids : pair' = Revoked(ids)
    BY DEF RevokeFound, UpdateClient
  <1>4. /\ pair' \in [Pairs -> PairRows]
        /\ \A p \in Pairs :
             /\ pair'[p].state = pair[p].state
             /\ pair'[p].source = pair[p].source
             /\ pair'[p].spent = pair[p].spent
             /\ Keeps(pair'[p], pair[p])
    <2>1. CASE pair' = pair
      BY <1>0, <2>1 DEF TypeOK, Keeps
    <2>2. ASSUME NEW ids, pair' = Revoked(ids)
          PROVE  <1>4!1 /\ <1>4!2
      BY <1>0, <2>2, RevokedType DEF Keeps
    <2> QED
      BY <1>3, <2>1, <2>2
  <1>5. /\ client' \in [Registrations -> Grants]
        /\ \A h \in Registrations : /\ client'[h].exists = client[h].exists
                                    /\ client'[h].id = client[h].id
    <2>1. CASE client' = client
      BY <1>0, <2>1 DEF TypeOK
    <2>2. CASE client' = [client EXCEPT ![call[k].registration] =
                             [@ EXCEPT !.trust = call[k].trust]]
      <3> DEFINE h == call[k].registration
                 new == [client[h] EXCEPT !.trust = call[k].trust]
      <3>1. h \in Registrations /\ call[k].trust \in TrustLevels
        BY <1>0 DEF CallRecords
      <3>2. new \in Grants /\ new.exists = client[h].exists /\ new.id = client[h].id
        BY <1>0, <3>1 DEF TypeOK, Grants
      <3>3. client' = [client EXCEPT ![h] = new]
        BY <2>2
      <3> HIDE DEF new
      <3> QED
        BY <1>0, <3>1, <3>2, <3>3 DEF TypeOK
    <2> QED
      BY <2>1, <2>2 DEF RevokeFound, UpdateClient
  <1>6. replayed' \subseteq Codes
    BY <1>0 DEF RevokeFound, UpdateClient, Answer, TypeOK, CallRecords
  <1>7. UNCHANGED <<registration, request, policy, code>>
    BY DEF RevokeFound, UpdateClient
  <1>8. TypeOK'
    BY <1>0, <1>2, <1>4, <1>5, <1>6, <1>7 DEF TypeOK
  <1>9. Belongs'
    <2>1. \A p \in Pairs : pair[p].registration \in Registrations
      BY <1>0 DEF TypeOK, PairRows
    <2> QED
      BY <1>4, <1>5, <2>1 DEF IInv, Belongs, SameGrant, Keeps
  <1>10. \A j \in Calls : call'[j] = call[j] \/ ~ Exchanging(j)'
    BY <1>2 DEF Exchanging
  <1> QED
    BY <1>4, <1>7, <1>8, <1>9, <1>10, NothingIssued DEF IInv, Lineage, Keeps, Minted

LEMMA GrantedRows ==
    ASSUME IInv, NEW k \in Calls, Committable(k)
    PROVE  LET g == call[k].registration
           IN  /\ GrantedClient(k) \in Grants
               /\ GrantedPolicy(k) \in Policies
               /\ GrantedClient(k).exists
               /\ client[g].exists => GrantedClient(k).id = client[g].id
  <1> DEFINE g == call[k].registration
  <1>1. /\ g \in Registrations /\ call[k].grant \in Grants
        /\ call[k].policy \in Policies /\ call[k].scopes \subseteq Scopes
        /\ client[g] \in Grants /\ policy[g] \in Policies
    BY DEF IInv, TypeOK, CallRecords
  <1>2. /\ client[g].id + 1 \in Nat
        /\ policy[g].id + 1 \in Nat
    BY <1>1 DEF Grants, Policies
  <1>3. GrantedClient(k) \in Grants
    <2>1. [client[g] EXCEPT !.trust = "APPROVED"] \in Grants
      BY <1>1 DEF Grants, TrustLevels
    <2>2. [exists |-> TRUE, id |-> client[g].id + 1, trust |-> "APPROVED"] \in Grants
      BY <1>2 DEF Grants, TrustLevels
    <2> QED
      BY <1>1, <2>1, <2>2 DEF GrantedClient
  <1>4. GrantedPolicy(k) \in Policies
    <2>1. ScopesToOperations(call[k].scopes) \subseteq Operations
      BY DEF ScopesToOperations, Operations
    <2>2. Merged(call[k]) \subseteq Operations
      BY <1>1, <2>1 DEF Merged, ResultingOperations, Policies
    <2>3. [policy[g] EXCEPT !.operations = Merged(call[k])] \in Policies
      BY <1>1, <2>2 DEF Policies
    <2>4. [exists |-> TRUE, id |-> policy[g].id + 1,
           operations |-> ScopesToOperations(call[k].scopes)] \in Policies
      BY <1>2, <2>1 DEF Policies
    <2> QED
      BY <1>1, <2>3, <2>4 DEF GrantedPolicy
  <1>5. GrantedClient(k).exists
        /\ (client[g].exists => GrantedClient(k).id = client[g].id)
    <2>1. CASE ~ call[k].grant.exists
      BY <2>1 DEF Committable, GrantedClient
    <2>2. CASE call[k].grant.exists
      <3>1. client[g].exists
        BY <2>2 DEF Committable, SameGrant
      <3>2. LET row == [client[g] EXCEPT !.trust = "APPROVED"]
            IN  row.exists = client[g].exists /\ row.id = client[g].id
        BY <1>1 DEF Grants
      <3> QED
        BY <2>2, <3>1, <3>2 DEF GrantedClient
    <2> QED
      BY <2>1, <2>2
  <1> QED
    BY <1>3, <1>4, <1>5

LEMMA CommitStep ==
    ASSUME IInv, NEW k \in Calls, CommitGrant(k)
    PROVE  IInv'
  <1> DEFINE g == call[k].registration
             q == call[k].request
             id == GrantedClient(k).id
  <1>0. TypeOK /\ call[k] \in CallRecords
    BY DEF IInv, TypeOK
  <1>1. /\ g \in Registrations /\ call[k].scopes \in SUBSET Scopes
        /\ GrantedClient(k) \in Grants /\ id \in Nat
        /\ GrantedPolicy(k) \in Policies
        /\ GrantedClient(k).exists
        /\ client[g].exists => id = client[g].id
    BY <1>0, GrantedRows DEF CommitGrant, CallRecords, Grants
  <1>2. PICK c \in Codes :
           /\ code[c].state = "ABSENT"
           /\ code' = [code EXCEPT ![c] =
                 [state |-> "LIVE", registration |-> g, client |-> id,
                  scopes |-> call[k].scopes, consumed |-> FALSE,
                  expired |-> FALSE]]
    BY DEF CommitGrant
  <1> DEFINE new == [state |-> "LIVE", registration |-> g, client |-> id,
                     scopes |-> call[k].scopes, consumed |-> FALSE,
                     expired |-> FALSE]
  <1>3. new \in CodeRows /\ new.state = "LIVE" /\ ~ new.consumed
    BY <1>1 DEF CodeRows, RowStates
  <1>4. code' \in [Codes -> CodeRows]
        /\ \A d \in Codes : code'[d] = IF d = c THEN new ELSE code[d]
    <2> HIDE DEF new
    <2>1. code' = [code EXCEPT ![c] = new]
      BY <1>2 DEF new
    <2> QED
      BY <1>0, <1>3, <2>1 DEF TypeOK
  <1> HIDE DEF new, id
  <1>5. request' \in [AuthRequests -> Requests]
    <2>1. \A r \in AuthRequests : [request[r] EXCEPT !.decided = TRUE] \in Requests
      BY <1>0 DEF TypeOK, Requests
    <2> QED
      BY <1>0, <2>1 DEF CommitGrant, TypeOK
  <1>7. /\ registration' \in [Registrations -> {"ABSENT", "PENDING", "APPROVED"}]
        /\ policy' \in [Registrations -> Policies]
        /\ client' \in [Registrations -> Grants]
        /\ client'[g] = GrantedClient(k)
        /\ \A h \in Registrations : h # g => client'[h] = client[h]
    BY <1>0, <1>1 DEF CommitGrant, TypeOK
  <1>8. /\ call' \in [Calls -> CallRecords]
        /\ call'[k].phase = "idle"
        /\ \A j \in Calls : j # k => call'[j] = call[j]
        /\ UNCHANGED <<pair, replayed>>
    BY <1>0, FinishedCall DEF CommitGrant
  <1>9. TypeOK'
    BY <1>0, <1>4, <1>5, <1>7, <1>8 DEF TypeOK
  <1>10. Belongs'
    <2>1. \A p \in Pairs : pair[p].registration \in Registrations
      BY <1>0 DEF TypeOK, PairRows
    <2> QED
      BY <1>1, <1>7, <1>8, <2>1 DEF IInv, Belongs, SameGrant, id
  <1>11. \A j \in Calls : call'[j] = call[j] \/ ~ Exchanging(j)'
    BY <1>8 DEF Exchanging
  <1>12. \A d \in Codes : code'[d].state = "ABSENT" => ~ code'[d].consumed
    BY <1>3, <1>4 DEF IInv, Lineage
  <1>13. \A d \in Codes : code[d].state # "ABSENT" => code'[d] = code[d]
    BY <1>2, <1>4
  <1> QED
    BY <1>8, <1>9, <1>10, <1>11, <1>12, <1>13, NothingIssued DEF Keeps, Minted

-----------------------------------------------------------------------------
(* Steps of an exchange *)

\* A call enters the exchange with a credential that agrees with its code, or
\* goes on to its next statement; only call changes.
LEMMA EnterExchange ==
    ASSUME IInv, NEW k \in Calls, NEW record \in CallRecords,
           call' = [call EXCEPT ![k] = record],
           UNCHANGED <<registration, request, client, policy, code, pair, replayed>>,
           record.phase \in {"consume", "rotate"},
           Descends(record.code, record.registration, record.grant.id, record.scopes),
           record.phase = "consume" => record.spent = None,
           record.phase = "rotate" => record.spent # None
                                        /\ code[record.code].consumed
    PROVE  IInv'
  <1>1. /\ call' \in [Calls -> CallRecords]
        /\ call'[k] = record
        /\ \A j \in Calls : j # k => call'[j] = call[j]
    BY UpdatedCall DEF IInv
  <1>2. TypeOK'
    BY <1>1 DEF IInv, TypeOK
  <1>3. Lineage'
    BY <1>1 DEF IInv, Lineage, Exchanging, Descends, Minted
  <1>4. Belongs'
    BY DEF IInv, Belongs, SameGrant
  <1>5. OneClaim'
    BY <1>1 DEF IInv, OneClaim, Claims, Paid, Minted
  <1> QED
    BY <1>2, <1>3, <1>4, <1>5 DEF IInv

LEMMA PresentCodeStep ==
    ASSUME IInv, NEW k \in Calls, NEW c \in Codes, PresentCode(k, c)
    PROVE  IInv'
  <1>0. TypeOK /\ code[c] \in CodeRows /\ code[c].state = "LIVE"
    BY DEF IInv, TypeOK, PresentCode
  <1> DEFINE base == CallOn(code[c])
             replay == [base EXCEPT !.phase = "findForCode", !.code = c]
             good == [base EXCEPT !.phase = "consume", !.code = c,
                                  !.scopes = code[c].scopes]
  <1>1. /\ base \in CallRecords
        /\ base.registration = code[c].registration
        /\ base.grant.id = code[c].client
        /\ base.spent = None
    BY <1>0, CallOnType DEF CodeRows
  <1>2. \/ call' = [call EXCEPT ![k] = replay]
        \/ call' = [call EXCEPT ![k] = good]
    BY DEF PresentCode, Start
  <1>3. UNCHANGED <<registration, request, client, policy, code, pair, replayed>>
    BY DEF PresentCode
  <1> HIDE DEF base
  <1>4. replay \in CallRecords /\ replay.phase = "findForCode"
    BY <1>1 DEF CallRecords, Phases
  <1>5. code[c].scopes \in SUBSET Scopes
    BY <1>0 DEF CodeRows
  <1>6. /\ good \in CallRecords /\ good.phase = "consume" /\ good.spent = None
        /\ Descends(good.code, good.registration, good.grant.id, good.scopes)
    BY <1>0, <1>1, <1>5 DEF CallRecords, Phases, Descends
  <1> HIDE DEF replay, good
  <1>7. CASE call' = [call EXCEPT ![k] = replay]
    BY <1>0, <1>3, <1>4, <1>7, OtherCall DEF TypeOK
  <1>8. CASE call' = [call EXCEPT ![k] = good]
    BY <1>3, <1>6, <1>8, EnterExchange
  <1> QED
    BY <1>2, <1>7, <1>8

LEMMA PresentRefreshTokenStep ==
    ASSUME IInv, NEW k \in Calls, NEW p \in Pairs, NEW scopes \in RefreshInputs,
           PresentRefreshToken(k, p, scopes)
    PROVE  IInv'
  <1>0. TypeOK /\ pair[p] \in PairRows /\ pair[p].state = "LIVE"
    BY DEF IInv, TypeOK, PresentRefreshToken
  <1> DEFINE base == CallOn(pair[p])
             reuse == [base EXCEPT !.phase = "findForClient"]
             good == [base EXCEPT !.phase = "rotate", !.spent = p,
                                  !.code = pair[p].source, !.scopes = scopes]
  <1>1. /\ base \in CallRecords
        /\ base.registration = pair[p].registration
        /\ base.grant.id = pair[p].client
    BY <1>0, CallOnType DEF PairRows
  <1>2. \/ call' = [call EXCEPT ![k] = reuse]
        \/ /\ call' = [call EXCEPT ![k] = good]
           /\ scopes \subseteq pair[p].scopes
    BY DEF PresentRefreshToken, Start, ScopesWithin
  <1>3. UNCHANGED <<registration, request, client, policy, code, pair, replayed>>
    BY DEF PresentRefreshToken
  <1> HIDE DEF base
  <1>4. reuse \in CallRecords /\ reuse.phase = "findForClient"
    BY <1>1 DEF CallRecords, Phases
  <1>5. scopes \in SUBSET Scopes
    BY OAuthAssumption
  <1>6. /\ Descends(pair[p].source, pair[p].registration, pair[p].client,
                    pair[p].scopes)
        /\ code[pair[p].source].consumed
    BY <1>0 DEF IInv, Lineage, Minted
  <1>7. /\ good \in CallRecords /\ good.phase = "rotate" /\ good.spent = p
        /\ good.code = pair[p].source /\ good.scopes = scopes
        /\ good.registration = pair[p].registration
        /\ good.grant.id = pair[p].client
    BY <1>0, <1>1, <1>5 DEF CallRecords, Phases, PairRows
  <1> HIDE DEF reuse, good
  <1>8. CASE call' = [call EXCEPT ![k] = reuse]
    BY <1>0, <1>3, <1>4, <1>8, OtherCall DEF TypeOK
  <1>9. CASE call' = [call EXCEPT ![k] = good] /\ scopes \subseteq pair[p].scopes
    <2>1. Descends(good.code, good.registration, good.grant.id, good.scopes)
      BY <1>6, <1>7, <1>9 DEF Descends
    <2>2. good.spent # None
      BY <1>7, OAuthAssumption
    <2> QED
      BY <1>3, <1>6, <1>7, <1>9, <2>1, <2>2, EnterExchange
  <1> QED
    BY <1>2, <1>8, <1>9

LEMMA ConsumeStep ==
    ASSUME IInv, NEW k \in Calls, Consume(k)
    PROVE  IInv'
  <1> DEFINE c == call[k].code
             new == [call[k] EXCEPT !.phase = "issue"]
             row == [code[c] EXCEPT !.consumed = TRUE]
  <1>0. TypeOK /\ call[k] \in CallRecords /\ call[k].phase = "consume"
    BY DEF IInv, TypeOK, Consume
  <1>1. /\ Descends(c, call[k].registration, call[k].grant.id, call[k].scopes)
        /\ call[k].spent = None
    BY <1>0 DEF IInv, Lineage, Exchanging
  <1>2. CASE ~ Unconsumed(c)
    BY <1>0, <1>2, IdleCallType, OtherCall DEF Consume, Finish, TypeOK
  <1>3. CASE Unconsumed(c)
    <2>1. c \in Codes /\ code[c] \in CodeRows /\ ~ code[c].consumed
          /\ code[c].state # "ABSENT"
      BY <1>0, <1>1, <1>3 DEF Descends, TypeOK, Unconsumed
    <2>2. /\ code' = [code EXCEPT ![c] = row]
          /\ call' = [call EXCEPT ![k] = new]
          /\ UNCHANGED <<registration, request, client, policy, pair, replayed>>
      BY <1>3 DEF Consume, Continue
    <2>3. /\ new \in CallRecords /\ new.phase = "issue" /\ new.code = c
          /\ new.spent = None /\ new.registration = call[k].registration
          /\ new.grant = call[k].grant /\ new.scopes = call[k].scopes
      BY <1>0, <1>1 DEF CallRecords, Phases
    <2>4. /\ row \in CodeRows /\ row.consumed /\ row.state = code[c].state
          /\ Keeps(row, code[c])
      BY <2>1 DEF CodeRows, Keeps
    <2> HIDE DEF new, row
    <2>5. /\ call' \in [Calls -> CallRecords]
          /\ call'[k] = new
          /\ \A j \in Calls : j # k => call'[j] = call[j]
      BY <1>0, <2>2, <2>3, UpdatedCall
    <2>6. /\ code' \in [Codes -> CodeRows]
          /\ \A d \in Codes : code'[d] = IF d = c THEN row ELSE code[d]
      BY <1>0, <2>1, <2>2, <2>4 DEF TypeOK
    <2>7. TypeOK'
      BY <1>0, <2>2, <2>5, <2>6 DEF TypeOK
    <2>8. \A d, h, id, scopes : Descends(d, h, id, scopes) => Descends(d, h, id, scopes)'
      BY <2>4, <2>6 DEF Descends, Keeps
    <2>9. \A d \in Codes : code[d].consumed => code'[d].consumed
      BY <2>4, <2>6
    <2>10. Lineage'
      <3>1. \A d \in Codes : code'[d].state = "ABSENT" => ~ code'[d].consumed
        BY <2>1, <2>4, <2>6 DEF IInv, Lineage
      <3>2. ASSUME NEW j \in Calls, Exchanging(j)'
            PROVE  /\ Descends(call[j].code, call[j].registration,
                               call[j].grant.id, call[j].scopes)'
                   /\ call'[j].phase = "consume" => call'[j].spent = None
                   /\ call'[j].phase = "rotate" => call'[j].spent # None
                   /\ call'[j].phase # "consume" => code'[call'[j].code].consumed
        <4>1. CASE j = k
          BY <1>1, <2>1, <2>3, <2>4, <2>5, <2>6, <2>8, <4>1
        <4>2. CASE j # k
          <5>1. call'[j] = call[j] /\ Exchanging(j)
            BY <2>5, <3>2, <4>2 DEF Exchanging
          <5>2. /\ Descends(call[j].code, call[j].registration,
                            call[j].grant.id, call[j].scopes)
                /\ call[j].phase = "consume" => call[j].spent = None
                /\ call[j].phase = "rotate" => call[j].spent # None
                /\ call[j].phase # "consume" => code[call[j].code].consumed
            BY <5>1 DEF IInv, Lineage
          <5>3. call[j].code \in Codes
            BY <5>2 DEF Descends
          <5> QED
            BY <2>8, <2>9, <5>1, <5>2, <5>3
        <4> QED
          BY <4>1, <4>2
      <3>3. ASSUME NEW p \in Pairs, Minted(p)'
            PROVE  /\ Descends(pair[p].source, pair[p].registration,
                               pair[p].client, pair[p].scopes)'
                   /\ code'[pair'[p].source].consumed
        <4>1. /\ Descends(pair[p].source, pair[p].registration,
                          pair[p].client, pair[p].scopes)
              /\ code[pair[p].source].consumed
          BY <2>2, <3>3 DEF IInv, Lineage, Minted
        <4> QED
          BY <2>2, <2>4, <2>6, <2>9, <4>1 DEF Descends, Keeps
      <3> QED
        BY <3>1, <3>2, <3>3 DEF Lineage
    <2>11. Belongs'
      BY <2>2 DEF IInv, Belongs, SameGrant
    <2>12. \A j \in Calls : ~ Claims(j, c)
      BY <2>1 DEF IInv, Lineage, Claims, Exchanging
    <2>13. \A p \in Pairs : ~ Paid(p, c)
      BY <2>1 DEF IInv, Lineage, Paid
    <2>14. OneClaim'
      BY <2>2, <2>3, <2>5, <2>12, <2>13 DEF IInv, OneClaim, Claims, Paid, Minted
    <2> QED
      BY <2>7, <2>10, <2>11, <2>14 DEF IInv
  <1> QED
    BY <1>2, <1>3

LEMMA RotateStep ==
    ASSUME IInv, NEW k \in Calls, Rotate(k)
    PROVE  IInv'
  <1> DEFINE new == [call[k] EXCEPT !.phase = "issue"]
  <1>0. TypeOK /\ call[k] \in CallRecords /\ call[k].phase = "rotate"
    BY DEF IInv, TypeOK, Rotate
  <1>1. /\ new \in CallRecords /\ new.phase = "issue" /\ new.code = call[k].code
        /\ new.spent = call[k].spent /\ new.registration = call[k].registration
        /\ new.grant = call[k].grant /\ new.scopes = call[k].scopes
    BY <1>0 DEF CallRecords, Phases
  <1>2. /\ call' = [call EXCEPT ![k] = new]
        /\ pair' = Revoked(RotatedTokens(k))
        /\ UNCHANGED <<registration, request, client, policy, code, replayed>>
    BY DEF Rotate, Continue
  <1> HIDE DEF new
  <1>3. /\ call' \in [Calls -> CallRecords]
        /\ call'[k] = new
        /\ \A j \in Calls : j # k => call'[j] = call[j]
    BY <1>0, <1>1, <1>2, UpdatedCall
  <1>4. /\ pair' \in [Pairs -> PairRows]
        /\ \A p \in Pairs :
             /\ pair'[p].state = pair[p].state
             /\ pair'[p].source = pair[p].source
             /\ pair'[p].spent = pair[p].spent
             /\ Keeps(pair'[p], pair[p])
    BY <1>0, <1>2, RevokedType DEF Keeps
  <1>5. TypeOK'
    BY <1>0, <1>2, <1>3, <1>4 DEF TypeOK
  <1>6. Lineage'
    BY <1>0, <1>1, <1>2, <1>3, <1>4
       DEF IInv, Lineage, Exchanging, Descends, Minted, Keeps
  <1>7. Belongs'
    BY <1>2, <1>4 DEF IInv, Belongs, SameGrant, Keeps
  <1>8. call[k].spent # None
    BY <1>0 DEF IInv, Lineage, Exchanging
  <1>9. OneClaim'
    BY <1>1, <1>3, <1>4, <1>8 DEF IInv, OneClaim, Claims, Paid, Minted
  <1> QED
    BY <1>5, <1>6, <1>7, <1>9 DEF IInv

LEMMA IssueStep ==
    ASSUME IInv, NEW k \in Calls, Issue(k)
    PROVE  IInv'
  <1>0. TypeOK /\ call[k] \in CallRecords /\ call[k].phase = "issue" /\ Finish(k)
    BY DEF IInv, TypeOK, Issue
  <1>1. /\ Descends(call[k].code, call[k].registration, call[k].grant.id,
                    call[k].scopes)
        /\ code[call[k].code].consumed
    BY <1>0 DEF IInv, Lineage, Exchanging
  <1>2. UNCHANGED <<registration, request, client, policy, code, replayed>>
    BY DEF Issue
  <1>3. CASE ~ ReferencesHold(k)
    BY <1>0, <1>2, <1>3, IdleCallType, OtherCall DEF Issue, Finish, TypeOK
  <1>4. CASE ReferencesHold(k)
    <2> DEFINE new == [state |-> "LIVE", registration |-> call[k].registration,
                       client |-> call[k].grant.id, scopes |-> call[k].scopes,
                       source |-> call[k].code, spent |-> call[k].spent,
                       token |-> [t \in TokenTypes |-> "live"]]
    <2>1. PICK p \in Pairs : pair[p].state = "ABSENT" /\ pair' = [pair EXCEPT ![p] = new]
      BY <1>4 DEF Issue
    <2>2. /\ new \in PairRows /\ new.state = "LIVE"
          /\ new.registration = call[k].registration
          /\ new.client = call[k].grant.id /\ new.scopes = call[k].scopes
          /\ new.source = call[k].code /\ new.spent = call[k].spent
      BY <1>0 DEF PairRows, CallRecords, RowStates, Grants
    <2> HIDE DEF new
    <2>3. /\ pair' \in [Pairs -> PairRows]
          /\ \A r \in Pairs : pair'[r] = IF r = p THEN new ELSE pair[r]
      BY <1>0, <2>1, <2>2 DEF TypeOK
    <2>4. /\ call' \in [Calls -> CallRecords]
          /\ call'[k].phase = "idle"
          /\ \A j \in Calls : j # k => call'[j] = call[j]
      BY <1>0, FinishedCall
    <2>5. TypeOK'
      BY <1>0, <1>2, <2>3, <2>4 DEF TypeOK
    <2>6. Lineage'
      BY <1>1, <1>2, <2>2, <2>3, <2>4
         DEF IInv, Lineage, Exchanging, Descends, Minted
    <2>7. Belongs'
      BY <1>2, <1>4, <2>2, <2>3 DEF IInv, Belongs, SameGrant, ReferencesHold
    <2>8. OneClaim'
      <3>1. \A c \in Codes, r \in Pairs : Paid(r, c)' =>
               Paid(r, c) \/ (r = p /\ Claims(k, c))
        BY <1>0, <2>2, <2>3 DEF Paid, Minted, Claims
      <3>2. \A c \in Codes, j \in Calls : Claims(j, c)' => Claims(j, c) /\ j # k
        BY <2>4 DEF Claims
      <3> QED
        BY <3>1, <3>2 DEF IInv, OneClaim
    <2> QED
      BY <2>5, <2>6, <2>7, <2>8 DEF IInv
  <1> QED
    BY <1>3, <1>4

-----------------------------------------------------------------------------
(* The theorems *)

LEMMA Step == IInv /\ [Next]_vars => IInv'
  <1> SUFFICES ASSUME IInv, [Next]_vars PROVE IInv'
    OBVIOUS
  <1>1. ASSUME NEW k \in Calls, Arrive(k) PROVE IInv'
    BY <1>1, OtherCallSteps, PresentCodeStep, PresentRefreshTokenStep DEF Arrive
  <1>2. ASSUME NEW k \in Calls, Advance(k) PROVE IInv'
    BY <1>2, OtherCallSteps, CommitStep, ConsumeStep, RotateStep, IssueStep,
       RevokingSteps DEF Advance
  <1>3. CASE UNCHANGED vars
    BY <1>3, NothingIssued
       DEF vars, IInv, TypeOK, Lineage, Keeps, Belongs, SameGrant, Minted
  <1> QED
    BY <1>1, <1>2, <1>3, OwnerSteps, ExpirySteps DEF Next

-----------------------------------------------------------------------------

\* The inductive invariant: types, the lineage of every credential, the grant
\* it belongs to, and the one claim on a code.
THEOREM Invariance == Spec => []IInv
  BY InitialState, Step, PTL DEF Spec

\* Every reachable state of the authorization server is type correct.
THEOREM TypeCorrect == Spec => []TypeOK
  <1>1. IInv => TypeOK
    BY DEF IInv
  <1> QED
    BY <1>1, Invariance, PTL

\* However many calls present an authorization code at once, one token pair is
\* issued for it.
THEOREM CodesExchangedOnce == Spec => []CodeExchangedOnce
  <1>1. IInv => CodeExchangedOnce
    <2> SUFFICES ASSUME IInv, NEW p \in Pairs, NEW r \in Pairs,
                        Minted(p), pair[p].spent = None,
                        Minted(r), pair[r].spent = None,
                        pair[p].source = pair[r].source
                 PROVE  p = r
      BY DEF CodeExchangedOnce
    <2>1. pair[p].source \in Codes
      BY DEF IInv, Lineage, Descends
    <2> QED
      BY <2>1 DEF IInv, OneClaim, Paid
  <1> QED
    BY <1>1, Invariance, PTL

\* A token's scopes stay within the consent behind it, however often it was
\* refreshed.
THEOREM TokensWithinConsent == Spec => []ScopesWithinConsent
  <1>1. IInv => ScopesWithinConsent
    BY DEF IInv, Lineage, Descends, Minted, ScopesWithinConsent
  <1> QED
    BY <1>1, Invariance, PTL

\* No token survives the deletion of its grant, or passes to the grant that
\* replaces it.
THEOREM TokensWithTheirGrant == Spec => []TokensStayWithGrant
  <1>1. IInv => TokensStayWithGrant
    BY DEF IInv, Lineage, Belongs, Descends, Minted, TokensStayWithGrant
  <1> QED
    BY <1>1, Invariance, PTL
=============================================================================

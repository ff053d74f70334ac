------------------------------ MODULE McpServer ------------------------------
(***************************************************************************)
(* The MCP server over HTTP (packages/mcp): http-server, its request        *)
(* helpers, tools and API client, with the API's client-auth.guard.         *)
(*                                                                          *)
(* A session is opened by a token the API has accepted, and holds an API    *)
(* client with that token; later requests name the session and bring their  *)
(* own token.  Requests wait for their bodies and for the API; meanwhile    *)
(* sessions are closed, swept or revoked, and the server is shut down.      *)
(***************************************************************************)
EXTENDS Naturals, FiniteSets

CONSTANTS
    Tokens,     \* tokens of clients
    Addresses,  \* addresses requests come from
    SessionIds, \* ids of sessions, random and never used again
    Calls,      \* slots for requests being handled
    Ttl,        \* sessionTtlMs
    Window,     \* rateLimitWindowMs
    RateMax,    \* rateLimitMax
    PreAuthMax, \* preAuthRateLimitMax
    MaxClock,   \* bound on time
    None

VARIABLES
    clock,
    granted,     \* tokens the API accepts
    mcpSession,  \* the map of sessions, with those that were removed
    windows,     \* rateWindows
    call,        \* requests being handled
    admitted,    \* how many requests of a token passed its limit, by time
    server

mcpVars == <<clock, granted, mcpSession, windows, call, admitted, server>>

Keys == Tokens \cup Addresses
Times == 0..MaxClock

\* vetted: the API accepted its token when it was opened.
Session == [token: Tokens, lastSeenAt: Times, open: BOOLEAN, vetted: BOOLEAN]
RateWindow == [count: Nat, windowStartedAt: Times]
Call == [phase: {"body", "verify", "open", "tool"}, token: Tokens,
         session: SessionIds \cup {None}, vetted: BOOLEAN]

McpTypeOK ==
    /\ clock \in Times
    /\ granted \subseteq Tokens
    /\ mcpSession \in [SessionIds -> Session \cup {None}]
    /\ windows \in [Keys -> RateWindow \cup {None}]
    /\ call \in [Calls -> Call \cup {None}]
    /\ admitted \in [Tokens -> [Times -> Nat]]
    /\ server \in {"listening", "closing", "closed"}

McpInit ==
    /\ clock = 0
    /\ granted = Tokens
    /\ mcpSession = [i \in SessionIds |-> None]
    /\ windows = [k \in Keys |-> None]
    /\ call = [q \in Calls |-> None]
    /\ admitted = [t \in Tokens |-> [x \in Times |-> 0]]
    /\ server = "listening"

Open(i) == mcpSession[i] # None /\ mcpSession[i].open

-----------------------------------------------------------------------------
(* isRateLimited *)

Restarts(w) == w = None \/ clock - w.windowStartedAt > Window

\* A request is counted whether it passes or not; above the maximum the count
\* tells nothing more.
Counted(w, maximum) ==
    IF Restarts(w) THEN [count |-> 1, windowStartedAt |-> clock]
    ELSE [w EXCEPT !.count = IF @ > maximum THEN @ ELSE @ + 1]

Limited(w, maximum) == ~ Restarts(w) /\ Counted(w, maximum).count > maximum

-----------------------------------------------------------------------------
(* handleMcpRequest *)

\* Ids are interchangeable: the first slot that is free.
FreeCalls == {q \in Calls : call[q] = None}
FreeCall == IF FreeCalls = {} THEN {} ELSE {CHOOSE q \in FreeCalls : TRUE}

\* A request arrives whose origin, host and method are allowed: it is counted by
\* its address and, with a token, by that.
Count(address, token) ==
    LET counted == [windows EXCEPT ![address] = Counted(@, PreAuthMax)] IN
    windows' = IF Limited(windows[address], PreAuthMax) \/ token = None THEN counted
               ELSE [counted EXCEPT ![token] = Counted(@, RateMax)]

Passes(address, token) ==
    /\ ~ Limited(windows[address], PreAuthMax)
    /\ token # None
    /\ ~ Limited(windows[token], RateMax)

Refuse(address, token) ==
    /\ server # "closed"
    /\ Count(address, token)
    /\ ~ Passes(address, token)
    /\ UNCHANGED <<clock, granted, mcpSession, call, admitted, server>>

Admit(address, token) ==
    /\ server # "closed"
    /\ Count(address, token)
    /\ Passes(address, token)
    /\ admitted' = [admitted EXCEPT ![token][clock] = @ + 1]
    /\ UNCHANGED <<clock, granted, server>>

\* A POST waits for its body.  It may name a session that is open, or was.
Post(q, address, token, i) ==
    /\ Admit(address, token)
    /\ i # None => mcpSession[i] # None
    /\ call' = [call EXCEPT ![q] = [phase |-> "body", token |-> token, session |-> i,
                                    vetted |-> FALSE]]
    /\ UNCHANGED mcpSession

Done(q) == call' = [call EXCEPT ![q] = None]

\* readJsonBody: too large, or not JSON; or the connection is gone.
BodyFails(q) ==
    /\ call[q] # None /\ call[q].phase = "body"
    /\ Done(q)
    /\ UNCHANGED <<clock, granted, mcpSession, windows, admitted, server>>

\* Mutant: any token will do for a session.
Owned_Any(s, token) == TRUE

\* "A session bound to a different token is reported as not found."
Owned(s, token) == s.token = token

\* Mutant: sessions end when they are swept.
Idle_Never(s) == FALSE

Idle(s) == clock - s.lastSeenAt > Ttl

Served(i, token) == Open(i) /\ Owned(mcpSession[i], token) /\ ~ Idle(mcpSession[i])

\* GET opens a stream, DELETE closes the session (onsessionclosed, onclose);
\* without a session, or with one that is not served, both are refused.
GetOrDelete(address, token, i, delete) ==
    /\ Admit(address, token)
    /\ mcpSession' = IF Served(i, token)
                     THEN [mcpSession EXCEPT ![i] = [@ EXCEPT !.lastSeenAt = clock,
                                                              !.open = ~ delete]]
                     ELSE mcpSession
    /\ UNCHANGED call

\* The session of a POST is looked up once the body was read.
UseSession(q) ==
    LET i == call[q].session IN
    /\ call[q] # None /\ call[q].phase = "body"
    /\ i # None
    /\ IF Served(i, call[q].token)
       THEN /\ mcpSession' = [mcpSession EXCEPT ![i].lastSeenAt = clock]
            /\ call' = [call EXCEPT ![q].phase = "tool"]
       ELSE Done(q) /\ UNCHANGED mcpSession
    /\ UNCHANGED <<clock, granted, windows, admitted, server>>

\* Without a session: only an initialize request goes on.
Initialize(q, initialize) ==
    /\ call[q] # None /\ call[q].phase = "body"
    /\ call[q].session = None
    /\ IF initialize THEN call' = [call EXCEPT ![q].phase = "verify"] ELSE Done(q)
    /\ UNCHANGED <<clock, granted, mcpSession, windows, admitted, server>>

\* verifyToken: client-auth.guard on a harmless call.
TokenIsValid(token) == token \in granted

VerifyToken(q) ==
    /\ call[q] # None /\ call[q].phase = "verify"
    /\ IF TokenIsValid(call[q].token)
       THEN call' = [call EXCEPT ![q] = [@ EXCEPT !.phase = "open",
                                         !.vetted = call[q].token \in granted]]
       ELSE Done(q)
    /\ UNCHANGED <<clock, granted, mcpSession, windows, admitted, server>>

\* The API is not reached.
VerifyFails(q) ==
    /\ call[q] # None /\ call[q].phase = "verify"
    /\ Done(q)
    /\ UNCHANGED <<clock, granted, mcpSession, windows, admitted, server>>

\* connect, handleRequest and onsessioninitialized.
OpenSession(q, i) ==
    /\ call[q] # None /\ call[q].phase = "open"
    /\ mcpSession[i] = None
    /\ mcpSession' = [mcpSession EXCEPT ![i] = [token |-> call[q].token,
                        lastSeenAt |-> clock, open |-> TRUE, vetted |-> call[q].vetted]]
    /\ Done(q)
    /\ UNCHANGED <<clock, granted, windows, admitted, server>>

\* A tool: the session's client calls the API with the session's token, which
\* client-auth.guard looks up again, or answers by itself (open_consent_review).
\* What the API then does is the subject of other modules.
CallTool(q) ==
    /\ call[q] # None /\ call[q].phase = "tool"
    /\ Done(q)
    /\ UNCHANGED <<clock, granted, mcpSession, windows, admitted, server>>

-----------------------------------------------------------------------------
(* Time, revocation and shutdown *)

Tick ==
    /\ clock < MaxClock
    /\ clock' = clock + 1
    /\ UNCHANGED <<granted, mcpSession, windows, call, admitted, server>>

\* The owner rotates the token, deletes the client, or blocks an OAuth grant.
Revoke(token) ==
    /\ token \in granted
    /\ granted' = granted \ {token}
    /\ UNCHANGED <<clock, mcpSession, windows, call, admitted, server>>

\* Mutant: the sweep starts every count afresh.
Stale_Any(w) == TRUE

Stale(w) == clock - w.windowStartedAt > Window

\* sweepTimer
Sweep ==
    /\ server = "listening"
    /\ mcpSession' = [i \in SessionIds |->
          IF Open(i) /\ clock - mcpSession[i].lastSeenAt > Ttl
          THEN [mcpSession[i] EXCEPT !.open = FALSE] ELSE mcpSession[i]]
    /\ windows' = [k \in Keys |->
          IF windows[k] # None /\ Stale(windows[k]) THEN None ELSE windows[k]]
    /\ UNCHANGED <<clock, granted, call, admitted, server>>

\* close: sessions are closed one after the other, then the server.
Shutdown ==
    /\ server = "listening"
    /\ server' = "closing"
    /\ UNCHANGED <<clock, granted, mcpSession, windows, call, admitted>>

CloseSession(i) ==
    /\ server = "closing"
    /\ Open(i)
    /\ mcpSession' = [mcpSession EXCEPT ![i].open = FALSE]
    /\ UNCHANGED <<clock, granted, windows, call, admitted, server>>

\* Connections are cut; a request whose body was read is handled to its end.
Closed ==
    /\ server = "closing"
    /\ \A i \in SessionIds : ~ Open(i)
    /\ server' = "closed"
    /\ call' = [q \in Calls |-> IF call[q] # None /\ call[q].phase = "body" THEN None
                                ELSE call[q]]
    /\ UNCHANGED <<clock, granted, mcpSession, windows, admitted>>

McpNext ==
    \/ \E address \in Addresses, token \in Tokens \cup {None} :
        \/ Refuse(address, token)
        \/ \E q \in FreeCall, i \in SessionIds \cup {None} : Post(q, address, token, i)
        \/ \E i \in SessionIds, delete \in BOOLEAN : GetOrDelete(address, token, i, delete)
    \/ \E q \in Calls :
        \/ BodyFails(q) \/ UseSession(q) \/ VerifyToken(q) \/ VerifyFails(q)
        \/ CallTool(q)
        \/ \E initialize \in BOOLEAN : Initialize(q, initialize)
        \/ \E i \in SessionIds : OpenSession(q, i)
    \/ \E token \in Tokens : Revoke(token)
    \/ \E i \in SessionIds : CloseSession(i)
    \/ Tick \/ Sweep \/ Shutdown \/ Closed

McpSpec == McpInit /\ [][McpNext]_mcpVars

-----------------------------------------------------------------------------
(* Properties *)

\* Whoever learns the id of a session, the API is called with a token only for
\* requests that brought this very token, and a session is only ever held by a
\* token the API accepted while it was being opened.
SpeaksForItself ==
    /\ \A q \in Calls : call[q] # None /\ call[q].phase = "tool" =>
          mcpSession[call[q].session].token = call[q].token
    /\ \A i \in SessionIds : mcpSession[i] # None => mcpSession[i].vetted

\* The requests of a token that passed from one time on, and before another one.
Passed(token, from, to) ==
    UNION {{y} \X (1..admitted[token][y]) : y \in {z \in Times : from <= z /\ z < to}}

\* Counts are kept in windows that start with a request and are swept in the
\* background: over any stretch of a window's length, however it lies, a token
\* passes less than twice its limit.
RateHolds ==
    \A token \in Tokens, x \in Times :
        Cardinality(Passed(token, x, x + Window + 1)) < 2 * RateMax

\* A session left idle for longer than its lifetime is not revived, whether or
\* not the sweep has come by.
IdleSessionStaysDead ==
    \A i \in SessionIds :
       mcpSession[i] # None /\ clock - mcpSession[i].lastSeenAt > Ttl
         => mcpSession'[i].lastSeenAt = mcpSession[i].lastSeenAt

=============================================================================

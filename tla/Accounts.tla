------------------------------- MODULE Accounts -------------------------------
(***************************************************************************)
(* Accounts and sessions: google-login.service and its controller,          *)
(* auth.service, sessions.service (apps/api/src/auth), and the panel that    *)
(* deletes an account (apps/web/src/features/settings/data).                *)
(*                                                                          *)
(* A sign-in leaves the browser for Google and comes back as a callback     *)
(* with the state of its attempt.  The callback may be opened twice, late,  *)
(* or in another browser, and two browsers may create the first account of  *)
(* one identity at the same time.  An account is deleted only after its     *)
(* Google identity was confirmed in the session that deletes it.            *)
(***************************************************************************)
EXTENDS Naturals, FiniteSets

CONSTANTS
    Browsers,
    Attempts,    \* login attempts; a state is never issued twice
    Callbacks,   \* callback requests being handled
    Subjects,    \* Google identities
    Emails,
    Users,
    Sessions,    \* sessions; a token is never issued twice
    None

VARIABLES
    user,       \* User rows with their GoogleIdentity
    session,
    attempt,
    jar,        \* the two cookies of each browser
    callback,
    deletion    \* the deletion whose checks have passed

accountVars == <<user, session, attempt, jar, callback, deletion>>

User == [subject: Subjects, email: Emails]
\* origin: the browser that began the sign-in.  verified: who confirmed the
\* deletion (the row keeps only when).
Session == [user: Users, live: BOOLEAN, verified: Subjects \cup {None}, origin: Browsers]
\* session: the session whose deletion the attempt verifies.
Attempt == [open: BOOLEAN, by: Browsers, session: Sessions \cup {None}, uses: 0..2]
Jar == [attempt: Attempts \cup {None}, session: Sessions \cup {None}]
Callback == [phase: {"find", "consume", "exchange", "verify", "lookup", "email",
                     "create", "recover", "session"},
             browser: Browsers, attempt: Attempts, cookies: Jar,
             subject: Subjects \cup {None}, email: Emails \cup {None},
             user: Users \cup {None}]
Deletion == [user: Users, proof: Subjects, browser: Browsers]

AccountsTypeOK ==
    /\ user \in [Users -> User \cup {None}]
    /\ session \in [Sessions -> Session \cup {None}]
    /\ attempt \in [Attempts -> Attempt \cup {None}]
    /\ jar \in [Browsers -> Jar]
    /\ callback \in [Callbacks -> Callback \cup {None}]
    /\ deletion \in Deletion \cup {None}

AccountsInit ==
    /\ user = [u \in Users |-> None]
    /\ session = [x \in Sessions |-> None]
    /\ attempt = [a \in Attempts |-> None]
    /\ jar = [b \in Browsers |-> [attempt |-> None, session |-> None]]
    /\ callback = [k \in Callbacks |-> None]
    /\ deletion = None

\* Ids are interchangeable: a new one is the first that is not in use.
Unused(f) ==
    LET free == {x \in DOMAIN f : f[x] = None}
    IN IF free = {} THEN {} ELSE {CHOOSE x \in free : TRUE}

\* resolveSessionFromCookieHeader
Live(x) == x # None /\ session[x] # None /\ session[x].live
Owners(subject) == {u \in Users : user[u] # None /\ user[u].subject = subject}

-----------------------------------------------------------------------------
(* google-login.service *)

Begin(b, a, x) ==
    /\ attempt[a] = None
    /\ attempt' = [attempt EXCEPT ![a] = [open |-> TRUE, by |-> b, session |-> x,
                                          uses |-> 0]]
    /\ jar' = [jar EXCEPT ![b].attempt = a]
    /\ UNCHANGED <<user, session, callback, deletion>>

\* start, from the sign-in page.
StartLogin(b, a) == Begin(b, a, None)

\* start, behind the session guard, to confirm a deletion.
StartVerification(b, a) == Live(jar[b].session) /\ Begin(b, a, jar[b].session)

AttemptExpires(a) ==
    /\ attempt[a] # None
    /\ attempt[a].open
    /\ attempt' = [attempt EXCEPT ![a].open = FALSE]
    /\ UNCHANGED <<user, session, jar, callback, deletion>>

\* A browser opens the callback of a state: the one that began it, again, or
\* another.
OpenCallback(b, a, k) ==
    /\ attempt[a] # None
    /\ callback[k] = None
    /\ callback' = [callback EXCEPT ![k] =
          [phase |-> "find", browser |-> b, attempt |-> a, cookies |-> jar[b],
           subject |-> None, email |-> None, user |-> None]]
    /\ UNCHANGED <<user, session, attempt, jar, deletion>>

To(k, phase) == callback' = [callback EXCEPT ![k].phase = phase]

\* The answer clears the cookie of the attempt, and may set the one of a session.
Answer(k, x) ==
    /\ callback' = [callback EXCEPT ![k] = None]
    /\ jar' = [jar EXCEPT ![callback[k].browser] =
                  [attempt |-> None, session |-> IF x = None THEN @.session ELSE x]]

\* Mutant: the state alone identifies the attempt.
BoundToBrowser_Any(k) == TRUE

\* browserHash: the attempt was begun by the browser that comes back.
BoundToBrowser(k) == callback[k].cookies.attempt = callback[k].attempt

\* finish, up to the first look at the attempt.
FindAttempt(k) ==
    /\ callback[k] # None /\ callback[k].phase = "find"
    /\ IF attempt[callback[k].attempt].open /\ BoundToBrowser(k)
       THEN To(k, "consume") /\ UNCHANGED jar
       ELSE Answer(k, None)
    /\ UNCHANGED <<user, session, attempt, deletion>>

\* Mutant: the number of deleted rows is not looked at.
Consumed_Any(a) == TRUE

\* consumed.count = 1
Consumed(a) == attempt[a].open

\* "Consume before exchange: replay and concurrent callbacks fail closed."
ConsumeAttempt(k) ==
    LET a == callback[k].attempt IN
    /\ callback[k] # None /\ callback[k].phase = "consume"
    /\ attempt' = [attempt EXCEPT ![a] = [@ EXCEPT !.open = FALSE,
                        !.uses = attempt[a].uses + (IF Consumed(a) THEN 1 ELSE 0)]]
    /\ IF Consumed(a) THEN To(k, "exchange") /\ UNCHANGED jar ELSE Answer(k, None)
    /\ UNCHANGED <<user, session, deletion>>

\* provider.exchange: Google says who signed in there.
Exchange(k, subject, email) ==
    /\ callback[k] # None /\ callback[k].phase = "exchange"
    /\ callback' = [callback EXCEPT ![k] = [@ EXCEPT !.subject = subject, !.email = email,
          !.phase = IF attempt[callback[k].attempt].session = None THEN "lookup"
                    ELSE "verify"]]
    /\ UNCHANGED <<user, session, attempt, jar, deletion>>

\* An exchange, or any later statement, fails: the catch block.
CallbackFails(k) ==
    /\ callback[k] # None
    /\ callback[k].phase \in {"exchange", "verify", "lookup", "session"}
    /\ Answer(k, None)
    /\ UNCHANGED <<user, session, attempt, deletion>>

-----------------------------------------------------------------------------
(* auth.service *)

\* Mutant: any Google account confirms the deletion.
SameIdentity_Any(k, x) == TRUE

\* session.user.googleIdentity.subject = identity.subject
SameIdentity(k, x) == user[session[x].user].subject = callback[k].subject

\* The session must be the one that asked; verifyDeletion.
VerifyDeletion(k) ==
    LET x == attempt[callback[k].attempt].session IN
    /\ callback[k] # None /\ callback[k].phase = "verify"
    /\ session' = IF callback[k].cookies.session = x /\ Live(x) /\ SameIdentity(k, x)
                  THEN [session EXCEPT ![x].verified = callback[k].subject]
                  ELSE session
    /\ Answer(k, None)
    /\ UNCHANGED <<user, attempt, deletion>>

SignInTo(k, u) == callback' = [callback EXCEPT ![k] = [@ EXCEPT !.user = u, !.phase = "session"]]

\* signInWithGoogle, the statements of its transaction: the identity,
LookupIdentity(k) ==
    /\ callback[k] # None /\ callback[k].phase = "lookup"
    /\ IF Owners(callback[k].subject) = {} THEN To(k, "email")
       ELSE \E u \in Owners(callback[k].subject) : SignInTo(k, u)
    /\ UNCHANGED <<user, session, attempt, jar, deletion>>

EmailTaken(k) == \E u \in Users : user[u] # None /\ user[u].email = callback[k].email

\* Mutant: only a violated constraint is looked into.
OnConflict_Refused(k) == Answer(k, None)

\* The conflict is looked into, like a violated constraint.
OnConflict(k) == To(k, "recover") /\ UNCHANGED jar

\* the email, "Never attach an identity to an existing vault based on matching email",
CheckEmail(k) ==
    /\ callback[k] # None /\ callback[k].phase = "email"
    /\ IF EmailTaken(k) THEN OnConflict(k) ELSE To(k, "create") /\ UNCHANGED jar
    /\ UNCHANGED <<user, session, attempt, deletion>>

\* and the account with its identity, both unique.
CreateUser(k, u) ==
    /\ callback[k] # None /\ callback[k].phase = "create"
    /\ user[u] = None
    /\ IF EmailTaken(k) \/ Owners(callback[k].subject) # {}
       THEN To(k, "recover") /\ UNCHANGED user
       ELSE /\ user' = [user EXCEPT ![u] = [subject |-> callback[k].subject,
                                            email |-> callback[k].email]]
            /\ SignInTo(k, u)
    /\ UNCHANGED <<session, attempt, jar, deletion>>

\* "Two browsers may complete a first sign-in at once."
Recover(k) ==
    /\ callback[k] # None /\ callback[k].phase = "recover"
    /\ IF Owners(callback[k].subject) = {} THEN Answer(k, None)
       ELSE (\E u \in Owners(callback[k].subject) : SignInTo(k, u)) /\ UNCHANGED jar
    /\ UNCHANGED <<user, session, attempt, deletion>>

\* createSession; the account may be gone by now.
CreateSession(k, x) ==
    /\ callback[k] # None /\ callback[k].phase = "session"
    /\ session[x] = None
    /\ IF user[callback[k].user] = None THEN Answer(k, None) /\ UNCHANGED session
       ELSE /\ session' = [session EXCEPT ![x] =
                  [user |-> callback[k].user, live |-> TRUE, verified |-> None,
                   origin |-> attempt[callback[k].attempt].by]]
            /\ Answer(k, x)
    /\ UNCHANGED <<user, attempt, deletion>>

\* logout, of a session that is live; a session also ends by itself.
Logout(b) ==
    /\ Live(jar[b].session)
    /\ session' = [session EXCEPT ![jar[b].session].live = FALSE]
    /\ jar' = [jar EXCEPT ![b].session = None]
    /\ UNCHANGED <<user, attempt, callback, deletion>>

SessionExpires(x) ==
    /\ Live(x)
    /\ session' = [session EXCEPT ![x].live = FALSE]
    /\ UNCHANGED <<user, attempt, jar, callback, deletion>>

\* deletionVerificationWindowMs
VerificationExpires(x) ==
    /\ session[x] # None
    /\ session[x].verified # None
    /\ session' = [session EXCEPT ![x].verified = None]
    /\ UNCHANGED <<user, attempt, jar, callback, deletion>>

\* deleteAccount: what is checked, and the statement that deletes.
CheckDeletion(b) ==
    LET x == jar[b].session IN
    /\ deletion = None
    /\ Live(x)
    /\ session[x].verified # None
    /\ deletion' = [user |-> session[x].user, proof |-> session[x].verified, browser |-> b]
    /\ UNCHANGED <<user, session, attempt, jar, callback>>

\* The sessions go with the user; open attempts remain.
DeleteAccount ==
    /\ deletion # None
    /\ user' = [user EXCEPT ![deletion.user] = None]
    /\ session' = [x \in Sessions |->
          IF session[x] # None /\ session[x].user = deletion.user
          THEN [session[x] EXCEPT !.live = FALSE, !.verified = None] ELSE session[x]]
    /\ jar' = [jar EXCEPT ![deletion.browser].session = None]
    /\ deletion' = None
    /\ UNCHANGED <<attempt, callback>>

AccountsNext ==
    \/ \E b \in Browsers :
        \/ Logout(b) \/ CheckDeletion(b)
        \/ \E a \in Unused(attempt) : StartLogin(b, a) \/ StartVerification(b, a)
        \/ \E a \in Attempts, k \in Unused(callback) : OpenCallback(b, a, k)
    \/ \E a \in Attempts : AttemptExpires(a)
    \/ \E k \in Callbacks :
        \/ FindAttempt(k) \/ ConsumeAttempt(k) \/ CallbackFails(k) \/ VerifyDeletion(k)
        \/ LookupIdentity(k) \/ CheckEmail(k) \/ Recover(k)
        \/ \E subject \in Subjects, email \in Emails : Exchange(k, subject, email)
        \/ \E u \in Unused(user) : CreateUser(k, u)
        \/ \E x \in Unused(session) : CreateSession(k, x)
    \/ \E x \in Sessions : SessionExpires(x) \/ VerificationExpires(x)
    \/ DeleteAccount

AccountsSpec == AccountsInit /\ [][AccountsNext]_accountVars

-----------------------------------------------------------------------------
(* Properties *)

\* However often and from wherever its callback is opened, an attempt is
\* exchanged with Google at most once.
AttemptUsedOnce == \A a \in Attempts : attempt[a] # None => attempt[a].uses <= 1

\* A browser is signed in only by a sign-in that was begun in it.
SignedInWhereBegun ==
    \A b \in Browsers :
        jar[b].session # None => session[jar[b].session].origin = b

\* First sign-ins of one identity that run at the same time agree: none is
\* turned away for a conflict with the account another one has just created.
FirstSignInsAgree ==
    \A k \in Callbacks :
       /\ callback[k] # None
       /\ callback[k].phase \in {"email", "create", "recover"}
       /\ callback'[k] = None
       => Owners(callback[k].subject) = {}

\* An account is deleted only after the Google identity it belongs to was
\* confirmed, not by whoever holds a session.
DeletedByItsIdentity ==
    \A u \in Users :
       user[u] # None /\ user'[u] = None => deletion.proof = user[u].subject
=============================================================================

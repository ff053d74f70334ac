-------------------------------- MODULE Chat --------------------------------
(***************************************************************************)
(* Memory chat, from the composer to the thread: the transport of a browser *)
(* tab (apps/web/src/features/chat), and the API's handling of a turn       *)
(* (apps/api/src/chat): acceptance, extraction, an answer with tools and    *)
(* citations, the automatic title, and renaming by the owner.               *)
(*                                                                          *)
(* A draft gets its thread with its first message.  The tab learns of it    *)
(* through the answer's stream and adopts it when the stream ends, so that  *)
(* the text being streamed is not dropped.  Streams are cut and stopped,    *)
(* and a submission may arrive again, from a client that repeats it.  The   *)
(* extraction of a turn is the subject of Extraction, the disclosure of     *)
(* memories to the model that of Disclosure.                                *)
(***************************************************************************)
EXTENDS Naturals, Sequences, FiniteSets

CONSTANTS
    Tabs,
    Requests,     \* turns the API can work on at once
    Submissions,  \* client-side ids of the owner's messages
    Texts,
    Memories,
    MaxThreads,   \* bound on the threads
    MaxLog,       \* bound on the messages
    TitleLimit,   \* CHAT_THREAD_TITLE_MAX_AUTO_MESSAGES
    None

Threads == 1..MaxThreads

ASSUME ChatAssumption ==
    /\ MaxThreads \in Nat /\ MaxLog \in Nat /\ TitleLimit \in Nat
    /\ None \notin Threads \cup Submissions \cup Tabs \cup Requests \cup Texts

VARIABLES
    tab,
    thread,
    recent,       \* the thread updated last
    log,          \* all ChatMessage rows, in the order of their creation
    request

vars == <<tab, thread, recent, log, request>>

Titles == {"none", "automatic", "owner"}

\* session is sessionIdRef, pending the thread-state not yet applied; home is
\* the thread that the conversation on the screen is known to be in.
Tab == [session: Threads \cup {None}, pending: Threads \cup {None},
        home: Threads \cup {None}, busy: Requests \cup {None}]
\* bare: started on its own, without a message.
Thread == [exists: BOOLEAN, bare: BOOLEAN, title: Titles, locked: BOOLEAN]
Message == [role: {"user", "assistant"}, thread: Threads, text: Texts \cup {None},
            submission: Submissions \cup {None}, source: Nat]
Phases == {"free", "sent", "accepted", "generating", "answered", "titling",
           "finished", "failed"}
\* cites is toolCitations, and told the references the model was given.
Request == [phase: Phases, tab: Tabs \cup {None}, submission: Submissions \cup {None},
            text: Texts \cup {None}, session: Threads \cup {None}, fresh: BOOLEAN,
            source: Nat, streaming: BOOLEAN,
            cites: Seq(Memories), told: [Memories -> Nat]]

FreeRequest == [phase |-> "free", tab |-> None, submission |-> None, text |-> None,
                session |-> None, fresh |-> FALSE, source |-> 0, streaming |-> FALSE,
                cites |-> <<>>, told |-> [m \in Memories |-> 0]]
Blank == [session |-> None, pending |-> None, home |-> None, busy |-> None]

TypeOK ==
    /\ tab \in [Tabs -> Tab]
    /\ thread \in [Threads -> Thread]
    /\ recent \in Threads \cup {None}
    /\ log \in Seq(Message)
    /\ request \in [Requests -> Request]

Init ==
    /\ tab = [t \in Tabs |-> Blank]
    /\ thread = [h \in Threads |-> [exists |-> FALSE, bare |-> FALSE, title |-> "none",
                                  locked |-> FALSE]]
    /\ recent = None
    /\ log = <<>>
    /\ request = [q \in Requests |-> FreeRequest]

-----------------------------------------------------------------------------
(* The browser *)

Existing == {h \in Threads : thread[h].exists}
Stored(s) == {i \in 1..Len(log) : log[i].submission = s}
InFlight(s) == {q \in Requests : request[q].submission = s}

\* buildChatStreamRequestBody: a draft asks for a new thread.
Body(t, s, text) ==
    [FreeRequest EXCEPT !.phase = "sent", !.tab = t, !.submission = s, !.text = text,
        !.session = tab[t].session, !.fresh = tab[t].session = None, !.streaming = TRUE]

Submit(t, s, text, q) ==
    /\ tab[t].busy = None
    /\ Stored(s) = {} /\ InFlight(s) = {}
    /\ request[q].phase = "free"
    /\ request' = [request EXCEPT ![q] = Body(t, s, text)]
    /\ tab' = [tab EXCEPT ![t].busy = q]
    /\ UNCHANGED <<thread, recent, log>>

ThreadOf(q) == log[request[q].source].thread
Emitted(q) == request[q].phase \in {"generating", "answered", "titling", "finished"}

\* onData keeps the thread-state for the end of the stream.
ReceiveThreadState(t) ==
    LET q == tab[t].busy IN
    /\ q # None
    /\ Emitted(q)
    /\ tab[t].pending = None
    /\ tab' = [tab EXCEPT ![t].pending = ThreadOf(q),
                          ![t].home = IF @ = None THEN ThreadOf(q) ELSE @]
    /\ UNCHANGED <<thread, recent, log, request>>

\* applyPendingThreadState, at the end of a stream.
Applied(c) ==
    [c EXCEPT !.session = IF c.pending = None THEN @ ELSE c.pending,
              !.pending = None, !.busy = None]

\* Mutant: only a stream that finishes says which thread it was in.
AfterError_Dropped(c) == [c EXCEPT !.pending = None, !.busy = None]

AfterError(c) == Applied(c)

Finish(t) ==
    LET q == tab[t].busy IN
    /\ q # None
    /\ request[q].phase = "finished"
    /\ tab[t].pending # None
    /\ tab' = [tab EXCEPT ![t] = Applied(@)]
    /\ request' = [request EXCEPT ![q] = FreeRequest]
    /\ UNCHANGED <<thread, recent, log>>

\* The answer is an error, of the request or in the stream.
Fails(t) ==
    LET q == tab[t].busy IN
    /\ q # None
    /\ request[q].phase = "failed"
    /\ tab' = [tab EXCEPT ![t] = AfterError(@)]
    /\ request' = [request EXCEPT ![q] = FreeRequest]
    /\ UNCHANGED <<thread, recent, log>>

\* The request goes on at the API without its tab.
Detached(q) ==
    [request EXCEPT ![q] = IF @.phase \in {"finished", "failed"} THEN FreeRequest
                           ELSE [@ EXCEPT !.tab = None, !.streaming = FALSE]]

\* The owner stops the stream, or the connection is lost.
Cut(t) ==
    LET q == tab[t].busy IN
    /\ q # None
    /\ tab' = [tab EXCEPT ![t] = AfterError(@)]
    /\ request' = Detached(q)
    /\ UNCHANGED <<thread, recent, log>>

NewThread(t) ==
    /\ tab[t].busy = None
    /\ tab[t] # Blank
    /\ tab' = [tab EXCEPT ![t] = Blank]
    /\ UNCHANGED <<thread, recent, log, request>>

\* A thread of the history, or the latest one, is opened.
OpenThread(t, h) ==
    /\ tab[t].busy = None
    /\ h \in Existing
    /\ tab' = [tab EXCEPT ![t] = [Blank EXCEPT !.session = h, !.home = h]]
    /\ UNCHANGED <<thread, recent, log, request>>

\* A client repeats a submission, with any thread and perhaps other words.
Repeat(s, text, h, fresh, q) ==
    /\ Stored(s) \cup InFlight(s) # {}
    /\ request[q].phase = "free"
    /\ h # None => h \in Existing /\ ~ fresh
    /\ request' = [request EXCEPT ![q] =
          [FreeRequest EXCEPT !.phase = "sent", !.submission = s, !.text = text,
                              !.session = h, !.fresh = fresh]]
    /\ UNCHANGED <<tab, thread, recent, log>>

-----------------------------------------------------------------------------
(* Acceptance *)

\* Mutant: the same words are enough.
SameTurn_AnyThread(r, i) == log[i].text = r.text

\* A repeated submission is the same turn, in the same thread if one is named.
SameTurn(r, i) == log[i].text = r.text /\ (r.session # None => log[i].thread = r.session)

\* Mutant: a submission is looked for in the thread it names only.
AlreadyAccepted_InThread(r) == {i \in Stored(r.submission) : log[i].thread = r.session}

AlreadyAccepted(r) == Stored(r.submission)

NextThread == Cardinality(Existing) + 1

\* Mutant: without a name it is always the one updated last.
Chosen_Recent(r) ==
    IF r.session # None THEN r.session ELSE IF r.fresh THEN NextThread ELSE recent

\* The thread that is named, a new one, or the one updated last.
Chosen(r) ==
    IF r.session # None THEN r.session
    ELSE IF r.fresh \/ recent = None THEN NextThread ELSE recent

\* Mutant: the thread is created before the submission is looked for.
Opened_First(r) == [thread EXCEPT ![Chosen(r)].exists = TRUE]

Opened(r) ==
    IF AlreadyAccepted(r) # {} THEN thread ELSE [thread EXCEPT ![Chosen(r)].exists = TRUE]

\* startThread, and a voice session that asks for a new thread: it is the one
\* updated last, and listed nowhere before it has a message.
\* Bound: only as the first thread of the owner.
StartThread ==
    /\ NextThread = 1 /\ NextThread \in Threads
    /\ thread' = [thread EXCEPT ![NextThread].exists = TRUE, ![NextThread].bare = TRUE]
    /\ recent' = NextThread
    /\ UNCHANGED <<tab, log, request>>

Answer(q, phase) ==
    request' = [request EXCEPT ![q] =
        IF @.tab = None /\ phase \in {"finished", "failed"} THEN FreeRequest
        ELSE [@ EXCEPT !.phase = phase, !.cites = <<>>, !.told = FreeRequest.told]]

\* acceptTurn: one transaction under the owner's lock.
\* Bound: there is room for another thread and message.
AcceptTurn(q) ==
    LET r == request[q]
        stored == AlreadyAccepted(r)
        h == Chosen(r) IN
    /\ r.phase = "sent"
    /\ stored = {} => h # MaxThreads + 1
    /\ thread' = Opened(r)
    /\ IF stored # {}
       THEN \E i \in stored :
            /\ IF SameTurn(r, i)
               THEN request' = [request EXCEPT ![q].phase = "accepted", ![q].source = i]
               ELSE Answer(q, "failed")
            /\ UNCHANGED <<recent, log>>
       ELSE /\ Len(log) < MaxLog
            /\ recent' = IF h \in Existing THEN recent ELSE h
            /\ log' = Append(log, [role |-> "user", thread |-> h, text |-> r.text,
                                   submission |-> r.submission, source |-> 0])
            /\ request' = [request EXCEPT ![q].phase = "accepted",
                                          ![q].source = Len(log) + 1]
    /\ UNCHANGED tab

-----------------------------------------------------------------------------
(* The answer *)

\* The turn has been processed, and the answer begins with the thread-state.
BeginAnswer(q) ==
    /\ request[q].phase = "accepted"
    /\ Answer(q, "generating")
    /\ UNCHANGED <<tab, thread, recent, log>>

\* Mutant: the reference is taken before the citation is added.
Ref_Before(cites) == Len(cites)

\* References count from one.
Ref(cites) == Len(cites) + 1

\* request_memory returned a memory: it keeps the reference it has, and gets one
\* unless it was deleted meanwhile.
RequestMemory(q, m) ==
    LET r == request[q] IN
    /\ r.phase = "generating"
    /\ r.told[m] = 0
    /\ request' = [request EXCEPT ![q].cites = Append(@, m), ![q].told[m] = Ref(r.cites)]
    /\ UNCHANGED <<tab, thread, recent, log>>

\* The row persistAssistantTurn creates.
Reply(q) == [role |-> "assistant", thread |-> ThreadOf(q), text |-> None,
             submission |-> None, source |-> request[q].source]

\* The answer is complete; an abort may come too late to prevent this.
PersistAnswer(q) ==
    /\ request[q].phase = "generating"
    /\ Len(log) < MaxLog
    /\ log' = Append(log, Reply(q))
    /\ recent' = ThreadOf(q)
    /\ Answer(q, "answered")
    /\ UNCHANGED <<tab, thread>>

\* No provider, an empty answer, an abort: nothing is stored.
AnswerFails(q) ==
    /\ request[q].phase \in {"sent", "accepted", "generating"}
    /\ Answer(q, "failed")
    /\ UNCHANGED <<tab, thread, recent, log>>

-----------------------------------------------------------------------------
(* Titles *)

Count(h) == Cardinality({i \in 1..Len(log) : log[i].thread = h})

ReadTitle(q) ==
    LET h == ThreadOf(q) IN
    /\ request[q].phase = "answered"
    /\ IF ~ thread[h].locked /\ Count(h) <= TitleLimit
       THEN request' = [request EXCEPT ![q].phase = "titling"]
       ELSE Answer(q, "finished")
    /\ UNCHANGED <<tab, thread, recent, log>>

\* Mutant: the lock that was read is trusted.
MayTitle_Read(h) == TRUE

\* The update is conditional: the owner may have renamed the thread meanwhile.
MayTitle(h) == ~ thread[h].locked

WriteTitle(q) ==
    LET h == ThreadOf(q) IN
    /\ request[q].phase = "titling"
    /\ \/ /\ MayTitle(h)
          /\ thread' = [thread EXCEPT ![h].title = "automatic"]
          /\ recent' = h
       \/ UNCHANGED <<thread, recent>>     \* no title was generated
    /\ Answer(q, "finished")
    /\ UNCHANGED <<tab, log>>

RenameThread(h) ==
    /\ h \in Existing
    /\ thread[h].title # "owner"
    /\ thread' = [thread EXCEPT ![h].title = "owner", ![h].locked = TRUE]
    /\ recent' = h
    /\ UNCHANGED <<tab, log, request>>

Next ==
    \/ \E t \in Tabs :
        \/ \E s \in Submissions, text \in Texts, q \in Requests : Submit(t, s, text, q)
        \/ ReceiveThreadState(t) \/ Finish(t) \/ Fails(t) \/ Cut(t) \/ NewThread(t)
        \/ \E h \in Threads : OpenThread(t, h)
    \/ \E s \in Submissions, text \in Texts, q \in Requests, fresh \in BOOLEAN :
        \E h \in Threads \cup {None} : Repeat(s, text, h, fresh, q)
    \/ \E q \in Requests :
        \/ AcceptTurn(q) \/ BeginAnswer(q) \/ PersistAnswer(q) \/ AnswerFails(q)
        \/ \E m \in Memories : RequestMemory(q, m)
        \/ ReadTitle(q) \/ WriteTitle(q)
    \/ \E h \in Threads : RenameThread(h)
    \/ StartThread

Spec == Init /\ [][Next]_vars

-----------------------------------------------------------------------------
(* Properties *)

Sources == {i \in 1..Len(log) : log[i].role = "user"}

\* "Uniqueness is per owner, including first-message thread creation": however
\* often and wherever a submission arrives, the owner's message is stored once.
SubmissionStoredOnce ==
    \A i, j \in Sources : log[i].submission = log[j].submission => i = j

\* An answer comes after the message it answers, and in its thread, also when
\* the message was accepted by an earlier request.
AnswerInThreadOfSource ==
    \A i \in 1..Len(log), q \in Requests :
        /\ log[i].role = "assistant" =>
              /\ log[i].source \in Sources /\ log[i].source < i
              /\ log[log[i].source].thread = log[i].thread
        /\ (request[q].source # 0 /\ request[q].session # None) =>
              ThreadOf(q) = request[q].session

\* No turn leaves an empty thread behind, neither one that is refused nor one
\* that is repeated: only startThread makes a thread without a message.
NoEmptyThread ==
    \A h \in Existing : thread[h].bare \/ \E i \in Sources : log[i].thread = h

\* A title the owner chose is never replaced by an automatic one, although the
\* title is generated between reading the thread and writing it.
OwnersTitleStays == \A h \in Threads : thread[h].locked => thread[h].title = "owner"

\* Once a conversation on the screen is known to be in a thread, its next turns
\* are stored there, also after a stream that was stopped or failed.
ConversationStaysTogether ==
    \A t \in Tabs :
        LET q == tab[t].busy IN
        (q # None /\ tab[t].home # None /\ request[q].source # 0) => ThreadOf(q) = tab[t].home

\* A reference the model was given leads to the memory it was given for, when
\* several retrievals of one answer overlap.
ReferencesResolve ==
    \A q \in Requests, m \in Memories :
        LET n == request[q].told[m] IN
        m \in {request[q].cites[i] : i \in 1..Len(request[q].cites)} =>
            n \in 1..Len(request[q].cites) /\ request[q].cites[n] = m

\* A turn is stored once and in its place: a submission that arrives twice is one
\* message, an answer is stored in the thread of the message it answers, and no
\* thread stays without a message.
TurnsAreStored == SubmissionStoredOnce /\ AnswerInThreadOfSource /\ NoEmptyThread

\* A conversation holds together: the owner's title outlives a late automatic
\* one, the turns of a conversation on the screen go to one thread, and a
\* reference leads to the memory it was given for.
ConversationsHold == OwnersTitleStays /\ ConversationStaysTogether /\ ReferencesResolve
=============================================================================

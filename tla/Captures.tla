------------------------------ MODULE Captures ------------------------------
(***************************************************************************)
(* Quick captures, from the browser to the vault: the offline queue of a    *)
(* device (apps/web/src/features/capture), its delivery over a network that *)
(* loses answers, the intake that recognises a capture it already has       *)
(* (apps/api/src/memory-suggestions), and the review that turns a           *)
(* suggestion into a memory.                                                *)
(*                                                                          *)
(* A device is shared: pages are open side by side, each sending the queue  *)
(* of the owner it believes to be signed in, with the one session cookie    *)
(* they share.  The order in which a page sends what it read is left open,  *)
(* and so is which request is refused (secret-like text, rate limit).       *)
(***************************************************************************)
EXTENDS Naturals, FiniteSets

CONSTANTS
    Captures,     \* capture ids
    Owners,
    OwnerOf,      \* the owner in whose queue a capture is
    Pages,        \* open pages of the browser
    Deliveries,   \* requests the network and the API can hold at once
    Suggestions,  \* ids of MemorySuggestion rows
    Reviews,      \* review requests the API can hold at once
    None

ASSUME CapturesAssumption ==
    /\ OwnerOf \in [Captures -> Owners]
    /\ None \notin Owners \cup Deliveries \cup Captures

VARIABLES
    session,      \* the owner of the browser's session cookie
    queue,        \* status of the captures in IndexedDB
    removed,      \* captures the owner has removed from a queue
    clearing,     \* the synced captures that clearSyncedCaptures has read
    page,
    delivery,
    suggestion,
    review

vars == <<session, queue, removed, clearing, page, delivery, suggestion, review>>

QueueStatuses == {"unused", "pending", "synced", "failed", "gone"}
Answers == {"ok", "rejected", "unauthorized", "server"}
Decisions == {"APPLIED", "REJECTED"}

\* What is left of the queue a page has read, and the request it waits for.
Page == [owner: Owners \cup {None}, todo: SUBSET Captures,
         sending: Deliveries \cup {None}]
Delivery == [phase: {"free", "sent", "looked", "answered"}, capture: Captures \cup {None},
             session: Owners \cup {None}, answer: Answers \cup {None}]
Suggestion == [status: {"NONE", "QUEUED_FOR_REVIEW"} \cup Decisions,
               capture: Captures \cup {None}, vault: Owners \cup {None},
               memories: Nat]
Review == [decision: Decisions \cup {None}, loaded: SUBSET Suggestions]
Idle == [decision |-> None, loaded |-> {}]

Free == [phase |-> "free", capture |-> None, session |-> None, answer |-> None]

TypeOK ==
    /\ session \in Owners \cup {None}
    /\ queue \in [Captures -> QueueStatuses]
    /\ removed \subseteq Captures
    /\ clearing \subseteq Captures
    /\ page \in [Pages -> Page]
    /\ delivery \in [Deliveries -> Delivery]
    /\ suggestion \in [Suggestions -> Suggestion]
    /\ review \in [Reviews -> Review]

Init ==
    /\ session \in Owners
    /\ queue = [c \in Captures |-> "unused"]
    /\ removed = {}
    /\ clearing = {}
    /\ page = [t \in Pages |-> [owner |-> session, todo |-> {}, sending |-> None]]
    /\ delivery = [d \in Deliveries |-> Free]
    /\ suggestion = [s \in Suggestions |->
          [status |-> "NONE", capture |-> None, vault |-> None, memories |-> 0]]
    /\ review = [k \in Reviews |-> Idle]

-----------------------------------------------------------------------------
(* The queue *)

InQueue(c) == queue[c] \in {"pending", "synced", "failed"}

Put(c, status) == queue' = [queue EXCEPT ![c] = status]

AddCapture(t, c) ==
    /\ queue[c] = "unused"
    /\ page[t].owner = OwnerOf[c]
    /\ Put(c, "pending")
    /\ UNCHANGED <<session, removed, clearing, page, delivery, suggestion, review>>

RemoveCapture(t, c) ==
    /\ InQueue(c)
    /\ page[t].owner = OwnerOf[c]
    /\ Put(c, "gone")
    /\ removed' = removed \cup {c}
    /\ UNCHANGED <<session, clearing, page, delivery, suggestion, review>>

\* Mutant: what was not sent is cleared too.
ReadSynced_All(t) ==
    /\ clearing = {}
    /\ page[t].owner # None
    /\ clearing' = {c \in Captures : OwnerOf[c] = page[t].owner /\ InQueue(c)}
    /\ UNCHANGED <<session, queue, removed, page, delivery, suggestion, review>>

ReadSynced(t) ==
    /\ clearing = {}
    /\ page[t].owner # None
    /\ clearing' = {c \in Captures : OwnerOf[c] = page[t].owner /\ queue[c] = "synced"}
    /\ UNCHANGED <<session, queue, removed, page, delivery, suggestion, review>>

RemoveSynced ==
    /\ clearing # {}
    /\ queue' = [c \in Captures |-> IF c \in clearing THEN "gone" ELSE queue[c]]
    /\ clearing' = {}
    /\ UNCHANGED <<session, removed, page, delivery, suggestion, review>>

-----------------------------------------------------------------------------
(* Synchronisation *)

Pending(o) == {c \in Captures : OwnerOf[c] = o /\ queue[c] = "pending"}

\* One synchronisation at a time per page; it reads the queue once.
Sync(t) ==
    /\ page[t].owner # None
    /\ page[t].todo = {}
    /\ page' = [page EXCEPT ![t].todo = Pending(page[t].owner)]
    /\ UNCHANGED <<session, queue, removed, clearing, delivery, suggestion, review>>

Send(t, c, d) ==
    /\ page[t].sending = None
    /\ c \in page[t].todo
    /\ delivery[d].phase = "free"
    /\ delivery' = [delivery EXCEPT ![d] = [phase |-> "sent", capture |-> c,
                                            session |-> session, answer |-> None]]
    /\ page' = [page EXCEPT ![t].sending = d]
    /\ UNCHANGED <<session, queue, removed, clearing, suggestion, review>>

\* Does the page go on with the next capture?
Continues(answer) == answer \in {"ok", "rejected"}

\* Mutant: the kind of the failure is stored as the row's status.
StatusAfter_Kind(answer) == IF answer = "ok" THEN "synced" ELSE answer

\* Mutant: only refusals are kept in the queue.
StatusAfter_NotRefused(answer) == IF answer = "rejected" THEN "failed" ELSE "synced"

StatusAfter(answer) ==
    CASE answer = "ok" -> "synced"
      [] answer = "rejected" -> "failed"
      [] OTHER -> "pending"

\* The answer is written to the row as it was read when the page began.
Receive(t) ==
    LET d == page[t].sending IN
    /\ d # None
    /\ delivery[d].phase = "answered"
    /\ LET c == delivery[d].capture
           answer == delivery[d].answer IN
        /\ Put(c, StatusAfter(answer))
        /\ page' = [page EXCEPT ![t].sending = None,
                       ![t].todo = IF Continues(answer) THEN @ \ {c} ELSE {}]
    /\ delivery' = [delivery EXCEPT ![d] = Free]
    /\ UNCHANGED <<session, removed, clearing, suggestion, review>>

\* The page no longer waits for its request; the API may still work on it.
Forgotten(t) ==
    LET d == page[t].sending IN
    IF d # None /\ delivery[d].phase = "answered"
    THEN [delivery EXCEPT ![d] = Free] ELSE delivery

Current(t) ==
    IF page[t].sending # None THEN {delivery[page[t].sending].capture}
    ELSE page[t].todo

Stopped(t, owner) ==
    page' = [page EXCEPT ![t] = [owner |-> owner, todo |-> {}, sending |-> None]]

\* fetch throws: before or after the request reached the API.
LoseConnection(t) ==
    /\ page[t].todo # {}
    /\ \E c \in Current(t) : Put(c, "pending")
    /\ Stopped(t, page[t].owner)
    /\ delivery' = Forgotten(t)
    /\ UNCHANGED <<session, removed, clearing, suggestion, review>>

\* A page learns that another owner is signed in, and aborts what it was sending.
LearnOwner(t) ==
    /\ page[t].owner # session
    /\ IF page[t].todo = {} THEN UNCHANGED queue
       ELSE \E c \in Current(t) : Put(c, "pending")
    /\ Stopped(t, session)
    /\ delivery' = Forgotten(t)
    /\ UNCHANGED <<session, removed, clearing, suggestion, review>>

\* The page is closed and opened again: nothing is written.
Reload(t) ==
    /\ page[t].todo # {}
    /\ Stopped(t, session)
    /\ delivery' = Forgotten(t)
    /\ UNCHANGED <<session, queue, removed, clearing, suggestion, review>>

\* Somebody signs in or out, on any page.
ChangeSession(o) ==
    /\ session # o
    /\ session' = o
    /\ UNCHANGED <<queue, removed, clearing, page, delivery, suggestion, review>>

-----------------------------------------------------------------------------
(* The API takes a capture in *)

Awaited(d) == \E t \in Pages : page[t].sending = d

Reply(d, answer) ==
    delivery' = [delivery EXCEPT ![d] =
        IF Awaited(d) THEN [@ EXCEPT !.phase = "answered", !.answer = answer] ELSE Free]

Stored(c, o) ==
    \E s \in Suggestions : suggestion[s].capture = c /\ suggestion[s].vault = o

\* Mutant: the queue's owner is not compared with the session.
Admitted_AnyOwner(d) == delivery[d].session # None

\* The session is valid, and its owner the one whose queue is being sent.
Admitted(d) == delivery[d].session = OwnerOf[delivery[d].capture]

LookUp(d) ==
    /\ delivery[d].phase = "sent"
    /\ LET c == delivery[d].capture IN
        IF ~ Admitted(d) THEN Reply(d, "unauthorized")
        ELSE IF Stored(c, delivery[d].session) THEN Reply(d, "ok")
        ELSE delivery' = [delivery EXCEPT ![d].phase = "looked"]
    /\ UNCHANGED <<session, queue, removed, clearing, page, suggestion, review>>

\* Nothing is locked between the look-up and the insert.
Create(d) ==
    /\ delivery[d].phase = "looked"
    /\ \E s \in Suggestions :
        /\ suggestion[s].status = "NONE"
        /\ suggestion' = [suggestion EXCEPT ![s] =
              [status |-> "QUEUED_FOR_REVIEW", capture |-> delivery[d].capture,
               vault |-> delivery[d].session, memories |-> 0]]
    /\ Reply(d, "ok")
    /\ UNCHANGED <<session, queue, removed, clearing, page, review>>

\* Too many requests, a session that has ended on the server, secret-like text:
\* refused before the vault is read.
Refuse(d) ==
    /\ delivery[d].phase = "sent"
    /\ \E answer \in {"unauthorized", "rejected"} : Reply(d, answer)
    /\ UNCHANGED <<session, queue, removed, clearing, page, suggestion, review>>

\* The transaction fails, and nothing of it stays.
Fault(d) ==
    /\ delivery[d].phase \in {"sent", "looked"}
    /\ Reply(d, "server")
    /\ UNCHANGED <<session, queue, removed, clearing, page, suggestion, review>>

-----------------------------------------------------------------------------
(* The owner reviews suggestions, one or many at a time *)

\* The rows are read first, and those that are not queued refused.
StartReview(k, decision, ids) ==
    /\ review[k].loaded = {}
    /\ ids # {}
    /\ \A s \in ids : suggestion[s].status = "QUEUED_FOR_REVIEW"
    /\ \E o \in Owners : \A s \in ids : suggestion[s].vault = o
    /\ review' = [review EXCEPT ![k] = [decision |-> decision, loaded |-> ids]]
    /\ UNCHANGED <<session, queue, removed, clearing, page, delivery, suggestion>>

\* Mutant: the status that was read is trusted.
Claims_Loaded(s) == suggestion[s].status # "NONE"

\* claimSuggestion: a conditional update under the owner's lock.
Claims(s) == suggestion[s].status = "QUEUED_FOR_REVIEW"

\* Each suggestion has a transaction of its own; one that fails (a conflict, an
\* error) leaves the others alone.
ReviewNext(k) ==
    \E s \in review[k].loaded :
        /\ review' = [review EXCEPT ![k] =
              IF review[k].loaded = {s} THEN Idle
              ELSE [decision |-> review[k].decision, loaded |-> review[k].loaded \ {s}]]
        /\ \/ UNCHANGED suggestion
           \/ /\ Claims(s)
              /\ suggestion' = [suggestion EXCEPT
                    ![s].status = review[k].decision,
                    ![s].memories = IF review[k].decision = "APPLIED" THEN @ + 1 ELSE @]
        /\ UNCHANGED <<session, queue, removed, clearing, page, delivery>>

Next ==
    \/ \E t \in Pages :
        \/ \E c \in Captures : AddCapture(t, c) \/ RemoveCapture(t, c)
        \/ ReadSynced(t) \/ Sync(t) \/ Receive(t)
        \/ \E c \in Captures, d \in Deliveries : Send(t, c, d)
        \/ LoseConnection(t) \/ LearnOwner(t) \/ Reload(t)
    \/ RemoveSynced
    \/ \E o \in Owners \cup {None} : ChangeSession(o)
    \/ \E d \in Deliveries : LookUp(d) \/ Create(d) \/ Refuse(d) \/ Fault(d)
    \/ \E k \in Reviews :
        \/ \E decision \in Decisions, ids \in SUBSET Suggestions :
              StartReview(k, decision, ids)
        \/ ReviewNext(k)

Spec == Init /\ [][Next]_vars

-----------------------------------------------------------------------------
(* Properties *)

\* "Sync verifies that the authenticated owner matches the queue owner": a
\* capture reaches no other vault, whoever signs in between the page's reading
\* of the queue and the sending of the request (CaptureAuthGuard).
InOwnersVault ==
    \A s \in Suggestions : suggestion[s].status # "NONE" =>
        suggestion[s].vault = OwnerOf[suggestion[s].capture]

\* "A sync interrupted mid-flight can safely retry": a capture that its owner
\* did not remove is waiting in the queue, refused by the vault, or stored in
\* it, also when two pages write the outcomes of the same capture in any order
\* (syncCaptures, clearSyncedCaptures).
NothingIsLost ==
    \A c \in Captures :
        LET stored == Stored(c, OwnerOf[c]) IN
        /\ queue[c] = "synced" => stored
        /\ queue[c] = "gone" => stored \/ c \in removed

\* "Claim exactly once": overlapping reviews of a suggestion, single or in bulk,
\* make one memory of it or none, and never a memory of a rejected one
\* (claimSuggestion).
ReviewedOnce ==
    \A s \in Suggestions :
        suggestion[s].memories = (IF suggestion[s].status = "APPLIED" THEN 1 ELSE 0)

\* A capture is sent into the vault of the owner who made it, it is on the device
\* or in the vault until its owner removes it, and it is reviewed once, whichever
\* answers are lost and whoever signs in between.
CapturesAreSafe == InOwnersVault /\ NothingIsLost /\ ReviewedOnce
=============================================================================

--------------------------- MODULE CapturesProofs ---------------------------
(***************************************************************************)
(* Proofs about quick captures, for any number of captures, owners, pages,  *)
(* requests and reviews: none reaches another owner's vault, none is lost   *)
(* by the queue, and none becomes a memory twice.                           *)
(***************************************************************************)
EXTENDS Captures, TLAPS

\* What was looked up is in the session's vault or will be, and what the API has
\* answered for, or a page is about to clear, is stored.
RequestsHold ==
    \A d \in Deliveries :
        /\ delivery[d].phase # "free" => delivery[d].capture \in Captures
        /\ delivery[d].phase = "looked" => Admitted(d)
        /\ delivery[d].phase = "answered" /\ delivery[d].answer = "ok" =>
              Stored(delivery[d].capture, OwnerOf[delivery[d].capture])

ClearingHolds == \A c \in clearing : Stored(c, OwnerOf[c])

ReviewsHold ==
    \A k \in Reviews : review[k].loaded # {} => review[k].decision \in Decisions

EmptyRows ==
    \A s \in Suggestions : suggestion[s].status = "NONE" => suggestion[s].capture = None

IInv ==
    /\ TypeOK /\ RequestsHold /\ ClearingHolds /\ ReviewsHold /\ EmptyRows
    /\ CapturesAreSafe

-----------------------------------------------------------------------------
(* What a step leaves alone *)

LEMMA RequestType ==
    ASSUME TypeOK, NEW d \in Deliveries
    PROVE  /\ delivery[d] \in Delivery
           /\ delivery[d].phase \in {"free", "sent", "looked", "answered"}
           /\ delivery[d].capture \in Captures \cup {None}
           /\ delivery[d].session \in Owners \cup {None}
           /\ delivery[d].answer \in Answers \cup {None}
           /\ Free \in Delivery
  BY DEF TypeOK, Delivery, Free

LEMMA PageType ==
    ASSUME TypeOK, NEW t \in Pages
    PROVE  /\ page[t] \in Page
           /\ page[t].owner \in Owners \cup {None}
           /\ page[t].todo \subseteq Captures
           /\ page[t].sending \in Deliveries \cup {None}
  BY DEF TypeOK, Page

\* A stored capture stays stored when the vault does not change.
LEMMA SameVault ==
    ASSUME UNCHANGED suggestion, NEW c, NEW o
    PROVE  Stored(c, o)' <=> Stored(c, o)
  BY DEF Stored

\* A step that leaves the vault and the reviews alone keeps the invariant when what
\* it writes to the queue is stored or removed.
LEMMA QueueStep ==
    ASSUME IInv, UNCHANGED <<suggestion, review>>, TypeOK', RequestsHold',
           ClearingHolds',
           \A c \in Captures :
              /\ queue'[c] = "synced" => Stored(c, OwnerOf[c])
              /\ queue'[c] = "gone" => Stored(c, OwnerOf[c]) \/ c \in removed'
    PROVE  IInv'
  <1>1. InOwnersVault' /\ ReviewedOnce' /\ ReviewsHold' /\ EmptyRows'
    BY DEF IInv, CapturesAreSafe, InOwnersVault, ReviewedOnce, ReviewsHold, EmptyRows
  <1>2. NothingIsLost'
    BY SameVault DEF NothingIsLost
  <1> QED
    BY <1>1, <1>2 DEF IInv, CapturesAreSafe

LEMMA SameRequests ==
    ASSUME IInv, UNCHANGED <<suggestion, delivery>>
    PROVE  RequestsHold'
  BY SameVault DEF IInv, RequestsHold, Admitted

LEMMA SameClearing ==
    ASSUME IInv, UNCHANGED <<suggestion, clearing>>
    PROVE  ClearingHolds'
  BY SameVault DEF IInv, ClearingHolds

LEMMA QueueHolds ==
    ASSUME IInv, NEW c \in Captures
    PROVE  /\ queue[c] = "synced" => Stored(c, OwnerOf[c])
           /\ queue[c] = "gone" => Stored(c, OwnerOf[c]) \/ c \in removed
  BY DEF IInv, CapturesAreSafe, NothingIsLost

\* A page lets its request go: an answer nobody waits for is dropped.
LEMMA Dropped ==
    ASSUME IInv, NEW t \in Pages, delivery' = Forgotten(t), UNCHANGED suggestion
    PROVE  /\ delivery' \in [Deliveries -> Delivery]
           /\ RequestsHold'
  <1> USE DEF IInv
  <1>1. \A d \in Deliveries : delivery'[d] = delivery[d] \/ delivery'[d] = Free
    BY PageType DEF Forgotten, TypeOK
  <1>2. delivery' \in [Deliveries -> Delivery]
    BY RequestType, PageType DEF Forgotten, TypeOK
  <1>3. Free.phase = "free"
    BY DEF Free
  <1>4. RequestsHold'
    BY <1>1, <1>3, SameVault DEF RequestsHold, Admitted
  <1> QED
    BY <1>2, <1>4

LEMMA StoppedType ==
    ASSUME TypeOK, NEW t \in Pages, NEW owner \in Owners \cup {None},
           Stopped(t, owner)
    PROVE  page' \in [Pages -> Page]
  BY DEF Stopped, TypeOK, Page

-----------------------------------------------------------------------------
(* The queue *)

\* The owner's edits of the queue.
LEMMA EditSteps ==
    ASSUME IInv, NEW t \in Pages, NEW c \in Captures,
           AddCapture(t, c) \/ RemoveCapture(t, c)
    PROVE  IInv'
  <1> USE DEF IInv
  <1>1. /\ UNCHANGED <<session, clearing, page, delivery, suggestion, review>>
        /\ \/ Put(c, "pending") /\ removed' = removed
           \/ Put(c, "gone") /\ removed' = removed \cup {c}
    BY DEF AddCapture, RemoveCapture
  <1>2. TypeOK'
    BY <1>1 DEF TypeOK, Put, QueueStatuses
  <1>3. \A q \in Captures :
           /\ queue'[q] = "synced" => Stored(q, OwnerOf[q])
           /\ queue'[q] = "gone" => Stored(q, OwnerOf[q]) \/ q \in removed'
    BY <1>1, QueueHolds DEF Put, TypeOK
  <1> QED
    BY <1>1, <1>2, <1>3, SameRequests, SameClearing, QueueStep

\* What is cleared was synced when it was read, and stays stored.
LEMMA ClearSteps ==
    ASSUME IInv, RemoveSynced \/ \E t \in Pages : ReadSynced(t)
    PROVE  IInv'
  <1> USE DEF IInv
  <1>1. UNCHANGED <<session, removed, page, delivery, suggestion, review>>
    BY DEF RemoveSynced, ReadSynced
  <1>2. /\ TypeOK'
        /\ \A c \in clearing' : c \in Captures /\ Stored(c, OwnerOf[c])
    BY <1>1, QueueHolds DEF RemoveSynced, ReadSynced, TypeOK, QueueStatuses
  <1>3. ClearingHolds'
    BY <1>1, <1>2, SameVault DEF ClearingHolds
  <1>4. \A q \in Captures : queue'[q] = queue[q] \/ Stored(q, OwnerOf[q])
    BY DEF RemoveSynced, ReadSynced, ClearingHolds
  <1> QED
    BY <1>1, <1>2, <1>3, <1>4, SameRequests, QueueHolds, QueueStep

LEMMA SendSteps ==
    ASSUME IInv, NEW t \in Pages,
           Sync(t) \/ \E c \in Captures, d \in Deliveries : Send(t, c, d)
    PROVE  IInv'
  <1> USE DEF IInv
  <1>1. UNCHANGED <<session, queue, removed, clearing, suggestion, review>>
    BY DEF Sync, Send
  <1>2. CASE Sync(t)
    <2>1. TypeOK'
      BY <1>1, <1>2, PageType DEF Sync, TypeOK, Page, Pending
    <2> QED
      BY <1>1, <1>2, <2>1, SameRequests, SameClearing, QueueHolds, QueueStep DEF Sync
  <1>3. ASSUME NEW c \in Captures, NEW d \in Deliveries, Send(t, c, d)
        PROVE  IInv'
    <2> DEFINE new == [phase |-> "sent", capture |-> c, session |-> session,
                       answer |-> None]
    <2>1. /\ delivery' = [delivery EXCEPT ![d] = new]
          /\ page' = [page EXCEPT ![t].sending = d]
      BY <1>3 DEF Send
    <2>2. new \in Delivery /\ new.phase = "sent" /\ new.capture = c
      BY DEF Delivery, TypeOK
    <2> HIDE DEF new
    <2>3. TypeOK'
      BY <1>1, <2>1, <2>2, PageType DEF TypeOK, Page
    <2>4. RequestsHold'
      BY <1>1, <2>1, <2>2, SameVault DEF RequestsHold, Admitted, TypeOK
    <2> QED
      BY <1>1, <2>3, <2>4, SameClearing, QueueHolds, QueueStep
  <1> QED
    BY <1>2, <1>3

\* A row that is written as synced was answered for, whichever page writes it.
LEMMA ReceiveStep ==
    ASSUME IInv, NEW t \in Pages, Receive(t)
    PROVE  IInv'
  <1> USE DEF IInv
  <1>1. PICK d \in Deliveries : d = page[t].sending
    BY PageType DEF Receive
  <1>2. /\ delivery[d].phase = "answered"
        /\ Put(delivery[d].capture, StatusAfter(delivery[d].answer))
        /\ \E todo \in {page[t].todo \ {delivery[d].capture}, {}} :
              page' = [page EXCEPT ![t].sending = None, ![t].todo = todo]
        /\ delivery' = [delivery EXCEPT ![d] = Free]
        /\ UNCHANGED <<session, removed, clearing, suggestion, review>>
    BY <1>1 DEF Receive
  <1>3. StatusAfter(delivery[d].answer) \in {"synced", "failed", "pending"}
    BY DEF StatusAfter
  <1>4. StatusAfter(delivery[d].answer) = "synced" =>
           Stored(delivery[d].capture, OwnerOf[delivery[d].capture])
    BY <1>2 DEF StatusAfter, RequestsHold
  <1>5. TypeOK'
    <2>1. queue' \in [Captures -> QueueStatuses]
      BY <1>2, <1>3 DEF Put, TypeOK, QueueStatuses
    <2>2. page' \in [Pages -> Page]
      <3>1. PICK todo \in SUBSET Captures :
               page' = [page EXCEPT ![t].sending = None, ![t].todo = todo]
        BY <1>2, PageType
      <3>2. page' = [page EXCEPT ![t] =
                        [page[t] EXCEPT !.sending = None, !.todo = todo]]
        BY <3>1 DEF TypeOK
      <3>3. [page[t] EXCEPT !.sending = None, !.todo = todo] \in Page
        BY PageType DEF Page
      <3> QED
        BY <3>2, <3>3 DEF TypeOK
    <2>3. delivery' \in [Deliveries -> Delivery]
      BY <1>2, RequestType DEF TypeOK
    <2> QED
      BY <1>2, <2>1, <2>2, <2>3 DEF TypeOK
  <1>6. RequestsHold'
    <2>1. Free.phase = "free"
      BY DEF Free
    <2> QED
      BY <1>2, <2>1, SameVault DEF RequestsHold, Admitted, TypeOK
  <1>7. \A q \in Captures :
           /\ queue'[q] = "synced" => Stored(q, OwnerOf[q])
           /\ queue'[q] = "gone" => Stored(q, OwnerOf[q]) \/ q \in removed
    BY <1>2, <1>3, <1>4, QueueHolds DEF Put, TypeOK
  <1> QED
    BY <1>2, <1>5, <1>6, <1>7, SameClearing, QueueStep

\* A page that stops puts back what it was sending, or writes nothing.
LEMMA StopSteps ==
    ASSUME IInv, NEW t \in Pages, LoseConnection(t) \/ LearnOwner(t) \/ Reload(t)
    PROVE  IInv'
  <1> USE DEF IInv
  <1>1. /\ UNCHANGED <<session, removed, clearing, suggestion, review>>
        /\ delivery' = Forgotten(t)
        /\ \E owner \in Owners \cup {None} : Stopped(t, owner)
        /\ queue' = queue \/ \E c : Put(c, "pending")
    BY PageType DEF LoseConnection, LearnOwner, Reload, TypeOK
  <1>2. queue' \in [Captures -> QueueStatuses]
    BY <1>1 DEF Put, TypeOK, QueueStatuses
  <1>3. TypeOK'
    BY <1>1, <1>2, Dropped, StoppedType DEF TypeOK
  <1>4. \A q \in Captures :
           /\ queue'[q] = "synced" => Stored(q, OwnerOf[q])
           /\ queue'[q] = "gone" => Stored(q, OwnerOf[q]) \/ q \in removed
    BY <1>1, QueueHolds DEF Put, TypeOK
  <1> QED
    BY <1>1, <1>3, <1>4, Dropped, SameClearing, QueueStep

-----------------------------------------------------------------------------
(* The API takes a capture in *)

\* A request is answered, or dropped when no page waits for it.
LEMMA Replied ==
    ASSUME IInv, NEW d \in Deliveries, NEW answer \in Answers, Reply(d, answer),
           NEW c0 \in Captures, c0 = delivery[d].capture,
           answer = "ok" => Stored(c0, OwnerOf[c0])',
           \A c \in Captures, o \in Owners : Stored(c, o) => Stored(c, o)'
    PROVE  /\ delivery' \in [Deliveries -> Delivery]
           /\ RequestsHold'
  <1> USE DEF IInv
  <1>1. PICK new \in Delivery :
           /\ delivery' = [delivery EXCEPT ![d] = new]
           /\ \/ new.phase = "free"
              \/ /\ new.phase = "answered" /\ new.answer = answer
                 /\ new.capture = delivery[d].capture
    <2> DEFINE new == [delivery[d] EXCEPT !.phase = "answered", !.answer = answer]
    <2>1. \/ delivery' = [delivery EXCEPT ![d] = new]
          \/ delivery' = [delivery EXCEPT ![d] = Free]
      BY DEF Reply
    <2>2. /\ new \in Delivery /\ new.phase = "answered" /\ new.answer = answer
          /\ new.capture = delivery[d].capture
      BY RequestType DEF Delivery
    <2>3. Free \in Delivery /\ Free.phase = "free"
      BY RequestType DEF Free
    <2> HIDE DEF new
    <2> QED
      BY <2>1, <2>2, <2>3
  <1>2. delivery' \in [Deliveries -> Delivery]
    BY <1>1 DEF TypeOK
  <1>3. delivery'[d] = new /\ \A e \in Deliveries : e # d => delivery'[e] = delivery[e]
    BY <1>1 DEF TypeOK
  <1>4. ASSUME NEW e \in Deliveries, e # d
        PROVE  delivery[e].phase = "answered" /\ delivery[e].answer = "ok" =>
                  Stored(delivery[e].capture, OwnerOf[delivery[e].capture])'
    <2>1. delivery'[e] = delivery[e]
      BY <1>3, <1>4
    <2>2. PICK c : c = delivery[e].capture
      OBVIOUS
    <2>3. delivery[e].phase = "answered" /\ delivery[e].answer = "ok" =>
             c \in Captures /\ Stored(c, OwnerOf[c])'
      BY <2>2, CapturesAssumption DEF RequestsHold
    <2> QED
      BY <2>1, <2>2, <2>3 DEF Stored
  <1>5. Stored(c0, OwnerOf[c0])' /\ delivery'[d].phase = "answered" =>
           Stored(delivery[d].capture, OwnerOf[delivery[d].capture])'
    BY <1>1, <1>3 DEF Stored
  <1>6. RequestsHold'
    BY <1>1, <1>3, <1>4, <1>5 DEF RequestsHold, Admitted
  <1> QED
    BY <1>2, <1>6

\* What is in the vault stays, so that nothing queued or cleared is lost by it.
LEMMA VaultStep ==
    ASSUME IInv, UNCHANGED <<session, queue, removed, clearing, page>>,
           delivery' \in [Deliveries -> Delivery], RequestsHold',
           suggestion' \in [Suggestions -> Suggestion],
           review' \in [Reviews -> Review], ReviewsHold',
           InOwnersVault', ReviewedOnce', EmptyRows',
           \A c \in Captures, o \in Owners : Stored(c, o) => Stored(c, o)'
    PROVE  IInv'
  <1> USE DEF IInv
  <1>1. TypeOK'
    BY DEF TypeOK
  <1>2. ClearingHolds'
    BY CapturesAssumption DEF ClearingHolds, TypeOK
  <1>3. NothingIsLost'
    BY QueueHolds, CapturesAssumption DEF NothingIsLost
  <1> QED
    BY <1>1, <1>2, <1>3 DEF CapturesAreSafe

LEMMA AnswerSteps ==
    ASSUME IInv, NEW d \in Deliveries, LookUp(d) \/ Refuse(d) \/ Fault(d)
    PROVE  IInv'
  <1> USE DEF IInv
  <1>1. /\ UNCHANGED <<session, queue, removed, clearing, page, suggestion, review>>
        /\ delivery[d].phase \in {"sent", "looked"}
        /\ delivery[d].capture \in Captures
    BY DEF LookUp, Refuse, Fault, RequestsHold
  <1>2. \A c \in Captures, o \in Owners : Stored(c, o)' <=> Stored(c, o)
    BY <1>1, SameVault
  <1>3. InOwnersVault' /\ ReviewedOnce' /\ ReviewsHold' /\ EmptyRows'
    BY <1>1 DEF CapturesAreSafe, InOwnersVault, ReviewedOnce, ReviewsHold, EmptyRows
  <1>4. /\ delivery' \in [Deliveries -> Delivery]
        /\ RequestsHold'
    <2>1. CASE \E answer \in Answers \ {"ok"} : Reply(d, answer)
      BY <1>1, <1>2, <2>1, Replied
    <2>2. CASE Reply(d, "ok") /\ Admitted(d)
                  /\ Stored(delivery[d].capture, delivery[d].session)
      <3>1. PICK c \in Captures : c = delivery[d].capture /\ Stored(c, OwnerOf[c])'
        BY <1>1, <2>2, SameVault DEF Admitted, Stored
      <3>2. "ok" \in Answers
        BY DEF Answers
      <3> QED
        BY <1>1, <1>2, <2>2, <3>1, <3>2, Replied
    <2>3. CASE Admitted(d) /\ delivery' = [delivery EXCEPT ![d].phase = "looked"]
      <3> DEFINE new == [delivery[d] EXCEPT !.phase = "looked"]
      <3>1. delivery' = [delivery EXCEPT ![d] = new]
        BY <2>3
      <3>2. /\ new \in Delivery /\ new.phase = "looked"
            /\ new.capture = delivery[d].capture /\ new.session = delivery[d].session
        BY RequestType DEF Delivery
      <3> HIDE DEF new
      <3>3. /\ delivery'[d] = new
            /\ \A e \in Deliveries : e # d => delivery'[e] = delivery[e]
        BY <3>1 DEF TypeOK
      <3>4. delivery' \in [Deliveries -> Delivery]
        BY <3>1, <3>2 DEF TypeOK
      <3> QED
        BY <1>1, <1>2, <2>3, <3>2, <3>3, <3>4, SameVault DEF RequestsHold, Admitted
    <2> QED
      BY <2>1, <2>2, <2>3 DEF LookUp, Refuse, Fault, Answers
  <1> QED
    BY <1>1, <1>2, <1>3, <1>4, VaultStep DEF TypeOK

LEMMA CreateStep ==
    ASSUME IInv, NEW d \in Deliveries, Create(d)
    PROVE  IInv'
  <1> USE DEF IInv
  <1>1. PICK s \in Suggestions, new \in Suggestion :
           /\ suggestion[s].status = "NONE"
           /\ suggestion' = [suggestion EXCEPT ![s] = new]
           /\ new.status = "QUEUED_FOR_REVIEW" /\ new.capture = delivery[d].capture
           /\ new.vault = delivery[d].session /\ new.memories = 0
    <2> DEFINE new == [status |-> "QUEUED_FOR_REVIEW", capture |-> delivery[d].capture,
                       vault |-> delivery[d].session, memories |-> 0]
    <2>1. new \in Suggestion
      BY RequestType DEF Suggestion
    <2>2. PICK s \in Suggestions : /\ suggestion[s].status = "NONE"
                                   /\ suggestion' = [suggestion EXCEPT ![s] = new]
      BY DEF Create
    <2> QED
      BY <2>1, <2>2
  <1>2. /\ delivery[d].phase = "looked" /\ Reply(d, "ok") /\ Admitted(d)
        /\ delivery[d].capture \in Captures
        /\ UNCHANGED <<session, queue, removed, clearing, page, review>>
    BY DEF Create, RequestsHold
  <1>3. /\ suggestion'[s] = new
        /\ \A q \in Suggestions : q # s => suggestion'[q] = suggestion[q]
        /\ suggestion' \in [Suggestions -> Suggestion]
    BY <1>1 DEF TypeOK
  <1>4. InOwnersVault'
    BY <1>1, <1>2, <1>3 DEF CapturesAreSafe, InOwnersVault, Admitted
  <1>5. ReviewedOnce' /\ EmptyRows'
    BY <1>1, <1>3 DEF CapturesAreSafe, ReviewedOnce, EmptyRows
  <1>6. PICK c \in Captures : c = delivery[d].capture /\ Stored(c, OwnerOf[c])'
    BY <1>1, <1>2, <1>3 DEF Stored, Admitted
  <1>7. ASSUME NEW b \in Captures, NEW o \in Owners, Stored(b, o)
        PROVE  Stored(b, o)'
    <2>1. PICK q \in Suggestions : suggestion[q].capture = b /\ suggestion[q].vault = o
      BY <1>7 DEF Stored
    <2>2. q # s
      BY <1>1, <2>1, CapturesAssumption DEF EmptyRows
    <2> QED
      BY <1>3, <2>1, <2>2 DEF Stored
  <1>8. /\ delivery' \in [Deliveries -> Delivery]
        /\ RequestsHold'
    BY <1>2, <1>6, <1>7, Replied DEF Answers
  <1>9. ReviewsHold'
    BY <1>2 DEF ReviewsHold
  <1> QED
    BY <1>2, <1>3, <1>4, <1>5, <1>7, <1>8, <1>9, VaultStep DEF TypeOK

-----------------------------------------------------------------------------
(* Reviews *)

LEMMA StartReviewStep ==
    ASSUME IInv, NEW k \in Reviews, NEW decision \in Decisions,
           NEW ids \in SUBSET Suggestions, StartReview(k, decision, ids)
    PROVE  IInv'
  <1> USE DEF IInv
  <1>1. /\ UNCHANGED <<session, queue, removed, clearing, page, delivery, suggestion>>
        /\ review' = [review EXCEPT ![k] = [decision |-> decision, loaded |-> ids]]
    BY DEF StartReview
  <1>2. /\ review' \in [Reviews -> Review]
        /\ ReviewsHold'
    BY <1>1 DEF TypeOK, Review, ReviewsHold
  <1>3. InOwnersVault' /\ ReviewedOnce' /\ EmptyRows'
    BY <1>1 DEF CapturesAreSafe, InOwnersVault, ReviewedOnce, EmptyRows
  <1>4. \A c \in Captures, o \in Owners : Stored(c, o) => Stored(c, o)'
    BY <1>1, SameVault
  <1> QED
    BY <1>1, <1>2, <1>3, <1>4, SameRequests, VaultStep DEF TypeOK

\* Only a queued suggestion is decided, and an applied one makes one memory.
LEMMA ReviewStep ==
    ASSUME IInv, NEW k \in Reviews, ReviewNext(k)
    PROVE  IInv'
  <1> USE DEF IInv
  <1>1. PICK s \in review[k].loaded :
           /\ review' = [review EXCEPT ![k] =
                 IF review[k].loaded = {s} THEN Idle
                 ELSE [decision |-> review[k].decision,
                       loaded |-> review[k].loaded \ {s}]]
           /\ \/ UNCHANGED suggestion
              \/ /\ Claims(s)
                 /\ suggestion' = [suggestion EXCEPT
                       ![s].status = review[k].decision,
                       ![s].memories = IF review[k].decision = "APPLIED"
                                       THEN @ + 1 ELSE @]
           /\ UNCHANGED <<session, queue, removed, clearing, page, delivery>>
    BY DEF ReviewNext
  <1>2. review[k] \in Review /\ s \in Suggestions /\ review[k].decision \in Decisions
    BY <1>1 DEF TypeOK, Review, ReviewsHold
  <1>3. /\ review' \in [Reviews -> Review]
        /\ ReviewsHold'
    BY <1>1, <1>2 DEF TypeOK, Review, ReviewsHold, Idle
  <1>4. CASE UNCHANGED suggestion
    <2>1. InOwnersVault' /\ ReviewedOnce' /\ EmptyRows'
      BY <1>4 DEF CapturesAreSafe, InOwnersVault, ReviewedOnce, EmptyRows
    <2>2. \A c \in Captures, o \in Owners : Stored(c, o) => Stored(c, o)'
      BY <1>4, SameVault
    <2> QED
      BY <1>1, <1>3, <1>4, <2>1, <2>2, SameRequests, VaultStep DEF TypeOK
  <1>5. CASE Claims(s) /\ suggestion' # suggestion
    <2>1. PICK new \in Suggestion :
             /\ suggestion' = [suggestion EXCEPT ![s] = new]
             /\ new.status = review[k].decision
             /\ new.memories = (IF new.status = "APPLIED" THEN 1 ELSE 0)
             /\ new.capture = suggestion[s].capture /\ new.vault = suggestion[s].vault
      <3> DEFINE new == [suggestion[s] EXCEPT
                            !.status = review[k].decision,
                            !.memories = IF review[k].decision = "APPLIED"
                                         THEN @ + 1 ELSE @]
      <3>1. suggestion' = [suggestion EXCEPT ![s] = new]
        BY <1>1, <1>5 DEF TypeOK
      <3>2. suggestion[s] \in Suggestion /\ suggestion[s].memories = 0
        BY <1>2, <1>5 DEF TypeOK, Claims, CapturesAreSafe, ReviewedOnce
      <3>3. new = [suggestion[s] EXCEPT
                     !.status = review[k].decision,
                     !.memories = IF review[k].decision = "APPLIED" THEN 1 ELSE 0]
        BY <3>2
      <3> HIDE DEF new
      <3>4. /\ new \in Suggestion /\ new.status = review[k].decision
            /\ new.memories = (IF new.status = "APPLIED" THEN 1 ELSE 0)
            /\ new.capture = suggestion[s].capture /\ new.vault = suggestion[s].vault
        BY <1>2, <3>2, <3>3 DEF Suggestion
      <3> QED
        BY <3>1, <3>4
    <2>2. /\ suggestion'[s] = new
          /\ \A q \in Suggestions : q # s => suggestion'[q] = suggestion[q]
          /\ suggestion' \in [Suggestions -> Suggestion]
      BY <1>2, <2>1 DEF TypeOK
    <2>3. InOwnersVault' /\ ReviewedOnce' /\ EmptyRows'
      BY <1>2, <1>5, <2>1, <2>2 DEF CapturesAreSafe, InOwnersVault, ReviewedOnce, Claims,
         EmptyRows, Decisions
    <2>4. \A c \in Captures, o \in Owners : Stored(c, o)' <=> Stored(c, o)
      BY <1>2, <2>1, <2>2 DEF Stored
    <2>5. RequestsHold'
      BY <1>1, <2>4, CapturesAssumption DEF RequestsHold, Admitted
    <2> QED
      BY <1>1, <1>3, <2>2, <2>3, <2>4, <2>5, VaultStep DEF TypeOK
  <1> QED
    BY <1>1, <1>4, <1>5

-----------------------------------------------------------------------------
(* Every step *)

LEMMA NextStep == IInv /\ [Next]_vars => IInv'
  <1> SUFFICES ASSUME IInv, [Next]_vars PROVE IInv'
    OBVIOUS
  <1>1. ASSUME UNCHANGED <<queue, removed, clearing, page, delivery, suggestion, review>>,
               session' \in Owners \cup {None}
        PROVE  IInv'
    <2>1. TypeOK'
      BY <1>1 DEF IInv, TypeOK
    <2> QED
      BY <1>1, <2>1, SameRequests, SameClearing, QueueHolds, QueueStep
  <1>2. ASSUME NEW o \in Owners \cup {None}, ChangeSession(o) PROVE IInv'
    BY <1>1, <1>2 DEF ChangeSession
  <1>3. CASE UNCHANGED vars
    BY <1>1, <1>3 DEF vars, IInv, TypeOK
  <1> QED
    BY <1>2, <1>3, EditSteps, ClearSteps, SendSteps, ReceiveStep, StopSteps, AnswerSteps,
       CreateStep, StartReviewStep, ReviewStep DEF Next

LEMMA InitHolds == Init => IInv
  <1> SUFFICES ASSUME Init PROVE IInv
    OBVIOUS
  <1>1. TypeOK
    BY DEF Init, TypeOK, QueueStatuses, Page, Delivery, Free, Suggestion, Review, Idle
  <1>2. RequestsHold /\ ClearingHolds /\ ReviewsHold /\ EmptyRows
    BY DEF Init, RequestsHold, ClearingHolds, ReviewsHold, EmptyRows, Free, Idle
  <1>3. CapturesAreSafe
    BY DEF Init, CapturesAreSafe, InOwnersVault, NothingIsLost, ReviewedOnce
  <1> QED
    BY <1>1, <1>2, <1>3 DEF IInv

THEOREM Invariance == Spec => []IInv
  BY InitHolds, NextStep, PTL DEF Spec

\* The variables keep their types.
THEOREM TypeCorrect == Spec => []TypeOK
  BY Invariance, PTL DEF IInv

\* A capture is sent into the vault of the owner who made it, it is on the device
\* or in the vault until its owner removes it, and it is reviewed once, whichever
\* answers are lost and whoever signs in between.
THEOREM CapturesStaySafe == Spec => []CapturesAreSafe
  BY Invariance, PTL DEF IInv
=============================================================================

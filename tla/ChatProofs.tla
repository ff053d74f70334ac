----------------------------- MODULE ChatProofs -----------------------------
(***************************************************************************)
(* Proofs about memory chat, for any number of tabs, requests, submissions  *)
(* and memories, and any bounds: a turn is stored once and in its place,    *)
(* and the turns of a conversation on the screen go to one thread, whatever *)
(* is cut, stopped or repeated.                                             *)
(***************************************************************************)
EXTENDS Chat, FiniteSetTheorems, TLAPS

\* What a request has done so far: from its acceptance on it has the row of the
\* owner's message, in the thread it named if it named one.
Settled(r) ==
    /\ r.phase = "sent" => r.submission \in Submissions /\ r.source = 0
    /\ r.phase \in {"accepted", "generating", "answered", "titling", "finished"} =>
          r.source # 0
    /\ r.source # 0 =>
          /\ r.source \in Sources
          /\ r.session # None => log[r.source].thread = r.session

References(r) ==
    \A m \in Memories :
        m \in {r.cites[i] : i \in 1..Len(r.cites)} =>
            r.told[m] \in 1..Len(r.cites) /\ r.cites[r.told[m]] = m

RequestsHold == \A q \in Requests : Settled(request[q]) /\ References(request[q])

\* A tab waits for a request of its own, in the thread of its session, and knows
\* of another thread only from that request.
TabHolds(t) ==
    LET q == tab[t].busy IN
    /\ tab[t].pending = None => tab[t].home = tab[t].session
    /\ tab[t].pending # None => q # None /\ tab[t].home = tab[t].pending
    /\ q # None =>
          /\ request[q].tab = t /\ request[q].phase # "free"
          /\ request[q].session = tab[t].session
          /\ tab[t].pending # None =>
                request[q].source # 0 /\ tab[t].pending = ThreadOf(q)

TabsHold == \A t \in Tabs : TabHolds(t)

Row(i) ==
    /\ log[i].role = "user" => log[i].submission \in Submissions
    /\ log[i].role = "assistant" =>
          /\ log[i].submission = None
          /\ log[i].source \in Sources /\ log[i].source < i
          /\ log[log[i].source].thread = log[i].thread

RowsHold == \A i \in 1..Len(log) : Row(i)

IInv ==
    /\ TypeOK /\ RequestsHold /\ TabsHold /\ RowsHold
    /\ SubmissionStoredOnce /\ NoEmptyThread /\ OwnersTitleStays

-----------------------------------------------------------------------------
(* Types *)

LEMMA NoneFacts ==
    /\ None \notin Threads /\ None \notin Submissions /\ None \notin Tabs
    /\ None \notin Requests
    /\ MaxThreads \in Nat /\ MaxLog \in Nat
  BY ChatAssumption

LEMMA RequestType ==
    ASSUME TypeOK, NEW q \in Requests
    PROVE  /\ request[q] \in Request
           /\ request[q].phase \in Phases
           /\ request[q].tab \in Tabs \cup {None}
           /\ request[q].submission \in Submissions \cup {None}
           /\ request[q].text \in Texts \cup {None}
           /\ request[q].session \in Threads \cup {None}
           /\ request[q].source \in Nat
           /\ request[q].cites \in Seq(Memories)
           /\ request[q].told \in [Memories -> Nat]
  BY DEF TypeOK, Request

LEMMA TabType ==
    ASSUME TypeOK, NEW t \in Tabs
    PROVE  /\ tab[t] \in Tab
           /\ tab[t].session \in Threads \cup {None}
           /\ tab[t].pending \in Threads \cup {None}
           /\ tab[t].home \in Threads \cup {None}
           /\ tab[t].busy \in Requests \cup {None}
  BY DEF TypeOK, Tab

LEMMA FreeType ==
    /\ FreeRequest \in Request
    /\ FreeRequest.phase = "free" /\ FreeRequest.source = 0
    /\ FreeRequest.tab = None /\ FreeRequest.session = None
    /\ FreeRequest.cites = <<>> /\ FreeRequest.told \in [Memories -> Nat]
    /\ Blank \in Tab /\ Blank.session = None /\ Blank.pending = None
    /\ Blank.home = None /\ Blank.busy = None
  <1>1. <<>> \in Seq(Memories)
    OBVIOUS
  <1> QED
    BY <1>1 DEF FreeRequest, Request, Phases, Blank, Tab

\* No more threads exist than there is room for.
LEMMA NextThreadType ==
    ASSUME TypeOK
    PROVE  NextThread \in 1..(MaxThreads + 1)
  <1>1. IsFiniteSet(Threads) /\ Cardinality(Threads) = MaxThreads
    BY NoneFacts, FS_Interval DEF Threads
  <1>2. Existing \subseteq Threads
    BY DEF Existing
  <1>3. IsFiniteSet(Existing) /\ Cardinality(Existing) <= MaxThreads
    BY <1>1, <1>2, FS_Subset
  <1>4. Cardinality(Existing) \in Nat
    BY <1>3, FS_CardinalityType
  <1> QED
    BY <1>3, <1>4, NoneFacts DEF NextThread

-----------------------------------------------------------------------------
(* The rows of the log stay, and rows are added at its end *)

LogKept ==
    \A i \in 1..Len(log) : i \in 1..Len(log') /\ log'[i] = log[i]

LEMMA Added ==
    ASSUME TypeOK, NEW x \in Message, log' = Append(log, x)
    PROVE  /\ LogKept /\ log' \in Seq(Message)
           /\ Len(log') = Len(log) + 1 /\ log'[Len(log) + 1] = x
           /\ Len(log) \in Nat
  BY DEF TypeOK, LogKept

LEMMA Unchanged ==
    ASSUME UNCHANGED log
    PROVE  LogKept
  BY DEF LogKept

LEMMA SettledStays ==
    ASSUME LogKept, NEW r, Settled(r)
    PROVE  Settled(r)'
  BY DEF LogKept, Settled, Sources

LEMMA ReferencesStay ==
    ASSUME NEW r, References(r)
    PROVE  References(r)'
  BY DEF References

LEMMA RowStays ==
    ASSUME LogKept, NEW i \in 1..Len(log), Row(i)
    PROVE  Row(i)'
  <1>1. log'[i] = log[i]
    BY DEF LogKept
  <1>2. ASSUME log[i].source \in Sources
        PROVE  log[i].source \in Sources' /\ log'[log[i].source] = log[log[i].source]
    BY <1>2 DEF Sources, LogKept
  <1> QED
    BY <1>1, <1>2 DEF Row

LEMMA RequestMoves ==
    ASSUME IInv, LogKept, NEW q \in Requests, NEW new \in Request,
           request' = [request EXCEPT ![q] = new],
           Settled(new)', References(new)
    PROVE  request' \in [Requests -> Request] /\ RequestsHold'
  <1>1. request'[q] = new /\ \A p \in Requests : p # q => request'[p] = request[p]
    BY DEF IInv, TypeOK
  <1>2. request' \in [Requests -> Request]
    BY DEF IInv, TypeOK
  <1>3. ASSUME NEW p \in Requests
        PROVE  Settled(request[p])' /\ References(request[p])'
    <2>1. CASE p = q
      BY <1>1, <2>1, ReferencesStay DEF Settled, References, Sources
    <2>2. CASE p # q
      <3>1. PICK r : r = request[p]
        OBVIOUS
      <3>2. Settled(r)' /\ References(r)'
        BY <3>1, SettledStays, ReferencesStay DEF IInv, RequestsHold
      <3> QED
        BY <1>1, <2>2, <3>1, <3>2 DEF Settled, References, Sources
    <2> QED
      BY <2>1, <2>2
  <1> QED
    BY <1>2, <1>3 DEF RequestsHold

LEMMA RequestsStay ==
    ASSUME IInv, LogKept, UNCHANGED request
    PROVE  RequestsHold'
  <1>1. ASSUME NEW p \in Requests
        PROVE  Settled(request[p])' /\ References(request[p])'
    <2>1. PICK r : r = request[p]
      OBVIOUS
    <2>2. Settled(r)' /\ References(r)'
      BY <2>1, SettledStays, ReferencesStay DEF IInv, RequestsHold
    <2> QED
      BY <2>1, <2>2 DEF Settled, References, Sources
  <1> QED
    BY <1>1 DEF RequestsHold

\* A request goes on without its tab noticing.
LEMMA TabsStay ==
    ASSUME IInv, LogKept, UNCHANGED tab, NEW q \in Requests, NEW new,
           request' = [request EXCEPT ![q] = new],
           request[q].tab # None /\ request[q].phase # "free" =>
              /\ new.tab = request[q].tab /\ new.phase # "free"
              /\ new.session = request[q].session
              /\ request[q].source # 0 => new.source = request[q].source
    PROVE  TabsHold'
  <1> SUFFICES ASSUME NEW t \in Tabs PROVE TabHolds(t)'
    BY DEF TabsHold
  <1>1. TabHolds(t) /\ tab'[t] = tab[t]
    BY DEF IInv, TabsHold
  <1>2. CASE tab[t].busy = None
    BY <1>1, <1>2 DEF TabHolds
  <1>3. CASE tab[t].busy # None
    <2>1. PICK p \in Requests : p = tab[t].busy
      BY <1>3, TabType DEF IInv
    <2>2. /\ request[p].tab = t /\ request[p].phase # "free"
          /\ request[p].session = tab[t].session
          /\ tab[t].pending # None =>
                request[p].source # 0 /\ tab[t].pending = ThreadOf(p)
      BY <1>1, <1>3, <2>1 DEF TabHolds
    <2>3. /\ request'[p].tab = t /\ request'[p].phase # "free"
          /\ request'[p].session = tab[t].session
          /\ request[p].source # 0 => request'[p].source = request[p].source
      BY <2>2, NoneFacts DEF IInv, TypeOK
    <2>4. request[p].source # 0 => log'[request[p].source] = log[request[p].source]
      BY DEF IInv, RequestsHold, Settled, Sources, LogKept
    <2>5. tab[t].pending # None =>
             request'[p].source # 0 /\ tab[t].pending = ThreadOf(p)'
      BY <2>2, <2>3, <2>4 DEF ThreadOf
    <2> QED
      BY <1>1, <1>3, <2>1, <2>3, <2>5 DEF TabHolds
  <1> QED
    BY <1>2, <1>3

\* The requests the other tabs wait for stay as they are.
LEMMA TabMoves ==
    ASSUME IInv, LogKept, NEW t \in Tabs, NEW c \in Tab,
           tab' = [tab EXCEPT ![t] = c], TabHolds(t)',
           \A s \in Tabs \ {t} : tab[s].busy # None =>
              request'[tab[s].busy] = request[tab[s].busy]
    PROVE  /\ tab' \in [Tabs -> Tab]
           /\ TabsHold'
  <1>1. tab' \in [Tabs -> Tab]
    BY DEF IInv, TypeOK
  <1>2. ASSUME NEW s \in Tabs, s # t PROVE TabHolds(s)'
    <2>1. TabHolds(s) /\ tab'[s] = tab[s]
      BY <1>2 DEF IInv, TabsHold, TypeOK
    <2>2. CASE tab[s].busy = None
      BY <2>1, <2>2 DEF TabHolds
    <2>3. CASE tab[s].busy # None
      <3>1. PICK p \in Requests : p = tab[s].busy
        BY <2>3, TabType DEF IInv
      <3>2. request'[p] = request[p]
        BY <1>2, <2>3, <3>1
      <3>3. request[p].source # 0 => log'[request[p].source] = log[request[p].source]
        BY DEF IInv, RequestsHold, Settled, Sources, LogKept
      <3>4. request[p].source # 0 => ThreadOf(p)' = ThreadOf(p)
        BY <3>2, <3>3 DEF ThreadOf
      <3> QED
        BY <2>1, <2>3, <3>1, <3>2, <3>4 DEF TabHolds
    <2> QED
      BY <2>2, <2>3
  <1> QED
    BY <1>1, <1>2 DEF TabsHold

\* What a step that adds no row leaves alone.
LEMMA SameLog ==
    ASSUME IInv, UNCHANGED log
    PROVE  RowsHold' /\ SubmissionStoredOnce'
  BY DEF IInv, RowsHold, Row, SubmissionStoredOnce, Sources

LEMMA SameThreads ==
    ASSUME IInv, LogKept, UNCHANGED thread
    PROVE  NoEmptyThread' /\ OwnersTitleStays'
  BY DEF IInv, NoEmptyThread, OwnersTitleStays, Existing, Sources, LogKept

\* A step of request q at the API.
LEMMA RequestStep ==
    ASSUME IInv, LogKept, UNCHANGED tab, NEW q \in Requests, NEW new \in Request,
           request' = [request EXCEPT ![q] = new],
           Settled(new)', References(new),
           request[q].tab # None /\ request[q].phase # "free" =>
              /\ new.tab = request[q].tab /\ new.phase # "free"
              /\ new.session = request[q].session
              /\ request[q].source # 0 => new.source = request[q].source,
           thread' \in [Threads -> Thread], recent' \in Threads \cup {None},
           log' \in Seq(Message), RowsHold', SubmissionStoredOnce',
           NoEmptyThread', OwnersTitleStays'
    PROVE  IInv'
  <1>1. request' \in [Requests -> Request] /\ RequestsHold'
    BY RequestMoves
  <1>2. TabsHold'
    BY TabsStay
  <1> QED
    BY <1>1, <1>2 DEF IInv, TypeOK

\* No other tab waits for q.
Alone(t, q) == \A s \in Tabs \ {t} : tab[s].busy # q

\* A step of tab t, which leaves the threads and their messages alone.
LEMMA TabStep ==
    ASSUME IInv, NEW t \in Tabs, NEW c \in Tab, tab' = [tab EXCEPT ![t] = c],
           TabHolds(t)', UNCHANGED <<thread, recent, log>>,
           NEW q \in Requests, NEW new \in Request,
           request' = [request EXCEPT ![q] = new], Settled(new), References(new),
           Alone(t, q)
    PROVE  IInv'
  <1>1. LogKept
    BY Unchanged
  <1>2. request' \in [Requests -> Request] /\ RequestsHold'
    BY <1>1, SettledStays, RequestMoves
  <1>3. \A s \in Tabs \ {t} : tab[s].busy # None =>
           request'[tab[s].busy] = request[tab[s].busy]
    BY TabType DEF IInv, TypeOK, Alone
  <1>4. tab' \in [Tabs -> Tab] /\ TabsHold'
    BY <1>1, <1>3, TabMoves
  <1> QED
    BY <1>1, <1>2, <1>4, SameLog, SameThreads DEF IInv, TypeOK

-----------------------------------------------------------------------------
(* The browser *)

LEMMA SubmitStep ==
    ASSUME IInv, NEW t \in Tabs, NEW s \in Submissions, NEW text \in Texts,
           NEW q \in Requests, Submit(t, s, text, q)
    PROVE  IInv'
  <1> USE DEF IInv
  <1>1. PICK c \in Tab, new \in Request :
           /\ tab' = [tab EXCEPT ![t] = c] /\ request' = [request EXCEPT ![q] = new]
           /\ c.busy = q /\ c.session = tab[t].session /\ c.pending = tab[t].pending
           /\ c.home = tab[t].home
           /\ new.phase = "sent" /\ new.tab = t /\ new.submission = s
           /\ new.session = tab[t].session /\ new.source = 0 /\ new.cites = <<>>
    <2> DEFINE c == [tab[t] EXCEPT !.busy = q]
               new == Body(t, s, text)
    <2>1. tab' = [tab EXCEPT ![t] = c] /\ request' = [request EXCEPT ![q] = new]
      BY DEF Submit, TypeOK
    <2>2. /\ c \in Tab /\ c.busy = q /\ c.session = tab[t].session
          /\ c.pending = tab[t].pending /\ c.home = tab[t].home
      BY TabType DEF Tab
    <2>3. /\ new \in Request /\ new.phase = "sent" /\ new.tab = t
          /\ new.submission = s /\ new.session = tab[t].session /\ new.source = 0
          /\ new.cites = <<>>
      BY TabType, FreeType DEF Body, Request, Phases
    <2> HIDE DEF c, new
    <2> QED
      BY <2>1, <2>2, <2>3
  <1>2. /\ tab[t].busy = None /\ request[q].phase = "free"
        /\ UNCHANGED <<thread, recent, log>>
    BY DEF Submit
  <1>3. Settled(new) /\ References(new)
    BY <1>1 DEF Settled, References
  <1>4. Alone(t, q)
    BY <1>2, NoneFacts DEF TabsHold, TabHolds, Alone
  <1>5. TabHolds(t)'
    <2>1. TabHolds(t) /\ tab'[t] = c /\ request'[q] = new
      BY <1>1 DEF TabsHold, TypeOK
    <2> QED
      BY <1>1, <1>2, <2>1, NoneFacts DEF TabHolds
  <1> QED
    BY <1>1, <1>2, <1>3, <1>4, <1>5, TabStep

\* The request a tab waits for.
LEMMA Busy ==
    ASSUME IInv, NEW t \in Tabs, tab[t].busy # None
    PROVE  /\ tab[t].busy \in Requests /\ request[tab[t].busy].tab = t
           /\ Alone(t, tab[t].busy)
  BY TabType, NoneFacts DEF IInv, TabsHold, TabHolds, Alone

LEMMA ReceiveStep ==
    ASSUME IInv, NEW t \in Tabs, ReceiveThreadState(t)
    PROVE  IInv'
  <1>1. PICK q \in Requests : q = tab[t].busy
    BY TabType DEF ReceiveThreadState, IInv
  <1>2. /\ q # None /\ Emitted(q) /\ tab[t].pending = None
        /\ UNCHANGED <<thread, recent, log, request>>
    BY <1>1 DEF ReceiveThreadState
  <1>3. request[q].source # 0 /\ Settled(request[q]) /\ References(request[q])
    BY <1>2 DEF IInv, RequestsHold, Settled, Emitted
  <1>4. PICK h \in Threads : h = ThreadOf(q)
    <2>1. request[q].source \in 1..Len(log)
      BY <1>3 DEF Settled, Sources
    <2>2. log[request[q].source] \in Message
      BY <2>1 DEF IInv, TypeOK
    <2> QED
      BY <2>2 DEF ThreadOf, Message
  <1>5. tab[t].home = None \/ tab[t].home = h
    BY <1>1, <1>2, <1>3, <1>4 DEF IInv, TabsHold, TabHolds, Settled, ThreadOf
  <1> DEFINE c == [tab[t] EXCEPT !.pending = h,
                                 !.home = IF tab[t].home = None THEN h ELSE tab[t].home]
  <1>6. tab' = [tab EXCEPT ![t] = c]
    BY <1>1, <1>4 DEF ReceiveThreadState, IInv, TypeOK
  <1>7. /\ c \in Tab /\ c.pending = h /\ c.home = h /\ c.busy = q
        /\ c.session = tab[t].session
    BY <1>1, <1>5, TabType DEF IInv, Tab
  <1> HIDE DEF c
  <1>8. TabHolds(t)'
    <2>1. TabHolds(t) /\ tab'[t] = c /\ ThreadOf(q)' = ThreadOf(q)
      BY <1>2, <1>6 DEF IInv, TabsHold, TypeOK, ThreadOf
    <2> QED
      BY <1>1, <1>2, <1>3, <1>4, <1>7, <2>1, NoneFacts DEF TabHolds
  <1>9. request' = [request EXCEPT ![q] = request[q]]
    BY <1>2 DEF IInv, TypeOK
  <1>10. PICK r \in Request : r = request[q] /\ Settled(r) /\ References(r)
    BY <1>3, RequestType DEF IInv
  <1>11. request' = [request EXCEPT ![q] = r]
    BY <1>9, <1>10
  <1>12. Alone(t, q)
    BY <1>1, <1>2, Busy
  <1> QED
    BY <1>2, <1>6, <1>7, <1>8, <1>10, <1>11, <1>12, TabStep

\* A stream ends for its tab, and its request ends or goes on alone.
LEMMA EndStep ==
    ASSUME IInv, NEW t \in Tabs, NEW q \in Requests, q = tab[t].busy,
           tab' = [tab EXCEPT ![t] = Applied(@)],
           request' = [request EXCEPT ![q] = FreeRequest] \/ request' = Detached(q),
           UNCHANGED <<thread, recent, log>>
    PROVE  IInv'
  <1>1. PICK new \in Request : /\ request' = [request EXCEPT ![q] = new]
                               /\ Settled(new) /\ References(new)
    <2>0. PICK r \in Request : r = request[q]
      BY RequestType DEF IInv
    <2> DEFINE alone == [r EXCEPT !.tab = None, !.streaming = FALSE]
    <2>1. \/ request' = [request EXCEPT ![q] = FreeRequest]
          \/ request' = [request EXCEPT ![q] = alone]
      BY <2>0 DEF Detached
    <2>2. Settled(FreeRequest) /\ References(FreeRequest)
      BY FreeType DEF Settled, References
    <2>3. Settled(r) /\ References(r)
      BY <2>0 DEF IInv, RequestsHold
    <2>4. /\ alone \in Request /\ alone.phase = r.phase
          /\ alone.submission = r.submission
          /\ alone.session = r.session /\ alone.source = r.source
          /\ alone.cites = r.cites /\ alone.told = r.told
      BY DEF Request
    <2> HIDE DEF alone
    <2>5. Settled(alone)
      BY <2>3, <2>4 DEF Settled
    <2>6. References(alone)
      BY <2>3, <2>4 DEF References
    <2> QED
      BY <2>1, <2>2, <2>4, <2>5, <2>6, FreeType
  <1>2. PICK c \in Tab :
           /\ tab' = [tab EXCEPT ![t] = c] /\ c.busy = None /\ c.pending = None
           /\ c.home = tab[t].home
           /\ c.session = IF tab[t].pending = None THEN tab[t].session
                          ELSE tab[t].pending
    <2> DEFINE c == Applied(tab[t])
    <2>1. tab' = [tab EXCEPT ![t] = c]
      BY DEF IInv, TypeOK
    <2>2. /\ c \in Tab /\ c.busy = None /\ c.pending = None /\ c.home = tab[t].home
          /\ c.session = IF tab[t].pending = None THEN tab[t].session
                         ELSE tab[t].pending
      BY TabType DEF IInv, Applied, Tab
    <2> HIDE DEF c
    <2> QED
      BY <2>1, <2>2
  <1>3. TabHolds(t)'
    <2>1. TabHolds(t) /\ tab'[t] = c
      BY <1>2 DEF IInv, TabsHold, TypeOK
    <2> QED
      BY <1>2, <2>1 DEF TabHolds
  <1>4. Alone(t, q)
    BY Busy, NoneFacts
  <1> QED
    BY <1>1, <1>2, <1>3, <1>4, TabStep

LEMMA EndSteps ==
    ASSUME IInv, NEW t \in Tabs, Finish(t) \/ Fails(t) \/ Cut(t)
    PROVE  IInv'
  <1>1. PICK q \in Requests : q = tab[t].busy
    BY TabType DEF Finish, Fails, Cut, IInv
  <1>2. /\ tab' = [tab EXCEPT ![t] = Applied(@)]
        /\ request' = [request EXCEPT ![q] = FreeRequest] \/ request' = Detached(q)
        /\ UNCHANGED <<thread, recent, log>>
    BY <1>1 DEF Finish, Fails, Cut, AfterError
  <1> QED
    BY <1>1, <1>2, EndStep

LEMMA OpenSteps ==
    ASSUME IInv, NEW t \in Tabs, NewThread(t) \/ \E h \in Threads : OpenThread(t, h)
    PROVE  IInv'
  <1> USE DEF IInv
  <1>1. PICK c \in Tab : /\ tab' = [tab EXCEPT ![t] = c]
                         /\ c.busy = None /\ c.pending = None /\ c.home = c.session
    <2>1. CASE NewThread(t)
      BY <2>1, FreeType DEF NewThread
    <2>2. ASSUME NEW h \in Threads, OpenThread(t, h)
          PROVE  \E c \in Tab : /\ tab' = [tab EXCEPT ![t] = c]
                                /\ c.busy = None /\ c.pending = None
                                /\ c.home = c.session
      <3> DEFINE c == [Blank EXCEPT !.session = h, !.home = h]
      <3>1. c \in Tab /\ c.busy = None /\ c.pending = None /\ c.home = c.session
        BY DEF Blank, Tab
      <3>2. tab' = [tab EXCEPT ![t] = c]
        BY <2>2 DEF OpenThread
      <3> HIDE DEF c
      <3> QED
        BY <3>1, <3>2
    <2> QED
      BY <2>1, <2>2
  <1>2. UNCHANGED <<thread, recent, log, request>>
    BY DEF NewThread, OpenThread
  <1>3. TabHolds(t)'
    BY <1>1 DEF TabHolds, TypeOK
  <1>4. LogKept
    BY <1>2, Unchanged
  <1>5. tab' \in [Tabs -> Tab] /\ TabsHold'
    BY <1>1, <1>2, <1>3, <1>4, TabMoves
  <1> QED
    BY <1>2, <1>4, <1>5, RequestsStay, SameLog, SameThreads DEF TypeOK

LEMMA RepeatStep ==
    ASSUME IInv, NEW s \in Submissions, NEW text \in Texts,
           NEW h \in Threads \cup {None}, NEW fresh \in BOOLEAN, NEW q \in Requests,
           Repeat(s, text, h, fresh, q)
    PROVE  IInv'
  <1> USE DEF IInv
  <1> DEFINE new == [FreeRequest EXCEPT !.phase = "sent", !.submission = s,
                        !.text = text, !.session = h, !.fresh = fresh]
  <1>1. /\ request' = [request EXCEPT ![q] = new] /\ request[q].phase = "free"
        /\ UNCHANGED <<tab, thread, recent, log>>
    BY DEF Repeat
  <1>2. /\ new \in Request /\ new.phase = "sent" /\ new.submission = s
        /\ new.source = 0 /\ new.cites = <<>>
    BY FreeType DEF Request, Phases
  <1> HIDE DEF new
  <1>3. Settled(new) /\ References(new)
    BY <1>2 DEF Settled, References
  <1>4. LogKept /\ Settled(new)'
    BY <1>1, <1>3, Unchanged, SettledStays
  <1> QED
    BY <1>1, <1>2, <1>3, <1>4, SameLog, SameThreads, RequestStep DEF TypeOK

-----------------------------------------------------------------------------
(* The API *)

\* A request changes phase: it keeps its turn, and loses what its tools returned;
\* one that ends without a tab is forgotten.
LEMMA Answered ==
    ASSUME TypeOK, NEW q \in Requests, NEW phase \in Phases \ {"free"}, Answer(q, phase)
    PROVE  \E new \in Request :
              /\ request' = [request EXCEPT ![q] = new]
              /\ \/ request[q].tab = None /\ new = FreeRequest
                 \/ /\ new.phase = phase /\ new.tab = request[q].tab
                    /\ new.submission = request[q].submission
                    /\ new.session = request[q].session
                    /\ new.source = request[q].source /\ new.cites = <<>>
  <1> DEFINE new == [request[q] EXCEPT !.phase = phase, !.cites = <<>>,
                                       !.told = FreeRequest.told]
  <1>1. \/ request' = [request EXCEPT ![q] = new]
        \/ request[q].tab = None /\ request' = [request EXCEPT ![q] = FreeRequest]
    BY DEF Answer
  <1>2. <<>> \in Seq(Memories)
    OBVIOUS
  <1>3. /\ new \in Request /\ new.phase = phase /\ new.tab = request[q].tab
        /\ new.submission = request[q].submission
        /\ new.session = request[q].session
        /\ new.source = request[q].source /\ new.cites = <<>>
    BY <1>2, RequestType, FreeType DEF Request
  <1> HIDE DEF new
  <1> QED
    BY <1>1, <1>3, FreeType

\* What that means for the turn.
LEMMA AnsweredFields ==
    ASSUME IInv, NEW q \in Requests, NEW phase \in Phases \ {"free", "sent"}, NEW new,
           phase # "failed" => request[q].source # 0,
           \/ request[q].tab = None /\ new = FreeRequest
           \/ /\ new.phase = phase /\ new.tab = request[q].tab
              /\ new.submission = request[q].submission
              /\ new.session = request[q].session
              /\ new.source = request[q].source /\ new.cites = <<>>
    PROVE  /\ Settled(new) /\ References(new)
           /\ request[q].tab # None /\ request[q].phase # "free" =>
                 /\ new.tab = request[q].tab /\ new.phase # "free"
                 /\ new.session = request[q].session
                 /\ request[q].source # 0 => new.source = request[q].source
  <1>1. Settled(request[q])
    BY DEF IInv, RequestsHold
  <1> QED
    BY <1>1, FreeType DEF Settled, References

\* A change of phase that writes no message.
LEMMA PhaseStep ==
    ASSUME IInv, NEW q \in Requests, NEW phase \in Phases \ {"free", "sent"},
           Answer(q, phase), phase # "failed" => request[q].source # 0,
           UNCHANGED <<tab, log>>, thread' \in [Threads -> Thread],
           recent' \in Threads \cup {None}, NoEmptyThread', OwnersTitleStays'
    PROVE  IInv'
  <1>1. PICK new \in Request :
           /\ request' = [request EXCEPT ![q] = new]
           /\ \/ request[q].tab = None /\ new = FreeRequest
              \/ /\ new.phase = phase /\ new.tab = request[q].tab
                 /\ new.submission = request[q].submission
                 /\ new.session = request[q].session
                 /\ new.source = request[q].source /\ new.cites = <<>>
    BY Answered DEF IInv
  <1>2. /\ Settled(new) /\ References(new)
        /\ request[q].tab # None /\ request[q].phase # "free" =>
              /\ new.tab = request[q].tab /\ new.phase # "free"
              /\ new.session = request[q].session
              /\ request[q].source # 0 => new.source = request[q].source
    BY <1>1, AnsweredFields
  <1>3. LogKept /\ Settled(new)' /\ log' \in Seq(Message)
    BY <1>2, Unchanged, SettledStays DEF IInv, TypeOK
  <1>4. RowsHold' /\ SubmissionStoredOnce'
    BY SameLog
  <1> QED
    BY <1>1, <1>2, <1>3, <1>4, RequestStep

\* The turn a request works on.
LEMMA TurnOf ==
    ASSUME IInv, NEW q \in Requests, request[q].source # 0
    PROVE  /\ request[q].source \in 1..Len(log)
           /\ log[request[q].source].role = "user"
           /\ ThreadOf(q) \in Threads
  <1>1. /\ request[q].source \in 1..Len(log)
        /\ log[request[q].source].role = "user"
    BY DEF IInv, RequestsHold, Settled, Sources
  <1>2. log[request[q].source] \in Message
    BY <1>1 DEF IInv, TypeOK
  <1> QED
    BY <1>1, <1>2 DEF ThreadOf, Message

LEMMA PhaseSteps ==
    ASSUME IInv, NEW q \in Requests, BeginAnswer(q) \/ AnswerFails(q)
    PROVE  IInv'
  <1>1. /\ UNCHANGED <<tab, thread, recent, log>>
        /\ thread' \in [Threads -> Thread] /\ recent' \in Threads \cup {None}
        /\ NoEmptyThread' /\ OwnersTitleStays'
    BY Unchanged, SameThreads DEF BeginAnswer, AnswerFails, IInv, TypeOK
  <1>2. \E phase \in {"generating", "failed"} :
           Answer(q, phase) /\ (phase # "failed" => request[q].source # 0)
    BY DEF BeginAnswer, AnswerFails, IInv, RequestsHold, Settled
  <1> QED
    BY <1>1, <1>2, PhaseStep DEF Phases

\* A repeated turn: the row it was stored in is the owner's message.
LEMMA StoredRows ==
    ASSUME IInv, NEW s \in Submissions, NEW i \in Stored(s)
    PROVE  i \in Sources
  <1>1. i \in 1..Len(log) /\ log[i].submission = s /\ log[i] \in Message
    BY DEF Stored, IInv, TypeOK
  <1>2. log[i].role # "assistant"
    BY <1>1, NoneFacts DEF IInv, RowsHold, Row
  <1> QED
    BY <1>1, <1>2 DEF Message, Sources

LEMMA AcceptStep ==
    ASSUME IInv, NEW q \in Requests, AcceptTurn(q)
    PROVE  IInv'
  <1>1. PICK r \in Request, s \in Submissions :
           r = request[q] /\ r.submission = s /\ r.phase = "sent" /\ Settled(r)
             /\ r.session \in Threads \cup {None} /\ References(r)
    BY RequestType DEF AcceptTurn, IInv, RequestsHold, Settled
  <1>2. UNCHANGED tab /\ thread' = Opened(r)
    BY <1>1 DEF AcceptTurn
  <1>3. CASE AlreadyAccepted(r) # {}
    <2>1. PICK i \in Stored(s) :
             /\ IF SameTurn(r, i)
                THEN request' = [request EXCEPT ![q].phase = "accepted",
                                                ![q].source = i]
                ELSE Answer(q, "failed")
             /\ UNCHANGED <<recent, log>>
      BY <1>1, <1>3 DEF AcceptTurn, AlreadyAccepted
    <2>2. UNCHANGED thread /\ i \in Sources
      BY <1>2, <1>3, StoredRows DEF Opened
    <2>3. /\ thread' \in [Threads -> Thread] /\ recent' \in Threads \cup {None}
          /\ log' \in Seq(Message) /\ LogKept
          /\ NoEmptyThread' /\ OwnersTitleStays' /\ RowsHold' /\ SubmissionStoredOnce'
      BY <2>1, <2>2, Unchanged, SameThreads, SameLog DEF IInv, TypeOK
    <2>4. CASE ~ SameTurn(r, i)
      BY <1>2, <2>1, <2>3, <2>4, PhaseStep DEF Phases
    <2>5. CASE SameTurn(r, i)
      <3> DEFINE new == [r EXCEPT !.phase = "accepted", !.source = i]
      <3>1. request' = [request EXCEPT ![q] = new]
        BY <1>1, <2>1, <2>5 DEF IInv, TypeOK
      <3>2. i \in Nat
        BY <2>2 DEF Sources
      <3>3. /\ new \in Request /\ new.phase = "accepted" /\ new.source = i
            /\ new.session = r.session /\ new.tab = r.tab
            /\ new.cites = r.cites /\ new.told = r.told
        BY <3>2 DEF Request, Phases
      <3> HIDE DEF new
      <3>4. Settled(new) /\ References(new)
        <4>1. Settled(new)
          BY <1>1, <2>2, <2>5, <3>2, <3>3 DEF Settled, SameTurn, Sources
        <4>2. References(new)
          BY <1>1, <3>3 DEF References
        <4> QED
          BY <4>1, <4>2
      <3>5. Settled(new)'
        BY <2>3, <3>4, SettledStays
      <3>6. request[q].source = 0
        BY <1>1 DEF Settled
      <3> QED
        BY <1>1, <1>2, <2>3, <3>1, <3>3, <3>4, <3>5, <3>6, RequestStep
    <2> QED
      BY <2>4, <2>5
  <1>4. CASE AlreadyAccepted(r) = {}
    <2> DEFINE h == Chosen(r)
               x == [role |-> "user", thread |-> h, text |-> r.text,
                     submission |-> s, source |-> 0]
               new == [r EXCEPT !.phase = "accepted", !.source = Len(log) + 1]
    <2>1. /\ h # MaxThreads + 1 /\ log' = Append(log, x)
          /\ recent' = IF h \in Existing THEN recent ELSE h
          /\ request' = [request EXCEPT ![q] = new]
          /\ thread' = [thread EXCEPT ![h].exists = TRUE]
      BY <1>1, <1>2, <1>4 DEF AcceptTurn, Opened, IInv, TypeOK
    <2>2. h \in Threads
      BY <1>1, <2>1, NextThreadType, NoneFacts DEF Chosen, Threads, IInv, TypeOK
    <2>3. r.session # None => h = r.session
      BY DEF Chosen
    <2> HIDE DEF h
    <2>4. x \in Message /\ x.role = "user" /\ x.thread = h /\ x.submission = s
      BY <2>2, RequestType, <1>1 DEF Message, Request
    <2> HIDE DEF x
    <2>5. /\ LogKept /\ log' \in Seq(Message) /\ Len(log) \in Nat
          /\ Len(log') = Len(log) + 1 /\ log'[Len(log) + 1] = x
      BY <2>1, <2>4, Added DEF IInv
    <2>6. /\ new \in Request /\ new.phase = "accepted" /\ new.source = Len(log) + 1
          /\ new.session = r.session /\ new.tab = r.tab
          /\ new.cites = r.cites /\ new.told = r.told
      <3>1. PICK n \in Nat : n = Len(log) + 1
        BY <2>5
      <3>2. new = [r EXCEPT !.phase = "accepted", !.source = n]
        BY <3>1
      <3> HIDE DEF new
      <3> QED
        BY <3>1, <3>2 DEF Request, Phases
    <2>7. request[q].source = 0
      BY <1>1 DEF Settled
    <2> HIDE DEF new
    <2>8. PICK n \in Nat, m \in Request :
             n = Len(log) + 1 /\ m = new
      BY <2>5, <2>6
    <2>9. References(m)
      BY <1>1, <2>6, <2>8 DEF References
    <2>10. Settled(m)'
      BY <2>3, <2>4, <2>5, <2>6, <2>8 DEF Settled, Sources
    <2>11. RowsHold'
      <3> SUFFICES ASSUME NEW i \in 1..Len(log') PROVE Row(i)'
        BY DEF RowsHold
      <3>1. CASE i \in 1..Len(log)
        BY <2>5, <3>1, RowStays DEF IInv, RowsHold
      <3>2. CASE i = Len(log) + 1
        BY <2>4, <2>5, <3>2 DEF Row
      <3> QED
        BY <2>5, <3>1, <3>2
    <2>12. SubmissionStoredOnce'
      <3>1. \A i \in 1..Len(log) : log[i].submission # s
        BY <1>1, <1>4 DEF AlreadyAccepted, Stored
      <3>2. \A i \in Sources' : i = Len(log) + 1 \/ (i \in Sources /\ log'[i] = log[i])
        BY <2>5 DEF Sources, LogKept
      <3> QED
        BY <2>4, <2>5, <3>1, <3>2 DEF SubmissionStoredOnce, IInv, Sources
    <2>13. thread' \in [Threads -> Thread] /\ recent' \in Threads \cup {None}
      <3>1. thread[h] \in Thread
        BY <2>2 DEF IInv, TypeOK
      <3>2. [thread[h] EXCEPT !.exists = TRUE] \in Thread
        BY <3>1 DEF Thread
      <3>3. thread' = [thread EXCEPT ![h] = [thread[h] EXCEPT !.exists = TRUE]]
        BY <2>1
      <3> QED
        BY <2>1, <2>2, <3>2, <3>3 DEF IInv, TypeOK
    <2>14. \A g \in Threads :
              /\ thread'[g].bare = thread[g].bare /\ thread'[g].locked = thread[g].locked
              /\ thread'[g].title = thread[g].title
              /\ g # h => thread'[g].exists = thread[g].exists
      BY <2>1, <2>2 DEF IInv, TypeOK, Thread
    <2>15. OwnersTitleStays'
      BY <2>14 DEF IInv, OwnersTitleStays
    <2>16. NoEmptyThread'
      <3>1. Len(log) + 1 \in Sources' /\ log'[Len(log) + 1].thread = h
        BY <2>4, <2>5 DEF Sources
      <3>2. \A i \in Sources : i \in Sources' /\ log'[i] = log[i]
        BY <2>5 DEF Sources, LogKept
      <3> QED
        BY <2>14, <3>1, <3>2 DEF IInv, NoEmptyThread, Existing
    <2> QED
      BY <1>1, <1>2, <2>1, <2>5, <2>6, <2>7, <2>8, <2>9, <2>10, <2>11, <2>12, <2>13,
         <2>15, <2>16, RequestStep
  <1> QED
    BY <1>3, <1>4

\* A memory gets the next reference, and the others keep theirs.
LEMMA MemoryStep ==
    ASSUME IInv, NEW q \in Requests, NEW m \in Memories, RequestMemory(q, m)
    PROVE  IInv'
  <1>1. PICK r \in Request :
           /\ r = request[q] /\ Settled(r) /\ References(r)
           /\ r.cites \in Seq(Memories) /\ r.told \in [Memories -> Nat]
    BY RequestType DEF IInv, RequestsHold
  <1> DEFINE new == [r EXCEPT !.cites = Append(r.cites, m),
                              !.told = [r.told EXCEPT ![m] = Len(r.cites) + 1]]
  <1>2. /\ request' = [request EXCEPT ![q] = new] /\ r.phase = "generating"
        /\ UNCHANGED <<tab, thread, recent, log>>
    BY <1>1 DEF RequestMemory, Ref, IInv, TypeOK
  <1>3. /\ Append(r.cites, m) \in Seq(Memories)
        /\ Len(Append(r.cites, m)) = Len(r.cites) + 1 /\ Len(r.cites) \in Nat
        /\ \A i \in 1..Len(r.cites) : Append(r.cites, m)[i] = r.cites[i]
        /\ Append(r.cites, m)[Len(r.cites) + 1] = m
        /\ [r.told EXCEPT ![m] = Len(r.cites) + 1] \in [Memories -> Nat]
    BY <1>1
  <1>4. /\ new \in Request /\ new.phase = r.phase /\ new.tab = r.tab
        /\ new.submission = r.submission /\ new.session = r.session
        /\ new.source = r.source /\ new.cites = Append(r.cites, m)
        /\ new.told = [r.told EXCEPT ![m] = Len(r.cites) + 1]
    BY <1>3 DEF Request
  <1> HIDE DEF new
  <1>5. Settled(new)
    BY <1>1, <1>4 DEF Settled
  <1>6. References(new)
    <2> SUFFICES ASSUME NEW a \in Memories,
                        NEW i \in 1..Len(new.cites), a = new.cites[i]
                 PROVE  /\ new.told[a] \in 1..Len(new.cites)
                        /\ new.cites[new.told[a]] = a
      BY DEF References
    <2>0. Len(new.cites) = Len(r.cites) + 1
      BY <1>3, <1>4
    <2>1. CASE a = m
      <3>1. new.told[a] = Len(r.cites) + 1
        BY <1>1, <1>4, <2>1
      <3>2. new.cites[Len(r.cites) + 1] = a
        BY <1>3, <1>4, <2>1
      <3> QED
        BY <1>3, <2>0, <3>1, <3>2
    <2>2. CASE a # m
      <3>1. i \in 1..Len(r.cites) /\ r.cites[i] = a
        BY <1>3, <1>4, <2>2
      <3>2. r.told[a] \in 1..Len(r.cites) /\ r.cites[r.told[a]] = a
        BY <1>1, <3>1 DEF References
      <3>3. new.told[a] = r.told[a]
        BY <1>1, <1>4, <2>2
      <3> QED
        BY <1>3, <1>4, <3>2, <3>3
    <2> QED
      BY <2>1, <2>2
  <1>7. LogKept /\ Settled(new)' /\ log' \in Seq(Message)
    BY <1>2, <1>5, Unchanged, SettledStays DEF IInv, TypeOK
  <1>8. /\ NoEmptyThread' /\ OwnersTitleStays' /\ RowsHold' /\ SubmissionStoredOnce'
        /\ thread' \in [Threads -> Thread] /\ recent' \in Threads \cup {None}
    BY <1>2, <1>7, SameLog, SameThreads DEF IInv, TypeOK
  <1> QED
    BY <1>1, <1>2, <1>4, <1>6, <1>7, <1>8, RequestStep

LEMMA PersistStep ==
    ASSUME IInv, NEW q \in Requests, PersistAnswer(q)
    PROVE  IInv'
  <1>1. /\ log' = Append(log, Reply(q)) /\ recent' = ThreadOf(q)
        /\ Answer(q, "answered") /\ UNCHANGED <<tab, thread>>
        /\ request[q].phase = "generating"
    BY DEF PersistAnswer
  <1>2. request[q].source # 0
    BY <1>1 DEF IInv, RequestsHold, Settled
  <1>3. /\ Reply(q) \in Message /\ Reply(q).role = "assistant"
        /\ Reply(q).submission = None /\ Reply(q).source = request[q].source
        /\ Reply(q).thread = ThreadOf(q)
    BY <1>2, TurnOf, RequestType DEF Reply, Message, IInv
  <1>4. PICK x \in Message : x = Reply(q)
    BY <1>3
  <1>5. /\ LogKept /\ log' \in Seq(Message) /\ Len(log) \in Nat
        /\ Len(log') = Len(log) + 1 /\ log'[Len(log) + 1] = x
    BY <1>1, <1>4, Added DEF IInv
  <1>6. PICK new \in Request :
           /\ request' = [request EXCEPT ![q] = new]
           /\ \/ request[q].tab = None /\ new = FreeRequest
              \/ /\ new.phase = "answered" /\ new.tab = request[q].tab
                 /\ new.submission = request[q].submission
                 /\ new.session = request[q].session
                 /\ new.source = request[q].source /\ new.cites = <<>>
    BY <1>1, Answered DEF IInv, Phases
  <1>7. /\ Settled(new) /\ References(new)
        /\ request[q].tab # None /\ request[q].phase # "free" =>
              /\ new.tab = request[q].tab /\ new.phase # "free"
              /\ new.session = request[q].session
              /\ request[q].source # 0 => new.source = request[q].source
    BY <1>2, <1>6, AnsweredFields DEF Phases
  <1>8. Settled(new)'
    BY <1>5, <1>7, SettledStays
  <1>9. RowsHold'
    <2> SUFFICES ASSUME NEW i \in 1..Len(log') PROVE Row(i)'
      BY DEF RowsHold
    <2>1. CASE i \in 1..Len(log)
      BY <1>5, <2>1, RowStays DEF IInv, RowsHold
    <2>2. CASE i = Len(log) + 1
      <3>1. /\ request[q].source \in 1..Len(log) /\ request[q].source < i
            /\ request[q].source \in Sources'
            /\ log'[request[q].source] = log[request[q].source]
        BY <1>2, <1>5, <2>2, TurnOf DEF Sources, LogKept
      <3> QED
        BY <1>3, <1>4, <1>5, <2>2, <3>1 DEF Row, ThreadOf
    <2> QED
      BY <1>5, <2>1, <2>2
  <1>10. SubmissionStoredOnce'
    <2>1. \A i \in Sources' : i \in Sources /\ log'[i] = log[i]
      BY <1>3, <1>4, <1>5 DEF Sources, LogKept
    <2> QED
      BY <2>1 DEF SubmissionStoredOnce, IInv
  <1>11. /\ NoEmptyThread' /\ OwnersTitleStays'
         /\ thread' \in [Threads -> Thread] /\ recent' \in Threads \cup {None}
    BY <1>1, <1>2, <1>5, SameThreads, TurnOf DEF IInv, TypeOK
  <1> QED
    BY <1>1, <1>5, <1>6, <1>7, <1>8, <1>9, <1>10, <1>11, RequestStep

-----------------------------------------------------------------------------
(* Titles *)

\* A thread gets a title that is the owner's or, while it is not locked, one of
\* the model's.
LEMMA Titled ==
    ASSUME IInv, UNCHANGED log, NEW h \in Threads,
           \/ /\ ~ thread[h].locked
              /\ thread' = [thread EXCEPT ![h].title = "automatic"]
           \/ thread' = [thread EXCEPT ![h].title = "owner", ![h].locked = TRUE]
    PROVE  /\ thread' \in [Threads -> Thread]
           /\ NoEmptyThread' /\ OwnersTitleStays'
  <1>1. thread[h] \in Thread
    BY DEF IInv, TypeOK
  <1>2. PICK new \in Thread :
           /\ thread' = [thread EXCEPT ![h] = new]
           /\ new.exists = thread[h].exists /\ new.bare = thread[h].bare
           /\ new.locked => new.title = "owner"
    <2> DEFINE a == [thread[h] EXCEPT !.title = "automatic"]
               b == [thread[h] EXCEPT !.title = "owner", !.locked = TRUE]
    <2>1. \/ ~ thread[h].locked /\ thread' = [thread EXCEPT ![h] = a]
          \/ thread' = [thread EXCEPT ![h] = b]
      BY DEF IInv, TypeOK
    <2>2. /\ a \in Thread /\ a.exists = thread[h].exists /\ a.bare = thread[h].bare
          /\ a.locked = thread[h].locked
      BY <1>1 DEF Thread, Titles
    <2>3. /\ b \in Thread /\ b.exists = thread[h].exists /\ b.bare = thread[h].bare
          /\ b.title = "owner"
      BY <1>1 DEF Thread, Titles
    <2> HIDE DEF a, b
    <2> QED
      BY <2>1, <2>2, <2>3
  <1>3. thread' \in [Threads -> Thread]
    BY <1>2 DEF IInv, TypeOK
  <1>4. \A g \in Threads :
           /\ thread'[g].exists = thread[g].exists /\ thread'[g].bare = thread[g].bare
           /\ thread'[g] = thread[g] \/ (thread'[g].locked => thread'[g].title = "owner")
    BY <1>2 DEF IInv, TypeOK
  <1>5. OwnersTitleStays'
    BY <1>4 DEF IInv, OwnersTitleStays
  <1>6. NoEmptyThread'
    BY <1>4 DEF IInv, NoEmptyThread, Existing, Sources
  <1> QED
    BY <1>3, <1>5, <1>6

LEMMA ReadTitleStep ==
    ASSUME IInv, NEW q \in Requests, ReadTitle(q)
    PROVE  IInv'
  <1>1. /\ UNCHANGED <<tab, thread, recent, log>> /\ request[q].phase = "answered"
        /\ \/ Answer(q, "finished")
           \/ request' = [request EXCEPT ![q].phase = "titling"]
    BY DEF ReadTitle
  <1>2. /\ thread' \in [Threads -> Thread] /\ recent' \in Threads \cup {None}
        /\ NoEmptyThread' /\ OwnersTitleStays' /\ RowsHold' /\ SubmissionStoredOnce'
        /\ LogKept /\ log' \in Seq(Message)
    BY <1>1, Unchanged, SameThreads, SameLog DEF IInv, TypeOK
  <1>3. request[q].source # 0
    BY <1>1 DEF IInv, RequestsHold, Settled
  <1>4. CASE Answer(q, "finished")
    BY <1>1, <1>2, <1>3, <1>4, PhaseStep DEF Phases
  <1>5. CASE request' = [request EXCEPT ![q].phase = "titling"]
    <2>1. PICK r \in Request : r = request[q] /\ Settled(r) /\ References(r)
      BY RequestType DEF IInv, RequestsHold
    <2> DEFINE new == [r EXCEPT !.phase = "titling"]
    <2>2. request' = [request EXCEPT ![q] = new]
      BY <1>5, <2>1 DEF IInv, TypeOK
    <2>3. /\ new \in Request /\ new.phase = "titling" /\ new.source = r.source
          /\ new.session = r.session /\ new.tab = r.tab
          /\ new.cites = r.cites /\ new.told = r.told
      BY DEF Request, Phases
    <2> HIDE DEF new
    <2>4. Settled(new) /\ References(new)
      BY <1>3, <2>1, <2>3 DEF Settled, References
    <2>5. Settled(new)'
      BY <1>2, <2>4, SettledStays
    <2> QED
      BY <1>1, <1>2, <2>1, <2>2, <2>3, <2>4, <2>5, RequestStep
  <1> QED
    BY <1>1, <1>4, <1>5

LEMMA WriteTitleStep ==
    ASSUME IInv, NEW q \in Requests, WriteTitle(q)
    PROVE  IInv'
  <1>1. request[q].source # 0
    BY DEF WriteTitle, IInv, RequestsHold, Settled
  <1>2. PICK h \in Threads : h = ThreadOf(q)
    BY <1>1, TurnOf
  <1>3. /\ Answer(q, "finished") /\ UNCHANGED <<tab, log>>
        /\ \/ /\ ~ thread[h].locked
              /\ thread' = [thread EXCEPT ![h].title = "automatic"]
              /\ recent' = h
           \/ UNCHANGED <<thread, recent>>
    BY <1>2 DEF WriteTitle, MayTitle
  <1>4. /\ thread' \in [Threads -> Thread] /\ recent' \in Threads \cup {None}
        /\ NoEmptyThread' /\ OwnersTitleStays'
    <2>1. CASE UNCHANGED <<thread, recent>>
      BY <1>3, <2>1, Unchanged, SameThreads DEF IInv, TypeOK
    <2>2. CASE ~ UNCHANGED <<thread, recent>>
      BY <1>3, <2>2, Titled
    <2> QED
      BY <2>1, <2>2
  <1> QED
    BY <1>1, <1>3, <1>4, PhaseStep DEF Phases

\* Nothing changes but the threads and which is recent.
LEMMA ThreadStep ==
    ASSUME IInv, UNCHANGED <<tab, log, request>>,
           thread' \in [Threads -> Thread], recent' \in Threads \cup {None},
           NoEmptyThread', OwnersTitleStays'
    PROVE  IInv'
  <1>1. LogKept /\ RowsHold' /\ SubmissionStoredOnce'
    BY Unchanged, SameLog
  <1>2. RequestsHold'
    BY <1>1, RequestsStay
  <1>3. TabsHold'
    BY DEF IInv, TabsHold, TabHolds, ThreadOf
  <1> QED
    BY <1>1, <1>2, <1>3 DEF IInv, TypeOK

LEMMA RenameStep ==
    ASSUME IInv, NEW h \in Threads, RenameThread(h)
    PROVE  IInv'
  BY Titled, ThreadStep DEF RenameThread

LEMMA StartStep ==
    ASSUME IInv, StartThread
    PROVE  IInv'
  <1>1. PICK h \in Threads :
           /\ thread' = [thread EXCEPT ![h].exists = TRUE, ![h].bare = TRUE]
           /\ recent' = h /\ UNCHANGED <<tab, log, request>>
    BY DEF StartThread
  <1>2. /\ thread' \in [Threads -> Thread]
        /\ \A g \in Threads :
              /\ thread'[g].locked = thread[g].locked
              /\ thread'[g].title = thread[g].title
              /\ thread'[g].exists => thread'[g].bare \/ thread'[g] = thread[g]
    BY <1>1 DEF IInv, TypeOK, Thread
  <1>3. OwnersTitleStays'
    BY <1>2 DEF IInv, OwnersTitleStays
  <1>4. NoEmptyThread'
    BY <1>1, <1>2 DEF IInv, NoEmptyThread, Existing, Sources
  <1> QED
    BY <1>1, <1>2, <1>3, <1>4, ThreadStep

-----------------------------------------------------------------------------
(* Every step *)

LEMMA NextStep == IInv /\ [Next]_vars => IInv'
  <1> SUFFICES ASSUME IInv, [Next]_vars PROVE IInv'
    OBVIOUS
  <1>1. CASE UNCHANGED vars
    <2>1. UNCHANGED <<tab, thread, recent, log, request>>
      BY <1>1 DEF vars
    <2>2. /\ thread' \in [Threads -> Thread] /\ recent' \in Threads \cup {None}
          /\ NoEmptyThread' /\ OwnersTitleStays'
      BY <2>1, Unchanged, SameThreads DEF IInv, TypeOK
    <2> QED
      BY <2>1, <2>2, ThreadStep
  <1> QED
    BY <1>1, SubmitStep, ReceiveStep, EndSteps, OpenSteps, RepeatStep, AcceptStep,
       PhaseSteps, PersistStep, MemoryStep, ReadTitleStep, WriteTitleStep, RenameStep,
       StartStep DEF Next

LEMMA InitHolds == Init => IInv
  <1> SUFFICES ASSUME Init PROVE IInv
    OBVIOUS
  <1>1. log = <<>> /\ Len(log) = 0 /\ log \in Seq(Message)
    BY DEF Init
  <1>2. TypeOK
    BY <1>1, FreeType DEF Init, TypeOK, Thread, Titles
  <1>3. RequestsHold
    BY FreeType DEF Init, RequestsHold, Settled, References
  <1>4. TabsHold
    BY FreeType DEF Init, TabsHold, TabHolds
  <1>5. RowsHold /\ SubmissionStoredOnce
    BY <1>1 DEF RowsHold, SubmissionStoredOnce, Sources
  <1>6. NoEmptyThread /\ OwnersTitleStays
    BY DEF Init, NoEmptyThread, OwnersTitleStays, Existing
  <1> QED
    BY <1>2, <1>3, <1>4, <1>5, <1>6 DEF IInv

THEOREM Invariance == Spec => []IInv
  BY InitHolds, NextStep, PTL DEF Spec

\* The variables keep their types.
THEOREM TypeCorrect == Spec => []TypeOK
  BY Invariance, PTL DEF IInv

\* A submission that arrives twice is one message, an answer is stored in the
\* thread of the message it answers, and no thread stays without a message.
THEOREM TurnsStayStored == Spec => []TurnsAreStored
  <1>1. IInv => TurnsAreStored
    <2> SUFFICES ASSUME IInv PROVE TurnsAreStored
      OBVIOUS
    <2>1. \A q \in Requests : request[q].source # 0 /\ request[q].session # None =>
             ThreadOf(q) = request[q].session
      BY DEF IInv, RequestsHold, Settled, ThreadOf
    <2>2. AnswerInThreadOfSource
      BY <2>1 DEF IInv, AnswerInThreadOfSource, RowsHold, Row
    <2> QED
      BY <2>2 DEF TurnsAreStored, IInv
  <1> QED
    BY <1>1, Invariance, PTL

\* The owner's title outlives a late automatic one, the turns of a conversation on
\* the screen go to one thread, and a reference leads to the memory it was given
\* for.
THEOREM ConversationsStay == Spec => []ConversationsHold
  <1>1. IInv => ConversationsHold
    <2> SUFFICES ASSUME IInv PROVE ConversationsHold
      OBVIOUS
    <2>1. ConversationStaysTogether
      <3> SUFFICES ASSUME NEW t \in Tabs, NEW q \in Requests, q = tab[t].busy,
                          q # None, tab[t].home # None, request[q].source # 0
                   PROVE  ThreadOf(q) = tab[t].home
        BY TabType DEF ConversationStaysTogether, IInv
      <3>1. TabHolds(t) /\ Settled(request[q])
        BY DEF IInv, TabsHold, RequestsHold
      <3> QED
        BY <3>1 DEF TabHolds, Settled, ThreadOf
    <2>2. ReferencesResolve
      BY DEF IInv, RequestsHold, References, ReferencesResolve
    <2> QED
      BY <2>1, <2>2 DEF ConversationsHold, IInv
  <1> QED
    BY <1>1, Invariance, PTL
=============================================================================

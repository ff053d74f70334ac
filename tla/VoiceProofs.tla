---------------------------- MODULE VoiceProofs -----------------------------
(***************************************************************************)
(* Proofs about live voice sessions, for any number of panels, rows,        *)
(* utterances and tool calls and any daily cap: a panel holds what it       *)
(* shows, a tool call finds the utterance it is about, and what has ended   *)
(* stays ended, in whatever order events, answers and timers come.          *)
(***************************************************************************)
EXTENDS VoiceBridge, FiniteSetTheorems, TLAPS

\* A controller that has no session of the vault: its start has not been
\* answered yet, or its end has been reported.
Unminted == {"closed", "mounted", "creating", "rest"}

ControllerOK(c) ==
    /\ c \in Controller
    /\ c.row = None <=> c.at \in Unminted
    /\ c.holds # {} => c.at \in {"offering", "handshake", "active"}
    /\ c.screen = "live" => c.at = "active"
    /\ c.at = "active" => c.screen \in {"live", "error"} /\ ~ c.cancelled
    /\ c.at \in {"offering", "handshake"} => c.screen = "connecting"

\* A request knows a row once it has created it, and keeps an answer only for a
\* controller that waits for it.
RequestOK(q, c) ==
    /\ q \in Request
    /\ q.row # None <=> q.phase = "created"
    /\ q.phase \in {"created", "refused"} => c.at = "creating"
    /\ c.at = "mounted" => q.phase = "none"

PanelsOK == \A p \in Panels : ControllerOK(ctl[p]) /\ RequestOK(request[p], ctl[p])

\* Rows are used in order; there is room for every request that may still create
\* one, and those counted together were counted below the cap.
UsedRows == {r \in Rows : row[r] # "free"}
Counted == {p \in Panels : request[p].phase = "counted"}
RowsInOrder(n) ==
    /\ UsedRows = 1..n
    /\ n + Cardinality(Expected) <= MaxRows
    /\ Counted # {} => n + Cardinality(Counted) <= Cap + Cardinality(Panels) - 1
    /\ n <= Cap + Cardinality(Panels) - 1
SomeRowsInOrder == \E n \in 0..MaxRows : RowsInOrder(n)

SessionInv == SessionTypeOK /\ PanelsOK /\ RunningRowsAreHeld /\ SomeRowsInOrder

\* What becomes of an utterance: it is stored, or the browser was told that its
\* transcript was not.
Heard(i) == message[i].text # None \/ i \in failed

CallOK(k) ==
    /\ k.phase # "none" => k.row \in Rows /\ k.panel \in Panels /\ k.source = k.heard
    /\ k.phase = "waiting" => k.source \in Items
    /\ (k.phase = "sent" /\ k.capture /\ k.source # None) => k.timedOut \/ Heard(k.source)
    /\ (k.phase = "done" /\ k.capture /\ k.source # None)
          => k.found \/ k.timedOut \/ k.source \in failed
CallsOK == \A c \in Calls : CallOK(call[c])

TurnOK(t) == t.text # None /\ (t.stage = "stored" => message[t.item].text # None)
TurnsOK == \A t \in turn : TurnOK(t)

FinishedWasHeard == \A i \in Items : barrier[i] = "finished" => Heard(i)
SourceHasBarrier ==
    \A p \in Panels : latest[p].source # None => barrier[latest[p].source] # "none"

BridgeTypeOK ==
    /\ latest \in [Panels -> [speech: Items \cup {None}, source: Items \cup {None}]]
    /\ barrier \in [Items -> {"none", "open", "finished"}]
    /\ heardIn \in [Items -> Rows \cup {None}]
    /\ turn \subseteq Turn
    /\ failed \subseteq Items
    /\ message \in [Items -> Message]
    /\ call \in [Calls -> Call]

BridgeInv ==
    /\ BridgeTypeOK /\ CallsOK /\ TurnsOK
    /\ FinishedWasHeard /\ SourceHasBarrier /\ LatestSpeechIsSource

IInv == SessionInv /\ BridgeInv

-----------------------------------------------------------------------------
(* Rows *)

LEMMA ConstantFacts ==
    /\ IsFiniteSet(Panels) /\ Cardinality(Panels) \in Nat \ {0}
    /\ Cap \in Nat /\ MaxRows \in Nat /\ None \notin Rows
    /\ \A S \in SUBSET Panels : IsFiniteSet(S) /\ Cardinality(S) \in 0..Cardinality(Panels)
  <1>1. Cardinality(Panels) \in Nat \ {0}
    BY VoiceAssumption, FS_CardinalityType, FS_EmptySet
  <1>2. ASSUME NEW S \in SUBSET Panels
        PROVE  IsFiniteSet(S) /\ Cardinality(S) \in 0..Cardinality(Panels)
    <2>1. IsFiniteSet(S) /\ Cardinality(S) <= Cardinality(Panels)
      BY VoiceAssumption, FS_Subset
    <2>2. Cardinality(S) \in Nat
      BY <2>1, FS_CardinalityType
    <2> QED
      BY <2>1, <2>2, <1>1
  <1> QED
    BY <1>1, <1>2, VoiceAssumption

LEMMA CountOfRows ==
    ASSUME NEW n \in 0..MaxRows, UsedRows = 1..n
    PROVE  Used = n
  <1>1. Used = Cardinality(1..n)
    BY DEF Used, UsedRows
  <1>2. n \in Nat /\ (1 > n => n = 0)
    BY ConstantFacts
  <1>3. Cardinality(1..n) = n
    BY <1>2, FS_Interval
  <1> QED
    BY <1>1, <1>3

\* A step that uses no new row, and lets no request on towards one.
LEMMA RowsStayInOrder ==
    ASSUME SomeRowsInOrder, UsedRows' = UsedRows,
           Expected' \subseteq Expected, Counted' \subseteq Counted
    PROVE  SomeRowsInOrder'
  <1>1. PICK n \in 0..MaxRows : RowsInOrder(n)
    BY DEF SomeRowsInOrder
  <1>2. Expected \in SUBSET Panels /\ Counted \in SUBSET Panels
    BY DEF Expected, Counted
  <1>3. /\ IsFiniteSet(Expected) /\ IsFiniteSet(Counted)
        /\ Cardinality(Expected) \in Nat /\ Cardinality(Counted) \in Nat
    BY <1>2, ConstantFacts
  <1>4. /\ Cardinality(Expected') \in Nat /\ Cardinality(Counted') \in Nat
        /\ Cardinality(Expected') <= Cardinality(Expected)
        /\ Cardinality(Counted') <= Cardinality(Counted)
    BY <1>3, FS_Subset, FS_CardinalityType
  <1>5. Counted' # {} => Counted # {}
    OBVIOUS
  <1>6. /\ n + Cardinality(Expected') <= MaxRows
        /\ Counted' # {} => n + Cardinality(Counted') <= Cap + Cardinality(Panels) - 1
    BY <1>1, <1>3, <1>4, <1>5, ConstantFacts DEF RowsInOrder
  <1>7. RowsInOrder(n)'
    BY <1>1, <1>6 DEF RowsInOrder
  <1> QED
    BY <1>7 DEF SomeRowsInOrder

LEMMA SameUse ==
    ASSUME \A r \in Rows : row'[r] = "free" <=> row[r] = "free"
    PROVE  UsedRows' = UsedRows
  BY DEF UsedRows

-----------------------------------------------------------------------------
(* One panel moves *)

\* Whatever a panel, its request and the rows do, it is enough that the panel and
\* the request are sound afterwards and that no running row is forgotten.
LEMMA PanelMoves ==
    ASSUME SessionInv, NEW p \in Panels, NEW c, NEW q,
           ControllerOK(c), RequestOK(q, c),
           ctl' = [ctl EXCEPT ![p] = c], request' = [request EXCEPT ![p] = q],
           row' \in [Rows -> RowStates], lost' \in SUBSET Rows, lost \subseteq lost',
           \A r \in Rows : row'[r] \in Running =>
                row[r] \in Running \/ q.row = r \/ r \in lost',
           \A r \in Rows : (row'[r] \in Running /\ r \in {ctl[p].row, request[p].row})
                => r \in lost' \cup {c.row, q.row}
    PROVE  SessionTypeOK' /\ PanelsOK' /\ RunningRowsAreHeld'
  <1>1. /\ ctl \in [Panels -> Controller] /\ request \in [Panels -> Request]
        /\ ctl'[p] = c /\ request'[p] = q
        /\ \A o \in Panels \ {p} : ctl'[o] = ctl[o] /\ request'[o] = request[o]
    BY DEF SessionInv, SessionTypeOK
  <1>2. SessionTypeOK'
    BY <1>1 DEF SessionInv, SessionTypeOK, ControllerOK, RequestOK
  <1>3. PanelsOK'
    BY <1>1 DEF SessionInv, PanelsOK
  <1>4. ASSUME NEW r \in Rows, row'[r] \in Running
        PROVE  r \in lost' \/ \E o \in Panels : ctl'[o].row = r \/ request'[o].row = r
    <2>1. CASE row[r] \in Running
      <3>1. r \in lost \/ \E o \in Panels : ctl[o].row = r \/ request[o].row = r
        BY <2>1 DEF SessionInv, RunningRowsAreHeld
      <3>2. CASE \E o \in Panels \ {p} : ctl[o].row = r \/ request[o].row = r
        BY <3>2, <1>1
      <3> QED
        BY <3>1, <3>2, <1>1, <1>4
    <2> QED
      BY <2>1, <1>1, <1>4
  <1> QED
    BY <1>2, <1>3, <1>4 DEF RunningRowsAreHeld

LEMMA PanelStep ==
    ASSUME SessionInv, NEW p \in Panels, NEW c, NEW q,
           ControllerOK(c), RequestOK(q, c),
           ctl' = [ctl EXCEPT ![p] = c], request' = [request EXCEPT ![p] = q],
           row' \in [Rows -> RowStates], lost' \in SUBSET Rows, lost \subseteq lost',
           \A r \in Rows : row'[r] = "free" <=> row[r] = "free",
           \A r \in Rows : row'[r] \in Running => row[r] \in Running,
           \A r \in Rows : (row'[r] \in Running /\ r \in {ctl[p].row, request[p].row})
                => r \in lost' \cup {c.row, q.row},
           q.phase \in {"sent", "counted"} => q.phase = request[p].phase
    PROVE  SessionInv'
  <1>1. SessionTypeOK' /\ PanelsOK' /\ RunningRowsAreHeld'
    BY PanelMoves
  <1>2. request \in [Panels -> Request]
    BY DEF SessionInv, SessionTypeOK
  <1>3. Expected' \subseteq Expected /\ Counted' \subseteq Counted
    BY <1>2 DEF Expected, Counted
  <1> QED
    BY <1>1, <1>3, SameUse, RowsStayInOrder DEF SessionInv

\* The same, when only the controller changes and its session stays its own.
LEMMA ControllerStep ==
    ASSUME SessionInv, NEW p \in Panels, NEW c,
           ControllerOK(c), c.row = ctl[p].row,
           ctl' = [ctl EXCEPT ![p] = c], UNCHANGED <<request, row, lost>>,
           c.at = "mounted" => request[p].phase = "none",
           ctl[p].at = "creating" => c.at = "creating"
    PROVE  SessionInv'
  <1>1. /\ request = [request EXCEPT ![p] = request[p]]
        /\ row \in [Rows -> RowStates] /\ lost \in SUBSET Rows
    BY DEF SessionInv, SessionTypeOK
  <1>2. RequestOK(request[p], c)
    BY DEF SessionInv, PanelsOK, RequestOK
  <1> QED
    BY <1>1, <1>2, PanelStep

-----------------------------------------------------------------------------
(* The controller *)

LEMMA PanelFacts ==
    ASSUME SessionInv, NEW p \in Panels
    PROVE  /\ ControllerOK(ctl[p]) /\ RequestOK(request[p], ctl[p])
           /\ ctl[p] \in Controller /\ request[p] \in Request
           /\ request = [request EXCEPT ![p] = request[p]]
           /\ ctl = [ctl EXCEPT ![p] = ctl[p]]
           /\ row \in [Rows -> RowStates] /\ lost \in SUBSET Rows
           /\ ctl[p].row \in Rows \cup {None} /\ request[p].row \in Rows \cup {None}
  BY DEF SessionInv, SessionTypeOK, PanelsOK, ControllerOK, Controller, Request

LEMMA ClosedOK ==
    ControllerOK(Closed) /\ RequestOK(NoRequest, Closed)
  BY DEF ControllerOK, RequestOK, Closed, NoRequest, Controller, Request, Stages, Media,
         Screens, Unminted

\* A controller that lets go of its media and waits to report the end.
LEMMA AbortOK ==
    ASSUME NEW c \in Controller, c.row # None, c.screen # "live"
    PROVE  /\ ControllerOK(AbortStart(c)) /\ AbortStart(c).row = c.row
           /\ AbortStart(c).at = "aborting"
  BY DEF ControllerOK, AbortStart, CleanupMedia, Controller, Stages, Media, Unminted

LEMMA StopOK ==
    ASSUME NEW c, ControllerOK(c)
    PROVE  /\ ControllerOK(Stop(c)) /\ Stop(c).row = c.row
           /\ Stop(c).mounted = c.mounted
           /\ Stop(c).at = c.at \/ (c.at = "active" /\ Stop(c).at = "ending")
           /\ c.at \notin Starting => Stop(c).cancelled = c.cancelled
  <1>1. CASE c.at \in Starting
    <2>1. Stop(c) = [c EXCEPT !.cancelled = TRUE]
      BY <1>1 DEF Stop
    <2> QED
      BY <1>1, <2>1 DEF ControllerOK, Controller, Starting
  <1>2. CASE c.at = "active"
    <2>1. Stop(c) = [[[c EXCEPT !.holds = {}] EXCEPT !.screen = "ended"]
                       EXCEPT !.at = "ending"]
      BY <1>2 DEF Stop, Starting, CleanupMedia, Dispatch, Show
    <2>2. /\ Stop(c) \in Controller /\ Stop(c).row = c.row
          /\ Stop(c).mounted = c.mounted /\ Stop(c).cancelled = c.cancelled
          /\ Stop(c).holds = {} /\ Stop(c).screen = "ended" /\ Stop(c).at = "ending"
      BY <2>1 DEF ControllerOK, Controller, Stages, Screens
    <2> QED
      BY <1>2, <2>2 DEF ControllerOK, Unminted
  <1>3. CASE c.at \notin Starting \cup {"active"}
    BY <1>3 DEF Stop
  <1> QED
    BY <1>1, <1>2, <1>3

\* A start that failed before it held anything.
LEMMA RestOK ==
    ASSUME NEW c \in Controller, c.at \in {"creating", "aborting", "ending"},
           c.holds = {}, c.screen # "live",
           NEW d \in {c, Failed(c)}
    PROVE  LET rest == [d EXCEPT !.at = "rest", !.row = None] IN
           ControllerOK(rest) /\ rest.at = "rest" /\ rest.row = None
  <1> DEFINE rest == [d EXCEPT !.at = "rest", !.row = None]
  <1>1. d \in Controller /\ d.holds = {} /\ d.screen # "live"
    <2>1. CASE d = c
      BY <2>1
    <2>2. CASE d = [c EXCEPT !.screen = "error"]
      BY <2>2 DEF Controller, Screens
    <2> QED
      BY <2>1, <2>2 DEF Failed, Dispatch, Show
  <1>2. /\ rest \in Controller /\ rest.at = "rest" /\ rest.row = None
        /\ rest.holds = {} /\ rest.screen # "live"
    BY <1>1 DEF Controller, Stages
  <1> QED
    BY <1>2 DEF ControllerOK, Unminted

LEMMA MountStep ==
    ASSUME SessionInv, NEW p \in Panels, Mount(p)
    PROVE  SessionInv'
  <1> DEFINE c == [Closed EXCEPT !.at = "mounted", !.mounted = TRUE]
  <1>1. ControllerOK(c) /\ c.row = None /\ c.at = "mounted"
    BY ClosedOK DEF ControllerOK, Closed, Controller, Stages, Unminted
  <1>2. ctl[p].row = None
    BY PanelFacts DEF Mount, ControllerOK, Unminted
  <1>3. /\ ctl' = [ctl EXCEPT ![p] = c] /\ request[p].phase = "none"
        /\ ctl[p].at = "closed" /\ UNCHANGED <<request, row, lost>>
    BY DEF Mount
  <1> HIDE DEF c
  <1> QED
    BY <1>1, <1>2, <1>3, ControllerStep

LEMMA CreatedStep ==
    ASSUME SessionInv, NEW p \in Panels, Created(p)
    PROVE  SessionInv'
  <1> DEFINE c == [ctl[p] EXCEPT !.row = request[p].row]
             d == IF c.cancelled THEN AbortStart(c) ELSE [c EXCEPT !.at = "asking"]
  <1>1. /\ ctl[p].at = "creating" /\ request[p].phase = "created"
        /\ ctl' = [ctl EXCEPT ![p] = d] /\ request' = [request EXCEPT ![p] = NoRequest]
        /\ UNCHANGED <<row, lost>>
    BY DEF Created
  <1>2. /\ ctl[p].row = None /\ request[p].row \in Rows
        /\ ctl[p].holds = {} /\ ctl[p].screen # "live"
    BY <1>1, PanelFacts DEF ControllerOK, RequestOK, Request, Unminted
  <1>3. c \in Controller /\ c.row = request[p].row /\ c.screen # "live" /\ c.row # None
        /\ c.at = "creating" /\ c.holds = {}
    BY <1>1, <1>2, PanelFacts, ConstantFacts DEF Controller
  <1>4. ControllerOK(d) /\ d.row = request[p].row /\ d.at \in {"aborting", "asking"}
    <2>1. CASE c.cancelled
      BY <2>1, <1>3, AbortOK
    <2>2. CASE ~ c.cancelled
      <3> HIDE DEF c
      <3> QED
        BY <2>2, <1>3 DEF ControllerOK, Controller, Stages, Unminted
    <2> QED
      BY <2>1, <2>2
  <1>5. RequestOK(NoRequest, d)
    BY <1>4, ClosedOK DEF RequestOK, NoRequest
  <1> HIDE DEF c, d
  <1>6. \A r \in Rows : r \in {ctl[p].row, request[p].row} => r \in lost' \cup {d.row}
    BY <1>2, <1>4, ConstantFacts
  <1>7. NoRequest.phase \notin {"sent", "counted"}
    BY DEF NoRequest
  <1>8. row' = row /\ lost' = lost
    BY <1>1
  <1> QED
    BY <1>1, <1>4, <1>5, <1>6, <1>7, <1>8, PanelFacts, PanelStep

\* A start that ends before it has a row: nobody waits for the request.
LEMMA GivenUpStep ==
    ASSUME SessionInv, NEW p \in Panels, ctl[p].at = "creating",
           ctl' = [ctl EXCEPT ![p] = [Failed(ctl[p]) EXCEPT !.at = "rest"]],
           NEW q \in {NoRequest, request[p]},
           request' = [request EXCEPT ![p] = q],
           q.phase \notin {"created", "refused"},
           lost' = lost \cup Orphan(p), UNCHANGED row
    PROVE  SessionInv'
  <1> DEFINE d == Failed(ctl[p])
             c == [d EXCEPT !.at = "rest"]
  <1>1. /\ ctl[p].row = None /\ ctl[p].holds = {} /\ ctl[p].screen # "live"
        /\ ctl[p] \in Controller
    BY PanelFacts DEF ControllerOK, Unminted
  <1>2. ControllerOK(c) /\ c.row = None /\ c.at = "rest"
    BY <1>1 DEF ControllerOK, Failed, Dispatch, Show, Controller, Stages, Media, Screens,
                Unminted
  <1>3. RequestOK(q, c)
    BY <1>2, ClosedOK, PanelFacts DEF RequestOK
  <1>4. /\ lost' \in SUBSET Rows /\ lost \subseteq lost'
        /\ request[p].row # None => request[p].row \in lost'
    BY PanelFacts, ConstantFacts DEF Orphan, RequestOK
  <1>5. q.phase \in {"sent", "counted"} => q.phase = request[p].phase
    BY DEF NoRequest
  <1>6. ctl' = [ctl EXCEPT ![p] = c]
    OBVIOUS
  <1> HIDE DEF c, d
  <1>7. \A r \in Rows : r \in {ctl[p].row, request[p].row} => r \in lost'
    BY <1>1, <1>4, ConstantFacts
  <1> QED
    BY <1>2, <1>3, <1>4, <1>5, <1>6, <1>7, PanelFacts, PanelStep

LEMMA CreateRefusedStep ==
    ASSUME SessionInv, NEW p \in Panels, CreateRefused(p)
    PROVE  SessionInv'
  <1>1. lost' = lost \cup Orphan(p)
    BY DEF CreateRefused, Orphan
  <1> QED
    BY <1>1, GivenUpStep DEF CreateRefused, NoRequest

LEMMA CreateLostStep ==
    ASSUME SessionInv, NEW p \in Panels, CreateLost(p)
    PROVE  SessionInv'
  <1> DEFINE q == IF request[p].phase \in {"created", "refused"} THEN NoRequest
                  ELSE request[p]
  <1>1. /\ q \in {NoRequest, request[p]} /\ q.phase \notin {"created", "refused"}
        /\ request' = [request EXCEPT ![p] = q]
    BY PanelFacts DEF CreateLost, Abandoned, NoRequest
  <1> HIDE DEF q
  <1> QED
    BY <1>1, GivenUpStep DEF CreateLost

\* Steps between the vault's answer and the end of the session: the controller
\* keeps its row.
LEMMA KeepingStep ==
    ASSUME SessionInv, NEW p \in Panels, NEW c, ControllerOK(c), c.row = ctl[p].row,
           ctl[p].at \notin {"mounted", "creating"}, c.at # "mounted",
           ctl' = [ctl EXCEPT ![p] = c], UNCHANGED <<request, row, lost>>
    PROVE  SessionInv'
  BY ControllerStep

LEMMA MicGrantedStep ==
    ASSUME SessionInv, NEW p \in Panels, MicGranted(p)
    PROVE  SessionInv'
  <1> DEFINE c == ctl[p]
             d == IF c.cancelled THEN AbortStart([c EXCEPT !.holds = {"mic"}])
                  ELSE [Dispatch(c, "mic-granted") EXCEPT !.at = "offering",
                                                          !.holds = {"mic", "peer"}]
  <1>1. c \in Controller /\ c.at = "asking" /\ c.row # None /\ c.screen # "live"
    BY PanelFacts DEF MicGranted, ControllerOK, Unminted
  <1>2. ControllerOK(d) /\ d.row = c.row /\ d.at # "mounted"
    <2>1. CASE c.cancelled
      <3> DEFINE e == [c EXCEPT !.holds = {"mic"}]
      <3>1. e \in Controller /\ e.row = c.row /\ e.screen = c.screen
        BY <1>1 DEF Controller, Media
      <3> HIDE DEF e, c
      <3>2. d = AbortStart(e)
        BY <2>1 DEF e
      <3> QED
        BY <1>1, <3>1, <3>2, AbortOK
    <2>2. CASE ~ c.cancelled
      <3> HIDE DEF c
      <3> QED
        BY <2>2, <1>1 DEF ControllerOK, Controller, Dispatch, Show, Stages, Media, Screens,
                          Unminted
    <2> QED
      BY <2>1, <2>2
  <1>3. ctl' = [ctl EXCEPT ![p] = d] /\ UNCHANGED <<request, row, lost>>
    BY DEF MicGranted
  <1> HIDE DEF d
  <1> QED
    BY <1>1, <1>2, <1>3, KeepingStep

LEMMA MicDeniedStep ==
    ASSUME SessionInv, NEW p \in Panels, MicDenied(p)
    PROVE  SessionInv'
  <1> DEFINE c == Dispatch(ctl[p], "mic-denied")
  <1>1. ctl[p].at = "asking" /\ ctl[p].row # None
    BY PanelFacts DEF MicDenied, ControllerOK, Unminted
  <1>2. c \in Controller /\ c.row = ctl[p].row /\ c.screen = "error"
    BY PanelFacts DEF Dispatch, Show, Controller, Screens
  <1>3. ctl' = [ctl EXCEPT ![p] = AbortStart(c)] /\ UNCHANGED <<request, row, lost>>
    BY DEF MicDenied
  <1> HIDE DEF c
  <1> QED
    BY <1>1, <1>2, <1>3, AbortOK, KeepingStep

LEMMA OfferedStep ==
    ASSUME SessionInv, NEW p \in Panels, Offered(p)
    PROVE  SessionInv'
  <1> DEFINE c == ctl[p]
             d == IF c.cancelled THEN AbortStart(c) ELSE [c EXCEPT !.at = "handshake"]
  <1>1. /\ c \in Controller /\ ControllerOK(c) /\ c.at = "offering" /\ c.row # None
        /\ c.screen = "connecting"
    BY PanelFacts DEF Offered, ControllerOK, Unminted
  <1>2. ControllerOK(d) /\ d.row = c.row /\ d.at # "mounted"
    <2> HIDE DEF c
    <2>1. CASE c.cancelled
      BY <2>1, <1>1, AbortOK
    <2>2. CASE ~ c.cancelled
      BY <2>2, <1>1 DEF ControllerOK, Controller, Stages, Unminted
    <2> QED
      BY <2>1, <2>2
  <1>3. ctl' = [ctl EXCEPT ![p] = d] /\ UNCHANGED <<request, row, lost>>
    BY DEF Offered
  <1> HIDE DEF d
  <1> QED
    BY <1>1, <1>2, <1>3, KeepingStep

LEMMA ConnectedStep ==
    ASSUME SessionInv, NEW p \in Panels, Connected(p)
    PROVE  SessionInv'
  <1> DEFINE c == ctl[p]
  <1>1. /\ c \in Controller /\ ControllerOK(c) /\ c.at = "handshake" /\ c.row # None
        /\ c.screen = "connecting"
    BY PanelFacts DEF Connected, ControllerOK, Unminted
  <1>2. ControllerOK(Live(c)) /\ Live(c).row = c.row /\ Live(c).at # "mounted"
    <2> HIDE DEF c
    <2>1. CASE c.cancelled
      BY <2>1, <1>1, AbortOK DEF Live
    <2>2. CASE ~ c.cancelled
      BY <2>2, <1>1 DEF Live, Dispatch, Show, ControllerOK, Controller, Stages, Media,
                        Screens, Unminted
    <2> QED
      BY <2>1, <2>2
  <1>3. ctl' = [ctl EXCEPT ![p] = Live(ctl[p])] /\ UNCHANGED <<request, row, lost>>
    BY DEF Connected
  <1> QED
    BY <1>1, <1>2, <1>3, KeepingStep

LEMMA ConnectionFailsStep ==
    ASSUME SessionInv, NEW p \in Panels, ConnectionFails(p)
    PROVE  SessionInv'
  <1> DEFINE c == [ctl[p] EXCEPT !.failing = TRUE]
  <1>1. ctl[p].at \in {"offering", "handshake"} /\ ctl[p].row # None
    BY PanelFacts DEF ConnectionFails, ControllerOK, Unminted
  <1>2. c \in Controller /\ c.row = ctl[p].row /\ c.screen = "connecting"
    BY <1>1, PanelFacts DEF Controller, ControllerOK
  <1>3. ctl' = [ctl EXCEPT ![p] = AbortStart(c)] /\ UNCHANGED <<request, row, lost>>
    BY DEF ConnectionFails
  <1> HIDE DEF c
  <1> QED
    BY <1>1, <1>2, <1>3, AbortOK, KeepingStep

\* The end of a session is reported, or the report is lost.
LEMMA ReportedStep ==
    ASSUME SessionInv, NEW p \in Panels, Told(ctl[p].row), ctl[p].row # None,
           ctl[p].at \in {"aborting", "ending"},
           NEW d \in {ctl[p], Failed(ctl[p])},
           ctl' = [ctl EXCEPT ![p] = [d EXCEPT !.at = "rest", !.row = None]],
           UNCHANGED request
    PROVE  SessionInv'
  <1> DEFINE c == [d EXCEPT !.at = "rest", !.row = None]
             r == ctl[p].row
  <1>1. ControllerOK(c) /\ c.at = "rest" /\ c.row = None
    <2>1. ctl[p] \in Controller /\ ctl[p].holds = {} /\ ctl[p].screen # "live"
      BY PanelFacts DEF ControllerOK
    <2> QED
      BY <2>1, RestOK
  <1>2. RequestOK(request[p], c) /\ request[p].row = None
    BY <1>1, PanelFacts DEF RequestOK
  <1>3. r \in Rows
    BY PanelFacts
  <1>4. /\ row' \in [Rows -> RowStates] /\ lost' \in SUBSET Rows /\ lost \subseteq lost'
        /\ \A s \in Rows : row'[s] = "free" <=> row[s] = "free"
        /\ \A s \in Rows : row'[s] \in Running => row[s] \in Running
        /\ row'[r] \in Running => r \in lost'
    <2> HIDE DEF r
    <2>1. CASE row' = [row EXCEPT ![r] = IF row[r] \in Running THEN "ended" ELSE row[r]]
               /\ UNCHANGED lost
      BY <2>1, <1>3, PanelFacts DEF RowStates, Running
    <2>2. CASE lost' = lost \cup {r} /\ UNCHANGED row
      BY <2>2, <1>3, PanelFacts
    <2> QED
      BY <2>1, <2>2 DEF Told, r
  <1>5. ctl' = [ctl EXCEPT ![p] = c] /\ request' = [request EXCEPT ![p] = request[p]]
    BY PanelFacts
  <1>6. \A s \in Rows : s \in {ctl[p].row, request[p].row} => s = r
    BY <1>2, ConstantFacts
  <1> DEFINE q == request[p]
  <1>7. /\ RequestOK(q, c) /\ request' = [request EXCEPT ![p] = q]
        /\ q.phase \in {"sent", "counted"} => q.phase = request[p].phase
    BY <1>2, <1>5
  <1> HIDE DEF c, q
  <1>8. \A s \in Rows : (row'[s] \in Running /\ s \in {ctl[p].row, request[p].row})
            => s \in lost' \cup {c.row, q.row}
    BY <1>4, <1>6
  <1> HIDE DEF r
  <1> QED
    BY <1>1, <1>4, <1>5, <1>7, <1>8, PanelStep

LEMMA AbortedStep ==
    ASSUME SessionInv, NEW p \in Panels, Aborted(p)
    PROVE  SessionInv'
  <1> DEFINE d == IF ctl[p].failing THEN Failed(ctl[p]) ELSE ctl[p]
  <1>1. ctl[p].at = "aborting" /\ ctl[p].row # None
    BY PanelFacts DEF Aborted, ControllerOK, Unminted
  <1>2. d \in {ctl[p], Failed(ctl[p])}
    OBVIOUS
  <1>3. /\ ctl' = [ctl EXCEPT ![p] = [d EXCEPT !.at = "rest", !.row = None]]
        /\ Told(ctl[p].row) /\ UNCHANGED request
    BY DEF Aborted
  <1> HIDE DEF d
  <1> QED
    BY <1>1, <1>2, <1>3, ReportedStep

LEMMA EndReportedStep ==
    ASSUME SessionInv, NEW p \in Panels, EndReported(p)
    PROVE  SessionInv'
  <1>1. ctl[p].at = "ending" /\ ctl[p].row # None
    BY PanelFacts DEF EndReported, ControllerOK, Unminted
  <1> QED
    BY <1>1, ReportedStep DEF EndReported

\* The owner, a timer or the vault stops the controller.
LEMMA StopStep ==
    ASSUME SessionInv, NEW p \in Panels,
           ctl' = [ctl EXCEPT ![p] = Stop(ctl[p])], UNCHANGED <<request, row, lost>>
    PROVE  SessionInv'
  <1>1. /\ ControllerOK(Stop(ctl[p])) /\ Stop(ctl[p]).row = ctl[p].row
        /\ Stop(ctl[p]).at = ctl[p].at
             \/ (ctl[p].at = "active" /\ Stop(ctl[p]).at = "ending")
    BY PanelFacts, StopOK
  <1>2. ctl[p].at = "mounted" => request[p].phase = "none"
    BY PanelFacts DEF RequestOK
  <1> QED
    BY <1>1, <1>2, ControllerStep

LEMMA UnmountStep ==
    ASSUME SessionInv, NEW p \in Panels, Unmount(p)
    PROVE  SessionInv'
  <1> DEFINE c == Stop(ctl[p])
             d == [c EXCEPT !.mounted = FALSE,
                            !.at = IF c.at = "mounted" THEN "rest" ELSE c.at]
  <1>1. /\ ControllerOK(c) /\ c.row = ctl[p].row
        /\ c.at = ctl[p].at \/ (ctl[p].at = "active" /\ c.at = "ending")
    BY PanelFacts, StopOK
  <1>2. /\ ControllerOK(d) /\ d.row = ctl[p].row /\ d.at # "mounted"
        /\ c.at # "mounted" => d.at = c.at
    <2> HIDE DEF c
    <2> QED
      BY <1>1 DEF ControllerOK, Controller, Stages, Unminted
  <1>3. ctl' = [ctl EXCEPT ![p] = d] /\ UNCHANGED <<request, row, lost>>
    BY DEF Unmount
  <1> HIDE DEF c, d
  <1> QED
    BY <1>1, <1>2, <1>3, ControllerStep

LEMMA ProviderErrorStep ==
    ASSUME SessionInv, NEW p \in Panels, ProviderError(p)
    PROVE  SessionInv'
  <1> DEFINE c == Dispatch(ctl[p], "error")
  <1>1. ctl[p].at = "active"
    BY DEF ProviderError
  <1>2. ControllerOK(c) /\ c.row = ctl[p].row /\ c.at = "active"
    BY <1>1, PanelFacts
    DEF Dispatch, Show, ControllerOK, Controller, Screens, Unminted
  <1>3. ctl' = [ctl EXCEPT ![p] = c] /\ UNCHANGED <<request, row, lost>>
    BY DEF ProviderError
  <1> HIDE DEF c
  <1> QED
    BY <1>1, <1>2, <1>3, KeepingStep

LEMMA ForgetStep ==
    ASSUME SessionInv, NEW p \in Panels, Forget(p)
    PROVE  SessionInv'
  <1>1. ctl[p].at = "rest" /\ ctl[p].row = None
    BY PanelFacts DEF Forget, ControllerOK, Unminted
  <1>2. ControllerOK(Closed) /\ Closed.row = None /\ Closed.at = "closed"
    BY ClosedOK DEF Closed
  <1> QED
    BY <1>1, <1>2, KeepingStep DEF Forget

LEMMA PageGoneStep ==
    ASSUME SessionInv, NEW p \in Panels, PageGone(p)
    PROVE  SessionInv'
  <1> DEFINE q == IF request[p].phase \in {"created", "refused"} THEN NoRequest
                  ELSE request[p]
  <1>1. ctl' = [ctl EXCEPT ![p] = Closed] /\ request' = [request EXCEPT ![p] = q]
    BY PanelFacts DEF PageGone, Abandoned
  <1>2. RequestOK(q, Closed)
    BY ClosedOK, PanelFacts DEF RequestOK, Closed
  <1>3. /\ row' = row /\ lost' \in SUBSET Rows /\ lost \subseteq lost'
        /\ ctl[p].row # None => ctl[p].row \in lost'
        /\ request[p].row # None => request[p].row \in lost'
    BY PanelFacts DEF PageGone, Orphan, RequestOK
  <1>4. \A r \in Rows : r \in {ctl[p].row, request[p].row} => r \in lost'
    BY <1>3, ConstantFacts
  <1>5. q.phase \in {"sent", "counted"} => q.phase = request[p].phase
    BY DEF NoRequest
  <1> HIDE DEF q
  <1> QED
    BY <1>1, <1>2, <1>3, <1>4, <1>5, ClosedOK, PanelFacts, PanelStep

-----------------------------------------------------------------------------
(* The vault *)

\* A start asks the vault for a session while there is room for one more.
LEMMA StartStep ==
    ASSUME SessionInv, NEW p \in Panels, Start(p)
    PROVE  SessionInv'
  <1> DEFINE c == [Dispatch(ctl[p], "start-requested") EXCEPT !.at = "creating"]
             q == [phase |-> "sent", row |-> None]
  <1>1. /\ ctl[p].at = "mounted" /\ Used + Cardinality(Expected) < MaxRows
        /\ ctl' = [ctl EXCEPT ![p] = c] /\ request' = [request EXCEPT ![p] = q]
        /\ UNCHANGED <<row, lost>>
    BY DEF Start
  <1>2. ctl[p].row = None /\ request[p].row = None /\ request[p].phase = "none"
    BY <1>1, PanelFacts DEF ControllerOK, RequestOK, Unminted
  <1>3. ControllerOK(c)
    BY <1>1, <1>2, PanelFacts DEF ControllerOK, Dispatch, Show, Controller, Stages, Screens,
                                  Unminted
  <1>4. RequestOK(q, c)
    BY DEF RequestOK, Request, Dispatch
  <1>5. SessionTypeOK' /\ PanelsOK' /\ RunningRowsAreHeld'
    <2>1. \A r \in Rows : r \notin {ctl[p].row, request[p].row}
      BY <1>2, ConstantFacts
    <2> HIDE DEF c, q
    <2> QED
      BY <1>1, <1>3, <1>4, <2>1, PanelFacts, PanelMoves
  <1>6. PICK n \in 0..MaxRows : RowsInOrder(n)
    BY DEF SessionInv, SomeRowsInOrder
  <1>7. Used = n
    BY <1>6, CountOfRows DEF RowsInOrder
  <1>8. Expected \in SUBSET Panels
    BY DEF Expected
  <1>9. IsFiniteSet(Expected) /\ Cardinality(Expected) \in Nat
    BY <1>8, ConstantFacts
  <1>10. request \in [Panels -> Request]
    BY DEF SessionInv, SessionTypeOK
  <1>11. Expected' = Expected \cup {p} /\ Counted' = Counted
    BY <1>1, <1>2, <1>10 DEF Expected, Counted
  <1>12. Cardinality(Expected') \in Nat
         /\ Cardinality(Expected') <= Cardinality(Expected) + 1
    <2>1. Cardinality(Expected \cup {p})
             = IF p \in Expected THEN Cardinality(Expected) ELSE Cardinality(Expected) + 1
      BY <1>9, FS_AddElement
    <2> QED
      BY <2>1, <1>9, <1>11
  <1>13. n + Cardinality(Expected') <= MaxRows
    BY <1>1, <1>7, <1>9, <1>12, ConstantFacts
  <1>14. UsedRows' = UsedRows
    BY <1>1 DEF UsedRows
  <1>15. RowsInOrder(n)'
    BY <1>6, <1>11, <1>13, <1>14 DEF RowsInOrder
  <1> QED
    BY <1>5, <1>15 DEF SessionInv, SomeRowsInOrder

\* The API answers a request whose controller may no longer wait for it.
LEMMA AnswerOK ==
    ASSUME SessionInv, NEW p \in Panels, request[p].phase \in {"sent", "counted"},
           NEW phase \in {"created", "refused"}, NEW r \in Rows \cup {None},
           phase = "created" <=> r # None, Answered(p, phase, r)
    PROVE  \E q : /\ request' = [request EXCEPT ![p] = q]
                  /\ RequestOK(q, ctl[p])
                  /\ q.phase \in {"none", "created", "refused"}
                  /\ ctl[p].at = "creating" => q.row = r
  <1> DEFINE q == IF ctl[p].at = "creating" THEN [phase |-> phase, row |-> r]
                  ELSE NoRequest
  <1>1. request' = [request EXCEPT ![p] = q]
    BY DEF Answered
  <1>2. RequestOK(q, ctl[p])
    BY DEF RequestOK, Request, NoRequest
  <1>3. q.phase \in {"none", "created", "refused"} /\ (ctl[p].at = "creating" => q.row = r)
    BY DEF NoRequest
  <1> QED
    BY <1>1, <1>2, <1>3

LEMMA RefusedStep ==
    ASSUME SessionInv, NEW p \in Panels, request[p].phase \in {"sent", "counted"},
           Answered(p, "refused", None), UNCHANGED <<ctl, row, lost>>
    PROVE  SessionInv'
  <1>1. PICK q : /\ request' = [request EXCEPT ![p] = q] /\ RequestOK(q, ctl[p])
                 /\ q.phase \in {"none", "created", "refused"}
    BY AnswerOK
  <1>2. request[p].row = None
    BY PanelFacts DEF RequestOK
  <1>3. \A r \in Rows : r # None
    BY ConstantFacts
  <1>4. /\ \A r \in Rows : r \in {ctl[p].row, request[p].row}
                => r \in lost' \cup {ctl[p].row, q.row}
        /\ row' \in [Rows -> RowStates] /\ lost' \in SUBSET Rows /\ lost' = lost
        /\ row' = row
    BY <1>2, <1>3, PanelFacts
  <1>5. ControllerOK(ctl[p]) /\ ctl' = [ctl EXCEPT ![p] = ctl[p]]
    BY PanelFacts
  <1> QED
    BY <1>1, <1>4, <1>5, PanelStep

LEMMA CountStep ==
    ASSUME SessionInv, NEW p \in Panels, CountSessions(p)
    PROVE  SessionInv'
  <1> DEFINE q == [request[p] EXCEPT !.phase = "counted"]
  <1>1. CASE ~ UnderCap
    BY <1>1, RefusedStep DEF CountSessions
  <1>2. CASE UnderCap
    <2>1. /\ request[p].phase = "sent" /\ Used < Cap
          /\ request' = [request EXCEPT ![p] = q] /\ UNCHANGED <<ctl, row, lost>>
      BY <1>2, PanelFacts DEF CountSessions, UnderCap
    <2>2. RequestOK(q, ctl[p]) /\ q.row = request[p].row /\ q.phase = "counted"
      BY <2>1, PanelFacts DEF RequestOK, Request
    <2>3. SessionTypeOK' /\ PanelsOK' /\ RunningRowsAreHeld'
      <3> HIDE DEF q
      <3> QED
        BY <2>1, <2>2, PanelFacts, PanelMoves
    <2>4. PICK n \in 0..MaxRows : RowsInOrder(n)
      BY DEF SessionInv, SomeRowsInOrder
    <2>5. Used = n
      BY <2>4, CountOfRows DEF RowsInOrder
    <2>6. request \in [Panels -> Request]
      BY DEF SessionInv, SessionTypeOK
    <2>7. Expected' = Expected
      BY <2>1, <2>6 DEF Expected
    <2>8. Counted' \in SUBSET Panels
      BY DEF Counted
    <2>9. Cardinality(Counted') \in 0..Cardinality(Panels)
      BY <2>8, ConstantFacts
    <2>10. n + Cardinality(Counted') <= Cap + Cardinality(Panels) - 1
      BY <2>1, <2>5, <2>9, ConstantFacts
    <2>11. RowsInOrder(n)'
      BY <2>1, <2>4, <2>7, <2>10 DEF RowsInOrder, UsedRows
    <2> QED
      BY <2>3, <2>11 DEF SessionInv, SomeRowsInOrder
  <1> QED
    BY <1>1, <1>2

\* The next row is free, there is room for it, and the cap is exceeded by no more
\* than the requests counted with this one.
LEMMA CreateStep ==
    ASSUME SessionInv, NEW p \in Panels, CreateVoiceSession(p)
    PROVE  SessionInv'
  <1> DEFINE r == Used + 1
  <1>1. /\ request[p].phase = "counted" /\ row' = [row EXCEPT ![r] = "live"]
        /\ Answered(p, "created", r) /\ UNCHANGED ctl
        /\ lost' = IF ctl[p].at = "creating" THEN lost ELSE lost \cup {r}
    BY DEF CreateVoiceSession
  <1>2. PICK n \in 0..MaxRows : RowsInOrder(n)
    BY DEF SessionInv, SomeRowsInOrder
  <1>3. Used = n
    BY <1>2, CountOfRows DEF RowsInOrder
  <1>4. p \in Expected /\ p \in Counted
    BY <1>1 DEF Expected, Counted
  <1>5. Expected \in SUBSET Panels /\ Counted \in SUBSET Panels
    BY DEF Expected, Counted
  <1>6. /\ IsFiniteSet(Expected) /\ IsFiniteSet(Counted)
        /\ Cardinality(Expected) \in Nat \ {0} /\ Cardinality(Counted) \in Nat \ {0}
    BY <1>4, <1>5, ConstantFacts, FS_EmptySet
  <1>7. r \in Rows /\ r \in Int /\ n \in Nat /\ r = n + 1 /\ r # None /\ n + 1 \in 0..MaxRows
    BY <1>2, <1>3, <1>6, ConstantFacts DEF RowsInOrder, Rows
  <1> HIDE DEF r
  <1>8. PICK q : /\ request' = [request EXCEPT ![p] = q] /\ RequestOK(q, ctl[p])
                 /\ q.phase \in {"none", "created", "refused"}
                 /\ ctl[p].at = "creating" => q.row = r
    BY <1>1, <1>7, AnswerOK
  <1>9. SessionTypeOK' /\ PanelsOK' /\ RunningRowsAreHeld'
    <2>1. request[p].row = None
      BY <1>1, PanelFacts DEF RequestOK
    <2>2. row' \in [Rows -> RowStates] /\ lost' \in SUBSET Rows /\ lost \subseteq lost'
      BY <1>1, <1>7, PanelFacts DEF RowStates
    <2>3. q.row = r \/ r \in lost'
      BY <1>1, <1>8
    <2>4. \A s \in Rows \ {r} : row'[s] = row[s]
      BY <1>1, PanelFacts
    <2>5. \A s \in Rows : s \in {ctl[p].row, request[p].row} => s \in {ctl[p].row}
      BY <2>1, ConstantFacts
    <2>6. \A s \in Rows : row'[s] \in Running =>
              row[s] \in Running \/ q.row = s \/ s \in lost'
      BY <2>3, <2>4
    <2>7. \A s \in Rows : (row'[s] \in Running /\ s \in {ctl[p].row, request[p].row})
              => s \in lost' \cup {ctl[p].row, q.row}
      BY <2>5
    <2>8. ctl' = [ctl EXCEPT ![p] = ctl[p]] /\ ControllerOK(ctl[p])
      BY <1>1, PanelFacts
    <2> QED
      BY <1>8, <2>2, <2>6, <2>7, <2>8, PanelMoves
  <1>10. request \in [Panels -> Request]
    BY DEF SessionInv, SessionTypeOK
  <1>11. Expected' = Expected \ {p} /\ Counted' = Counted \ {p}
    BY <1>8, <1>10 DEF Expected, Counted
  <1>12. /\ Cardinality(Expected') = Cardinality(Expected) - 1
         /\ Cardinality(Counted') = Cardinality(Counted) - 1
    BY <1>4, <1>6, <1>11, FS_RemoveElement
  <1>13. UsedRows' = 1..(n + 1)
    <2>1. \A s \in Rows : row'[s] # "free" <=> s \in UsedRows \/ s = r
      BY <1>1, PanelFacts DEF UsedRows
    <2>2. UsedRows' = UsedRows \cup {r}
      BY <1>7, <2>1 DEF UsedRows
    <2> QED
      BY <1>2, <1>7, <2>2 DEF RowsInOrder
  <1>14. /\ n + Cardinality(Expected) <= MaxRows
         /\ n + Cardinality(Counted) <= Cap + Cardinality(Panels) - 1
    BY <1>2, <1>4 DEF RowsInOrder
  <1>15. /\ (n + 1) + Cardinality(Expected') <= MaxRows
         /\ (n + 1) + Cardinality(Counted') <= Cap + Cardinality(Panels) - 1
         /\ n + 1 <= Cap + Cardinality(Panels) - 1
    BY <1>6, <1>7, <1>12, <1>14, ConstantFacts
  <1>16. RowsInOrder(n + 1)'
    BY <1>13, <1>15 DEF RowsInOrder
  <1> QED
    BY <1>7, <1>9, <1>16 DEF SessionInv, SomeRowsInOrder

-----------------------------------------------------------------------------
(* Every step of a session *)

LEMMA LifecycleStep ==
    ASSUME SessionInv, Lifecycle
    PROVE  SessionInv'
  <1>1. PICK p \in Panels :
            \/ Start(p) \/ Created(p) \/ CreateRefused(p) \/ CreateLost(p)
            \/ MicGranted(p) \/ MicDenied(p) \/ Offered(p) \/ ConnectionFails(p)
            \/ Aborted(p) \/ EndReported(p) \/ End(p) \/ Unmount(p) \/ MaxDuration(p)
            \/ IdleOrDisconnected(p) \/ ProviderError(p) \/ Forget(p) \/ PageGone(p)
            \/ CountSessions(p) \/ CreateVoiceSession(p) \/ RefuseSession(p)
    BY DEF Lifecycle
  <1>2. CASE Start(p)
    BY <1>2, StartStep
  <1>3. CASE Created(p)
    BY <1>3, CreatedStep
  <1>4. CASE CreateRefused(p)
    BY <1>4, CreateRefusedStep
  <1>5. CASE CreateLost(p)
    BY <1>5, CreateLostStep
  <1>6. CASE MicGranted(p)
    BY <1>6, MicGrantedStep
  <1>7. CASE MicDenied(p)
    BY <1>7, MicDeniedStep
  <1>8. CASE Offered(p)
    BY <1>8, OfferedStep
  <1>9. CASE ConnectionFails(p)
    BY <1>9, ConnectionFailsStep
  <1>10. CASE Aborted(p)
    BY <1>10, AbortedStep
  <1>11. CASE EndReported(p)
    BY <1>11, EndReportedStep
  <1>12. CASE End(p)
    BY <1>12, StopStep DEF End
  <1>13. CASE Unmount(p)
    BY <1>13, UnmountStep
  <1>14. CASE MaxDuration(p)
    BY <1>14, StopStep DEF MaxDuration
  <1>15. CASE IdleOrDisconnected(p)
    BY <1>15, StopStep DEF IdleOrDisconnected
  <1>16. CASE ProviderError(p)
    BY <1>16, ProviderErrorStep
  <1>17. CASE Forget(p)
    BY <1>17, ForgetStep
  <1>18. CASE PageGone(p)
    BY <1>18, PageGoneStep
  <1>19. CASE CountSessions(p)
    BY <1>19, CountStep
  <1>20. CASE CreateVoiceSession(p)
    BY <1>20, CreateStep
  <1>21. CASE RefuseSession(p)
    BY <1>21, RefusedStep DEF RefuseSession
  <1> QED
    BY <1>1, <1>2, <1>3, <1>4, <1>5, <1>6, <1>7, <1>8, <1>9, <1>10, <1>11, <1>12, <1>13,
       <1>14, <1>15, <1>16, <1>17, <1>18, <1>19, <1>20, <1>21

LEMMA NoSessionStep ==
    ASSUME SessionInv, UNCHANGED sessionVars
    PROVE  SessionInv'
  <1>1. ctl' = ctl /\ request' = request /\ row' = row /\ lost' = lost
    BY DEF sessionVars
  <1>2. SessionTypeOK' /\ PanelsOK' /\ RunningRowsAreHeld'
    BY <1>1 DEF SessionInv, SessionTypeOK, PanelsOK, RunningRowsAreHeld
  <1>3. UsedRows' = UsedRows /\ Counted' = Counted /\ Expected' = Expected
    BY <1>1 DEF UsedRows, Counted, Expected
  <1>4. SomeRowsInOrder'
    BY <1>3, RowsStayInOrder DEF SessionInv
  <1> QED
    BY <1>2, <1>4 DEF SessionInv

\* A tool call or the passing of time ends a session on the API's side.
LEMMA RowStep ==
    ASSUME SessionInv, NEW r \in Rows, NEW new \in RowStates,
           row[r] # "free", new # "free", new \in Running => row[r] \in Running,
           row' = [row EXCEPT ![r] = new], UNCHANGED <<ctl, request, lost>>
    PROVE  SessionInv'
  <1>1. PICK p \in Panels : TRUE
    BY VoiceAssumption
  <1>2. /\ row' \in [Rows -> RowStates]
        /\ \A s \in Rows : row'[s] = "free" <=> row[s] = "free"
        /\ \A s \in Rows : row'[s] \in Running => row[s] \in Running
    BY <1>1, PanelFacts
  <1> QED
    BY <1>1, <1>2, PanelFacts, PanelStep

LEMMA ToolCallStep ==
    ASSUME SessionInv, CallsOK, NEW c \in Calls, ExecuteToolCall(c)
    PROVE  SessionInv'
  <1> DEFINE r == call[c].row
  <1>1. r \in Rows
    BY DEF CallsOK, CallOK, ExecuteToolCall
  <1>2. CASE UNCHANGED <<ctl, row>>
    BY <1>2, NoSessionStep DEF ExecuteToolCall, sessionVars
  <1>3. CASE row' = [row EXCEPT ![r] = IF row[r] = "overdue" THEN "ended" ELSE row[r]]
             /\ UNCHANGED ctl
    <2>1. UNCHANGED <<ctl, request, lost>>
      BY <1>3 DEF ExecuteToolCall
    <2>2. row \in [Rows -> RowStates]
      BY DEF SessionInv, SessionTypeOK
    <2>3. CASE row[r] = "overdue"
      BY <1>1, <1>3, <2>1, <2>3, RowStep DEF RowStates, Running
    <2>4. CASE row[r] # "overdue"
      <3>1. row' = row
        BY <1>3, <2>2, <2>4
      <3> QED
        BY <2>1, <3>1, NoSessionStep DEF sessionVars
    <2> QED
      BY <2>3, <2>4
  <1> QED
    BY <1>2, <1>3 DEF ExecuteToolCall

LEMMA ToolRefusedStep ==
    ASSUME SessionInv, CallsOK, NEW c \in Calls, ToolRefused(c)
    PROVE  SessionInv'
  <1> DEFINE p == call[c].panel
  <1>1. p \in Panels
    BY DEF CallsOK, CallOK, ToolRefused
  <1>2. CASE UNCHANGED ctl
    BY <1>2, NoSessionStep DEF ToolRefused, sessionVars
  <1>3. CASE ctl' = [ctl EXCEPT ![p] = Stop(ctl[p])]
    <2>1. UNCHANGED <<request, row, lost>>
      BY DEF ToolRefused
    <2> HIDE DEF p
    <2> QED
      BY <1>1, <1>3, <2>1, StopStep
  <1> QED
    BY <1>2, <1>3 DEF ToolRefused

LEMMA TimePassesStep ==
    ASSUME SessionInv, NEW r \in Rows, TimePasses(r)
    PROVE  SessionInv'
  <1> DEFINE new == IF row[r] = "live" THEN "overdue" ELSE "late"
  <1>1. row[r] \in {"live", "ended"} /\ row' = [row EXCEPT ![r] = new]
        /\ UNCHANGED <<ctl, request, lost>>
    BY DEF TimePasses
  <1>2. new \in RowStates /\ new # "free" /\ (new \in Running => row[r] \in Running)
    BY <1>1 DEF RowStates, Running
  <1> HIDE DEF new
  <1> QED
    BY <1>1, <1>2, RowStep

\* Every step, whether the session's or the bridge's.
LEMMA SessionStep ==
    ASSUME SessionInv, CallsOK, Next
    PROVE  SessionInv'
  <1>1. CASE Lifecycle /\ UNCHANGED bridgeVars
    BY <1>1, LifecycleStep
  <1>2. ASSUME NEW p \in Panels, Open(p) \/ Connect(p)
        PROVE  SessionInv'
    BY <1>2, MountStep, ConnectedStep DEF Open, Connect
  <1>3. ASSUME NEW p \in Panels, NEW i \in Items \cup {None}, SpeechStarted(p, i)
        PROVE  SessionInv'
    BY <1>3, NoSessionStep DEF SpeechStarted
  <1>4. ASSUME NEW p \in Panels, NEW i \in Items, NEW text, TranscriptDone(p, i, text)
        PROVE  SessionInv'
    BY <1>4, NoSessionStep DEF TranscriptDone
  <1>5. ASSUME NEW p \in Panels, NEW c \in Calls, NEW capture \in BOOLEAN,
               FunctionCall(p, c, capture)
        PROVE  SessionInv'
    BY <1>5, NoSessionStep DEF FunctionCall
  <1>6. ASSUME NEW t \in turn, StoreTurn(t) \/ TurnAnswered(t) \/ TurnLost(t)
        PROVE  SessionInv'
    BY <1>6, NoSessionStep DEF StoreTurn, TurnAnswered, TurnLost
  <1>7. ASSUME NEW c \in Calls, WaitEnds(c) \/ WaitTimesOut(c) \/ ToolLost(c)
        PROVE  SessionInv'
    BY <1>7, NoSessionStep DEF WaitEnds, WaitTimesOut, ToolLost
  <1>8. ASSUME NEW c \in Calls, ExecuteToolCall(c) \/ ToolRefused(c)
        PROVE  SessionInv'
    BY <1>8, ToolCallStep, ToolRefusedStep
  <1>9. ASSUME NEW r \in Rows, TimePasses(r)
        PROVE  SessionInv'
    BY <1>9, TimePassesStep
  <1> QED
    BY <1>1, <1>2, <1>3, <1>4, <1>5, <1>6, <1>7, <1>8, <1>9 DEF Next, Bridge

-----------------------------------------------------------------------------
(* What was heard stays heard *)

HeardStays ==
    /\ \A i \in Items : message[i].text # None => message'[i].text # None
    /\ failed \subseteq failed'

LEMMA CallStays ==
    ASSUME HeardStays, NEW k \in Call, CallOK(k)
    PROVE  CallOK(k)'
  BY DEF HeardStays, CallOK, Heard, Call

LEMMA CallsStay ==
    ASSUME BridgeInv, HeardStays, UNCHANGED call
    PROVE  CallsOK'
  <1>1. ASSUME NEW c \in Calls
        PROVE  CallOK(call[c])'
    <2>1. PICK k \in Call : k = call[c]
      BY DEF BridgeInv, BridgeTypeOK
    <2>2. CallOK(k)'
      BY <2>1, CallStays DEF BridgeInv, CallsOK
    <2>3. call'[c] = k
      BY <2>1
    <2> QED
      BY <2>2, <2>3
  <1> QED
    BY <1>1 DEF CallsOK

LEMMA CallChanges ==
    ASSUME BridgeInv, NEW c \in Calls, NEW k \in Call, CallOK(k),
           call' = [call EXCEPT ![c] = k],
           UNCHANGED <<latest, barrier, heardIn, turn, failed, message>>
    PROVE  BridgeInv'
  <1>1. call \in [Calls -> Call] /\ HeardStays
    BY DEF BridgeInv, BridgeTypeOK, HeardStays
  <1>2. ASSUME NEW d \in Calls
        PROVE  CallOK(call[d])'
    <2>1. PICK l \in Call : l = call'[d] /\ CallOK(l)
      BY <1>1 DEF BridgeInv, CallsOK
    <2>2. CallOK(l)'
      BY <1>1, <2>1, CallStays
    <2> QED
      BY <2>1, <2>2
  <1>3. CallsOK'
    BY <1>2 DEF CallsOK
  <1>4. BridgeTypeOK'
    BY <1>1 DEF BridgeInv, BridgeTypeOK
  <1>5. TurnsOK' /\ FinishedWasHeard' /\ SourceHasBarrier' /\ LatestSpeechIsSource'
    BY DEF BridgeInv, TurnsOK, TurnOK, FinishedWasHeard, Heard, SourceHasBarrier,
           LatestSpeechIsSource
  <1> QED
    BY <1>3, <1>4, <1>5 DEF BridgeInv

LEMMA NoBridgeStep ==
    ASSUME BridgeInv, UNCHANGED bridgeVars
    PROVE  BridgeInv'
  BY DEF bridgeVars, BridgeInv, BridgeTypeOK, CallsOK, CallOK, TurnsOK, TurnOK,
         FinishedWasHeard, Heard, SourceHasBarrier, LatestSpeechIsSource

-----------------------------------------------------------------------------
(* Utterances *)

\* The types of what the bridge keeps.
LEMMA BridgeTypes ==
    ASSUME BridgeInv
    PROVE  /\ latest \in [Panels -> [speech: Items \cup {None}, source: Items \cup {None}]]
           /\ barrier \in [Items -> {"none", "open", "finished"}]
           /\ heardIn \in [Items -> Rows \cup {None}]
           /\ turn \subseteq Turn /\ failed \subseteq Items
           /\ message \in [Items -> Message] /\ call \in [Calls -> Call]
           /\ \A i \in Items : message[i].text \in Texts \cup {None}
           /\ \A t \in turn : t.item \in Items /\ t.text \in Texts /\ TurnOK(t)
  BY DEF BridgeInv, BridgeTypeOK, Message, Turn, TurnsOK

LEMMA ConnectBridge ==
    ASSUME BridgeInv, NEW p \in Panels, Connect(p)
    PROVE  BridgeInv'
  <1>1. /\ latest' = [latest EXCEPT ![p] = NothingHeard]
        /\ UNCHANGED <<barrier, heardIn, turn, failed, message, call>>
    BY DEF Connect
  <1>2. CallsOK'
    BY <1>1, CallsStay DEF HeardStays
  <1>3. BridgeTypeOK' /\ SourceHasBarrier' /\ LatestSpeechIsSource'
    BY <1>1, BridgeTypes
    DEF BridgeInv, BridgeTypeOK, SourceHasBarrier, LatestSpeechIsSource, NothingHeard
  <1>4. TurnsOK' /\ FinishedWasHeard'
    BY <1>1 DEF BridgeInv, TurnsOK, TurnOK, FinishedWasHeard, Heard
  <1> QED
    BY <1>2, <1>3, <1>4 DEF BridgeInv

LEMMA SpeechStartedBridge ==
    ASSUME SessionInv, BridgeInv, NEW p \in Panels, NEW i \in Items \cup {None},
           SpeechStarted(p, i)
    PROVE  BridgeInv'
  <1>1. /\ latest' = [latest EXCEPT ![p] = [speech |-> i, source |-> i]]
        /\ UNCHANGED <<turn, failed, message, call>>
        /\ i = None => UNCHANGED <<barrier, heardIn>>
        /\ i # None => /\ barrier' = [barrier EXCEPT ![i] = "open"]
                       /\ heardIn' = [heardIn EXCEPT ![i] = ctl[p].row]
    BY DEF SpeechStarted
  <1>2. CallsOK'
    BY <1>1, CallsStay DEF HeardStays
  <1>3. BridgeTypeOK'
    BY <1>1, BridgeTypes, PanelFacts DEF BridgeInv, BridgeTypeOK
  <1>4. /\ i # None => barrier'[i] = "open"
        /\ \A j \in Items : barrier'[j] = barrier[j] \/ barrier'[j] = "open"
    BY <1>1, BridgeTypes
  <1>5. /\ latest'[p] = [speech |-> i, source |-> i]
        /\ \A o \in Panels \ {p} : latest'[o] = latest[o]
    BY <1>1, BridgeTypes
  <1>6. SourceHasBarrier'
    <2>1. ASSUME NEW o \in Panels, latest'[o].source # None
          PROVE  barrier'[latest'[o].source] # "none"
      <3>1. CASE o = p
        BY <1>4, <1>5, <2>1, <3>1
      <3>2. CASE o # p
        <4>1. latest[o].source \in Items /\ barrier[latest[o].source] # "none"
          BY <1>5, <2>1, <3>2, BridgeTypes DEF BridgeInv, SourceHasBarrier
        <4> QED
          BY <1>4, <1>5, <3>2, <4>1
      <3> QED
        BY <3>1, <3>2
    <2> QED
      BY <2>1 DEF SourceHasBarrier
  <1>7. LatestSpeechIsSource'
    BY <1>5 DEF BridgeInv, LatestSpeechIsSource
  <1>8. TurnsOK' /\ FinishedWasHeard'
    BY <1>1, <1>4 DEF BridgeInv, TurnsOK, TurnOK, FinishedWasHeard, Heard
  <1> QED
    BY <1>2, <1>3, <1>6, <1>7, <1>8 DEF BridgeInv

LEMMA TranscriptDoneBridge ==
    ASSUME SessionInv, BridgeInv, NEW p \in Panels, NEW i \in Items,
           NEW text \in Says[i] \cup {None}, TranscriptDone(p, i, text)
    PROVE  BridgeInv'
  <1> DEFINE s == SourceAfter(p, i)
             t == [item |-> i, text |-> text, stage |-> "sent"]
  <1>1. /\ heardIn' = [heardIn EXCEPT ![i] = ctl[p].row]
        /\ latest' = [latest EXCEPT ![p].source = s]
        /\ barrier' = [barrier EXCEPT ![i] = IF barrier[i] = "none" THEN "open"
                                             ELSE barrier[i]]
        /\ turn' = IF text = None THEN turn ELSE turn \cup {t}
        /\ UNCHANGED <<failed, message, call>>
    BY DEF TranscriptDone
  <1>2. CallsOK'
    BY <1>1, CallsStay DEF HeardStays
  <1>3. s \in {i, latest[p].source} /\ s \in Items \cup {None}
        /\ (latest[p].speech \notin {None, i} => s = latest[p].source)
        /\ (latest[p].speech = i => s = i)
    BY BridgeTypes DEF SourceAfter
  <1>4. text # None => t \in Turn /\ t.text # None /\ t.stage = "sent"
    BY BridgeAssumption DEF Turn
  <1> HIDE DEF s, t
  <1>5. BridgeTypeOK'
    BY <1>1, <1>3, <1>4, BridgeTypes, PanelFacts DEF BridgeTypeOK
  <1>6. /\ barrier'[i] # "none"
        /\ \A j \in Items : barrier[j] # "none" => barrier'[j] # "none"
        /\ \A j \in Items : barrier'[j] = "finished" => barrier[j] = "finished"
    BY <1>1, BridgeTypes
  <1>7. /\ latest'[p].source = s /\ latest'[p].speech = latest[p].speech
        /\ \A o \in Panels \ {p} : latest'[o] = latest[o]
    BY <1>1, BridgeTypes
  <1>8. SourceHasBarrier'
    <2>1. ASSUME NEW o \in Panels, latest'[o].source # None
          PROVE  barrier'[latest'[o].source] # "none"
      <3>1. CASE latest'[o].source = latest[o].source
        <4>1. latest[o].source \in Items /\ barrier[latest[o].source] # "none"
          BY <2>1, <3>1, BridgeTypes DEF BridgeInv, SourceHasBarrier
        <4> QED
          BY <1>6, <3>1, <4>1
      <3>2. CASE o = p /\ s = i
        BY <1>6, <1>7, <3>2
      <3> QED
        BY <1>3, <1>7, <3>1, <3>2
    <2> QED
      BY <2>1 DEF SourceHasBarrier
  <1>9. LatestSpeechIsSource'
    BY <1>3, <1>7 DEF BridgeInv, LatestSpeechIsSource
  <1>10. TurnsOK'
    BY <1>1, <1>4, BridgeTypes DEF TurnsOK, TurnOK
  <1>11. FinishedWasHeard'
    BY <1>1, <1>6 DEF BridgeInv, FinishedWasHeard, Heard
  <1> QED
    BY <1>2, <1>5, <1>8, <1>9, <1>10, <1>11 DEF BridgeInv

LEMMA StoreTurnBridge ==
    ASSUME BridgeInv, NEW t \in turn, StoreTurn(t)
    PROVE  BridgeInv'
  <1> DEFINE i == t.item
             n == [t EXCEPT !.stage = IF Admits(i, t.text) THEN "stored" ELSE "refused"]
             m == IF Admits(i, t.text)
                  THEN [text |-> t.text,
                        extracted |-> IF message[i].text = None THEN InTime(i)
                                      ELSE message[i].extracted]
                  ELSE message[i]
  <1>1. /\ turn' = (turn \ {t}) \cup {n} /\ message' = [message EXCEPT ![i] = m]
        /\ UNCHANGED <<latest, barrier, heardIn, failed, call>>
    BY DEF StoreTurn
  <1>2. /\ i \in Items /\ t \in Turn /\ t.text \in Texts /\ t.text # None
        /\ message[i] \in Message /\ message[i].extracted \in BOOLEAN
    BY BridgeTypes DEF TurnOK, Message
  <1>3. m \in Message /\ (message[i].text # None => m.text # None)
        /\ (Admits(i, t.text) => m.text = t.text)
    <2> HIDE DEF i
    <2>1. InTime(i) \in BOOLEAN
      BY DEF InTime
    <2> QED
      BY <1>2, <2>1 DEF Message
  <1>4. n \in Turn /\ n.item = i /\ n.text = t.text
        /\ (n.stage = "stored" => Admits(i, t.text))
    BY <1>2 DEF Turn
  <1> HIDE DEF m, n, i
  <1>5. /\ message'[i] = m
        /\ \A j \in Items \ {i} : message'[j] = message[j]
        /\ \A j \in Items : message[j].text # None => message'[j].text # None
    BY <1>1, <1>2, <1>3, BridgeTypes
  <1>6. HeardStays
    BY <1>1, <1>5 DEF HeardStays
  <1>7. CallsOK'
    BY <1>1, <1>6, CallsStay
  <1>8. BridgeTypeOK'
    BY <1>1, <1>2, <1>3, <1>4, BridgeTypes DEF BridgeTypeOK
  <1>9. TurnsOK'
    <2>1. ASSUME NEW o \in turn'
          PROVE  TurnOK(o)'
      <3>1. CASE o = n
        BY <1>2, <1>3, <1>4, <1>5, <3>1 DEF TurnOK
      <3>2. CASE o \in turn
        BY <1>5, <3>2, BridgeTypes DEF TurnOK
      <3> QED
        BY <1>1, <2>1, <3>1, <3>2
    <2> QED
      BY <2>1 DEF TurnsOK
  <1>10. FinishedWasHeard'
    BY <1>1, <1>5 DEF BridgeInv, FinishedWasHeard, Heard
  <1>11. SourceHasBarrier' /\ LatestSpeechIsSource'
    BY <1>1 DEF BridgeInv, SourceHasBarrier, LatestSpeechIsSource
  <1> QED
    BY <1>7, <1>8, <1>9, <1>10, <1>11 DEF BridgeInv

\* The wait for an utterance ends: it is stored, or it failed in the browser.
LEMMA SettledBridge ==
    ASSUME BridgeInv, NEW i \in Items, Heard(i)',
           barrier' = [barrier EXCEPT ![i] = "finished"],
           turn' \subseteq turn, failed' \in {failed, failed \cup {i}},
           UNCHANGED <<latest, heardIn, message, call>>
    PROVE  BridgeInv'
  <1>1. HeardStays
    BY DEF HeardStays
  <1>2. CallsOK'
    BY <1>1, CallsStay
  <1>3. BridgeTypeOK'
    BY BridgeTypes DEF BridgeTypeOK
  <1>4. TurnsOK'
    BY DEF BridgeInv, TurnsOK, TurnOK
  <1>5. /\ \A j \in Items \ {i} : barrier'[j] = barrier[j]
        /\ barrier'[i] = "finished"
    BY BridgeTypes
  <1>6. FinishedWasHeard'
    BY <1>1, <1>5 DEF BridgeInv, FinishedWasHeard, Heard, HeardStays
  <1>7. SourceHasBarrier' /\ LatestSpeechIsSource'
    BY <1>5, BridgeTypes DEF BridgeInv, SourceHasBarrier, LatestSpeechIsSource
  <1> QED
    BY <1>2, <1>3, <1>4, <1>6, <1>7 DEF BridgeInv

LEMMA TurnAnsweredBridge ==
    ASSUME BridgeInv, NEW t \in turn, TurnAnswered(t)
    PROVE  BridgeInv'
  <1>1. /\ t.item \in Items /\ TurnOK(t) /\ t.stage \in {"stored", "refused"}
        /\ failed' \in {failed, failed \cup {t.item}}
        /\ t.stage = "refused" => t.item \in failed'
    BY BridgeTypes DEF TurnAnswered, Turn
  <1>2. Heard(t.item)'
    BY <1>1 DEF Heard, TurnOK, TurnAnswered
  <1>3. PICK i \in Items : i = t.item
    BY <1>1
  <1>4. Heard(i)'
    BY <1>2, <1>3 DEF Heard
  <1> QED
    BY <1>1, <1>3, <1>4, SettledBridge DEF TurnAnswered

LEMMA TurnLostBridge ==
    ASSUME BridgeInv, NEW t \in turn, TurnLost(t)
    PROVE  BridgeInv'
  <1>1. PICK i \in Items : i = t.item
    BY BridgeTypes
  <1>2. Heard(i)'
    BY <1>1 DEF Heard, TurnLost
  <1> QED
    BY <1>1, <1>2, SettledBridge DEF TurnLost

-----------------------------------------------------------------------------
(* Tool calls *)

LEMMA CallTypes ==
    ASSUME BridgeInv, NEW c \in Calls
    PROVE  /\ call[c] \in Call /\ CallOK(call[c])
           /\ call[c].source \in Items \cup {None}
           /\ call = [call EXCEPT ![c] = call[c]]
  BY DEF BridgeInv, BridgeTypeOK, CallsOK, Call

LEMMA FunctionCallBridge ==
    ASSUME SessionInv, BridgeInv, NEW p \in Panels, NEW c \in Calls,
           NEW capture \in BOOLEAN, FunctionCall(p, c, capture)
    PROVE  BridgeInv'
  <1> DEFINE i == latest[p].source
             k == [phase |-> IF MustWait(capture, i) THEN "waiting" ELSE "sent",
                   panel |-> p, row |-> ctl[p].row, capture |-> capture,
                   heard |-> i, source |-> i, timedOut |-> FALSE, found |-> FALSE]
  <1>1. /\ ctl[p].at = "active" /\ call' = [call EXCEPT ![c] = k]
        /\ UNCHANGED <<latest, barrier, heardIn, turn, failed, message>>
    BY DEF FunctionCall, Hears
  <1>2. ctl[p].row \in Rows
    BY <1>1, PanelFacts DEF ControllerOK, Unminted
  <1>3. i \in Items \cup {None} /\ (i # None => barrier[i] # "none")
    BY BridgeTypes DEF BridgeInv, SourceHasBarrier
  <1>4. /\ MustWait(capture, i) => i \in Items
        /\ capture /\ i # None => MustWait(capture, i)
    BY <1>3 DEF MustWait
  <1> HIDE DEF i
  <1>5. k \in Call
    BY <1>2, <1>3 DEF Call
  <1>6. CallOK(k)
    BY <1>2, <1>4 DEF CallOK
  <1> HIDE DEF k
  <1> QED
    BY <1>1, <1>5, <1>6, CallChanges

\* The wait of a call ends, because its utterance is heard or in the end.
LEMMA ProceedBridge ==
    ASSUME BridgeInv, NEW c \in Calls, NEW timedOut \in BOOLEAN, Proceed(c, timedOut),
           call[c].phase = "waiting", timedOut \/ Heard(call[c].source),
           UNCHANGED <<latest, barrier, heardIn, turn, failed, message>>
    PROVE  BridgeInv'
  <1>1. PICK k \in Call : k = call[c] /\ CallOK(k)
    BY CallTypes
  <1> DEFINE s == [k EXCEPT !.phase = "sent", !.source = k.source, !.timedOut = timedOut]
             d == [k EXCEPT !.phase = "dropped"]
  <1>2. call' = [call EXCEPT ![c] = s] \/ call' = [call EXCEPT ![c] = d]
    BY <1>1 DEF Proceed, SourceOf
  <1>3. s \in Call /\ d \in Call
    BY <1>1 DEF Call
  <1>4. CallOK(s) /\ CallOK(d)
    BY <1>1 DEF CallOK, Call
  <1> HIDE DEF s, d
  <1> QED
    BY <1>2, <1>3, <1>4, CallChanges

LEMMA WaitBridge ==
    ASSUME BridgeInv, NEW c \in Calls, WaitEnds(c) \/ WaitTimesOut(c)
    PROVE  BridgeInv'
  <1>1. CASE WaitEnds(c)
    <2>1. call[c].phase = "waiting" /\ call[c].source \in Items
      BY <1>1, CallTypes DEF WaitEnds, CallOK
    <2>2. Heard(call[c].source)
      BY <1>1, <2>1 DEF WaitEnds, BridgeInv, FinishedWasHeard
    <2> QED
      BY <1>1, <2>1, <2>2, ProceedBridge DEF WaitEnds
  <1>2. CASE WaitTimesOut(c)
    BY <1>2, ProceedBridge DEF WaitTimesOut
  <1> QED
    BY <1>1, <1>2

LEMMA ExecuteBridge ==
    ASSUME BridgeInv, NEW c \in Calls,
           ExecuteToolCall(c) \/ ToolRefused(c) \/ ToolLost(c)
    PROVE  BridgeInv'
  <1>1. PICK k \in Call : k = call[c] /\ CallOK(k)
    BY CallTypes
  <1> DEFINE f == k.source # None /\ message[k.source].text # None
             d == [[k EXCEPT !.phase = "done"] EXCEPT !.found = f]
             e == [k EXCEPT !.phase = "ended"]
             x == [k EXCEPT !.phase = "dropped"]
  <1>2. UNCHANGED <<latest, barrier, heardIn, turn, failed, message>>
    BY DEF ExecuteToolCall, ToolRefused, ToolLost
  <1>3. CASE k.phase = "sent" /\ call' = [call EXCEPT ![c] = d]
    <2>1. d \in Call
      BY <1>1 DEF Call
    <2>2. CallOK(d)
      BY <1>1, <1>3 DEF CallOK, Heard, Call
    <2> HIDE DEF d
    <2> QED
      BY <1>2, <1>3, <2>1, <2>2, CallChanges
  <1>4. CASE k.phase \in {"sent", "ended"} /\ call' \in {[call EXCEPT ![c] = e],
                                                        [call EXCEPT ![c] = x]}
    <2>1. e \in Call /\ x \in Call
      BY <1>1 DEF Call
    <2>2. CallOK(e) /\ CallOK(x)
      BY <1>1, <1>4 DEF CallOK, Call
    <2> HIDE DEF e, x
    <2> QED
      BY <1>2, <1>4, <2>1, <2>2, CallChanges
  <1>5. ExecuteToolCall(c) => \/ k.phase = "sent" /\ call' = [call EXCEPT ![c] = d]
                              \/ k.phase = "sent" /\ call' = [call EXCEPT ![c] = e]
    <2>1. call \in [Calls -> Call]
      BY BridgeTypes
    <2>2. [call EXCEPT ![c].phase = "done", ![c].found = f] = [call EXCEPT ![c] = d]
      BY <1>1, <2>1 DEF Call
    <2>3. [call EXCEPT ![c].phase = "ended"] = [call EXCEPT ![c] = e]
      BY <1>1, <2>1
    <2> QED
      BY <1>1, <2>2, <2>3 DEF ExecuteToolCall
  <1>6. (ToolRefused(c) \/ ToolLost(c)) =>
            k.phase \in {"sent", "ended"} /\ call' = [call EXCEPT ![c] = x]
    BY <1>1 DEF ToolRefused, ToolLost
  <1> HIDE DEF d, e, x
  <1> QED
    BY <1>3, <1>4, <1>5, <1>6

LEMMA BridgeStep ==
    ASSUME SessionInv, BridgeInv, Next
    PROVE  BridgeInv'
  <1>1. CASE Lifecycle /\ UNCHANGED bridgeVars
    BY <1>1, NoBridgeStep
  <1>2. ASSUME NEW p \in Panels, Open(p)
        PROVE  BridgeInv'
    BY <1>2, NoBridgeStep DEF Open
  <1>3. ASSUME NEW p \in Panels, Connect(p)
        PROVE  BridgeInv'
    BY <1>3, ConnectBridge
  <1>4. ASSUME NEW p \in Panels, NEW i \in Items \cup {None}, SpeechStarted(p, i)
        PROVE  BridgeInv'
    BY <1>4, SpeechStartedBridge
  <1>5. ASSUME NEW p \in Panels, NEW i \in Items, NEW text \in Says[i] \cup {None},
               TranscriptDone(p, i, text)
        PROVE  BridgeInv'
    BY <1>5, TranscriptDoneBridge
  <1>6. ASSUME NEW p \in Panels, NEW c \in Calls, NEW capture \in BOOLEAN,
               FunctionCall(p, c, capture)
        PROVE  BridgeInv'
    BY <1>6, FunctionCallBridge
  <1>7. ASSUME NEW t \in turn, StoreTurn(t) \/ TurnAnswered(t) \/ TurnLost(t)
        PROVE  BridgeInv'
    BY <1>7, StoreTurnBridge, TurnAnsweredBridge, TurnLostBridge
  <1>8. ASSUME NEW c \in Calls, WaitEnds(c) \/ WaitTimesOut(c)
        PROVE  BridgeInv'
    BY <1>8, WaitBridge
  <1>9. ASSUME NEW c \in Calls, ExecuteToolCall(c) \/ ToolRefused(c) \/ ToolLost(c)
        PROVE  BridgeInv'
    BY <1>9, ExecuteBridge
  <1>10. ASSUME NEW r \in Rows, TimePasses(r)
         PROVE  BridgeInv'
    BY <1>10, NoBridgeStep DEF TimePasses
  <1> QED
    BY <1>1, <1>2, <1>3, <1>4, <1>5, <1>6, <1>7, <1>8, <1>9, <1>10 DEF Next, Bridge

-----------------------------------------------------------------------------
(* The invariant *)

LEMMA InitHolds ==
    ASSUME Init
    PROVE  IInv
  <1>1. SessionTypeOK /\ PanelsOK
    BY ClosedOK DEF Init, SessionInit, SessionTypeOK, PanelsOK, RowStates, ControllerOK,
                    RequestOK
  <1>2. RunningRowsAreHeld
    BY DEF Init, SessionInit, RunningRowsAreHeld, Running
  <1>3. SomeRowsInOrder
    <2>1. UsedRows = {} /\ Expected = {} /\ Counted = {}
      BY DEF Init, SessionInit, UsedRows, Expected, Counted, NoRequest
    <2>2. Cardinality(Expected) = 0
      BY <2>1, FS_EmptySet
    <2>3. 1..0 = {}
      OBVIOUS
    <2>4. RowsInOrder(0)
      BY <2>1, <2>2, <2>3, ConstantFacts DEF RowsInOrder
    <2> QED
      BY <2>4, ConstantFacts DEF SomeRowsInOrder
  <1>4. NoCall \in Call /\ CallOK(NoCall)
    BY DEF NoCall, Call, CallOK
  <1>5. BridgeTypeOK
    BY <1>4 DEF Init, BridgeTypeOK, NothingHeard, Message
  <1>6. CallsOK
    BY <1>4 DEF Init, CallsOK
  <1>7. TurnsOK /\ FinishedWasHeard /\ SourceHasBarrier /\ LatestSpeechIsSource
    BY DEF Init, TurnsOK, FinishedWasHeard, SourceHasBarrier, LatestSpeechIsSource,
           NothingHeard
  <1> QED
    BY <1>1, <1>2, <1>3, <1>5, <1>6, <1>7 DEF IInv, SessionInv, BridgeInv

LEMMA StepHolds ==
    ASSUME IInv, [Next]_vars
    PROVE  IInv'
  <1>1. CASE Next
    BY <1>1, SessionStep, BridgeStep DEF IInv, BridgeInv
  <1>2. CASE UNCHANGED vars
    BY <1>2, NoSessionStep, NoBridgeStep DEF IInv, vars
  <1> QED
    BY <1>1, <1>2

\* Sessions and utterances keep in step: each panel's controller, request and
\* screen are sound, each row is used in order and each call is bound to what
\* becomes of its utterance.
THEOREM Invariance == Spec => []IInv
  BY InitHolds, StepHolds, PTL DEF Spec

\* Every reachable state is type correct.
THEOREM TypeCorrect == Spec => []TypeOK
  <1>1. IInv => TypeOK
    BY DEF IInv, SessionInv, BridgeInv, BridgeTypeOK, TypeOK
  <1> QED
    BY Invariance, <1>1, PTL

\* A panel holds what it shows: no microphone without a start or a session, no
\* running row without a panel or a request, a true screen, and no more sessions
\* than the cap and the requests that were counted together.
THEOREM PanelsHold == Spec => []PanelsHoldWhatTheyShow
  <1>1. ASSUME IInv
        PROVE  PanelsHoldWhatTheyShow
    <2>1. PICK n \in 0..MaxRows : RowsInOrder(n)
      BY <1>1 DEF IInv, SessionInv, SomeRowsInOrder
    <2>2. CapOvershoot
      BY <2>1, CountOfRows DEF RowsInOrder, CapOvershoot
    <2>3. MediaReleased /\ ScreenIsTrue
      BY <1>1 DEF IInv, SessionInv, PanelsOK, ControllerOK, MediaReleased, ScreenIsTrue
    <2> QED
      BY <1>1, <2>2, <2>3 DEF IInv, SessionInv, PanelsHoldWhatTheyShow
  <1> QED
    BY Invariance, <1>1, PTL

\* A tool call is bound to the utterance it was made for, and the vault has that
\* utterance when it uses it, unless it could not be saved or the wait ran out.
THEOREM SpeechIsFound == Spec => []SpeechFindsItsSource
  <1>1. ASSUME IInv
        PROVE  SpeechFindsItsSource
    <2>1. BoundWhenHeard /\ CaptureFindsItsSource
      BY <1>1 DEF IInv, BridgeInv, CallsOK, CallOK, BoundWhenHeard, CaptureFindsItsSource
    <2> QED
      BY <1>1, <2>1 DEF IInv, BridgeInv, SpeechFindsItsSource
  <1> QED
    BY Invariance, <1>1, PTL

-----------------------------------------------------------------------------
(* What has ended *)

\* A controller becomes active only at its last checkpoint, which looks at the
\* flag that stop has set.
LEMMA OnlyLiveActivates ==
    ASSUME SessionInv, CallsOK, [Next]_vars, NEW p \in Panels, ctl'[p].at = "active"
    PROVE  ~ ctl[p].cancelled
  <1>1. ctl \in [Panels -> Controller] /\ ControllerOK(ctl[p])
    BY PanelFacts DEF SessionInv, SessionTypeOK
  <1>2. CASE ctl[p].at = "active"
    BY <1>1, <1>2 DEF ControllerOK
  <1>3. CASE ctl[p].at # "active"
    <2>1. ctl'[p] # ctl[p]
      BY <1>3
    <2>2. Stop(ctl[p]).at # "active"
      BY <1>1, <1>3, StopOK
    <2>3. /\ [Failed(ctl[p]) EXCEPT !.at = "rest"].at = "rest"
          /\ [ctl[p] EXCEPT !.at = "rest", !.row = None].at = "rest"
          /\ [Failed(ctl[p]) EXCEPT !.at = "rest", !.row = None].at = "rest"
          /\ Closed.at = "closed" /\ [Closed EXCEPT !.at = "mounted", !.mounted = TRUE].at = "mounted"
      BY <1>1 DEF Failed, Dispatch, Controller, Closed
    <2>4. \A c \in Controller : AbortStart(c).at = "aborting"
      BY DEF AbortStart, CleanupMedia, Controller
    <2>5. ASSUME NEW o \in Panels,
                 \/ Start(o) \/ CreateRefused(o) \/ CreateLost(o) \/ Aborted(o)
                 \/ EndReported(o) \/ Forget(o) \/ PageGone(o) \/ Open(o)
          PROVE  FALSE
      BY <1>1, <2>1, <2>3, <2>5
      DEF Start, CreateRefused, CreateLost, Aborted, EndReported, Forget, PageGone, Open,
          Mount, Dispatch, Controller
    <2>6. ASSUME NEW o \in Panels,
                 \/ Created(o) \/ MicGranted(o) \/ MicDenied(o)
                 \/ Offered(o) \/ ConnectionFails(o)
          PROVE  FALSE
      <3>1. o = p
        BY <1>1, <2>1, <2>6 DEF Created, MicGranted, MicDenied, Offered, ConnectionFails
      <3>2. PICK c \in Controller : c = ctl[p]
        BY <1>1
      <3>3. CASE Created(o)
        <4> DEFINE d == [c EXCEPT !.row = request[p].row]
        <4>1. d \in Controller
          BY <2>6, <3>1, <3>3, PanelFacts DEF Controller
        <4>2. ctl'[p] \in {AbortStart(d), [d EXCEPT !.at = "asking"]}
          BY <1>1, <3>1, <3>2, <3>3 DEF Created
        <4> HIDE DEF d
        <4> QED
          BY <2>4, <4>1, <4>2 DEF Controller
      <3>4. CASE MicGranted(o)
        <4> DEFINE d == [c EXCEPT !.holds = {"mic"}]
        <4>1. d \in Controller
          BY DEF Controller, Media
        <4>2. \/ ctl'[p] = AbortStart(d)
              \/ ctl'[p].at = "offering"
          BY <1>1, <3>1, <3>2, <3>4 DEF MicGranted, Dispatch, Controller
        <4> HIDE DEF d
        <4> QED
          BY <2>4, <4>1, <4>2
      <3>5. CASE MicDenied(o)
        <4> DEFINE d == Dispatch(c, "mic-denied")
        <4>1. d \in Controller
          BY DEF Dispatch, Show, Controller, Screens
        <4>2. ctl'[p] = AbortStart(d)
          BY <1>1, <3>1, <3>2, <3>5 DEF MicDenied
        <4> HIDE DEF d
        <4> QED
          BY <2>4, <4>1, <4>2
      <3>6. CASE Offered(o)
        <4>1. ctl'[p] \in {AbortStart(c), [c EXCEPT !.at = "handshake"]}
          BY <1>1, <3>1, <3>2, <3>6 DEF Offered
        <4> QED
          BY <2>4, <4>1 DEF Controller
      <3>7. CASE ConnectionFails(o)
        <4> DEFINE d == [c EXCEPT !.failing = TRUE]
        <4>1. d \in Controller
          BY DEF Controller
        <4>2. ctl'[p] = AbortStart(d)
          BY <1>1, <3>1, <3>2, <3>7 DEF ConnectionFails
        <4> HIDE DEF d
        <4> QED
          BY <2>4, <4>1, <4>2
      <3> QED
        BY <2>6, <3>3, <3>4, <3>5, <3>6, <3>7
    <2>7. ASSUME NEW o \in Panels, Connect(o)
          PROVE  ~ ctl[p].cancelled
      BY <1>1, <2>1, <2>7
      DEF Connect, Connected, Live, AbortStart, CleanupMedia, Controller
    <2>8. ASSUME NEW o \in Panels,
                 \/ End(o) \/ MaxDuration(o) \/ IdleOrDisconnected(o) \/ ProviderError(o)
          PROVE  FALSE
      BY <1>1, <1>3, <2>1, <2>2, <2>8
      DEF End, MaxDuration, IdleOrDisconnected, ProviderError
    <2>9. ASSUME NEW o \in Panels, Unmount(o)
           PROVE  FALSE
      <3>1. o = p
        BY <1>1, <2>1, <2>9 DEF Unmount
      <3>2. Stop(ctl[p]) \in Controller
        BY <1>1, StopOK DEF ControllerOK
      <3>3. ctl'[p].at \in {"rest", Stop(ctl[p]).at}
        BY <1>1, <2>9, <3>1, <3>2 DEF Unmount, Controller
      <3> QED
        BY <2>2, <3>3
    <2>10. ASSUME NEW o \in Panels,
                  CountSessions(o) \/ CreateVoiceSession(o) \/ RefuseSession(o)
           PROVE  FALSE
      BY <2>1, <2>10 DEF CountSessions, CreateVoiceSession, RefuseSession
    <2>11. ASSUME NEW c \in Calls, ToolRefused(c)
           PROVE  FALSE
      BY <1>1, <2>1, <2>2, <2>11 DEF ToolRefused
    <2>12. ~ UNCHANGED ctl
      BY <2>1
    <2>13. ~ UNCHANGED sessionVars /\ ~ UNCHANGED vars
      BY <2>12 DEF vars, sessionVars
    <2>14. Lifecycle => ~ ctl[p].cancelled
      BY <2>5, <2>6, <2>8, <2>9, <2>10 DEF Lifecycle
    <2>15. Bridge => ~ ctl[p].cancelled
      BY <2>5, <2>7, <2>11, <2>12, <2>13
      DEF Bridge, SpeechStarted, TranscriptDone, FunctionCall, StoreTurn, TurnAnswered,
          TurnLost, WaitEnds, WaitTimesOut, ExecuteToolCall, ToolLost, TimePasses
    <2> QED
      BY <2>13, <2>14, <2>15 DEF Next
  <1> QED
    BY <1>2, <1>3

LEMMA TranscriptStays ==
    ASSUME BridgeInv, [Next]_vars, NEW i \in Items, message[i].text # None
    PROVE  message'[i] = message[i]
  <1>1. CASE UNCHANGED message
    BY <1>1
  <1>2. ASSUME NEW t \in turn, StoreTurn(t)
        PROVE  message'[i] = message[i]
    <2>1. PICK m \in Message : m = message[i]
      BY BridgeTypes
    <2>2. m = [text |-> m.text, extracted |-> m.extracted]
      BY DEF Message
    <2> QED
      BY <1>2, <2>1, <2>2, BridgeTypes DEF StoreTurn, Admits
  <1>3. Lifecycle /\ UNCHANGED bridgeVars => UNCHANGED message
    BY DEF bridgeVars
  <1>4. Bridge => UNCHANGED message \/ \E t \in turn : StoreTurn(t)
    BY DEF Bridge, bridgeVars, Open, Connect, SpeechStarted, TranscriptDone, FunctionCall,
           TurnAnswered, TurnLost, WaitEnds, WaitTimesOut, ExecuteToolCall, ToolRefused,
           ToolLost, TimePasses
  <1>5. UNCHANGED vars => UNCHANGED message
    BY DEF vars, bridgeVars
  <1> QED
    BY <1>1, <1>2, <1>3, <1>4, <1>5 DEF Next

LEMMA SentWhileOpen ==
    ASSUME BridgeInv, [Next]_vars, NEW c \in Calls,
           call[c].phase = "waiting", call'[c].phase = "sent"
    PROVE  Config(call[c].panel) = call[c].row
  <1>1. call \in [Calls -> Call]
    BY BridgeTypes
  <1>2. ~ UNCHANGED call
    OBVIOUS
  <1>3. ASSUME NEW d \in Calls, NEW timedOut, Proceed(d, timedOut)
        PROVE  Config(call[c].panel) = call[c].row
    <2>1. d = c
      BY <1>1, <1>3 DEF Proceed
    <2>2. PICK k \in Call : k = call[c]
      BY <1>1
    <2>3. [k EXCEPT !.phase = "dropped"].phase = "dropped"
      BY DEF Call
    <2> QED
      BY <1>1, <1>3, <2>1, <2>2, <2>3 DEF Proceed, StillOpen
  <1>4. ASSUME NEW d \in Calls, ExecuteToolCall(d) \/ ToolRefused(d) \/ ToolLost(d)
        PROVE  FALSE
    <2>1. call[d].phase \in {"sent", "ended"} /\ \A e \in Calls \ {d} : call'[e] = call[e]
      BY <1>1, <1>4 DEF ExecuteToolCall, ToolRefused, ToolLost
    <2> QED
      BY <2>1
  <1>5. ASSUME NEW p \in Panels, NEW d \in Calls, NEW capture \in BOOLEAN,
               FunctionCall(p, d, capture)
        PROVE  FALSE
    <2>1. call[d].phase = "none" /\ \A e \in Calls \ {d} : call'[e] = call[e]
      BY <1>1, <1>5 DEF FunctionCall
    <2> QED
      BY <2>1
  <1>6. ~ UNCHANGED vars /\ ~ UNCHANGED bridgeVars
    BY <1>2 DEF vars, bridgeVars
  <1>7. Bridge => Config(call[c].panel) = call[c].row
    BY <1>2, <1>3, <1>4, <1>5, <1>6
    DEF Bridge, Open, Connect, SpeechStarted, TranscriptDone, StoreTurn, TurnAnswered,
        TurnLost, WaitEnds, WaitTimesOut, TimePasses, bridgeVars
  <1> QED
    BY <1>6, <1>7 DEF Next

\* What ended stays ended: a cancelled start never goes live, a stored transcript
\* never changes, and a call that waited is not sent for a session that is over.
THEOREM EndedStays == Spec => EndedStaysEnded
  <1>1. ASSUME IInv, [Next]_vars
        PROVE  [\A p \in Panels : ctl[p].cancelled => ctl'[p].at # "active"]_sessionVars
    BY <1>1, OnlyLiveActivates DEF IInv, BridgeInv
  <1>2. ASSUME IInv, [Next]_vars
        PROVE  [\A i \in Items : message[i].text # None => message'[i] = message[i]]_vars
    BY <1>2, TranscriptStays DEF IInv
  <1>3. ASSUME IInv, [Next]_vars
        PROVE  [\A c \in Calls : (call[c].phase = "waiting" /\ call'[c].phase = "sent")
                    => Config(call[c].panel) = call[c].row]_vars
    BY <1>3, SentWhileOpen DEF IInv
  <1>4. Spec => [][Next]_vars
    BY DEF Spec
  <1>5. Spec => CancelledNeverLive
    BY <1>1, <1>4, Invariance, PTL DEF CancelledNeverLive
  <1>6. Spec => TranscriptIsFinal
    BY <1>2, <1>4, Invariance, PTL DEF TranscriptIsFinal
  <1>7. Spec => NotSentAfterEnd
    BY <1>3, <1>4, Invariance, PTL DEF NotSentAfterEnd
  <1> QED
    BY <1>5, <1>6, <1>7 DEF EndedStaysEnded
=============================================================================

---------------------------- MODULE VoiceSession ----------------------------
(***************************************************************************)
(* The life of a realtime voice session: the controller of a voice panel    *)
(* (apps/web/src/features/voice), which asks the vault for a session, takes *)
(* the microphone and opens a peer connection to the provider, and the      *)
(* VoiceSession rows of the API (apps/api/src/voice).                       *)
(*                                                                          *)
(* Every await of the controller's start is a place where the owner may     *)
(* leave: stop only sets a flag while a start is under way, and each        *)
(* checkpoint after an await has to let go of what was taken.  Media and    *)
(* provider are external: they answer, fail or are refused at any time.     *)
(* All sessions are of one owner and start on one UTC day.                  *)
(***************************************************************************)
EXTENDS Naturals, FiniteSets

CONSTANTS
    Panels,    \* places where a voice panel can be open
    MaxRows,   \* bound on the VoiceSession rows
    Cap,       \* VOICE_DAILY_SESSION_CAP
    None

Rows == 1..MaxRows

ASSUME VoiceAssumption ==
    /\ IsFiniteSet(Panels) /\ Panels # {}
    /\ Cap \in Nat /\ MaxRows \in Nat /\ None \notin Rows

VARIABLES
    ctl,       \* the controller of the panel, and what the panel shows
    request,   \* the POST that creates a session, on the API's side
    row,
    lost       \* rows of which the browser was not told, or the API not told the end

sessionVars == <<ctl, request, row, lost>>

\* creating, asking, offering and handshake are the awaits of start, aborting is
\* the one of abortStart and ending the one of stop.
Stages == {"closed", "mounted", "creating", "asking", "offering", "handshake",
           "aborting", "active", "ending", "rest"}
Starting == {"creating", "asking", "offering", "handshake", "aborting"}
Media == {"mic", "peer", "timers"}
Screens == {"idle", "requesting-mic", "connecting", "live", "ended", "error"}

Controller == [at: Stages, mounted: BOOLEAN, cancelled: BOOLEAN, failing: BOOLEAN,
               row: Rows \cup {None}, holds: SUBSET Media, screen: Screens]
Request == [phase: {"none", "sent", "counted", "created", "refused"},
            row: Rows \cup {None}]

\* overdue: past the maximum duration; late: ended longer ago than transcripts
\* are still extracted.
RowStates == {"free", "live", "overdue", "ended", "late"}
Running == {"live", "overdue"}

SessionTypeOK ==
    /\ ctl \in [Panels -> Controller]
    /\ request \in [Panels -> Request]
    /\ row \in [Rows -> RowStates]
    /\ lost \subseteq Rows

Closed == [at |-> "closed", mounted |-> FALSE, cancelled |-> FALSE, failing |-> FALSE,
           row |-> None, holds |-> {}, screen |-> "idle"]
NoRequest == [phase |-> "none", row |-> None]

SessionInit ==
    /\ ctl = [p \in Panels |-> Closed]
    /\ request = [p \in Panels |-> NoRequest]
    /\ row = [r \in Rows |-> "free"]
    /\ lost = {}

-----------------------------------------------------------------------------
(* The controller *)

\* The controller's config: set once the vault has answered, until the end.
Config(p) ==
    IF ctl[p].at \in {"asking", "offering", "handshake", "active", "ending"}
    THEN ctl[p].row ELSE None

\* Rows are created in the order of their ids, and never deleted.
Used == Cardinality({r \in Rows : row[r] # "free"})
Expected == {p \in Panels : request[p].phase \in {"sent", "counted"}}

Mount(p) ==
    /\ ctl[p].at = "closed"
    /\ request[p].phase = "none"
    /\ ctl' = [ctl EXCEPT ![p] = [Closed EXCEPT !.at = "mounted", !.mounted = TRUE]]
    /\ UNCHANGED <<request, row, lost>>

\* What voiceSessionReducer does to the status the panel shows.
Show(screen, kind) ==
    CASE kind = "start-requested" -> "requesting-mic"
      [] kind = "mic-granted" -> "connecting"
      [] kind \in {"mic-denied", "connection-failed", "error"} -> "error"
      [] kind = "connected" -> IF screen = "connecting" THEN "live" ELSE screen
      [] kind = "ended" -> "ended"

Dispatch(c, kind) == [c EXCEPT !.screen = Show(c.screen, kind)]

\* Bound: as many sessions are asked for as there are rows.
Start(p) ==
    /\ ctl[p].at = "mounted"
    /\ Used + Cardinality(Expected) < MaxRows
    /\ ctl' = [ctl EXCEPT ![p] = [Dispatch(ctl[p], "start-requested")
                                    EXCEPT !.at = "creating"]]
    /\ request' = [request EXCEPT ![p] = [phase |-> "sent", row |-> None]]
    /\ UNCHANGED <<row, lost>>

\* cleanupMedia stops the tracks, closes the connection and clears the timers.
CleanupMedia(c) == [c EXCEPT !.holds = {}]

\* Mutant: a start that was cancelled keeps what it holds.
AbortStart_Keeps(c) == [c EXCEPT !.at = "aborting"]

AbortStart(c) == [CleanupMedia(c) EXCEPT !.at = "aborting"]

\* Mutant: the panel learns of the end only from the vault's answer.
Stop_Undispatched(c) ==
    IF c.at \in Starting THEN [c EXCEPT !.cancelled = TRUE]
    ELSE IF c.at = "active" THEN [CleanupMedia(c) EXCEPT !.at = "ending"]
    ELSE c

\* The effect of stop(reason) on a controller.
Stop(c) ==
    IF c.at \in Starting THEN [c EXCEPT !.cancelled = TRUE]
    ELSE IF c.at = "active" THEN [Dispatch(CleanupMedia(c), "ended") EXCEPT !.at = "ending"]
    ELSE c

\* The vault's answer; the start was cancelled meanwhile, or goes on.
Created(p) ==
    /\ ctl[p].at = "creating"
    /\ request[p].phase = "created"
    /\ LET c == [ctl[p] EXCEPT !.row = request[p].row] IN
        ctl' = [ctl EXCEPT ![p] = IF c.cancelled THEN AbortStart(c)
                                  ELSE [c EXCEPT !.at = "asking"]]
    /\ request' = [request EXCEPT ![p] = NoRequest]
    /\ UNCHANGED <<row, lost>>

Failed(c) == IF c.cancelled THEN c ELSE Dispatch(c, "connection-failed")

CreateRefused(p) ==
    /\ ctl[p].at = "creating"
    /\ request[p].phase = "refused"
    /\ ctl' = [ctl EXCEPT ![p] = [Failed(ctl[p]) EXCEPT !.at = "rest"]]
    /\ request' = [request EXCEPT ![p] = NoRequest]
    /\ UNCHANGED <<row, lost>>

\* Nobody waits for the request any longer; the API may go on with it.
Abandoned(p) ==
    IF request[p].phase \in {"created", "refused"}
    THEN [request EXCEPT ![p] = NoRequest] ELSE request
Orphan(p) == IF request[p].phase = "created" THEN {request[p].row} ELSE {}

CreateLost(p) ==
    /\ ctl[p].at = "creating"
    /\ ctl' = [ctl EXCEPT ![p] = [Failed(ctl[p]) EXCEPT !.at = "rest"]]
    /\ request' = Abandoned(p)
    /\ lost' = lost \cup Orphan(p)
    /\ UNCHANGED row

MicGranted(p) ==
    /\ ctl[p].at = "asking"
    /\ LET c == ctl[p] IN
        ctl' = [ctl EXCEPT ![p] =
            IF c.cancelled THEN AbortStart([c EXCEPT !.holds = {"mic"}])
            ELSE [Dispatch(c, "mic-granted") EXCEPT !.at = "offering",
                                                    !.holds = {"mic", "peer"}]]
    /\ UNCHANGED <<request, row, lost>>

MicDenied(p) ==
    /\ ctl[p].at = "asking"
    /\ ctl' = [ctl EXCEPT ![p] = AbortStart(Dispatch(ctl[p], "mic-denied"))]
    /\ UNCHANGED <<request, row, lost>>

Offered(p) ==
    /\ ctl[p].at = "offering"
    /\ LET c == ctl[p] IN
        ctl' = [ctl EXCEPT ![p] = IF c.cancelled THEN AbortStart(c)
                                  ELSE [c EXCEPT !.at = "handshake"]]
    /\ UNCHANGED <<request, row, lost>>

\* Mutant: the last checkpoint is missing.
Live_Unchecked(c) == [c EXCEPT !.at = "active", !.holds = Media, !.screen = "live"]

\* Mutant: the kind of the event is shown as the status.
Live_Kind(c) ==
    IF c.cancelled THEN AbortStart(c)
    ELSE [c EXCEPT !.at = "active", !.holds = Media, !.screen = "connected"]

Live(c) ==
    IF c.cancelled THEN AbortStart(c)
    ELSE [Dispatch(c, "connected") EXCEPT !.at = "active", !.holds = Media]

Connected(p) ==
    /\ ctl[p].at = "handshake"
    /\ ctl' = [ctl EXCEPT ![p] = Live(ctl[p])]
    /\ UNCHANGED <<request, row, lost>>

ConnectionFails(p) ==
    /\ ctl[p].at \in {"offering", "handshake"}
    /\ ctl' = [ctl EXCEPT ![p] = AbortStart([ctl[p] EXCEPT !.failing = TRUE])]
    /\ UNCHANGED <<request, row, lost>>

\* The API is told of the end, or the request is lost.
Told(r) ==
    \/ /\ row' = [row EXCEPT ![r] = IF @ \in Running THEN "ended" ELSE @]
       /\ UNCHANGED lost
    \/ /\ lost' = lost \cup {r}
       /\ UNCHANGED row

\* Mutant: a session that was minted for nothing is not reported.
Aborted_Silent(p) ==
    /\ ctl[p].at = "aborting"
    /\ ctl' = [ctl EXCEPT ![p] =
          [(IF ctl[p].failing THEN Failed(ctl[p]) ELSE ctl[p])
              EXCEPT !.at = "rest", !.row = None]]
    /\ UNCHANGED <<request, row, lost>>

Aborted(p) ==
    /\ ctl[p].at = "aborting"
    /\ Told(ctl[p].row)
    /\ ctl' = [ctl EXCEPT ![p] =
          [(IF ctl[p].failing THEN Failed(ctl[p]) ELSE ctl[p])
              EXCEPT !.at = "rest", !.row = None]]
    /\ UNCHANGED request

EndReported(p) ==
    /\ ctl[p].at = "ending"
    /\ Told(ctl[p].row)
    /\ ctl' = [ctl EXCEPT ![p] = [ctl[p] EXCEPT !.at = "rest", !.row = None]]
    /\ UNCHANGED request

\* The End button is there while the panel is busy or live.
End(p) ==
    /\ ctl[p].mounted
    /\ ctl[p].screen \in {"requesting-mic", "connecting", "live"}
    /\ ctl' = [ctl EXCEPT ![p] = Stop(ctl[p])]
    /\ UNCHANGED <<request, row, lost>>

\* The panel is closed, or the owner goes to another page of the app.
Unmount(p) ==
    /\ ctl[p].mounted
    /\ LET c == Stop(ctl[p]) IN
        ctl' = [ctl EXCEPT ![p] =
            [c EXCEPT !.mounted = FALSE, !.at = IF c.at = "mounted" THEN "rest" ELSE c.at]]
    /\ UNCHANGED <<request, row, lost>>

\* Mutant: only the idle timer is armed, and speech keeps putting it off.
MaxDuration_Unarmed(p) ==
    /\ "maxDurationTimer" \in ctl[p].holds
    /\ ctl' = [ctl EXCEPT ![p] = Stop(ctl[p])]
    /\ UNCHANGED <<request, row, lost>>

MaxDuration(p) ==
    /\ "timers" \in ctl[p].holds
    /\ ctl' = [ctl EXCEPT ![p] = Stop(ctl[p])]
    /\ UNCHANGED <<request, row, lost>>

\* Nothing was heard for a while, or the connection failed: the same end, earlier.
IdleOrDisconnected(p) ==
    /\ ctl[p].at = "active"
    /\ ctl' = [ctl EXCEPT ![p] = Stop(ctl[p])]
    /\ UNCHANGED <<request, row, lost>>

\* An error event of the provider changes only what the panel shows.
ProviderError(p) ==
    /\ ctl[p].at = "active"
    /\ ctl' = [ctl EXCEPT ![p] = Dispatch(ctl[p], "error")]
    /\ UNCHANGED <<request, row, lost>>

\* The controller of an unmounted panel is forgotten once it is at rest.
Forget(p) ==
    /\ ctl[p].at = "rest"
    /\ ~ ctl[p].mounted
    /\ ctl' = [ctl EXCEPT ![p] = Closed]
    /\ UNCHANGED <<request, row, lost>>

\* The tab is closed: nothing is sent.
PageGone(p) ==
    /\ ctl[p].at # "closed"
    /\ ctl' = [ctl EXCEPT ![p] = Closed]
    /\ request' = Abandoned(p)
    /\ lost' = lost \cup Orphan(p)
                    \cup (IF ctl[p].row = None THEN {} ELSE {ctl[p].row})
    /\ UNCHANGED row

-----------------------------------------------------------------------------
(* createVoiceSession *)

Answered(p, phase, r) ==
    request' = [request EXCEPT ![p] =
        IF ctl[p].at = "creating" THEN [phase |-> phase, row |-> r] ELSE NoRequest]

\* Mutant: the cap is only shown.
UnderCap_Ignored == TRUE

UnderCap == Used < Cap

CountSessions(p) ==
    /\ request[p].phase = "sent"
    /\ IF UnderCap THEN request' = [request EXCEPT ![p].phase = "counted"]
       ELSE Answered(p, "refused", None)
    /\ UNCHANGED <<ctl, row, lost>>

\* The provider mints a secret and the row is created; the count is not read again.
CreateVoiceSession(p) ==
    /\ request[p].phase = "counted"
    /\ LET r == Used + 1 IN
        /\ row' = [row EXCEPT ![r] = "live"]
        /\ Answered(p, "created", r)
        /\ lost' = IF ctl[p].at = "creating" THEN lost ELSE lost \cup {r}
    /\ UNCHANGED ctl

\* Not signed in, an unknown thread, no API key, the provider refuses.
RefuseSession(p) ==
    /\ request[p].phase \in {"sent", "counted"}
    /\ Answered(p, "refused", None)
    /\ UNCHANGED <<ctl, row, lost>>

\* The steps of the lifecycle in which the bridge has no part.
Lifecycle ==
    \E p \in Panels :
        \/ Start(p) \/ Created(p) \/ CreateRefused(p) \/ CreateLost(p)
        \/ MicGranted(p) \/ MicDenied(p) \/ Offered(p) \/ ConnectionFails(p)
        \/ Aborted(p) \/ EndReported(p) \/ End(p) \/ Unmount(p) \/ MaxDuration(p)
        \/ IdleOrDisconnected(p) \/ ProviderError(p) \/ Forget(p) \/ PageGone(p)
        \/ CountSessions(p) \/ CreateVoiceSession(p) \/ RefuseSession(p)

-----------------------------------------------------------------------------
(* Properties *)

\* The microphone, the connection and the timers are held only while a start is
\* past its grant or the session is live: every way out of start and stop lets
\* go of them before it reports to the vault (cleanupMedia).
MediaReleased ==
    \A p \in Panels : ctl[p].holds # {} => ctl[p].at \in {"offering", "handshake", "active"}

\* "The start's checkpoints release resources and end the minted session": a row
\* that still runs is one a controller is using or about to end, one whose
\* answer is under way, or one of which a message or a page was lost.
RunningRowsAreHeld ==
    \A r \in Rows : row[r] \in Running =>
        \/ r \in lost
        \/ \E p \in Panels : ctl[p].row = r \/ request[p].row = r

\* The panel shows a live session only while there is one, and does not show an
\* open microphone as closed: a dispatch that comes after an await does not undo
\* what happened meanwhile.
ScreenIsTrue ==
    \A p \in Panels :
        /\ ctl[p].screen = "live" => ctl[p].at = "active"
        /\ ctl[p].at = "active" => ctl[p].screen \in {"live", "error"}

\* A start that the owner cancelled never goes live, whichever await it was at
\* when stop set the flag.
CancelledNeverLive ==
    [][\A p \in Panels : ctl[p].cancelled => ctl'[p].at # "active"]_sessionVars

\* The daily cap is exceeded at most by the requests that were counted together:
\* the count is read before the provider is asked, and not again.
CapOvershoot == Used <= Cap + Cardinality(Panels) - 1

\* The microphone is not held for ever by anything but the provider: a start that
\* holds it gets to the handshake or lets go, and a session that is live is ended
\* by the timer at the latest, whatever the owner does.  The handshake itself has
\* no time limit, and ending or closing the panel meanwhile only sets a flag.
MicrophoneReleased ==
    \A p \in Panels :
        ("mic" \in ctl[p].holds)
            ~> ("mic" \notin ctl[p].holds \/ ctl[p].at = "handshake")
=============================================================================

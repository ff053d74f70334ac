---------------------------- MODULE VoiceBridge ----------------------------
(***************************************************************************)
(* What a live voice session says to the vault: the transcripts of the      *)
(* owner's utterances, which become messages of the thread, and the tool    *)
(* calls of the model, which are bound to the utterance they are about      *)
(* (voice-message-bridge.ts, voice-source-barrier.ts, and the turn and      *)
(* tool-call routes of the API).                                            *)
(*                                                                          *)
(* The provider's events arrive in any order: a tool call may come before   *)
(* the transcript it is about, a transcript after the next utterance has    *)
(* begun, twice, or with other words.                                       *)
(***************************************************************************)
EXTENDS VoiceSession

CONSTANTS
    Items,     \* the provider's ids of utterances
    Calls,     \* ids of tool calls
    Texts,     \* what a transcript can say
    Says       \* the transcripts an utterance can have

ASSUME BridgeAssumption == Says \in [Items -> SUBSET Texts]

VARIABLES
    latest,    \* per panel: latestSpeechItemId and latestSourceItemId
    barrier,   \* the source barrier: not started, open or finished
    heardIn,   \* the session in which an utterance was heard
    turn,      \* POSTs of transcripts on their way
    failed,    \* utterances for which a transcript request failed in the browser
    message,   \* the thread's message of an utterance
    call

bridgeVars == <<latest, barrier, heardIn, turn, failed, message, call>>
vars == <<sessionVars, bridgeVars>>

Turn == [item: Items, text: Texts, stage: {"sent", "stored", "refused"}]
Message == [text: Texts \cup {None}, extracted: BOOLEAN]
\* source is what the request carries, heard the latest source when the call came.
Call == [phase: {"none", "waiting", "sent", "ended", "done", "dropped"},
         panel: Panels \cup {None}, row: Rows \cup {None}, capture: BOOLEAN,
         heard: Items \cup {None}, source: Items \cup {None},
         timedOut: BOOLEAN, found: BOOLEAN]

NoCall == [phase |-> "none", panel |-> None, row |-> None, capture |-> FALSE,
           heard |-> None, source |-> None, timedOut |-> FALSE, found |-> FALSE]

TypeOK ==
    /\ SessionTypeOK
    /\ latest \in [Panels -> [speech: Items \cup {None}, source: Items \cup {None}]]
    /\ barrier \in [Items -> {"none", "open", "finished"}]
    /\ heardIn \in [Items -> Rows \cup {None}]
    /\ turn \subseteq Turn
    /\ failed \subseteq Items
    /\ message \in [Items -> Message]
    /\ call \in [Calls -> Call]

NothingHeard == [speech |-> None, source |-> None]

Init ==
    /\ SessionInit
    /\ latest = [p \in Panels |-> NothingHeard]
    /\ barrier = [i \in Items |-> "none"]
    /\ heardIn = [i \in Items |-> None]
    /\ turn = {}
    /\ failed = {}
    /\ message = [i \in Items |-> [text |-> None, extracted |-> FALSE]]
    /\ call = [c \in Calls |-> NoCall]

-----------------------------------------------------------------------------
(* Events of the data channel *)

Quiet == (\A i \in Items : heardIn[i] = None) /\ (\A c \in Calls : call[c].phase = "none")

\* Bound: what is said is followed in the owner's only session, with no other
\* panel open, and no panel is opened after it.
Alone(p) ==
    /\ Used = 1
    /\ \A q \in Panels \ {p} : ctl[q].at = "closed" /\ request[q].phase = "none"

Open(p) ==
    /\ Quiet
    /\ Mount(p)
    /\ UNCHANGED bridgeVars

\* An event of the data channel that the bridge recognises.
Hears(p) == ctl[p].at = "active" /\ Alone(p)

\* The bridge is reset when the connection is up.
Connect(p) ==
    /\ Connected(p)
    /\ latest' = [latest EXCEPT ![p] = NothingHeard]
    /\ UNCHANGED <<barrier, heardIn, turn, failed, message, call>>

\* The provider gives an utterance its own id; some events carry none.
SpeechStarted(p, i) ==
    /\ Hears(p)
    /\ i # None => heardIn[i] = None
    /\ latest' = [latest EXCEPT ![p] = [speech |-> i, source |-> i]]
    /\ IF i = None THEN UNCHANGED <<barrier, heardIn>>
       ELSE /\ barrier' = [barrier EXCEPT ![i] = "open"]
            /\ heardIn' = [heardIn EXCEPT ![i] = ctl[p].row]
    /\ UNCHANGED <<sessionVars, turn, failed, message, call>>

\* Mutant: the utterance transcribed last is taken for the latest one.
SourceAfter_Transcribed(p, i) == i

\* A late transcript of an older utterance does not take the place of the newer.
SourceAfter(p, i) ==
    IF latest[p].speech \in {None, i} THEN i ELSE latest[p].source

\* Empty text is not saved, and leaves the barrier open.
\* Bound: one request per utterance is on its way at a time.
TranscriptDone(p, i, text) ==
    /\ Hears(p)
    /\ heardIn[i] \in {None, ctl[p].row}
    /\ ~ \E t \in turn : t.item = i
    /\ heardIn' = [heardIn EXCEPT ![i] = ctl[p].row]
    /\ latest' = [latest EXCEPT ![p].source = SourceAfter(p, i)]
    /\ barrier' = [barrier EXCEPT ![i] = IF @ = "none" THEN "open" ELSE @]
    /\ turn' = IF text = None THEN turn
               ELSE turn \cup {[item |-> i, text |-> text, stage |-> "sent"]}
    /\ UNCHANGED <<sessionVars, failed, message, call>>

\* Mutant: nothing waits for the transcript.
MustWait_Never(capture, i) == FALSE

\* memory_capture_result and complete_memory_capture wait for their source.
MustWait(capture, i) == capture /\ i # None /\ barrier[i] # "none"

FunctionCall(p, c, capture) ==
    LET i == latest[p].source IN
    /\ Hears(p)
    /\ call[c].phase = "none"
    /\ call' = [call EXCEPT ![c] =
          [phase |-> IF MustWait(capture, i) THEN "waiting" ELSE "sent",
           panel |-> p, row |-> ctl[p].row, capture |-> capture,
           heard |-> i, source |-> i, timedOut |-> FALSE, found |-> FALSE]]
    /\ UNCHANGED <<sessionVars, latest, barrier, heardIn, turn, failed, message>>

-----------------------------------------------------------------------------
(* Waiting for the source *)

\* Mutant: the source is read after the wait.
SourceOf_Latest(k) == latest[k.panel].source

\* "Bind before waiting so a newer utterance cannot steal this tool call."
SourceOf(k) == k.source

\* Mutant: the session is not looked at again.
StillOpen_Unchecked(k) == TRUE

\* The same controller, with the same configuration.
StillOpen(k) == Config(k.panel) = k.row

Proceed(c, timedOut) ==
    LET k == call[c] IN
    call' = [call EXCEPT ![c] =
        IF StillOpen(k)
        THEN [k EXCEPT !.phase = "sent", !.source = SourceOf(k), !.timedOut = timedOut]
        ELSE [k EXCEPT !.phase = "dropped"]]

WaitEnds(c) ==
    /\ call[c].phase = "waiting"
    /\ barrier[call[c].source] = "finished"
    /\ Proceed(c, FALSE)
    /\ UNCHANGED <<sessionVars, latest, barrier, heardIn, turn, failed, message>>

\* Mutant: the wait has no limit.
WaitTimesOut_Never(c) ==
    /\ call[c].phase = "waiting"
    /\ barrier[call[c].source] = "finished"
    /\ Proceed(c, TRUE)
    /\ UNCHANGED <<sessionVars, latest, barrier, heardIn, turn, failed, message>>

WaitTimesOut(c) ==
    /\ call[c].phase = "waiting"
    /\ Proceed(c, TRUE)
    /\ UNCHANGED <<sessionVars, latest, barrier, heardIn, turn, failed, message>>

-----------------------------------------------------------------------------
(* The API: turns *)

\* Mutant: the last transcript is kept.
Admits_Changed(i, text) == TRUE

\* One message per utterance; the same words again are the same message.
Admits(i, text) == message[i].text \in {None, text}

\* An utterance whose message is stored too long after the end is not extracted.
InTime(i) == row[heardIn[i]] # "late"

\* persistVoiceTurn, under the lock of the session's row.  Ownership is enough:
\* transcripts may be finalised after the end, but late ones are not extracted.
StoreTurn(t) ==
    /\ t.stage = "sent"
    /\ turn' = (turn \ {t}) \cup
          {[t EXCEPT !.stage = IF Admits(t.item, t.text) THEN "stored" ELSE "refused"]}
    /\ message' = [message EXCEPT ![t.item] =
          IF Admits(t.item, t.text)
          THEN [text |-> t.text,
                extracted |-> IF @.text = None THEN InTime(t.item) ELSE @.extracted]
          ELSE @]
    /\ UNCHANGED <<sessionVars, latest, barrier, heardIn, failed, call>>

\* The answer, once the API has also processed the message: the wait is over
\* whether it was stored or not.
TurnAnswered(t) ==
    /\ t.stage # "sent"
    /\ turn' = turn \ {t}
    /\ barrier' = [barrier EXCEPT ![t.item] = "finished"]
    /\ failed' = IF t.stage = "refused" THEN failed \cup {t.item} ELSE failed
    /\ UNCHANGED <<sessionVars, latest, heardIn, message, call>>

\* The request fails in the browser, before or after the API has seen it.
TurnLost(t) ==
    /\ barrier[t.item] = "open"
    /\ barrier' = [barrier EXCEPT ![t.item] = "finished"]
    /\ failed' = failed \cup {t.item}
    /\ turn' = IF t.stage = "sent" THEN turn ELSE turn \ {t}
    /\ UNCHANGED <<sessionVars, latest, heardIn, message, call>>

-----------------------------------------------------------------------------
(* The API: tool calls *)

\* requireLiveVoiceSession: a session that is overdue is ended here.
IsLive(r) == row[r] = "live"

\* The source is looked up once the session was found live; a message does not
\* go away, so one step stands for both.
ExecuteToolCall(c) ==
    LET k == call[c] IN
    /\ k.phase = "sent"
    /\ IF IsLive(k.row)
       THEN /\ call' = [call EXCEPT ![c].phase = "done",
                   ![c].found = k.source # None /\ message[k.source].text # None]
            /\ UNCHANGED <<ctl, row>>
       ELSE /\ call' = [call EXCEPT ![c].phase = "ended"]
            /\ row' = [row EXCEPT ![k.row] = IF @ = "overdue" THEN "ended" ELSE @]
            /\ UNCHANGED ctl
    /\ UNCHANGED <<request, lost, latest, barrier, heardIn, turn, failed, message>>

\* A conflict says that the session is over: the controller winds down.
ToolRefused(c) ==
    LET k == call[c] IN
    /\ k.phase = "ended"
    /\ ctl' = IF ctl[k.panel].row = k.row THEN [ctl EXCEPT ![k.panel] = Stop(ctl[k.panel])]
              ELSE ctl
    /\ call' = [call EXCEPT ![c].phase = "dropped"]
    /\ UNCHANGED <<request, row, lost, latest, barrier, heardIn, turn, failed, message>>

\* No answer: the model is told that the bridge is unavailable.
ToolLost(c) ==
    /\ call[c].phase \in {"sent", "ended"}
    /\ call' = [call EXCEPT ![c].phase = "dropped"]
    /\ UNCHANGED <<sessionVars, latest, barrier, heardIn, turn, failed, message>>

\* The maximum duration passes, or the time in which transcripts are awaited.
\* Only turns and tool calls can tell.
TimePasses(r) ==
    /\ ~ Quiet
    /\ row[r] \in {"live", "ended"}
    /\ row' = [row EXCEPT ![r] = IF @ = "live" THEN "overdue" ELSE "late"]
    /\ UNCHANGED <<ctl, request, lost, bridgeVars>>

Bridge ==
    \/ \E p \in Panels :
        \/ Open(p) \/ Connect(p)
        \/ \E i \in Items \cup {None} : SpeechStarted(p, i)
        \/ \E i \in Items : \E text \in Says[i] \cup {None} : TranscriptDone(p, i, text)
        \/ \E c \in Calls, capture \in BOOLEAN : FunctionCall(p, c, capture)
    \/ \E t \in turn : StoreTurn(t) \/ TurnAnswered(t) \/ TurnLost(t)
    \/ \E c \in Calls :
        \/ WaitEnds(c) \/ WaitTimesOut(c)
        \/ ExecuteToolCall(c) \/ ToolRefused(c) \/ ToolLost(c)
    \/ \E r \in Rows : TimePasses(r)

Next == (Lifecycle /\ UNCHANGED bridgeVars) \/ Bridge

\* Timers fire, the browser makes its offer, and tool calls are answered by the
\* vault or fail.  Nothing is owed by the owner, or by the provider: the handshake
\* with it has no time limit.
Fairness ==
    /\ \A p \in Panels :
        /\ WF_vars(Offered(p) /\ UNCHANGED bridgeVars)
        /\ WF_vars(MaxDuration(p) /\ UNCHANGED bridgeVars)
    /\ \A c \in Calls :
        /\ WF_vars(WaitTimesOut(c))
        /\ WF_vars(ExecuteToolCall(c) \/ ToolRefused(c) \/ ToolLost(c))

Spec == Init /\ [][Next]_vars /\ Fairness

-----------------------------------------------------------------------------
(* Properties *)

\* "Starting a new utterance does not rebind an already waiting call": the
\* request carries the utterance that was the latest when the model called.
BoundWhenHeard ==
    \A c \in Calls : call[c].phase # "none" => call[c].source = call[c].heard

\* A call about an utterance does not reach the API before the utterance's
\* message, unless its transcript could not be saved or the wait timed out.
CaptureFindsItsSource ==
    \A c \in Calls :
        LET k == call[c] IN
        (k.phase = "done" /\ k.capture /\ k.source # None) =>
            k.found \/ k.timedOut \/ k.source \in failed

\* The latest utterance stays the source of new calls when the transcript of an
\* older one is finalised after it.
LatestSpeechIsSource ==
    \A p \in Panels : latest[p].speech # None => latest[p].source = latest[p].speech

\* "Changed text is a conflict": what an utterance said is stored once, whatever
\* order the requests arrive in, and nothing replaces it.
TranscriptIsFinal ==
    [][\A i \in Items : message[i].text # None => message'[i] = message[i]]_vars

\* A call that waited is not sent for a session that has ended meanwhile: the
\* configuration is compared again after the wait.
NotSentAfterEnd ==
    [][\A c \in Calls : (call[c].phase = "waiting" /\ call'[c].phase = "sent") =>
            Config(call[c].panel) = call[c].row]_vars

\* A panel holds what it shows: the microphone and the connection are held only
\* by a start past its grant or a live session, the screen tells the same, a
\* running session has a panel or a request behind it, and requests counted
\* together exceed the daily cap by no more than their number.
PanelsHoldWhatTheyShow ==
    MediaReleased /\ RunningRowsAreHeld /\ ScreenIsTrue /\ CapOvershoot

\* A tool call is bound to the utterance it was made for, which the server has
\* stored when it uses it, and the latest utterance is the one the next call is
\* bound to.
SpeechFindsItsSource == BoundWhenHeard /\ CaptureFindsItsSource /\ LatestSpeechIsSource

\* What ended stays ended: a cancelled start never goes live, a stored transcript
\* never changes, and a call that waited is not sent after its session's end.
EndedStaysEnded == CancelledNeverLive /\ TranscriptIsFinal /\ NotSentAfterEnd

\* Every tool call is answered or dropped in the end: a transcript that is lost,
\* or empty, does not hang the model.
CallsSettle ==
    \A c \in Calls : (call[c].phase # "none") ~> (call[c].phase \in {"done", "dropped"})
=============================================================================

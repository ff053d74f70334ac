---------------------------- MODULE MemoryEditor -----------------------------
(***************************************************************************)
(* The memory page: the address names the memory shown, a form edits it or  *)
(* creates another, and a dialog confirms deletions.  The owner's clicks    *)
(* start navigations that arrive later, and Back changes the address under  *)
(* an open form or dialog.  The page knows memories as it last heard of     *)
(* them, while other sessions change them.  A form's values are kept as     *)
(* whose they are and the status they set.  The effect that closes a form   *)
(* whose memory is no longer selected runs with the render that shows the   *)
(* new address.  A memory that has expired is as good as ACTIVE here.       *)
(***************************************************************************)
EXTENDS Naturals, FiniteSets

CONSTANTS
    Memories,       \* memory ids
    None, Nowhere   \* no memory selected; no navigation under way

VARIABLES
    stored,         \* the status of each memory on the server; "none" before creation
    shown,          \* the status the page last heard of it; "none" if it has not
    url,            \* the memory the address names
    going,          \* the navigation under way
    form,           \* the editor
    ask,            \* the open dialog
    sending         \* the request in flight

editorVars == <<stored, shown, url, going, form, ask, sending>>

Statuses == {"ACTIVE", "ARCHIVED", "DELETED"}

NoForm == [mode |-> "closed", id |-> None, status |-> "ACTIVE"]

EditorInit ==
    /\ stored \in [Memories -> {"none", "ACTIVE", "ARCHIVED"}]
    /\ shown = [m \in Memories |-> "none"]
    /\ url = None /\ going = Nowhere
    /\ form = NoForm
    /\ ask = None
    /\ sending = None

\* selectedMemory: there is none while the page has not heard of it.
Known(m) == m # None /\ shown[m] # "none"

\* Of the page's buttons, those of a selected memory and of a form rest while
\* a request is in flight, and all of them behind a dialog.
Idle == ask = None /\ sending = None

-----------------------------------------------------------------------------

\* A form of a memory that is no longer selected is left open.
CloseEffect_None(f, u) == f

CloseEffect(f, u) == IF f.id # None /\ f.id # u THEN NoForm ELSE f

SelectMemory(m) ==
    /\ ask = None /\ Known(m)
    /\ form' = NoForm
    /\ going' = m
    /\ UNCHANGED <<stored, shown, url, ask, sending>>

StartCreate ==
    /\ ask = None
    /\ form' = [NoForm EXCEPT !.mode = "create"]
    /\ going' = None
    /\ UNCHANGED <<stored, shown, url, ask, sending>>

\* The address changes: a navigation arrives, or the owner goes back.
Arrive(m) ==
    /\ url' = m
    /\ form' = CloseEffect(form, m)
    /\ UNCHANGED <<stored, shown, ask, sending>>

Navigate == going # Nowhere /\ Arrive(going) /\ going' = Nowhere

Back(m) == (m # None => stored[m] # "none") /\ Arrive(m) /\ UNCHANGED going

StartEdit ==
    /\ Idle /\ Known(url)
    /\ form' = [mode |-> "edit", id |-> url, status |-> shown[url]]
    /\ UNCHANGED <<stored, shown, url, going, ask, sending>>

SetStatus(status) ==
    /\ ask = None /\ form.mode = "edit"
    /\ form' = [form EXCEPT !.status = status]
    /\ UNCHANGED <<stored, shown, url, going, ask, sending>>

CancelEditor ==
    /\ ask = None
    /\ form' = NoForm
    /\ UNCHANGED <<stored, shown, url, going, ask, sending>>

\* A request, the dialog that was answered for it, and what the page knew of its
\* memory when it was sent.
Request(op, m, status, named) ==
    sending' = [op |-> op, id |-> m, status |-> status, named |-> named,
                knew |-> IF m = None THEN "none" ELSE shown[m], at |-> "sent"]

\* Deleting by the form is confirmed, unless the memory selected is deleted as
\* far as the page knows.
AsksFirst(f) ==
    f.mode = "edit" /\ f.status = "DELETED" /\ ~ (Known(url) /\ shown[url] = "DELETED")

SaveMemory ==
    /\ Idle /\ form.mode # "closed"
    /\ IF AsksFirst(form)
       THEN /\ ask' = [op |-> "update", id |-> form.id] /\ UNCHANGED sending
       ELSE /\ Request(IF form.mode = "edit" THEN "update" ELSE "create",
                       form.id, form.status, None)
            /\ UNCHANGED ask
    /\ UNCHANGED <<stored, shown, url, going, form>>

\* Archive, or restore what is shown as archived.
PatchSelected ==
    /\ Idle /\ Known(url)
    /\ Request("patch", url, IF shown[url] = "ARCHIVED" THEN "ACTIVE" ELSE "ARCHIVED", None)
    /\ UNCHANGED <<stored, shown, url, going, form, ask>>

ConfirmDeleteSelected ==
    /\ Idle /\ Known(url)
    /\ ask' = [op |-> "remove", id |-> url]
    /\ UNCHANGED <<stored, shown, url, going, form, sending>>

\* The memory the dialog named, not the one the address names by now.
Confirmed_Selected(a) == IF url = None THEN a.id ELSE url

Confirmed(a) == a.id

Confirm ==
    /\ ask # None
    /\ Request(ask.op, Confirmed(ask), "DELETED", ask.id)
    /\ ask' = None
    /\ UNCHANGED <<stored, shown, url, going, form>>

Dismiss ==
    /\ ask # None /\ ask' = None
    /\ UNCHANGED <<stored, shown, url, going, form, sending>>

-----------------------------------------------------------------------------

Serve ==
    /\ sending # None /\ sending.at = "sent"
    /\ \E m \in Memories :
        /\ IF sending.op = "create" THEN stored[m] = "none" ELSE m = sending.id
        /\ stored' = [stored EXCEPT ![m] = sending.status]
        /\ sending' = [sending EXCEPT !.at = "done", !.id = m]
    /\ UNCHANGED <<shown, url, going, form, ask>>

\* The page keeps the answer; the form closes, whichever it is, and the page goes
\* to the memory.
Performed ==
    /\ sending # None /\ sending.at = "done"
    /\ shown' = [shown EXCEPT ![sending.id] = sending.status]
    /\ form' = NoForm
    /\ going' = IF sending.status = "DELETED" THEN None ELSE sending.id
    /\ sending' = None
    /\ UNCHANGED <<stored, url, ask>>

\* Before or after it was carried out.
Fails ==
    /\ sending # None /\ sending' = None
    /\ UNCHANGED <<stored, shown, url, going, form, ask>>

\* The list or the selected memory is fetched.
Fetch(m) ==
    /\ stored[m] # "none" /\ shown[m] # stored[m]
    /\ shown' = [shown EXCEPT ![m] = stored[m]]
    /\ UNCHANGED <<stored, url, going, form, ask, sending>>

\* Another session updates or deletes the memory.
OtherSession(m, status) ==
    /\ stored[m] \notin {"none", status}
    /\ stored' = [stored EXCEPT ![m] = status]
    /\ UNCHANGED <<shown, url, going, form, ask, sending>>

EditorNext ==
    \/ \E m \in Memories : SelectMemory(m) \/ Fetch(m)
    \/ \E m \in Memories, status \in Statuses : OtherSession(m, status)
    \/ \E m \in Memories \cup {None} : Back(m)
    \/ \E status \in Statuses : SetStatus(status)
    \/ StartCreate \/ Navigate \/ StartEdit \/ CancelEditor
    \/ SaveMemory \/ PatchSelected \/ ConfirmDeleteSelected
    \/ Confirm \/ Dismiss
    \/ Serve \/ Performed \/ Fails

EditorSpec == EditorInit /\ [][EditorNext]_editorVars

-----------------------------------------------------------------------------

EditorTypeOK ==
    /\ stored \in [Memories -> Statuses \cup {"none"}]
    /\ shown \in [Memories -> Statuses \cup {"none"}]
    /\ url \in Memories \cup {None} /\ going \in Memories \cup {None, Nowhere}
    /\ form \in [mode : {"closed", "create", "edit"}, id : Memories \cup {None},
                 status : Statuses]

\* When a request of this page deletes a memory, a dialog had named that memory,
\* or the page took that very memory for deleted when the form was saved: it was
\* restored elsewhere, or by a request whose answer was lost.  The address may
\* change under the dialog and under the form.
OnlyConfirmedIsDeleted ==
    LET served == sending # None /\ sending.at = "sent" /\ sending' # None
                    /\ sending'.at = "done"
    IN  \A m \in Memories :
          served /\ stored[m] # "DELETED" /\ stored'[m] = "DELETED" =>
             \/ sending.named = m
             \/ sending.id = m /\ sending.knew = "DELETED"
=============================================================================

---------------------------- MODULE VaultTransfer ----------------------------
(***************************************************************************)
(* Export and import of a vault: vault-export.service, vault-import.service *)
(* with its writer and mappers (apps/api/src/data-control), and the panels  *)
(* of the settings page (apps/web/src/features/settings/data).              *)
(*                                                                          *)
(* An export is read with several statements while the owner goes on        *)
(* working, and is validated by the browser before it is downloaded.  An    *)
(* import is one transaction; it gives everything new identifiers, trusts   *)
(* nobody, and stays out of rows that exist.  A file and its preview are    *)
(* held by the panel, where the text may change at any time.                *)
(***************************************************************************)
EXTENDS Naturals, FiniteSets, Sequences

CONSTANTS
    Rows,        \* ids of memories
    Apps,        \* ids of clients
    Files,       \* files on the owner's disk
    Imports,     \* import requests
    MaxCopies,   \* bound on the numbers of the imported copies of a name
    MaxDepth,    \* bound on how often a name was imported
    MaxJobs,     \* bound on finished imports
    MaxEdits,    \* bound on what the owner does meanwhile
    None

VARIABLES
    row,         \* memories
    passed,      \* the one date at which memories expire is past
    edits,       \* how often the owner edited the vault
    app,         \* clients and their policies
    queued,      \* kinds of suggestions waiting: state and date of the exported memory
    jobs,        \* finished imports
    reading,     \* the export under way
    file,
    panel,
    import

vars == <<row, passed, edits, app, queued, jobs, reading, file, panel, import>>

Statuses == {"ACTIVE", "ARCHIVED", "EXPIRED", "DELETED"}
Modes == {"SUGGESTIONS", "ACTIVE_MEMORIES"}

\* dated: it has an expiration date.  dormant: an import brought it, could see
\* that it was archived or had expired, and the owner has not changed it since.
Row == [status: Statuses, dated: BOOLEAN, source: Apps \cup {None}, dormant: BOOLEAN]
Queued == [status: Statuses, dated: BOOLEAN]
\* The owner's name for a client is <<>>; Append(name, n) is its n-th imported copy.
Name == UNION {[1..k -> 1..MaxCopies] : k \in 0..MaxDepth}
App == [name: Name, trusted: BOOLEAN, token: BOOLEAN, policy: BOOLEAN]
Export == [memories: SUBSET (Rows \X Row), clients: SUBSET (Apps \X Name),
           policies: SUBSET Apps]
Reads == {"memories", "clients", "policies"}
\* shown is the file the preview is of.
Panel == [text: Files \cup {None}, mode: Modes, shown: Files \cup {None},
          previewing: Files \cup {None}, dialog: BOOLEAN,
          busy: Imports \cup {None}]
Import == [phase: {"free", "sent", "writing"}, file: Files \cup {None}, mode: Modes,
           names: SUBSET Name]

NoExport == [memories |-> {}, clients |-> {}, policies |-> {}]
Idle == [text |-> None, mode |-> "SUGGESTIONS", shown |-> None, previewing |-> None,
         dialog |-> FALSE, busy |-> None]
NoImport == [phase |-> "free", file |-> None, mode |-> "SUGGESTIONS", names |-> {}]

Live == {r \in Rows : row[r] # None}
Known == {a \in Apps : app[a] # None}
Names == {app[a].name : a \in Known}
Lapsed(m) == m.dated /\ passed
\* What retrieval may hand out.
Retrievable(m) == m.status = "ACTIVE" /\ ~ Lapsed(m)
OwnersClient == [name |-> <<>>, trusted |-> TRUE, token |-> TRUE, policy |-> FALSE]

TypeOK ==
    /\ row \in [Rows -> Row \cup {None}]
    /\ app \in [Apps -> App \cup {None}]
    /\ passed \in BOOLEAN
    /\ edits \in 0..MaxEdits
    /\ queued \subseteq Queued
    /\ jobs \in 0..MaxJobs
    /\ reading = None \/ reading \in [left: SUBSET Reads, got: Export]
    /\ file \in [Files -> Export \cup {None}]
    /\ panel \in Panel
    /\ import \in [Imports -> Import]

\* One client with a token, and a memory it told.
Init ==
    \E dated \in BOOLEAN :
      LET r == CHOOSE x \in Rows : TRUE
          a == CHOOSE x \in Apps : TRUE IN
        /\ passed = FALSE
        /\ edits = 0
        /\ row = [x \in Rows |-> IF x = r
                    THEN [status |-> "ACTIVE", dated |-> dated, source |-> a, dormant |-> FALSE]
                    ELSE None]
        /\ app = [x \in Apps |-> IF x = a THEN OwnersClient ELSE None]
        /\ queued = {}
        /\ jobs = 0
        /\ reading = None
        /\ file = [f \in Files |-> None]
        /\ panel = Idle
        /\ import = [i \in Imports |-> NoImport]

-----------------------------------------------------------------------------
(* What the owner does meanwhile *)

Edit ==
    /\ edits < MaxEdits
    /\ edits' = edits + 1

\* updateMemory, and the archival of what has expired: any status, with or
\* without a date.
UpdateMemory(r, status, dated) ==
    /\ r \in Live
    /\ Edit
    /\ <<row[r].status, row[r].dated>> # <<status, dated>>
    /\ row' = [row EXCEPT ![r].status = status, ![r].dated = dated, ![r].dormant = FALSE]
    /\ UNCHANGED <<passed, app, queued, jobs, reading, file, panel, import>>

\* The owner approves a suggestion as it was offered: the memory is ACTIVE and
\* expires when the exported one did.  Others of its kind may go on waiting.
ApproveQueued(r, q) ==
    /\ q \in queued
    /\ r \notin Live
    /\ row' = [row EXCEPT ![r] = [status |-> "ACTIVE", dated |-> q.dated, source |-> None,
                                  dormant |-> Lapsed(q)]]
    /\ queued' \in {queued, queued \ {q}}
    /\ UNCHANGED <<passed, edits, app, jobs, reading, file, panel, import>>

DatePasses ==
    /\ ~ passed
    /\ passed' = TRUE
    /\ UNCHANGED <<row, edits, app, queued, jobs, reading, file, panel, import>>

\* A client is registered, under a name of its own.
CreateClient(a) ==
    /\ a \notin Known
    /\ <<>> \notin Names
    /\ Edit
    /\ app' = [app EXCEPT ![a] = OwnersClient]
    /\ UNCHANGED <<passed, row, queued, jobs, reading, file, panel, import>>

CreatePolicy(a) ==
    /\ a \in Known
    /\ ~ app[a].policy
    /\ Edit
    /\ app' = [app EXCEPT ![a].policy = TRUE]
    /\ UNCHANGED <<passed, row, queued, jobs, reading, file, panel, import>>

\* The policy of a client goes with it; memories it told remain.
DeleteClient(a) ==
    /\ a \in Known
    /\ Edit
    /\ app' = [app EXCEPT ![a] = None]
    /\ row' = [r \in Rows |-> IF row[r] # None /\ row[r].source = a
                              THEN [row[r] EXCEPT !.source = None] ELSE row[r]]
    /\ UNCHANGED <<passed, queued, jobs, reading, file, panel, import>>

-----------------------------------------------------------------------------
(* Export *)

\* buildMemoryExportWhere, without filters: all but deleted memories, and
\* archived ones if they are asked for.
ExportedRows(archived) ==
    {<<r, row[r]>> : r \in {x \in Live : row[x].status # "DELETED" /\
                                   (archived \/ row[x].status # "ARCHIVED")}}

StartExport ==
    /\ reading = None
    /\ \E f \in Files : file[f] = None
    /\ reading' = [left |-> Reads, got |-> NoExport]
    /\ UNCHANGED <<passed, row, edits, app, queued, jobs, file, panel, import>>

\* exportVault: the statements are sent together and answered in any order.
ReadPart(part, archived) ==
    /\ reading # None
    /\ part \in reading.left
    /\ reading' =
          [left |-> reading.left \ {part},
           got |-> CASE part = "memories" ->
                          [reading.got EXCEPT !.memories = ExportedRows(archived)]
                     [] part = "clients" -> [reading.got EXCEPT !.clients = {<<a, app[a].name>> : a \in Known}]
                     [] OTHER ->
                          [reading.got EXCEPT !.policies = {a \in Known : app[a].policy}]]
    /\ UNCHANGED <<passed, row, edits, app, queued, jobs, file, panel, import>>

\* vaultExportSchema: a policy must have its client in the file.
Valid(x) == x.policies \subseteq {c[1] : c \in x.clients}

\* The browser parses the answer with vaultExportResponseSchema.
Accepted(x) == Valid(x)

Download(f) ==
    /\ reading # None
    /\ reading.left = {}
    /\ file[f] = None
    /\ Accepted(reading.got)
    /\ file' = [file EXCEPT ![f] = reading.got]
    /\ reading' = None
    /\ UNCHANGED <<passed, row, edits, app, queued, jobs, panel, import>>

ExportFails ==
    /\ reading # None
    /\ reading' = None
    /\ UNCHANGED <<passed, row, edits, app, queued, jobs, file, panel, import>>

-----------------------------------------------------------------------------
(* The import panel *)

\* loadImportFile, and typing in the text area: the preview is dropped.
Load(f) ==
    /\ file[f] # None
    /\ panel.text # f
    /\ ~ panel.dialog
    /\ panel' = [panel EXCEPT !.text = f, !.shown = None]
    /\ UNCHANGED <<passed, row, edits, app, queued, jobs, reading, file, import>>

SetMode(mode) ==
    /\ ~ panel.dialog
    /\ panel.mode # mode
    /\ panel' = [panel EXCEPT !.mode = mode]
    /\ UNCHANGED <<passed, row, edits, app, queued, jobs, reading, file, import>>

Busy == panel.previewing # None \/ panel.busy # None

PreviewImport ==
    /\ ~ Busy
    /\ ~ panel.dialog
    /\ panel.text # None
    /\ panel' = [panel EXCEPT !.previewing = panel.text]
    /\ UNCHANGED <<passed, row, edits, app, queued, jobs, reading, file, import>>

\* The answer is shown whatever the text is by now.
PreviewAnswered ==
    /\ panel.previewing # None
    /\ panel' = [panel EXCEPT !.previewing = None,
                              !.shown = IF Valid(file[panel.previewing])
                                        THEN panel.previewing ELSE None]
    /\ UNCHANGED <<passed, row, edits, app, queued, jobs, reading, file, import>>

PreviewFails ==
    /\ panel.previewing # None
    /\ panel' = [panel EXCEPT !.previewing = None, !.shown = None]
    /\ UNCHANGED <<passed, row, edits, app, queued, jobs, reading, file, import>>

\* importIsHighImpact, of what is shown.
HighImpact ==
    panel.mode = "ACTIVE_MEMORIES" \/ file[panel.shown].clients # {}

Send(i, text, mode) ==
    /\ import[i].phase = "free"
    /\ import' = [import EXCEPT ![i] = [NoImport EXCEPT !.phase = "sent", !.file = text,
                                                        !.mode = mode]]
    /\ panel' = [panel EXCEPT !.busy = i, !.dialog = FALSE]

\* applyImport, up to the dialog or the request.
ApplyImport(i) ==
    /\ ~ Busy
    /\ ~ panel.dialog
    /\ panel.text # None /\ panel.shown # None
    /\ IF HighImpact
       THEN /\ panel' = [panel EXCEPT !.dialog = TRUE]
            /\ UNCHANGED import
       ELSE Send(i, panel.text, panel.mode)
    /\ UNCHANGED <<passed, row, edits, app, queued, jobs, reading, file>>

\* The dialog is modal: it goes on with what the panel held when it was opened.
Confirm(i) ==
    /\ panel.dialog
    /\ Send(i, panel.text, panel.mode)
    /\ UNCHANGED <<passed, row, edits, app, queued, jobs, reading, file>>

Dismiss ==
    /\ panel.dialog
    /\ panel' = [panel EXCEPT !.dialog = FALSE]
    /\ UNCHANGED <<passed, row, edits, app, queued, jobs, reading, file, import>>

\* The answer of an import that may or may not have been carried out is lost.
ImportLost(i) ==
    /\ panel.busy = i
    /\ panel' = [panel EXCEPT !.busy = None]
    /\ UNCHANGED <<passed, row, edits, app, queued, jobs, reading, file, import>>

-----------------------------------------------------------------------------
(* Import *)

\* importClients begins with the names that are taken.
BeginImport(i) ==
    /\ import[i].phase = "sent"
    /\ import' = [import EXCEPT ![i].phase = "writing", ![i].names = Names]
    /\ UNCHANGED <<passed, row, edits, app, queued, jobs, reading, file, panel>>

\* uniqueImportName: the first copy of the name that nobody has.
FreeCopies(base, names) == {n \in 1..MaxCopies : Append(base, n) \notin names}
UniqueImportName(base, names) ==
    Append(base, CHOOSE n \in FreeCopies(base, names) :
                    \A k \in FreeCopies(base, names) : n <= k)

\* Mutant: a client of the same name is taken for the imported one.
MappedClient_ByName(a, fresh) == IF a \in Known THEN a ELSE fresh

\* clientIdMap: an imported client is a new one.
MappedClient(a, fresh) == fresh

\* Mutant: what the file does not map keeps its identifier.
ImportedClient_Kept(x, a, fresh) ==
    IF \E c \in x.clients : c[1] = a THEN MappedClient(a, fresh) ELSE a

\* What an identifier of the file stands for: nothing, if the client is not in
\* the file, which its memories, read by another statement, may still name.
ImportedClient(x, a, fresh) ==
    IF \E c \in x.clients : c[1] = a THEN MappedClient(a, fresh) ELSE None

\* Mutant: only the date is looked at.
ImportedActiveStatus_Dates(m) ==
    IF m.status = "ARCHIVED" THEN "ARCHIVED" ELSE IF Lapsed(m) THEN "EXPIRED" ELSE "ACTIVE"

\* A restore keeps the exported lifecycle state, by the time of the import.
ImportedActiveStatus(m) ==
    IF m.status = "ARCHIVED" THEN "ARCHIVED"
    ELSE IF m.status = "EXPIRED" \/ Lapsed(m) THEN "EXPIRED" ELSE "ACTIVE"

\* Mutant: in review mode everything is offered for review.
Restored_None(m, mode) == mode = "ACTIVE_MEMORIES"

\* In review mode archived memories are restored directly.
Restored(m, mode) == mode = "ACTIVE_MEMORIES" \/ m.status = "ARCHIVED"

\* restoreExportedMemory
RestoreExportedMemory(m, source) ==
    [status |-> ImportedActiveStatus(m), dated |-> m.dated, source |-> source,
     dormant |-> m.status \in {"ARCHIVED", "EXPIRED"} \/ Lapsed(m)]

\* importVault, one transaction.  Bounds: a file with at most one client and at
\* most one memory to restore, and room for what it creates.
CommitImport(i) ==
    LET x == file[import[i].file]
        memories == {p[2] : p \in x.memories}
        restored == {m \in memories : Restored(m, import[i].mode)}
        free == Apps \ Known
        open == Rows \ Live
        rename(c) == UniqueImportName(c[2], import[i].names) IN
    /\ import[i].phase = "writing"
    /\ Valid(x)
    /\ Cardinality(x.clients) <= 1 /\ Cardinality(restored) <= 1
    /\ \A c \in x.clients :
          /\ FreeCopies(c[2], import[i].names) # {} /\ Len(c[2]) < MaxDepth
          /\ rename(c) \notin Names          \* unique by owner and name
    /\ jobs < MaxJobs
    /\ \E fresh \in IF x.clients = {} THEN {None} ELSE free :
       \E place \in IF restored = {} THEN {None} ELSE open :
          LET clientId(a) == ImportedClient(x, a, fresh) IN
          /\ app' = [a \in Apps |->
                IF \E c \in x.clients : clientId(c[1]) = a
                THEN [name |-> rename(CHOOSE c \in x.clients : TRUE),
                      trusted |-> FALSE, token |-> FALSE,
                      policy |-> \E b \in x.policies : clientId(b) = a]
                ELSE app[a]]
          /\ row' = [r \in Rows |->
                IF r = place
                THEN LET m == CHOOSE m \in restored : TRUE
                     IN RestoreExportedMemory(m, clientId(m.source))
                ELSE row[r]]
    /\ queued' = queued \cup {[status |-> m.status, dated |-> m.dated] : m \in memories \ restored}
    /\ jobs' = jobs + 1
    /\ import' = [import EXCEPT ![i] = NoImport]
    /\ panel' = IF panel.busy = i
                THEN [panel EXCEPT !.busy = None, !.shown = None, !.text = None]
                ELSE panel
    /\ UNCHANGED <<passed, edits, reading, file>>

\* A name was taken meanwhile, or a statement fails: all is rolled back.
ImportFails(i) ==
    /\ import[i].phase # "free"
    /\ import' = [import EXCEPT ![i] = NoImport]
    /\ panel' = IF panel.busy = i THEN [panel EXCEPT !.busy = None] ELSE panel
    /\ UNCHANGED <<passed, row, edits, app, queued, jobs, reading, file>>

Next ==
    \/ \E r \in Rows, s \in Statuses, dated \in BOOLEAN : UpdateMemory(r, s, dated)
    \/ \E r \in Rows, q \in Queued : ApproveQueued(r, q)
    \/ DatePasses
    \/ \E a \in Apps : CreateClient(a) \/ CreatePolicy(a) \/ DeleteClient(a)
    \/ StartExport \/ ExportFails
    \/ \E part \in Reads, archived \in BOOLEAN : ReadPart(part, archived)
    \/ \E f \in Files : Download(f) \/ Load(f)
    \/ \E mode \in Modes : SetMode(mode)
    \/ PreviewImport \/ PreviewAnswered \/ PreviewFails \/ Dismiss
    \/ \E i \in Imports :
        \/ ApplyImport(i) \/ Confirm(i) \/ ImportLost(i)
        \/ BeginImport(i) \/ CommitImport(i) \/ ImportFails(i)

Spec == Init /\ [][Next]_vars

-----------------------------------------------------------------------------
(* Properties *)

\* What was archived, was marked expired or had lapsed is not found by retrieval when
\* an import restores it directly.  As suggestions, nothing that was archived is
\* offered, and what has lapsed makes, approved as it is offered, a memory that has
\* lapsed as well.  What was only marked expired comes back if the owner approves it.
DormantStaysDormant ==
    /\ \A q \in queued : q.status # "ARCHIVED"
    /\ \A r \in Live : row[r].dormant => ~ Retrievable(row[r])

\* "Exports and imports cannot transplant working credentials": what an import
\* brings has neither token nor trust, and the clients that were there before,
\* with their permissions, are as they were, also when names collide.  A memory it
\* brings was told by a client it brings or by none, although the file may name
\* clients that were gone when its clients were read.
ImportsOnlyAdd ==
    jobs' # jobs =>
       /\ \A a \in Known : app'[a] = app[a]
       /\ \A r \in Live : row'[r] = row[r]
       /\ \A a \in Apps \ Known :
             app'[a] # None => ~ app'[a].token /\ ~ app'[a].trusted
       /\ \A r \in Rows \ Live :
             row'[r] # None /\ row'[r].source # None =>
                row'[r].source \in Apps \ Known /\ app'[row'[r].source] # None
=============================================================================

---------------------------- MODULE StewardTools ----------------------------
(***************************************************************************)
(* The steward's memory tools, and how a correction or a retraction that    *)
(* extraction left pending is reconciled with what the vault holds          *)
(* (steward-tools.ts, chat-memory-tools.service.ts,                         *)
(* extraction-reconciliation.service.ts).                                   *)
(*                                                                          *)
(* The model searches active memories and queued suggestions, changes what  *)
(* it finds, and asks for the candidate to be completed.  A tool is         *)
(* executed first and its receipt is stored after it, in another            *)
(* transaction; meanwhile the owner edits memories, reviews suggestions,    *)
(* and apps file new ones.                                                  *)
(***************************************************************************)
EXTENDS Naturals, FiniteSets

CONSTANTS
    Kept,        \* memories, present or to come
    Proposed,    \* suggestions, present or to come
    Turns,       \* user messages, each with a candidate to reconcile
    Topics,      \* what a text's terms find; a text may also have none
    ToolCalls,   \* tool calls in flight
    None

VARIABLES
    kept,        \* Memory
    proposed,    \* MemorySuggestion
    candidate,   \* the pending candidate of a turn, or what became of it
    receipts,    \* tool receipts of a turn's run
    toolCall,    \* tool calls
    touched      \* history: the records a turn's tools changed

stewardVars == <<kept, proposed, candidate, receipts, toolCall, touched>>

Subject == Topics \cup {None}
Items == Kept \cup Proposed

MemorySearch == {"search_memories"}
SuggestionSearch == {"list_queued_memory_suggestions"}
Mutations == {"update_memory", "archive_memory", "reject_memory_suggestion"}
Tools == MemorySearch \cup SuggestionSearch \cup Mutations

Resolved == {"reconciled", "APPLIED", "QUEUED_FOR_REVIEW", "DENIED", "deduplicated"}

NoToolCall == [stage |-> "idle", turn |-> None, tool |-> None, items |-> {}]

StewardTypeOK ==
    /\ kept \in [Kept -> [status: {"ABSENT", "ACTIVE", "ARCHIVED", "DELETED"},
                          about: Subject]]
    /\ proposed \in [Proposed ->
          [status: {"ABSENT", "QUEUED_FOR_REVIEW", "APPLIED", "REJECTED"}, about: Subject]]
    /\ candidate \in [Turns -> [intent: {"correction", "retraction"}, about: Subject,
                                status: {"pending"} \cup Resolved]]
    /\ receipts \in [Turns -> SUBSET [tool: Tools, items: SUBSET Items]]
    /\ toolCall \in [ToolCalls ->
          [stage: {"idle", "rejecting", "executed"}, turn: Turns \cup {None},
           tool: Tools \cup {None}, items: SUBSET Items]]
    /\ touched \in [Turns -> SUBSET Items]

-----------------------------------------------------------------------------
(* What the searches return *)

Active == {m \in Kept : kept[m].status = "ACTIVE"}
Queued == {s \in Proposed : proposed[s].status = "QUEUED_FOR_REVIEW"}

\* termFilters(reconciliationTerms(text)): records that share a term with it.
MemoriesAbout(subject) == {m \in Active : subject # None /\ kept[m].about = subject}
QueuedAbout(subject) == {s \in Queued : subject # None /\ proposed[s].about = subject}

\* searchMemories: what the list finds, by meaning or by keyword; when it finds
\* nothing, the active memories that share a term with the query.
Matches(subject) ==
    ((SUBSET Active) \ {{}}) \cup {MemoriesAbout(subject)}

\* listQueuedSuggestions: by terms, or the whole queue for a query without any.
QueueListing(subject) == IF subject = None THEN Queued ELSE QueuedAbout(subject)

-----------------------------------------------------------------------------
(* Tools *)

Executed(k, t, tool, items) ==
    /\ toolCall[k].stage = "idle"
    /\ toolCall' = [toolCall EXCEPT ![k] =
          [stage |-> "executed", turn |-> t, tool |-> tool, items |-> items]]

Touch(t, r) == touched' = [touched EXCEPT ![t] = @ \cup {r}]

SearchMemories(k, t, subject) ==
    /\ \E items \in Matches(subject) : Executed(k, t, "search_memories", items)
    /\ UNCHANGED <<kept, proposed, candidate, receipts, touched>>

ListQueuedSuggestions(k, t, subject) ==
    /\ Executed(k, t, "list_queued_memory_suggestions", QueueListing(subject))
    /\ UNCHANGED <<kept, proposed, candidate, receipts, touched>>

\* updateMemory asks for no status: the memory need not be active any more.
UpdateMemory(k, t, m, subject) ==
    /\ kept[m].status # "ABSENT"
    /\ Executed(k, t, "update_memory", {m})
    /\ kept' = [kept EXCEPT ![m].about = subject]
    /\ Touch(t, m)
    /\ UNCHANGED <<proposed, candidate, receipts>>

ArchiveMemory(k, t, m) ==
    /\ kept[m].status # "ABSENT"
    /\ Executed(k, t, "archive_memory", {m})
    /\ kept' = [kept EXCEPT ![m].status = "ARCHIVED"]
    /\ Touch(t, m)
    /\ UNCHANGED <<proposed, candidate, receipts>>

\* rejectUserSuggestion: the suggestion is read, then claimed in a transaction.
RejectSuggestion(k, t, s) ==
    /\ toolCall[k].stage = "idle"
    /\ s \in Queued
    /\ toolCall' = [toolCall EXCEPT ![k] =
          [stage |-> "rejecting", turn |-> t, tool |-> "reject_memory_suggestion",
           items |-> {s}]]
    /\ UNCHANGED <<kept, proposed, candidate, receipts, touched>>

\* Mutant: the claim does not ask for the status.
Claimable_Any(s) == TRUE
Claimable(s) == s \in Queued

ClaimRejected(k) ==
    /\ toolCall[k].stage = "rejecting"
    /\ \E s \in toolCall[k].items :
          IF Claimable(s)
          THEN /\ proposed' = [proposed EXCEPT ![s].status = "REJECTED"]
               /\ Touch(toolCall[k].turn, s)
               /\ toolCall' = [toolCall EXCEPT ![k].stage = "executed"]
          ELSE /\ toolCall' = [toolCall EXCEPT ![k] = NoToolCall]
               /\ UNCHANGED <<proposed, touched>>
    /\ UNCHANGED <<kept, candidate, receipts>>

\* Mutant: the receipt is stored when the call arrives.
Recordable_Early(k) == toolCall[k].stage # "idle"
Recordable(k) == toolCall[k].stage = "executed"

RecordTool(k) ==
    /\ Recordable(k)
    /\ receipts' = [receipts EXCEPT ![toolCall[k].turn] =
          @ \cup {[tool |-> toolCall[k].tool, items |-> toolCall[k].items]}]
    /\ toolCall' = [toolCall EXCEPT ![k] = NoToolCall]
    /\ UNCHANGED <<kept, proposed, candidate, touched>>

\* The tool or its receipt fails, or the API restarts between them.
LoseToolCall(k) ==
    /\ toolCall[k].stage # "idle"
    /\ toolCall' = [toolCall EXCEPT ![k] = NoToolCall]
    /\ UNCHANGED <<kept, proposed, candidate, receipts, touched>>

-----------------------------------------------------------------------------
(* complete_memory_capture *)

Of(t, tools) == {e \in receipts[t] : e.tool \in tools}
ItemsOf(t, tools) == UNION {e.items : e \in Of(t, tools)}

Searched(t) == Of(t, MemorySearch) # {} /\ Of(t, SuggestionSearch) # {}

\* Mutant: the searches are trusted for what is there now.
Matched_Receipts(t) == ItemsOf(t, MemorySearch \cup SuggestionSearch)

\* What the searches found, and what shares a term with the candidate now.
Matched(t) ==
    LET about == candidate[t].about
    IN  ItemsOf(t, MemorySearch \cup SuggestionSearch)
           \cup MemoriesAbout(about) \cup QueuedAbout(about)

Resolve(t, outcome) == candidate' = [candidate EXCEPT ![t].status = outcome]

CompleteHandled(t) ==
    /\ candidate[t].status = "pending" /\ Searched(t)
    /\ ItemsOf(t, Mutations) # {}
    /\ Matched(t) \subseteq ItemsOf(t, Mutations)
    /\ Resolve(t, "reconciled")
    /\ UNCHANGED <<kept, proposed, receipts, toolCall, touched>>

\* Mutant: a retraction is stored like a correction.
Creates_Any(t) == Matched(t) = {}
Creates(t) == Matched(t) = {} /\ candidate[t].intent # "retraction"

\* applyCandidate: written, queued, refused, or the same text is there; for a
\* text without terms nothing else has looked.
CompleteCreate(t) ==
    /\ candidate[t].status = "pending" /\ Searched(t)
    /\ Creates(t)
    /\ \/ /\ Resolve(t, "APPLIED")
          /\ \E m \in Kept :
                /\ kept[m].status = "ABSENT"
                /\ kept' = [kept EXCEPT ![m] = [status |-> "ACTIVE",
                                                about |-> candidate[t].about]]
          /\ UNCHANGED proposed
       \/ /\ Resolve(t, "QUEUED_FOR_REVIEW")
          /\ \E s \in Proposed :
                /\ proposed[s].status = "ABSENT"
                /\ proposed' = [proposed EXCEPT ![s] = [status |-> "QUEUED_FOR_REVIEW",
                                                        about |-> candidate[t].about]]
          /\ UNCHANGED kept
       \/ /\ \/ Resolve(t, "DENIED")
             \/ /\ \/ \E m \in Active : kept[m].about = candidate[t].about
                   \/ \E s \in Queued : proposed[s].about = candidate[t].about
                /\ Resolve(t, "deduplicated")
          /\ UNCHANGED <<kept, proposed>>
    /\ UNCHANGED <<receipts, toolCall, touched>>

-----------------------------------------------------------------------------
(* The owner and the apps *)

AddMemory(m, subject) ==
    /\ kept[m].status = "ABSENT"
    /\ kept' = [kept EXCEPT ![m] = [status |-> "ACTIVE", about |-> subject]]
    /\ UNCHANGED <<proposed, candidate, receipts, toolCall, touched>>

\* The owner edits, archives, deletes or brings back a memory.
EditMemory(m, status, subject) ==
    /\ kept[m].status # "ABSENT"
    /\ kept' = [kept EXCEPT ![m] = [status |-> status, about |-> subject]]
    /\ kept' # kept
    /\ UNCHANGED <<proposed, candidate, receipts, toolCall, touched>>

FileSuggestion(s, subject) ==
    /\ proposed[s].status = "ABSENT"
    /\ proposed' = [proposed EXCEPT ![s] = [status |-> "QUEUED_FOR_REVIEW",
                                            about |-> subject]]
    /\ UNCHANGED <<kept, candidate, receipts, toolCall, touched>>

ApproveSuggestion(s, m) ==
    /\ s \in Queued /\ kept[m].status = "ABSENT"
    /\ proposed' = [proposed EXCEPT ![s].status = "APPLIED"]
    /\ kept' = [kept EXCEPT ![m] = [status |-> "ACTIVE", about |-> proposed[s].about]]
    /\ UNCHANGED <<candidate, receipts, toolCall, touched>>

-----------------------------------------------------------------------------

StewardInit ==
    /\ kept = [m \in Kept |-> [status |-> "ABSENT", about |-> None]]
    /\ proposed = [s \in Proposed |-> [status |-> "ABSENT", about |-> None]]
    /\ candidate \in [Turns -> [intent: {"correction", "retraction"}, about: Subject,
                                status: {"pending"}]]
    /\ receipts = [t \in Turns |-> {}]
    /\ toolCall = [k \in ToolCalls |-> NoToolCall]
    /\ touched = [t \in Turns |-> {}]

StewardNext ==
    \/ \E k \in ToolCalls, t \in Turns :
          \/ \E subject \in Subject :
                \/ SearchMemories(k, t, subject)
                \/ ListQueuedSuggestions(k, t, subject)
                \/ \E m \in Kept : UpdateMemory(k, t, m, subject)
          \/ \E m \in Kept : ArchiveMemory(k, t, m)
          \/ \E s \in Proposed : RejectSuggestion(k, t, s)
    \/ \E k \in ToolCalls : ClaimRejected(k) \/ RecordTool(k) \/ LoseToolCall(k)
    \/ \E t \in Turns : CompleteHandled(t) \/ CompleteCreate(t)
    \/ \E m \in Kept, subject \in Subject :
          \/ AddMemory(m, subject)
          \/ \E status \in {"ACTIVE", "ARCHIVED", "DELETED"} : EditMemory(m, status, subject)
    \/ \E s \in Proposed, subject \in Subject : FileSuggestion(s, subject)
    \/ \E s \in Proposed, m \in Kept : ApproveSuggestion(s, m)

-----------------------------------------------------------------------------
(* Properties *)

\* A receipt is evidence: the record it names was changed by a tool of that
\* turn, whichever calls overlapped, failed or were lost.
ReceiptsAreTrue ==
    \A t \in Turns : ItemsOf(t, Mutations) \subseteq touched[t]

\* "Create is allowed only if both searches found no match", also when what
\* matches came after the searches: a correction is never stored beside an
\* active memory or a queued suggestion that shares its terms, and is never
\* declared handled while one of them was left as it was.  A retraction stores
\* nothing, and a suggestion is decided once.
ReconciledWithTheVault ==
    /\ \A t \in Turns : candidate[t].status = "pending" =>
          LET about == candidate[t].about
              live == MemoriesAbout(about) \cup QueuedAbout(about)
          IN  /\ candidate'[t].status \in {"APPLIED", "QUEUED_FOR_REVIEW"} =>
                    live = {} /\ candidate[t].intent = "correction"
              /\ candidate'[t].status = "reconciled" =>
                    touched[t] # {} /\ live \subseteq touched[t]
    /\ \A s \in Proposed : proposed[s].status \in {"APPLIED", "REJECTED"} =>
          proposed'[s] = proposed[s]
=============================================================================

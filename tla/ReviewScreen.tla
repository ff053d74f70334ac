---------------------------- MODULE ReviewScreen -----------------------------
(***************************************************************************)
(* The Sharing requests page: the preview of the selected request, the      *)
(* memories ticked on it, and the approval or denial sent with the preview's *)
(* revision.  The server's preview changes when memories or permissions     *)
(* change; the page keeps the one it fetched until it is refreshed.  The    *)
(* server's side is the part of Disclosure the page talks to: a revision,   *)
(* the memories it offers, and one decision.                                *)
(***************************************************************************)
EXTENDS Naturals, FiniteSets

CONSTANTS
    Asks,           \* sharing requests
    Offered,        \* memories a preview may offer
    Eligible,       \* the memories each request is about at first
    Changes,        \* the memories each request's changed preview may offer
    MaxRevision,    \* how often each of them does
    None

VARIABLES
    offer,          \* the server's preview of each request
    decision,       \* None, "denied", or the revision and memories approved
    cache,          \* the previews the page has fetched
    stale,          \* fetched previews that are fetched again when selected
    screen,         \* the selected request, the ticked memories, the blocked request
    sent,           \* the decision in flight
    refreshing      \* the refresh in flight: the request, and whether it was fetched

reviewVars == <<offer, decision, cache, stale, screen, sent, refreshing>>

Previews == [revision : 0 .. MaxRevision, items : SUBSET Offered, open : BOOLEAN]

ReviewInit ==
    /\ offer = [r \in Asks |-> [revision |-> 0, items |-> Eligible[r]]]
    /\ decision = [r \in Asks |-> None]
    /\ cache = [r \in Asks |-> None]
    /\ stale = {}
    /\ screen = [id |-> None, selection |-> None, blocked |-> None]
    /\ sent = None
    /\ refreshing = None

-----------------------------------------------------------------------------
(* What the page shows. *)

Detail == IF screen.id = None THEN None ELSE cache[screen.id]

Mine == screen.selection # None /\ screen.selection.id = screen.id

\* The page never hides a preview that changed under a selection.
ChangedSelection_Never == FALSE

ChangedSelection ==
    Mine /\ Detail # None /\ screen.selection.revision # Detail.revision

Preview ==
    IF screen.blocked = screen.id \/ ChangedSelection THEN None ELSE Detail

\* The ticked memories: the owner's choice on this preview, or all of it.
Selected ==
    IF Mine /\ screen.selection.revision = Preview.revision THEN screen.selection
    ELSE [id |-> screen.id, revision |-> Preview.revision, ids |-> Preview.items]

-----------------------------------------------------------------------------
(* The owner. *)

Choose(r) == [id |-> r, selection |-> None, blocked |-> None]

SelectRequest(r) ==
    /\ sent = None
    /\ screen' = Choose(r)
    /\ UNCHANGED <<offer, decision, cache, stale, sent, refreshing>>

\* A notification's link names the request, whatever is in flight.
FollowLink(r) ==
    /\ screen' = Choose(r)
    /\ UNCHANGED <<offer, decision, cache, stale, sent, refreshing>>

Tick(m) ==
    /\ Preview # None /\ m \in Preview.items
    /\ LET ids == IF m \in Selected.ids THEN Selected.ids \ {m} ELSE Selected.ids \cup {m}
       IN  screen' = [screen EXCEPT !.selection =
                        [id |-> screen.id, revision |-> Preview.revision, ids |-> ids]]
    /\ UNCHANGED <<offer, decision, cache, stale, sent, refreshing>>

\* The approve and deny buttons.
CanDecide(action) ==
    /\ Preview # None /\ sent = None /\ Preview.open
    /\ action = "approve" => Selected.ids # {}

Decide(action) ==
    /\ CanDecide(action)
    /\ sent' = [id |-> screen.id, action |-> action, revision |-> Preview.revision,
                ids |-> Selected.ids, at |-> "sent"]
    /\ UNCHANGED <<offer, decision, cache, stale, screen, refreshing>>

-----------------------------------------------------------------------------
(* The server decides a request once, and approves only the preview it would *)
(* show now.                                                                *)

\* The memories are still offered; the text may have changed.
Current_SameMemories(r, revision, ids) == ids \subseteq offer[r].items

Current(r, revision, ids) ==
    offer[r].revision = revision /\ ids \subseteq offer[r].items

ServeDecision ==
    /\ sent # None /\ sent.at = "sent"
    /\ decision[sent.id] = None
    /\ sent.action = "approve" => Current(sent.id, sent.revision, sent.ids)
    /\ decision' = [decision EXCEPT ![sent.id] =
                      IF sent.action = "deny" THEN [shown |-> None, ids |-> {}]
                      ELSE [shown |-> offer[sent.id].revision, ids |-> sent.ids]]
    /\ sent' = [sent EXCEPT !.at = "done"]
    /\ UNCHANGED <<offer, cache, stale, screen, refreshing>>

\* Everything fetched about requests is fetched again when it is next shown.
Decided ==
    /\ sent # None /\ sent.at = "done"
    /\ screen' = [screen EXCEPT !.id = None, !.selection = None]
    /\ stale' = {r \in Asks : cache[r] # None}
    /\ sent' = None
    /\ UNCHANGED <<offer, decision, cache, refreshing>>

\* Refused, or the answer is lost: the request is blocked on the page.
DecisionFails ==
    /\ sent # None
    /\ screen' = [screen EXCEPT !.blocked = sent.id]
    /\ sent' = None
    /\ UNCHANGED <<offer, decision, cache, stale, refreshing>>

\* A memory or a permission changed: the server's preview is another one.
PreviewChanges(r, items) ==
    /\ offer[r].revision < MaxRevision
    /\ offer' = [offer EXCEPT ![r] = [revision |-> offer[r].revision + 1, items |-> items]]
    /\ UNCHANGED <<decision, cache, stale, screen, sent, refreshing>>

-----------------------------------------------------------------------------
(* Fetching the preview, and whether the request still waits for a decision. *)

Fetched(r) ==
    [revision |-> offer[r].revision, items |-> offer[r].items, open |-> decision[r] = None]

Load ==
    /\ screen.id # None
    /\ cache[screen.id] = None \/ screen.id \in stale
    /\ cache' = [cache EXCEPT ![screen.id] = Fetched(screen.id)]
    /\ stale' = stale \ {screen.id}
    /\ UNCHANGED <<offer, decision, screen, sent, refreshing>>

Refresh ==
    /\ sent = None /\ refreshing = None /\ screen.id # None
    /\ screen' = [screen EXCEPT !.blocked = screen.id]
    /\ refreshing' = [id |-> screen.id, fetched |-> FALSE]
    /\ UNCHANGED <<offer, decision, cache, stale, sent>>

RefreshFetched ==
    /\ refreshing # None /\ ~ refreshing.fetched
    /\ cache' = [cache EXCEPT ![refreshing.id] = Fetched(refreshing.id)]
    /\ stale' = stale \ {refreshing.id}
    /\ refreshing' = [refreshing EXCEPT !.fetched = TRUE]
    /\ UNCHANGED <<offer, decision, screen, sent>>

\* The list follows; then the selection and the block end, whatever is shown.
RefreshDone ==
    /\ refreshing # None /\ refreshing.fetched
    /\ screen' = [screen EXCEPT !.selection = None, !.blocked = None]
    /\ refreshing' = None
    /\ UNCHANGED <<offer, decision, cache, stale, sent>>

RefreshFails ==
    /\ refreshing # None /\ ~ refreshing.fetched
    /\ refreshing' = None
    /\ UNCHANGED <<offer, decision, cache, stale, screen, sent>>

ReviewNext ==
    \/ \E r \in Asks : SelectRequest(r) \/ FollowLink(r)
    \/ \E m \in Offered : Tick(m)
    \/ \E action \in {"approve", "deny"} : Decide(action)
    \/ ServeDecision \/ Decided \/ DecisionFails
    \/ \E r \in Asks : \E items \in Changes[r] : PreviewChanges(r, items)
    \/ Load \/ Refresh \/ RefreshFetched \/ RefreshDone \/ RefreshFails

ReviewSpec == ReviewInit /\ [][ReviewNext]_reviewVars

-----------------------------------------------------------------------------

ReviewTypeOK ==
    /\ offer \in [Asks -> [revision : 0 .. MaxRevision, items : SUBSET Offered]]
    /\ \A r \in Asks : cache[r] # None => cache[r] \in Previews
    /\ stale \subseteq Asks
    /\ screen.id \in Asks \cup {None} /\ screen.blocked \in Asks \cup {None}
    /\ screen.selection # None =>
          screen.selection \in [id : Asks, revision : 0 .. MaxRevision, ids : SUBSET Offered]
    /\ \A r \in Asks : decision[r] # None =>
          decision[r].shown \in (0 .. MaxRevision) \cup {None}

\* While a preview can be approved, the ticks on it are the owner's: a preview
\* fetched anew under them, by a refresh that ends late, is hidden instead of
\* being shown with every memory ticked again.
TicksAreTheOwners ==
    Preview # None /\ Mine => Selected = screen.selection

\* What is approved is what was on the screen: the memories that were ticked,
\* with the text of the preview they were ticked on, though memories change
\* while the approval travels.
ApprovedAsShown ==
    \A r \in Asks :
      decision'[r] # decision[r] /\ decision'[r].shown # None =>
         /\ decision'[r].shown = sent.revision
         /\ decision'[r].ids = sent.ids
         /\ r = sent.id
=============================================================================

---------------------------- MODULE AccessEditor -----------------------------
(***************************************************************************)
(* The Apps & access page of one browser tab: the list of apps, the form of *)
(* the selected app, and the form of that app's permissions, over the       *)
(* client and policy endpoints.  A request is sent, served and answered in  *)
(* three steps; between them the owner may click whatever the page leaves   *)
(* enabled, and another session of the owner may change the same rows.      *)
(* What a form holds is kept only as whose it is: an app's values, a token  *)
(* or a permission row are told apart by the app or the row they came from. *)
(* Paging is left out, the page lists every app.  A confirmation dialog is  *)
(* modal, so a confirmed click is one step.                                 *)
(***************************************************************************)
EXTENDS Naturals, FiniteSets

CONSTANTS
    Clients,        \* app ids
    FirstParty,     \* the apps that have default permissions
    Present,        \* the apps connected at first
    PermCalls,      \* requests of the permissions form that may be in flight
    MaxPolicies,    \* how many permission rows are made
    None

VARIABLES
    app,            \* the app rows: "none" before creation, "gone" after
    policy,         \* the id of each app's permission row, 0 when it has none
    made,           \* how many permission rows were made
    list,           \* the cached list of apps
    seen,           \* the cached permission row of each app
    panel,          \* the app form: selection, mode, whose values, whose token
    call,           \* its request, or None
    permit,         \* the permissions form of the app whose editor is mounted
    permCall        \* the requests of permissions forms

accessVars == <<app, policy, made, list, seen, panel, call, permit, permCall>>

Live(c) == app[c] = "live"

\* The values of a new app come from no app.
EmptyDraft == None
ToClientDraft(c) == c
Closed == [mode |-> "closed", id |-> 0, app |-> None]

\* The app whose row shows its editor, and with it a permissions form.
Mounted(p, l) ==
    IF p.mode = "edit" /\ p.selected \in l
    THEN p.selected ELSE None

\* One form reused for every app.
Remounted_Reused ==
    UNCHANGED <<permit, permCall>>

\* Every row is keyed by its app: another app's editor is another component,
\* and a request left behind answers nobody.
Remounted ==
    IF Mounted(panel', list') = Mounted(panel, list)
    THEN UNCHANGED <<permit, permCall>>
    ELSE /\ permit' = Closed
         /\ permCall' = [p \in PermCalls |->
                           IF permCall[p] = None THEN None
                           ELSE [permCall[p] EXCEPT !.live = FALSE]]

AccessInit ==
    /\ app = [c \in Clients |-> IF c \in Present THEN "live" ELSE "none"]
    /\ policy = [c \in Clients |-> 0]
    /\ made = 0
    /\ list = {c \in Clients : Live(c)}
    /\ seen = [c \in Clients |-> 0]
    /\ panel = [selected |-> None, mode |-> "edit", draft |-> EmptyDraft, token |-> None]
    /\ call = None
    /\ permit = Closed
    /\ permCall = [p \in PermCalls |-> None]

rows == <<app, policy, made>>

-----------------------------------------------------------------------------
(* The app form. *)

SelectClient(c) ==
    LET closing == panel.selected = c /\ panel.mode = "edit"
    IN  /\ c \in list
        /\ panel' = [selected |-> IF closing THEN None ELSE c,
                     mode |-> "edit",
                     draft |-> IF closing THEN EmptyDraft ELSE ToClientDraft(c),
                     token |-> None]
        /\ UNCHANGED list /\ Remounted
        /\ UNCHANGED <<rows, seen, call>>

StartClientCreate ==
    /\ panel' = [selected |-> None, mode |-> "create", draft |-> EmptyDraft, token |-> None]
    /\ UNCHANGED list /\ Remounted
    /\ UNCHANGED <<rows, seen, call>>

Cancelled(p) == [p EXCEPT !.mode = "edit", !.draft = EmptyDraft, !.token = None]

CancelCreate ==
    /\ panel.mode = "create"
    /\ panel' = Cancelled(panel)
    /\ UNCHANGED list /\ Remounted
    /\ UNCHANGED <<rows, seen, call>>

FormShown == panel.mode = "create" \/ Mounted(panel, list) # None

Send(op, c, draft) ==
    /\ call = None
    /\ call' = [op |-> op, id |-> c, draft |-> draft, at |-> "sent"]
    /\ UNCHANGED <<rows, list, seen, panel, permit, permCall>>

SaveClient ==
    /\ FormShown
    /\ Send(IF panel.selected # None THEN "update" ELSE "create",
            panel.selected, panel.draft)

ConfirmRotateToken ==
    /\ Mounted(panel, list) # None
    /\ Send("rotate", panel.selected, EmptyDraft)

ConfirmDeleteClient ==
    /\ Mounted(panel, list) # None
    /\ Send("remove", panel.selected, EmptyDraft)

\* Approve, block, unblock or revoke, from the app's row.
UpdateClientTrust(c) ==
    /\ c \in list
    /\ Send("trust", c, EmptyDraft)

\* The server: a row is created, changed, given a new token, or deleted with
\* its permissions.
Served(c, row) ==
    /\ app' = [app EXCEPT ![c] = row]
    /\ call' = [call EXCEPT !.at = "done", !.id = c]
    /\ UNCHANGED <<made, list, seen, panel, permit, permCall>>

ServeCreate ==
    /\ call # None /\ call.at = "sent" /\ call.op = "create"
    /\ \E c \in Clients : app[c] = "none" /\ Served(c, "live")
    /\ UNCHANGED policy

ServeUpdate ==
    /\ call # None /\ call.at = "sent" /\ call.op \in {"update", "rotate", "trust"}
    /\ Live(call.id)
    /\ Served(call.id, "live")
    /\ UNCHANGED policy

ServeRemove ==
    /\ call # None /\ call.at = "sent" /\ call.op = "remove"
    /\ Live(call.id)
    /\ Served(call.id, "gone")
    /\ policy' = [policy EXCEPT ![call.id] = 0]

\* The app is gone, its name is taken, or the connection fails, before or
\* after the server has acted: the page shows an error.
CallFails ==
    /\ call # None
    /\ call' = None
    /\ UNCHANGED <<rows, list, seen, panel, permit, permCall>>

\* The form keeps the selection it has.
ApplyClient_Unselected(p, c, tok) ==
    [p EXCEPT !.draft = ToClientDraft(c)]

\* The form keeps the token it shows.
ApplyClient_OldToken(p, c, tok) ==
    [selected |-> c, mode |-> "edit", draft |-> ToClientDraft(c),
     token |-> IF tok = None THEN p.token ELSE tok]

\* The answered app is selected, whatever was selected meanwhile.
ApplyClient(p, c, tok) ==
    [selected |-> c, mode |-> "edit", draft |-> ToClientDraft(c), token |-> tok]

\* Only a creation and a rotation answer with a token.
Answer ==
    /\ call # None /\ call.at = "done"
    /\ panel' = IF call.op = "remove"
                THEN [Cancelled(panel) EXCEPT !.selected = None]
                ELSE ApplyClient(panel, call.id,
                                 IF call.op \in {"create", "rotate"} THEN call.id ELSE None)
    /\ call' = None
    /\ UNCHANGED list /\ Remounted
    /\ UNCHANGED <<rows, seen>>

\* The list of apps, or the permissions of the app shown, is fetched again.
RefetchClients ==
    /\ list' = {c \in Clients : Live(c)}
    /\ UNCHANGED panel /\ Remounted
    /\ UNCHANGED <<rows, seen, call>>

RefetchPolicies ==
    /\ Mounted(panel, list) # None
    /\ seen' = [seen EXCEPT ![panel.selected] = policy[panel.selected]]
    /\ UNCHANGED <<rows, list, panel, call, permit, permCall>>

-----------------------------------------------------------------------------
(* The permissions form of the mounted app. *)

shown == Mounted(panel, list)
Saving == \E p \in PermCalls : permCall[p] # None /\ permCall[p].live
EditorShown ==
    \/ permit.mode = "create"
    \/ permit.mode = "edit" /\ permit.id = seen[shown]

Form(next) ==
    /\ permit' = next
    /\ UNCHANGED <<rows, list, seen, panel, call, permCall>>

\* Nothing loaded yet looks like no permissions.
StartPolicyCreate ==
    /\ shown # None /\ seen[shown] = 0 /\ permit.mode # "create"
    /\ Form([mode |-> "create", id |-> 0, app |-> shown])

TogglePolicyEditor ==
    /\ shown # None /\ seen[shown] # 0
    /\ IF permit.mode = "edit" /\ permit.id = seen[shown]
       THEN Form(Closed)
       ELSE Form([mode |-> "edit", id |-> seen[shown], app |-> shown])

CancelPolicy ==
    /\ shown # None /\ EditorShown /\ ~ Saving
    /\ Form(Closed)

SendPolicy(op, id) ==
    /\ ~ Saving
    /\ \E p \in PermCalls :
        /\ permCall[p] = None
        /\ permCall' = [permCall EXCEPT ![p] =
                          [op |-> op, app |-> shown, id |-> id, form |-> permit,
                           at |-> "sent", live |-> TRUE]]
    /\ UNCHANGED <<rows, list, seen, panel, call, permit>>

SavePolicy ==
    /\ shown # None /\ EditorShown
    /\ SendPolicy(IF permit.mode = "edit" THEN "update" ELSE "create", permit.id)

ConfirmDeletePolicy ==
    /\ shown # None /\ EditorShown /\ permit.mode = "edit"
    /\ SendPolicy("remove", seen[shown])

RestoreDefaults ==
    /\ shown # None /\ shown \in FirstParty /\ seen[shown] = 0
    /\ SendPolicy("restore", 0)

\* The app's row, whichever it is now.
FoundPolicy_OfApp(c, id) == policy[c] # 0

\* The server: the row is looked up by its id, and an app has one at most.
FoundPolicy(c, id) == policy[c] = id

MakePolicy(c) ==
    /\ Live(c) /\ policy[c] = 0
    /\ made < MaxPolicies
    /\ made' = made + 1
    /\ policy' = [policy EXCEPT ![c] = made']

ServePolicy(p) ==
    /\ permCall[p] # None /\ permCall[p].at = "sent"
    /\ LET q == permCall[p]
       IN  \/ q.op \in {"create", "restore"} /\ MakePolicy(q.app)
           \/ /\ q.op = "update" /\ FoundPolicy(q.app, q.id)
              /\ UNCHANGED <<policy, made>>
           \/ /\ q.op = "remove" /\ FoundPolicy(q.app, q.id)
              /\ policy' = [policy EXCEPT ![q.app] = 0]
              /\ UNCHANGED made
    /\ permCall' = [permCall EXCEPT ![p].at = "done"]
    /\ UNCHANGED <<app, list, seen, panel, call, permit>>

\* The app already has permissions: the form is told, and closes.
PolicyConflicts(p) ==
    /\ permCall[p] # None /\ permCall[p].at = "sent"
    /\ permCall[p].op \in {"create", "restore"}
    /\ policy[permCall[p].app] # 0
    /\ permCall' = [permCall EXCEPT ![p].at = "done"]
    /\ UNCHANGED <<rows, list, seen, panel, call, permit>>

\* The form closes; an answer to a form that is gone changes nothing.
AnswerPolicy(p) ==
    /\ permCall[p] # None /\ permCall[p].at = "done"
    /\ permit' = IF permCall[p].live THEN Closed ELSE permit
    /\ permCall' = [permCall EXCEPT ![p] = None]
    /\ UNCHANGED <<rows, list, seen, panel, call>>

\* Nothing found, or the connection fails: the form stays open with an error.
PolicyFails(p) ==
    /\ permCall[p] # None
    /\ permCall' = [permCall EXCEPT ![p] = None]
    /\ UNCHANGED <<rows, list, seen, panel, call, permit>>

-----------------------------------------------------------------------------
(* Another session of the owner. *)

Elsewhere(c) ==
    /\ Live(c)
    /\ \/ /\ app' = [app EXCEPT ![c] = "gone"]
          /\ policy' = [policy EXCEPT ![c] = 0]
          /\ UNCHANGED made
       \/ MakePolicy(c) /\ UNCHANGED app
       \/ /\ policy[c] # 0 /\ policy' = [policy EXCEPT ![c] = 0]
          /\ UNCHANGED <<app, made>>
    /\ UNCHANGED <<list, seen, panel, call, permit, permCall>>

AccessNext ==
    \/ \E c \in Clients : SelectClient(c) \/ UpdateClientTrust(c) \/ Elsewhere(c)
    \/ StartClientCreate \/ CancelCreate \/ SaveClient
    \/ ConfirmRotateToken \/ ConfirmDeleteClient
    \/ ServeCreate \/ ServeUpdate \/ ServeRemove
    \/ CallFails \/ Answer
    \/ RefetchClients \/ RefetchPolicies
    \/ StartPolicyCreate \/ TogglePolicyEditor \/ CancelPolicy
    \/ SavePolicy \/ ConfirmDeletePolicy \/ RestoreDefaults
    \/ \E p \in PermCalls :
        ServePolicy(p) \/ PolicyConflicts(p) \/ AnswerPolicy(p) \/ PolicyFails(p)

AccessSpec == AccessInit /\ [][AccessNext]_accessVars

-----------------------------------------------------------------------------

AccessTypeOK ==
    /\ app \in [Clients -> {"none", "live", "gone"}]
    /\ policy \in [Clients -> 0 .. MaxPolicies] /\ made \in 0 .. MaxPolicies
    /\ list \subseteq Clients
    /\ seen \in [Clients -> 0 .. MaxPolicies]
    /\ panel \in [selected : Clients \cup {None}, mode : {"edit", "create"},
                  draft : Clients \cup {None}, token : Clients \cup {None}]
    /\ permit \in [mode : {"closed", "create", "edit"}, id : 0 .. MaxPolicies,
                   app : Clients \cup {None}]

\* What the app form sends is what was filled in for the app it is sent to:
\* selecting, closing or creating another app while a request of an earlier
\* one is answered never leaves one app's values in another app's form.
SavedToItsApp ==
    /\ call # None /\ call.op = "update" => call.draft = call.id
    /\ call # None /\ call.op = "create" /\ call.at = "sent" => call.draft = None

\* A token on the page belongs to the app the form shows.
TokenOfSelected ==
    panel.token # None => panel.token = panel.selected

\* A request of the permissions form goes to the app the form was opened for,
\* though the page moves from app to app while requests are in flight.
PermissionsForTheirApp ==
    \A p \in PermCalls :
        permCall[p] # None /\ permCall[p].op \in {"create", "update"} =>
            permCall[p].form.app = permCall[p].app

\* Permissions that were removed and set up again are not changed or removed
\* by a form opened on the earlier ones.
RecreatedPolicyUntouched ==
    \A p \in PermCalls :
      /\ permCall[p] # None /\ permCall[p].op \in {"update", "remove"}
      /\ permCall'[p] # None /\ permCall[p].at = "sent" /\ permCall'[p].at = "done"
      => policy[permCall[p].app] = permCall[p].id
=============================================================================

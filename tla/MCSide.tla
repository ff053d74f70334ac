------------------------------- MODULE MCSide --------------------------------
(***************************************************************************)
(* Components that share no state with each other, side by side: a          *)
(* behaviour is one of the component named by `part`; the others are not    *)
(* there.                                                                   *)
(***************************************************************************)
EXTENDS Naturals, FiniteSets, Sequences, TLC

CONSTANTS
    None,
    Rows, Apps, Files, Imports, MaxCopies, MaxDepth, MaxJobs, MaxEdits,
    Texts, FirstTexts, Requests, Runs, Patches, MaxVersion, MaxDeliveries, other,
    Browsers, Attempts, Callbacks, Subjects, Emails, Users, Sessions,
    Tokens, Addresses, SessionIds, Calls, Ttl, Window, RateMax, PreAuthMax, MaxClock,
    Categories, Submissions, Contents, Terms, MaxVersions,
    Clients, FirstParty, Present, PermCalls, MaxPolicies,
    Asks, Offered, Eligible, Changes, MaxRevision, w1,
    Memories, Nowhere,
    Kept, Proposed, Turns, Topics, ToolCalls,
    MaxLength, Examined, Proposals, Opinions,
    Tabs

VARIABLES
    part,
    row, passed, edits, app, queued, jobs, reading, file, panel, import,
    memory, version, told, request, redis, run, job, worker, vectors,
    user, session, attempt, jar, callback, deletion,
    clock, granted, mcpSession, windows, call, admitted, server,
    trust, permission, versions, submission, filed, toEmbed,
    connected, policy, made, list, seen, editor, saving, permit, permCall,
    offer, decision, cache, stale, screen, sent, refreshing,
    stored, shown, url, going, form, ask, sending,
    kept, proposed, candidate, receipts, toolCall, touched,
    chosen, late, work,
    setting, scheduled, jobsTab, starting, agreed, clean

Transfer == INSTANCE VaultTransfer
Index == INSTANCE MemoryIndex
Login == INSTANCE Accounts
Mcp == INSTANCE McpServer
Suggest == INSTANCE AppSuggestions
Access == INSTANCE AccessEditor WITH app <- connected, panel <- editor, call <- saving
Review == INSTANCE ReviewScreen
Editor == INSTANCE MemoryEditor
Steward == INSTANCE StewardTools
Provider == INSTANCE ExtractionProviders
Schedule == INSTANCE ScheduleSettings

\* For the values of the constants only.
Shapes == INSTANCE ExtractionProviders WITH Proposals <- {}, Opinions <- {}
Evaluation == INSTANCE PolicyEvaluation

transferVars == <<row, passed, edits, app, queued, jobs, reading, file, panel, import>>
indexVars == <<memory, version, told, request, redis, run, job, worker, vectors>>
loginVars == <<user, session, attempt, jar, callback, deletion>>
mcpVars == <<clock, granted, mcpSession, windows, call, admitted, server>>
suggestVars == <<trust, permission, versions, submission, filed, toEmbed>>
accessVars == <<connected, policy, made, list, seen, editor, saving, permit, permCall>>
reviewVars == <<offer, decision, cache, stale, screen, sent, refreshing>>
editorVars == <<stored, shown, url, going, form, ask, sending>>
stewardVars == <<kept, proposed, candidate, receipts, toolCall, touched>>
providerVars == <<chosen, late, work>>
scheduleVars == <<setting, scheduled, jobsTab, starting, agreed, clean>>

vars ==
    <<part, transferVars, indexVars, loginVars, mcpVars, suggestVars, accessVars,
      reviewVars, editorVars, stewardVars, providerVars, scheduleVars>>

ASSUME SuggestAssumption == MaxVersions \in Nat \ {0}

ASSUME ProviderAssumption ==
    /\ MaxLength \in Nat /\ Examined \in Nat
    /\ Proposals \subseteq Provider!AllCandidates
    /\ Opinions \subseteq Provider!Verdicts
    /\ None \notin Provider!AllCandidates

ASSUME ScheduleAssumption == None \notin Schedule!Settings

ASSUME TransferAssumption ==
    /\ MaxCopies \in Nat /\ MaxDepth \in Nat /\ MaxJobs \in Nat /\ MaxEdits \in Nat
    /\ Apps # {} /\ None \notin Rows \cup Imports \cup Transfer!Row \cup Transfer!App

ASSUME IndexAssumption ==
    /\ FirstTexts \subseteq Texts /\ Patches \subseteq Index!Patch
    /\ MaxVersion \in Nat /\ MaxDeliveries \in Nat \ {0}
    /\ None \notin Index!Memory \cup Index!Run \cup Index!Job \cup Index!Content

ASSUME McpAssumption ==
    /\ MaxClock \in Nat /\ Ttl \in Nat /\ Window \in Nat
    /\ RateMax \in Nat \ {0} /\ PreAuthMax \in Nat
    /\ Tokens \cap Addresses = {}
    /\ None \notin Tokens \cup Mcp!Session \cup Mcp!Call
    /\ None \notin Mcp!RateWindow

ASSUME AccessAssumption == MaxPolicies \in Nat

ASSUME ReviewAssumption ==
    /\ MaxRevision \in Nat
    /\ Eligible \in [Asks -> SUBSET Offered]
    /\ Changes \in [Asks -> SUBSET SUBSET Offered]

ASSUME LoginAssumption ==
    /\ None \notin Attempts \cup Sessions \cup Users \cup Subjects \cup Emails
    /\ None \notin Login!User \cup Login!Session \cup Login!Attempt
                   \cup Login!Callback \cup Login!Deletion

-----------------------------------------------------------------------------
(* Values of the constants. *)

\* Edits of the text to another one, of the level, and of the status.
AllPatches ==
    {<<"text", other>>, <<"level", "RESTRICTED">>}
        \cup ({"status"} \X {"ACTIVE", "ARCHIVED", "DELETED"})

\* A harmless and a sensitive proposal.
TwoContents ==
    {[status |-> "ACTIVE", reviewState |-> "APPROVED", expiresAt |-> Evaluation!Null,
      sensitivity |-> s, categories |-> {}] : s \in {1, 3}}

Permissions(operations, sensitivity, asks) ==
    [operations |-> operations, maxSensitivity |-> sensitivity, allowed |-> {},
     denied |-> {}, requiresConfirmation |-> asks, expiresAt |-> Evaluation!Null]

\* Permissions that let the app write, write when the owner agrees, suggest
\* what is harmless, and only read.
FourTerms ==
    {Permissions({"WRITE", "SUGGEST"}, 3, FALSE), Permissions({"WRITE", "SUGGEST"}, 3, TRUE),
     Permissions({"SUGGEST"}, 1, FALSE), Permissions({"READ"}, 3, FALSE)}

\* One request is about all memories, and its preview changes: in the text, or
\* to fewer memories.  The other one is about one of them.
OneOffered == {CHOOSE m \in Offered : TRUE}
OfferedAtFirst == [r \in Asks |-> IF r = w1 THEN Offered ELSE OneOffered]
OfferedLater == [r \in Asks |-> IF r = w1 THEN {Offered, OneOffered} ELSE {}]

\* Candidates with at most one thing wrong, and opinions with at most one doubt.
AtMostOne(faults) == \A i, j \in DOMAIN faults : faults[i] /\ faults[j] => i = j
OneFlaw ==
    {c \in Shapes!AllCandidates :
        Cardinality(c.flaws) <= 1 /\ AtMostOne(<<c.flaws # {}, ~ c.atomic, c.ambiguousDate>>)}
OneDoubt ==
    {v \in Shapes!Verdicts :
        AtMostOne(<<v.supported # "yes", ~ v.atomic, ~ v.categories,
                    v.sensitivity = "RESTRICTED">>)}

-----------------------------------------------------------------------------

Parts == {"transfer", "index", "login", "mcp", "suggest", "access", "review", "editor", "steward", "provider", "schedule"}

(* The variables of a component that is not there. *)
NoTransfer ==
    /\ row = None /\ passed = None /\ edits = None /\ app = None /\ queued = None /\ jobs = None
    /\ reading = None /\ file = None /\ panel = None /\ import = None

NoIndex ==
    /\ memory = None /\ version = None /\ told = None /\ request = None /\ redis = None
    /\ run = None /\ job = None /\ worker = None /\ vectors = None

NoLogin ==
    /\ user = None /\ session = None /\ attempt = None /\ jar = None /\ callback = None
    /\ deletion = None

NoMcp ==
    /\ clock = None /\ granted = None /\ mcpSession = None /\ windows = None
    /\ call = None /\ admitted = None /\ server = None

NoSuggest ==
    /\ trust = None /\ permission = None /\ versions = None /\ submission = None
    /\ filed = None /\ toEmbed = None

NoAccess ==
    /\ connected = None /\ policy = None /\ made = None /\ list = None /\ seen = None
    /\ editor = None /\ saving = None /\ permit = None /\ permCall = None

NoReview ==
    /\ offer = None /\ decision = None /\ cache = None /\ stale = None /\ screen = None
    /\ sent = None /\ refreshing = None

NoEditor ==
    /\ stored = None /\ shown = None /\ url = None /\ going = None /\ form = None /\ ask = None
    /\ sending = None

NoSteward ==
    /\ kept = None /\ proposed = None /\ candidate = None /\ receipts = None
    /\ toolCall = None /\ touched = None

NoProvider == chosen = None /\ late = None /\ work = None

NoSchedule ==
    /\ setting = None /\ scheduled = None /\ jobsTab = None /\ starting = None
    /\ agreed = None /\ clean = None

Init ==
    /\ part \in Parts
    /\ IF part = "transfer" THEN Transfer!Init ELSE NoTransfer
    /\ IF part = "index" THEN Index!IndexInit ELSE NoIndex
    /\ IF part = "login" THEN Login!AccountsInit ELSE NoLogin
    /\ IF part = "mcp" THEN Mcp!McpInit ELSE NoMcp
    /\ IF part = "suggest" THEN Suggest!SuggestInit ELSE NoSuggest
    /\ IF part = "access" THEN Access!AccessInit ELSE NoAccess
    /\ IF part = "review" THEN Review!ReviewInit ELSE NoReview
    /\ IF part = "editor" THEN Editor!EditorInit ELSE NoEditor
    /\ IF part = "steward" THEN Steward!StewardInit ELSE NoSteward
    /\ IF part = "provider" THEN Provider!ProviderInit ELSE NoProvider
    /\ IF part = "schedule" THEN Schedule!ScheduleInit ELSE NoSchedule

Next ==
    \/ /\ part = "transfer" /\ Transfer!Next
       /\ UNCHANGED <<part, indexVars, loginVars, mcpVars, suggestVars, accessVars,
                       reviewVars, editorVars, stewardVars, providerVars, scheduleVars>>
    \/ /\ part = "index" /\ Index!IndexNext
       /\ UNCHANGED <<part, transferVars, loginVars, mcpVars, suggestVars, accessVars,
                       reviewVars, editorVars, stewardVars, providerVars, scheduleVars>>
    \/ /\ part = "login" /\ Login!AccountsNext
       /\ UNCHANGED <<part, transferVars, indexVars, mcpVars, suggestVars, accessVars,
                       reviewVars, editorVars, stewardVars, providerVars, scheduleVars>>
    \/ /\ part = "mcp" /\ Mcp!McpNext
       /\ UNCHANGED <<part, transferVars, indexVars, loginVars, suggestVars, accessVars,
                       reviewVars, editorVars, stewardVars, providerVars, scheduleVars>>
    \/ /\ part = "suggest" /\ Suggest!SuggestNext
       /\ UNCHANGED <<part, transferVars, indexVars, loginVars, mcpVars, accessVars,
                       reviewVars, editorVars, stewardVars, providerVars, scheduleVars>>
    \/ /\ part = "access" /\ Access!AccessNext
       /\ UNCHANGED <<part, transferVars, indexVars, loginVars, mcpVars, suggestVars,
                       reviewVars, editorVars, stewardVars, providerVars, scheduleVars>>
    \/ /\ part = "review" /\ Review!ReviewNext
       /\ UNCHANGED <<part, transferVars, indexVars, loginVars, mcpVars, suggestVars,
                       accessVars, editorVars, stewardVars, providerVars, scheduleVars>>
    \/ /\ part = "editor" /\ Editor!EditorNext
       /\ UNCHANGED <<part, transferVars, indexVars, loginVars, mcpVars, suggestVars,
                       accessVars, reviewVars, stewardVars, providerVars, scheduleVars>>
    \/ /\ part = "steward" /\ Steward!StewardNext
       /\ UNCHANGED <<part, transferVars, indexVars, loginVars, mcpVars, suggestVars,
                       accessVars, reviewVars, editorVars, providerVars, scheduleVars>>
    \/ /\ part = "provider" /\ Provider!ProviderNext
       /\ UNCHANGED <<part, transferVars, indexVars, loginVars, mcpVars, suggestVars,
                       accessVars, reviewVars, editorVars, stewardVars, scheduleVars>>
    \/ /\ part = "schedule" /\ Schedule!ScheduleNext
       /\ UNCHANGED <<part, transferVars, indexVars, loginVars, mcpVars, suggestVars,
                       accessVars, reviewVars, editorVars, stewardVars, providerVars>>

Spec == Init /\ [][Next]_vars

-----------------------------------------------------------------------------
(* The components' properties, and the types of their states. *)

\* Export and import: an import offers nothing that was archived, restores nothing
\* dormant to retrieval, and what has lapsed stays lapsed whichever way it comes.
TransferSound ==
    part = "transfer" =>
        /\ Transfer!TypeOK
        /\ Transfer!DormantStaysDormant

\* Memories and their index: the last status a memory's provenance tells is the
\* one it has, once the job of the latest change has succeeded there is a vector
\* of what the memory says now, and searching by meaning finds no archived or
\* deleted memory.
IndexSound ==
    part = "index" =>
        /\ Index!IndexTypeOK
        /\ Index!HistoryTellsStatus
        /\ Index!CurrentIsEmbedded
        /\ Index!DormantNotFoundByMeaning

\* Accounts: a login attempt signs in at most once, however often its callback
\* comes, and in the browser that began it.
LoginsSound ==
    part = "login" =>
        /\ Login!AccountsTypeOK
        /\ Login!AttemptUsedOnce
        /\ Login!SignedInWhereBegun

\* The MCP server calls the API with a token only for requests that brought it,
\* and no token passes twice its limit within the length of a window.
McpSound ==
    part = "mcp" =>
        /\ Mcp!McpTypeOK
        /\ Mcp!SpeaksForItself
        /\ Mcp!RateHolds

\* What may become a memory: an app's suggestion is covered by the permissions
\* recorded with it; a tool's receipt tells what the tool did; once the owner
\* has left a provider at most one more request goes to it, and a candidate that
\* may be written is sound.
IntakeSound ==
    /\ part = "suggest" => Suggest!SuggestTypeOK /\ Suggest!FiledUnderItsPermissions
    /\ part = "steward" => Steward!StewardTypeOK /\ Steward!ReceiptsAreTrue
    /\ part = "provider" =>
        /\ Provider!ProviderTypeOK
        /\ Provider!OneRequestAtMost
        /\ Provider!EligibleIsSound

\* The pages: an app's form sends it its own values, a token on the page and a
\* permissions form belong to the app they were opened for, a preview under the
\* owner's ticks never changes into another one, consolidation applies by itself
\* only what the owner agreed to, and its schedule follows its setting.
PagesSound ==
    /\ part = "access" =>
        /\ Access!AccessTypeOK
        /\ Access!SavedToItsApp
        /\ Access!TokenOfSelected
        /\ Access!PermissionsForTheirApp
    /\ part = "review" => Review!ReviewTypeOK /\ Review!TicksAreTheOwners
    /\ part = "editor" => Editor!EditorTypeOK
    /\ part = "schedule" =>
        /\ Schedule!ScheduleTypeOK
        /\ Schedule!AutoApplyWasAgreed
        /\ Schedule!ScheduleFollowsSetting

\* What a step may not do: an import changes nothing that was there; two first
\* sign-ins of one identity end in the same account, and an account is deleted
\* only after its own identity was proved again; an idle MCP session is not
\* revived; a removed app adds nothing; a form opened on removed permissions does
\* not touch the ones set up since; what is approved is what was on the screen; a
\* memory is deleted only after a dialog that named it, or when the page took it
\* for deleted; and a correction is completed only when nothing it contradicts was
\* left as it was.
StepsSound ==
    [][/\ part = "transfer" => Transfer!ImportsOnlyAdd
       /\ part = "login" => Login!FirstSignInsAgree /\ Login!DeletedByItsIdentity
       /\ part = "mcp" => Mcp!IdleSessionStaysDead
       /\ part = "suggest" => Suggest!RemovedAppAddsNothing
       /\ part = "access" => Access!RecreatedPolicyUntouched
       /\ part = "review" => Review!ApprovedAsShown
       /\ part = "editor" => Editor!OnlyConfirmedIsDeleted
       /\ part = "steward" => Steward!ReconciledWithTheVault]_vars
=============================================================================

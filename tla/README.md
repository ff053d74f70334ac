# Formal models of Funes Vault

Funes Vault keeps one owner's memories, hands selected ones to AI clients under
policies, and keeps itself tidy with background jobs. This directory holds TLA+
models of the parts where the order of events decides whether that is safe,
TLC configurations that check them on small instances, and proofs, checked by
TLAPS, of the properties that matter most for instances of any size.

    tlc -workers 2 -config DisclosureReview.cfg MCDisclosure    # one run
    tlapm DisclosureProofs.tla                                   # one proof module

`PROJECT.json` lists the runs with their properties, the definition-to-source
map, the mutants (plausible bugs, each of which a property must notice), the
findings, the hazards and the theorems.

Paths below are relative to `src/`; `api/` stands for `apps/api/src/` and `web/`
for `apps/web/src/features/`.

## 1. The system

| Component | State it keeps | Operations | Talks to |
|---|---|---|---|
| Memory requests (`api/memory-requests`) | `MemoryRequest` rows with a review snapshot, audit events | bundle, preview, approve or deny, collect the result | policies, clients, memories, retrieval provider |
| Policy evaluation (`api/policies`) | `Policy` rows with versions | create, edit, delete; evaluate a client's operation on memories | every operation of a client |
| Clients (`api/clients`) | `Client` rows with trust | register, trust, block, delete | OAuth grants, policies, requests (cascade) |
| Authorization server (`api/oauth`) | registrations, authorization requests, codes, tokens | register, authorize, consent, exchange, refresh, revoke | clients, policies, the MCP server |
| Memory extraction (`api/memory-processing`) | extraction runs with claim, lease and pending candidates; receipts | process a turn, retry, reprocess, reconcile | chat turns, two providers, suggestions, first-party access |
| Consolidation (`api/consolidation`, `api/jobs`) | job runs, inspection marks on memories, archive proposals, a schedule in Redis | schedule, start, retry, run, review | queue, provider, memories, suggestions |
| Suggestions and captures (`api/memory-suggestions`) | `MemorySuggestion` rows | suggest, write, capture, apply, reject, bulk review | memories, policies, embedding queue |
| Memories (`api/memories`) | `Memory` rows, provenance | create, update, delete, search | embedding queue |
| Embeddings (`api/embeddings`) | one vector per memory and content hash | generate, regenerate, retry | queue, provider |
| Accounts (`api/auth`) | users, sessions, login attempts | sign in, sign out, verify and delete the account | everything, by cascade |
| Chat (`api/chat`, `web/chat`) | threads and messages; a tab's stream | submit, stream, retry, title, rename; the steward's tools | provider, extraction, memories |
| Voice (`api/voice`, `web/voice`) | voice sessions, turns, tool calls; a panel's media | mint, speak, call tools, end | provider, chat, extraction |
| Import and export (`api/data-control`, `web/settings/data`) | a file and its preview in the browser | export, preview, import | memories, policies, clients |
| Browser pages (`web/`) | offline capture queue, forms, caches, dialogs | edit, review, save, queue and resend | the API |
| MCP server (`packages/mcp`) | sessions, rate windows | initialize, call a tool, close, sweep, shut down | the API, with its clients' tokens |

What makes the code hard to test is the same in every component. A handler is a
chain of database statements with waits between them (a provider's answer, a
queue, another handler); PostgreSQL runs each statement under READ COMMITTED,
so what one statement read may be stale when the next one writes; and only some
chains are closed by a row lock (`lockUser`, `lockMemories`, `FOR UPDATE`), a
conditional update, a foreign key or a version comparison. In the browser every
`await` is such a gap: the owner clicks on, navigates away or signs out. The
models therefore make one atomic step of what the database or the event loop
makes atomic, and of nothing more. `PROJECT.json` lists each hazard at the line
where it bites.

What has to be true of each component:

* **Requests**: nothing is disclosed that was not permitted or granted, a grant
  is used once, for what the owner saw, and a deleted policy closes its requests.
* **Authorization server**: a decision, a code and a refresh token are used
  once; a token carries no more than its consent and dies with its grant.
* **Extraction**: a turn is committed once, by the call that holds its claim
  under the current provider; each candidate is accounted for exactly once; a
  provider the owner left is sent nothing more; what is pending is resolved once,
  and nothing is written next to a record that was seen to say the same.
* **Consolidation**: what is archived is what was judged, something survives
  it, and nothing is hidden from later runs without having been judged; the
  schedule follows the setting.
* **Captures and suggestions**: a capture is never lost, reaches no other
  owner's vault, and becomes at most one memory per suggestion; an app's
  proposal is filed under permissions that covered it.
* **Memories and embeddings**: the history tells the status a memory has; once
  its last job succeeded there is a vector of what it says now.
* **Accounts**: a login attempt is used once, in the browser that began it; an
  account is deleted only by its own identity.
* **Chat**: a submission yields one message; the answer follows it in its
  thread; the conversation on the screen stays in one thread.
* **Voice**: every way out of a session lets go of the microphone and ends the
  row; a tool call keeps the utterance it was made for.
* **Import**: an import only adds, and makes nothing retrievable that was archived
  or has lapsed.
* **MCP server**: a request speaks for the token it brought, and only for it.
* **Pages**: what is saved, approved or deleted is what the owner saw.

## 2. Modules

| Module | Models | Run |
|---|---|---|
| `PolicyEvaluation` | `evaluateForClient`, `evaluateCandidateMemories` as operators | (in `Disclosure`, `AppSuggestions`) |
| `Disclosure` | memory requests from bundle to collection | `disclosure_*` |
| `OneTimeGrant` | abstract: what the owner is promised about a request; `Disclosure` implements it | `disclosure_selection` |
| `OAuth` | registration to token revocation, clients and policies as consent writes them | `oauth_*` |
| `Extraction` | claims, commits and reconciliation of extraction runs, next to the owner's edits | `extraction_claims` |
| `KeptOnce` | abstract: what the owner is promised about the claims of a turn; `Extraction` implements it | `extraction_claims` |
| `Consolidation` | consolidation jobs, runs, proposals and their review | `consolidation_runs` |
| `Captures` | the browser's capture queue, capture intake, review of suggestions | `captures_queue` |
| `VoiceSession`, `VoiceBridge` | a voice panel's controller and the API's rows; on top of it, transcripts and tool calls | `voice_sessions` |
| `Chat` | tabs, streams, threads, messages, titles | `chat_turns` |
| `VaultTransfer` | export, import panel, import | `side_by_side` |
| `MemoryIndex` | a memory's edits and provenance, embedding jobs, search | `side_by_side` |
| `Accounts` | login attempts, callbacks, sessions, deletion | `side_by_side` |
| `McpServer` | sessions, limits and shutdown of the MCP server | `side_by_side` |
| `AppSuggestions` | suggestions and direct writes of an app | `side_by_side` |
| `StewardTools` | the chat steward's tools, their receipts, completion of a candidate | `side_by_side` |
| `ExtractionProviders` | the stages of the two providers, retries, validation | `side_by_side` |
| `AccessEditor`, `ReviewScreen`, `MemoryEditor`, `ScheduleSettings` | the pages, with the endpoints they talk to | `side_by_side` |
| `MC*` | inputs, symmetry and the properties of the TLC instances | the runs |
| `*Proofs` | theorems and proofs | |

A definition named `X_Y` with a comment "Mutant" is not part of a model: it is
`X` with a plausible bug, used to show that a property can fail.

### Disclosure

State: `now`; `memory[m]` with content and version; `client[c]` with trust and
retrieval profile; `policy[c]` with id (0 for none), version and terms;
`request[r]`, the row; `call[k]`, a handler in progress; `shown[r]`, what the
owner's browser shows; `audit[r]`, the request's events in commit order.

| Action | Code |
|---|---|
| `StartBundle`, gate, `Retrieve`, commit steps | `createBundleRequest` |
| preview steps | `DisclosureReviewService.preview` |
| approve and deny steps | `decide`, `disclosure-state.ts` |
| result steps | `result` |
| edits | `memories`, `policies` and `clients` services |

A call's phase is the next statement it will run: `gated`, `retrieved`, `read`,
`locked`. Row locks are the phase `locked`: at most one call per request is in
it. A deletion of a client first takes the client's row and then, by cascade, its
requests: `AwaitLocks` puts the client into `deleting` while a call has one of
them locked, and inserts that refer to the client wait for it meanwhile. A review
that has to record its decision then waits for the deletion that waits for it;
`Deadlock` fails one of the two, as PostgreSQL does. A save advances the clock,
so versions compare as timestamps do. An update
of a policy that changes only its categories may or may not advance the policy's
version, because the ORM writes relation changes without touching the row.
Scores, text and instructions are abstracted: retrieval is any choice of live
memories, and a bundle is a set of items with their versions.

### OAuth

State: `registration[g]`, `request[q]`, `client[g]`, `policy[g]`, `code[c]`,
`pair[p]` (an access and a refresh token), `call[k]`, `replayed` (codes presented
again).

Handlers are chains of statements, and each statement that reads or writes is
one step: `PresentCode`, `Consume`, `Issue` for an exchange, `PresentRefreshToken`,
`Rotate`, `Issue` for a refresh, `LoadRequest`, `ReadConsentClient`,
`EnsureClient`, `CommitGrant` for a consent. Lifetimes are expiry steps, which
may happen at any time. Refusals that write nothing are the absence of a step.
Trust `BLOCKED` of a registration is read but never written by the code, so it
is not a state. `MaxRows` bounds the ids of clients and policies.

### Extraction, ExtractionProviders, StewardTools

`Extraction` follows one owner. State: `provider`; `access`, the first-party
client's effective permission; `run[s]` per source message, with status,
configuration, claim, lease, pending candidates and result; `message[s]`, the
result the chat shows; `receipt[s][c]`; `record`, the memory or suggestion a
candidate became; `words`, what it says; `tools[s]`, the steward's recorded calls;
`call[k]`; and two histories, `commits[s]` and `theirs`, the memories the owner has
edited or restored. `Begin`, `Upsert`, `Claim`, `Ask`, `Answer`, `LockOutcome`,
`CommitOutcome`, `Enqueue`, `PersistFailure` are the statements of
`ExtractionRunService.process` in order; `BeginCompletion`, `LockResolution` (of
`CompleteCreate` or `CompleteHandled`) and `CommitResolution` those of `complete`.
`Begin` reads the configuration with the source, and `Answer` and `BeginCompletion`
make sure of the first-party access (`EnsureAccess`) in the step before the locks.
`Crash` ends the API process, `LapseLease` passes a lease's time, `Upgrade` makes an
old run stale. The claim token is the call's id. `lockUser` followed by `FOR UPDATE`
on the run is `Locked`, the phases `locked` and `resolving`: what a transaction
looks up is one step and what it writes the next, because edits take no lock.
`UpdateMemory` is `updateMemory`, `deleteMemory`, archival or expiry: it says
something else, goes, or comes back. `Text` is the normalised text of a candidate,
which its record says until the owner edits it; an approval with changes is an
approval and an edit. Records that extraction did not write, and equal texts among
them, are left out.

`KeptOnce` is what the owner is promised, without calls, leases or providers: a
turn is read once and as a whole; a claim of it becomes a record, is left open or
is dropped; only open ones are settled later. Who is about to write looks first,
and writes nothing that a record was seen to say; what the owner changes in the
meantime may be missed. A record that is removed comes back by the owner's hand
only, and a suggestion that is refused never does. `Fate` maps a run's row and its
records to it: a turn is unread until its run is done, a candidate is open while its
outcome is `pending_reconciliation`, and dropped once its suggestion was rejected.

What `Extraction` takes as any answer, `ExtractionProviders` opens: the three
calls of the classifier (select paragraphs, normalise, check) or the one of the
language model, each with one retry that checks the owner's choice again, and
`validateCandidate`. Candidates are judged one by one, so one is followed: what
it cites, what it intends, and what can be wrong with it. A quote is where it
begins and where it ends: the classifier's marks of a paragraph apply to the quotes
that lie in it (`Cited`), and to none that goes beyond it.

What `Extraction` takes as a recorded tool call, `StewardTools` opens: a tool is
executed, and its receipt stored in another transaction, while the owner edits
and reviews; `CompleteHandled` and `CompleteCreate` are `complete`, with the
searches and matches it asks for, as one step: what happens between its look and
its write is in `Extraction`.

### Consolidation, ScheduleSettings

State: `now`; `memory`, rows with their timestamps; `mode` and `provider`, the
owner's settings; `job`, rows of runs, with the metadata a retry starts from;
`run[j]`, what the worker holds; `proposal`; `applied`, the last
`CONSOLIDATION_APPLIED` provenance entry; `judged`, a history of the revisions a
provider has judged. `ApplyMode` is the deployment's
`MEMORY_CONSOLIDATION_APPLY_MODE`.

`Begin`, `FindSources`, `LoadSources`, `Ask`, `Answer`, `Plan`, then one of
`ArchiveCandidate`, `CreateArchiveSuggestion`, `SkipAction` per action, then
`MarkConsolidated`, `MarkInspected`, `Finish` follow `runConsolidation` and
`processConsolidation`. Only the transaction of one action is atomic; the
duplicates of all sources are read in one step, since what they find is checked
again in that transaction. `Fail` is the catch block, `Crash` the end of the
worker's process, `RecordQueued` the update of the row that
`enqueueConsolidationRun` makes after the worker may have taken the job. Which
pairs are similar enough, and what the provider says of them, is any choice.
The first state is a vault that was just imported.

`ScheduleSettings` has the settings page of two tabs, the setting's row, the
schedule in Redis and the worker's start, which repairs schedules. `clean` and
`agreed` are histories: whether the last update ran alone, and whether the
owner's dialog agreed to what was written last.

### Captures, AppSuggestions

`Captures`: `session`, the owner of the browser's cookie; `queue[c]`, a
capture's row in IndexedDB; `removed`, a history of what the owner took out;
`clearing`, what `clearSyncedCaptures` has read; `page[t]`, an open page with
what is left of the queue it read; `delivery[d]`, a request on its way;
`suggestion[s]` and `review[k]`, in the API. `Sync`, `Send`, `Receive`,
`LoseConnection` are `syncCaptures`; `LearnOwner` is the abort that an owner
change causes; `LookUp` and `Create` are the two statements of `captureNote`,
behind `CaptureAuthGuard` (`Admitted`); `Refuse` is any 4xx answer before the
vault is read, rate limiting included. A page that gave up leaves its request to
the API, which may still store the capture. `StartReview` reads the rows, and
`ReviewNext` is the transaction of one of them: a single review is a bulk review
of one.

`AppSuggestions`: one app proposes a memory, which is evaluated with
`PolicyEvaluation` in one statement and filed as a suggestion or a memory in
another, while the owner rewrites the permissions, blocks and removes the app.

### VoiceSession, VoiceBridge

`ctl[p]` is the controller of a panel: the await it is in, whether it was
cancelled, what it holds (microphone, peer connection, timers) and what the
screen shows; `request[p]` the POST that mints a session; `row[r]` the API's
session; `lost`, rows that the browser or the API was not told about. Each await
of `start` has its success, its failure and its cancellation; `abortStart` and
`stop` are phases of their own, because they wait for the API to end the row.

`VoiceBridge` extends it with the data channel: `latest`, `barrier`, `turn`,
`message`, `call`. A tool call that arrives before its transcript waits at the
barrier, up to a timeout. The provider's events come in any order, twice, and
with other words.

### Chat

`tab`, with the thread it is in, its stream and what it has not yet adopted;
`thread`, with titles; `log`, all messages in order; `request`, turns the API is
working on. A stream can be cut or stopped at any step while the API goes on; a
submission can arrive again. The tab adopts the thread of its first message when
the stream ends, as `use-chat-transport.ts` does.

### MemoryIndex, Accounts, McpServer, VaultTransfer

`MemoryIndex`: one memory; updates read it before the transaction that changes
it, ask for a vector after it, and may fail to; one worker runs jobs one at a
time, embeds the text it read, and stores the vector under that text, whatever
the memory says by then. `vectors` are the contents there are rows of, and the
one whose row was updated last. `told` is the last status its provenance tells.

`Accounts`: each statement of the Google callback is a step (`find`, `consume`,
`exchange`, `lookup`, `email`, `create`, `recover`, `session`), so two callbacks
of one attempt, or two first sign-ins of one identity, interleave everywhere.

`McpServer`: requests wait for their bodies and for the API's verdict on their
token; meanwhile sessions are closed, swept or revoked, and the server shuts
down. `admitted` is a history of what passed the limits.

`VaultTransfer`: an export is three reads of different moments; an import maps
names, trusts nobody, and is one transaction, which restores memories as they were
or queues those that are neither archived nor deleted as suggestions. A memory has
a status and may have a date, which passes at any time. The panel holds a text and
a preview that may belong to different texts; its dialog is modal.

### AccessEditor, ReviewScreen, MemoryEditor

Each is a page's hook with the endpoints it talks to. A request is sent, served
and answered in three steps, between which the owner clicks whatever the page
leaves enabled, and another session changes the same rows. What a form holds is
kept as *whose* values they are. What the memory page knows of the rows (`shown`)
is what it last heard, and a form's save asks before it deletes by that, as
`selectedMemory` does. `ReviewScreen`'s server is the part of `Disclosure` the page
sees: a revision, what it offers, one decision.

## 3. Runs

| Run | Question | Bounds |
|---|---|---|
| `disclosure_review` | Two overlapping calls on a request while everything it depends on is edited, blocked, deleted | 1 memory, 1 client, 1 request, 2 calls, 2 edits |
| `disclosure_selection` | Partial selections, two clients; is it the promised one-time grant? | 2 memories, 2 clients, 1 call |
| `disclosure_progress` | Is every call answered? | 2 calls that contend for a lock, a deletion that waits for them |
| `disclosure_automatic` | (violation) Is an automatic bundle permitted as it commits? | 1 call, 1 edit |
| `oauth_tokens` | Overlapping consent, exchange, refresh, revocation and approval of the app, with deletion of the grant | 2 calls, 2 codes, 2 pairs, 2 grant rows, trust `APPROVED`; a refresh asks for the scope of the consent or for more |
| `oauth_revocation` | (violation) Is every token dead once its code was replayed, its refresh token reused or its app blocked? | 2 calls, 1 code, 3 pairs, trust `BLOCKED` |
| `extraction_claims` | Two calls on one turn, lapsing leases, restarts, changing provider and access, reconciliation; does it keep the promise of `KeptOnce`? | 2 candidates with one text, 2 calls, 2 providers, 2 things a memory may say; named bounds (`NotesMatter` and its like, below) |
| `captures_queue` | Two pages and two owners on one device, lost answers, overlapping intake and review | 1 capture, 2 pages, 2 requests, 2 suggestions, 2 reviews |
| `consolidation_runs` | Two runs at once, or one run of two attempts over mixed memories while the provider is switched | 2 memories and 2 jobs, or 3 memories, 1 job and 2 providers |
| `voice_sessions` | Panels cancelled at every await, sessions over the cap, speech and tool calls in any order; does everything end? | 2 panels, 3 rows, cap 1, 2 utterances of which one is heard twice, 1 tool call |
| `chat_turns` | Repeated, stopped and cut turns while threads are opened, titled and renamed | 1 tab, 2 turns at once, 2 threads, 3 messages |
| `side_by_side` | Eleven components that share no state, one per behaviour | see below |

`consolidation_runs` and `side_by_side` put instances next to each other: a
variable (`scenario`, `part`) says which one a behaviour belongs to, and the
properties are those of that one. In `side_by_side`: export and import with two
memories and two apps; one memory, new or embedded, with two overlapping
changes and two job runs of two deliveries; two browsers, identities, attempts
and callbacks; an MCP session with two tokens; one app with four kinds of permissions; an app page with two
apps and two generations of permissions; two sharing requests of which one
changes; three memories on the memory page; one memory, one suggestion and one
turn for the steward; a message of two paragraphs of which the classifier looks
at one; two tabs of the settings page.

A property of a run is often a conjunction of named parts (`RowsAgree` is
`ApprovedRowIsItsGrant /\ BoundPolicyExists`); the parts are stated in the
component's module, each with the behaviour it is about.

`extraction_claims` has four named bounds in `MCExtraction`, as action constraints:
a search or a change is noted while its turn has a candidate to reconcile
(`NotesMatter`; only a resolution reads the notes), an upgrade meets an unfinished
run (`UpgradesMatter`; of a finished one it refuses reconciliation), a memory is
edited while it is live or as it comes back (`EditsMatter`; what a removed one says
matters to nobody), and one memory is edited or restored, any number of times
(`OneIsTheirs`). The proofs need none of them.

Why the bounds are enough: the properties relate at most two calls, two records
or two attempts, and each instance has that many of what its properties relate,
with the edits that make them differ. What the bounds cut is repetition (a third
call, a second request), which the proofs cover. `MaxTime` is the last time at
which the owner acts; the clock may still advance for what the system itself
saves.

Symmetry is used over calls, clients, jobs, proposals, providers and contents
where the instance treats them alike; never in a run with a liveness property.
Deadlock is checked in `chat_turns` only: elsewhere ids and time are bounded,
the owner may delete everything, and a system at rest is a correct one.

**Fairness** is assumed in two runs. In `disclosure_progress`: strong fairness of
each call's next statement. Every statement is answered or its call ends with the
connection, and PostgreSQL serves the waiters of a row lock in turn, so a call
whose next statement is enabled again and again is eventually served. So is a
deletion that waits, and PostgreSQL looks for cycles of waiting transactions (weak
fairness of `Deadlock`). In
`voice_sessions`: weak fairness of the timers (`setTimeout` of the maximum
duration and of the barrier's wait), of the browser's offer, and of tool calls,
which the vault answers or which fail. Nothing is assumed about the owner, who may
leave a panel in any state, about clients, or about the provider: its handshake
may hang for good, and `MicrophoneReleased` says nothing of a start that does.

### What the violations show

`disclosure_automatic`: `createBundleRequest` reads candidate rows and then
permissions in two statements and locks neither, so a memory deleted or
reclassified between them is disclosed, although the comment at
`api/memory-requests/memory-requests.service.ts:57` says authority and content
are read again at commit. The reviewed path compares versions and is safe.

`oauth_revocation`: an exchange consumes its code, then stores the pair in another
transaction. A replay of the code, or a block of the app, that comes between finds
no token to revoke, and the pair lives; the same goes for the second of two
refreshes in flight with one token. `docs/mcp-integration.md:121` says that these
revoke all tokens of the grant at once. The run finds the replay first; each of
the three parts of `RevocationIsComplete` is violated on its own. What does hold
of every overlap, `CodeExchangedOnce`, `TokensStayWithGrant` and
`ScopesWithinConsent`, is checked by `oauth_tokens` and proved.

## 4. Proofs

The proofs are over the same modules the runs check, for all values of the
constants under the named assumption of each module (`DisclosureAssumption`,
`OAuthAssumption`, `NoneAssumption`, `TextAssumption` and `InputAssumption` of
`Extraction`,
`CapturesAssumption`, `ChatAssumption`, `VoiceAssumption`, `BridgeAssumption`,
`ConstantAssumption` of `Consolidation`, and one per component in `MCSide`). These
say that `None` is no id, that bounds are numbers, that sets that are counted are
finite, and that inputs are of the kinds the code accepts; the passing runs
evaluate them. Each proof has the same outline: an inductive invariant `IInv`,
which TLC checked on the run's instance first; `Init => IInv`; one lemma per
action for `IInv /\ [Next]_vars => IInv'`; and the properties, read off `IInv` or,
for an action property, off `IInv` and one step.

| Proof module | `IInv` adds to the types and the properties | Proved of the runs' properties |
|---|---|---|
| `DisclosureProofs` | calls in order, rows match trails; then grants | `TypeOK`, `TrailEnds`, `DisclosureWasGranted`, `RowsAgree`, `GrantIsWhatWasShown`, `AuthorityIsCurrent`, `KeepsPromise` |
| `OAuthProofs` | lineage, belonging, one claim | `TypeOK`, `CodeExchangedOnce`, `ScopesWithinConsent`, `TokensStayWithGrant` |
| `ExtractionProofs` | what a lock holder knows, what is pending, what untouched records say | `TypeOK`, `ClaimsAndCandidates`, `StoredOnceAndShown`, `OutcomeIsSettled`, `KeepsPromise` |
| `ConsolidationProofs` | what was read, what was judged | `RunsAreSound`, `ArchivalIsJustified` (and `Consolidation`'s `TypeOK`) |
| `CapturesProofs` | what a request, a clearing and a review hold | `TypeOK`, `CapturesAreSafe` |
| `VoiceProofs` | rows in order, requests and panels, the barrier | `TypeOK`, `PanelsHoldWhatTheyShow`, `SpeechFindsItsSource`, `EndedStaysEnded` |
| `ChatProofs` | what requests and tabs refer to | `TypeOK`, `TurnsAreStored`, `ConversationsHold` |
| `SideProofs` | one invariant per component of `MCSide` | `TransferSound`, `IndexSound`, `LoginsSound`, `McpSound`, `IntakeSound`, `PagesSound`, `StepsSound` |

Why the strengthenings are needed:

* **`Disclosure`.** `decide` and `result` look at the row, the properties speak
  of the trail; *rows match trails* says that the last event of a request
  determines its status and its stored grant, and *calls in order* that no two
  calls hold one lock. The properties of grants need a second invariant,
  `GrantsAgree`: versions are instants of the past, and a row stores a grant
  exactly while it is approved. `PromiseKept` is the refinement: initial states
  map to initial states of `OneTimeGrant`, and under both invariants every step
  maps to one of its steps or to a stutter. `GrantsAreWhatWasShown` and
  `AuthorityStaysCurrent` follow each step that adds an event.
* **`OAuth`.** A pair, or a call about to issue one, descends from a consumed
  code or a spent pair and its scopes lie within them (*lineage*); a live pair
  belongs to the client row its code was issued for; a consumed code has at most
  one pair or one call about to issue it (*one claim*). All of it holds of any
  number of overlapping calls, the races of section 5 included.
* **`Extraction`.** The transaction that holds the owner's lock holds its run's
  claim too, its configuration is the owner's provider, and it knows what every
  live record says but for those the owner has edited or restored since it looked
  (`LockHolds`, `SeenTexts`); a record nobody has approved says what its candidate
  says (`WordsAgree`). That makes "one live record per text, but for the owner's own
  edits" inductive over any number of turns, not only the one of the run.
  `PromiseKept` is the refinement of `KeptOnce`: taking the locks is its `Look`, a
  commit its `Read`, a resolution settles a claim, letting go of the locks is
  `LookAway`, a rejection `Refuse`, an edit `Change` or `Remove`, and every other
  step either leaves each run unfinished or keeps its result (`Quiet`).
* **`Consolidation`.** What a run or a proposal holds is tied to the vault by
  versions: what it says of a memory was true of the version it names (`WasRead`,
  `ActionOK`), and every save moves the version on. So a transaction that finds
  the version unchanged archives what was judged. What is inspected was judged
  even while it is archived, since it may be made active again. `NoneCompete` is
  about the plan: `DedupeKeepsSomeOfThem` shows it of any list of candidates,
  and `OrderedIsOfSet` that ordering a set by a strict order loses none of it.
* **`Captures`.** A request that has looked its capture up belongs to the
  session's vault; what the API has answered for, and what a page is about to
  clear, is stored.
* **`Voice`.** Rows are used in order, and there is room for every request that
  may still create one: those counted together were counted below the cap. That
  bounds the overshoot. A tool call that was sent has an utterance that was
  heard, or given up on.
* **`Chat`.** A request's source is a row of the log, of the thread it named; a
  tab waits for a request of its own, and what a request was told of a memory is
  where it cites it.

`SideProofs` has eleven short proofs of the same outline. `LoginInvariance` and
its like say that the component that is there satisfies its invariant; the
theorems join them as the run's properties do. The invariants are about:

* **`LoginInv`.** Where cookies, callbacks and sessions come from: past its first
  statement a callback is in the browser that began its attempt, and an attempt
  that is still open was not used. A confirmed deletion is of an account that
  exists, by its own subject.
* **`McpInv`.** `RateHolds` speaks of any stretch of time, the server of a window
  that a request started. `RateOK` ties the two: in the current window at most as
  many passed as were counted, its first request among them, none after its end,
  and before it, for the length of a window, less than the limit. A window that
  has run out therefore leaves less than the limit behind (`Restarting`), whether
  the sweep forgot it or not, and a stretch holds part of two windows at most
  (`TwoStretches`).
* **`IndexInv`.** What the worker read for the run of the latest change is what
  the memory still says (`LatestOK`), whatever it carries for an older run; and
  vectors are about to be deleted only while the memory is none to be embedded,
  or a later run is still to come (`ClearOK`).
* **`TransferInv`.** What the panel and the imports name was downloaded, so an
  import is of a file that export assembled; while a dialog asks, nothing is sent.
  `DormantStaysDormant` is then inductive as it stands.
* **`SuggestInv`, `StewardInv`, `ProviderInv`.** What a transaction was told of
  the permissions it read; what a call has touched before its receipt is written;
  what the provider's stages keep of a candidate, and that nothing is sent
  for a provider that was left but for the one request that had been cleared.
* **`AccessInv`, `EditorInv`, `ScheduleInv`.** A form and its token are of the app
  or memory that is selected, and a request that is sent carries what they held;
  a request that deletes names what a dialog named; while an update of the
  settings runs alone, nobody else is between its two writes (`CleanOK`). Of the
  review page, types are enough (`ReviewInv`): what is ticked is computed from
  the preview and its revision, and the proofs are about that computation.

Induction over data. `Found` and `Kept` of `Consolidation` are recursive
functions over a list. Theorems of the library that take an operator are out of
the provers' reach, but induction for a *set* of numbers is not: `NatSet` derives
it from the well-foundedness of `<` on the naturals (`WFMin`), and `RepeatExists`
shows that such a function satisfies its equation. What the two functions return
is proved with it (`RepeatKeeps`).

Only model-checked: liveness (`CallsFinish`, `MicrophoneReleased`, `CallsSettle`:
fairness and `ENABLED` are out of the prover's reach), the absence of deadlock in
`chat_turns` (`ENABLED` again), and the runs that show a violation. `TypesHold`, which
`consolidation_runs` checks, is `TypeOK` of whichever instance of `Consolidation` the
scenario runs: `TypeCorrect` of `ConsolidationProofs` proves it of every instance.

## 5. Known limits of the code, met while modelling

Not findings of a run, but places where a careful reader would want to know, and
where a property is stated for less than one might hope.

**Sharing requests.** A review locks its request and then refers to the client in an
audit event (`disclosure-review.service.ts:192`, `:268`), while `deleteClient`
locks the client and then, by cascade, the request (`clients.service.ts:281`). The
two can wait for each other; PostgreSQL fails one of them after a second, and
nothing in the code tries again, so the owner or the client sees an error.
Deleting a client and editing its permissions, which take the two rows in opposite
orders too, can do the same; each is one step here, so what PostgreSQL fails is a
step not taken.

**Authorization server.** Four races, all of them behaviours of `OAuth`, keep what
the documents promise from holding when calls overlap; `oauth_revocation` is about
all but the first.

* `approve` and `deny` check `decidedAt` before the transaction that sets it
  (`oauth-grants.service.ts:97`, `:137`), without a condition; two decisions in
  flight are both carried out. `docs/database-schema.md:85` calls the decision
  single-use.
* The update that spends a refresh token is conditional, but its row count is
  not looked at (`oauth-provider.service.ts:268`); two refreshes in flight both
  mint.
* A replayed code's tokens are found before an exchange in flight stores its own
  (`oauth-provider.service.ts:199`).
* A block finds the tokens before an exchange or a refresh in flight stores new
  ones (`clients.service.ts:213`), and a consent that has read the client row
  approves it though it was blocked meanwhile (`oauth-grants.service.ts:259`);
  once the consent has written the row, the block waits for it.

A replay revokes the tokens of that code only (`oauth-tokens.service.ts:187`),
where `docs/mcp-integration.md:121` speaks of the whole family. The cap of
pending registrations is soft: they are counted in one statement and inserted in
another (`oauth-clients-store.service.ts:88`).

**Extraction.** `claimRun` does not compare the configuration the call read
earlier, so a call may claim a run that was re-configured meanwhile; the commit
compares the provider again. Equal texts are looked for under the owner's lock, but
edits of memories take none (`memories.service.ts:101`): a memory that is edited,
restored or made live again while a transaction is under way may come to say what
the transaction writes, and at any other time the owner may make two memories say
the same. `NoDuplicateText` excepts the memories of `theirs` for that reason. A
removed memory is not final: the owner may set it `ACTIVE` again
(`memory-update.ts:30`).

When the normaliser returns no candidates, the classifier forgets that it left
paragraphs unread (`jev-memory-extraction.provider.ts:128`), so the turn is reported
as completed. A quote counts for a paragraph only when it lies within it (`:155`),
so one that goes across a paragraph break escapes both marks: a correction keeps
the language model's intent and may be stored next to what it corrects, and a claim
that was hardly asked for may be stored without asking. The classifier's sensitivity
replaces the language model's (`:186`), also a higher one. A candidate the language
model rejected can come back as one that needs clarification (`:191`). Duplicate
candidate ids are not modelled.

**Steward.** A search that found a suggestion which the owner then approves, or
a record the tools can no longer change, leaves the candidate pending for good.
`archive_memory` on a memory the owner deleted meanwhile makes it `ARCHIVED`.
Edits of memories take no lock of the owner, so what `complete` knows of them is
what one statement read. The limits of a search (8 results, 100 matches) are not
reached. Candidates are taken as eligible and processing as permitted.

**Consolidation.** A memory whose expiry is moved to a date before its last
consolidation is not found by `findExpiredIds` any more
(`consolidation.repository.ts:45`); retrieval still excludes it. A run keeps the
mode it read at its start, and reads the targets of queued proposals outside the
transactions that add to them: two runs may queue two proposals for one memory,
of which one can be applied. `enqueueConsolidationRun` may overwrite the result
summary of a job the worker has already finished, and a failed `queue.add` or a
crash before it leaves a row `QUEUED` for good; so does a job that stalls too
often, as `RUNNING`.

**Schedule.** Overlapping updates, or a worker's start that overlaps one, may
leave the schedule on while the setting, and the page ("Currently off",
`JobsPanel.tsx:59`), say off; the worker does not look at
`consolidationEnabled`. A failed write of the schedule is reported as "Could not
save" although the row was written. The start repairs a missing schedule and
never removes a stale one. `ScheduleFollowsSetting` is therefore stated for an
update that ran alone.

**Captures and suggestions.** A capture is looked up by `captureId` and then
created without a lock (`capture-intake.ts:103`), so deliveries that overlap
store it twice; the route is documented as idempotent
(`captures.controller.ts:41`). `syncCaptures` writes the outcome into the row it
read, so a capture removed while it is being sent comes back, and one that
another page has synced may be pending again. `classifySyncFailure` takes every
other 4xx for a refusal of the content; the global rate limit answers 429, so a
long queue may mark captures failed that were never looked at. Narrowing an
app's permissions, or blocking it, between the evaluation of a proposal and its
filing does not stop the filing; `FiledUnderItsPermissions` compares with the
permissions recorded with it.

**Voice.** End pressed during a start leaves the panel on "connecting" with only
an End button, until the start's await returns. One of these awaits is the
provider's handshake (`voice-session.ts:239`), which has neither a time limit nor
an abort signal, and the timer of the maximum duration is set only after it
(`:272`): with a provider that never answers the microphone stays open on
"connecting", and ending or closing the panel only sets a flag, until the browser
gives the request up or the page is closed. An error event of the provider turns
the screen of a live session to "error" (`voice-session-state.ts:190`), where the
panel offers only Close while the microphone is still open; `ScreenIsTrue` admits
that, since closing ends the session. The daily cap is checked before
the provider is asked, so requests counted together exceed it: `CapOvershoot`
bounds by how much. Speech is followed in the owner's only session; the
assistant's transcripts, and the reasons of an end, are not told apart.

**Chat.** A submission that arrives again gets a second answer, though it is
stored once. A stream that fails before its thread-state leaves the tab a draft,
so the next turn opens another thread. The launch message's `startNewThread`
flag is not used. `StartThread` is bounded to the owner's first thread.

**Import and export.** A comment (`vault-import.service.ts:22`) speaks of
idempotent imports, but a repeated import adds its memories again. When the text
changes while a preview is under way, the old preview is shown with the new
text, and the confirmation of a high-impact import may be skipped. An import as
suggestions queues what has expired too (`vault-import-writer.service.ts:134`):
approved as it is offered, a memory whose date is past keeps that date and is not
retrieved, but one that was marked `EXPIRED` without a past date comes back.
`DormantStaysDormant` is therefore about archived memories, and about what
retrieval finds.

**Memories and embeddings.** A memory edited from A to B and back to A keeps B's
vector as the latest, and a search may use it; two workers would break
`CurrentIsEmbedded`; the search loads the rows of its hits by id, without asking
for their status again. A run whose `queue.add` failed stays `QUEUED` and cannot
be retried; a run whose worker died too often stays `RUNNING`.

**MCP server.** An `initialize` in flight when `close` finishes opens a session
that nobody closes. The GET stream does not refresh `lastSeenAt`. The guard
still accepts the static token of a blocked client; its operations are denied by
policy.

**Pages.** The app form sends the trust level with the rest, so a draft made
from a stale list can undo a block; two updates in flight after the form was
mounted again may apply in either order. Selecting a sharing request again lifts
the page's block on it, where a comment (`use-disclosure-reviews.ts:107`) says
that it must be refreshed explicitly; the server refuses the stale revision. A
refresh of one request that ends after another was selected clears the other's
ticks. A save on the memory page that ends late closes whatever form is open. The
page asks before a form deletes by the status it knows (`use-memory-workspace.ts:111`):
of a memory it shows as deleted, a form that sets `DELETED` is saved without a
dialog, though another session, or a request whose answer was lost, may have
restored it. `OnlyConfirmedIsDeleted` excepts these.

Timestamps of the API and the worker are compared as if one clock made them; the
models assume one.

## 6. Plan

Done: all modules of the table above; proofs of the safety and action properties
of the passing runs, and the refinements of `OneTimeGrant` and `KeptOnce`. Worth
doing next: a promise of that kind for consolidation (a memory is archived with
its survivor, or proposed, once per revision), and for captures.

## 7. Not modelled

* **Review inbox.** A mutation invalidates its lists only on success, and a
  failed single review restores a snapshot of the whole list, so reviews that
  overlap may make a pending suggestion vanish, or a reviewed one reappear, until
  the next fetch. The server's claim protects the data (`ReviewedOnce`), so what
  could be stated of the page is weak.
* **Web session and shell.** Two tabs that share a cookie show another owner's
  data until they fetch again, and a profile update answered after a logout shows
  the vault until a 401. The service worker caches static files only.
* **Guided interview** (`createUserSuggestion`), captures sent by apps, pruning of
  old job runs, demo login.
* Rendering and routing of the web pages, OpenAPI and DTO declarations, the MCP
  adapter's formatting, audit-event presentation, logging, seed data, release
  scripts: no state of the vault, or pure output.

Ranking, similarity, prompts, secret detection and sensitivity of text are
inputs: models let them choose anything, so what is shown holds whatever they
choose. Account deletion is in `Accounts`; the other models assume the owner's
row exists. `PROJECT.json` gives the reason for each component.

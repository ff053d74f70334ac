----------------------------- MODULE MemoryIndex -----------------------------
(***************************************************************************)
(* A memory the owner edits, the history kept of it, the vectors computed   *)
(* from it in the background, and the search that uses them:                *)
(* memories.service, memory-provenance-recorder and memory-search.repository *)
(* (apps/api/src/memories), embeddings.service and embedding-jobs.service   *)
(* (apps/api/src/embeddings), and the retry of jobs.service.                *)
(*                                                                          *)
(* An update reads the memory before the transaction that changes it, and   *)
(* asks for a new vector after it; the request may be lost.  One worker     *)
(* runs the jobs one at a time; it reads the memory when it runs, not when  *)
(* it was asked.  A worker that dies leaves its job to be run again.        *)
(***************************************************************************)
EXTENDS Naturals, FiniteSets

CONSTANTS
    Texts,        \* what a memory may say
    FirstTexts,   \* what it may say at first
    Requests,     \* slots for the owner's requests
    Runs,         \* slots for job runs
    Patches,      \* the changes requests ask for
    MaxVersion,   \* bound on changes of the memory
    MaxDeliveries, \* how often the queue gives a job out: attempts and redeliveries
    None

VARIABLES
    memory,    \* the memory, None before it is created
    version,   \* how often it was changed
    told,      \* its latest provenance entry that tells a status
    request,   \* requests under way
    redis,     \* whether this deployment has a queue
    run,       \* JobRun rows
    job,       \* the queue's jobs
    worker,
    vectors    \* Embedding rows, and the one with the latest updatedAt

indexVars == <<memory, version, told, request, redis, run, job, worker, vectors>>

Statuses == {"ACTIVE", "ARCHIVED", "DELETED"}
Levels == {"NORMAL", "RESTRICTED"}
Memory == [text: Texts, status: Statuses, level: Levels]
\* What buildMemoryEmbeddingText hashes.
Content == [text: Texts, level: Levels]
ContentOf(m) == [text |-> m.text, level |-> m.level]

\* A request to change one field.
Patch == ({"text"} \X Texts) \cup ({"status"} \X Statuses) \cup ({"level"} \X Levels)

Entry == [type: {"CREATED", "ARCHIVED", "DELETED", "RESTORED", "STATUS_CHANGED"},
          status: Statuses]
Request == [phase: {"idle", "read", "enqueue"}, patch: Patch \cup {None},
            delete: BOOLEAN, before: Statuses \cup {None}, latest: BOOLEAN]
\* latest: it was asked for after the latest change of the memory.
Run == [status: {"QUEUED", "RUNNING", "SUCCEEDED", "FAILED", "CANCELLED"},
        latest: BOOLEAN]
Job == [at: {"waiting", "active"}, given: 0..MaxDeliveries]
Worker == [run: Runs \cup {None},
           phase: {"idle", "read", "clear", "generate", "store", "done", "ack"},
           content: Content \cup {None}]

NoRequest == [phase |-> "idle", patch |-> None, delete |-> FALSE, before |-> None,
              latest |-> FALSE]

\* The contents there are vectors of.
Vectors == [of: SUBSET Content, latest: Content \cup {None}]
NoVectors == [of |-> {}, latest |-> None]

IdleWorker == [run |-> None, phase |-> "idle", content |-> None]

IndexTypeOK ==
    /\ memory \in Memory \cup {None}
    /\ version \in 0..MaxVersion
    /\ told \in Entry \cup {None}
    /\ request \in [Requests -> Request]
    /\ redis \in BOOLEAN
    /\ run \in [Runs -> Run \cup {None}]
    /\ job \in [Runs -> Job \cup {None}]
    /\ worker \in Worker
    /\ vectors \in Vectors

\* No memory yet, or one that was embedded.
IndexInit ==
    /\ \/ memory = None /\ told = None /\ vectors = NoVectors
       \/ /\ \E t \in FirstTexts :
                memory = [text |-> t, status |-> "ACTIVE", level |-> "NORMAL"]
          /\ told = [type |-> "CREATED", status |-> "ACTIVE"]
          /\ vectors = [of |-> {ContentOf(memory)}, latest |-> ContentOf(memory)]
    /\ version = 0
    /\ request = [q \in Requests |-> NoRequest]
    /\ redis \in BOOLEAN
    /\ run = [r \in Runs |-> None]
    /\ job = [r \in Runs |-> None]
    /\ worker = IdleWorker

-----------------------------------------------------------------------------
(* memories.service *)

\* createMemory: the memory, of the status asked for, its audit event and its
\* provenance in one transaction; then the embedding is asked for.
CreateMemory(q, t, status) ==
    /\ memory = None
    /\ request[q].phase = "idle"
    /\ version < MaxVersion
    /\ memory' = [text |-> t, status |-> status, level |-> "NORMAL"]
    /\ version' = version + 1
    /\ told' = [type |-> "CREATED", status |-> status]
    /\ request' = [request EXCEPT ![q] = [NoRequest EXCEPT !.phase = "enqueue",
                                                           !.latest = TRUE]]
    /\ UNCHANGED <<redis, run, job, worker, vectors>>

\* updateMemory and deleteMemory read the memory first.
ReadForUpdate(q, patch, delete) ==
    /\ memory # None
    /\ request[q].phase = "idle"
    /\ delete => patch = <<"status", "DELETED">>
    /\ request' = [request EXCEPT ![q] = [NoRequest EXCEPT !.phase = "read",
                        !.patch = patch, !.delete = delete,
                        !.before = IF patch[1] = "status" THEN memory.status ELSE None]]
    /\ UNCHANGED <<memory, version, told, redis, run, job, worker, vectors>>

\* lifecycleProvenanceType
Lifecycle(before, next) ==
    CASE next = before -> None
      [] next = "ARCHIVED" -> "ARCHIVED"
      [] next = "DELETED" -> "DELETED"
      [] next = "ACTIVE" -> "RESTORED"
      [] OTHER -> None

\* Mutant: nothing is written down when the status was read as it is to be.
Told_Changes(before, patch) ==
    IF patch[1] = "status" /\ Lifecycle(before, patch[2]) # None
    THEN [type |-> Lifecycle(before, patch[2]), status |-> patch[2]]
    ELSE told

\* createProvenanceForUpdate, with what was read before: a lifecycle entry if
\* the status seems to change, a plain one if it is in the request anyway.
\* Entries about content or source tell no status.
Told(before, patch) ==
    IF patch[1] = "status"
    THEN [type |-> IF Lifecycle(before, patch[2]) = None THEN "STATUS_CHANGED"
                   ELSE Lifecycle(before, patch[2]),
          status |-> patch[2]]
    ELSE told

\* toUpdateData: only the fields of the request are written.
Patched(m, patch) ==
    CASE patch[1] = "text" -> [m EXCEPT !.text = patch[2]]
      [] patch[1] = "status" -> [m EXCEPT !.status = patch[2]]
      [] OTHER -> [m EXCEPT !.level = patch[2]]

\* The transaction; a deletion asks for no embedding.
CommitUpdate(q) ==
    /\ request[q].phase = "read"
    /\ version < MaxVersion
    /\ memory' = Patched(memory, request[q].patch)
    /\ version' = version + 1
    /\ told' = Told(request[q].before, request[q].patch)
    /\ request' = [x \in Requests |->
          IF x # q THEN [request[x] EXCEPT !.latest = FALSE]
          ELSE IF request[q].delete THEN NoRequest
          ELSE [NoRequest EXCEPT !.phase = "enqueue", !.latest = TRUE]]
    /\ run' = [r \in Runs |-> IF run[r] = None THEN None
                              ELSE [run[r] EXCEPT !.latest = FALSE]]
    /\ UNCHANGED <<redis, job, worker, vectors>>

\* The request is refused or rolled back.
UpdateFails(q) ==
    /\ request[q].phase = "read"
    /\ request' = [request EXCEPT ![q] = NoRequest]
    /\ UNCHANGED <<memory, version, told, redis, run, job, worker, vectors>>

-----------------------------------------------------------------------------
(* embedding-jobs.service: the producer *)

\* enqueueMemoryEmbedding: a run is recorded and put in the queue, or cancelled
\* where there is none.
Enqueue(q, r) ==
    /\ request[q].phase = "enqueue"
    /\ run[r] = None
    /\ run' = [run EXCEPT ![r] = [status |-> IF redis THEN "QUEUED" ELSE "CANCELLED",
                                  latest |-> request[q].latest]]
    /\ job' = IF redis THEN [job EXCEPT ![r] = [at |-> "waiting", given |-> 0]] ELSE job
    /\ request' = [request EXCEPT ![q] = NoRequest]
    /\ UNCHANGED <<memory, version, told, redis, worker, vectors>>

\* enqueueEmbeddingGeneration swallows the failure of a statement, or of the
\* queue once the run was recorded.
EnqueueLost(q) ==
    /\ request[q].phase = "enqueue"
    /\ request' = [request EXCEPT ![q] = NoRequest]
    /\ UNCHANGED <<memory, version, told, redis, run, job, worker, vectors>>

QueueFails(q, r) ==
    /\ request[q].phase = "enqueue"
    /\ run[r] = None
    /\ run' = [run EXCEPT ![r] = [status |-> "QUEUED", latest |-> request[q].latest]]
    /\ request' = [request EXCEPT ![q] = NoRequest]
    /\ UNCHANGED <<memory, version, told, redis, job, worker, vectors>>

\* retryJob: a run that failed or was cancelled, by a new run.
RetryJob(q, r) ==
    /\ request[q].phase = "idle"
    /\ run[r] # None
    /\ run[r].status \in {"FAILED", "CANCELLED"}
    /\ request' = [request EXCEPT ![q] = [NoRequest EXCEPT !.phase = "enqueue",
                                                           !.latest = TRUE]]
    /\ UNCHANGED <<memory, version, told, redis, run, job, worker, vectors>>

-----------------------------------------------------------------------------
(* embedding-jobs.service: the worker, and embeddings.service *)

\* Mutant: a job is given out again for ever.
GivenBack_Always(j) == [j EXCEPT !.at = "waiting"]

\* What becomes of a job that failed or whose worker died.
GivenBack(j) == IF j.given < MaxDeliveries THEN [j EXCEPT !.at = "waiting"] ELSE None

TakeJob(r) ==
    /\ worker.phase = "idle"
    /\ job[r] # None
    /\ job[r].at = "waiting"
    /\ job' = [job EXCEPT ![r] = [at |-> "active", given |-> @.given + 1]]
    /\ run' = [run EXCEPT ![r].status = "RUNNING"]
    /\ worker' = [IdleWorker EXCEPT !.run = r, !.phase = "read"]
    /\ UNCHANGED <<memory, version, told, request, redis, vectors>>

\* isEmbeddable: shouldEmbedSensitivity with a ceiling below RESTRICTED.
IsEmbeddable(m) == m.status = "ACTIVE" /\ m.level # "RESTRICTED"

\* Mutant: any vector of the memory will do.
Existing_Any(content) == vectors.of # {}

\* "embedding_already_current": a vector of this very content.
Existing(content) == content \in vectors.of

\* generateForMemory reads the memory as it is now.
ReadMemory ==
    /\ worker.phase = "read"
    /\ worker' = [worker EXCEPT
          !.content = IF IsEmbeddable(memory) /\ ~ Existing(ContentOf(memory))
                      THEN ContentOf(memory) ELSE None,
          !.phase = IF ~ IsEmbeddable(memory) THEN "clear"
                    ELSE IF Existing(ContentOf(memory)) THEN "done" ELSE "generate"]
    /\ UNCHANGED <<memory, version, told, request, redis, run, job, vectors>>

\* deleteMany
ClearVectors ==
    /\ worker.phase = "clear"
    /\ vectors' = NoVectors
    /\ worker' = [worker EXCEPT !.phase = "done"]
    /\ UNCHANGED <<memory, version, told, request, redis, run, job>>

\* provider.generate
Generate ==
    /\ worker.phase = "generate"
    /\ worker' = [worker EXCEPT !.phase = "store"]
    /\ UNCHANGED <<memory, version, told, request, redis, run, job, vectors>>

\* The provider fails or answers with a vector that does not fit: the catch
\* block, and the queue's own decision on another attempt.
GenerateFails ==
    /\ worker.phase = "generate"
    /\ run' = [run EXCEPT ![worker.run].status = "FAILED"]
    /\ job' = [job EXCEPT ![worker.run] = GivenBack(@)]
    /\ worker' = IdleWorker
    /\ UNCHANGED <<memory, version, told, request, redis, vectors>>

\* upsertEmbedding: the row of this content becomes the latest.
StoreVector ==
    /\ worker.phase = "store"
    /\ vectors' = [of |-> vectors.of \cup {worker.content}, latest |-> worker.content]
    /\ worker' = [worker EXCEPT !.phase = "done", !.content = None]
    /\ UNCHANGED <<memory, version, told, request, redis, run, job>>

Succeed ==
    /\ worker.phase = "done"
    /\ run' = [run EXCEPT ![worker.run].status = "SUCCEEDED"]
    /\ worker' = [worker EXCEPT !.phase = "ack"]
    /\ UNCHANGED <<memory, version, told, request, redis, job, vectors>>

Acknowledge ==
    /\ worker.phase = "ack"
    /\ job' = [job EXCEPT ![worker.run] = None]
    /\ worker' = IdleWorker
    /\ UNCHANGED <<memory, version, told, request, redis, run, vectors>>

\* The process dies: the queue finds the job stalled and gives it out again, but
\* not for ever.
WorkerDies ==
    /\ worker.phase # "idle"
    /\ job' = [job EXCEPT ![worker.run] = GivenBack(@)]
    /\ worker' = IdleWorker
    /\ UNCHANGED <<memory, version, told, request, redis, run, vectors>>

-----------------------------------------------------------------------------
(* memory-search.repository *)

KeywordMatch(m, word) == m.text = word

\* Mutant: the latest vector, whatever became of the memory.
Joined_Any(m) == vectors.of # {}

\* The lateral join: the latest vector of a memory that may be embedded still.
Joined(m) == vectors.of # {} /\ IsEmbeddable(m)

SemanticMatch(m, word) == Joined(m) /\ vectors.latest.text = word

\* listMemories: prepareSemanticSearch embeds the query, or it fails, or the
\* statement does, and the search goes by words; buildListWhere and
\* buildSemanticSearchSql, without filters, select the ids of a page with one
\* statement, so that what a search finds is a function of the state.
FoundByWords(word) == memory # None /\ memory.status # "DELETED" /\ KeywordMatch(memory, word)
FoundByMeaning(word) ==
    /\ memory # None /\ memory.status # "DELETED"
    /\ ~ KeywordMatch(memory, word)
    /\ SemanticMatch(memory, word)

-----------------------------------------------------------------------------

Work ==
    \/ ReadMemory \/ ClearVectors \/ Generate \/ GenerateFails
    \/ StoreVector \/ Succeed \/ Acknowledge
    \/ \E r \in Runs : TakeJob(r)

\* Slots are interchangeable: the first one that is free.
First(slots) == IF slots = {} THEN {} ELSE {CHOOSE s \in slots : TRUE}
FreeRequest == First({q \in Requests : request[q].phase = "idle"})
FreeRun == First({r \in Runs : run[r] = None})

IndexNext ==
    \/ \E q \in FreeRequest :
        \/ \E t \in FirstTexts, status \in Statuses : CreateMemory(q, t, status)
        \/ \E patch \in Patches, delete \in BOOLEAN : ReadForUpdate(q, patch, delete)
        \/ \E r \in Runs : RetryJob(q, r)
    \/ \E q \in Requests :
        \/ CommitUpdate(q) \/ UpdateFails(q) \/ EnqueueLost(q)
        \/ \E r \in FreeRun : Enqueue(q, r) \/ QueueFails(q, r)
    \/ Work
    \/ WorkerDies

IndexSpec == IndexInit /\ [][IndexNext]_indexVars

-----------------------------------------------------------------------------
(* Properties *)

\* However updates interleave, and although each describes the change from what
\* it read before its transaction, the last status the provenance tells is the
\* status the memory has.
HistoryTellsStatus == memory # None => told.status = memory.status

\* Once the job asked for by the latest change has succeeded, the memory has a
\* vector of what it says now, whatever older, repeated or retried jobs did.
CurrentIsEmbedded ==
    \A r \in Runs :
        run[r] # None /\ run[r].status = "SUCCEEDED" /\ run[r].latest
            /\ IsEmbeddable(memory) =>
                ContentOf(memory) \in vectors.of

\* Vectors outlive the state of the memory they were made from (a deletion asks
\* for no job), but a memory is never found by meaning once it was archived,
\* deleted or raised above the ceiling.
DormantNotFoundByMeaning ==
    \A word \in Texts : FoundByMeaning(word) =>
        memory.status = "ACTIVE" /\ memory.level # "RESTRICTED"
=============================================================================

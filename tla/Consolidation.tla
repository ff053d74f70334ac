--------------------------- MODULE Consolidation ---------------------------
(***************************************************************************)
(* Consolidation of saved memories (apps/api/src/consolidation, jobs): a   *)
(* worker takes a job from the queue, reads the memories that changed      *)
(* since they were last inspected, asks the owner's provider about pairs   *)
(* of them, and archives the expired, duplicate and superseded ones, or    *)
(* proposes to.  The owner edits memories, reviews proposals and changes   *)
(* the settings at any time; jobs overlap, fail, restart and are retried.  *)
(*                                                                         *)
(* Nothing is locked between the statements of a run.  What protects the   *)
(* vault is the transaction that writes one action: it locks the owner and *)
(* both memories and compares them with what the run read.                 *)
(*                                                                         *)
(* Memory ids are numbers because ids order the sources of a run.  A       *)
(* timestamp is a value of the clock now, which every save advances; 0     *)
(* stands for null.  Similarity, sensitivity and secrets decide only which *)
(* pairs reach the provider: any set of them may.                          *)
(***************************************************************************)
EXTENDS Naturals, Sequences, SequencesExt, FiniteSets

CONSTANTS
    Memories,      \* memory ids
    Contents,      \* normalised title and body
    Jobs,          \* ids of JobRun rows
    Proposals,     \* ids of archive suggestions
    Systems,       \* providers the owner can select
    ApplyMode,     \* MEMORY_CONSOLIDATION_APPLY_MODE of the deployment
    Triggers,      \* who starts runs: "scheduled", "manual"
    Window,        \* recentConsolidationWindowHours
    MaxAttempts,   \* attempts of a queued job
    MaxTime,       \* the time after which the owner rests
    InitialExpiry, InitialApproved, InitialModes,  \* what the owner starts from
    None

VARIABLES
    now,
    memory,      \* Memory rows
    mode,        \* User.consolidationMode
    provider,    \* the owner's selection for consolidation
    job,         \* JobRun rows
    run,         \* runs of the worker, by job
    proposal,    \* MemorySuggestion rows of source CONSOLIDATION
    applied,     \* the last CONSOLIDATION_APPLIED entry of the vault's provenance
    judged       \* the <<memory, consolidationRelevantAt>> the provider has judged

vars == <<now, memory, mode, provider, job, run, proposal,
          applied, judged>>

ASSUME ConstantAssumption ==
    /\ Memories \subseteq Nat /\ 0 \notin Memories /\ IsFiniteSet(Memories)
    /\ None \notin Memories \cup Jobs \cup Systems \cup Contents
    /\ ApplyMode \in {"user_setting", "review"}
    /\ MaxAttempts \in Nat \ {0} /\ MaxTime \in Nat \ {0} /\ Window \in Nat
    /\ InitialExpiry \subseteq 0..MaxTime /\ InitialApproved \subseteq BOOLEAN
    /\ InitialModes \subseteq {"REVIEW_ONLY", "AUTO_APPLY"}

\* The owner rests after MaxTime; each archival then needs a memory still active.
Times == 0..(MaxTime + Cardinality(Memories))
Modes == {"REVIEW_ONLY", "AUTO_APPLY"}
MemoryStatuses == {"ACTIVE", "ARCHIVED", "EXPIRED", "DELETED"}
Rows == [status: MemoryStatuses, content: Contents, approved: BOOLEAN,
         expires: Times, version: Times, relevant: Times,
         consolidated: Times, inspected: Times]

\* An ArchiveCandidate with the versions its transaction compares.
\* "superseded" stands for every reason a provider gives.
Reasons == {"expired", "exact_duplicate", "superseded"}
Actions ==
    [memory: Memories, version: Times, content: Contents,
     canonical: Memories \cup {None}, canonicalVersion: Times,
     canonicalContent: Contents \cup {None}, reason: Reasons]
Semantic(a) == a.reason = "superseded"

NoSources == None
JobMetadata(sources, configuration) ==
    [sources |-> sources, configuration |-> configuration]
NoJob == [status |-> "NONE", attempts |-> 0,
          metadata |-> JobMetadata(NoSources, None), unrecorded |-> None]
NoProposal == [status |-> "NONE", action |-> None]

Working == {"begun", "found", "loaded", "asked", "judged", "writing",
            "inspecting", "finishing"}
NoRun == [phase |-> "none", start |-> 0, mode |-> "REVIEW_ONLY",
          previous |-> NoJob.metadata, ids |-> {}, expiredIds |-> {},
          recent |-> <<>>, expired |-> <<>>, actions |-> <<>>, plan |-> <<>>,
          revision |-> <<>>, touched |-> {}, queued |-> {}, completed |-> {}, status |-> "completed"]

TypeOK ==
    /\ now \in Times
    /\ memory \in [Memories -> Rows]
    /\ mode \in Modes
    /\ provider \in Systems
    /\ \A j \in Jobs :
        /\ job[j].status \in {"NONE", "QUEUED", "RUNNING", "SUCCEEDED", "FAILED"}
        /\ job[j].attempts \in 0..MaxAttempts
        /\ run[j].phase \in {"none", "waiting", "ended"} \cup Working
        /\ run[j].plan \in Seq(Actions) /\ run[j].actions \in Seq(Actions)
        /\ run[j].start <= now
    /\ \A p \in Proposals :
        /\ proposal[p].status \in {"NONE", "QUEUED_FOR_REVIEW", "APPLIED", "REJECTED"}
        /\ proposal[p].status # "NONE" => proposal[p].action \in Actions
    /\ applied = None \/ applied.action \in Actions

\* A vault that was just imported: nothing has been consolidated.
Init ==
    /\ now = 1
    /\ memory \in [Memories -> [status: {"ACTIVE"}, content: Contents,
                                approved: InitialApproved, expires: InitialExpiry,
                                version: {1}, relevant: {1},
                                consolidated: {0}, inspected: {0}]]
    /\ mode \in InitialModes
    /\ provider \in Systems
    /\ job = [j \in Jobs |-> NoJob]
    /\ run = [j \in Jobs |-> NoRun]
    /\ proposal = [p \in Proposals |-> NoProposal]
    /\ applied = None
    /\ judged = {}

-----------------------------------------------------------------------------
(* Memories *)

Expired(row) == row.expires # 0 /\ row.expires <= now

\* A memory as a run holds it.
Snapshot(m) == [memory[m] EXCEPT !.inspected = 0, !.consolidated = 0]

Save(m, row) ==
    /\ now' = now + 1
    /\ memory' = [memory EXCEPT ![m] = [row EXCEPT !.version = now + 1]]

\* What an update of the given row may ask for; a change of status alone, other
\* than to ACTIVE, is not relevant to consolidation.
Relevant(row) == [row EXCEPT !.relevant = now + 1]
Updates(row) ==
    {Relevant([row EXCEPT !.content = x]) : x \in Contents \ {row.content}}
    \cup {Relevant([row EXCEPT !.expires = t]) : t \in (0..MaxTime) \ {row.expires}}
    \cup {Relevant([row EXCEPT !.approved = ~ row.approved]),
          Relevant([row EXCEPT !.status = "ACTIVE"]),
          [row EXCEPT !.status = "ARCHIVED"]}

UpdateMemory(m) ==
    /\ now < MaxTime
    /\ \E row \in Updates(memory[m]) : Save(m, row)
    /\ UNCHANGED <<mode, provider, job, run, proposal, applied, judged>>

\* Mutant: the row is removed.
DeleteMemory_Removes(m) ==
    /\ now < MaxTime
    /\ now' = now + 1
    /\ memory' = [memory EXCEPT ![m] = None]
    /\ UNCHANGED <<mode, provider, job, run, proposal, applied, judged>>

DeleteMemory(m) ==
    /\ now < MaxTime
    /\ Save(m, [memory[m] EXCEPT !.status = "DELETED"])
    /\ UNCHANGED <<mode, provider, job, run, proposal, applied, judged>>

Tick ==
    /\ now < MaxTime
    /\ now' = now + 1
    /\ UNCHANGED <<memory, mode, provider, job, run, proposal,
                   applied, judged>>

-----------------------------------------------------------------------------
(* Settings and jobs *)

\* Counted among the owner's moves that MaxTime bounds.
UpdateSettings(new) ==
    /\ mode # new
    /\ mode' = new
    /\ now < MaxTime /\ now' = now + 1
    /\ UNCHANGED <<memory, provider, job, run, proposal,
                   applied, judged>>

SetProvider(s) ==
    /\ provider # s
    /\ provider' = s
    /\ UNCHANGED <<now, memory, mode, job, run, proposal,
                   applied, judged>>

CreateJob(j, metadata, unrecorded) ==
    /\ job[j].status = "NONE"
    /\ job' = [job EXCEPT ![j] = [job[j] EXCEPT !.status = "QUEUED",
                                               !.metadata = metadata,
                                               !.unrecorded = unrecorded]]
    /\ run' = [run EXCEPT ![j].phase = "waiting"]
    /\ UNCHANGED <<now, memory, mode, provider, proposal, applied, judged>>

\* The scheduler's job creates its row when the worker takes it.
Scheduled(j) ==
    /\ "scheduled" \in Triggers
    /\ CreateJob(j, JobMetadata(NoSources, provider), None)

\* The owner starts a run, under the configuration of the moment.
Enqueue(j) ==
    /\ "manual" \in Triggers
    /\ LET metadata == JobMetadata(NoSources, provider) IN CreateJob(j, metadata, metadata)

\* A retry is a new job with the metadata of one that failed.
RetryJob(j, i) ==
    /\ job[i].status = "FAILED"
    /\ CreateJob(j, job[i].metadata, job[i].metadata)

\* The request that queued a job then writes the metadata it knows, which the
\* worker may have replaced meanwhile.
RecordQueued(j) ==
    /\ job[j].unrecorded # None
    /\ job' = [job EXCEPT ![j] = [job[j] EXCEPT !.metadata = job[j].unrecorded,
                                               !.unrecorded = None]]
    /\ UNCHANGED <<now, memory, mode, provider, run, proposal, applied, judged>>

-----------------------------------------------------------------------------
(* A run reads its sources *)

Advance(j, from, new) ==
    /\ run[j].phase = from
    /\ run' = [run EXCEPT ![j] = new]

Begin(j) ==
    /\ job[j].attempts < MaxAttempts
    /\ job' = [job EXCEPT ![j] = [job[j] EXCEPT !.status = "RUNNING",
                                               !.attempts = job[j].attempts + 1]]
    /\ Advance(j, "waiting",
               [NoRun EXCEPT !.phase = "begun", !.start = now, !.mode = mode,
                             !.previous = job[j].metadata])
    /\ UNCHANGED <<now, memory, mode, provider, proposal, applied, judged>>

Uninspected(row) == row.inspected = 0 \/ row.inspected < row.relevant
RecentIds(start) ==
    {m \in Memories : LET row == memory[m] IN
        /\ row.status = "ACTIVE"
        /\ \/ /\ row.relevant + Window >= start
              /\ row.consolidated = 0 \/ row.consolidated < row.relevant
           \/ Uninspected(row)}
ExpiredIds(start) ==
    {m \in Memories : LET row == memory[m] IN
        /\ row.status = "ACTIVE"
        /\ row.expires # 0 /\ row.expires <= start
        /\ row.consolidated = 0 \/ row.consolidated < row.expires}

FindSources(j) ==
    /\ Advance(j, "begun",
               [run[j] EXCEPT !.phase = "found", !.ids = RecentIds(run[j].start),
                              !.expiredIds = ExpiredIds(run[j].start)])
    /\ UNCHANGED <<now, memory, mode, provider, job, proposal,
                   applied, judged>>

\* A retried job reads the sources of its first attempt that have not changed.
SourceIds(j) ==
    LET sources == run[j].previous.sources IN
    IF sources = NoSources THEN run[j].ids
    ELSE {m \in Memories : memory[m].status = "ACTIVE" /\ <<m, memory[m].version>> \in sources}

SourceVersions(j) ==
    IF run[j].previous.sources # NoSources THEN run[j].previous.sources
    ELSE {<<m, memory[m].version>> : m \in run[j].ids}
Metadata(j) == [run[j].previous EXCEPT !.sources = SourceVersions(j)]

\* The rows found are read; some may have changed since.
LoadSources(j) ==
    /\ Advance(j, "found",
               [run[j] EXCEPT !.phase = "loaded", !.ids = {}, !.expiredIds = {},
                              !.recent = [m \in SourceIds(j) |-> Snapshot(m)],
                              !.expired = [m \in run[j].expiredIds |-> Snapshot(m)],
                              !.previous = Metadata(j),
                              !.status = IF Cardinality(SourceVersions(j)) = Cardinality(SourceIds(j))
                                         THEN "completed" ELSE "partial"])
    /\ job' = [job EXCEPT ![j].metadata = Metadata(j)]
    /\ UNCHANGED <<now, memory, mode, provider, proposal, applied, judged>>

-----------------------------------------------------------------------------
(* The provider judges pairs of them *)

Action(target, targetRow, survivor, survivorRow, reason) ==
    [memory |-> target, version |-> targetRow.version, content |-> targetRow.content,
     canonical |-> survivor, canonicalVersion |-> survivorRow.version,
     canonicalContent |-> survivorRow.content, reason |-> reason]

Permitted(row) == row.status = "ACTIVE" /\ row.approved /\ ~ Expired(row)

PermittedSources(j) == {m \in DOMAIN run[j].recent : Permitted(run[j].recent[m])}

\* A pair has a source as the run read it and another memory as it is now;
\* the provider archives either.
Judgments(j) ==
    UNION {UNION {{Action(m, run[j].recent[m], c, memory[c], "superseded"),
                   Action(c, memory[c], m, run[j].recent[m], "superseded")} :
                c \in {c \in Memories \ {m} : Permitted(memory[c])}} :
        m \in PermittedSources(j)}

\* Decisions that would archive a memory twice, or a survivor, are dropped.
Consistent(decisions) ==
    \A a, b \in decisions :
        /\ a # b => a.memory # b.memory
        /\ a.memory # b.canonical

StillSelected(j) == provider = run[j].previous.configuration

Skipped(j) ==
    [run[j] EXCEPT !.phase = "judged", !.status = "partial", !.actions = <<>>,
                   !.completed = {}]

\* The answer is chosen when the pairs are read; the run learns it later.
Ask(j) ==
    /\ run[j].phase = "loaded"
    /\ IF StillSelected(j)
       THEN \E decisions \in SUBSET Judgments(j) :
                /\ Consistent(decisions)
                /\ Advance(j, "loaded",
                       [run[j] EXCEPT !.phase = "asked", !.actions = SetToSeq(decisions),
                           !.completed = PermittedSources(j)])
       ELSE Advance(j, "loaded", Skipped(j))
    /\ UNCHANGED <<now, memory, mode, provider, job, proposal,
                   applied, judged>>

\* Mutant: every source of a run is taken for complete.
Answer_AllComplete(j) ==
    /\ run[j].phase = "asked"
    /\ \E done \in SUBSET run[j].completed :
        /\ judged' = judged \cup {<<m, run[j].recent[m].relevant>> : m \in done}
        /\ Advance(j, "asked", [run[j] EXCEPT !.phase = "judged"])
    /\ UNCHANGED <<now, memory, mode, provider, job, proposal, applied>>

\* Only sources whose every pair was judged are complete.  Batches may fail or
\* be left out, which makes the run partial; a pair left out because its other
\* memory is excluded does not.
Answer(j) ==
    /\ run[j].phase = "asked"
    /\ IF StillSelected(j)
       THEN \E done \in SUBSET run[j].completed, status \in {run[j].status, "partial"} :
                /\ judged' = judged \cup {<<m, run[j].recent[m].relevant>> : m \in done}
                /\ Advance(j, "asked", [run[j] EXCEPT !.phase = "judged", !.completed = done,
                                                     !.status = status])
       ELSE Advance(j, "asked", Skipped(j)) /\ UNCHANGED judged
    /\ UNCHANGED <<now, memory, mode, provider, job, proposal, applied>>

-----------------------------------------------------------------------------
(* Its actions are collected and made consistent *)

Targets(actions) == {a.memory : a \in Range(actions)}

ExpiredActions(j) ==
    LET none == [version |-> 0, content |-> None]
        expired == run[j].expired
        due == {m \in DOMAIN expired : expired[m].expires # 0
                                        /\ expired[m].expires <= run[j].start} IN
    SetToSeq({Action(m, expired[m], None, none, "expired") : m \in due})

\* The elements of S, each after those that relation R puts before it.
Ordered(S, R) ==
    [i \in 1..Cardinality(S) |->
        CHOOSE x \in S : Cardinality({y \in S : <<y, x>> \in R}) = i - 1]

\* Newest first; source m before others of its age, and those by id.
Newer(row, m) ==
    {e \in Memories \X Memories : LET c == e[1]
                                      d == e[2] IN
        \/ row[c].version > row[d].version
        \/ row[c].version = row[d].version /\ d # m /\ (c = m \/ c < d)}

\* The memories with the text of source m; the newest survives.  Those already
\* found are skipped.
DuplicatesOf(j, m, found) ==
    LET row == [memory EXCEPT ![m] = run[j].recent[m]]
        group == {m} \cup {d \in Memories : memory[d].status = "ACTIVE"
                                            /\ memory[d].content = row[m].content}
        survivor == Ordered(group, Newer(row, m))[1]
        duplicates == Ordered(group \ ({survivor} \cup found), Newer(row, m))
    IN  [i \in 1..Len(duplicates) |->
            Action(duplicates[i], row[duplicates[i]], survivor, row[survivor],
                   "exact_duplicate")]

\* The sources of a run, the last one changed first.
MoreRecent(recent) ==
    {e \in (DOMAIN recent) \X (DOMAIN recent) : LET m == e[1]
                                                    n == e[2] IN
        \/ recent[m].relevant > recent[n].relevant
        \/ recent[m].relevant = recent[n].relevant /\ m < n}

\* What is found when the first n of the sources have been compared.
Found(j, sources) ==
    LET found[n \in 0..Len(sources)] ==
            IF n = 0 THEN <<>>
            ELSE found[n - 1] \o DuplicatesOf(j, sources[n], Targets(found[n - 1]))
    IN  found

DuplicateActions(j) ==
    LET sources == Ordered(DOMAIN run[j].recent, MoreRecent(run[j].recent))
    IN  Found(j, sources)[Len(sources)]

\* Mutant: an action on the survivor of an earlier one is kept.
Dropped_ArchivesSurvivor(a, seen, candidates) ==
    \/ a.memory \in seen
    \/ \E b \in Range(candidates) : b.memory = a.canonical /\ b.reason = "expired"

\* The first action on a memory wins, and no survivor of an action is archived.
Dropped(a, seen, candidates) ==
    \/ a.memory \in seen
    \/ a.canonical \in seen
    \/ \E b \in Range(candidates) : b.memory = a.canonical /\ b.reason = "expired"
    \/ \E b \in Range(candidates) : b.memory \in seen /\ b.canonical = a.memory

\* What is kept of the first n candidates.
Kept(candidates) ==
    LET kept[n \in 0..Len(candidates)] ==
            IF n = 0 THEN <<>>
            ELSE IF Dropped(candidates[n], Targets(kept[n - 1]), candidates) THEN kept[n - 1]
            ELSE Append(kept[n - 1], candidates[n])
    IN  kept

DedupeCandidates(candidates) == Kept(candidates)[Len(candidates)]

QueuedTargets ==
    {proposal[p].action.memory : p \in {p \in Proposals :
        proposal[p].status = "QUEUED_FOR_REVIEW"}}

Plan(j) ==
    /\ run[j].phase = "judged"
    /\ LET actions == DedupeCandidates(ExpiredActions(j) \o DuplicateActions(j)
                                        \o run[j].actions)
           reviewed == run[j].mode = "REVIEW_ONLY" \/ ApplyMode = "review" IN
        Advance(j, "judged",
               [run[j] EXCEPT !.phase = "writing", !.plan = actions, !.actions = actions,
                              !.recent = <<>>, !.expired = <<>>,
                              !.revision = [m \in run[j].completed |-> run[j].recent[m].relevant],
                              !.completed = {},
                              !.touched = DOMAIN run[j].recent \cup DOMAIN run[j].expired
                                            \cup Targets(actions),
                              !.queued = IF reviewed THEN QueuedTargets ELSE {}])
    /\ UNCHANGED <<now, memory, mode, provider, job, proposal,
                   applied, judged>>

-----------------------------------------------------------------------------
(* and written, one transaction each *)

\* Mutant: only the status of the memories is checked again.
CandidateStillValid_NoVersion(j, a) ==
    /\ memory[a.memory].status = "ACTIVE"
    /\ a.canonical # None => Permitted(memory[a.canonical])
    /\ Semantic(a) => StillSelected(j)

\* Mutant: the provider is not checked again.
CandidateStillValid_AnyProvider(j, a) ==
    /\ memory[a.memory].status = "ACTIVE" /\ memory[a.memory].version = a.version
    /\ a.canonical # None =>
        /\ memory[a.canonical].version = a.canonicalVersion
        /\ Permitted(memory[a.canonical])

\* The owner and both memories are locked.
CandidateStillValid(j, a) ==
    /\ memory[a.memory].status = "ACTIVE" /\ memory[a.memory].version = a.version
    /\ a.canonical # None =>
        /\ memory[a.canonical].version = a.canonicalVersion
        /\ Permitted(memory[a.canonical])
    /\ Semantic(a) => StillSelected(j)

Archived(a) == IF a.reason = "expired" THEN "EXPIRED" ELSE "ARCHIVED"

ApplyAction(a, actor) ==
    /\ Save(a.memory, [memory[a.memory] EXCEPT !.status = Archived(a)])
    /\ applied' = [action |-> a, actor |-> actor, at |-> now + 1]

\* The loop comes to its next action.
Rest(j) == [run[j] EXCEPT !.actions = Tail(run[j].actions)]
Automatic(j, a) ==
    run[j].mode = "AUTO_APPLY" /\ ~ (Semantic(a) /\ ApplyMode = "review")

ArchiveCandidate(j) ==
    /\ run[j].actions # <<>>
    /\ Advance(j, "writing", Rest(j))
    /\ LET a == Head(run[j].actions) IN
        /\ Automatic(j, a)
        /\ CandidateStillValid(j, a)
        /\ ApplyAction(a, j)
    /\ UNCHANGED <<mode, provider, job, proposal, judged>>

CreateArchiveSuggestion(j) ==
    /\ run[j].actions # <<>>
    /\ LET a == Head(run[j].actions) IN
        /\ ~ Automatic(j, a)
        /\ a.memory \notin run[j].queued
        /\ CandidateStillValid(j, a)
        /\ Advance(j, "writing", [Rest(j) EXCEPT !.queued = run[j].queued \cup {a.memory}])
        /\ \E p \in Proposals :
            /\ proposal[p].status = "NONE"
            /\ proposal' = [proposal EXCEPT ![p] = [status |-> "QUEUED_FOR_REVIEW",
                                                    action |-> a]]
    /\ UNCHANGED <<now, memory, mode, provider, job, applied, judged>>

SkipAction(j) ==
    /\ run[j].actions # <<>>
    /\ LET a == Head(run[j].actions) IN
        \/ ~ CandidateStillValid(j, a)
        \/ ~ Automatic(j, a) /\ a.memory \in run[j].queued
    /\ Advance(j, "writing", Rest(j))
    /\ UNCHANGED <<now, memory, mode, provider, job, proposal,
                   applied, judged>>

-----------------------------------------------------------------------------
(* A run records what it inspected, and ends *)

\* Bookkeeping leaves the version of a memory alone.
MarkConsolidated(j) ==
    /\ run[j].actions = <<>>
    /\ Advance(j, "writing", [run[j] EXCEPT !.phase = "inspecting", !.plan = <<>>,
                                           !.touched = {}, !.queued = {}])
    /\ memory' = [m \in Memories |->
                    IF m \in run[j].touched
                    THEN [memory[m] EXCEPT !.consolidated = run[j].start] ELSE memory[m]]
    /\ UNCHANGED <<now, mode, provider, job, proposal, applied, judged>>

\* Mutant: the update names the memories only, and stamps the time it runs.
MarkInspected_AnyRevision(j) ==
    /\ Advance(j, "inspecting", [run[j] EXCEPT !.phase = "finishing"])
    /\ memory' = [m \in Memories |-> IF m \in DOMAIN run[j].revision
                    THEN [memory[m] EXCEPT !.inspected = now] ELSE memory[m]]
    /\ UNCHANGED <<now, mode, provider, job, proposal, applied, judged>>

MarkInspected(j) ==
    /\ Advance(j, "inspecting",
               [run[j] EXCEPT !.phase = "finishing",
                              !.status = IF StillSelected(j) THEN run[j].status ELSE "partial"])
    /\ memory' = [m \in Memories |->
                    IF /\ StillSelected(j)
                       /\ m \in DOMAIN run[j].revision
                       /\ memory[m].relevant = run[j].revision[m]
                    THEN [memory[m] EXCEPT !.inspected = run[j].start] ELSE memory[m]]
    /\ UNCHANGED <<now, mode, provider, job, proposal, applied, judged>>

Finish(j) ==
    /\ Advance(j, "finishing", [NoRun EXCEPT !.phase = "ended"])
    /\ job' = [job EXCEPT ![j].status = IF run[j].status = "completed" THEN "SUCCEEDED"
                                        ELSE "FAILED",
                          ![j].metadata = run[j].previous]
    /\ UNCHANGED <<now, memory, mode, provider, proposal, applied, judged>>

\* Any statement may throw; the queue tries the job again.
Fail(j) ==
    /\ run[j].phase \in Working
    /\ job' = [job EXCEPT ![j].status = "FAILED"]
    /\ run' = [run EXCEPT ![j] = [NoRun EXCEPT !.phase =
                    IF job[j].attempts < MaxAttempts THEN "waiting" ELSE "ended"]]
    /\ UNCHANGED <<now, memory, mode, provider, proposal, applied, judged>>

\* The worker's process ends; the queue hands the stalled job out again.
Crash(j) ==
    /\ run[j].phase \in Working
    /\ job[j].attempts < MaxAttempts
    /\ run' = [run EXCEPT ![j] = [NoRun EXCEPT !.phase = "waiting"]]
    /\ UNCHANGED <<now, memory, mode, provider, job, proposal,
                   applied, judged>>

-----------------------------------------------------------------------------
(* The owner reviews proposals *)

\* The suggestion is claimed first; a stale proposal rolls the claim back.
ApplyArchiveSuggestion(p) ==
    /\ proposal[p].status = "QUEUED_FOR_REVIEW"
    /\ LET a == proposal[p].action IN
        /\ memory[a.memory].status = "ACTIVE" /\ memory[a.memory].version = a.version
        /\ a.canonical # None =>
            /\ Permitted(memory[a.canonical])
            /\ a.canonical # a.memory
            /\ memory[a.canonical].version = a.canonicalVersion
        /\ ApplyAction(a, "OWNER")
    /\ proposal' = [proposal EXCEPT ![p].status = "APPLIED"]
    /\ UNCHANGED <<mode, provider, job, run, judged>>

RejectSuggestion(p) ==
    /\ proposal[p].status = "QUEUED_FOR_REVIEW"
    /\ proposal' = [proposal EXCEPT ![p].status = "REJECTED"]
    /\ UNCHANGED <<now, memory, mode, provider, job, run, applied, judged>>

Work(j) ==
    \/ Begin(j) \/ FindSources(j) \/ LoadSources(j) \/ Ask(j) \/ Answer(j) \/ Plan(j)
    \/ ArchiveCandidate(j) \/ CreateArchiveSuggestion(j) \/ SkipAction(j)
    \/ MarkConsolidated(j) \/ MarkInspected(j) \/ Finish(j)

Next ==
    \/ Tick
    \/ \E m \in Memories : UpdateMemory(m) \/ DeleteMemory(m)
    \/ \E new \in Modes : UpdateSettings(new)
    \/ \E s \in Systems : SetProvider(s)
    \/ \E j \in Jobs :
        \/ Scheduled(j) \/ Enqueue(j) \/ \E i \in Jobs : RetryJob(j, i)
        \/ RecordQueued(j)
        \/ Work(j) \/ Fail(j) \/ Crash(j)
    \/ \E p \in Proposals : ApplyArchiveSuggestion(p) \/ RejectSuggestion(p)

Spec == Init /\ [][Next]_vars

-----------------------------------------------------------------------------
(* Properties *)

\* Whatever happened between the moment a run read the memories and the moment
\* it, or the owner on its proposal, archives one (edits, other runs, other
\* reviews, a new provider, days of waiting): the archived memory is the one
\* that was judged; an expired one is past its date; any other leaves an
\* active, approved, unexpired survivor with the text that was compared, which
\* for an exact duplicate is the same text; and a run archives on a provider's
\* word only while the owner still selects that provider
\* (candidateStillValid, applyArchiveSuggestion).
Justified(entry) ==
    LET a == entry.action
        m == a.memory
        s == a.canonical IN
    /\ memory[m].status = "ACTIVE" /\ memory[m].content = a.content
    /\ a.reason = "expired" => Expired(memory[m])
    /\ a.reason # "expired" =>
        /\ s # m /\ Permitted(memory[s]) /\ memory'[s] = memory[s]
        /\ memory[s].content = a.canonicalContent
    /\ a.reason = "exact_duplicate" => memory[s].content = memory[m].content
    /\ Semantic(a) /\ entry.actor # "OWNER" => StillSelected(entry.actor)
ArchivalIsJustified == [][applied' # applied => Justified(applied')]_vars

\* The actions of one run never compete: no memory is archived twice, and none
\* that another action keeps, even when sources of the same age each take the
\* other for the duplicate (findDuplicateCandidates, dedupeCandidates).
NoCompetingActions ==
    \A j \in DOMAIN run : \A i, k \in DOMAIN run[j].plan :
        LET a == run[j].plan[i]
            b == run[j].plan[k] IN
        /\ i # k => a.memory # b.memory
        /\ a.memory # b.canonical

\* A memory leaves the reach of later runs only in the revision the provider
\* judged: an edit during a run, an exclusion, a failed batch or an older run
\* that ends late never hides a revision (the semanticInspectedAt update of
\* runConsolidation against findRecentIds).
InspectedWasJudged ==
    \A m \in DOMAIN memory :
        memory[m].status = "ACTIVE" /\ ~ Uninspected(memory[m])
            => <<m, memory[m].relevant>> \in judged

\* What one run does is consistent, and what it records is true.
RunsAreSound == NoCompetingActions /\ InspectedWasJudged

=============================================================================

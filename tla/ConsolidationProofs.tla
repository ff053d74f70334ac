------------------------ MODULE ConsolidationProofs ------------------------
(***************************************************************************)
(* Proofs about consolidation, for any number of memories, jobs, proposals *)
(* and providers: a memory is archived for a reason that is still true,    *)
(* the actions of a run never compete, and a memory is hidden from later   *)
(* runs only in the revision the provider judged.                          *)
(***************************************************************************)
EXTENDS Consolidation, FiniteSetTheorems, WellFoundedInduction, TLAPS

-----------------------------------------------------------------------------
(* The inductive invariant *)

Metadatas == [sources: {NoSources} \cup SUBSET (Memories \X Times),
              configuration: Systems \cup {None}]
JobRows == [status: {"NONE", "QUEUED", "RUNNING", "SUCCEEDED", "FAILED"},
            attempts: 0..MaxAttempts, metadata: Metadatas,
            unrecorded: Metadatas \cup {None}]
Snapshots == UNION {[S -> Rows] : S \in SUBSET Memories}
Revisions == UNION {[S -> Times] : S \in SUBSET Memories}
Runs == [phase: {"none", "waiting", "ended"} \cup Working, start: Times, mode: Modes,
         previous: Metadatas, ids: SUBSET Memories, expiredIds: SUBSET Memories,
         recent: Snapshots, expired: Snapshots, actions: Seq(Actions),
         plan: Seq(Actions), revision: Revisions, touched: SUBSET Memories,
         queued: SUBSET Memories, completed: SUBSET Memories,
         status: {"completed", "partial"}]
ProposalRows == [status: {"NONE", "QUEUED_FOR_REVIEW", "APPLIED", "REJECTED"},
                 action: Actions \cup {None}]
Entries == [action: Actions, actor: Jobs \cup {"OWNER"}, at: Times]

Active == {m \in Memories : memory[m].status = "ACTIVE"}

\* Each archival takes one of the active memories, which bounds the clock.
Types ==
    /\ now \in Times /\ now + Cardinality(Active) <= MaxTime + Cardinality(Memories)
    /\ memory \in [Memories -> Rows]
    /\ mode \in Modes /\ provider \in Systems
    /\ job \in [Jobs -> JobRows]
    /\ run \in [Jobs -> Runs]
    /\ proposal \in [Proposals -> ProposalRows]
    /\ applied \in Entries \cup {None}

\* Nothing is of a later time than now, and what is inspected was judged,
\* archived or not.
RowsSound ==
    \A m \in Memories :
        /\ memory[m].version <= now /\ memory[m].relevant <= now
        /\ memory[m].inspected <= now
        /\ ~ Uninspected(memory[m]) => <<m, memory[m].relevant>> \in judged

\* The version was one of memory m's, with that content.
WasRead(m, version, content) ==
    /\ version <= memory[m].version
    /\ version = memory[m].version => content = memory[m].content

SnapshotOK(m, row) ==
    /\ WasRead(m, row.version, row.content)
    /\ row.version = memory[m].version => row.expires = memory[m].expires

\* What an action says of its memories was true of the versions it names.
ActionOK(a) ==
    /\ WasRead(a.memory, a.version, a.content)
    /\ a.canonical # a.memory
    /\ a.reason = "expired" /\ a.version = memory[a.memory].version
        => Expired(memory[a.memory])
    /\ a.reason # "expired" =>
        /\ a.canonical \in Memories
        /\ WasRead(a.canonical, a.canonicalVersion, a.canonicalContent)
    /\ a.reason = "exact_duplicate" => a.content = a.canonicalContent

NoneCompete(plan) ==
    \A i, k \in DOMAIN plan :
        /\ i # k => plan[i].memory # plan[k].memory
        /\ plan[i].memory # plan[k].canonical

SnapshotsOK(rows) == \A m \in DOMAIN rows : SnapshotOK(m, rows[m])
ActionsOK(actions) == \A i \in DOMAIN actions : ActionOK(actions[i])
WereJudged(revision) == \A m \in DOMAIN revision : <<m, revision[m]>> \in judged
CompletedOK(r) ==
    /\ r.phase \in {"asked", "judged"} => r.completed \subseteq DOMAIN r.recent
    /\ r.phase = "judged" =>
        \A m \in r.completed : <<m, r.recent[m].relevant>> \in judged

RunOK(r) ==
    /\ r.start <= now
    /\ SnapshotsOK(r.recent) /\ SnapshotsOK(r.expired)
    /\ ActionsOK(r.actions) /\ NoneCompete(r.plan)
    /\ WereJudged(r.revision) /\ CompletedOK(r)

RunsSound == \A j \in Jobs : RunOK(run[j])
ProposalsSound ==
    \A p \in Proposals : proposal[p].status # "NONE" =>
        proposal[p].action \in Actions /\ ActionOK(proposal[p].action)

IInv == Types /\ RowsSound /\ RunsSound /\ ProposalsSound

-----------------------------------------------------------------------------
(* Repetition.  A recursive function on 0..N is defined, and its values     *)
(* stay in a set, when its step stays there: both by induction over sets.   *)

LEMMA NatSet ==
    ASSUME NEW S, 0 \in S, \A n \in Nat : n \in S => n + 1 \in S
    PROVE  Nat \subseteq S
  <1> DEFINE T == Nat \ S
  <1>1. SUFFICES ASSUME T # {} PROVE FALSE
    OBVIOUS
  <1>2. IsWellFoundedOn(OpToRel(<, Nat), Nat)
    BY NatLessThanWellFounded
  <1>3. T \subseteq Nat
    OBVIOUS
  <1>4. PICK x \in T : \A y \in T : ~ (<<y, x>> \in OpToRel(<, Nat))
    <2> HIDE DEF T
    <2> QED
      BY <1>1, <1>2, <1>3, WFMin
  <1>5. \A y \in T : ~ (y < x)
    BY <1>4 DEF OpToRel
  <1>6. x # 0 /\ x \in Nat
    BY <1>4
  <1>7. x - 1 \in Nat /\ x - 1 \notin T
    BY <1>5, <1>6
  <1>8. x - 1 \in S /\ (x - 1) + 1 = x
    BY <1>7, <1>6
  <1>9. x \in S
    BY <1>7, <1>8
  <1> QED
    BY <1>4, <1>9

\* Whatever is true of f[0], and of f[n] when of f[n - 1], is true of f[N].
LEMMA RepeatKeeps ==
    ASSUME NEW N \in Nat, NEW X, NEW f, f[0] \in X,
           \A n \in 1..N : f[n - 1] \in X => f[n] \in X
    PROVE  f[N] \in X
  <1> DEFINE S == {n \in Nat : n <= N => f[n] \in X}
  <1>1. 0 \in S
    OBVIOUS
  <1>2. ASSUME NEW n \in Nat, n \in S
        PROVE  n + 1 \in S
    <2>1. SUFFICES ASSUME n + 1 <= N PROVE f[n + 1] \in X
      OBVIOUS
    <2>2. n <= N /\ n + 1 \in 1..N /\ (n + 1) - 1 = n
      BY <2>1
    <2>3. f[n] \in X
      BY <1>2, <2>2
    <2> QED
      BY <2>2, <2>3
  <1> HIDE DEF S
  <1>3. Nat \subseteq S
    BY <1>1, <1>2, NatSet
  <1> USE DEF S
  <1>4. N \in S
    BY <1>3
  <1> QED
    BY <1>4

\* Any step can be repeated N times.
Steps(N, X) == [1..N -> [X -> X]]
Repeats(f, N, x, G) == f[0] = x /\ \A n \in 1..N : f[n] = G[n][f[n - 1]]
LEMMA RepeatExists ==
    ASSUME NEW N \in Nat, NEW X, NEW x \in X, NEW G \in Steps(N, X)
    PROVE  \E f \in [0..N -> X] : Repeats(f, N, x, G)
  <1> DEFINE Initials(n) == {f \in [0..n -> X] : Repeats(f, n, x, G)}
             S == {n \in Nat : n <= N => Initials(n) # {}}
  <1> USE DEF Steps, Repeats
  <1>1. 0 \in S
    <2>1. [i \in 0..0 |-> x] \in Initials(0)
      OBVIOUS
    <2> QED
      BY <2>1
  <1>2. ASSUME NEW n \in Nat, n \in S
        PROVE  n + 1 \in S
    <2>1. SUFFICES ASSUME n + 1 <= N PROVE Initials(n + 1) # {}
      OBVIOUS
    <2>2. PICK f \in Initials(n) : TRUE
      BY <1>2, <2>1
    <2> DEFINE g == [i \in 0..n + 1 |-> IF i = n + 1 THEN G[n + 1][f[n]] ELSE f[i]]
    <2>3. n \in 0..n /\ f[n] \in X /\ n + 1 \in 1..N /\ G[n + 1][f[n]] \in X
      BY <2>1, <2>2
    <2>4. g \in [0..n + 1 -> X] /\ g[0] = x
      BY <2>2, <2>3
    <2>5. ASSUME NEW i \in 1..n + 1
          PROVE  g[i] = G[i][g[i - 1]]
      <3>1. CASE i = n + 1
        BY <3>1, <2>3
      <3>2. CASE i # n + 1
        <4>1. i \in 1..n /\ i - 1 \in 0..n /\ i - 1 # n + 1 /\ i \in 0..n + 1
              /\ i - 1 \in 0..n + 1
          BY <3>2
        <4>2. g[i] = f[i] /\ g[i - 1] = f[i - 1]
          BY <3>2, <4>1
        <4>3. f[i] = G[i][f[i - 1]]
          BY <2>2, <4>1
        <4> QED
          BY <4>2, <4>3
      <3> QED
        BY <3>1, <3>2
    <2>6. g \in Initials(n + 1)
      <3> HIDE DEF g
      <3> QED
        BY <2>4, <2>5
    <2> QED
      BY <2>6
  <1> HIDE DEF S
  <1>3. Nat \subseteq S
    BY <1>1, <1>2, NatSet
  <1> USE DEF S
  <1>4. N \in S
    BY <1>3
  <1> QED
    BY <1>4

-----------------------------------------------------------------------------
(* Sequences of a finite set *)

\* R orders S strictly and totally.
StrictOrder(S, R) ==
    \A x, y, z \in S :
        /\ <<x, x>> \notin R
        /\ x = y \/ <<x, y>> \in R \/ <<y, x>> \in R
        /\ <<x, y>> \in R /\ <<y, z>> \in R => <<x, z>> \in R

\* Ranks are all different, so every place of the sequence has its element.
LEMMA OrderedIsOfSet ==
    ASSUME NEW S, IsFiniteSet(S), NEW R, StrictOrder(S, R)
    PROVE  /\ Cardinality(S) \in Nat
           /\ Ordered(S, R) \in [1..Cardinality(S) -> S]
           /\ Ordered(S, R) \in Seq(S) /\ Len(Ordered(S, R)) = Cardinality(S)
  <1> DEFINE Below(x) == {y \in S : <<y, x>> \in R}
             rank == [x \in S |-> Cardinality(Below(x))]
             n == Cardinality(S)
  <1>1. n \in Nat /\ \A T \in SUBSET S : IsFiniteSet(T) /\ Cardinality(T) \in Nat
    BY FS_CardinalityType, FS_Subset
  <1>2. ASSUME NEW x \in S
        PROVE  Below(x) \in SUBSET S /\ rank[x] \in 0..n - 1
    <2>1. Below(x) \in SUBSET S /\ x \notin Below(x)
      BY DEF StrictOrder
    <2>2. Cardinality(Below(x)) <= n /\ Cardinality(Below(x)) # n
      BY <2>1, FS_Subset
    <2>3. Cardinality(Below(x)) \in Nat
      BY <2>1, <1>1
    <2> QED
      BY <2>1, <2>2, <2>3, <1>1
  <1>3. ASSUME NEW x \in S, NEW y \in S, <<x, y>> \in R
        PROVE  rank[x] # rank[y]
    <2>1. Below(x) \in SUBSET Below(y) /\ x \in Below(y) /\ x \notin Below(x)
      BY <1>3 DEF StrictOrder
    <2>2. IsFiniteSet(Below(y))
      BY <1>1, <1>2
    <2> QED
      BY <2>1, <2>2, FS_Subset
  <1>4. rank \in [S -> 0..n - 1] /\ \A x, y \in S : rank[x] = rank[y] => x = y
    BY <1>2, <1>3 DEF StrictOrder
  <1>5. rank \in Injection(S, 0..n - 1)
    <2> HIDE DEF rank
    <2> QED
      BY <1>4 DEF Injection, IsInjective
  <1>6. IsFiniteSet(0..n - 1) /\ Cardinality(0..n - 1) = n
    <2>1. 0 \in Int /\ n - 1 \in Int /\ (IF 0 > n - 1 THEN 0 ELSE (n - 1) - 0 + 1) = n
      BY <1>1
    <2> HIDE DEF n
    <2> QED
      BY <2>1, FS_Interval
  <1>7. rank \in Surjection(S, 0..n - 1)
    BY <1>5, <1>6, FS_Injection
  <1>8. ASSUME NEW i \in 1..n
        PROVE  \E x \in S : Cardinality({y \in S : <<y, x>> \in R}) = i - 1
    <2>1. i - 1 \in 0..n - 1
      BY <1>1
    <2>2. PICK x \in S : rank[x] = i - 1
      <3> HIDE DEF rank
      <3> QED
        BY <2>1, <1>7 DEF Surjection
    <2> QED
      BY <2>2
  <1>9. Ordered(S, R) \in [1..n -> S]
    BY <1>8 DEF Ordered
  <1> QED
    BY <1>1, <1>9

\* Every finite set can be listed.
LEMMA ListIsOfSet ==
    ASSUME NEW S, IsFiniteSet(S)
    PROVE  /\ Cardinality(S) \in Nat /\ SetToSeq(S) \in [1..Cardinality(S) -> S]
           /\ SetToSeq(S) \in Seq(S)
  <1>1. Cardinality(S) \in Nat
    BY FS_CardinalityType
  <1>2. PICK f \in Bijection(1..Cardinality(S), S) : TRUE
    BY FS_CardinalityType DEF ExistsBijection
  <1>3. f \in [1..Cardinality(S) -> S] /\ IsInjective(f)
    BY <1>2 DEF Bijection, Injection, IsInjective
  <1>4. SetToSeq(S) \in [1..Cardinality(S) -> S]
    BY <1>3 DEF SetToSeq
  <1> QED
    BY <1>1, <1>4

\* A set of actions on different memories can be listed.
LEMMA ListOfActions ==
    ASSUME NEW S, NEW A, S \subseteq A, A \subseteq Actions,
           \A a, b \in S : a # b => a.memory # b.memory
    PROVE  SetToSeq(S) \in Seq(A)
  <1> DEFINE f == [a \in S |-> a.memory]
  <1>1. f \in [S -> Memories] /\ \A a, b \in S : f[a] = f[b] => a = b
    BY DEF Actions
  <1>2. f \in Injection(S, Memories)
    <2> HIDE DEF f
    <2> QED
      BY <1>1 DEF Injection, IsInjective
  <1>3. IsFiniteSet(S)
    <2> HIDE DEF f
    <2> QED
      BY <1>2, FS_Injection, ConstantAssumption
  <1>4. SetToSeq(S) \in Seq(S)
    BY <1>3, ListIsOfSet
  <1> QED
    BY <1>4

-----------------------------------------------------------------------------
(* Candidates made consistent *)

LEMMA KeptIsDefined ==
    ASSUME NEW c \in Seq(Actions)
    PROVE  Kept(c) = [n \in 0..Len(c) |->
                IF n = 0 THEN <<>>
                ELSE IF Dropped(c[n], Targets(Kept(c)[n - 1]), c) THEN Kept(c)[n - 1]
                ELSE Append(Kept(c)[n - 1], c[n])]
  <1> DEFINE X == Seq(Actions)
             G == [n \in 1..Len(c) |-> [s \in X |->
                    IF Dropped(c[n], Targets(s), c) THEN s ELSE Append(s, c[n])]]
  <1>1. Len(c) \in Nat /\ <<>> \in X
    OBVIOUS
  <1>2. ASSUME NEW n \in 1..Len(c), NEW s \in X
        PROVE  s \in X /\ Append(s, c[n]) \in X
    OBVIOUS
  <1>3. G \in Steps(Len(c), X)
    BY <1>2 DEF Steps
  <1>4. PICK f \in [0..Len(c) -> X] : Repeats(f, Len(c), <<>>, G)
    <2> HIDE DEF X, G
    <2> QED
      BY <1>1, <1>3, RepeatExists
  <1>5. ASSUME NEW n \in 1..Len(c)
        PROVE  f[n] = IF Dropped(c[n], Targets(f[n - 1]), c) THEN f[n - 1]
                      ELSE Append(f[n - 1], c[n])
    <2>1. n - 1 \in 0..Len(c)
      BY <1>1
    <2>2. f[n - 1] \in X
      BY <2>1, <1>4
    <2> QED
      BY <2>2, <1>4 DEF Repeats
  <1>6. \A n \in 0..Len(c) : n = 0 \/ n \in 1..Len(c)
    BY <1>1
  <1>7. f = [n \in 0..Len(c) |->
                IF n = 0 THEN <<>>
                ELSE IF Dropped(c[n], Targets(f[n - 1]), c) THEN f[n - 1]
                ELSE Append(f[n - 1], c[n])]
    <2> HIDE DEF G
    <2> QED
      BY <1>4, <1>5, <1>6 DEF Repeats
  <1> QED
    BY <1>7 DEF Kept

\* An action that is not dropped competes with none of those kept.
LEMMA KeepOne ==
    ASSUME NEW c \in Seq(Actions), NEW n \in DOMAIN c, c[n].canonical # c[n].memory,
           NEW s \in Seq(Actions), NoneCompete(s),
           \A i \in DOMAIN s : \E k \in DOMAIN c : s[i] = c[k],
           ~ Dropped(c[n], Targets(s), c)
    PROVE  NoneCompete(Append(s, c[n]))
  <1> DEFINE t == Append(s, c[n])
             N == Len(s) + 1
  <1>1. /\ DOMAIN t = DOMAIN s \cup {N} /\ N \notin DOMAIN s /\ t[N] = c[n]
        /\ \A i \in DOMAIN s : t[i] = s[i]
    OBVIOUS
  <1>2. ASSUME NEW i \in DOMAIN s
        PROVE  /\ s[i].memory # c[n].memory /\ s[i].memory # c[n].canonical
               /\ c[n].memory # s[i].canonical
    <2>1. s[i].memory \in Targets(s)
      BY DEF Targets, Range
    <2>2. PICK k \in DOMAIN c : s[i] = c[k]
      OBVIOUS
    <2>3. s[i] \in Range(c)
      BY <2>2 DEF Range
    <2> QED
      BY <2>1, <2>3 DEF Dropped
  <1> HIDE DEF t, N
  <1>3. ASSUME NEW i \in DOMAIN t, NEW k \in DOMAIN t
        PROVE  (i # k => t[i].memory # t[k].memory) /\ t[i].memory # t[k].canonical
    <2>1. CASE i \in DOMAIN s /\ k \in DOMAIN s
      BY <2>1, <1>1 DEF NoneCompete
    <2>2. CASE i \in DOMAIN s /\ k = N
      BY <2>2, <1>1, <1>2
    <2>3. CASE i = N /\ k \in DOMAIN s
      BY <2>3, <1>1, <1>2
    <2>4. CASE i = N /\ k = N
      BY <2>4, <1>1
    <2> QED
      BY <2>1, <2>2, <2>3, <2>4, <1>1
  <1>4. NoneCompete(t)
    BY <1>3 DEF NoneCompete
  <1> QED
    BY <1>4 DEF t

LEMMA DedupeKeepsSomeOfThem ==
    ASSUME NEW c \in Seq(Actions), \A i \in DOMAIN c : c[i].canonical # c[i].memory
    PROVE  /\ DedupeCandidates(c) \in Seq(Actions) /\ NoneCompete(DedupeCandidates(c))
           /\ \A i \in DOMAIN DedupeCandidates(c) :
                \E k \in DOMAIN c : DedupeCandidates(c)[i] = c[k]
  <1> DEFINE X == {s \in Seq(Actions) :
                    /\ NoneCompete(s)
                    /\ \A i \in DOMAIN s : \E k \in DOMAIN c : s[i] = c[k]}
             f == Kept(c)
             N == Len(c)
  <1>1. N \in Nat /\ DOMAIN c = 1..N
    OBVIOUS
  <1>2. f = [n \in 0..N |->
                IF n = 0 THEN <<>>
                ELSE IF Dropped(c[n], Targets(f[n - 1]), c) THEN f[n - 1]
                ELSE Append(f[n - 1], c[n])]
    BY KeptIsDefined
  <1>3. <<>> \in X
    BY DEF NoneCompete
  <1>4. ASSUME NEW n \in 1..N, NEW s \in X, ~ Dropped(c[n], Targets(s), c)
        PROVE  Append(s, c[n]) \in X
    <2>1. n \in DOMAIN c
      BY <1>1
    <2>2. NoneCompete(Append(s, c[n]))
      BY <1>4, <2>1, KeepOne
    <2>3. Append(s, c[n]) \in Seq(Actions)
      BY <2>1
    <2>4. ASSUME NEW i \in DOMAIN Append(s, c[n])
          PROVE  \E k \in DOMAIN c : Append(s, c[n])[i] = c[k]
      <3>1. CASE i \in DOMAIN s
        BY <3>1
      <3>2. CASE i = Len(s) + 1
        BY <3>2, <2>1
      <3> QED
        BY <3>1, <3>2
    <2> QED
      BY <2>2, <2>3, <2>4
  <1> HIDE DEF X, f, N
  <1>5. f[0] \in X
    BY <1>1, <1>2, <1>3
  <1>6. \A n \in 1..N : f[n - 1] \in X => f[n] \in X
    <2> TAKE n \in 1..N
    <2> HAVE f[n - 1] \in X
    <2>1. n \in 0..N /\ n # 0
      BY <1>1
    <2>2. f[n] = IF Dropped(c[n], Targets(f[n - 1]), c) THEN f[n - 1]
                 ELSE Append(f[n - 1], c[n])
      BY <1>2, <2>1
    <2> QED
      BY <2>2, <1>4
  <1>7. f[N] \in X
    BY <1>1, <1>5, <1>6, RepeatKeeps
  <1> QED
    BY <1>7 DEF X, f, N, DedupeCandidates

-----------------------------------------------------------------------------
(* The actions a run collects *)

SoundActions == {a \in Actions : ActionOK(a)}

LEMMA Clock ==
    /\ Cardinality(Memories) \in Nat /\ MaxTime \in Nat /\ Times \subseteq Nat
    /\ 0 \in Times /\ 1 \in Times /\ 0..MaxTime \subseteq Times
  <1>1. Cardinality(Memories) \in Nat
    BY ConstantAssumption, FS_CardinalityType
  <1> QED
    BY <1>1, ConstantAssumption DEF Times

LEMMA RowType ==
    ASSUME NEW row \in Rows
    PROVE  /\ row.version \in Nat /\ row.relevant \in Nat /\ row.inspected \in Nat
           /\ row.expires \in Nat /\ row.consolidated \in Nat
           /\ row.content \in Contents /\ row.status \in MemoryStatuses
  BY Clock DEF Rows

\* What the database holds now may be taken for what was read.
LEMMA RowIsSnapshot ==
    ASSUME Types, NEW m \in Memories
    PROVE  SnapshotOK(m, memory[m])
  BY RowType DEF Types, SnapshotOK, WasRead

LEMMA PairIsSound ==
    ASSUME NEW m \in Memories, NEW s \in Memories, m # s,
           NEW row \in Rows, NEW other \in Rows,
           SnapshotOK(m, row), SnapshotOK(s, other),
           NEW reason \in {"exact_duplicate", "superseded"},
           reason = "exact_duplicate" => row.content = other.content
    PROVE  Action(m, row, s, other, reason) \in SoundActions
  <1> DEFINE a == Action(m, row, s, other, reason)
  <1>1. a \in Actions
    BY DEF Action, Actions, Rows, Reasons
  <1>2. ActionOK(a)
    BY DEF Action, ActionOK, SnapshotOK
  <1> QED
    BY <1>1, <1>2 DEF SoundActions

LEMMA RecentRows ==
    ASSUME NEW rows \in Snapshots
    PROVE  /\ DOMAIN rows \subseteq Memories /\ IsFiniteSet(DOMAIN rows)
           /\ \A m \in DOMAIN rows : rows[m] \in Rows
  <1>1. DOMAIN rows \subseteq Memories /\ \A m \in DOMAIN rows : rows[m] \in Rows
    BY DEF Snapshots
  <1> QED
    BY <1>1, FS_Subset, ConstantAssumption

LEMMA NewerOrders ==
    ASSUME NEW row \in [Memories -> Rows], NEW m \in Memories
    PROVE  StrictOrder(Memories, Newer(row, m))
  <1>1. \A x, y \in Memories : <<x, y>> \in Newer(row, m) <=>
            \/ row[x].version > row[y].version
            \/ row[x].version = row[y].version /\ y # m /\ (x = m \/ x < y)
    BY DEF Newer
  <1>2. \A x \in Memories : x \in Nat /\ row[x].version \in Nat
    BY RowType, ConstantAssumption
  <1>3. ASSUME NEW x \in Memories, NEW y \in Memories, NEW z \in Memories
        PROVE  /\ <<x, x>> \notin Newer(row, m)
               /\ x = y \/ <<x, y>> \in Newer(row, m) \/ <<y, x>> \in Newer(row, m)
               /\ <<x, y>> \in Newer(row, m) /\ <<y, z>> \in Newer(row, m) => <<x, z>> \in Newer(row, m)
    <2>1. <<x, x>> \notin Newer(row, m)
      BY <1>1, <1>2
    <2>2. x = y \/ <<x, y>> \in Newer(row, m) \/ <<y, x>> \in Newer(row, m)
      BY <1>1, <1>2
    <2>3. ASSUME <<x, y>> \in Newer(row, m), <<y, z>> \in Newer(row, m)
          PROVE  <<x, z>> \in Newer(row, m)
      BY <1>1, <1>2, <2>3
    <2> QED
      BY <2>1, <2>2, <2>3
  <1> QED
    BY <1>3 DEF StrictOrder

LEMMA MoreRecentOrders ==
    ASSUME NEW recent \in Snapshots
    PROVE  StrictOrder(DOMAIN recent, MoreRecent(recent))
  <1>1. \A x, y \in DOMAIN recent : <<x, y>> \in MoreRecent(recent) <=>
            \/ recent[x].relevant > recent[y].relevant
            \/ recent[x].relevant = recent[y].relevant /\ x < y
    BY DEF MoreRecent
  <1>2. \A x \in DOMAIN recent : x \in Nat /\ recent[x].relevant \in Nat
    BY RecentRows, RowType, ConstantAssumption
  <1>3. ASSUME NEW x \in DOMAIN recent, NEW y \in DOMAIN recent, NEW z \in DOMAIN recent
        PROVE  /\ <<x, x>> \notin MoreRecent(recent)
               /\ x = y \/ <<x, y>> \in MoreRecent(recent) \/ <<y, x>> \in MoreRecent(recent)
               /\ <<x, y>> \in MoreRecent(recent) /\ <<y, z>> \in MoreRecent(recent) => <<x, z>> \in MoreRecent(recent)
    <2>1. <<x, x>> \notin MoreRecent(recent)
      BY <1>1, <1>2
    <2>2. x = y \/ <<x, y>> \in MoreRecent(recent) \/ <<y, x>> \in MoreRecent(recent)
      BY <1>1, <1>2
    <2>3. ASSUME <<x, y>> \in MoreRecent(recent), <<y, z>> \in MoreRecent(recent)
          PROVE  <<x, z>> \in MoreRecent(recent)
      BY <1>1, <1>2, <2>3
    <2> QED
      BY <2>1, <2>2, <2>3
  <1> QED
    BY <1>3 DEF StrictOrder

LEMMA SmallerOrder ==
    ASSUME NEW S, NEW R, StrictOrder(S, R), NEW T \in SUBSET S
    PROVE  StrictOrder(T, R)
  BY DEF StrictOrder

\* The survivor is one of the group, and never among its duplicates.
LEMMA DuplicatesAreSound ==
    ASSUME Types, NEW j \in Jobs, SnapshotsOK(run[j].recent),
           NEW m \in DOMAIN run[j].recent, run[j].recent \in Snapshots, NEW found
    PROVE  DuplicatesOf(j, m, found) \in Seq(SoundActions)
  <1> DEFINE row == [memory EXCEPT ![m] = run[j].recent[m]]
             group == {m} \cup {d \in Memories : memory[d].status = "ACTIVE"
                                                 /\ memory[d].content = row[m].content}
             survivor == Ordered(group, Newer(row, m))[1]
             others == group \ ({survivor} \cup found)
             duplicates == Ordered(others, Newer(row, m))
             ToAction(d) == Action(d, row[d], survivor, row[survivor], "exact_duplicate")
  <1>1. m \in Memories /\ run[j].recent[m] \in Rows /\ memory \in [Memories -> Rows]
    BY RecentRows DEF Types
  <1>2. row \in [Memories -> Rows] /\ \A d \in Memories : SnapshotOK(d, row[d])
    <2>1. ASSUME NEW d \in Memories
          PROVE  SnapshotOK(d, row[d])
      BY <1>1, RowIsSnapshot DEF SnapshotsOK
    <2> QED
      BY <1>1, <2>1
  <1>3. /\ group \in SUBSET Memories /\ others \in SUBSET Memories /\ m \in group
        /\ \A d \in group : row[d].content = row[m].content
    BY <1>1
  <1>4. /\ IsFiniteSet(group) /\ IsFiniteSet(others)
        /\ StrictOrder(group, Newer(row, m)) /\ StrictOrder(others, Newer(row, m))
    <2> HIDE DEF row, group, others
    <2> QED
      BY <1>1, <1>2, <1>3, NewerOrders, SmallerOrder, FS_Subset, ConstantAssumption
  <1>5. survivor \in group
    <2> HIDE DEF row, group
    <2>1. Cardinality(group) # 0
      BY <1>3, <1>4, FS_EmptySet
    <2>2. Cardinality(group) \in Nat
          /\ Ordered(group, Newer(row, m)) \in [1..Cardinality(group) -> group]
      BY <1>4, OrderedIsOfSet
    <2>3. 1 \in 1..Cardinality(group)
      BY <2>1, <2>2
    <2> QED
      BY <2>2, <2>3
  <1>6. duplicates \in Seq(others)
    <2> HIDE DEF row, others
    <2> QED
      BY <1>4, OrderedIsOfSet
  <1>7. ASSUME NEW d \in others
        PROVE  ToAction(d) \in SoundActions
    <2>1. d \in group /\ d # survivor
      OBVIOUS
    <2> HIDE DEF row, group, others, survivor
    <2>2. /\ d \in Memories /\ survivor \in Memories
          /\ row[d] \in Rows /\ row[survivor] \in Rows
          /\ SnapshotOK(d, row[d]) /\ SnapshotOK(survivor, row[survivor])
          /\ row[d].content = row[survivor].content
      BY <1>2, <1>3, <1>5, <2>1
    <2> QED
      BY <2>1, <2>2, PairIsSound
  <1>8. DuplicatesOf(j, m, found) = [i \in 1..Len(duplicates) |-> ToAction(duplicates[i])]
    BY DEF DuplicatesOf
  <1> HIDE DEF row, group, survivor, others, duplicates, ToAction
  <1>9. \A i \in 1..Len(duplicates) : ToAction(duplicates[i]) \in SoundActions
    BY <1>6, <1>7
  <1>10. Len(duplicates) \in Nat
    BY <1>6
  <1> QED
    BY <1>8, <1>9, <1>10

LEMMA SoundSequences ==
    /\ SoundActions \subseteq Actions /\ Seq(SoundActions) \subseteq Seq(Actions)
    /\ \A s \in Seq(Actions) : ActionsOK(s) <=> s \in Seq(SoundActions)
  <1>1. ASSUME NEW s \in Seq(Actions), ActionsOK(s)
        PROVE  s \in Seq(SoundActions)
    <2>1. \A i \in 1..Len(s) : s[i] \in SoundActions
      BY <1>1 DEF ActionsOK, SoundActions
    <2>2. Len(s) \in Nat /\ s = [i \in 1..Len(s) |-> s[i]]
      OBVIOUS
    <2> QED
      BY <2>1, <2>2
  <1>2. ASSUME NEW s \in Seq(SoundActions)
        PROVE  ActionsOK(s) /\ s \in Seq(Actions)
    BY DEF ActionsOK, SoundActions
  <1> QED
    BY <1>1, <1>2 DEF SoundActions

LEMMA FoundIsSound ==
    ASSUME Types, NEW j \in Jobs, SnapshotsOK(run[j].recent),
           run[j].recent \in Snapshots, NEW sources \in Seq(DOMAIN run[j].recent)
    PROVE  Found(j, sources)[Len(sources)] \in Seq(SoundActions)
  <1> DEFINE X == Seq(SoundActions)
             N == Len(sources)
             G == [n \in 1..N |-> [s \in X |->
                        s \o DuplicatesOf(j, sources[n], Targets(s))]]
  <1>1. N \in Nat /\ <<>> \in X
    OBVIOUS
  <1>2. ASSUME NEW n \in 1..N, NEW s \in X
        PROVE  s \o DuplicatesOf(j, sources[n], Targets(s)) \in X
    <2>1. sources[n] \in DOMAIN run[j].recent
      OBVIOUS
    <2>2. DuplicatesOf(j, sources[n], Targets(s)) \in X
      BY <2>1, DuplicatesAreSound
    <2> QED
      BY <2>2
  <1>3. G \in Steps(N, X)
    BY <1>2 DEF Steps
  <1>4. PICK f \in [0..N -> X] : Repeats(f, N, <<>>, G)
    <2> HIDE DEF X, G, N
    <2> QED
      BY <1>1, <1>3, RepeatExists
  <1>5. ASSUME NEW n \in 1..N
        PROVE  f[n] = f[n - 1] \o DuplicatesOf(j, sources[n], Targets(f[n - 1]))
    <2>1. n - 1 \in 0..N
      BY <1>1
    <2>2. f[n - 1] \in X
      BY <2>1, <1>4
    <2> QED
      BY <2>2, <1>4 DEF Repeats
  <1>6. \A n \in 0..N : n = 0 \/ n \in 1..N
    BY <1>1
  <1>7. f = [n \in 0..N |->
                IF n = 0 THEN <<>>
                ELSE f[n - 1] \o DuplicatesOf(j, sources[n], Targets(f[n - 1]))]
    <2> HIDE DEF G
    <2> QED
      BY <1>4, <1>5, <1>6 DEF Repeats
  <1> DEFINE g == Found(j, sources)
  <1>8. g = [n \in 0..N |->
                IF n = 0 THEN <<>>
                ELSE g[n - 1] \o DuplicatesOf(j, sources[n], Targets(g[n - 1]))]
    BY <1>7 DEF Found
  <1> HIDE DEF g, N, X
  <1>9. g[0] \in X
    BY <1>1, <1>8
  <1>10. \A n \in 1..N : g[n - 1] \in X => g[n] \in X
    <2> TAKE n \in 1..N
    <2> HAVE g[n - 1] \in X
    <2>1. n \in 0..N /\ n # 0
      BY <1>1
    <2>2. g[n] = g[n - 1] \o DuplicatesOf(j, sources[n], Targets(g[n - 1]))
      BY <1>8, <2>1
    <2> QED
      BY <2>2, <1>2
  <1>11. g[N] \in X
    BY <1>1, <1>9, <1>10, RepeatKeeps
  <1> QED
    BY <1>11 DEF g, N, X

LEMMA DuplicateActionsAreSound ==
    ASSUME Types, NEW j \in Jobs, SnapshotsOK(run[j].recent), run[j].recent \in Snapshots
    PROVE  DuplicateActions(j) \in Seq(SoundActions)
  <1> DEFINE recent == run[j].recent
             sources == Ordered(DOMAIN recent, MoreRecent(recent))
  <1>1. sources \in Seq(DOMAIN recent)
    <2> HIDE DEF recent
    <2>1. recent \in Snapshots
      BY DEF recent
    <2> QED
      BY <2>1, RecentRows, MoreRecentOrders, OrderedIsOfSet
  <1> HIDE DEF sources
  <1>2. Found(j, sources)[Len(sources)] \in Seq(SoundActions)
    BY <1>1, FoundIsSound
  <1> QED
    BY <1>2 DEF DuplicateActions, sources

LEMMA ExpiredActionsAreSound ==
    ASSUME Types, NEW j \in Jobs, SnapshotsOK(run[j].expired), run[j].expired \in Snapshots,
           run[j].start \in Nat, run[j].start <= now
    PROVE  ExpiredActions(j) \in Seq(SoundActions)
  <1> DEFINE none == [version |-> 0, content |-> None]
             expired == run[j].expired
             due == {m \in DOMAIN expired : expired[m].expires # 0
                                             /\ expired[m].expires <= run[j].start}
             ToAction(m) == Action(m, expired[m], None, none, "expired")
             S == {ToAction(m) : m \in due}
  <1>1. \A m \in due : m \in Memories /\ expired[m] \in Rows /\ SnapshotOK(m, expired[m])
    BY RecentRows DEF SnapshotsOK
  <1>2. ASSUME NEW m \in due
        PROVE  ToAction(m) \in SoundActions /\ ToAction(m).memory = m
    <2>1. ToAction(m) \in Actions /\ ToAction(m).memory = m
      BY <1>1, Clock DEF Action, Actions, Rows, Reasons
    <2>2. /\ expired[m].expires # 0 /\ expired[m].expires <= now
      <3>1. expired[m].expires \in Nat /\ now \in Nat
        BY <1>1, RowType, Clock DEF Types
      <3> QED
        BY <3>1
    <2>3. None # m
      BY <1>1, ConstantAssumption
    <2>4. ActionOK(ToAction(m))
      <3> HIDE DEF due, expired
      <3> QED
        BY <1>1, <2>2, <2>3 DEF Action, ActionOK, SnapshotOK, Expired
    <2> QED
      BY <2>1, <2>4 DEF SoundActions
  <1> HIDE DEF due, ToAction
  <1>3. S \subseteq SoundActions /\ \A a, b \in S : a # b => a.memory # b.memory
    BY <1>2
  <1>4. SetToSeq(S) \in Seq(SoundActions)
    <2> HIDE DEF S
    <2> QED
      BY <1>3, SoundSequences, ListOfActions
  <1> QED
    BY <1>4 DEF ExpiredActions, due, ToAction

\* What a run is about to write.
Planned(j) ==
    DedupeCandidates(ExpiredActions(j) \o DuplicateActions(j) \o run[j].actions)

LEMMA PlannedIsSound ==
    ASSUME Types, NEW j \in Jobs, RunOK(run[j])
    PROVE  /\ Planned(j) \in Seq(Actions) /\ ActionsOK(Planned(j))
           /\ NoneCompete(Planned(j)) /\ Targets(Planned(j)) \subseteq Memories
  <1> DEFINE c == ExpiredActions(j) \o DuplicateActions(j) \o run[j].actions
  <1>1. /\ run[j].recent \in Snapshots /\ run[j].expired \in Snapshots
        /\ run[j].start \in Nat /\ run[j].actions \in Seq(Actions)
    BY Clock DEF Types, Runs
  <1>2. /\ ExpiredActions(j) \in Seq(SoundActions)
        /\ DuplicateActions(j) \in Seq(SoundActions)
        /\ run[j].actions \in Seq(SoundActions)
    BY <1>1, ExpiredActionsAreSound, DuplicateActionsAreSound, SoundSequences DEF RunOK
  <1>3. c \in Seq(SoundActions)
    BY <1>2
  <1> HIDE DEF c
  <1>4. c \in Seq(Actions) /\ \A i \in DOMAIN c : c[i] \in SoundActions
    BY <1>3, SoundSequences
  <1>5. \A i \in DOMAIN c : c[i].canonical # c[i].memory /\ ActionOK(c[i])
    BY <1>4 DEF SoundActions, ActionOK
  <1>6. /\ DedupeCandidates(c) \in Seq(Actions) /\ NoneCompete(DedupeCandidates(c))
        /\ \A i \in DOMAIN DedupeCandidates(c) :
             \E k \in DOMAIN c : DedupeCandidates(c)[i] = c[k]
    BY <1>4, <1>5, DedupeKeepsSomeOfThem
  <1>7. ActionsOK(DedupeCandidates(c))
    BY <1>5, <1>6 DEF ActionsOK
  <1>8. Planned(j) = DedupeCandidates(c)
    BY DEF Planned, c
  <1>9. \A s \in Seq(Actions) : Targets(s) \subseteq Memories
    <2>1. \A a \in Actions : a.memory \in Memories
      BY DEF Actions
    <2> QED
      BY <2>1 DEF Targets, Range
  <1> QED
    BY <1>6, <1>7, <1>8, <1>9

LEMMA JudgmentsAreSound ==
    ASSUME Types, NEW j \in Jobs, RunOK(run[j])
    PROVE  Judgments(j) \subseteq SoundActions /\ PermittedSources(j) \subseteq DOMAIN run[j].recent
  <1>1. run[j].recent \in Snapshots
    BY DEF Types, Runs
  <1>2. ASSUME NEW m \in PermittedSources(j), NEW c \in Memories \ {m}
        PROVE  /\ Action(m, run[j].recent[m], c, memory[c], "superseded") \in SoundActions
               /\ Action(c, memory[c], m, run[j].recent[m], "superseded") \in SoundActions
    <2>1. m \in DOMAIN run[j].recent
      BY DEF PermittedSources
    <2>2. m \in Memories /\ run[j].recent[m] \in Rows /\ memory[c] \in Rows
      BY <1>1, <2>1, RecentRows DEF Types
    <2>3. SnapshotOK(m, run[j].recent[m]) /\ SnapshotOK(c, memory[c])
      BY <2>1, RowIsSnapshot DEF RunOK, SnapshotsOK
    <2> QED
      BY <2>2, <2>3, PairIsSound
  <1>3. ASSUME NEW a \in Judgments(j)
        PROVE  a \in SoundActions
    <2>1. PICK m \in PermittedSources(j) :
            a \in UNION {{Action(m, run[j].recent[m], c, memory[c], "superseded"),
                          Action(c, memory[c], m, run[j].recent[m], "superseded")} :
                         c \in {c \in Memories \ {m} : Permitted(memory[c])}}
      BY DEF Judgments
    <2>2. PICK c \in Memories \ {m} :
            a \in {Action(m, run[j].recent[m], c, memory[c], "superseded"),
                   Action(c, memory[c], m, run[j].recent[m], "superseded")}
      BY <2>1
    <2> QED
      BY <1>2, <2>2
  <1> QED
    BY <1>3 DEF PermittedSources

-----------------------------------------------------------------------------
(* What was read stays read *)

\* A row keeps its version and what actions say of it, or takes a new version.
RowMoves(m) ==
    \/ /\ memory'[m].version = memory[m].version
       /\ memory'[m].content = memory[m].content
       /\ memory'[m].expires = memory[m].expires
    \/ memory[m].version < memory'[m].version
VaultMoves ==
    /\ now \in Nat /\ now' \in Nat /\ now <= now'
    /\ memory \in [Memories -> Rows] /\ memory' \in [Memories -> Rows]
    /\ \A m \in Memories : RowMoves(m)
    /\ judged \subseteq judged'

LEMMA WasReadStays ==
    ASSUME VaultMoves, NEW m \in Memories, NEW version \in Times, NEW content,
           WasRead(m, version, content)
    PROVE  WasRead(m, version, content)'
  <1>1. /\ version \in Nat /\ memory[m].version \in Nat /\ memory'[m].version \in Nat
        /\ RowMoves(m)
    BY Clock, RowType DEF VaultMoves
  <1> QED
    BY <1>1 DEF WasRead, RowMoves

LEMMA SnapshotStays ==
    ASSUME VaultMoves, NEW m \in Memories, NEW row \in Rows, SnapshotOK(m, row)
    PROVE  SnapshotOK(m, row)'
  <1>1. /\ row.version \in Times
        /\ row.version \in Nat /\ memory[m].version \in Nat /\ memory'[m].version \in Nat
        /\ RowMoves(m) /\ WasRead(m, row.version, row.content)
    BY Clock, RowType DEF VaultMoves, SnapshotOK, Rows
  <1>2. WasRead(m, row.version, row.content)'
    BY <1>1, WasReadStays
  <1>3. row.version = memory'[m].version => row.expires = memory'[m].expires
    BY <1>1 DEF SnapshotOK, RowMoves, WasRead
  <1> QED
    BY <1>2, <1>3 DEF SnapshotOK

LEMMA ActionStays ==
    ASSUME VaultMoves, NEW a \in Actions, ActionOK(a)
    PROVE  ActionOK(a)'
  <1>1. /\ a.memory \in Memories /\ a.version \in Times /\ a.version \in Nat
        /\ a.canonicalVersion \in Times
    BY Clock DEF Actions
  <1>2. WasRead(a.memory, a.version, a.content)'
    BY <1>1, WasReadStays DEF ActionOK
  <1>3. ASSUME a.reason # "expired"
        PROVE  /\ a.canonical \in Memories
               /\ WasRead(a.canonical, a.canonicalVersion, a.canonicalContent)'
    <2>1. /\ a.canonical \in Memories
          /\ WasRead(a.canonical, a.canonicalVersion, a.canonicalContent)
      BY <1>3 DEF ActionOK
    <2> QED
      BY <1>1, <2>1, WasReadStays
  <1>4. ASSUME a.reason = "expired", a.version = memory'[a.memory].version
        PROVE  Expired(memory[a.memory])'
    <2>1. /\ memory[a.memory].version \in Nat /\ memory'[a.memory].version \in Nat
          /\ memory[a.memory].expires \in Nat /\ now \in Nat /\ now' \in Nat /\ now <= now'
          /\ RowMoves(a.memory)
      BY <1>1, RowType DEF VaultMoves
    <2>2. a.version <= memory[a.memory].version
      BY DEF ActionOK, WasRead
    <2>3. /\ memory'[a.memory].version = memory[a.memory].version
          /\ memory'[a.memory].expires = memory[a.memory].expires
      BY <1>1, <1>4, <2>1, <2>2 DEF RowMoves
    <2>4. Expired(memory[a.memory])
      BY <1>4, <2>3 DEF ActionOK
    <2> QED
      BY <2>1, <2>3, <2>4 DEF Expired
  <1> QED
    BY <1>2, <1>3, <1>4 DEF ActionOK

LEMMA RunStays ==
    ASSUME VaultMoves, NEW r \in Runs, RunOK(r)
    PROVE  RunOK(r)'
  <1>1. r.start <= now'
    <2>1. r.start \in Times
      BY DEF Runs
    <2>2. r.start \in Nat /\ r.start <= now
      BY <2>1, Clock DEF RunOK
    <2> QED
      BY <2>2 DEF VaultMoves
  <1>2. ASSUME NEW rows \in Snapshots, SnapshotsOK(rows)
        PROVE  SnapshotsOK(rows)'
    <2>1. ASSUME NEW m \in DOMAIN rows
          PROVE  SnapshotOK(m, rows[m])'
      BY <1>2, <2>1, RecentRows, SnapshotStays DEF SnapshotsOK
    <2> QED
      BY <2>1 DEF SnapshotsOK
  <1>3. SnapshotsOK(r.recent)' /\ SnapshotsOK(r.expired)'
    BY <1>2 DEF RunOK, Runs
  <1>4. ActionsOK(r.actions)'
    <2>1. ASSUME NEW i \in DOMAIN r.actions
          PROVE  ActionOK(r.actions[i])'
      <3>1. r.actions[i] \in Actions /\ ActionOK(r.actions[i])
        BY DEF RunOK, Runs, ActionsOK
      <3> QED
        BY <3>1, ActionStays
    <2> QED
      BY <2>1 DEF ActionsOK
  <1>5. WereJudged(r.revision)' /\ CompletedOK(r)'
    BY DEF RunOK, WereJudged, CompletedOK, VaultMoves
  <1> QED
    BY <1>1, <1>3, <1>4, <1>5 DEF RunOK

LEMMA OtherRunsStay ==
    ASSUME Types, RunsSound, VaultMoves, NEW j \in Jobs, run'[j] = run[j]
    PROVE  RunOK(run[j])'
  <1>1. PICK r \in Runs : r = run[j]
    BY DEF Types
  <1>2. RunOK(r)
    BY <1>1 DEF RunsSound
  <1>3. RunOK(r)'
    BY <1>2, RunStays
  <1>4. run'[j] = r
    BY <1>1
  <1> QED
    BY <1>3, <1>4

LEMMA ProposalStays ==
    ASSUME Types, ProposalsSound, VaultMoves, NEW p \in Proposals,
           proposal[p].status # "NONE", proposal'[p].action = proposal[p].action
    PROVE  proposal'[p].action \in Actions /\ ActionOK(proposal[p].action)'
  <1>1. proposal[p].action \in Actions /\ ActionOK(proposal[p].action)
    BY DEF ProposalsSound
  <1>2. PICK a \in Actions : a = proposal[p].action
    BY <1>1
  <1>3. ActionOK(a)
    BY <1>1, <1>2
  <1>4. ActionOK(a)'
    BY <1>3, ActionStays
  <1>5. proposal'[p].action = a
    BY <1>2
  <1> QED
    BY <1>4, <1>5

\* No proposal is made or replaced.
LEMMA ProposalsStay ==
    ASSUME Types, ProposalsSound, VaultMoves,
           \A p \in Proposals : /\ proposal'[p].action = proposal[p].action
                                /\ proposal[p].status = "NONE" => proposal'[p].status = "NONE"
    PROVE  ProposalsSound'
  BY ProposalStays DEF ProposalsSound

-----------------------------------------------------------------------------
(* The vault *)

LEMMA ActiveCount ==
    ASSUME memory \in [Memories -> Rows]
    PROVE  /\ Active \in SUBSET Memories /\ IsFiniteSet(Active)
           /\ Cardinality(Active) \in Nat /\ Cardinality(Active) <= Cardinality(Memories)
  <1>1. Active \in SUBSET Memories
    BY DEF Active
  <1>2. IsFiniteSet(Active) /\ Cardinality(Active) <= Cardinality(Memories)
    BY <1>1, FS_Subset, ConstantAssumption
  <1> QED
    BY <1>1, <1>2, FS_CardinalityType

VaultTypes ==
    /\ now \in Times /\ now + Cardinality(Active) <= MaxTime + Cardinality(Memories)
    /\ memory \in [Memories -> Rows]

LEMMA SameVault ==
    ASSUME Types, RowsSound, UNCHANGED <<now, memory>>, judged \subseteq judged'
    PROVE  VaultMoves /\ VaultTypes' /\ RowsSound'
  <1>1. VaultTypes /\ VaultTypes'
    BY DEF Types, VaultTypes, Active
  <1>2. VaultMoves
    <2>1. now \in Nat /\ now' = now
      BY <1>1, Clock DEF VaultTypes
    <2> QED
      BY <1>1, <2>1 DEF VaultTypes, VaultMoves, RowMoves
  <1>3. RowsSound'
    BY DEF RowsSound, Uninspected
  <1> QED
    BY <1>1, <1>2, <1>3

\* Time passes, for the owner.
LEMMA OwnersTime ==
    ASSUME Types, now < MaxTime, now' = now + 1, memory' \in [Memories -> Rows]
    PROVE  now' \in Times /\ VaultTypes'
  <1>1. now \in Nat /\ now' \in Nat /\ now' <= MaxTime
    BY Clock, ConstantAssumption DEF Types
  <1>2. now' \in Times
    BY <1>1, Clock
  <1>3. Cardinality(Active)' \in Nat /\ Cardinality(Active)' <= Cardinality(Memories)
    <2> DEFINE A == {m \in Memories : memory'[m].status = "ACTIVE"}
    <2>1. A \in SUBSET Memories
      OBVIOUS
    <2> HIDE DEF A
    <2>2. IsFiniteSet(A) /\ Cardinality(A) <= Cardinality(Memories)
      BY <2>1, FS_Subset, ConstantAssumption
    <2>3. Cardinality(A) \in Nat
      BY <2>2, FS_CardinalityType
    <2> QED
      BY <2>2, <2>3 DEF A, Active
  <1> QED
    BY <1>1, <1>2, <1>3, Clock DEF VaultTypes

\* An archival spends one of the active memories.
LEMMA ArchivalsTime ==
    ASSUME Types, NEW m \in Memories, memory[m].status = "ACTIVE",
           NEW row \in Rows, row.status # "ACTIVE", memory' = [memory EXCEPT ![m] = row],
           now' = now + 1
    PROVE  VaultTypes'
  <1>1. /\ memory \in [Memories -> Rows] /\ now \in Nat
        /\ now + Cardinality(Active) <= MaxTime + Cardinality(Memories)
    BY Clock DEF Types
  <1>2. memory' \in [Memories -> Rows]
    BY <1>1
  <1>3. Active' = Active \ {m} /\ m \in Active
    BY <1>1 DEF Active
  <1>4. IsFiniteSet(Active) /\ Cardinality(Active) \in Nat
    BY <1>1, ActiveCount
  <1>5. Cardinality(Active \ {m}) = Cardinality(Active) - 1
        /\ Cardinality(Active \ {m}) \in Nat
    BY <1>3, <1>4, FS_RemoveElement, FS_CardinalityType
  <1>6. Cardinality(Active)' = Cardinality(Active) - 1
    BY <1>3, <1>5
  <1>7. now' \in Nat /\ now' + Cardinality(Active)' <= MaxTime + Cardinality(Memories)
    BY <1>1, <1>4, <1>6
  <1>8. now' \in Times
    BY <1>5, <1>6, <1>7, Clock DEF Times
  <1> QED
    BY <1>2, <1>7, <1>8 DEF VaultTypes

\* A saved row has a version of its own; what makes it relevant again, or leaves its
\* inspection alone, keeps the inspected rows judged.
LEMMA SaveMoves ==
    ASSUME Types, RowsSound, NEW m \in Memories, NEW row \in Rows,
           now' = now + 1, memory' = [memory EXCEPT ![m] = row], judged' = judged,
           row.version = now + 1, row.inspected = memory[m].inspected,
           row.relevant \in {memory[m].relevant, now + 1}
    PROVE  VaultMoves /\ RowsSound'
  <1>1. /\ memory \in [Memories -> Rows] /\ memory' \in [Memories -> Rows] /\ now \in Nat
        /\ now' \in Nat /\ now <= now'
    BY Clock DEF Types
  <1>2. memory'[m] = row /\ \A o \in Memories \ {m} : memory'[o] = memory[o]
    BY <1>1
  <1>3. \A o \in Memories :
            /\ memory[o].version \in Nat /\ memory[o].relevant \in Nat
            /\ memory[o].inspected \in Nat
            /\ memory[o].version <= now /\ memory[o].relevant <= now
            /\ memory[o].inspected <= now
            /\ ~ Uninspected(memory[o]) => <<o, memory[o].relevant>> \in judged
    BY <1>1, RowType DEF RowsSound
  <1>4. VaultMoves
    <2>1. ASSUME NEW o \in Memories
          PROVE  RowMoves(o)
      <3>1. CASE o = m
        <4>1. memory[m].version \in Nat /\ memory[m].version <= now
          BY <1>3
        <4>2. memory'[m].version = now + 1
          BY <1>2
        <4>3. memory[m].version < memory'[m].version
          BY <4>1, <4>2, <1>1
        <4> QED
          BY <3>1, <4>3 DEF RowMoves
      <3>2. CASE o # m
        BY <3>2, <1>2 DEF RowMoves
      <3> QED
        BY <3>1, <3>2
    <2> QED
      BY <1>1, <2>1 DEF VaultMoves
  <1>5. ASSUME NEW o \in Memories
        PROVE  /\ memory'[o].version <= now' /\ memory'[o].relevant <= now'
               /\ memory'[o].inspected <= now'
               /\ ~ Uninspected(memory'[o]) => <<o, memory'[o].relevant>> \in judged'
    <2>1. CASE o = m
      <3>1. /\ memory'[o].version = now + 1 /\ memory'[o].inspected = memory[o].inspected
            /\ memory'[o].relevant \in {memory[o].relevant, now + 1}
        BY <2>1, <1>2
      <3>2. CASE memory'[o].relevant = memory[o].relevant
        <4>1. Uninspected(memory'[o]) <=> Uninspected(memory[o])
          BY <3>1, <3>2 DEF Uninspected
        <4> QED
          BY <3>1, <3>2, <4>1, <1>1, <1>3
      <3>3. CASE memory'[o].relevant = now + 1
        <4>1. memory[o].inspected \in Nat /\ memory[o].inspected <= now
          BY <1>3
        <4>2. /\ memory'[o].inspected < memory'[o].relevant
              /\ memory'[o].version <= now' /\ memory'[o].relevant <= now'
              /\ memory'[o].inspected <= now'
          BY <3>1, <3>3, <4>1, <1>1
        <4>3. Uninspected(memory'[o])
          BY <4>2 DEF Uninspected
        <4> QED
          BY <4>2, <4>3
      <3> QED
        BY <3>1, <3>2, <3>3
    <2>2. CASE o # m
      <3>1. memory'[o] = memory[o]
        BY <2>2, <1>2
      <3> QED
        BY <3>1, <1>1, <1>3
    <2> QED
      BY <2>1, <2>2
  <1>6. RowsSound'
    BY <1>5 DEF RowsSound, Uninspected
  <1> QED
    BY <1>4, <1>6

-----------------------------------------------------------------------------
(* One run moves *)

LEMMA RunMoves ==
    ASSUME Types, RunsSound, VaultMoves, NEW j \in Jobs, NEW r \in Runs,
           run' = [run EXCEPT ![j] = r], RunOK(r)'
    PROVE  run' \in [Jobs -> Runs] /\ RunsSound'
  <1>1. /\ run \in [Jobs -> Runs] /\ run'[j] = r
        /\ \A i \in Jobs \ {j} : run'[i] = run[i]
    BY DEF Types
  <1>2. ASSUME NEW i \in Jobs
        PROVE  RunOK(run[i])'
    <2>1. CASE i = j
      <3>1. run'[i] = r
        BY <2>1, <1>1
      <3> QED
        BY <3>1
    <2>2. CASE i # j
      BY <2>2, <1>1, OtherRunsStay
    <2> QED
      BY <2>1, <2>2
  <1> QED
    BY <1>1, <1>2 DEF RunsSound

\* A step of a run that leaves the vault alone.
LEMMA QuietRunStep ==
    ASSUME IInv, NEW j \in Jobs, NEW r \in Runs, RunOK(r), run' = [run EXCEPT ![j] = r],
           job' \in [Jobs -> JobRows],
           UNCHANGED <<now, memory, mode, provider, proposal, applied, judged>>
    PROVE  IInv'
  <1>1. VaultMoves /\ VaultTypes' /\ RowsSound'
    BY SameVault DEF IInv
  <1>2. run' \in [Jobs -> Runs] /\ RunsSound'
    BY <1>1, RunStays, RunMoves DEF IInv
  <1>3. ProposalsSound'
    BY <1>1, ProposalsStay DEF IInv
  <1>4. Types'
    BY <1>1, <1>2 DEF IInv, Types, VaultTypes
  <1> QED
    BY <1>1, <1>2, <1>3, <1>4 DEF IInv

\* A step of the owner.
LEMMA OwnerStep ==
    ASSUME IInv, VaultMoves, VaultTypes', RowsSound', UNCHANGED <<run, proposal, applied>>,
           job' \in [Jobs -> JobRows], mode' \in Modes, provider' \in Systems
    PROVE  IInv'
  <1>1. RunsSound'
    BY OtherRunsStay DEF IInv, RunsSound
  <1>2. ProposalsSound'
    BY ProposalsStay DEF IInv
  <1>3. Types'
    BY DEF IInv, Types, VaultTypes
  <1> QED
    BY <1>1, <1>2, <1>3 DEF IInv

-----------------------------------------------------------------------------
(* Jobs *)

LEMMA RunFacts ==
    ASSUME IInv, NEW j \in Jobs
    PROVE  /\ run[j] \in Runs /\ RunOK(run[j]) /\ job[j] \in JobRows
           /\ memory \in [Memories -> Rows] /\ now \in Times
           /\ mode \in Modes /\ provider \in Systems /\ job \in [Jobs -> JobRows]
  BY DEF IInv, Types, RunsSound

LEMMA NoMetadata ==
    ASSUME NEW configuration \in Systems \cup {None}
    PROVE  JobMetadata(NoSources, configuration) \in Metadatas
  <1>1. NoSources \in {NoSources} \cup SUBSET (Memories \X Times)
    OBVIOUS
  <1> QED
    BY <1>1 DEF JobMetadata, Metadatas

LEMMA NoRunType ==
    NoRun \in Runs /\ NoJob \in JobRows
  <1>1. NoJob.metadata \in Metadatas /\ NoJob \in JobRows
    BY NoMetadata, ConstantAssumption DEF NoJob, JobRows
  <1>2. <<>> \in Snapshots /\ <<>> \in Revisions
    <2>1. <<>> \in [{} -> Rows] /\ <<>> \in [{} -> Times]
      OBVIOUS
    <2> QED
      BY <2>1 DEF Snapshots, Revisions
  <1>3. <<>> \in Seq(Actions)
    OBVIOUS
  <1> QED
    BY <1>1, <1>2, <1>3, Clock DEF NoRun, Runs, Modes

\* A run that has read nothing yet.
LEMMA EmptyRun ==
    ASSUME NEW r, r.start <= now, r.recent = <<>>, r.expired = <<>>, r.actions = <<>>,
           r.plan = <<>>, r.revision = <<>>, r.phase \notin {"asked", "judged"}
    PROVE  RunOK(r)
  <1>1. DOMAIN <<>> = {}
    OBVIOUS
  <1> QED
    BY <1>1 DEF RunOK, SnapshotsOK, ActionsOK, NoneCompete, WereJudged, CompletedOK

LEMMA RestingRun ==
    ASSUME IInv, NEW phase \in {"waiting", "ended"}
    PROVE  [NoRun EXCEPT !.phase = phase] \in Runs /\ RunOK([NoRun EXCEPT !.phase = phase])
  <1> DEFINE r == [NoRun EXCEPT !.phase = phase]
  <1>1. r \in Runs
    BY NoRunType DEF Runs
  <1>2. /\ r.start = 0 /\ r.recent = <<>> /\ r.expired = <<>> /\ r.actions = <<>>
        /\ r.plan = <<>> /\ r.revision = <<>> /\ r.phase = phase
    BY DEF NoRun
  <1>3. 0 <= now
    BY Clock DEF IInv, Types
  <1> HIDE DEF r
  <1>4. RunOK(r)
    BY <1>2, <1>3, EmptyRun
  <1> QED
    BY <1>1, <1>4 DEF r

LEMMA CreateJobStep ==
    ASSUME IInv, NEW j \in Jobs, NEW metadata \in Metadatas,
           NEW unrecorded \in Metadatas \cup {None}, CreateJob(j, metadata, unrecorded)
    PROVE  IInv'
  <1>1. PICK r : r = [run[j] EXCEPT !.phase = "waiting"]
    OBVIOUS
  <1>2. run[j] \in Runs /\ RunOK(run[j]) /\ job[j] \in JobRows
    BY RunFacts
  <1>3. r \in Runs
    BY <1>1, <1>2 DEF Runs
  <1>4. RunOK(r)
    BY <1>1, <1>2 DEF Runs, RunOK, CompletedOK
  <1>5. run' = [run EXCEPT ![j] = r]
    BY <1>1 DEF CreateJob
  <1>6. job' \in [Jobs -> JobRows]
    BY <1>2, RunFacts DEF CreateJob, JobRows
  <1> QED
    BY <1>3, <1>4, <1>5, <1>6, QuietRunStep DEF CreateJob

LEMMA JobSteps ==
    ASSUME IInv, NEW j \in Jobs,
           Scheduled(j) \/ Enqueue(j) \/ \E i \in Jobs : RetryJob(j, i)
    PROVE  IInv'
  <1>1. \A s \in Systems : JobMetadata(NoSources, s) \in Metadatas
    BY NoMetadata
  <1>2. provider \in Systems
    BY DEF IInv, Types
  <1>3. CASE Scheduled(j)
    <2>1. PICK metadata \in Metadatas : CreateJob(j, metadata, None)
      BY <1>1, <1>2, <1>3 DEF Scheduled
    <2> QED
      BY <2>1, CreateJobStep
  <1>4. CASE Enqueue(j)
    <2>1. PICK metadata \in Metadatas : CreateJob(j, metadata, metadata)
      BY <1>1, <1>2, <1>4 DEF Enqueue
    <2> QED
      BY <2>1, CreateJobStep
  <1>5. ASSUME NEW i \in Jobs, RetryJob(j, i)
        PROVE  IInv'
    <2>1. job[i].metadata \in Metadatas
      BY RunFacts DEF JobRows
    <2>2. PICK metadata \in Metadatas : CreateJob(j, metadata, metadata)
      BY <2>1, <1>5 DEF RetryJob
    <2> QED
      BY <2>2, CreateJobStep
  <1> QED
    BY <1>3, <1>4, <1>5

LEMMA RecordQueuedStep ==
    ASSUME IInv, NEW j \in Jobs, RecordQueued(j)
    PROVE  IInv'
  <1>1. VaultMoves /\ VaultTypes' /\ RowsSound'
    BY SameVault DEF IInv, RecordQueued
  <1>2. job' \in [Jobs -> JobRows]
    BY RunFacts DEF RecordQueued, JobRows
  <1>3. mode' \in Modes /\ provider' \in Systems
    BY RunFacts DEF RecordQueued
  <1> QED
    BY <1>1, <1>2, <1>3, OwnerStep DEF RecordQueued

-----------------------------------------------------------------------------
(* The owner *)

LEMMA QuietOwner ==
    ASSUME IInv, now < MaxTime, now' = now + 1, UNCHANGED <<memory, judged>>
    PROVE  VaultMoves /\ VaultTypes' /\ RowsSound'
  <1>1. memory \in [Memories -> Rows] /\ now \in Nat
    BY Clock DEF IInv, Types
  <1>2. VaultTypes' /\ now' \in Times
    BY <1>1, OwnersTime DEF IInv
  <1>3. VaultMoves
    BY <1>1 DEF VaultMoves, RowMoves
  <1>4. RowsSound'
    <2>1. \A m \in Memories : memory[m].version \in Nat /\ memory[m].relevant \in Nat
                                /\ memory[m].inspected \in Nat
      BY <1>1, RowType
    <2> QED
      BY <1>1, <2>1 DEF IInv, RowsSound, Uninspected
  <1> QED
    BY <1>2, <1>3, <1>4

LEMMA OwnersSave ==
    ASSUME IInv, NEW m \in Memories, NEW row \in Rows, now < MaxTime,
           row.inspected = memory[m].inspected,
           row.relevant \in {memory[m].relevant, now + 1},
           Save(m, row), UNCHANGED <<mode, provider, job, run, proposal, applied, judged>>
    PROVE  IInv'
  <1>1. /\ now' = now + 1 /\ memory \in [Memories -> Rows]
        /\ memory' = [memory EXCEPT ![m] = [row EXCEPT !.version = now + 1]]
    BY DEF Save, IInv, Types
  <1>2. now' \in Times
    <2>1. now \in Nat /\ now + 1 \in 0..MaxTime
      BY Clock, ConstantAssumption DEF IInv, Types
    <2> QED
      BY <1>1, <2>1, Clock
  <1>3. PICK t \in Times : t = now + 1
    BY <1>1, <1>2
  <1>4. PICK new \in Rows : new = [row EXCEPT !.version = t]
    BY <1>3 DEF Rows
  <1>5. /\ memory' = [memory EXCEPT ![m] = new] /\ new.version = now + 1
        /\ new.inspected = row.inspected /\ new.relevant = row.relevant
    BY <1>1, <1>3, <1>4 DEF Rows
  <1>6. VaultMoves /\ RowsSound'
    BY <1>1, <1>5, SaveMoves DEF IInv
  <1>7. memory' \in [Memories -> Rows]
    BY <1>1, <1>5
  <1>8. VaultTypes'
    BY <1>1, <1>7, OwnersTime DEF IInv
  <1> QED
    BY <1>6, <1>8, OwnerStep DEF IInv, Types

LEMMA OwnerSteps ==
    ASSUME IInv,
           \/ Tick
           \/ \E m \in Memories : UpdateMemory(m) \/ DeleteMemory(m)
           \/ \E new \in Modes : UpdateSettings(new)
           \/ \E s \in Systems : SetProvider(s)
    PROVE  IInv'
  <1>1. /\ memory \in [Memories -> Rows] /\ now \in Nat /\ mode \in Modes
        /\ provider \in Systems /\ job \in [Jobs -> JobRows]
    BY Clock DEF IInv, Types
  <1>2. CASE Tick
    BY <1>1, <1>2, QuietOwner, OwnerStep DEF Tick
  <1>3. ASSUME NEW new \in Modes, UpdateSettings(new)
        PROVE  IInv'
    BY <1>1, <1>3, QuietOwner, OwnerStep DEF UpdateSettings
  <1>4. ASSUME NEW s \in Systems, SetProvider(s)
        PROVE  IInv'
    <2>1. VaultMoves /\ VaultTypes' /\ RowsSound'
      BY <1>4, SameVault DEF IInv, SetProvider
    <2> QED
      BY <1>1, <1>4, <2>1, OwnerStep DEF SetProvider
  <1>5. ASSUME NEW m \in Memories, UpdateMemory(m)
        PROVE  IInv'
    <2>1. now < MaxTime /\ UNCHANGED <<mode, provider, job, run, proposal, applied, judged>>
      BY <1>5 DEF UpdateMemory
    <2>2. PICK row : row \in Updates(memory[m]) /\ Save(m, row)
      BY <1>5 DEF UpdateMemory
    <2>3. now + 1 \in Times /\ memory[m] \in Rows
      <3>1. now + 1 \in 0..MaxTime
        BY <1>1, <2>1, ConstantAssumption
      <3> QED
        BY <1>1, <3>1, Clock
    <2>4. /\ row \in Rows /\ row.inspected = memory[m].inspected
          /\ row.relevant \in {memory[m].relevant, now + 1}
      <3>1. PICK old \in Rows : old = memory[m]
        BY <2>3
      <3>2. PICK new \in Rows :
               /\ new.inspected = old.inspected /\ new.relevant = old.relevant
               /\ row = Relevant(new) \/ row = new
        <4>1. /\ \A x \in Contents :
                    /\ [old EXCEPT !.content = x] \in Rows
                    /\ [old EXCEPT !.content = x].inspected = old.inspected
                    /\ [old EXCEPT !.content = x].relevant = old.relevant
              /\ \A t \in 0..MaxTime :
                    /\ [old EXCEPT !.expires = t] \in Rows
                    /\ [old EXCEPT !.expires = t].inspected = old.inspected
                    /\ [old EXCEPT !.expires = t].relevant = old.relevant
          BY Clock DEF Rows
        <4>2. /\ [old EXCEPT !.approved = ~ old.approved] \in Rows
              /\ [old EXCEPT !.approved = ~ old.approved].inspected = old.inspected
              /\ [old EXCEPT !.approved = ~ old.approved].relevant = old.relevant
              /\ \A status \in MemoryStatuses :
                    /\ [old EXCEPT !.status = status] \in Rows
                    /\ [old EXCEPT !.status = status].inspected = old.inspected
                    /\ [old EXCEPT !.status = status].relevant = old.relevant
          BY DEF Rows
        <4>3. {"ACTIVE", "ARCHIVED"} \subseteq MemoryStatuses
          BY DEF MemoryStatuses
        <4>4. row \in Updates(old)
          BY <2>2, <3>1
        <4> QED
          BY <4>1, <4>2, <4>3, <4>4 DEF Updates
      <3>3. /\ Relevant(new) \in Rows /\ Relevant(new).inspected = new.inspected
            /\ Relevant(new).relevant = now + 1
        BY <2>3 DEF Relevant, Rows
      <3> QED
        BY <3>1, <3>2, <3>3
    <2> QED
      BY <2>1, <2>2, <2>4, OwnersSave
  <1>6. ASSUME NEW m \in Memories, DeleteMemory(m)
        PROVE  IInv'
    <2>1. PICK row : row = [memory[m] EXCEPT !.status = "DELETED"]
      OBVIOUS
    <2>2. memory[m] \in Rows
      BY <1>1
    <2>3. /\ row \in Rows /\ row.inspected = memory[m].inspected
          /\ row.relevant = memory[m].relevant
      BY <2>1, <2>2 DEF Rows, MemoryStatuses
    <2>4. Save(m, row)
      BY <1>6, <2>1 DEF DeleteMemory, Save
    <2> QED
      BY <1>6, <2>3, <2>4, OwnersSave DEF DeleteMemory
  <1> QED
    BY <1>2, <1>3, <1>4, <1>5, <1>6

-----------------------------------------------------------------------------
(* A run reads its sources and asks the provider *)

LEMMA BeginStep ==
    ASSUME IInv, NEW j \in Jobs, Begin(j)
    PROVE  IInv'
  <1>1. PICK r : r = [NoRun EXCEPT !.phase = "begun", !.start = now, !.mode = mode,
                                   !.previous = job[j].metadata]
    OBVIOUS
  <1>2. /\ job[j] \in JobRows /\ job[j].metadata \in Metadatas
        /\ job[j].attempts \in 0..MaxAttempts
    BY RunFacts DEF JobRows
  <1>3. r \in Runs
    BY <1>1, <1>2, NoRunType, RunFacts DEF Runs, Working
  <1>4. /\ r.start = now /\ r.recent = <<>> /\ r.expired = <<>> /\ r.actions = <<>>
        /\ r.plan = <<>> /\ r.revision = <<>> /\ r.phase = "begun"
    BY <1>1 DEF NoRun
  <1>5. now <= now
    BY Clock DEF IInv, Types
  <1>6. RunOK(r)
    BY <1>4, <1>5, EmptyRun
  <1>7. run' = [run EXCEPT ![j] = r]
    BY <1>1 DEF Begin, Advance
  <1>8. job[j].attempts + 1 \in 0..MaxAttempts
    BY <1>2, ConstantAssumption DEF Begin
  <1>9. job' \in [Jobs -> JobRows]
    BY <1>2, <1>8, RunFacts DEF Begin, JobRows
  <1> QED
    BY <1>3, <1>6, <1>7, <1>9, QuietRunStep DEF Begin

LEMMA FindSourcesStep ==
    ASSUME IInv, NEW j \in Jobs, FindSources(j)
    PROVE  IInv'
  <1>1. PICK r : r = [run[j] EXCEPT !.phase = "found", !.ids = RecentIds(run[j].start),
                                    !.expiredIds = ExpiredIds(run[j].start)]
    OBVIOUS
  <1>2. run[j] \in Runs /\ RunOK(run[j]) /\ job' \in [Jobs -> JobRows]
    BY RunFacts DEF FindSources
  <1>3. /\ RecentIds(run[j].start) \in SUBSET Memories
        /\ ExpiredIds(run[j].start) \in SUBSET Memories
    BY DEF RecentIds, ExpiredIds
  <1>4. r \in Runs
    BY <1>1, <1>2, <1>3 DEF Runs, Working
  <1>5. RunOK(r)
    BY <1>1, <1>2 DEF Runs, RunOK, CompletedOK
  <1>6. run' = [run EXCEPT ![j] = r]
    BY <1>1 DEF FindSources, Advance
  <1> QED
    BY <1>2, <1>4, <1>5, <1>6, QuietRunStep DEF FindSources

LEMMA SourceTypes ==
    ASSUME IInv, NEW j \in Jobs
    PROVE  SourceIds(j) \in SUBSET Memories /\ Metadata(j) \in Metadatas
  <1>1. /\ run[j].ids \in SUBSET Memories /\ run[j].previous \in Metadatas
        /\ memory \in [Memories -> Rows]
    BY RunFacts DEF Runs
  <1>2. SourceIds(j) \in SUBSET Memories
    BY <1>1 DEF SourceIds
  <1>3. SourceVersions(j) \in {NoSources} \cup SUBSET (Memories \X Times)
    <2>1. {<<m, memory[m].version>> : m \in run[j].ids} \in SUBSET (Memories \X Times)
      <3>1. ASSUME NEW m \in run[j].ids
            PROVE  <<m, memory[m].version>> \in Memories \X Times
        BY <1>1 DEF Rows
      <3> QED
        BY <3>1
    <2>2. run[j].previous.sources \in {NoSources} \cup SUBSET (Memories \X Times)
      BY <1>1 DEF Metadatas
    <2> QED
      BY <2>1, <2>2 DEF SourceVersions
  <1>4. Metadata(j) \in Metadatas
    BY <1>1, <1>3 DEF Metadata, Metadatas
  <1> QED
    BY <1>2, <1>4

\* Snapshots of any memories are sound when they are taken.
LEMMA SnapshotsTaken ==
    ASSUME IInv, NEW S \in SUBSET Memories
    PROVE  /\ [m \in S |-> Snapshot(m)] \in Snapshots
           /\ SnapshotsOK([m \in S |-> Snapshot(m)])
  <1>1. ASSUME NEW m \in S
        PROVE  Snapshot(m) \in Rows /\ SnapshotOK(m, Snapshot(m))
    <2>1. memory[m] \in Rows /\ SnapshotOK(m, memory[m])
      BY RowIsSnapshot DEF IInv, Types
    <2>2. /\ Snapshot(m) \in Rows
          /\ Snapshot(m).version = memory[m].version
          /\ Snapshot(m).content = memory[m].content
          /\ Snapshot(m).expires = memory[m].expires
      BY <2>1, Clock DEF Snapshot, Rows
    <2> QED
      BY <2>1, <2>2 DEF SnapshotOK
  <1>2. [m \in S |-> Snapshot(m)] \in [S -> Rows]
    BY <1>1
  <1>3. SnapshotsOK([m \in S |-> Snapshot(m)])
    BY <1>1 DEF SnapshotsOK
  <1> QED
    BY <1>2, <1>3 DEF Snapshots

LEMMA LoadSourcesStep ==
    ASSUME IInv, NEW j \in Jobs, LoadSources(j)
    PROVE  IInv'
  <1>1. PICK recent, expired, status :
            /\ recent = [m \in SourceIds(j) |-> Snapshot(m)]
            /\ expired = [m \in run[j].expiredIds |-> Snapshot(m)]
            /\ status = IF Cardinality(SourceVersions(j)) = Cardinality(SourceIds(j))
                        THEN "completed" ELSE "partial"
    OBVIOUS
  <1>2. PICK r : r = [run[j] EXCEPT !.phase = "loaded", !.ids = {}, !.expiredIds = {},
                              !.recent = recent, !.expired = expired,
                              !.previous = Metadata(j), !.status = status]
    OBVIOUS
  <1>3. /\ run[j] \in Runs /\ RunOK(run[j]) /\ job[j] \in JobRows
        /\ run[j].expiredIds \in SUBSET Memories
    BY RunFacts DEF Runs
  <1>4. /\ recent \in Snapshots /\ expired \in Snapshots
        /\ SnapshotsOK(recent) /\ SnapshotsOK(expired)
        /\ status \in {"completed", "partial"} /\ Metadata(j) \in Metadatas
    BY <1>1, <1>3, SourceTypes, SnapshotsTaken
  <1>5. r \in Runs
    BY <1>2, <1>3, <1>4 DEF Runs, Working
  <1>6. /\ r.start = run[j].start /\ r.recent = recent /\ r.expired = expired
        /\ r.actions = run[j].actions /\ r.plan = run[j].plan
        /\ r.revision = run[j].revision /\ r.phase = "loaded"
    BY <1>2, <1>3 DEF Runs
  <1>7. RunOK(r)
    BY <1>3, <1>4, <1>6 DEF RunOK, CompletedOK
  <1>8. run' = [run EXCEPT ![j] = r]
    BY <1>1, <1>2 DEF LoadSources, Advance
  <1>9. job' \in [Jobs -> JobRows]
    BY <1>3, <1>4, RunFacts DEF LoadSources, JobRows
  <1> QED
    BY <1>5, <1>7, <1>8, <1>9, QuietRunStep DEF LoadSources

\* A run that did not ask has nothing of the provider's.
LEMMA SkippedIsSound ==
    ASSUME IInv, NEW j \in Jobs
    PROVE  Skipped(j) \in Runs /\ RunOK(Skipped(j))
  <1> DEFINE r == Skipped(j)
  <1>1. run[j] \in Runs /\ RunOK(run[j])
    BY RunFacts
  <1>2. <<>> \in Seq(Actions)
    OBVIOUS
  <1>3. r \in Runs
    BY <1>1, <1>2 DEF Skipped, Runs, Working
  <1>4. /\ r.start = run[j].start /\ r.recent = run[j].recent
        /\ r.expired = run[j].expired /\ r.actions = <<>> /\ r.plan = run[j].plan
        /\ r.revision = run[j].revision /\ r.completed = {}
    BY <1>1 DEF Skipped, Runs
  <1>5. ActionsOK(<<>>)
    BY DEF ActionsOK
  <1> HIDE DEF r
  <1>6. RunOK(r)
    BY <1>1, <1>4, <1>5 DEF RunOK, CompletedOK
  <1> QED
    BY <1>3, <1>6 DEF r

LEMMA AskStep ==
    ASSUME IInv, NEW j \in Jobs, Ask(j)
    PROVE  IInv'
  <1>1. run[j] \in Runs /\ RunOK(run[j]) /\ job' \in [Jobs -> JobRows]
    BY RunFacts DEF Ask
  <1>2. CASE ~ StillSelected(j)
    <2>1. PICK r \in Runs : r = Skipped(j)
      BY SkippedIsSound
    <2>2. RunOK(r) /\ run' = [run EXCEPT ![j] = r]
      BY <1>2, <2>1, SkippedIsSound DEF Ask, Advance
    <2> QED
      BY <1>1, <2>2, QuietRunStep DEF Ask
  <1>3. CASE StillSelected(j)
    <2>1. PICK decisions \in SUBSET Judgments(j) :
            /\ Consistent(decisions)
            /\ Advance(j, "loaded",
                   [run[j] EXCEPT !.phase = "asked", !.actions = SetToSeq(decisions),
                       !.completed = PermittedSources(j)])
      BY <1>3 DEF Ask
    <2>2. PICK actions, completed :
            actions = SetToSeq(decisions) /\ completed = PermittedSources(j)
      OBVIOUS
    <2>3. PICK r : r = [run[j] EXCEPT !.phase = "asked", !.actions = actions,
                                      !.completed = completed]
      OBVIOUS
    <2>4. /\ decisions \subseteq SoundActions /\ completed \subseteq DOMAIN run[j].recent
          /\ \A a, b \in decisions : a # b => a.memory # b.memory
      BY <1>1, <2>1, <2>2, JudgmentsAreSound DEF IInv, Consistent
    <2>5. actions \in Seq(SoundActions)
      BY <2>2, <2>4, SoundSequences, ListOfActions
    <2>6. actions \in Seq(Actions) /\ ActionsOK(actions)
      BY <2>5, SoundSequences
    <2>7. completed \in SUBSET Memories
      <3>1. run[j].recent \in Snapshots
        BY <1>1 DEF Runs
      <3> QED
        BY <2>4, <3>1, RecentRows
    <2>8. r \in Runs
      BY <1>1, <2>3, <2>6, <2>7 DEF Runs, Working
    <2>9. /\ r.start = run[j].start /\ r.recent = run[j].recent
          /\ r.expired = run[j].expired /\ r.actions = actions /\ r.plan = run[j].plan
          /\ r.revision = run[j].revision /\ r.completed = completed /\ r.phase = "asked"
      BY <1>1, <2>3 DEF Runs
    <2>10. RunOK(r)
      BY <1>1, <2>4, <2>6, <2>9 DEF RunOK, CompletedOK
    <2>11. run' = [run EXCEPT ![j] = r]
      BY <2>1, <2>2, <2>3 DEF Advance
    <2> QED
      BY <1>1, <2>8, <2>10, <2>11, QuietRunStep DEF Ask
  <1> QED
    BY <1>2, <1>3

LEMMA AnswerStep ==
    ASSUME IInv, NEW j \in Jobs, Answer(j)
    PROVE  IInv'
  <1>1. /\ run[j] \in Runs /\ RunOK(run[j]) /\ run[j].phase = "asked"
        /\ job' \in [Jobs -> JobRows]
    BY RunFacts DEF Answer
  <1>2. CASE ~ StillSelected(j)
    <2>1. PICK r \in Runs : r = Skipped(j)
      BY SkippedIsSound
    <2>2. RunOK(r) /\ run' = [run EXCEPT ![j] = r]
      BY <1>2, <2>1, SkippedIsSound DEF Answer, Advance
    <2> QED
      BY <1>1, <1>2, <2>2, QuietRunStep DEF Answer
  <1>3. CASE StillSelected(j)
    <2>1. PICK done \in SUBSET run[j].completed, status \in {run[j].status, "partial"} :
            /\ judged' = judged \cup {<<m, run[j].recent[m].relevant>> : m \in done}
            /\ Advance(j, "asked", [run[j] EXCEPT !.phase = "judged", !.completed = done,
                                                 !.status = status])
      BY <1>3 DEF Answer
    <2>2. PICK r : r = [run[j] EXCEPT !.phase = "judged", !.completed = done,
                                      !.status = status]
      OBVIOUS
    <2>3. r \in Runs
      BY <1>1, <2>2 DEF Runs, Working
    <2>4. /\ r.start = run[j].start /\ r.recent = run[j].recent
          /\ r.expired = run[j].expired /\ r.actions = run[j].actions
          /\ r.plan = run[j].plan /\ r.revision = run[j].revision
          /\ r.completed = done /\ r.phase = "judged"
      BY <1>1, <2>2 DEF Runs
    <2>5. VaultMoves /\ VaultTypes' /\ RowsSound'
      BY <2>1, SameVault DEF IInv, Answer
    <2>6. PICK before \in Runs : before = run[j]
      BY <1>1
    <2>7. RunOK(before)'
      BY <1>1, <2>5, <2>6, RunStays
    <2>8. CompletedOK(r)'
      BY <1>1, <2>1, <2>4 DEF RunOK, CompletedOK
    <2>9. /\ r.start = before.start /\ r.recent = before.recent
          /\ r.expired = before.expired /\ r.actions = before.actions
          /\ r.plan = before.plan /\ r.revision = before.revision
      BY <2>4, <2>6
    <2>10. RunOK(r)'
      BY <2>7, <2>8, <2>9 DEF RunOK
    <2>11. run' = [run EXCEPT ![j] = r]
      BY <2>1, <2>2 DEF Advance
    <2>12. run' \in [Jobs -> Runs] /\ RunsSound'
      BY <2>3, <2>5, <2>10, <2>11, RunMoves DEF IInv
    <2>13. ProposalsSound'
      BY <2>5, ProposalsStay DEF IInv, Answer
    <2>14. Types'
      BY <1>1, <2>5, <2>12 DEF IInv, Types, VaultTypes, Answer
    <2> QED
      BY <2>5, <2>12, <2>13, <2>14 DEF IInv
  <1> QED
    BY <1>2, <1>3

-----------------------------------------------------------------------------
(* A run writes its actions *)

LEMMA PlanStep ==
    ASSUME IInv, NEW j \in Jobs, Plan(j)
    PROVE  IInv'
  <1>1. /\ run[j] \in Runs /\ RunOK(run[j]) /\ run[j].phase = "judged"
        /\ job' \in [Jobs -> JobRows]
    BY RunFacts DEF Plan
  <1>2. PICK actions, revision, touched, queued :
            /\ actions = Planned(j)
            /\ revision = [m \in run[j].completed |-> run[j].recent[m].relevant]
            /\ touched = DOMAIN run[j].recent \cup DOMAIN run[j].expired \cup Targets(actions)
            /\ queued = IF run[j].mode = "REVIEW_ONLY" \/ ApplyMode = "review"
                        THEN QueuedTargets ELSE {}
    OBVIOUS
  <1>3. PICK r : r = [run[j] EXCEPT !.phase = "writing", !.plan = actions,
                            !.actions = actions, !.recent = <<>>, !.expired = <<>>,
                            !.revision = revision, !.completed = {}, !.touched = touched,
                            !.queued = queued]
    OBVIOUS
  <1>4. /\ actions \in Seq(Actions) /\ ActionsOK(actions) /\ NoneCompete(actions)
        /\ Targets(actions) \subseteq Memories
    BY <1>1, <1>2, PlannedIsSound DEF IInv
  <1>5. /\ run[j].recent \in Snapshots /\ run[j].expired \in Snapshots
        /\ run[j].completed \in SUBSET Memories
    BY <1>1 DEF Runs
  <1>6. touched \in SUBSET Memories
    BY <1>2, <1>4, <1>5, RecentRows
  <1>7. queued \in SUBSET Memories
    <2>1. QueuedTargets \in SUBSET Memories
      <3>1. ASSUME NEW p \in Proposals, proposal[p].status = "QUEUED_FOR_REVIEW"
            PROVE  proposal[p].action.memory \in Memories
        BY <3>1 DEF IInv, ProposalsSound, Actions
      <3> QED
        BY <3>1 DEF QueuedTargets
    <2> QED
      BY <1>2, <2>1
  <1>8. /\ run[j].completed \subseteq DOMAIN run[j].recent
        /\ \A m \in run[j].completed : <<m, run[j].recent[m].relevant>> \in judged
    BY <1>1 DEF RunOK, CompletedOK
  <1>9. revision \in Revisions /\ WereJudged(revision)
    <2>1. \A m \in run[j].completed : run[j].recent[m].relevant \in Times
      BY <1>5, <1>8, RecentRows DEF Rows
    <2>2. revision \in [run[j].completed -> Times]
      BY <1>2, <2>1
    <2>3. WereJudged(revision)
      BY <1>2, <1>8 DEF WereJudged
    <2> QED
      BY <1>5, <2>2, <2>3 DEF Revisions
  <1>10. r \in Runs
    <2>1. <<>> \in Snapshots
      BY NoRunType DEF NoRun, Runs
    <2> QED
      BY <1>1, <1>3, <1>4, <1>6, <1>7, <1>9, <2>1 DEF Runs, Working
  <1>11. /\ r.start = run[j].start /\ r.recent = <<>> /\ r.expired = <<>>
         /\ r.actions = actions /\ r.plan = actions /\ r.revision = revision
         /\ r.phase = "writing"
    BY <1>1, <1>3 DEF Runs
  <1>12. SnapshotsOK(<<>>)
    BY DEF SnapshotsOK
  <1>13. RunOK(r)
    BY <1>1, <1>4, <1>9, <1>11, <1>12 DEF RunOK, CompletedOK
  <1>14. run' = [run EXCEPT ![j] = r]
    BY <1>2, <1>3 DEF Plan, Advance, Planned
  <1> QED
    BY <1>1, <1>10, <1>13, <1>14, QuietRunStep DEF Plan

\* The first action and those that remain.
LEMMA NextAction ==
    ASSUME IInv, NEW j \in Jobs, run[j].actions # <<>>
    PROVE  /\ Head(run[j].actions) \in Actions /\ ActionOK(Head(run[j].actions))
           /\ Rest(j) \in Runs
           /\ run[j].phase = "writing" => RunOK(Rest(j))
           /\ Rest(j).queued = run[j].queued
  <1> DEFINE actions == run[j].actions
             rest == Rest(j)
  <1>1. run[j] \in Runs /\ RunOK(run[j]) /\ actions \in Seq(Actions) /\ ActionsOK(actions)
    BY RunFacts DEF Runs, RunOK
  <1>2. Head(actions) \in Actions /\ Head(actions) = actions[1] /\ 1 \in DOMAIN actions
    BY <1>1
  <1>3. /\ Tail(actions) \in Seq(Actions)
        /\ \A i \in DOMAIN Tail(actions) : i + 1 \in DOMAIN actions
                                            /\ Tail(actions)[i] = actions[i + 1]
    BY <1>1
  <1>4. ActionsOK(Tail(actions))
    BY <1>1, <1>3 DEF ActionsOK
  <1>5. rest \in Runs
    BY <1>1, <1>3 DEF Rest, Runs
  <1>6. /\ rest.start = run[j].start /\ rest.recent = run[j].recent
        /\ rest.expired = run[j].expired /\ rest.actions = Tail(actions)
        /\ rest.plan = run[j].plan /\ rest.revision = run[j].revision
        /\ rest.phase = run[j].phase /\ rest.queued = run[j].queued
    BY <1>1 DEF Rest, Runs
  <1>7. ActionOK(Head(actions))
    BY <1>1, <1>2 DEF ActionsOK
  <1> HIDE DEF rest
  <1>8. run[j].phase = "writing" => RunOK(rest)
    BY <1>1, <1>4, <1>6 DEF RunOK, CompletedOK
  <1> QED
    BY <1>2, <1>5, <1>6, <1>7, <1>8 DEF rest

LEMMA SkipActionStep ==
    ASSUME IInv, NEW j \in Jobs, SkipAction(j)
    PROVE  IInv'
  <1>1. run[j].actions # <<>> /\ run[j].phase = "writing"
    BY DEF SkipAction, Advance
  <1>2. PICK r \in Runs : r = Rest(j)
    BY <1>1, NextAction
  <1>3. RunOK(r) /\ run' = [run EXCEPT ![j] = r] /\ job' \in [Jobs -> JobRows]
    BY <1>1, <1>2, NextAction, RunFacts DEF SkipAction, Advance
  <1> QED
    BY <1>3, QuietRunStep DEF SkipAction

\* A new proposal names what the run read.
LEMMA CreateArchiveSuggestionStep ==
    ASSUME IInv, NEW j \in Jobs, CreateArchiveSuggestion(j)
    PROVE  IInv'
  <1>1. run[j].actions # <<>> /\ run[j].phase = "writing"
    BY DEF CreateArchiveSuggestion, Advance
  <1>2. PICK a \in Actions : a = Head(run[j].actions) /\ ActionOK(a)
    BY <1>1, NextAction
  <1>3. PICK rest \in Runs : rest = Rest(j) /\ RunOK(rest) /\ rest.queued \in SUBSET Memories
    BY <1>1, NextAction DEF Runs
  <1>4. PICK r : r = [rest EXCEPT !.queued = run[j].queued \cup {a.memory}]
    OBVIOUS
  <1>5. a.memory \in Memories /\ run[j].queued \in SUBSET Memories
    BY <1>2, RunFacts DEF Actions, Runs
  <1>6. r \in Runs
    BY <1>3, <1>4, <1>5 DEF Runs
  <1>7. /\ r.start = rest.start /\ r.recent = rest.recent /\ r.expired = rest.expired
        /\ r.actions = rest.actions /\ r.plan = rest.plan /\ r.revision = rest.revision
        /\ r.phase = rest.phase /\ r.completed = rest.completed
    BY <1>3, <1>4 DEF Runs
  <1>8. RunOK(r)
    BY <1>3, <1>7 DEF RunOK, CompletedOK
  <1>9. run' = [run EXCEPT ![j] = r]
    BY <1>2, <1>3, <1>4 DEF CreateArchiveSuggestion, Advance
  <1>10. VaultMoves /\ VaultTypes' /\ RowsSound'
    BY SameVault DEF IInv, CreateArchiveSuggestion
  <1>11. RunOK(r)' /\ ActionOK(a)'
    BY <1>2, <1>6, <1>8, <1>10, RunStays, ActionStays
  <1>12. run' \in [Jobs -> Runs] /\ RunsSound'
    BY <1>6, <1>9, <1>10, <1>11, RunMoves DEF IInv
  <1>13. PICK p \in Proposals :
            proposal' = [proposal EXCEPT ![p] = [status |-> "QUEUED_FOR_REVIEW",
                                                action |-> a]]
    BY <1>2 DEF CreateArchiveSuggestion
  <1>14. proposal \in [Proposals -> ProposalRows]
    BY DEF IInv, Types
  <1>15. proposal' \in [Proposals -> ProposalRows]
    BY <1>13, <1>14 DEF ProposalRows
  <1>16. ASSUME NEW q \in Proposals, proposal'[q].status # "NONE"
         PROVE  proposal'[q].action \in Actions /\ ActionOK(proposal[q].action)'
    <2>1. CASE q = p
      <3>1. proposal'[q].action = a
        BY <2>1, <1>13, <1>14
      <3> QED
        BY <3>1, <1>11
    <2>2. CASE q # p
      <3>1. proposal'[q] = proposal[q]
        BY <2>2, <1>13, <1>14
      <3> QED
        BY <3>1, <1>10, <1>16, ProposalStays DEF IInv
    <2> QED
      BY <2>1, <2>2
  <1>17. ProposalsSound'
    BY <1>16 DEF ProposalsSound
  <1>18. Types'
    BY <1>10, <1>12, <1>15 DEF IInv, Types, VaultTypes, CreateArchiveSuggestion
  <1> QED
    BY <1>10, <1>12, <1>17, <1>18 DEF IInv

-----------------------------------------------------------------------------
(* An archival *)

LEMMA ApplyActionMoves ==
    ASSUME IInv, NEW a \in Actions, NEW actor \in Jobs \cup {"OWNER"},
           memory[a.memory].status = "ACTIVE", ApplyAction(a, actor), judged' = judged
    PROVE  VaultMoves /\ VaultTypes' /\ RowsSound' /\ applied' \in Entries \cup {None}
  <1>1. PICK m \in Memories : m = a.memory
    BY DEF Actions
  <1>2. /\ memory \in [Memories -> Rows] /\ memory[m] \in Rows /\ now \in Nat
        /\ now' = now + 1
    BY <1>1, Clock DEF IInv, Types, ApplyAction, Save
  <1>3. now + 1 \in Times
    <2>1. /\ now + Cardinality(Active) <= MaxTime + Cardinality(Memories)
          /\ Cardinality(Active) \in Nat /\ IsFiniteSet(Active) /\ m \in Active
      BY <1>1, <1>2, ActiveCount DEF IInv, Types, Active
    <2>2. Cardinality(Active) # 0
      BY <2>1, FS_EmptySet
    <2> QED
      BY <1>2, <2>1, <2>2, Clock DEF Times
  <1>4. Archived(a) \in {"EXPIRED", "ARCHIVED"}
    BY DEF Archived
  <1>5. PICK time \in Times : time = now + 1
    BY <1>3
  <1>6. PICK row : row = [[memory[m] EXCEPT !.status = Archived(a)] EXCEPT !.version = time]
    OBVIOUS
  <1>7. /\ row \in Rows /\ row.version = now + 1 /\ row.status # "ACTIVE"
        /\ row.inspected = memory[m].inspected /\ row.relevant = memory[m].relevant
    BY <1>2, <1>4, <1>5, <1>6 DEF Rows, MemoryStatuses
  <1>8. memory' = [memory EXCEPT ![m] = row]
    BY <1>1, <1>5, <1>6 DEF ApplyAction, Save
  <1>9. VaultMoves /\ RowsSound'
    BY <1>2, <1>7, <1>8, SaveMoves DEF IInv
  <1>10. VaultTypes'
    BY <1>1, <1>2, <1>7, <1>8, ArchivalsTime DEF IInv
  <1>11. applied' \in Entries
    BY <1>3 DEF ApplyAction, Entries
  <1> QED
    BY <1>9, <1>10, <1>11

\* What the action names is still there: it was, and no version is used twice.
LEMMA ArchivalIsSound ==
    ASSUME IInv, NEW a \in Actions, ActionOK(a), NEW actor,
           memory[a.memory].status = "ACTIVE", memory[a.memory].version = a.version,
           a.canonical # None => /\ memory[a.canonical].version = a.canonicalVersion
                                 /\ Permitted(memory[a.canonical]),
           Semantic(a) /\ actor # "OWNER" => StillSelected(actor),
           ApplyAction(a, actor)
    PROVE  Justified(applied')
  <1>1. /\ a.memory \in Memories /\ memory \in [Memories -> Rows]
        /\ applied'.action = a /\ applied'.actor = actor
    BY DEF ApplyAction, Actions, IInv, Types
  <1>2. memory[a.memory].content = a.content
    BY DEF ActionOK, WasRead
  <1>3. a.reason = "expired" => Expired(memory[a.memory])
    BY DEF ActionOK
  <1>4. ASSUME a.reason # "expired"
        PROVE  /\ a.canonical # a.memory /\ Permitted(memory[a.canonical])
               /\ memory'[a.canonical] = memory[a.canonical]
               /\ memory[a.canonical].content = a.canonicalContent
    <2>1. a.canonical \in Memories /\ a.canonical # a.memory /\ a.canonical # None
      BY <1>4, ConstantAssumption DEF ActionOK
    <2>2. memory[a.canonical].content = a.canonicalContent
      BY <1>4, <2>1 DEF ActionOK, WasRead
    <2>3. memory'[a.canonical] = memory[a.canonical]
      BY <1>1, <2>1 DEF ApplyAction, Save
    <2> QED
      BY <2>1, <2>2, <2>3
  <1>5. a.reason = "exact_duplicate" => memory[a.canonical].content = memory[a.memory].content
    BY <1>2, <1>4 DEF ActionOK
  <1> QED
    BY <1>1, <1>2, <1>3, <1>4, <1>5 DEF Justified

LEMMA ArchiveCandidateStep ==
    ASSUME IInv, NEW j \in Jobs, ArchiveCandidate(j)
    PROVE  IInv' /\ Justified(applied')
  <1>1. run[j].actions # <<>> /\ run[j].phase = "writing"
    BY DEF ArchiveCandidate, Advance
  <1>2. PICK a \in Actions : a = Head(run[j].actions) /\ ActionOK(a)
    BY <1>1, NextAction
  <1>3. PICK r \in Runs : r = Rest(j) /\ RunOK(r)
    BY <1>1, NextAction
  <1>4. /\ run' = [run EXCEPT ![j] = r] /\ CandidateStillValid(j, a) /\ ApplyAction(a, j)
        /\ UNCHANGED <<mode, provider, job, proposal, judged>>
    BY <1>2, <1>3 DEF ArchiveCandidate, Advance
  <1>5. VaultMoves /\ VaultTypes' /\ RowsSound' /\ applied' \in Entries \cup {None}
    BY <1>4, ApplyActionMoves DEF CandidateStillValid
  <1>6. RunOK(r)'
    BY <1>3, <1>5, RunStays
  <1>7. run' \in [Jobs -> Runs] /\ RunsSound'
    BY <1>4, <1>5, <1>6, RunMoves DEF IInv
  <1>8. ProposalsSound'
    BY <1>4, <1>5, ProposalsStay DEF IInv
  <1>9. Types'
    BY <1>4, <1>5, <1>7 DEF IInv, Types, VaultTypes
  <1>10. Justified(applied')
    BY <1>2, <1>4, ArchivalIsSound DEF CandidateStillValid
  <1> QED
    BY <1>5, <1>7, <1>8, <1>9, <1>10 DEF IInv

LEMMA ApplyArchiveSuggestionStep ==
    ASSUME IInv, NEW p \in Proposals, ApplyArchiveSuggestion(p)
    PROVE  IInv' /\ Justified(applied')
  <1>1. /\ proposal \in [Proposals -> ProposalRows]
        /\ proposal[p].status = "QUEUED_FOR_REVIEW"
    BY DEF IInv, Types, ApplyArchiveSuggestion
  <1>2. PICK a \in Actions : a = proposal[p].action /\ ActionOK(a)
    BY <1>1 DEF IInv, ProposalsSound
  <1>3. /\ memory[a.memory].status = "ACTIVE" /\ memory[a.memory].version = a.version
        /\ a.canonical # None => /\ memory[a.canonical].version = a.canonicalVersion
                                 /\ Permitted(memory[a.canonical])
        /\ ApplyAction(a, "OWNER")
        /\ proposal' = [proposal EXCEPT ![p].status = "APPLIED"]
        /\ UNCHANGED <<mode, provider, job, run, judged>>
    BY <1>2 DEF ApplyArchiveSuggestion
  <1>4. VaultMoves /\ VaultTypes' /\ RowsSound' /\ applied' \in Entries \cup {None}
    BY <1>3, ApplyActionMoves
  <1>5. /\ proposal' \in [Proposals -> ProposalRows]
        /\ \A q \in Proposals :
              /\ proposal'[q].action = proposal[q].action
              /\ proposal[q].status = "NONE" => proposal'[q].status = "NONE"
    BY <1>1, <1>3 DEF ProposalRows
  <1>6. RunsSound'
    BY <1>3, <1>4, OtherRunsStay DEF IInv, RunsSound
  <1>7. ProposalsSound'
    BY <1>4, <1>5, ProposalsStay DEF IInv
  <1>8. Types'
    BY <1>3, <1>4, <1>5 DEF IInv, Types, VaultTypes
  <1>9. Justified(applied')
    BY <1>2, <1>3, ArchivalIsSound
  <1> QED
    BY <1>4, <1>6, <1>7, <1>8, <1>9 DEF IInv

LEMMA RejectSuggestionStep ==
    ASSUME IInv, NEW p \in Proposals, RejectSuggestion(p)
    PROVE  IInv'
  <1>1. proposal \in [Proposals -> ProposalRows]
    BY DEF IInv, Types
  <1>2. /\ proposal' \in [Proposals -> ProposalRows]
        /\ \A q \in Proposals :
              /\ proposal'[q].action = proposal[q].action
              /\ proposal[q].status = "NONE" => proposal'[q].status = "NONE"
    BY <1>1 DEF RejectSuggestion, ProposalRows
  <1>3. VaultMoves /\ VaultTypes' /\ RowsSound'
    BY SameVault DEF IInv, RejectSuggestion
  <1>4. RunsSound'
    BY <1>3, OtherRunsStay DEF IInv, RunsSound, RejectSuggestion
  <1>5. ProposalsSound'
    BY <1>2, <1>3, ProposalsStay DEF IInv
  <1>6. Types'
    BY <1>2, <1>3 DEF IInv, Types, VaultTypes, RejectSuggestion
  <1> QED
    BY <1>3, <1>4, <1>5, <1>6 DEF IInv

-----------------------------------------------------------------------------
(* A run records what it inspected, and ends *)

\* The stamps of consolidation change no version.
LEMMA StampStep ==
    ASSUME IInv, NEW j \in Jobs, NEW r \in Runs, RunOK(r), run' = [run EXCEPT ![j] = r],
           memory' \in [Memories -> Rows], RowsSound',
           \A m \in Memories : /\ memory'[m].version = memory[m].version
                               /\ memory'[m].content = memory[m].content
                               /\ memory'[m].expires = memory[m].expires
                               /\ memory'[m].status = memory[m].status,
           UNCHANGED <<now, mode, provider, job, proposal, applied, judged>>
    PROVE  IInv'
  <1>1. VaultMoves
    BY Clock DEF IInv, Types, VaultMoves, RowMoves
  <1>2. VaultTypes'
    <2>1. Active' = Active
      BY DEF Active
    <2> QED
      BY <2>1 DEF IInv, Types, VaultTypes
  <1>3. run' \in [Jobs -> Runs] /\ RunsSound'
    BY <1>1, RunStays, RunMoves DEF IInv
  <1>4. ProposalsSound'
    BY <1>1, ProposalsStay DEF IInv
  <1>5. Types'
    BY <1>2, <1>3 DEF IInv, Types, VaultTypes
  <1> QED
    BY <1>3, <1>4, <1>5 DEF IInv

LEMMA MarkConsolidatedStep ==
    ASSUME IInv, NEW j \in Jobs, MarkConsolidated(j)
    PROVE  IInv'
  <1>1. PICK r : r = [run[j] EXCEPT !.phase = "inspecting", !.plan = <<>>,
                                    !.touched = {}, !.queued = {}]
    OBVIOUS
  <1>2. run[j] \in Runs /\ RunOK(run[j]) /\ run[j].start \in Times
    BY RunFacts DEF Runs
  <1>3. <<>> \in Seq(Actions) /\ NoneCompete(<<>>)
    <2>1. <<>> \in Seq(Actions) /\ DOMAIN <<>> = {}
      OBVIOUS
    <2> QED
      BY <2>1 DEF NoneCompete
  <1>4. r \in Runs
    BY <1>1, <1>2, <1>3 DEF Runs, Working
  <1>5. /\ r.start = run[j].start /\ r.recent = run[j].recent
        /\ r.expired = run[j].expired /\ r.actions = run[j].actions /\ r.plan = <<>>
        /\ r.revision = run[j].revision /\ r.phase = "inspecting"
    BY <1>1, <1>2 DEF Runs
  <1>6. RunOK(r)
    BY <1>2, <1>3, <1>5 DEF RunOK, CompletedOK
  <1>7. run' = [run EXCEPT ![j] = r]
    BY <1>1 DEF MarkConsolidated, Advance
  <1>8. ASSUME NEW m \in Memories
        PROVE  /\ memory'[m] \in Rows
               /\ memory'[m].version = memory[m].version
               /\ memory'[m].content = memory[m].content
               /\ memory'[m].expires = memory[m].expires
               /\ memory'[m].status = memory[m].status
               /\ memory'[m].relevant = memory[m].relevant
               /\ memory'[m].inspected = memory[m].inspected
    <2>1. memory[m] \in Rows
      BY RunFacts
    <2>2. memory'[m] = IF m \in run[j].touched
                       THEN [memory[m] EXCEPT !.consolidated = run[j].start] ELSE memory[m]
      BY DEF MarkConsolidated
    <2> QED
      BY <1>2, <2>1, <2>2 DEF Rows
  <1>9. memory' \in [Memories -> Rows]
    BY <1>8 DEF MarkConsolidated
  <1>10. RowsSound'
    BY <1>8 DEF IInv, RowsSound, Uninspected, MarkConsolidated
  <1> QED
    BY <1>4, <1>6, <1>7, <1>8, <1>9, <1>10, StampStep DEF MarkConsolidated

\* Only the revision the provider judged is stamped.
LEMMA MarkInspectedStep ==
    ASSUME IInv, NEW j \in Jobs, MarkInspected(j)
    PROVE  IInv'
  <1>1. PICK r : r = [run[j] EXCEPT !.phase = "finishing",
                            !.status = IF StillSelected(j) THEN run[j].status ELSE "partial"]
    OBVIOUS
  <1>2. /\ run[j] \in Runs /\ RunOK(run[j]) /\ run[j].start \in Times
        /\ run[j].start <= now
    BY RunFacts DEF Runs, RunOK
  <1>3. r \in Runs
    BY <1>1, <1>2 DEF Runs, Working
  <1>4. /\ r.start = run[j].start /\ r.recent = run[j].recent
        /\ r.expired = run[j].expired /\ r.actions = run[j].actions
        /\ r.plan = run[j].plan /\ r.revision = run[j].revision /\ r.phase = "finishing"
    BY <1>1, <1>2 DEF Runs
  <1>5. RunOK(r)
    BY <1>2, <1>4 DEF RunOK, CompletedOK
  <1>6. run' = [run EXCEPT ![j] = r]
    BY <1>1 DEF MarkInspected, Advance
  <1>7. ASSUME NEW m \in Memories
        PROVE  /\ memory'[m] \in Rows
               /\ memory'[m].version = memory[m].version
               /\ memory'[m].content = memory[m].content
               /\ memory'[m].expires = memory[m].expires
               /\ memory'[m].status = memory[m].status
               /\ memory'[m].relevant = memory[m].relevant
               /\ \/ memory'[m].inspected = memory[m].inspected
                  \/ /\ memory'[m].inspected <= now
                     /\ <<m, memory[m].relevant>> \in judged
    <2>1. memory[m] \in Rows
      BY RunFacts
    <2>2. memory'[m] = IF /\ StillSelected(j)
                          /\ m \in DOMAIN run[j].revision
                          /\ memory[m].relevant = run[j].revision[m]
                       THEN [memory[m] EXCEPT !.inspected = run[j].start] ELSE memory[m]
      BY DEF MarkInspected
    <2>3. CASE memory'[m] = memory[m]
      BY <2>1, <2>3
    <2>4. CASE /\ m \in DOMAIN run[j].revision
               /\ memory[m].relevant = run[j].revision[m]
               /\ memory'[m] = [memory[m] EXCEPT !.inspected = run[j].start]
      <3>1. <<m, memory[m].relevant>> \in judged
        BY <1>2, <2>4 DEF RunOK, WereJudged
      <3> QED
        BY <1>2, <2>1, <2>4, <3>1 DEF Rows
    <2> QED
      BY <2>2, <2>3, <2>4
  <1>8. memory' \in [Memories -> Rows]
    BY <1>7 DEF MarkInspected
  <1>9. RowsSound'
    BY <1>7 DEF IInv, RowsSound, Uninspected, MarkInspected
  <1> QED
    BY <1>3, <1>5, <1>6, <1>7, <1>8, <1>9, StampStep DEF MarkInspected

LEMMA EndSteps ==
    ASSUME IInv, NEW j \in Jobs, Finish(j) \/ Fail(j) \/ Crash(j)
    PROVE  IInv'
  <1>1. /\ run[j] \in Runs /\ job[j] \in JobRows /\ job \in [Jobs -> JobRows]
        /\ run[j].previous \in Metadatas
    BY RunFacts DEF Runs
  <1>2. PICK phase \in {"waiting", "ended"} : run' = [run EXCEPT ![j] = [NoRun EXCEPT !.phase = phase]]
    BY DEF Finish, Fail, Crash, Advance
  <1>3. PICK r \in Runs : r = [NoRun EXCEPT !.phase = phase]
    BY RestingRun
  <1>4. RunOK(r) /\ run' = [run EXCEPT ![j] = r]
    BY <1>2, <1>3, RestingRun
  <1>5. job' \in [Jobs -> JobRows]
    BY <1>1 DEF Finish, Fail, Crash, JobRows
  <1> QED
    BY <1>4, <1>5, QuietRunStep DEF Finish, Fail, Crash

-----------------------------------------------------------------------------
(* The theorems *)

LEMMA InitHolds ==
    Init => IInv
  <1> SUFFICES ASSUME Init PROVE IInv
    OBVIOUS
  <1>1. /\ 1 \in Times /\ 0 \in Times /\ 0 \in Nat /\ 1 \in Nat
        /\ MaxTime \in Nat /\ MaxTime >= 1 /\ Cardinality(Memories) \in Nat
    BY Clock, ConstantAssumption
  <1>2. ASSUME NEW m \in Memories
        PROVE  /\ memory[m] \in Rows /\ memory[m].version = 1 /\ memory[m].relevant = 1
               /\ memory[m].inspected = 0
    BY <1>1, ConstantAssumption, Clock DEF Init, Rows, MemoryStatuses
  <1>3. memory \in [Memories -> Rows]
    BY <1>2 DEF Init
  <1>4. now = 1 /\ now + Cardinality(Active) <= MaxTime + Cardinality(Memories)
    BY <1>1, <1>3, ActiveCount DEF Init
  <1>5. NoRun \in Runs /\ NoJob \in JobRows /\ NoProposal \in ProposalRows
    BY NoRunType DEF NoProposal, ProposalRows
  <1>6. RunOK(NoRun)
    BY <1>1, <1>4, EmptyRun DEF NoRun
  <1>7. Types
    BY <1>1, <1>3, <1>4, <1>5, ConstantAssumption DEF Init, Types, Modes
  <1>8. RowsSound
    BY <1>1, <1>2, <1>4 DEF RowsSound, Uninspected
  <1>9. RunsSound /\ ProposalsSound
    BY <1>6 DEF Init, RunsSound, ProposalsSound, NoProposal
  <1> QED
    BY <1>7, <1>8, <1>9 DEF IInv

\* Every step keeps the invariant, and archives only with reason.
LEMMA StepHolds ==
    ASSUME IInv, [Next]_vars
    PROVE  IInv' /\ (applied' # applied => Justified(applied'))
  <1>1. CASE UNCHANGED vars
    <2>1. VaultMoves /\ VaultTypes' /\ RowsSound'
      BY <1>1, SameVault DEF IInv, vars
    <2> QED
      BY <1>1, <2>1, OwnerStep DEF vars, IInv, Types
  <1>2. CASE \/ Tick
             \/ \E m \in Memories : UpdateMemory(m) \/ DeleteMemory(m)
             \/ \E new \in Modes : UpdateSettings(new)
             \/ \E s \in Systems : SetProvider(s)
    <2>1. applied' = applied
      BY <1>2 DEF Tick, UpdateMemory, DeleteMemory, UpdateSettings, SetProvider
    <2> QED
      BY <1>2, <2>1, OwnerSteps
  <1>3. ASSUME NEW j \in Jobs,
               \/ Scheduled(j) \/ Enqueue(j) \/ \E i \in Jobs : RetryJob(j, i)
               \/ RecordQueued(j)
        PROVE  IInv' /\ applied' = applied
    <2>1. applied' = applied
      BY <1>3 DEF Scheduled, Enqueue, RetryJob, RecordQueued, CreateJob
    <2> QED
      BY <1>3, <2>1, JobSteps, RecordQueuedStep
  <1>4. ASSUME NEW j \in Jobs, Work(j)
        PROVE  IInv' /\ (applied' # applied => Justified(applied'))
    <2>1. CASE Begin(j)
      BY <2>1, BeginStep DEF Begin
    <2>2. CASE FindSources(j)
      BY <2>2, FindSourcesStep DEF FindSources
    <2>3. CASE LoadSources(j)
      BY <2>3, LoadSourcesStep DEF LoadSources
    <2>4. CASE Ask(j)
      BY <2>4, AskStep DEF Ask
    <2>5. CASE Answer(j)
      BY <2>5, AnswerStep DEF Answer
    <2>6. CASE Plan(j)
      BY <2>6, PlanStep DEF Plan
    <2>7. CASE ArchiveCandidate(j)
      BY <2>7, ArchiveCandidateStep
    <2>8. CASE CreateArchiveSuggestion(j)
      BY <2>8, CreateArchiveSuggestionStep DEF CreateArchiveSuggestion
    <2>9. CASE SkipAction(j)
      BY <2>9, SkipActionStep DEF SkipAction
    <2>10. CASE MarkConsolidated(j)
      BY <2>10, MarkConsolidatedStep DEF MarkConsolidated
    <2>11. CASE MarkInspected(j)
      BY <2>11, MarkInspectedStep DEF MarkInspected
    <2>12. CASE Finish(j)
      BY <2>12, EndSteps DEF Finish
    <2> QED
      BY <1>4, <2>1, <2>2, <2>3, <2>4, <2>5, <2>6, <2>7, <2>8, <2>9, <2>10, <2>11, <2>12
      DEF Work
  <1>5. ASSUME NEW j \in Jobs, Fail(j) \/ Crash(j)
        PROVE  IInv' /\ applied' = applied
    <2>1. applied' = applied
      BY <1>5 DEF Fail, Crash
    <2> QED
      BY <1>5, <2>1, EndSteps
  <1>6. ASSUME NEW p \in Proposals, ApplyArchiveSuggestion(p)
        PROVE  IInv' /\ Justified(applied')
    BY <1>6, ApplyArchiveSuggestionStep
  <1>7. ASSUME NEW p \in Proposals, RejectSuggestion(p)
        PROVE  IInv' /\ applied' = applied
    BY <1>7, RejectSuggestionStep DEF RejectSuggestion
  <1> QED
    BY <1>1, <1>2, <1>3, <1>4, <1>5, <1>6, <1>7 DEF Next

\* Whatever the owner does while jobs run, fail and are retried, the rows, the runs,
\* what they hold of the vault, and the proposals stay sound.
THEOREM Invariance == Spec => []IInv
  <1>1. IInv /\ [Next]_vars => IInv'
    BY StepHolds
  <1> QED
    BY <1>1, InitHolds, PTL DEF Spec

\* The rows, jobs, runs and proposals keep their types, and the clock its bound.
THEOREM TypeCorrect == Spec => []TypeOK
  <1>1. IInv => TypeOK
    <2> SUFFICES ASSUME IInv PROVE TypeOK
      OBVIOUS
    <2>1. ASSUME NEW j \in Jobs
          PROVE  /\ job[j].status \in {"NONE", "QUEUED", "RUNNING", "SUCCEEDED", "FAILED"}
                 /\ job[j].attempts \in 0..MaxAttempts
                 /\ run[j].phase \in {"none", "waiting", "ended"} \cup Working
                 /\ run[j].plan \in Seq(Actions) /\ run[j].actions \in Seq(Actions)
                 /\ run[j].start <= now
      BY RunFacts DEF JobRows, Runs, RunOK
    <2>2. ASSUME NEW p \in Proposals
          PROVE  /\ proposal[p].status \in
                        {"NONE", "QUEUED_FOR_REVIEW", "APPLIED", "REJECTED"}
                 /\ proposal[p].status # "NONE" => proposal[p].action \in Actions
      BY DEF IInv, Types, ProposalRows, ProposalsSound
    <2>3. applied = None \/ applied.action \in Actions
      BY DEF IInv, Types, Entries
    <2> QED
      BY <2>1, <2>2, <2>3 DEF IInv, Types, TypeOK
  <1> QED
    BY <1>1, Invariance, PTL

\* What one run plans never archives a memory twice, nor one that another of its
\* actions keeps; and no memory is hidden from later runs in a revision that the
\* provider has not judged (dedupeCandidates, the update of semanticInspectedAt).
THEOREM RunsStaySound == Spec => []RunsAreSound
  <1>1. IInv => RunsAreSound
    <2> SUFFICES ASSUME IInv PROVE RunsAreSound
      OBVIOUS
    <2>1. DOMAIN run = Jobs /\ DOMAIN memory = Memories
      BY DEF IInv, Types
    <2>2. NoCompetingActions
      BY <2>1 DEF IInv, RunsSound, RunOK, NoneCompete, NoCompetingActions
    <2>3. InspectedWasJudged
      BY <2>1 DEF IInv, RowsSound, InspectedWasJudged
    <2> QED
      BY <2>2, <2>3 DEF RunsAreSound
  <1> QED
    BY <1>1, Invariance, PTL

\* Whatever happened between the moment a run read its memories and the moment it,
\* or the owner on its proposal, archives one, the reason it gave is still true
\* (candidateStillValid, applyArchiveSuggestion).
THEOREM ArchivalsAreJustified == Spec => ArchivalIsJustified
  <1>1. IInv /\ [Next]_vars => [applied' # applied => Justified(applied')]_vars
    BY StepHolds
  <1> QED
    BY <1>1, Invariance, PTL DEF Spec, ArchivalIsJustified
=============================================================================

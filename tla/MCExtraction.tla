---------------------------- MODULE MCExtraction ----------------------------
(* Instances of Extraction for TLC. *)
EXTENDS Extraction, TLC

\* Calls, turns and providers are interchangeable.
Symmetric ==
    Permutations(Calls) \cup Permutations(Sources) \cup Permutations(Systems)
        \cup Permutations(Candidates)

\* Every candidate is of one of these kinds, and each kind occurs.
Turns(kinds) ==
    {f \in [Candidates -> kinds] : \A k \in kinds : \E c \in Candidates : f[c] = k}

\* A turn states one claim twice; a claim and a correction; or something
\* unclear and a retraction, of which the provider did not read all.
Mixed ==
    [kind: Turns({"eligible"}) \cup Turns({"eligible", "correction"}), partial: {FALSE}]
    \cup [kind: Turns({"unclear", "retraction"}), partial: {TRUE}]

\* Both candidates have the same body.
SameText == [c \in Candidates |-> "t"]

\* What the owner may make a memory say.
SaidWords == {"t", "u"}

(* Bounds *)

\* What is searched or changed for a turn is noted while the turn has a candidate
\* to reconcile.
NotesMatter ==
    \A s \in Sources : tools'[s] # tools[s] =>
        \E c \in Candidates : run[s].pending[c] \in Reconcilable

\* An upgrade meets runs that are not finished.
UpgradesMatter ==
    \A s \in Sources :
        run[s].status \in Done => run'[s].configuration = run[s].configuration

\* A memory is edited while it is live, or as it is restored.
EditsMatter == \A r \in Records : words'[r] # words[r] => record'[r] = "memory"

\* The owner edits or restores one of the memories, any number of times.
OneIsTheirs == Cardinality(theirs') <= 1
=============================================================================

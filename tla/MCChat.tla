------------------------------- MODULE MCChat -------------------------------
(* An instance of Chat for TLC. *)
EXTENDS Chat, TLC

Symmetric == Permutations(Requests) \cup Permutations(Submissions) \cup Permutations(Texts)
                \cup Permutations(Memories) \cup Permutations(Tabs)
=============================================================================

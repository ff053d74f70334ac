------------------------------ MODULE MCOAuth -------------------------------
(* Instances of OAuth for TLC. *)
EXTENDS OAuth, TLC

\* Calls, requests, codes and pairs are interchangeable: each is a fresh id, and
\* nothing orders them.
Symmetric ==
    UNION {Permutations(ids) : ids \in {Calls, AuthRequests, Codes, Pairs}}

ReadOnly == {{"memory.read"}}
ReadOrBoth == {{"memory.read"}, {"memory.read", "memory.suggest"}}
NoOperations == {{}}
NoInputs == {}
=============================================================================

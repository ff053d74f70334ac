----------------------------- MODULE MCCaptures -----------------------------
(* An instance of Captures for TLC: every capture is of the first owner, and *)
(* the second one signs in on the same device.                               *)
EXTENDS Captures, TLC

CONSTANT o1

OfFirst == [c \in Captures |-> o1]

Symmetric ==
    Permutations(Pages) \cup Permutations(Deliveries) \cup Permutations(Suggestions)
        \cup Permutations(Reviews)
=============================================================================

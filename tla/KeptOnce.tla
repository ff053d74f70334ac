------------------------------ MODULE KeptOnce ------------------------------
(***************************************************************************)
(* What the owner is promised about the claims a turn makes, whatever the  *)
(* retries, restarts and overlapping calls behind it: a turn is read once  *)
(* and as a whole; of each claim it either becomes a record, is left open, *)
(* or is dropped, and that is final but for the open ones and for the      *)
(* records the owner refuses; a claim becomes a record only while no       *)
(* record is seen to say the same.  Who is about to write looks first, and *)
(* may miss what the owner changes meanwhile.  A record that is removed    *)
(* comes back only by the owner's hand, one that is refused never does.    *)
(***************************************************************************)
CONSTANTS
    Turns, Claims,
    Words,     \* what a record may say
    Text       \* what a claim says

VARIABLES
    fate,      \* fate[t][c]: what has become of claim c of turn t
    kept,      \* the records there are, each the turn and the claim it is from
    words,     \* what each says
    theirs,    \* the records the owner has edited or restored
    looking,   \* whether someone is about to write
    missed     \* the records the owner has edited or restored since they looked

promiseVars == <<fate, kept, words, theirs, looking, missed>>

Fates == {"unread", "open", "kept", "dropped"}

Look ==
    /\ ~ looking
    /\ looking' = TRUE
    /\ UNCHANGED <<fate, kept, words, theirs, missed>>

LookAway ==
    /\ looking
    /\ looking' = FALSE /\ missed' = {}
    /\ UNCHANGED <<fate, kept, words, theirs>>

\* The new records say what no other record was seen to say.
Write(new) ==
    /\ looking
    /\ \A q \in (kept \ missed) \cup new, r \in new : words[q] = words[r] => q = r
    /\ kept' = kept \cup new
    /\ looking' = FALSE /\ missed' = {}
    /\ UNCHANGED <<words, theirs>>

Read(t) ==
    /\ \A c \in Claims : fate[t][c] = "unread"
    /\ \E f \in [Claims -> Fates \ {"unread"}] :
          /\ Write({t} \X {c \in Claims : f[c] = "kept"})
          /\ fate' = [fate EXCEPT ![t] = f]

\* An open claim is settled.
KeepOpen(t, c) ==
    /\ fate[t][c] = "open"
    /\ Write({<<t, c>>})
    /\ fate' = [fate EXCEPT ![t][c] = "kept"]

DropOpen(t, c) ==
    /\ fate[t][c] = "open"
    /\ Write({})
    /\ fate' = [fate EXCEPT ![t][c] = "dropped"]

\* The owner refuses a record.
Refuse(t, c) ==
    /\ <<t, c>> \in kept
    /\ fate[t][c] = "kept"
    /\ fate' = [fate EXCEPT ![t][c] = "dropped"]
    /\ kept' = kept \ {<<t, c>>}
    /\ UNCHANGED <<words, theirs, looking, missed>>

\* A record is removed, or edited while it is not there.
Remove(t, c, said) ==
    /\ fate[t][c] = "kept"
    /\ kept' = kept \ {<<t, c>>}
    /\ words' = [words EXCEPT ![<<t, c>>] = said]
    /\ UNCHANGED <<fate, theirs, looking, missed>>

\* The owner edits or restores one.
Change(t, c, said) ==
    /\ fate[t][c] = "kept"
    /\ kept' = kept \cup {<<t, c>>}
    /\ words' = [words EXCEPT ![<<t, c>>] = said]
    /\ theirs' = theirs \cup {<<t, c>>}
    /\ missed' = IF looking THEN missed \cup {<<t, c>>} ELSE missed
    /\ UNCHANGED <<fate, looking>>

Init ==
    /\ fate = [t \in Turns |-> [c \in Claims |-> "unread"]]
    /\ kept = {} /\ theirs = {} /\ missed = {}
    /\ words = [r \in Turns \X Claims |-> Text[r[2]]]
    /\ looking = FALSE

Next ==
    \/ Look \/ LookAway
    \/ \E t \in Turns : Read(t)
    \/ \E t \in Turns, c \in Claims :
          \/ KeepOpen(t, c) \/ DropOpen(t, c) \/ Refuse(t, c)
          \/ \E said \in Words : Remove(t, c, said) \/ Change(t, c, said)

Spec == Init /\ [][Next]_promiseVars
=============================================================================

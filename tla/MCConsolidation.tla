-------------------------- MODULE MCConsolidation --------------------------
(***************************************************************************)
(* Two instances of Consolidation for TLC, over the same variables: in      *)
(* "overlap", the one the constants describe, two jobs run at once and are  *)
(* not tried again; in "retry" one job, over three memories, is.            *)
(***************************************************************************)
EXTENDS Consolidation

CONSTANTS RetryMemories, RetryJobs, RetrySystems, RetryExpiry

VARIABLE scenario

Retry ==
    INSTANCE Consolidation WITH
        Memories <- RetryMemories, Jobs <- RetryJobs, Systems <- RetrySystems,
        ApplyMode <- "user_setting", Triggers <- {"manual"},
        MaxAttempts <- 2, MaxTime <- 1, InitialExpiry <- RetryExpiry,
        InitialApproved <- {TRUE, FALSE}, InitialModes <- {"AUTO_APPLY"}

EitherInit ==
    \/ scenario = "overlap" /\ Init
    \/ scenario = "retry" /\ Retry!Init

EitherNext ==
    \/ scenario = "overlap" /\ Next /\ UNCHANGED scenario
    \/ scenario = "retry" /\ Retry!Next /\ UNCHANGED scenario

EitherSpec == EitherInit /\ [][EitherNext]_<<scenario, vars>>

Symmetric ==
    Permutations(Jobs) \cup Permutations(Contents) \cup Permutations(RetrySystems)

-----------------------------------------------------------------------------

\* The rows, jobs and runs keep their types.
TypesHold == IF scenario = "overlap" THEN TypeOK ELSE Retry!TypeOK
=============================================================================

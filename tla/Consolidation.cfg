SPECIFICATION EitherSpec
CONSTANTS
  Memories = {1, 2}
  Contents = {x, y}
  Jobs = {j1, j2}
  Proposals = {p1}
  Systems = {s1}
  ApplyMode = "review"
  Triggers = {"scheduled"}
  Window = 1
  MaxAttempts = 1
  MaxTime = 2
  InitialExpiry = {0}
  InitialApproved = {TRUE}
  InitialModes = {"AUTO_APPLY"}
  RetryMemories = {1, 2, 3}
  RetryJobs = {j3}
  RetrySystems = {s2, s3}
  RetryExpiry = {0, 1}
  None = None
INVARIANTS TypesHold RunsAreSound
PROPERTIES ArchivalIsJustified
SYMMETRY Symmetric
CHECK_DEADLOCK FALSE

SPECIFICATION Spec
CONSTANTS
  Categories = {}
  Memories = {m1}
  Clients = {c1}
  Requests = {r1}
  Calls = {k1, k2}
  Profiles = {p1}
  ClientInputs <- ApprovedOrBlocked
  MemoryInputs <- OrdinaryOrSensitive
  PolicyInputs <- ConfirmedOrNarrow
  Tokens <- OneTokenEach
  Budget = 2
  ApprovalTtl = 2
  MaxTime = 3
INVARIANTS TypeOK TrailEnds RowsAgree
PROPERTIES GrantIsWhatWasShown AuthorityIsCurrent
SYMMETRY CallSymmetry
CHECK_DEADLOCK FALSE

SPECIFICATION FairSpec
CONSTANTS
  Categories = {health}
  Memories = {m1}
  Clients = {c1}
  Requests = {r1}
  Calls = {k1, k2}
  Profiles = {p1}
  ClientInputs <- ApprovedOnly
  MemoryInputs <- InCategory
  PolicyInputs <- ConfirmedOrDenied
  Tokens <- OneTokenEach
  Budget = 1
  ApprovalTtl = 1
  MaxTime = 2
PROPERTIES CallsFinish
CHECK_DEADLOCK FALSE

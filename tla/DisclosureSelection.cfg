SPECIFICATION Spec
CONSTANTS
  Categories = {}
  Memories = {m1, m2}
  Clients = {c1, c2}
  Requests = {r1}
  Calls = {k1}
  Profiles = {p1}
  ClientInputs <- ApprovedOnly
  MemoryInputs <- LiveOrDeleted
  PolicyInputs <- OpenOrConfirmed
  Tokens <- OneTokenEach
  Budget = 2
  ApprovalTtl = 2
  MaxTime = 3
INVARIANT DisclosureWasGranted
PROPERTY KeepsPromise
SYMMETRY SubjectSymmetry
CHECK_DEADLOCK FALSE

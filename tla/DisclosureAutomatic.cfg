SPECIFICATION Spec
CONSTANTS
  Categories = {}
  Memories = {m1}
  Clients = {c1}
  Requests = {r1}
  Calls = {k1}
  Profiles = {p1}
  ClientInputs <- ApprovedOnly
  MemoryInputs <- LiveOrDeleted
  PolicyInputs <- OpenOrConfirmed
  Tokens <- OneTokenEach
  Budget = 1
  ApprovalTtl = 1
  MaxTime = 3
PROPERTIES AutomaticDisclosureIsPermitted
CHECK_DEADLOCK FALSE

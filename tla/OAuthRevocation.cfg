SPECIFICATION Spec
CONSTANTS
  Registrations = {g1}
  AuthRequests = {q1}
  Codes = {c1}
  Pairs = {p1, p2, p3}
  Calls = {k1, k2}
  None = None
  ScopeInputs <- ReadOnly
  RefreshInputs <- ReadOnly
  TrustInputs = {"BLOCKED"}
  OperationInputs <- NoInputs
  MaxPending = 1
  MaxRows = 1
SYMMETRY Symmetric
INVARIANTS RevocationIsComplete
CHECK_DEADLOCK FALSE

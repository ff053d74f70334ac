SPECIFICATION Spec
CONSTANTS
  Registrations = {g1}
  AuthRequests = {q1}
  Codes = {c1, c2}
  Pairs = {p1, p2}
  Calls = {k1, k2}
  None = None
  ScopeInputs <- ReadOnly
  RefreshInputs <- ReadOrBoth
  TrustInputs = {"APPROVED"}
  OperationInputs <- NoOperations
  MaxPending = 1
  MaxRows = 2
SYMMETRY Symmetric
INVARIANTS TypeOK CodeExchangedOnce TokensStayWithGrant ScopesWithinConsent
CHECK_DEADLOCK FALSE

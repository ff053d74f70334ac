SPECIFICATION Spec
CONSTANTS
  Sources = {s1}
  Candidates = {c1, c2}
  Words <- SaidWords
  Text <- SameText
  Systems = {x1, x2}
  Calls = {k1, k2}
  DefaultAccess = "SUGGEST"
  AccessInputs = {"ABSENT", "WRITE"}
  Answers <- Mixed
  None = None
INVARIANTS TypeOK ClaimsAndCandidates StoredOnceAndShown
PROPERTIES OutcomeIsSettled KeepsPromise
ACTION_CONSTRAINTS NotesMatter UpgradesMatter EditsMatter OneIsTheirs
SYMMETRY Symmetric
CHECK_DEADLOCK FALSE

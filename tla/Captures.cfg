SPECIFICATION Spec
CONSTANTS
  o1 = o1
  Captures = {c1}
  Owners = {o1, o2}
  OwnerOf <- OfFirst
  Pages = {t1, t2}
  Deliveries = {d1, d2}
  Suggestions = {s1, s2}
  Reviews = {k1, k2}
  None = None
INVARIANTS TypeOK CapturesAreSafe
SYMMETRY Symmetric
CHECK_DEADLOCK FALSE

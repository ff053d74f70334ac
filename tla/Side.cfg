SPECIFICATION Spec
CONSTANTS
  None = None
  Rows = {r1, r2}
  Apps = {a1, a2}
  Files = {f1}
  Imports = {i1}
  MaxCopies = 2
  MaxDepth = 1
  MaxJobs = 2
  MaxEdits = 2
  Texts = {plain, other}
  other = other
  FirstTexts = {plain}
  Requests = {q1, q2}
  Runs = {j1, j2}
  Patches <- AllPatches
  MaxVersion = 2
  MaxDeliveries = 2
  Browsers = {b1, b2}
  Attempts = {l1, l2}
  Callbacks = {k1, k2}
  Subjects = {s1, s2}
  Emails = {e1, e2}
  Users = {u1, u2}
  Sessions = {x1, x2}
  Tokens = {t1, t2}
  Addresses = {ip}
  SessionIds = {d1}
  Calls = {h1}
  Ttl = 1
  Window = 1
  RateMax = 1
  PreAuthMax = 3
  MaxClock = 2
  Categories = {}
  Submissions = {n1}
  Contents <- TwoContents
  Terms <- FourTerms
  MaxVersions = 4
  Clients = {c1, c2}
  FirstParty = {c1}
  Present = {c1}
  PermCalls = {p1}
  MaxPolicies = 2
  Asks = {w1, w2}
  Offered = {o1, o2}
  Eligible <- OfferedAtFirst
  w1 = w1
  Changes <- OfferedLater
  MaxRevision = 1
  Memories = {m1, m2}
  Nowhere = Nowhere
  Kept = {y1}
  Proposed = {z1}
  Turns = {v1}
  Topics = {g1}
  ToolCalls = {tc1}
  MaxLength = 2
  Examined = 1
  Proposals <- OneFlaw
  Opinions <- OneDoubt
  Tabs = {tab1, tab2}
INVARIANTS TransferSound IndexSound LoginsSound McpSound IntakeSound PagesSound
PROPERTIES StepsSound
CHECK_DEADLOCK FALSE

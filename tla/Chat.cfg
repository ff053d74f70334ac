SPECIFICATION Spec
CONSTANTS
    None = None
    Tabs = {t1}
    Requests = {q1, q2}
    Submissions = {s1, s2}
    Texts = {x1, x2}
    Memories = {m1, m2}
    MaxThreads = 2
    MaxLog = 3
    TitleLimit = 2
INVARIANTS TypeOK TurnsAreStored ConversationsHold
SYMMETRY Symmetric

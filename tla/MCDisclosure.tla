---------------------------- MODULE MCDisclosure ----------------------------
EXTENDS Disclosure, TLC

Content(status, rank, categories) ==
    [status |-> status, reviewState |-> "APPROVED", expiresAt |-> Null,
     sensitivity |-> rank, categories |-> categories]
Terms(rank, confirm, denied) ==
    [operations |-> {"READ"}, maxSensitivity |-> rank, allowed |-> {},
     denied |-> denied, requiresConfirmation |-> confirm, expiresAt |-> Null]

\* A memory is saved as ordinary or as sensitive; the policy covers both, or
\* ordinary ones only.
OrdinaryOrSensitive == {Content("ACTIVE", 1, {}), Content("ACTIVE", 3, {})}
ConfirmedOrNarrow == {Terms(3, TRUE, {}), Terms(1, TRUE, {})}

\* A memory is live or deleted; the policy discloses outright or asks.
LiveOrDeleted == {Content("ACTIVE", 1, {}), Content("DELETED", 1, {})}
OpenOrConfirmed == {Terms(1, FALSE, {}), Terms(1, TRUE, {})}

\* The policy denies the memory's category, or asks.
InCategory == {Content("ACTIVE", 1, Categories)}
ConfirmedOrDenied == {Terms(1, TRUE, {}), Terms(1, TRUE, Categories)}

ApprovedOrBlocked == [trust: {"APPROVED", "BLOCKED"}, profile: Profiles]
ApprovedOnly == [trust: {"APPROVED"}, profile: Profiles]

CallSymmetry == Permutations(Calls)

\* No definition orders memories or clients either: retrieval ranks any way.
SubjectSymmetry == Permutations(Clients) \cup Permutations(Memories)

OneTokenEach == [m \in Memories |-> 1]
=============================================================================

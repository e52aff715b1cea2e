SPECIFICATION FairSpec

CONSTANTS
    SpaceIds = {s1}
    IssueIds = {i1, i2}
    Callers = {c1, c2, c3}
    RETRY_ISSUE_ID_COLLISIONS = 2
    TRANSACT_RETRY_ATTEMPTS = 2

INVARIANTS
    TypeOK
    CountExact
    NoHomelessIssue

PROPERTY
    Returns

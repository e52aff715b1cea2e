SPECIFICATION Spec

CONSTANTS
    issue = issue
    comment = comment
    Rows = {issue}
    Kind <- OneIssue
    Callers = {c1, c2}
    TRANSACT_RETRY_ATTEMPTS = 2
    MaxEditions = 5
    MaxLost = 1

INVARIANTS
    TypeOK
    RetriedBeforeConflict

PROPERTIES
    FencedIsFresh
    StaleIsStale

\* Writes are bounded: when they are spent, and the row is gone, nothing is left.
CHECK_DEADLOCK FALSE

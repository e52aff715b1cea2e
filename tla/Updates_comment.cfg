SPECIFICATION Spec

CONSTANTS
    issue = issue
    comment = comment
    Rows = {comment}
    Kind <- OneComment
    Callers = {c1}
    TRANSACT_RETRY_ATTEMPTS = 2
    MaxEditions = 3
    MaxLost = 0

INVARIANTS
    RetriedBeforeConflict

\* Writes are bounded: when they are spent, and the row is gone, nothing is left.
CHECK_DEADLOCK FALSE

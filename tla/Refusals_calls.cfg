SPECIFICATION Spec

CONSTANTS
    TRANSACT_RETRY_ATTEMPTS = 2
    RETRY_ISSUE_ID_COLLISIONS = 2
    MaxChanges = 2
    MaxLost = 1

INVARIANTS
    TypeOK
    ErrorsAreTrue
    NothingUnexplained
    RefusedChangedNothing

\* A behaviour is one call, and ends when it has returned.
CHECK_DEADLOCK FALSE

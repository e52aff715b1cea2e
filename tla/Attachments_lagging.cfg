SPECIFICATION Spec

CONSTANTS
    Comments = {c1}
    Attachments = {a1}
    Unlinked = none
    Callers = {d1}
    Workers = {w1}
    MaxReuse = 1
    MaxFaults = 1

INVARIANTS
    TypeOK
    CountsExact
    NoStrandedRow
    LadderSuffices

PROPERTIES
    DeletesUnlessMissed

\* Ids are used once: when the Issue and its rows are gone the system stops.
CHECK_DEADLOCK FALSE


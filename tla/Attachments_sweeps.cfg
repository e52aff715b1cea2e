SPECIFICATION FairSpec

CONSTANTS
    Comments = {c1}
    Attachments = {a1}
    Unlinked = none
    Callers = {}
    Workers = {w1, w2}
    MaxReuse = 0
    MaxFaults = 1

INVARIANTS
    UploadedHasObject
    NoStrandedObject

PROPERTIES
    RowsGo
    ObjectsGo

\* Ids are used once: when the Issue and its rows are gone the system stops.
CHECK_DEADLOCK FALSE

SPECIFICATION Spec

CONSTANTS
    a = a
    b = b
    c = c
    Issues = {a, b}
    Links <- OneLink
    Statuses = {"TODO", "BLOCKED", "DONE"}
    Workers = {w1}
    MaxReuse = 0
    MaxFaults = 0

INVARIANTS
    MarksEveryBlocker

\* Deleted ids run out: a system whose Issues are all gone does stop.
CHECK_DEADLOCK FALSE

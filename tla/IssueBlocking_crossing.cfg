SPECIFICATION FairSpec

CONSTANTS
    a = a
    b = b
    c = c
    Issues = {a, b}
    Links <- OneLink
    Statuses = {"TODO", "BLOCKED", "DONE"}
    Workers = {w1, w2}
    MaxReuse = 0
    MaxFaults = 0

PROPERTIES
    Woken
    Settled
    Swept

\* Deleted ids run out: a system whose Issues are all gone does stop.
CHECK_DEADLOCK FALSE

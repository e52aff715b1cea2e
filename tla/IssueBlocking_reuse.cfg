SPECIFICATION Spec

CONSTANTS
    a = a
    b = b
    c = c
    Issues = {a, b}
    Links <- CycleLinks
    Statuses = {"TODO", "BLOCKED", "DONE"}
    Workers = {w1}
    MaxReuse = 1
    MaxFaults = 1

SYMMETRY BlockersSymmetry

INVARIANTS
    CountedIsBlocked
    NoOrphanRow

\* Deleted ids run out: a system whose Issues are all gone does stop.
CHECK_DEADLOCK FALSE

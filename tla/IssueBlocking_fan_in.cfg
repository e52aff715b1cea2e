SPECIFICATION Spec

CONSTANTS
    a = a
    b = b
    c = c
    Issues = {a, b, c}
    Links <- FanInLinks
    Statuses = {"TODO", "BLOCKED", "DONE"}
    Workers = {w1}
    MaxReuse = 0
    MaxFaults = 1

SYMMETRY BlockersSymmetry

INVARIANTS
    TypeOK
    CounterExact
    BlockedWhileHeld
    SatisfiedMeansDone
    NoForgottenBlocker
    NoOrphanRow
    NoLostWakeup

PROPERTIES
    DoneIsFinal
    ImplementsBlockedIssues

\* Deleted ids run out: a system whose Issues are all gone does stop.
CHECK_DEADLOCK FALSE

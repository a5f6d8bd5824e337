SPECIFICATION Spec
CONSTANTS
    Request = {r1, r2, r3}
    Fingerprint = {f1, f2}
    RETENTION = 4
    STALE_AFTER = 2
    MaxRun = 1
    MaxTime = 6
SYMMETRY Symmetry
\* Every request has been answered and no other arrives: the system rests.
CHECK_DEADLOCK FALSE
INVARIANTS
    ExecutedOnce
    CompletedSticks
PROPERTY ImplementsOncePerPeriod

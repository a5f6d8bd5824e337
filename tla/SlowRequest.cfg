SPECIFICATION Spec
CONSTANTS
    Request = {r1, r2, r3}
    Fingerprint = {f1}
    RETENTION = 6
    STALE_AFTER = 2
    MaxRun = 3
    MaxTime = 5
INVARIANT ExecutedOnce

SPECIFICATION Spec
CONSTANTS
    Consumer = {k1, k2}
    MaxEvents = 2
    MAX_ATTEMPTS = 3
    MAX_BACKOFF = 3
    MaxTries = 0
    MaxCrashes = 1
INVARIANTS
    DeliveredOnce
PROPERTY EventuallySettled
\* Once every event is settled the system rests.
CHECK_DEADLOCK FALSE

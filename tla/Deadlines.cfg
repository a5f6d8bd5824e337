SPECIFICATION Spec
CONSTANTS
    Commitment = {c1}
    DailyAction = {}
    DayLen = 1
    WindowDays = 2
    Window = 2
    Offsets = {0, 1}
    Thresholds = {70}
    MaxTime = 5
    MaxDay = 6
INVARIANTS
    TypeOK
    LedgerReplays
    RedeferralsExplained
PROPERTIES
    ResolvedRowsFrozen
    NoLateRescue
    FullExplanationWindow
    SweepSettles

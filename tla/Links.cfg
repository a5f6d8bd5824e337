SPECIFICATION Spec
CONSTANTS
    Commitment = {c1}
    DailyAction = {a1, a2}
    DayLen = 1
    WindowDays = 2
    Window = 1
    Offsets = {0}
    Thresholds = {70}
    MaxTime = 3
    MaxDay = 2

    
PROPERTIES
    SatisfactionResolves

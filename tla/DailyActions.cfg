SPECIFICATION Spec
CONSTANTS
  Action = {a1, a2}
  Task = {t1}
  Habit = {h1}
  Priority <- Priorities
  Zone <- Zones
  Slots = 3
  SleepSlot = 2
  Times <- ThreeTimes
  MaxTime = 2
  MaxEdits = 3
  Outcome = {"partial", "skipped"}
  ByHand = {"open"}
  Overlap = FALSE
SYMMETRY ActionSymmetry
INVARIANTS CheckinsInOrder HistoryReplays WallClockKept RecordAgrees
PROPERTIES ActedIsNotMoved DueStaysInView
CHECK_DEADLOCK FALSE

SPECIFICATION Spec
CONSTANTS
  Subject = {"habit", "day", "listing", "period", "goal"}
  Week = 2
  Habits <- SomeHabits
  MaxDate = 4
  Outcome = {"completed", "skipped"}
  WINDOW = 3
  MIN_GAP = 2
  Minute = 5
  Block = {1, 2, 3}
  Row = {1, 2, 3, 4}
  Key = {0, 1}
  Limits = {1, 2}
  MaxEdits = 2
  Action = {a1, a2}
  Slots = 2
  MaxTime = 4
  Objective = {o1, o2}
  Request = {r1, r2, r3, r4}
  NewRow <- SomeRows
  Change <- SomeChanges
INVARIANTS StreaksAreRuns AnalysisByTheMinute EveryRowOnce StatusReplays
PROPERTIES StreakLostByMissing  UpdateRepairs
SYMMETRY ActionSymmetry
CHECK_DEADLOCK FALSE

SPECIFICATION Spec
CONSTANTS
  Goal = {g1}
  Habit = {h1}
  Template = {t1}
  Entry = {e1}
  w1 = w1
  w2 = w2
  Generator = {w1, w2}
  Dates <- TwoGenerations
  GoalOf <- OneGoal
  Week = 2
  Slots = 1
  HabitSlot = 0
  EntrySlot = 0
  HabitDays = {{0, 1}}
  RoutineDays = {{0, 1}, {1}}
  NoHabit = none
  NoTemplate = none
  MaxTime = 1
  MaxEdits = 3
INVARIANTS OneActive NeverRegenerated PausedDaysEmpty
PROPERTY DueIsGenerated
CHECK_DEADLOCK FALSE

SPECIFICATION Spec
CONSTANTS
  Occurrence = {1, 2, 3, 4, 5, 6}
  DayOf <- OneADay
  Process = {p1}
  Pausable = FALSE
  MaxDay = 6
  WINDOW_DAYS = 4
  LOOKBACK_DAYS = 5
  CHALLENGE_SKIPS = 2
  REFLECTION_SKIPS = 3
  PATTERN_RUN = 3
  RECOVERY_DAYS = 2
PROPERTY Idempotent


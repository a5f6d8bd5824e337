SPECIFICATION Spec
CONSTANTS
  Occurrence = {1, 2, 3}
  DayOf <- OneADay
  Process = {p1, p2}
  Pausable = TRUE
  MaxDay = 3
  WINDOW_DAYS = 3
  LOOKBACK_DAYS = 3
  CHALLENGE_SKIPS = 1
  REFLECTION_SKIPS = 2
  PATTERN_RUN = 3
  RECOVERY_DAYS = 1
INVARIANTS ReflectionGate OneReflection  NoStaleFlag

SYMMETRY ProcessSymmetry

SPECIFICATION Spec
CONSTANTS
  Session = {s1}
  Validator = {v1, v2}
  Refresher = {r1, r2}
  CacheTtl = 2
  AccessTtl = 5
  RefreshTtl = 3
  MaxDelay = 1
  MaxTokens = 4
  MaxTime = 6
SYMMETRY RequestSymmetry
INVARIANTS  RotatedOnce
PROPERTY EndedIsFinal

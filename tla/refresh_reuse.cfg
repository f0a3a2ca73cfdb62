SPECIFICATION Spec
CONSTANTS
  Request = {r1, r2}
  Token = {t1, t2, t3}
  Family = {f1}
  NULL = NULL
  RefreshTTL = 1
  MaxClock = 0
  Faults = FALSE
SYMMETRY Symmetry
INVARIANTS ReuseMeansFamilyRevoked

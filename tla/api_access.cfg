SPECIFICATION ApiFairSpec
CONSTANTS
  Request = {r1, r2}
  Token = {t1, t2, t3}
  Family = {f1}
  NULL = NULL
  RefreshTTL = 2
  AccessTTL = 1
  MaxClock = 1
  Faults = FALSE
INVARIANTS LogoutRevokesToken AccessEndsWithFamily
PROPERTIES EveryRequestAnswered

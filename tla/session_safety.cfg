SPECIFICATION Spec
CONSTANTS
  Request = {r1, r2}
  Token = {t1, t2}
  NULL = NULL
  SessionTTL = 4
  TouchAfter = 2
  MaxClock = 5
  Faults = TRUE
SYMMETRY Symmetry
INVARIANTS Consistent NoEntryAfterLogout AbsoluteLifetime LogoutDeletesSession
PROPERTIES SignOutHasACause

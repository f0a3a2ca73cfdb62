SPECIFICATION Spec
CONSTANTS
  Call = {c1, c2, c3}
  Key = {k1, k2}
  NULL = NULL
  Limit = 2
  Window = 2
  MaxStale = 1
  MaxClock = 6
SYMMETRY Symmetry
INVARIANTS RetryAfterBounded ForgottenIsOver
PROPERTIES ImplementsFixedWindow

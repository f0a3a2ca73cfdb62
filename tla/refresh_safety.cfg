SPECIFICATION Spec
CONSTANTS
  Request = {r1, r2}
  Token = {t1, t2, t3}
  Family = {f1, f2}
  NULL = NULL
  RefreshTTL = 1
  MaxClock = 2
  Faults = TRUE
SYMMETRY Symmetry
INVARIANTS OneLiveToken OneChain RotatedInTime ReuseRevokesWhatItSaw
PROPERTIES HistoryIsFinal ImplementsTokenFamily

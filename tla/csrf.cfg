SPECIFICATION Spec
CONSTANTS
  Tab = {w1, w2}
  Token = {t1, t2, t3, t4, t5, t6}
  NULL = NULL
  MaxFaults = 2
INVARIANTS RefusedForACause
PROPERTIES FormGetsThrough

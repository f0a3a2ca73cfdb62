SPECIFICATION Spec
CONSTANTS
  UNSET = UNSET
  BAD = BAD
  NULL = NULL
  Second = 2
  Half64 = 16
  Half32 = 4
  DefaultTTL <- TTLDefaults
  DefaultShutdown = 2
  DefaultConns = 2
  DriverConns = 3
  Envs <- SmallEnvs
  Request = {r1, r2}
  RequestTimeout = 2
  MaxClock = 3
INVARIANTS AcceptedConfigIsUsable CutOffOnlyAtTheLimit CleanExitMeansAnswered
PROPERTIES StopsOnSignal ConnectionIsGivenBack
CHECK_DEADLOCK FALSE

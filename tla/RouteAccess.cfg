SPECIFICATION RouteSpec
CONSTANTS
  r1 = r1
  r2 = r2
  PageRequest <- OneRequest
  DrainTimeout = 1
  FinalTimeout = 2
  MaxRoutes = 4
  MaxQueue = 2
  MaxTime = 0
INVARIANT ReadyHoldsAccess
CHECK_DEADLOCK FALSE

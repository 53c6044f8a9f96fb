CONSTANTS
  Attempt = {i1, i2}
  Adaptive = {}
  MaxConcurrency = 2
  BaseDelay = 1
  MaxDelay = 2
  RetryAfter = {0, 2}
  QuotaWindow = {1, 3}
  StreakLength = 2
  MaxTime = 3
  MaxRevision = 4
  MaxDynamic = 3
SPECIFICATION Spec
SYMMETRY Symmetry
CHECK_DEADLOCK FALSE
PROPERTY MergeReplaysNothing

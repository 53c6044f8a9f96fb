CONSTANTS
  s1 = s1
  s2 = s2
  q1 = q1
  q2 = q2
  NoSource = NoSource
  Source = {s1, s2}
  Call = {q1, q2}
  Mixes <- MCMixes
  Relay = {s2}
  Native = {s1}
  Portable = {s1, s2}
  Metered = {s2}
  RetryLimit = 1
  AdaptiveLimit = 1
  TransientLimit = 1
  SameFailures = 2
  MaxAttempts = 2
  MaxChain = 2
  MaxFailures = 1
  MaxStarts = 2
  Request = {r1, r2, r3}
  MaxActive = 2
  Interval = 1
  FailureThreshold = 2
  BaseDefer = 2
  MaxDefer = 3
  MaxTime = 3
SPECIFICATION WorkSpec
INVARIANTS AttemptsBounded OneExecution RunningHasExecution ShutdownStops
PROPERTIES NothingAfterOutput LastSourceSpared RequestEnds
PROPERTIES FinalStaysFinal NoneStaysPaused LateHandlerResumes
INVARIANTS SlotsKept AdmissionsSpaced
PROPERTIES CallSettles
CHECK_DEADLOCK FALSE

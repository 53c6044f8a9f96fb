CONSTANTS
  Probe = {p1}
  Cancellable = {}
  NoProbe = NoProbe
  Unobserved = Unobserved
  MaxReports = 1
  MaxStrikes = 0
SPECIFICATION ProbeSpec
CHECK_DEADLOCK FALSE
PROPERTY TelemetryRevivesNothing

SPECIFICATION Spec
CONSTANTS
  Key = {k1}
  Thread = {t1, t2}
  ConsecutiveFailuresThreshold = 2
  RatioWindowSize = 4
  RatioMinSamples = 3
  OpenCooldown = 2
  HalfOpenProbeSuccesses = 2
  MaxClock = 5
  MaxObservations = 7
  MaxLost = 1
  MaxRestarts = 1
INVARIANTS
  WindowIsRecent
  FailuresAreCounted
  ProbesAreCounted
  AuditTrailBalances
PROPERTIES
  RecoveryNeedsProbes
CHECK_DEADLOCK FALSE

SPECIFICATION CheckedFairSpec
CONSTANTS
  Thread = {t1, t2}
  TaskID = {k1}
  RoutingID = {r1}
  PolicyID = {p1}
  WorkflowID = {w1}
  ApprovalID = {a1}
  Nil = Nil
  TaskAttr <- MCDeployment
  PolicyAction = {"shell_execution"}
  MaxAttempts = 2
  MaxRequests = 3
  MaxFaults = 0
  ChildAttr <- MCChildAttr
  Strategies <- MCStrategies
  PolicyOutcome <- MCOutcome
PROPERTIES
  ResolutionReleasesGate
CHECK_DEADLOCK FALSE

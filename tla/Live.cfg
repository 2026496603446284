SPECIFICATION CheckedFairSpec
CONSTANTS
  Thread = {t1}
  TaskID = {k1}
  RoutingID = {r1}
  PolicyID = {p1, p2}
  WorkflowID = {w1}
  ApprovalID = {a1, a2}
  Nil = Nil
  TaskAttr <- MCWork
  PolicyAction = {"shell_execution", "data_deletion"}
  MaxAttempts = 2
  MaxRequests = 5
  MaxFaults = 1
  ChildAttr <- MCChildAttr
  Strategies <- MCStrategies
  PolicyOutcome <- MCOutcome
PROPERTIES
  ResolutionReleasesGate
  LeaseLeadsToExecution
CHECK_DEADLOCK FALSE

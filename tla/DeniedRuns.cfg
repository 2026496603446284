SPECIFICATION Spec
CONSTANTS
  Thread = {t1}
  TaskID = {k1}
  RoutingID = {r1}
  PolicyID = {p1, p2}
  WorkflowID = {w1}
  ApprovalID = {a1}
  Nil = Nil
  TaskAttr <- MCBugfix
  PolicyAction = {"shell_execution", "data_deletion"}
  MaxAttempts = 2
  MaxRequests = 6
  MaxFaults = 0
  ChildAttr <- MCChildAttr
  Strategies <- MCStrategies
  PolicyOutcome <- MCOutcome
INVARIANTS
  DeniedDoesNotProceed
CHECK_DEADLOCK FALSE

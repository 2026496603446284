SPECIFICATION Spec
CONSTANTS
  Thread = {t1}
  TaskID = {k1}
  RoutingID = {r1}
  PolicyID = {p1, p2}
  WorkflowID = {w1}
  ApprovalID = {a1, a2}
  Nil = Nil
  TaskAttr <- MCWork
  PolicyAction = {"shell_execution", "data_deletion"}
  MaxAttempts = 2
  MaxRequests = 9
  MaxFaults = 2
  ChildAttr <- MCChildAttr
  Strategies <- MCStrategies
  PolicyOutcome <- MCOutcome
INVARIANTS
  AttemptsWithinBudget
  QuarantineAuditedOnce
  LeaseMatchesRun
  GateMatchesRequest
  ResolutionIsAudited
  SerialInvariant
PROPERTIES
  TerminalIsFinal
  HistoryAppendOnly
  LeaseEndIsFinal
  ImplementsLifecycle
CHECK_DEADLOCK FALSE

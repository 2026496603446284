SPECIFICATION ExecutionSpec
CONSTANTS
  Thread = {t1, t2}
  TaskID = {k1}
  RoutingID = {r1}
  PolicyID = {p1, p2}
  WorkflowID = {w1}
  ApprovalID = {a1, a2}
  Nil = Nil
  TaskAttr <- MCWork
  PolicyAction = {"shell_execution", "data_deletion"}
  MaxAttempts = 2
  MaxRequests = 5
  MaxFaults = 1
  ChildAttr <- MCChildAttr
  Strategies <- MCStrategies
  PolicyOutcome <- MCOutcome
SYMMETRY Symmetry
INVARIANTS
  LeaseBacked
  ApprovalBacked
  LeaseNeedsApproval
  LeaseSound
  TerminationAnnounced
  OneReporterKeepsBudget
PROPERTIES
  BudgetGrantedOnce
CHECK_DEADLOCK FALSE

SPECIFICATION Spec
CONSTANTS
  Thread = {t1, t2}
  TaskID = {k1, k2, k3}
  RoutingID = {r1, r2}
  PolicyID = {p1, p2}
  WorkflowID = {w1, w2}
  ApprovalID = {a1}
  Nil = Nil
  TaskAttr <- MCAllWork
  PolicyAction = {"shell_execution", "data_deletion"}
  MaxAttempts = 2
  MaxRequests = 5
  MaxFaults = 1
  ChildAttr <- MCChildAttr
  Strategies <- MCStrategies
  PolicyOutcome <- MCOutcome
SYMMETRY Symmetry
INVARIANTS
  NoBypass
  LegalHistory
  IInv
CHECK_DEADLOCK FALSE

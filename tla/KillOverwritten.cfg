SPECIFICATION CheckedSpec
CONSTANTS
  Thread = {t1, t2}
  TaskID = {k1}
  RoutingID = {r1}
  PolicyID = {p1}
  WorkflowID = {w1}
  ApprovalID = {a1}
  Nil = Nil
  TaskAttr <- MCBugfix
  PolicyAction = {"shell_execution"}
  MaxAttempts = 2
  MaxRequests = 4
  MaxFaults = 0
  ChildAttr <- MCChildAttr
  Strategies <- MCStrategies
  PolicyOutcome <- MCOutcome
PROPERTIES
  TerminalIsFinal
CHECK_DEADLOCK FALSE

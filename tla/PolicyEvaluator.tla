--------------------------- MODULE PolicyEvaluator ---------------------------
(***************************************************************************)
(* policy.EvaluatePolicy over DefaultRules: each rule names an outcome or  *)
(* none, the most restrictive one wins, and plain allow is never the       *)
(* result.  Actions other than the two the rules know are alike.           *)
(***************************************************************************)
EXTENDS RoutingEvaluator

Action == {"sdd_apply", "data_deletion", "shell_execution"}

Restrictiveness ==
  [allow |-> 0, allow_with_constraints |-> 1, require_approval |-> 2, deny |-> 3]

\* The rule about system scope is missing from DefaultRules.
ApprovalRulesMutant(task) ==
  IF task.risk = "critical" \/ task.type = "deployment" THEN {"require_approval"} ELSE {}

ApprovalRules(task) ==
  IF task.risk = "critical" \/ task.type = "deployment" \/ task.scope = "system"
    THEN {"require_approval"} ELSE {}

DestructiveActionDeny(action) == IF action = "data_deletion" THEN {"deny"} ELSE {}

FileScopeLowRiskAllow(task) ==
  IF task.scope = "file" /\ task.risk = "low" THEN {"allow"} ELSE {}

NoApplyWithoutTasksDone(task, action) ==
  IF action = "sdd_apply" /\ ~ task.tasksDone THEN {"deny"} ELSE {}

RuleOutcomes(task, action) ==
  ApprovalRules(task) \cup DestructiveActionDeny(action)
  \cup FileScopeLowRiskAllow(task) \cup NoApplyWithoutTasksDone(task, action)

EvaluatePolicy(task, action) ==
  LET outcomes == RuleOutcomes(task, action) \cup {"allow_with_constraints"} IN
  CHOOSE o \in outcomes : \A x \in outcomes : Restrictiveness[x] <= Restrictiveness[o]
=============================================================================

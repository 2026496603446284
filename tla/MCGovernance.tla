---------------------------- MODULE MCGovernance ----------------------------
(***************************************************************************)
(* Instances of the service for TLC.                                       *)
(***************************************************************************)
EXTENDS SerialInv, TLC

PE == INSTANCE PolicyEvaluator

\* The evaluators of the service, with the memory stub or without memory, and
\* before any statistics.
MCChildAttr(attr) == PE!Child(attr)
MCStrategies(attr) == PE!Evaluate(attr, PE!NoMemory, PE!NoAdaptation)
MCOutcome(attr, action) == PE!EvaluatePolicy(attr, action)

\* A task every action but a destructive one is allowed for, one that needs an
\* approval, and one that is decomposed into two of the first kind.
Bugfix == PE!Submitted("bugfix", "file", "normal", "none", FALSE)
Deployment == PE!Submitted("deployment", "file", "normal", "none", FALSE)
Composite == PE!Submitted("bugfix", "file", "normal", "decompose", FALSE)

MCWork == {Bugfix, Deployment}
MCAllWork == {Bugfix, Deployment, Composite}
MCBugfix == {Bugfix}
MCDeployment == {Deployment}

\* One policy-checked run, as SubmitTask, RouteTask and EvaluatePolicy leave it.
CheckedRun(k, r, p) ==
  [task |-> k, status |-> "policy_checked", rd |-> r, pd |-> p,
   transitions |-> <<<<"created", "routed">>, <<"routed", "policy_checked">>>>]

Count(actions) == [a \in AuditAction |-> IF a \in actions THEN 1 ELSE 0]

CheckedInit ==
  \E k \in TaskID, attr \in TaskAttr, r \in RoutingID, p \in PolicyID,
     w \in WorkflowID, action \in PolicyAction :
    /\ tasks = [x \in TaskID |-> IF x = k THEN attr ELSE Nil]
    /\ routings = [d \in RoutingID |-> IF d = r THEN k ELSE Nil]
    /\ policies = [d \in PolicyID |->
         IF d = p THEN [task |-> k, outcome |-> PolicyOutcome(attr, action)] ELSE NoPolicy]
    /\ wfs = [v \in WorkflowID |-> IF v = w THEN CheckedRun(k, r, p) ELSE NoRun]
    /\ leases = [v \in WorkflowID |-> NoLease]
    /\ approvals = [a \in ApprovalID |-> NoApproval]
    /\ audit = [s \in TaskID \cup WorkflowID |->
         Count(CASE s = k -> {"task_submitted"}
                 [] s = w -> {"task_routed", "policy_evaluated"}
                 [] OTHER -> {})]
    /\ notified = [v \in WorkflowID |-> [c \in Callback |-> 0]]
    /\ req = [t \in Thread |-> Idle]
    /\ issued = 0
    /\ faults = 0

CheckedSpec == CheckedInit /\ [][Next]_vars

CheckedFairSpec == CheckedSpec /\ Fairness

Symmetry ==
  Permutations(Thread) \cup Permutations(RoutingID) \cup Permutations(PolicyID)
  \cup Permutations(WorkflowID) \cup Permutations(ApprovalID) \cup Permutations(TaskID)
=============================================================================

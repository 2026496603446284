-------------------------------- MODULE Store --------------------------------
(***************************************************************************)
(* The PostgreSQL tables the services share, and the requests in flight.   *)
(*                                                                         *)
(* Every repository method is one autocommitted statement: no service      *)
(* opens a transaction, no row carries a version, and Update overwrites    *)
(* the whole row.  A request is therefore a sequence of atomic steps, one  *)
(* per statement that other requests can observe, and between two of them  *)
(* it works on the copies in its frame.                                    *)
(***************************************************************************)
EXTENDS WorkflowRun, ExecutionLease, FiniteSets

CONSTANTS
  Thread,        \* request goroutines
  TaskID, RoutingID, PolicyID, WorkflowID, ApprovalID,
  Nil,           \* an absent identifier
  TaskAttr,      \* what the evaluators read of a task
  PolicyAction,  \* actions a client asks to have evaluated
  ChildAttr(_),  \* attributes of the subtasks of a decomposed task
  Strategies(_), \* strategies the routing evaluator may select for a task
  PolicyOutcome(_, _), \* outcome of the policy evaluator for a task and action
  MaxRequests,   \* bound on accepted requests
  MaxFaults      \* bound on failed statements, cancellations and crashes

Outcome == {"allow", "allow_with_constraints", "require_approval", "deny"}

Strategy == {"direct", "decompose", "collaborate", "escalate"}

ASSUME StoreAssumption ==
  /\ Nil \notin TaskID \cup RoutingID \cup PolicyID \cup WorkflowID \cup ApprovalID
  /\ MaxRequests \in Nat
  /\ MaxFaults \in Nat
  /\ Nil \notin TaskAttr
  /\ \A attr \in TaskAttr :
       /\ ChildAttr(attr) \in TaskAttr
       /\ Strategies(attr) \subseteq Strategy
       /\ \A action \in PolicyAction : PolicyOutcome(attr, action) \in Outcome

VARIABLES
  tasks,      \* task rows: attributes, or Nil
  routings,   \* routing_decisions: the task decided on, or Nil
  policies,   \* policy_decisions: task and outcome
  wfs,        \* workflow_runs
  leases,     \* execution_leases, at most one per run by its unique index
  approvals,  \* approval_requests
  audit,      \* audit_entries, counted by subject and action
  notified,   \* GovernanceNotifier calls, counted by run and callback
  req,        \* the frame of each thread
  issued,     \* requests accepted so far
  faults      \* faults so far

vars == <<tasks, routings, policies, wfs, leases, approvals, audit, notified,
          req, issued, faults>>

---------------------------------------------------------------------------

NoRun == [NewWorkflowRun(Nil, Nil) EXCEPT !.status = "none"]

NoPolicy == [task |-> Nil, outcome |-> "none"]

NoApproval == [wf |-> Nil, status |-> "none"]

AuditAction ==
  {"task_submitted", "subtask_created", "task_routed", "policy_evaluated",
   "workflow_started", "attempt_registered", "workflow_quarantined",
   "workflow_paused", "workflow_resumed", "workflow_killed",
   "approval_resolved"}

Callback == {"execution_ready", "approval_required", "workflow_terminated"}

\* What a request knows: the operation, the statement it executes next, the
\* identifiers and the copies of rows it holds, and its input or the decision
\* it computed.
Idle ==
  [op |-> "idle", pc |-> "idle", task |-> Nil, wf |-> Nil, row |-> NoRun,
   lease |-> NoLease, id |-> Nil, arg |-> "none"]

Init ==
  /\ tasks = [k \in TaskID |-> Nil]
  /\ routings = [d \in RoutingID |-> Nil]
  /\ policies = [d \in PolicyID |-> NoPolicy]
  /\ wfs = [w \in WorkflowID |-> NoRun]
  /\ leases = [w \in WorkflowID |-> NoLease]
  /\ approvals = [a \in ApprovalID |-> NoApproval]
  /\ audit = [s \in TaskID \cup WorkflowID |-> [a \in AuditAction |-> 0]]
  /\ notified = [w \in WorkflowID |-> [c \in Callback |-> 0]]
  /\ req = [t \in Thread |-> Idle]
  /\ issued = 0
  /\ faults = 0

---------------------------------------------------------------------------

\* A row FindByTaskID may return: the query has no ORDER BY, so any match.
RunsOf(task) == {w \in WorkflowID : wfs[w].status # "none" /\ wfs[w].task = task}

PoliciesOf(task) == {d \in PolicyID : policies[d].task = task}

IsRouted(task) == \E d \in RoutingID : routings[d] = task

\* The router hands a new request to an idle thread, which runs its first step.
Accept(t, frame) ==
  /\ req[t] = Idle
  /\ issued < MaxRequests
  /\ issued' = issued + 1
  /\ req' = [req EXCEPT ![t] = frame]

At(t, op, pc) == req[t].op = op /\ req[t].pc = pc

Goto(t, frame) == req' = [req EXCEPT ![t] = frame]

Return(t) == req' = [req EXCEPT ![t] = Idle]

\* One more statement or call has failed.
Fault ==
  /\ faults < MaxFaults
  /\ faults' = faults + 1

\* RecordAuditService.Record: one more entry about the subject.
Record(subject, action) == audit' = [audit EXCEPT ![subject][action] = @ + 1]
=============================================================================

---------------------------- MODULE TaskAdmission ----------------------------
(***************************************************************************)
(* From a submitted task to a policy-checked workflow run: SubmitTask,     *)
(* RouteTask (with its decomposition into subtasks) and EvaluatePolicy.    *)
(* ProcessTask calls these and StartWorkflow one after the other and stops *)
(* at the first error, as a client that sends the four requests does.      *)
(*                                                                         *)
(* Task rows never change and decisions are never deleted, so the reads    *)
(* that open a handler are one step with its first write.  A handler that  *)
(* fails before its first write changes nothing and is not a step at all.  *)
(***************************************************************************)
EXTENDS Store

---------------------------------------------------------------------------
\* SubmitTask

SubmitSaveTask(t, attr, task) ==
  /\ tasks[task] = Nil
  /\ tasks' = [tasks EXCEPT ![task] = attr]
  /\ Accept(t, [Idle EXCEPT !.op = "submit", !.pc = "audit_task", !.task = task])
  /\ UNCHANGED <<routings, policies, wfs, leases, approvals, audit, notified, faults>>

SubmitAudit(t) ==
  /\ At(t, "submit", "audit_task")
  /\ Record(req[t].task, "task_submitted")
  /\ Return(t)
  /\ UNCHANGED <<tasks, routings, policies, wfs, leases, approvals, notified,
                 issued, faults>>

---------------------------------------------------------------------------
\* RouteTask

RouteSaveDecision(t, task, d, strategy) ==
  /\ tasks[task] # Nil
  /\ strategy \in Strategies(tasks[task])
  /\ routings[d] = Nil
  /\ routings' = [routings EXCEPT ![d] = task]
  /\ Accept(t, [Idle EXCEPT !.op = "route", !.pc = "find_wf", !.task = task,
                            !.id = d, !.arg = strategy])
  /\ UNCHANGED <<tasks, policies, wfs, leases, approvals, audit, notified, faults>>

\* The run exists: MarkRouted on the copy, or its error returned.
RouteFindWorkflow(t, w) ==
  /\ At(t, "route", "find_wf")
  /\ w \in RunsOf(req[t].task)
  /\ IF CanTransition(wfs[w], "routed")
       THEN Goto(t, [req[t] EXCEPT !.pc = "update_wf", !.wf = w,
                                   !.row = MarkRouted(wfs[w], req[t].id)])
       ELSE Return(t)
  /\ UNCHANGED <<tasks, routings, policies, wfs, leases, approvals, audit,
                 notified, issued, faults>>

\* Any error of FindByTaskID counts as "not found", a failed query too.
RouteMissWorkflow(t) ==
  /\ At(t, "route", "find_wf")
  /\ \/ RunsOf(req[t].task) = {} /\ UNCHANGED faults
     \/ RunsOf(req[t].task) # {} /\ Fault
  /\ Goto(t, [req[t] EXCEPT !.pc = "create_wf"])
  /\ UNCHANGED <<tasks, routings, policies, wfs, leases, approvals, audit,
                 notified, issued>>

RouteCreateWorkflow(t, w) ==
  /\ At(t, "route", "create_wf")
  /\ wfs[w].status = "none"
  /\ wfs' = [wfs EXCEPT ![w] = NewWorkflowRun(req[t].task, Nil)]
  /\ Goto(t, [req[t] EXCEPT
       !.pc = "update_wf", !.wf = w,
       !.row = MarkRouted(NewWorkflowRun(req[t].task, Nil), req[t].id)])
  /\ UNCHANGED <<tasks, routings, policies, leases, approvals, audit, notified,
                 issued, faults>>

\* The audit entry, then the subtasks if the strategy is decompose.
RouteAudit(t) ==
  /\ At(t, "route", "finish")
  /\ Record(req[t].wf, "task_routed")
  /\ IF req[t].arg = "decompose"
       THEN Goto(t, [Idle EXCEPT !.op = "route", !.pc = "save_subtask1",
                                 !.task = req[t].task])
       ELSE Return(t)
  /\ UNCHANGED <<tasks, routings, policies, wfs, leases, approvals, notified,
                 issued, faults>>

RouteSaveSubtask(t, sub) ==
  /\ req[t].pc \in {"save_subtask1", "save_subtask2"}
  /\ tasks[sub] = Nil
  /\ tasks' = [tasks EXCEPT ![sub] = ChildAttr(tasks[req[t].task])]
  /\ Goto(t, [req[t] EXCEPT
       !.pc = IF @ = "save_subtask1" THEN "audit_subtask1" ELSE "audit_subtask2",
       !.id = sub])
  /\ UNCHANGED <<routings, policies, wfs, leases, approvals, audit, notified,
                 issued, faults>>

RouteAuditSubtask(t) ==
  /\ req[t].pc \in {"audit_subtask1", "audit_subtask2"}
  /\ Record(req[t].id, "subtask_created")
  /\ IF req[t].pc = "audit_subtask1"
       THEN Goto(t, [req[t] EXCEPT !.pc = "save_subtask2", !.id = Nil])
       ELSE Return(t)
  /\ UNCHANGED <<tasks, routings, policies, wfs, leases, approvals, notified,
                 issued, faults>>

---------------------------------------------------------------------------
\* EvaluatePolicy

PolicySaveDecision(t, task, action, d) ==
  /\ tasks[task] # Nil
  /\ IsRouted(task)
  /\ policies[d] = NoPolicy
  /\ LET outcome == PolicyOutcome(tasks[task], action) IN
     /\ policies' = [policies EXCEPT ![d] = [task |-> task, outcome |-> outcome]]
     /\ Accept(t, [Idle EXCEPT !.op = "policy", !.pc = "find_wf", !.task = task,
                               !.id = d, !.arg = outcome])
  /\ UNCHANGED <<tasks, routings, wfs, leases, approvals, audit, notified, faults>>

PolicyFindWorkflow(t, w) ==
  /\ At(t, "policy", "find_wf")
  /\ w \in RunsOf(req[t].task)
  /\ IF CanTransition(wfs[w], "policy_checked")
       THEN Goto(t, [req[t] EXCEPT !.pc = "update_wf", !.wf = w,
                                   !.row = MarkPolicyChecked(wfs[w], req[t].id)])
       ELSE Return(t)
  /\ UNCHANGED <<tasks, routings, policies, wfs, leases, approvals, audit,
                 notified, issued, faults>>

\* Routing decisions may exist without a run: RouteTask saves them first.
PolicyMissWorkflow(t) ==
  /\ At(t, "policy", "find_wf")
  /\ RunsOf(req[t].task) = {}
  /\ Return(t)
  /\ UNCHANGED <<tasks, routings, policies, wfs, leases, approvals, audit,
                 notified, issued, faults>>

PolicyAudit(t) ==
  /\ At(t, "policy", "finish")
  /\ Record(req[t].wf, "policy_evaluated")
  /\ Return(t)
  /\ UNCHANGED <<tasks, routings, policies, wfs, leases, approvals, notified,
                 issued, faults>>
=============================================================================

--------------------------- MODULE WorkflowControl ---------------------------
(***************************************************************************)
(* The life of a policy-checked run: StartWorkflow, RegisterAttempt, Pause,*)
(* Resume, Kill and ResolveApproval.  The first step of an operation reads *)
(* what it is about; an operation that fails there changes nothing and is  *)
(* not a step.  The writes the operations share (a lease, a run, the audit *)
(* and the callbacks at the end) are the last section.                     *)
(***************************************************************************)
EXTENDS Store

AttemptStatus == {"success", "failure", "retry"}

Resolution == {"approved", "denied"}

---------------------------------------------------------------------------
\* StartWorkflow

StartLoadPolicy(t, task, d) ==
  /\ tasks[task] # Nil
  /\ IsRouted(task)
  /\ d \in PoliciesOf(task)
  /\ Accept(t, [Idle EXCEPT !.op = "start", !.pc = "load_wf", !.task = task,
                            !.id = d, !.arg = policies[d].outcome])
  /\ UNCHANGED <<tasks, routings, policies, wfs, leases, approvals, audit,
                 notified, faults>>

\* The status StartWorkflow moves the run to, by the outcome it has read.
StartTarget(outcome) ==
  CASE outcome = "deny" -> "failed"
    [] outcome = "require_approval" -> "awaiting_approval"
    [] OTHER -> "running"

\* Mutant: the lease is never saved.
StartFirstWriteNoLease(outcome) ==
  IF outcome = "require_approval" THEN "save_approval" ELSE "update_wf"

\* Mutant: the approval request is never saved.
StartFirstWriteNoApproval(outcome) ==
  IF outcome \in {"deny", "require_approval"} THEN "update_wf" ELSE "save_lease"

\* The first row StartWorkflow writes for an outcome.
StartFirstWrite(outcome) ==
  CASE outcome = "deny" -> "update_wf"
    [] outcome = "require_approval" -> "save_approval"
    [] OTHER -> "save_lease"

StartLoadWorkflow(t, w) ==
  /\ At(t, "start", "load_wf")
  /\ w \in RunsOf(req[t].task)
  /\ LET target == StartTarget(req[t].arg) IN
     IF CanTransition(wfs[w], target)
       THEN Goto(t, [req[t] EXCEPT !.pc = StartFirstWrite(req[t].arg), !.wf = w,
                                   !.row = TransitionTo(wfs[w], target)])
       ELSE Return(t)
  /\ UNCHANGED <<tasks, routings, policies, wfs, leases, approvals, audit,
                 notified, issued, faults>>

StartMissWorkflow(t) ==
  /\ At(t, "start", "load_wf")
  /\ RunsOf(req[t].task) = {}
  /\ Return(t)
  /\ UNCHANGED <<tasks, routings, policies, wfs, leases, approvals, audit,
                 notified, issued, faults>>

StartSaveApproval(t, a) ==
  /\ At(t, "start", "save_approval")
  /\ approvals[a] = NoApproval
  /\ approvals' = [approvals EXCEPT ![a] = [wf |-> req[t].wf, status |-> "pending"]]
  /\ Goto(t, [req[t] EXCEPT !.pc = "update_wf"])
  /\ UNCHANGED <<tasks, routings, policies, wfs, leases, audit, notified, issued,
                 faults>>

---------------------------------------------------------------------------
\* RegisterAttempt

AttemptLoadWorkflow(t, w, status) ==
  /\ wfs[w].status \in WorkflowStatus \ TerminalStates
  /\ Accept(t, [Idle EXCEPT !.op = "attempt", !.pc = "load_lease", !.wf = w,
                            !.row = wfs[w], !.arg = status])
  /\ UNCHANGED <<tasks, routings, policies, wfs, leases, approvals, audit,
                 notified, faults>>

\* Mutant: a failure that leaves budget quarantines too.
AttemptTargetMutant(status, lease, row) ==
  CASE status = "success" -> "completed"
    [] status = "failure" -> "quarantined"
    [] OTHER -> row.status

\* Where an attempt takes the run, given the lease with the attempt recorded:
\* a failure without budget left quarantines, a retry never does.
AttemptTarget(status, lease, row) ==
  CASE status = "success" -> "completed"
    [] status = "failure" /\ ~HasRetryBudget(lease) -> "quarantined"
    [] OTHER -> row.status

AttemptLoadLease(t) ==
  /\ At(t, "attempt", "load_lease")
  /\ LET lease == RecordAttempt(leases[req[t].wf])
         row == req[t].row
         target == AttemptTarget(req[t].arg, lease, row)
         recorded == [req[t] EXCEPT !.pc = "update_lease", !.lease = lease] IN
     IF ~CanRecordAttempt(leases[req[t].wf]) THEN Return(t)
     ELSE IF target = row.status THEN Goto(t, recorded)
     ELSE IF CanTransition(row, target)
       THEN Goto(t, [recorded EXCEPT !.row = TransitionTo(row, target)])
     ELSE Return(t)
  /\ UNCHANGED <<tasks, routings, policies, wfs, leases, approvals, audit,
                 notified, issued, faults>>

---------------------------------------------------------------------------
\* PauseWorkflow, ResumeWorkflow, KillWorkflow

PauseLoadWorkflow(t, w) ==
  /\ wfs[w].status # "none"
  /\ CanTransition(wfs[w], "paused")
  /\ Accept(t, [Idle EXCEPT !.op = "pause", !.pc = "update_wf", !.wf = w,
                            !.row = TransitionTo(wfs[w], "paused")])
  /\ UNCHANGED <<tasks, routings, policies, wfs, leases, approvals, audit,
                 notified, faults>>

ResumeLoadWorkflow(t, w) ==
  /\ wfs[w].status # "none"
  /\ Accept(t, [Idle EXCEPT !.op = "resume", !.pc = "load_lease", !.wf = w,
                            !.row = wfs[w]])
  /\ UNCHANGED <<tasks, routings, policies, wfs, leases, approvals, audit,
                 notified, faults>>

ResumeLoadLease(t) ==
  /\ At(t, "resume", "load_lease")
  /\ IF HasRetryBudget(leases[req[t].wf]) /\ CanTransition(req[t].row, "running")
       THEN Goto(t, [req[t] EXCEPT !.pc = "update_wf",
                                   !.row = TransitionTo(req[t].row, "running")])
       ELSE Return(t)
  /\ UNCHANGED <<tasks, routings, policies, wfs, leases, approvals, audit,
                 notified, issued, faults>>

KillLoadWorkflow(t, w) ==
  /\ wfs[w].status # "none"
  /\ CanTransition(wfs[w], "killed")
  /\ Accept(t, [Idle EXCEPT !.op = "kill", !.pc = "load_lease", !.wf = w,
                            !.row = TransitionTo(wfs[w], "killed")])
  /\ UNCHANGED <<tasks, routings, policies, wfs, leases, approvals, audit,
                 notified, faults>>

\* Only an active lease can be revoked; otherwise the lease is left alone.
KillLoadLease(t) ==
  /\ At(t, "kill", "load_lease")
  /\ LET lease == leases[req[t].wf] IN
     Goto(t, IF CanRevoke(lease)
               THEN [req[t] EXCEPT !.pc = "update_lease", !.lease = Revoke(lease)]
               ELSE [req[t] EXCEPT !.pc = "update_wf"])
  /\ UNCHANGED <<tasks, routings, policies, wfs, leases, approvals, audit,
                 notified, issued, faults>>

\* Errors of the two lease statements are ignored: the kill goes on without.
KillLeaseFault(t) ==
  /\ At(t, "kill", "load_lease") \/ At(t, "kill", "update_lease")
  /\ Fault
  /\ Goto(t, [req[t] EXCEPT !.pc = "update_wf", !.lease = NoLease])
  /\ UNCHANGED <<tasks, routings, policies, wfs, leases, approvals, audit,
                 notified, issued>>

---------------------------------------------------------------------------
\* ResolveApproval

CanResolve(request) == request.status = "pending"

ResolveLoadApproval(t, a, resolution) ==
  /\ CanResolve(approvals[a])
  /\ Accept(t, [Idle EXCEPT !.op = "resolve", !.pc = "update_approval",
                            !.wf = approvals[a].wf, !.id = a, !.arg = resolution])
  /\ UNCHANGED <<tasks, routings, policies, wfs, leases, approvals, audit,
                 notified, faults>>

ResolveUpdateApproval(t) ==
  /\ At(t, "resolve", "update_approval")
  /\ approvals' = [approvals EXCEPT ![req[t].id].status = req[t].arg]
  /\ Goto(t, [req[t] EXCEPT !.pc = "load_wf"])
  /\ UNCHANGED <<tasks, routings, policies, wfs, leases, audit, notified, issued,
                 faults>>

\* Mutant: a denied run is left at the gate.
ResolvedDeniedKept(row, resolution) ==
  IF resolution = "approved"
    THEN TransitionTo(TransitionTo(row, "approved"), "running")
    ELSE row

\* Mutant: an approved run is not started.
ResolvedNotStarted(row, resolution) ==
  TransitionTo(row, IF resolution = "approved" THEN "approved" ELSE "failed")

\* The run as ResolveApproval moves it: approved then running, or failed.
Resolved(row, resolution) ==
  IF resolution = "approved"
    THEN TransitionTo(TransitionTo(row, "approved"), "running")
    ELSE TransitionTo(row, "failed")

\* Mutant: a denied run gets a lease too.
ResolveLoadWorkflowMutant(t) ==
  /\ At(t, "resolve", "load_wf")
  /\ LET row == wfs[req[t].wf] IN
     IF CanTransition(row, IF req[t].arg = "approved" THEN "approved" ELSE "failed")
       THEN Goto(t, [req[t] EXCEPT !.pc = "save_lease", !.row = Resolved(row, req[t].arg)])
       ELSE Return(t)
  /\ UNCHANGED <<tasks, routings, policies, wfs, leases, approvals, audit,
                 notified, issued, faults>>

ResolveLoadWorkflow(t) ==
  /\ At(t, "resolve", "load_wf")
  /\ LET row == wfs[req[t].wf]
         approved == req[t].arg = "approved" IN
     IF CanTransition(row, IF approved THEN "approved" ELSE "failed")
       THEN Goto(t, [req[t] EXCEPT
              !.pc = IF approved THEN "save_lease" ELSE "update_wf",
              !.row = Resolved(row, req[t].arg)])
       ELSE Return(t)
  /\ UNCHANGED <<tasks, routings, policies, wfs, leases, approvals, audit,
                 notified, issued, faults>>

---------------------------------------------------------------------------
\* The statements the operations share

\* Mutant: the insert replaces the lease that is there.
SaveLeaseMutant(t) ==
  /\ req[t].pc = "save_lease"
  /\ leases' = [leases EXCEPT ![req[t].wf] = NewExecutionLease]
  /\ Goto(t, [req[t] EXCEPT !.pc = "update_wf"])
  /\ UNCHANGED <<tasks, routings, policies, wfs, approvals, audit, notified,
                 issued, faults>>

\* A second lease for the run violates the unique index and ends the request.
SaveLease(t) ==
  /\ req[t].pc = "save_lease"
  /\ IF leases[req[t].wf] = NoLease
       THEN /\ leases' = [leases EXCEPT ![req[t].wf] = NewExecutionLease]
            /\ Goto(t, [req[t] EXCEPT !.pc = "update_wf"])
       ELSE Return(t) /\ UNCHANGED leases
  /\ UNCHANGED <<tasks, routings, policies, wfs, approvals, audit, notified,
                 issued, faults>>

UpdateLease(t) ==
  /\ req[t].pc = "update_lease"
  /\ leases' = [leases EXCEPT ![req[t].wf] = req[t].lease]
  /\ Goto(t, [req[t] EXCEPT !.pc = "update_wf", !.lease = NoLease])
  /\ UNCHANGED <<tasks, routings, policies, wfs, approvals, audit, notified,
                 issued, faults>>

\* The whole row is overwritten with the copy, whatever the store holds by now.
UpdateWorkflow(t) ==
  /\ req[t].pc = "update_wf"
  /\ wfs' = [wfs EXCEPT ![req[t].wf] = req[t].row]
  /\ Goto(t, [req[t] EXCEPT !.pc = "finish"])
  /\ UNCHANGED <<tasks, routings, policies, leases, approvals, audit, notified,
                 issued, faults>>

\* Mutant: every failure is audited as a quarantine.
AttemptAuditsMutant(frame) ==
  {"attempt_registered"} \cup
  IF frame.arg = "failure" THEN {"workflow_quarantined"} ELSE {}

AttemptAudits(frame) ==
  {"attempt_registered"} \cup
  IF frame.row.status = "quarantined" THEN {"workflow_quarantined"} ELSE {}

\* Mutant: a resolution is not audited.
AuditsOfMutant(frame) ==
  CASE frame.op = "start"   -> {"workflow_started"}
    [] frame.op = "attempt" -> AttemptAudits(frame)
    [] frame.op = "pause"   -> {"workflow_paused"}
    [] frame.op = "resume"  -> {"workflow_resumed"}
    [] frame.op = "kill"    -> {"workflow_killed"}
    [] OTHER -> {}

\* Audit entries an operation records once its rows are written.
AuditsOf(frame) ==
  CASE frame.op = "start"   -> {"workflow_started"}
    [] frame.op = "attempt" -> AttemptAudits(frame)
    [] frame.op = "pause"   -> {"workflow_paused"}
    [] frame.op = "resume"  -> {"workflow_resumed"}
    [] frame.op = "kill"    -> {"workflow_killed"}
    [] frame.op = "resolve" -> {"approval_resolved"}
    [] OTHER -> {}

\* Mutant: a quarantined run is not announced as terminated.
CallbacksOfMutant(frame) ==
  CASE frame.row.status \in TerminalStates \ {"quarantined"} -> {"workflow_terminated"}
    [] frame.row.status = "awaiting_approval" /\ frame.op = "start" -> {"approval_required"}
    [] frame.row.status = "running" /\ frame.op # "attempt" -> {"execution_ready"}
    [] OTHER -> {}

\* Callbacks an operation makes: none for an attempt that does not end the run
\* and none for a pause.
CallbacksOf(frame) ==
  CASE frame.row.status \in TerminalStates -> {"workflow_terminated"}
    [] frame.row.status = "awaiting_approval" /\ frame.op = "start" -> {"approval_required"}
    [] frame.row.status = "running" /\ frame.op # "attempt" -> {"execution_ready"}
    [] OTHER -> {}

\* Audit and callbacks, whose errors are discarded one by one: the lost ones
\* are faults.
Finish(t, lost) ==
  /\ req[t].pc = "finish"
  /\ req[t].op \notin {"route", "policy"}
  /\ faults + Cardinality(lost) <= MaxFaults
  /\ faults' = faults + Cardinality(lost)
  /\ LET w == req[t].wf IN
     /\ audit' = [audit EXCEPT ![w] = [a \in AuditAction |->
          @[a] + IF a \in AuditsOf(req[t]) \ lost THEN 1 ELSE 0]]
     /\ notified' = [notified EXCEPT ![w] = [c \in Callback |->
          @[c] + IF c \in CallbacksOf(req[t]) \ lost THEN 1 ELSE 0]]
  /\ Return(t)
  /\ UNCHANGED <<tasks, routings, policies, wfs, leases, approvals, issued>>

\* Between two statements: the next one fails and its error is returned, the
\* request context is cancelled, or the process dies and takes the frame along.
Abort(t) ==
  /\ req[t] # Idle
  /\ Fault
  /\ Return(t)
  /\ UNCHANGED <<tasks, routings, policies, wfs, leases, approvals, audit,
                 notified, issued>>
=============================================================================

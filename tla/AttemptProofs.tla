---------------------------- MODULE AttemptProofs ----------------------------
(***************************************************************************)
(* Under any interleaving: terminations are announced, one reporter keeps  *)
(* the budget, and racing starters and approvers grant a run one budget,   *)
(* and none without a decision or an approval.                             *)
(***************************************************************************)
EXTENDS GovernanceProofs, Reporters

---------------------------------------------------------------------------
\* The steps before the shared statements

\* What such a step may leave in its frame.
NewFrame(f) ==
  /\ f.pc # "finish"
  /\ f.op \in {"route", "policy"} /\ f.pc = "update_wf" => f.row.status \notin TerminalStates
  /\ f.op = "attempt" =>
       \/ f.pc = "load_lease"
       \/ /\ f.pc = "update_lease" /\ f.wf \in WorkflowID
          /\ leases[f.wf].status = "active" /\ f.lease = RecordAttempt(leases[f.wf])
          /\ (\A u \in Thread : SafeFrame(req[u])) =>
               (f.row.status = "quarantined" => f.lease.status \notin Unused)
  /\ SafeFrame(f)

\* What the trail says of attempts and quarantines is left alone.
SameTrail(w) == Reported(w)' = Reported(w) /\ Quarantines(w)' = Quarantines(w)

\* Such a step ends no run, writes no lease, reports no attempt, calls nobody
\* and leaves the other frames alone.
Early(t) ==
  /\ \A w \in WorkflowID : wfs'[w] = wfs[w] \/ wfs'[w].status = "created"
  /\ \A w \in WorkflowID : SameTrail(w)
  /\ UNCHANGED <<leases, notified>>
  /\ faults' \in {faults, faults + 1}
  /\ req[t].pc = "finish" => req[t].op \in {"route", "policy"}
  /\ \A u \in Thread \ {t} : req'[u] = req[u]
  /\ NewFrame(req'[t])

\* A step that only reads and changes its frame.
LEMMA EarlyGoto ==
  ASSUME IInv, NEW t \in Thread, NEW f, req' = [req EXCEPT ![t] = f], NewFrame(f),
         req[t].pc # "finish", UNCHANGED <<wfs, leases, audit, notified>>,
         faults' \in {faults, faults + 1}
  PROVE  Early(t)
<1>1. req'[t] = f /\ \A u \in Thread \ {t} : req'[u] = req[u]
  BY DEF IInv, TypeOK
<1> QED
  BY <1>1 DEF Early, SameTrail, Reported, Quarantines

\* An idle frame promises nothing.
LEMMA IdleNew == NewFrame(Idle)
BY DEF NewFrame, Idle, SafeFrame

\* A step that only reads and ends its request.
LEMMA EarlyReturn ==
  ASSUME IInv, NEW t \in Thread, Return(t),
         req[t].pc # "finish", UNCHANGED <<wfs, leases, audit, notified>>,
         faults' \in {faults, faults + 1}
  PROVE  Early(t)
<1>1. PICK f : f = Idle
  OBVIOUS
<1>2. NewFrame(f) /\ req' = [req EXCEPT ![t] = f]
  BY <1>1, IdleNew DEF Return
<1> QED
  BY Zenon, <1>2, EarlyGoto

\* Other audit entries report no attempt and no quarantine.
LEMMA RecordOther ==
  ASSUME IInv, NEW subject, NEW action \in AuditAction \ {"attempt_registered", "workflow_quarantined"},
         Record(subject, action)
  PROVE  \A w \in WorkflowID : SameTrail(w)
<1>1. audit \in [TaskID \cup WorkflowID -> [AuditAction -> Nat]]
  BY DEF IInv, TypeOK
<1> SUFFICES ASSUME NEW w \in WorkflowID
             PROVE  /\ audit'[w]["attempt_registered"] = audit[w]["attempt_registered"]
                    /\ audit'[w]["workflow_quarantined"] = audit[w]["workflow_quarantined"]
  BY DEF SameTrail, Reported, Quarantines
<1>2. audit' = [audit EXCEPT ![subject] = [audit[subject] EXCEPT ![action] = @ + 1]]
  BY DEF Record
<1>3. CASE subject = w
  BY <1>1, <1>2, <1>3
<1>4. CASE subject # w
  BY <1>1, <1>2, <1>4
<1> QED BY <1>3, <1>4

\* The row a route or policy request computes is not terminal.
LEMMA MarkedStatus ==
  ASSUME NEW row \in Row, NEW d
  PROVE  /\ MarkRouted(row, d).status = "routed"
         /\ MarkPolicyChecked(row, d).status = "policy_checked"
BY DEF TransitionTo, MarkRouted, MarkPolicyChecked, Row

\* SubmitTask, RouteTask and EvaluatePolicy take such steps.
LEMMA AdmissionEarly ==
  ASSUME IInv, NEW t \in Thread, AdmissionStep(t)
  PROVE  Early(t)
<1>0. /\ req \in [Thread -> Frame] /\ req[t] \in Frame /\ FrameInv(req[t])
      /\ wfs \in [WorkflowID -> Row]
  BY DEF IInv, TypeOK
<1>a. ASSUME NEW f, f.op \in {"submit", "route", "policy"},
             f.pc \in {"audit_task", "find_wf", "create_wf", "save_subtask1", "save_subtask2",
                       "audit_subtask1", "audit_subtask2"}
      PROVE  NewFrame(f)
  BY <1>a DEF NewFrame, SafeFrame
<1>b. ASSUME NEW f, f.op \in {"route", "policy"}, f.pc = "update_wf",
             f.row.status \in {"routed", "policy_checked"}
      PROVE  NewFrame(f)
  BY <1>b DEF NewFrame, SafeFrame, TerminalStates
<1>c. req[t] = Idle => req[t].pc # "finish"
  BY DEF Idle
<1>d. ASSUME NEW f, req' = [req EXCEPT ![t] = f], NewFrame(f),
             req[t].pc = "finish" => req[t].op \in {"route", "policy"},
             \A w \in WorkflowID : wfs'[w] = wfs[w] \/ wfs'[w].status = "created",
             UNCHANGED <<leases, notified, faults>>,
             \A w \in WorkflowID : SameTrail(w)
      PROVE  Early(t)
  <2>1. req'[t] = f /\ \A u \in Thread \ {t} : req'[u] = req[u]
    BY <1>0, <1>d
  <2> QED
    BY <1>d, <2>1 DEF Early
<1>e. ASSUME Return(t), req[t].pc = "finish" => req[t].op \in {"route", "policy"},
             UNCHANGED <<wfs, leases, notified, faults>>,
             \A w \in WorkflowID : SameTrail(w)
      PROVE  Early(t)
  <2>1. PICK f : f = Idle
    OBVIOUS
  <2>2. NewFrame(f) /\ req' = [req EXCEPT ![t] = f]
    BY <1>e, <2>1, IdleNew DEF Return
  <2> QED
    BY ZenonT(40), <1>d, <1>e, <2>2
<1>1. ASSUME NEW attr \in TaskAttr, NEW task \in TaskID, SubmitSaveTask(t, attr, task)
      PROVE  Early(t)
  <2>1. PICK f : f = [Idle EXCEPT !.op = "submit", !.pc = "audit_task", !.task = task]
    OBVIOUS
  <2>2. f.op = "submit" /\ f.pc = "audit_task"
    BY <2>1 DEF Idle
  <2>a. NewFrame(f)
    BY <1>a, <2>2
  <2>b. /\ req' = [req EXCEPT ![t] = f] /\ req[t].pc # "finish"
        /\ UNCHANGED <<wfs, leases, audit, notified>> /\ faults' \in {faults, faults + 1}
    BY <1>1, <1>c, <2>1, <2>2 DEF SubmitSaveTask, Accept
  <2> QED
    BY Zenon, <2>a, <2>b, EarlyGoto
<1>2. CASE SubmitAudit(t)
  BY <1>2, <1>e, RecordOther DEF SubmitAudit, AuditAction, At
<1>3. ASSUME NEW task \in TaskID, NEW d \in RoutingID, NEW s \in Strategy,
             RouteSaveDecision(t, task, d, s)
      PROVE  Early(t)
  <2>1. PICK f : f = [Idle EXCEPT !.op = "route", !.pc = "find_wf", !.task = task,
                                  !.id = d, !.arg = s]
    OBVIOUS
  <2>2. f.op = "route" /\ f.pc = "find_wf"
    BY <2>1 DEF Idle
  <2>a. NewFrame(f)
    BY <1>a, <2>2
  <2>b. /\ req' = [req EXCEPT ![t] = f] /\ req[t].pc # "finish"
        /\ UNCHANGED <<wfs, leases, audit, notified>> /\ faults' \in {faults, faults + 1}
    BY <1>3, <1>c, <2>1, <2>2 DEF RouteSaveDecision, Accept
  <2> QED
    BY Zenon, <2>a, <2>b, EarlyGoto
<1>4. ASSUME NEW w \in WorkflowID, RouteFindWorkflow(t, w) PROVE Early(t)
  <2>1. req[t].op = "route" /\ req[t].pc = "find_wf"
    BY <1>4 DEF RouteFindWorkflow, At
  <2>2. CASE CanTransition(wfs[w], "routed")
    <3>1. PICK f : f = [req[t] EXCEPT !.pc = "update_wf", !.wf = w,
                                      !.row = MarkRouted(wfs[w], req[t].id)]
      OBVIOUS
    <3>2. f.op = "route" /\ f.pc = "update_wf" /\ f.row = MarkRouted(wfs[w], req[t].id)
      BY <1>0, <2>1, <3>1 DEF Frame
    <3>3. NewFrame(f)
      BY <1>0, <1>b, <3>2, MarkedStatus
    <3> QED
      BY ZenonT(40), <1>4, <2>1, <2>2, <3>1, <3>3, EarlyGoto DEF RouteFindWorkflow, Goto
  <2> QED
    BY <1>4, <2>1, <2>2, EarlyReturn DEF RouteFindWorkflow
<1>5. CASE RouteMissWorkflow(t)
  <2>1. PICK f : f = [req[t] EXCEPT !.pc = "create_wf"]
    BY ZenonT(40)
  <2>2. f.op = "route" /\ f.pc = "create_wf" /\ req[t].pc = "find_wf"
    BY <1>0, <1>5, <2>1 DEF RouteMissWorkflow, At, Frame
  <2>3. faults' \in {faults, faults + 1}
    BY <1>5 DEF RouteMissWorkflow, Fault
  <2>a. NewFrame(f)
    BY <1>a, <2>2
  <2>b. /\ req' = [req EXCEPT ![t] = f] /\ req[t].pc # "finish"
        /\ UNCHANGED <<wfs, leases, audit, notified>> /\ faults' \in {faults, faults + 1}
    BY <1>5, <1>c, <2>1, <2>2, <2>3 DEF RouteMissWorkflow, Goto
  <2> QED
    BY Zenon, <2>a, <2>b, EarlyGoto
<1>6. ASSUME NEW w \in WorkflowID, RouteCreateWorkflow(t, w) PROVE Early(t)
  <2>1. PICK new : new = NewWorkflowRun(req[t].task, Nil)
    OBVIOUS
  <2>2. PICK f : f = [req[t] EXCEPT !.pc = "update_wf", !.wf = w, !.row = MarkRouted(new, req[t].id)]
    OBVIOUS
  <2>3. f.op = "route" /\ f.pc = "update_wf" /\ f.row = MarkRouted(new, req[t].id)
        /\ req[t].pc = "create_wf"
    BY <1>0, <1>6, <2>2 DEF RouteCreateWorkflow, At, Frame
  <2>4. req[t].task \in TaskID
    BY <1>0, <1>6 DEF RouteCreateWorkflow, At, FrameInv
  <2>5. new \in Row /\ new.status = "created"
    BY <2>1, <2>4, NewRunHistory DEF NewWorkflowRun
  <2>6. NewFrame(f)
    BY <1>b, <2>3, <2>5, MarkedStatus
  <2>7. wfs' = [wfs EXCEPT ![w] = new] /\ UNCHANGED <<leases, audit, notified, faults>>
        /\ req' = [req EXCEPT ![t] = f]
    BY <1>6, <2>1, <2>2 DEF RouteCreateWorkflow, Goto
  <2>8. \A v \in WorkflowID : wfs'[v] = wfs[v] \/ wfs'[v].status = "created"
    BY <1>0, <2>5, <2>7
  <2> QED
    BY ZenonT(40), <1>d, <2>3, <2>6, <2>7, <2>8 DEF SameTrail, Reported, Quarantines
<1>7. CASE RouteAudit(t)
  <2>1. PICK f : f = [Idle EXCEPT !.op = "route", !.pc = "save_subtask1", !.task = req[t].task]
    OBVIOUS
  <2>2. f.op = "route" /\ f.pc = "save_subtask1" /\ req[t].op = "route"
    BY <1>7, <2>1 DEF Idle, RouteAudit, At
  <2>3. NewFrame(f)
    BY <1>a, <2>2
  <2>4. \A w \in WorkflowID : SameTrail(w)
    BY <1>7, RecordOther DEF RouteAudit, AuditAction
  <2>5. UNCHANGED <<wfs, leases, notified, faults>>
    BY <1>7 DEF RouteAudit
  <2>6. CASE req[t].arg = "decompose"
    <3>1. req' = [req EXCEPT ![t] = f]
      BY <1>7, <2>1, <2>6 DEF RouteAudit, Goto
    <3> QED
      BY ZenonT(40), <1>d, <2>2, <2>3, <2>4, <2>5, <3>1
  <2>7. CASE req[t].arg # "decompose"
    BY <1>7, <1>e, <2>2, <2>4, <2>5, <2>7 DEF RouteAudit
  <2> QED
    BY <2>6, <2>7
<1>8. ASSUME NEW sub \in TaskID, RouteSaveSubtask(t, sub) PROVE Early(t)
  <2>1. PICK f : f = [req[t] EXCEPT
                        !.pc = IF @ = "save_subtask1" THEN "audit_subtask1" ELSE "audit_subtask2",
                        !.id = sub]
    OBVIOUS
  <2>2. f.op = "route" /\ f.pc \in {"audit_subtask1", "audit_subtask2"} /\ req[t].pc # "finish"
    BY <1>0, <1>8, <2>1 DEF RouteSaveSubtask, Frame, FrameInv
  <2>a. NewFrame(f)
    BY <1>a, <2>2
  <2>b. /\ req' = [req EXCEPT ![t] = f] /\ req[t].pc # "finish"
        /\ UNCHANGED <<wfs, leases, audit, notified>> /\ faults' \in {faults, faults + 1}
    BY <1>8, <1>c, <2>1, <2>2 DEF RouteSaveSubtask, Goto
  <2> QED
    BY Zenon, <2>a, <2>b, EarlyGoto
<1>9. CASE RouteAuditSubtask(t)
  <2>1. PICK f : f = [req[t] EXCEPT !.pc = "save_subtask2", !.id = Nil]
    OBVIOUS
  <2>2. f.op = "route" /\ f.pc = "save_subtask2" /\ req[t].op = "route"
    BY <1>0, <1>9, <2>1 DEF RouteAuditSubtask, Frame, FrameInv
  <2>3. NewFrame(f)
    BY <1>a, <2>2
  <2>4. \A w \in WorkflowID : SameTrail(w)
    BY <1>9, RecordOther DEF RouteAuditSubtask, AuditAction
  <2>5. UNCHANGED <<wfs, leases, notified, faults>>
    BY <1>9 DEF RouteAuditSubtask
  <2>6. CASE req[t].pc = "audit_subtask1"
    <3>1. req' = [req EXCEPT ![t] = f]
      BY <1>9, <2>1, <2>6 DEF RouteAuditSubtask, Goto
    <3> QED
      BY ZenonT(40), <1>d, <2>2, <2>3, <2>4, <2>5, <3>1
  <2>7. CASE req[t].pc # "audit_subtask1"
    BY <1>9, <1>e, <2>2, <2>4, <2>5, <2>7 DEF RouteAuditSubtask
  <2> QED
    BY <2>6, <2>7
<1>10. ASSUME NEW task \in TaskID, NEW a \in PolicyAction, NEW d \in PolicyID,
              PolicySaveDecision(t, task, a, d)
       PROVE  Early(t)
  <2>1. PICK f : f = [Idle EXCEPT !.op = "policy", !.pc = "find_wf", !.task = task,
                                  !.id = d, !.arg = PolicyOutcome(tasks[task], a)]
    OBVIOUS
  <2>2. f.op = "policy" /\ f.pc = "find_wf"
    BY <2>1 DEF Idle
  <2>a. NewFrame(f)
    BY <1>a, <2>2
  <2>b. /\ req' = [req EXCEPT ![t] = f] /\ req[t].pc # "finish"
        /\ UNCHANGED <<wfs, leases, audit, notified>> /\ faults' \in {faults, faults + 1}
    BY <1>10, <1>c, <2>1, <2>2 DEF PolicySaveDecision, Accept
  <2> QED
    BY Zenon, <2>a, <2>b, EarlyGoto
<1>11. ASSUME NEW w \in WorkflowID, PolicyFindWorkflow(t, w) PROVE Early(t)
  <2>1. req[t].op = "policy" /\ req[t].pc = "find_wf"
    BY <1>11 DEF PolicyFindWorkflow, At
  <2>2. CASE CanTransition(wfs[w], "policy_checked")
    <3>1. PICK f : f = [req[t] EXCEPT !.pc = "update_wf", !.wf = w,
                                      !.row = MarkPolicyChecked(wfs[w], req[t].id)]
      OBVIOUS
    <3>2. f.op = "policy" /\ f.pc = "update_wf" /\ f.row = MarkPolicyChecked(wfs[w], req[t].id)
      BY <1>0, <2>1, <3>1 DEF Frame
    <3>3. NewFrame(f)
      BY <1>0, <1>b, <3>2, MarkedStatus
    <3> QED
      BY ZenonT(40), <1>11, <2>1, <2>2, <3>1, <3>3, EarlyGoto DEF PolicyFindWorkflow, Goto
  <2> QED
    BY <1>11, <2>1, <2>2, EarlyReturn DEF PolicyFindWorkflow
<1>12. CASE PolicyMissWorkflow(t)
  BY <1>12, EarlyReturn DEF PolicyMissWorkflow, At
<1>13. CASE PolicyAudit(t)
  BY <1>13, <1>e, RecordOther DEF PolicyAudit, AuditAction, At
<1> QED
  BY <1>1, <1>2, <1>3, <1>4, <1>5, <1>6, <1>7, <1>8, <1>9, <1>10, <1>11, <1>12, <1>13
     DEF AdmissionStep

\* So do StartWorkflow, RegisterAttempt, Pause, Resume, Kill and ResolveApproval
\* up to the shared statements.
LEMMA ControlEarly ==
  ASSUME IInv, NEW t \in Thread, ControlStep(t)
  PROVE  Early(t)
<1>0. /\ req \in [Thread -> Frame] /\ req[t] \in Frame /\ FrameInv(req[t])
  BY DEF IInv, TypeOK
<1>a. ASSUME NEW f, f.op \in {"start", "pause", "resume", "kill", "resolve"},
             f.pc \notin {"finish", "update_lease"}
      PROVE  NewFrame(f)
  BY <1>a DEF NewFrame, SafeFrame
<1>c. req[t] = Idle => req[t].pc # "finish"
  BY DEF Idle
<1>1. ASSUME NEW task \in TaskID, NEW d \in PolicyID, StartLoadPolicy(t, task, d)
      PROVE  Early(t)
  <2>1. PICK f : f = [Idle EXCEPT !.op = "start", !.pc = "load_wf", !.task = task,
                                  !.id = d, !.arg = policies[d].outcome]
    OBVIOUS
  <2>a. f.op = "start" /\ f.pc = "load_wf"
    BY <2>1 DEF Idle
  <2>2. NewFrame(f)
    BY <1>a, <2>a
  <2>3. /\ req' = [req EXCEPT ![t] = f] /\ req[t].pc # "finish"
        /\ UNCHANGED <<wfs, leases, audit, notified>> /\ faults' \in {faults, faults + 1}
    BY <1>1, <1>c, <2>1 DEF StartLoadPolicy, Accept
  <2> QED
    BY Zenon, <2>2, <2>3, EarlyGoto
<1>2. ASSUME NEW w \in WorkflowID, StartLoadWorkflow(t, w) PROVE Early(t)
  <2> DEFINE target == StartTarget(req[t].arg)
             row == TransitionTo(wfs[w], target)
  <2>1. /\ req[t].op = "start" /\ req[t].pc # "finish"
        /\ UNCHANGED <<wfs, leases, audit, notified>> /\ faults' \in {faults, faults + 1}
    BY <1>2 DEF StartLoadWorkflow, At
  <2>2. CASE CanTransition(wfs[w], target)
    <3>1. PICK f : f = [req[t] EXCEPT !.pc = StartFirstWrite(req[t].arg), !.wf = w, !.row = row]
      OBVIOUS
    <3>2. f.op = "start" /\ f.pc = StartFirstWrite(req[t].arg)
      BY <1>0, <2>1, <3>1 DEF Frame
    <3>3. NewFrame(f)
      BY <1>a, <3>2 DEF StartFirstWrite
    <3>4. req' = [req EXCEPT ![t] = f]
      BY <1>2, <2>2, <3>1 DEF StartLoadWorkflow, Goto
    <3> QED
      BY Zenon, <2>1, <3>3, <3>4, EarlyGoto
  <2> QED
    BY <1>2, <2>1, <2>2, EarlyReturn DEF StartLoadWorkflow
<1>3. CASE StartMissWorkflow(t)
  BY <1>3, EarlyReturn DEF StartMissWorkflow, At
<1>4. ASSUME NEW a \in ApprovalID, StartSaveApproval(t, a) PROVE Early(t)
  <2>1. PICK f : f = [req[t] EXCEPT !.pc = "update_wf"]
    BY Zenon
  <2>2. NewFrame(f)
    BY <1>0, <1>4, <1>a, <2>1 DEF StartSaveApproval, At, Frame
  <2>3. /\ req' = [req EXCEPT ![t] = f] /\ req[t].pc # "finish"
        /\ UNCHANGED <<wfs, leases, audit, notified>> /\ faults' \in {faults, faults + 1}
    BY <1>4, <2>1 DEF StartSaveApproval, Goto, At
  <2> QED
    BY Zenon, <2>2, <2>3, EarlyGoto
<1>5. ASSUME NEW w \in WorkflowID, NEW s \in AttemptStatus, AttemptLoadWorkflow(t, w, s)
      PROVE  Early(t)
  <2>1. PICK f : f = [Idle EXCEPT !.op = "attempt", !.pc = "load_lease", !.wf = w,
                                  !.row = wfs[w], !.arg = s]
    OBVIOUS
  <2>2. NewFrame(f)
    BY <1>5, <2>1 DEF AttemptLoadWorkflow, TerminalStates, Idle, NewFrame, SafeFrame
  <2>3. /\ req' = [req EXCEPT ![t] = f] /\ req[t].pc # "finish"
        /\ UNCHANGED <<wfs, leases, audit, notified>> /\ faults' \in {faults, faults + 1}
    BY <1>5, <1>c, <2>1 DEF AttemptLoadWorkflow, Accept
  <2> QED
    BY Zenon, <2>2, <2>3, EarlyGoto
<1>6. CASE AttemptLoadLease(t)
  <2> DEFINE w == req[t].wf
             lease == RecordAttempt(leases[w])
             row == req[t].row
             target == AttemptTarget(req[t].arg, lease, row)
             recorded == [req[t] EXCEPT !.pc = "update_lease", !.lease = lease]
  <2>1. /\ req[t].op = "attempt" /\ req[t].pc # "finish" /\ w \in WorkflowID
        /\ UNCHANGED <<wfs, leases, audit, notified>> /\ faults' \in {faults, faults + 1}
    BY <1>0, <1>6 DEF AttemptLoadLease, At, FrameInv, Exists
  <2>2. ASSUME NEW f, f.op = "attempt", f.pc = "update_lease", f.wf = w, f.lease = lease,
               req' = [req EXCEPT ![t] = f], leases[w].status = "active",
               f.row.status \in {row.status, target}
        PROVE  Early(t)
    <3>a. SafeFrame(req[t]) /\ f.row.status = "quarantined" => lease.status \notin Unused
      <4>1. SafeFrame(req[t]) => row.status # "quarantined"
        BY <1>6 DEF AttemptLoadLease, At, SafeFrame
      <4>2. target = "quarantined" /\ row.status # "quarantined" => ~HasRetryBudget(lease)
        BY DEF AttemptTarget
      <4>3. lease.status = "active" => HasRetryBudget(lease)
        <5>1. leases[w].used \in Nat
          BY <2>1 DEF IInv, TypeOK, Lease
        <5> QED
          BY <5>1, MaxAttemptsAssumption DEF RecordAttempt, HasRetryBudget
      <4>4. lease.status # "none"
        BY DEF RecordAttempt
      <4> QED
        BY <2>2, <4>1, <4>2, <4>3, <4>4 DEF Unused
    <3>1. NewFrame(f)
      BY <2>1, <2>2, <3>a DEF NewFrame, SafeFrame
    <3> QED
      BY Zenon, <2>1, <2>2, <3>1, EarlyGoto
  <2>3. CASE ~CanRecordAttempt(leases[w])
    BY <1>6, <2>1, <2>3, EarlyReturn DEF AttemptLoadLease
  <2>4. CASE CanRecordAttempt(leases[w]) /\ target = row.status
    <3>1. PICK f : f = recorded
      OBVIOUS
    <3>2. f.op = "attempt" /\ f.pc = "update_lease" /\ f.wf = w /\ f.lease = lease /\ f.row = row
      BY <1>0, <2>1, <3>1 DEF Frame
    <3>3. req' = [req EXCEPT ![t] = f] /\ leases[w].status = "active"
      BY <1>6, <2>4, <3>1 DEF AttemptLoadLease, Goto, CanRecordAttempt
    <3> QED
      BY Zenon, <2>2, <3>2, <3>3
  <2>5. CASE CanRecordAttempt(leases[w]) /\ target # row.status /\ CanTransition(row, target)
    <3>1. PICK f : f = [recorded EXCEPT !.row = TransitionTo(row, target)]
      OBVIOUS
    <3>2. f.op = "attempt" /\ f.pc = "update_lease" /\ f.wf = w /\ f.lease = lease
          /\ f.row.status = target
      BY ZenonT(40), <1>0, <2>1, <3>1 DEF Frame, Row, TransitionTo
    <3>3. req' = [req EXCEPT ![t] = f] /\ leases[w].status = "active"
      BY <1>6, <2>5, <3>1 DEF AttemptLoadLease, Goto, CanRecordAttempt
    <3> QED
      BY Zenon, <2>2, <3>2, <3>3
  <2>6. CASE CanRecordAttempt(leases[w]) /\ target # row.status /\ ~CanTransition(row, target)
    BY <1>6, <2>1, <2>6, EarlyReturn DEF AttemptLoadLease
  <2> QED
    BY <2>3, <2>4, <2>5, <2>6
<1>7. ASSUME NEW w \in WorkflowID, PauseLoadWorkflow(t, w) PROVE Early(t)
  <2>1. PICK f : f = [Idle EXCEPT !.op = "pause", !.pc = "update_wf", !.wf = w,
                                  !.row = TransitionTo(wfs[w], "paused")]
    OBVIOUS
  <2>a. f.op = "pause" /\ f.pc = "update_wf"
    BY <2>1 DEF Idle
  <2>2. NewFrame(f)
    BY <1>a, <2>a
  <2>3. /\ req' = [req EXCEPT ![t] = f] /\ req[t].pc # "finish"
        /\ UNCHANGED <<wfs, leases, audit, notified>> /\ faults' \in {faults, faults + 1}
    BY <1>7, <1>c, <2>1 DEF PauseLoadWorkflow, Accept
  <2> QED
    BY Zenon, <2>2, <2>3, EarlyGoto
<1>8. ASSUME NEW w \in WorkflowID, ResumeLoadWorkflow(t, w) PROVE Early(t)
  <2>1. PICK f : f = [Idle EXCEPT !.op = "resume", !.pc = "load_lease", !.wf = w, !.row = wfs[w]]
    OBVIOUS
  <2>a. f.op = "resume" /\ f.pc = "load_lease"
    BY <2>1 DEF Idle
  <2>2. NewFrame(f)
    BY <1>a, <2>a
  <2>3. /\ req' = [req EXCEPT ![t] = f] /\ req[t].pc # "finish"
        /\ UNCHANGED <<wfs, leases, audit, notified>> /\ faults' \in {faults, faults + 1}
    BY <1>8, <1>c, <2>1 DEF ResumeLoadWorkflow, Accept
  <2> QED
    BY Zenon, <2>2, <2>3, EarlyGoto
<1>9. CASE ResumeLoadLease(t)
  <2>1. /\ req[t].op = "resume" /\ req[t].pc # "finish"
        /\ UNCHANGED <<wfs, leases, audit, notified>> /\ faults' \in {faults, faults + 1}
    BY <1>9 DEF ResumeLoadLease, At
  <2>2. PICK f : f = [req[t] EXCEPT !.pc = "update_wf", !.row = TransitionTo(req[t].row, "running")]
    OBVIOUS
  <2>a. f.op = "resume" /\ f.pc = "update_wf"
    BY <1>0, <2>1, <2>2 DEF Frame
  <2>3. NewFrame(f)
    BY <1>a, <2>a
  <2>4. Return(t) \/ req' = [req EXCEPT ![t] = f]
    BY <1>9, <2>2 DEF ResumeLoadLease, Goto
  <2> QED
    BY Zenon, <2>1, <2>3, <2>4, EarlyGoto, EarlyReturn
<1>10. ASSUME NEW w \in WorkflowID, KillLoadWorkflow(t, w) PROVE Early(t)
  <2>1. PICK f : f = [Idle EXCEPT !.op = "kill", !.pc = "load_lease", !.wf = w,
                                  !.row = TransitionTo(wfs[w], "killed")]
    OBVIOUS
  <2>a. f.op = "kill" /\ f.pc = "load_lease"
    BY <2>1 DEF Idle
  <2>2. NewFrame(f)
    BY <1>a, <2>a
  <2>3. /\ req' = [req EXCEPT ![t] = f] /\ req[t].pc # "finish"
        /\ UNCHANGED <<wfs, leases, audit, notified>> /\ faults' \in {faults, faults + 1}
    BY <1>10, <1>c, <2>1 DEF KillLoadWorkflow, Accept
  <2> QED
    BY Zenon, <2>2, <2>3, EarlyGoto
<1>11. CASE KillLoadLease(t)
  <2> DEFINE lease == leases[req[t].wf]
  <2>1. /\ req[t].op = "kill" /\ req[t].pc # "finish"
        /\ UNCHANGED <<wfs, leases, audit, notified>> /\ faults' \in {faults, faults + 1}
    BY <1>11 DEF KillLoadLease, At
  <2>2. CASE CanRevoke(lease)
    <3>1. PICK f : f = [req[t] EXCEPT !.pc = "update_lease", !.lease = Revoke(lease)]
      OBVIOUS
    <3>2. lease \in Lease
      BY <1>0, <1>11 DEF KillLoadLease, At, FrameInv, Exists, IInv, TypeOK
    <3>3. f.op = "kill" /\ f.pc = "update_lease" /\ f.lease = Revoke(lease)
      BY <1>0, <2>1, <3>1 DEF Frame
    <3>4. f.lease.status = "revoked"
      BY <3>2, <3>3 DEF Revoke, Lease
    <3>5. NewFrame(f)
      BY <3>3, <3>4 DEF NewFrame, SafeFrame
    <3>6. req' = [req EXCEPT ![t] = f]
      BY <1>11, <2>2, <3>1 DEF KillLoadLease, Goto
    <3> QED
      BY Zenon, <2>1, <3>5, <3>6, EarlyGoto
  <2>3. CASE ~CanRevoke(lease)
    <3>1. PICK f : f = [req[t] EXCEPT !.pc = "update_wf"]
      BY Zenon
    <3>2. NewFrame(f)
      BY <1>0, <1>a, <2>1, <3>1 DEF Frame
    <3>3. req' = [req EXCEPT ![t] = f]
      BY <1>11, <2>3, <3>1 DEF KillLoadLease, Goto
    <3> QED
      BY Zenon, <2>1, <3>2, <3>3, EarlyGoto
  <2> QED
    BY <2>2, <2>3
<1>12. CASE KillLeaseFault(t)
  <2>1. PICK f : f = [req[t] EXCEPT !.pc = "update_wf", !.lease = NoLease]
    OBVIOUS
  <2>a. f.op = "kill" /\ f.pc = "update_wf"
    BY <1>0, <1>12, <2>1 DEF KillLeaseFault, At, Frame
  <2>2. NewFrame(f)
    BY <1>a, <2>a
  <2>3. /\ req' = [req EXCEPT ![t] = f] /\ req[t].pc # "finish"
        /\ UNCHANGED <<wfs, leases, audit, notified>> /\ faults' \in {faults, faults + 1}
    BY <1>12, <2>1 DEF KillLeaseFault, Goto, At, Fault
  <2> QED
    BY Zenon, <2>2, <2>3, EarlyGoto
<1>13. ASSUME NEW a \in ApprovalID, NEW r \in Resolution, ResolveLoadApproval(t, a, r)
       PROVE  Early(t)
  <2>1. PICK f : f = [Idle EXCEPT !.op = "resolve", !.pc = "update_approval",
                                  !.wf = approvals[a].wf, !.id = a, !.arg = r]
    OBVIOUS
  <2>a. f.op = "resolve" /\ f.pc = "update_approval"
    BY <2>1 DEF Idle
  <2>2. NewFrame(f)
    BY <1>a, <2>a
  <2>3. /\ req' = [req EXCEPT ![t] = f] /\ req[t].pc # "finish"
        /\ UNCHANGED <<wfs, leases, audit, notified>> /\ faults' \in {faults, faults + 1}
    BY <1>13, <1>c, <2>1 DEF ResolveLoadApproval, Accept
  <2> QED
    BY Zenon, <2>2, <2>3, EarlyGoto
<1>14. CASE ResolveUpdateApproval(t)
  <2>1. PICK f : f = [req[t] EXCEPT !.pc = "load_wf"]
    BY Zenon
  <2>2. NewFrame(f)
    BY <1>0, <1>14, <1>a, <2>1 DEF ResolveUpdateApproval, At, Frame
  <2>3. /\ req' = [req EXCEPT ![t] = f] /\ req[t].pc # "finish"
        /\ UNCHANGED <<wfs, leases, audit, notified>> /\ faults' \in {faults, faults + 1}
    BY <1>14, <2>1 DEF ResolveUpdateApproval, Goto, At
  <2> QED
    BY Zenon, <2>2, <2>3, EarlyGoto
<1>15. CASE ResolveLoadWorkflow(t)
  <2>1. /\ req[t].op = "resolve" /\ req[t].pc # "finish"
        /\ UNCHANGED <<wfs, leases, audit, notified>> /\ faults' \in {faults, faults + 1}
    BY <1>15 DEF ResolveLoadWorkflow, At
  <2>2. PICK f : f = [req[t] EXCEPT
                        !.pc = IF req[t].arg = "approved" THEN "save_lease" ELSE "update_wf",
                        !.row = Resolved(wfs[req[t].wf], req[t].arg)]
    OBVIOUS
  <2>a. f.op = "resolve" /\ f.pc \in {"save_lease", "update_wf"}
    BY <1>0, <2>1, <2>2 DEF Frame
  <2>3. NewFrame(f)
    BY <1>a, <2>a
  <2>4. Return(t) \/ req' = [req EXCEPT ![t] = f]
    BY <1>15, <2>2 DEF ResolveLoadWorkflow, Goto
  <2> QED
    BY Zenon, <2>1, <2>3, <2>4, EarlyGoto, EarlyReturn
<1> QED
  BY <1>1, <1>2, <1>3, <1>4, <1>5, <1>6, <1>7, <1>8, <1>9, <1>10, <1>11, <1>12, <1>13,
     <1>14, <1>15 DEF ControlStep

---------------------------------------------------------------------------
\* Terminations are announced

\* The steps before the shared statements hide no termination.
LEMMA EarlyAnnounce ==
  ASSUME IInv, AnnounceInv, NEW t \in Thread, Early(t)
  PROVE  AnnounceInv'
<1>1. faults' = 0 => faults = 0
  BY StoreAssumption DEF Early, IInv, TypeOK
<1>2. ASSUME NEW u \in Thread PROVE SilentFrame(req'[u])
  BY DEF AnnounceInv, Early, NewFrame, SafeFrame, SilentFrame
<1>3. ASSUME faults' = 0, NEW w \in WorkflowID, wfs'[w].status \in TerminalStates
      PROVE  \/ notified'[w]["workflow_terminated"] > 0
             \/ \E u \in Thread : /\ req'[u].pc = "finish" /\ req'[u].wf = w
                                  /\ req'[u].row.status \in TerminalStates
  <2>1. wfs'[w] = wfs[w]
    BY <1>3 DEF Early, TerminalStates
  <2>2. CASE notified[w]["workflow_terminated"] > 0
    BY <2>2 DEF Early
  <2>3. CASE \E u \in Thread : /\ req[u].pc = "finish" /\ req[u].wf = w
                               /\ req[u].row.status \in TerminalStates
    <3>1. PICK u \in Thread : /\ req[u].pc = "finish" /\ req[u].wf = w
                              /\ req[u].row.status \in TerminalStates
      BY <2>3
    <3>2. u # t
      BY <3>1 DEF AnnounceInv, SilentFrame, Early
    <3> QED
      BY <3>1, <3>2 DEF Early
  <2> QED
    BY <1>1, <1>3, <2>1, <2>2, <2>3 DEF AnnounceInv, TerminationAnnounced
<1> QED
  BY <1>2, <1>3 DEF AnnounceInv, TerminationAnnounced

\* Writing a lease, or breaking off, which is a fault, hides none either.
LEMMA LeaseAnnounce ==
  ASSUME IInv, AnnounceInv, NEW t \in Thread, SaveLease(t) \/ UpdateLease(t) \/ Abort(t)
  PROVE  AnnounceInv'
<1>0. /\ req \in [Thread -> Frame] /\ faults \in Nat
  BY StoreAssumption DEF IInv, TypeOK
<1>1. UNCHANGED <<wfs, notified>> /\ \A u \in Thread \ {t} : req'[u] = req[u]
  BY <1>0 DEF SaveLease, UpdateLease, Abort, Goto, Return
<1>2. faults' = 0 => faults = 0 /\ req[t].pc # "finish"
  BY <1>0 DEF SaveLease, UpdateLease, Abort, Fault
<1>3. SilentFrame(req'[t])
  <2>1. CASE req' = [req EXCEPT ![t] = Idle]
    BY <1>0, <2>1 DEF SilentFrame, Idle
  <2>2. CASE SaveLease(t) /\ req' = [req EXCEPT ![t] = [req[t] EXCEPT !.pc = "update_wf"]]
    <3>1. req[t].row.status = "running"
      BY ZenonT(40), <2>2 DEF SaveLease, IInv, FrameInv
    <3>2. req'[t].row = req[t].row
      BY <1>0, <2>2 DEF Frame
    <3> QED
      BY <3>1, <3>2 DEF SilentFrame, TerminalStates
  <2>3. CASE UpdateLease(t) /\ req' = [req EXCEPT ![t] = [req[t] EXCEPT !.pc = "update_wf", !.lease = NoLease]]
    <3>1. req'[t].op = req[t].op /\ req'[t].row = req[t].row
      BY <1>0, <2>3 DEF Frame
    <3> QED
      BY <2>3, <3>1 DEF UpdateLease, AnnounceInv, SilentFrame
  <2> QED
    BY <2>1, <2>2, <2>3 DEF SaveLease, UpdateLease, Abort, Goto, Return
<1>4. ASSUME NEW u \in Thread PROVE SilentFrame(req'[u])
  BY <1>1, <1>3 DEF AnnounceInv
<1>5. ASSUME faults' = 0, NEW w \in WorkflowID, wfs'[w].status \in TerminalStates
      PROVE  \/ notified'[w]["workflow_terminated"] > 0
             \/ \E u \in Thread : /\ req'[u].pc = "finish" /\ req'[u].wf = w
                                  /\ req'[u].row.status \in TerminalStates
  <2>1. \/ notified[w]["workflow_terminated"] > 0
        \/ \E u \in Thread : /\ req[u].pc = "finish" /\ req[u].wf = w
                             /\ req[u].row.status \in TerminalStates
    BY <1>1, <1>2, <1>5 DEF AnnounceInv, TerminationAnnounced
  <2> QED
    BY <1>1, <1>2, <1>5, <2>1
<1> QED
  BY <1>4, <1>5 DEF AnnounceInv, TerminationAnnounced

\* A request that writes a terminal status is then about to announce it.
LEMMA UpdateAnnounce ==
  ASSUME IInv, AnnounceInv, NEW t \in Thread, UpdateWorkflow(t)
  PROVE  AnnounceInv'
<1>0. /\ req \in [Thread -> Frame] /\ wfs \in [WorkflowID -> Row]
  BY DEF IInv, TypeOK
<1>1. /\ UNCHANGED <<notified, faults>> /\ \A u \in Thread \ {t} : req'[u] = req[u]
      /\ req[t].pc = "update_wf"
  BY <1>0 DEF UpdateWorkflow, Goto
<1>2. /\ req'[t].pc = "finish" /\ req'[t].wf = req[t].wf /\ req'[t].row = req[t].row
      /\ req'[t].op = req[t].op
  BY <1>0 DEF UpdateWorkflow, Goto, Frame
<1>3. \A w \in WorkflowID : wfs'[w] = wfs[w] \/ (w = req[t].wf /\ wfs'[w] = req[t].row)
  BY <1>0 DEF UpdateWorkflow
<1>4. ASSUME NEW u \in Thread PROVE SilentFrame(req'[u])
  BY <1>1, <1>2 DEF AnnounceInv, SilentFrame
<1>5. ASSUME faults' = 0, NEW w \in WorkflowID, wfs'[w].status \in TerminalStates
      PROVE  \/ notified'[w]["workflow_terminated"] > 0
             \/ \E u \in Thread : /\ req'[u].pc = "finish" /\ req'[u].wf = w
                                  /\ req'[u].row.status \in TerminalStates
  <2>1. CASE w = req[t].wf /\ wfs'[w] = req[t].row
    BY <1>2, <1>5, <2>1
  <2>2. CASE wfs'[w] = wfs[w]
    <3>1. \/ notified[w]["workflow_terminated"] > 0
          \/ \E u \in Thread : /\ req[u].pc = "finish" /\ req[u].wf = w
                               /\ req[u].row.status \in TerminalStates
      BY <1>1, <1>5, <2>2 DEF AnnounceInv, TerminationAnnounced
    <3> QED
      BY <1>1, <3>1
  <2> QED
    BY <1>3, <2>1, <2>2
<1> QED
  BY <1>4, <1>5 DEF AnnounceInv, TerminationAnnounced

\* The callback is made unless it is lost, which is a fault.
LEMMA FinishAnnounce ==
  ASSUME IInv, AnnounceInv, NEW t \in Thread,
         NEW lost \in SUBSET (AuditsOf(req[t]) \cup CallbacksOf(req[t])), Finish(t, lost)
  PROVE  AnnounceInv'
<1>0. /\ req \in [Thread -> Frame] /\ faults \in Nat
      /\ notified \in [WorkflowID -> [Callback -> Nat]]
  BY StoreAssumption DEF IInv, TypeOK
<1>a. req[t].wf \in WorkflowID
  BY Zenon DEF IInv, FrameInv, Exists, Finish
<1>1. UNCHANGED wfs /\ \A u \in Thread \ {t} : req'[u] = req[u]
  BY <1>0 DEF Finish, Return
<1>2. SilentFrame(req'[t])
  BY <1>0 DEF Finish, Return, Idle, SilentFrame
<1>3. faults' = 0 => faults = 0 /\ lost = {}
  <2>1. IsFiniteSet(lost) /\ Cardinality(lost) \in Nat
    BY EffectsFinite
  <2>2. faults' = 0 => faults = 0 /\ Cardinality(lost) = 0
    BY <1>0, <2>1 DEF Finish
  <2> QED
    BY <2>1, <2>2, FS_EmptySet
<1> DEFINE called(c) == IF c \in CallbacksOf(req[t]) \ lost THEN 1 ELSE 0
           count == [c \in Callback |-> notified[req[t].wf][c] + called(c)]
<1>4. notified' = [notified EXCEPT ![req[t].wf] = count]
  BY DEF Finish
<1>5. /\ notified'[req[t].wf]["workflow_terminated"]
           = notified[req[t].wf]["workflow_terminated"] + called("workflow_terminated")
      /\ notified[req[t].wf]["workflow_terminated"] \in Nat
      /\ \A w \in WorkflowID : w # req[t].wf => notified'[w] = notified[w]
  BY <1>0, <1>a, <1>4 DEF Callback
<1>6. /\ called("workflow_terminated") \in {0, 1}
      /\ lost = {} /\ req[t].row.status \in TerminalStates => called("workflow_terminated") = 1
  <2>1. req[t].row.status \in TerminalStates => CallbacksOf(req[t]) = {"workflow_terminated"}
    BY DEF CallbacksOf, TerminalStates
  <2> QED
    BY <2>1
<1> HIDE DEF called, count
<1>7. ASSUME NEW u \in Thread PROVE SilentFrame(req'[u])
  BY <1>1, <1>2 DEF AnnounceInv
<1>8. ASSUME faults' = 0, NEW w \in WorkflowID, wfs'[w].status \in TerminalStates
      PROVE  \/ notified'[w]["workflow_terminated"] > 0
             \/ \E u \in Thread : /\ req'[u].pc = "finish" /\ req'[u].wf = w
                                  /\ req'[u].row.status \in TerminalStates
  <2>1. \/ notified[w]["workflow_terminated"] > 0
        \/ \E u \in Thread : /\ req[u].pc = "finish" /\ req[u].wf = w
                             /\ req[u].row.status \in TerminalStates
    BY <1>1, <1>3, <1>8 DEF AnnounceInv, TerminationAnnounced
  <2>2. CASE notified[w]["workflow_terminated"] > 0
    BY <1>5, <1>6, <2>2
  <2>3. CASE \E u \in Thread : /\ req[u].pc = "finish" /\ req[u].wf = w
                               /\ req[u].row.status \in TerminalStates
    <3>1. PICK u \in Thread : /\ req[u].pc = "finish" /\ req[u].wf = w
                              /\ req[u].row.status \in TerminalStates
      BY <2>3
    <3>2. CASE u = t
      BY <1>3, <1>5, <1>6, <1>8, <3>1, <3>2
    <3>3. CASE u # t
      BY <1>1, <3>1, <3>3
    <3> QED
      BY <3>2, <3>3
  <2> QED
    BY <2>1, <2>2, <2>3
<1> QED
  BY <1>7, <1>8 DEF AnnounceInv, TerminationAnnounced

\* Without faults a terminal run has been announced or is about to be,
\* whatever requests race.
THEOREM TerminationAnnouncedAlways == Spec => []TerminationAnnounced
<1>1. Init => AnnounceInv
  BY DEF Init, AnnounceInv, TerminationAnnounced, SilentFrame, NoRun, NewWorkflowRun,
         TerminalStates, Idle
<1>2. IInv /\ AnnounceInv /\ [Next]_vars => AnnounceInv'
  <2> SUFFICES ASSUME IInv, AnnounceInv, [Next]_vars PROVE AnnounceInv'
    OBVIOUS
  <2>1. CASE UNCHANGED vars
    BY <2>1 DEF vars, AnnounceInv, TerminationAnnounced, SilentFrame
  <2>2. ASSUME NEW t \in Thread, AdmissionStep(t) \/ ControlStep(t) \/ SharedStep(t)
        PROVE  AnnounceInv'
    <3>1. CASE AdmissionStep(t) \/ ControlStep(t)
      BY <3>1, AdmissionEarly, ControlEarly, EarlyAnnounce
    <3>2. CASE SharedStep(t)
      BY <3>2, LeaseAnnounce, UpdateAnnounce, FinishAnnounce DEF SharedStep
    <3> QED
      BY <2>2, <3>1, <3>2
  <2> QED
    BY <2>1, <2>2 DEF Next
<1>3. AnnounceInv => TerminationAnnounced
  BY DEF AnnounceInv
<1> QED
  BY <1>1, <1>2, <1>3, Invariance, PTL DEF Spec

---------------------------------------------------------------------------
\* One reporter keeps the budget

Noted == reporters' = reporters \cup {u \in Thread : req'[u].op = "attempt"}

\* The counters of a run, and that a frame which attempts is about a run.
LEMMA BudgetTypes ==
  ASSUME IInv
  PROVE  /\ req \in [Thread -> Frame]
         /\ \A w \in WorkflowID : /\ leases[w] \in Lease /\ leases[w].used \in Nat
                                  /\ Reported(w) \in Nat /\ Quarantines(w) \in Nat
                                  /\ SoundLease(leases[w])
         /\ \A u \in Thread :
              req[u].pc \in {"load_lease", "save_lease", "update_lease", "update_wf", "finish"} =>
                req[u].wf \in WorkflowID
<1>1. ASSUME NEW w \in WorkflowID
      PROVE  leases[w] \in Lease /\ leases[w].used \in Nat /\ SoundLease(leases[w])
  BY DEF IInv, TypeOK, StoreInv, Lease
<1>2. ASSUME NEW w \in WorkflowID PROVE Reported(w) \in Nat /\ Quarantines(w) \in Nat
  BY DEF IInv, TypeOK, Reported, Quarantines, AuditAction
<1>3. ASSUME NEW u \in Thread,
             req[u].pc \in {"load_lease", "save_lease", "update_lease", "update_wf", "finish"}
      PROVE  req[u].wf \in WorkflowID
  BY ZenonT(40), <1>3 DEF IInv, FrameInv, Exists
<1>4. req \in [Thread -> Frame]
  BY DEF IInv, TypeOK
<1> QED
  BY <1>1, <1>2, <1>3, <1>4

\* A step of t keeps the invariant if it keeps that of the tables and leaves t
\* and, when t is not the one reporter, the others a covered frame.
LEMMA BudgetStep ==
  ASSUME BudgetInv, Noted, NEW t \in Thread, \A u \in Thread \ {t} : req'[u] = req[u],
         SafeFrame(req'[t]),
         OneReporter /\ OneReporter' =>
           /\ BudgetStore' /\ BudgetFrame(req[t])'
           /\ \A u \in Thread \ {t} : BudgetFrame(req[u])'
  PROVE  BudgetInv'
<1>1. OneReporter' => OneReporter
  BY DEF OneReporter, Noted
<1>2. ASSUME NEW u \in Thread
      PROVE  (req'[u].op = "attempt" => u \in reporters') /\ SafeFrame(req'[u])
  BY DEF BudgetInv, Noted
<1>3. ASSUME OneReporter' PROVE BudgetStore' /\ \A u \in Thread : BudgetFrame(req[u])'
  BY <1>1, <1>3
<1> QED
  BY <1>2, <1>3 DEF BudgetInv

\* A frame that did not move stays covered if its run's lease and count did.
LEMMA BudgetKept ==
  ASSUME IInv, NEW u \in Thread, BudgetFrame(req[u]), req'[u] = req[u],
         req[u].wf \in WorkflowID =>
           leases'[req[u].wf] = leases[req[u].wf] /\ SameTrail(req[u].wf)
  PROVE  BudgetFrame(req[u])'
<1>1. PICK f : f = req[u]
  OBVIOUS
<1>2. f.pc \in {"load_lease", "update_lease", "update_wf", "finish"} => f.wf \in WorkflowID
  BY <1>1, BudgetTypes
<1>3. f.wf \in WorkflowID => leases'[f.wf] = leases[f.wf] /\ SameTrail(f.wf)
  BY <1>1 DEF SameTrail, Reported, Quarantines
<1>4. BudgetFrame(f)
  BY <1>1
<1>5. BudgetFrame(f)'
  BY <1>2, <1>3, <1>4 DEF BudgetFrame, SameTrail
<1> QED
  BY <1>1, <1>5 DEF BudgetFrame, Reported, Quarantines

\* The tables stay covered if no lease and no count changes.
LEMMA BudgetStoreKept ==
  ASSUME BudgetStore, UNCHANGED leases, \A w \in WorkflowID : SameTrail(w)
  PROVE  BudgetStore'
BY DEF BudgetStore, SameTrail

\* RegisterAttempt reads a usable lease that covers the trail, so the lease
\* with one more attempt covers one more entry.
LEMMA EarlyBudget ==
  ASSUME IInv, BudgetInv, Noted, NEW t \in Thread, Early(t)
  PROVE  BudgetInv'
<1>1. /\ UNCHANGED leases /\ \A w \in WorkflowID : SameTrail(w)
      /\ \A u \in Thread \ {t} : req'[u] = req[u]
      /\ NewFrame(req'[t])
  BY DEF Early
<1>2. ASSUME OneReporter, OneReporter'
      PROVE  /\ BudgetStore' /\ BudgetFrame(req[t])'
             /\ \A u \in Thread \ {t} : BudgetFrame(req[u])'
  <2>1. BudgetStore /\ \A u \in Thread : BudgetFrame(req[u])
    BY <1>2 DEF BudgetInv
  <2>2. BudgetStore'
    BY <1>1, <2>1, BudgetStoreKept
  <2>3. ASSUME NEW u \in Thread \ {t} PROVE BudgetFrame(req[u])'
    BY <1>1, <2>1, BudgetKept
  <2>4. BudgetFrame(req[t])'
    <3>1. PICK f : f = req'[t]
      OBVIOUS
    <3>2. CASE f.op = "attempt" /\ f.pc = "update_lease"
      <4>1. /\ f.wf \in WorkflowID /\ leases[f.wf].status = "active"
            /\ f.lease = RecordAttempt(leases[f.wf])
            /\ f.row.status = "quarantined" => f.lease.status \notin Unused
        BY <1>1, <3>1, <3>2 DEF NewFrame, BudgetInv
      <4>2. Reported(f.wf) <= leases[f.wf].used /\ Quarantines(f.wf) = 0
        BY <2>1, <4>1 DEF BudgetStore, Unused
      <4>3. Reported(f.wf) < f.lease.used
        BY <4>1, <4>2, BudgetTypes DEF RecordAttempt
      <4>4. BudgetFrame(f)'
        BY <1>1, <3>2, <4>1, <4>2, <4>3 DEF BudgetFrame, SameTrail
      <4> QED
        BY <3>1, <4>4 DEF BudgetFrame, Reported, Quarantines
    <3>3. CASE ~(f.op = "attempt" /\ f.pc = "update_lease")
      <4>1. f.op = "attempt" => f.pc = "load_lease"
        BY <1>1, <3>1, <3>3 DEF NewFrame
      <4> QED
        BY <3>1, <4>1 DEF BudgetFrame
    <3> QED
      BY <3>2, <3>3
  <2> QED
    BY <2>2, <2>3, <2>4
<1>3. SafeFrame(req'[t])
  BY <1>1 DEF NewFrame
<1> QED
  BY <1>1, <1>2, <1>3, BudgetStep

\* A first lease meets an empty trail and no attempt in flight.
LEMMA SaveLeaseBudget ==
  ASSUME IInv, BudgetInv, Noted, NEW t \in Thread, SaveLease(t)
  PROVE  BudgetInv'
<1>0. /\ req \in [Thread -> Frame] /\ req[t] \in Frame /\ leases \in [WorkflowID -> Lease]
      /\ req[t].wf \in WorkflowID
  BY BudgetTypes DEF SaveLease, IInv, TypeOK
<1>1. /\ \A u \in Thread \ {t} : req'[u] = req[u]
      /\ UNCHANGED audit /\ \A w \in WorkflowID : SameTrail(w)
  BY <1>0 DEF SaveLease, Goto, Return, SameTrail, Reported, Quarantines
<1>2. /\ req'[t] = Idle \/ (req'[t].pc = "update_wf" /\ req'[t].op = req[t].op)
  <2>1. req' = [req EXCEPT ![t] = Idle] \/ req' = [req EXCEPT ![t] = [req[t] EXCEPT !.pc = "update_wf"]]
    BY DEF SaveLease, Goto, Return
  <2> QED
    BY <1>0, <2>1 DEF Frame
<1>3. SafeFrame(req'[t])
  BY <1>2 DEF SafeFrame, Idle
<1>4. ASSUME OneReporter, OneReporter'
      PROVE  /\ BudgetStore' /\ BudgetFrame(req[t])'
             /\ \A u \in Thread \ {t} : BudgetFrame(req[u])'
  <2>1. BudgetStore /\ \A u \in Thread : BudgetFrame(req[u])
    BY <1>4 DEF BudgetInv
  <2>2. req'[t].op # "attempt"
    BY <1>2, <2>1 DEF BudgetFrame, SaveLease, Idle
  <2>3. CASE leases[req[t].wf] # NoLease
    <3>1. UNCHANGED leases
      BY <2>3 DEF SaveLease
    <3> QED
      BY ZenonT(40), <1>1, <2>1, <2>2, <3>1, BudgetKept, BudgetStoreKept DEF BudgetFrame
  <2>4. CASE leases[req[t].wf] = NoLease
    <3>1. /\ leases'[req[t].wf] = NewExecutionLease
          /\ \A w \in WorkflowID : w # req[t].wf => leases'[w] = leases[w]
      BY <1>0, <2>4 DEF SaveLease
    <3>2. BudgetStore'
      <4>1. Reported(req[t].wf) = 0 /\ Quarantines(req[t].wf) = 0
        BY <1>0, <2>1, <2>4 DEF BudgetStore, NoLease, Unused
      <4>2. ASSUME NEW w \in WorkflowID
            PROVE  /\ leases'[w].status = "active" => Reported(w) <= leases'[w].used
                   /\ leases'[w] = NoLease => Reported(w) = 0
                   /\ Reported(w) <= MaxAttempts
                   /\ leases'[w].status \in Unused => Quarantines(w) = 0
                   /\ Quarantines(w) <= 1
        BY <1>0, <2>1, <3>1, <4>1 DEF BudgetStore, NewExecutionLease
      <4> QED
        BY <1>1, <4>2 DEF BudgetStore, SameTrail
    <3>3. ASSUME NEW u \in Thread \ {t} PROVE BudgetFrame(req[u])'
      <4>1. PICK f : f = req[u]
        OBVIOUS
      <4>2. BudgetFrame(f) /\ req'[u] = f
        BY <1>1, <2>1, <4>1
      <4>3. f.op = "attempt" => f.wf \in WorkflowID
        BY <4>1, <4>2, BudgetTypes DEF BudgetFrame
      <4>4. CASE f.wf # req[t].wf
        BY <1>1, <2>1, <3>1, <4>1, <4>4, BudgetKept
      <4>5. CASE f.wf = req[t].wf
        <5>1. f.op = "attempt" => f.pc \in {"load_lease", "update_lease"}
          BY <2>4, <4>2, <4>5 DEF BudgetFrame
        <5>2. SameTrail(f.wf)
          BY <1>0, <1>1, <4>5
        <5>3. BudgetFrame(f)'
          BY <4>2, <5>1, <5>2 DEF BudgetFrame, SameTrail
        <5> QED
          BY <4>2, <5>3 DEF BudgetFrame, Reported, Quarantines
      <4> QED
        BY <4>4, <4>5
    <3> QED
      BY <2>2, <3>2, <3>3 DEF BudgetFrame
  <2> QED
    BY <2>3, <2>4
<1> QED
  BY <1>1, <1>3, <1>4, BudgetStep

\* An attempt writes a lease that covers it; a kill writes one that no attempt
\* can use again.
LEMMA UpdateLeaseBudget ==
  ASSUME IInv, BudgetInv, Noted, NEW t \in Thread, UpdateLease(t)
  PROVE  BudgetInv'
<1> DEFINE w == req[t].wf
           l == req[t].lease
<1>0. /\ req \in [Thread -> Frame] /\ req[t] \in Frame /\ leases \in [WorkflowID -> Lease]
      /\ w \in WorkflowID /\ l \in Lease
  BY BudgetTypes DEF UpdateLease, IInv, TypeOK, Frame
<1>1. /\ \A u \in Thread \ {t} : req'[u] = req[u]
      /\ \A v \in WorkflowID : SameTrail(v)
      /\ leases'[w] = l /\ \A v \in WorkflowID : v # w => leases'[v] = leases[v]
      /\ req[t].pc = "update_lease"
  BY <1>0 DEF UpdateLease, Goto, SameTrail, Reported, Quarantines
<1>2. /\ req'[t].pc = "update_wf" /\ req'[t].op = req[t].op /\ req'[t].wf = w
      /\ req'[t].row = req[t].row
  <2>1. req' = [req EXCEPT ![t] = [req[t] EXCEPT !.pc = "update_wf", !.lease = NoLease]]
    BY DEF UpdateLease, Goto
  <2> QED
    BY <1>0, <2>1 DEF Frame
<1>3. SafeFrame(req'[t])
  BY <1>2 DEF SafeFrame
<1>4. SoundLease(l) /\ l # NoLease /\ l.used \in Nat
  BY ZenonT(40), <1>0, <1>1 DEF IInv, FrameInv, Lease
<1>5. req[t].op = "attempt" \/ (req[t].op = "kill" /\ l.status = "revoked")
  BY <1>1 DEF BudgetInv, SafeFrame
<1>6. ASSUME OneReporter, OneReporter'
      PROVE  /\ BudgetStore' /\ BudgetFrame(req[t])'
             /\ \A u \in Thread \ {t} : BudgetFrame(req[u])'
  <2>1. BudgetStore /\ \A u \in Thread : BudgetFrame(req[u])
    BY <1>6 DEF BudgetInv
  <2>2. CASE req[t].op = "attempt"
    <3>1. /\ Reported(w) < l.used /\ Quarantines(w) = 0
          /\ req[t].row.status = "quarantined" => l.status \notin Unused
      BY <1>1, <2>1, <2>2 DEF BudgetFrame
    <3>2. l.used <= MaxAttempts /\ Reported(w) \in Nat
      BY <1>0, <1>4, MaxAttemptsAssumption, BudgetTypes DEF SoundLease
    <3>3. BudgetStore'
      <4>1. ASSUME NEW v \in WorkflowID
            PROVE  /\ leases'[v].status = "active" => Reported(v) <= leases'[v].used
                   /\ leases'[v] = NoLease => Reported(v) = 0
                   /\ Reported(v) <= MaxAttempts
                   /\ leases'[v].status \in Unused => Quarantines(v) = 0
                   /\ Quarantines(v) <= 1
        BY <1>1, <1>4, <2>1, <3>1, <3>2 DEF BudgetStore
      <4> QED
        BY <1>1, <4>1 DEF BudgetStore, SameTrail
    <3>4. ASSUME NEW u \in Thread \ {t} PROVE BudgetFrame(req[u])'
      <4>1. req[u].op # "attempt"
        BY <1>6, <2>2, <3>4 DEF BudgetInv, OneReporter
      <4> QED
        BY <1>1, <4>1 DEF BudgetFrame
    <3>5. BudgetFrame(req[t])'
      <4>1. PICK f : f = req'[t]
        OBVIOUS
      <4>2. /\ leases'[f.wf] = l /\ Reported(f.wf)' = Reported(w) /\ f.pc = "update_wf"
            /\ Quarantines(f.wf)' = 0
            /\ f.row.status = "quarantined" => l.status \notin Unused
        BY <1>0, <1>1, <1>2, <3>1, <4>1 DEF SameTrail
      <4>3. Reported(w) < MaxAttempts
        BY <1>4, <3>1, <3>2, MaxAttemptsAssumption
      <4>4. BudgetFrame(f)'
        BY <1>4, <3>1, <4>2, <4>3 DEF BudgetFrame
      <4> QED
        BY <4>1, <4>4 DEF BudgetFrame, Reported, Quarantines
    <3> QED
      BY <3>3, <3>4, <3>5
  <2>3. CASE req[t].op = "kill" /\ l.status = "revoked"
    <3>1. BudgetStore'
      <4>1. ASSUME NEW v \in WorkflowID
            PROVE  /\ leases'[v].status = "active" => Reported(v) <= leases'[v].used
                   /\ leases'[v] = NoLease => Reported(v) = 0
                   /\ Reported(v) <= MaxAttempts
                   /\ leases'[v].status \in Unused => Quarantines(v) = 0
                   /\ Quarantines(v) <= 1
        BY <1>1, <1>4, <2>1, <2>3 DEF BudgetStore, Unused
      <4> QED
        BY <1>1, <4>1 DEF BudgetStore, SameTrail
    <3>2. ASSUME NEW u \in Thread \ {t} PROVE BudgetFrame(req[u])'
      <4>1. PICK f : f = req[u]
        OBVIOUS
      <4>2. BudgetFrame(f) /\ req'[u] = f
        BY <1>1, <2>1, <4>1
      <4>3. CASE f.wf # w
        BY <1>1, <2>1, <4>1, <4>3, BudgetKept
      <4>4. CASE f.wf = w
        <5>1. SameTrail(f.wf) /\ leases'[f.wf] = l
          BY <1>0, <1>1, <4>4
        <5>2. BudgetFrame(f)'
          BY <1>4, <2>3, <4>2, <5>1 DEF BudgetFrame, SameTrail, Unused
        <5> QED
          BY <4>2, <5>2 DEF BudgetFrame, Reported, Quarantines
      <4> QED
        BY <4>3, <4>4
    <3>3. BudgetFrame(req[t])'
      BY <1>2, <2>3 DEF BudgetFrame
    <3> QED
      BY <3>1, <3>2, <3>3
  <2> QED
    BY <1>5, <2>2, <2>3
<1> QED
  BY <1>1, <1>3, <1>6, BudgetStep

\* Writing the run keeps the attempt's frame covered.
LEMMA UpdateWorkflowBudget ==
  ASSUME IInv, BudgetInv, Noted, NEW t \in Thread, UpdateWorkflow(t)
  PROVE  BudgetInv'
<1>0. /\ req \in [Thread -> Frame] /\ req[t] \in Frame /\ req[t].wf \in WorkflowID
  BY BudgetTypes DEF UpdateWorkflow
<1>1. /\ \A u \in Thread \ {t} : req'[u] = req[u]
      /\ UNCHANGED leases /\ \A v \in WorkflowID : SameTrail(v)
      /\ req[t].pc = "update_wf"
  BY <1>0 DEF UpdateWorkflow, Goto, SameTrail, Reported, Quarantines
<1>2. /\ req'[t].pc = "finish" /\ req'[t].op = req[t].op /\ req'[t].wf = req[t].wf
      /\ req'[t].row = req[t].row
  BY <1>0 DEF UpdateWorkflow, Goto, Frame
<1>3. SafeFrame(req'[t])
  BY <1>2 DEF SafeFrame
<1>4. ASSUME OneReporter, OneReporter'
      PROVE  /\ BudgetStore' /\ BudgetFrame(req[t])'
             /\ \A u \in Thread \ {t} : BudgetFrame(req[u])'
  <2>1. BudgetStore /\ \A u \in Thread : BudgetFrame(req[u])
    BY <1>4 DEF BudgetInv
  <2>2. BudgetStore'
    BY <1>1, <2>1, BudgetStoreKept
  <2>3. \A u \in Thread \ {t} : BudgetFrame(req[u])'
    BY <1>1, <2>1, BudgetKept
  <2>4. BudgetFrame(req[t])'
    <3>1. PICK f : f = req'[t]
      OBVIOUS
    <3>2. /\ Reported(f.wf)' = Reported(f.wf) /\ Quarantines(f.wf)' = Quarantines(f.wf)
          /\ f.wf = req[t].wf /\ f.op = req[t].op /\ f.pc = "finish" /\ f.row = req[t].row
      BY <1>0, <1>1, <1>2, <3>1 DEF SameTrail
    <3>3. BudgetFrame(f)'
      BY ZenonT(40), <1>1, <2>1, <3>2 DEF BudgetFrame
    <3> QED
      BY <3>1, <3>3 DEF BudgetFrame, Reported, Quarantines
  <2> QED
    BY <2>2, <2>3, <2>4
<1> QED
  BY <1>1, <1>3, <1>4, BudgetStep

\* The entry that an attempt adds to the trail was covered before.
LEMMA FinishBudget ==
  ASSUME IInv, BudgetInv, Noted, NEW t \in Thread, NEW lost, Finish(t, lost)
  PROVE  BudgetInv'
<1>b. PICK w : w = req[t].wf
  OBVIOUS
<1> DEFINE recorded(a) == IF a \in AuditsOf(req[t]) \ lost THEN 1 ELSE 0
           count == [a \in AuditAction |-> audit[w][a] + recorded(a)]
<1>0. /\ req \in [Thread -> Frame] /\ req[t] \in Frame
      /\ audit \in [TaskID \cup WorkflowID -> [AuditAction -> Nat]]
  BY BudgetTypes DEF IInv, TypeOK
<1>a. w \in WorkflowID /\ req[t].pc = "finish"
  BY <1>b, BudgetTypes DEF Finish
<1>1. /\ audit' = [audit EXCEPT ![w] = count] /\ UNCHANGED leases
      /\ req' = [req EXCEPT ![t] = Idle]
  BY <1>b, Zenon DEF Finish, Return
<1>2. /\ \A u \in Thread \ {t} : req'[u] = req[u]
      /\ req'[t] = Idle
  BY <1>0, <1>1
<1>3. /\ Reported(w)' = Reported(w) + recorded("attempt_registered")
      /\ Quarantines(w)' = Quarantines(w) + recorded("workflow_quarantined")
      /\ \A v \in WorkflowID : v # w => SameTrail(v)
  BY <1>0, <1>a, <1>1 DEF SameTrail, Reported, Quarantines, AuditAction
<1>4. /\ recorded("attempt_registered") \in {0, 1} /\ recorded("workflow_quarantined") \in {0, 1}
      /\ req[t].op # "attempt" =>
           recorded("attempt_registered") = 0 /\ recorded("workflow_quarantined") = 0
      /\ req[t].op = "attempt" /\ req[t].row.status # "quarantined" =>
           recorded("workflow_quarantined") = 0
  BY DEF AuditsOf, AttemptAudits
<1> HIDE DEF recorded, count
<1>5. SafeFrame(req'[t])
  BY <1>2 DEF SafeFrame, Idle
<1>6. ASSUME OneReporter, OneReporter'
      PROVE  /\ BudgetStore' /\ BudgetFrame(req[t])'
             /\ \A u \in Thread \ {t} : BudgetFrame(req[u])'
  <2>1. BudgetStore /\ \A u \in Thread : BudgetFrame(req[u])
    BY <1>6 DEF BudgetInv
  <2>2. BudgetFrame(req[t])'
    BY <1>2 DEF BudgetFrame, Idle
  <2>3. CASE req[t].op # "attempt"
    <3>1. \A v \in WorkflowID : SameTrail(v)
      BY <1>a, <1>3, <1>4, <2>3, BudgetTypes DEF SameTrail
    <3> QED
      BY <1>1, <1>2, <2>1, <2>2, <3>1, BudgetKept, BudgetStoreKept
  <2>4. CASE req[t].op = "attempt"
    <3>1. /\ leases[w] # NoLease /\ Reported(w) < MaxAttempts
          /\ leases[w].status = "active" => Reported(w) < leases[w].used
          /\ Quarantines(w) = 0
          /\ req[t].row.status = "quarantined" => leases[w].status \notin Unused
      BY <1>a, <1>b, <2>1, <2>4 DEF BudgetFrame
    <3>a. /\ Quarantines(w)' \in {0, 1}
          /\ leases[w].status \in Unused => Quarantines(w)' = 0
      BY <1>3, <1>4, <2>4, <3>1
    <3>2. Reported(w) \in Nat /\ leases[w].used \in Nat
      BY <1>a, BudgetTypes
    <3>3. PICK n \in Nat, m \in Nat, k \in {0, 1} :
            n = Reported(w) /\ m = leases[w].used /\ k = recorded("attempt_registered")
      BY <1>4, <3>2, Zenon
    <3>4. /\ Reported(w)' = n + k /\ n < MaxAttempts
          /\ leases[w].status = "active" => n < m
      BY <1>3, <3>1, <3>3, Zenon
    <3>5. n + k <= MaxAttempts /\ (leases[w].status = "active" => n + k <= m)
      BY <3>4, MaxAttemptsAssumption
    <3>6. BudgetStore'
      <4>1. ASSUME NEW v \in WorkflowID, v # w
            PROVE  /\ leases'[v].status = "active" => Reported(v)' <= leases'[v].used
                   /\ leases'[v] = NoLease => Reported(v)' = 0
                   /\ Reported(v)' <= MaxAttempts
                   /\ leases'[v].status \in Unused => Quarantines(v)' = 0
                   /\ Quarantines(v)' <= 1
        BY <1>1, <1>3, <2>1, <4>1 DEF BudgetStore, SameTrail
      <4>2. /\ leases'[w].status = "active" => Reported(w)' <= leases'[w].used
            /\ leases'[w] # NoLease
            /\ Reported(w)' <= MaxAttempts
            /\ leases'[w].status \in Unused => Quarantines(w)' = 0
            /\ Quarantines(w)' <= 1
        BY <1>1, <3>1, <3>a, <3>3, <3>4, <3>5
      <4> QED
        BY <4>1, <4>2 DEF BudgetStore
    <3>7. ASSUME NEW u \in Thread \ {t} PROVE BudgetFrame(req[u])'
      <4>1. req[u].op # "attempt"
        BY <1>6, <2>4, <3>7 DEF BudgetInv, OneReporter
      <4> QED
        BY <1>2, <4>1 DEF BudgetFrame
    <3> QED
      BY <2>2, <3>6, <3>7
  <2> QED
    BY <2>3, <2>4
<1> QED
  BY <1>2, <1>5, <1>6, BudgetStep

\* A request that breaks off reports nothing.
LEMMA AbortBudget ==
  ASSUME IInv, BudgetInv, Noted, NEW t \in Thread, Abort(t)
  PROVE  BudgetInv'
<1>1. /\ req'[t] = Idle /\ \A u \in Thread \ {t} : req'[u] = req[u]
      /\ UNCHANGED leases /\ \A v \in WorkflowID : SameTrail(v)
  BY BudgetTypes DEF Abort, Return, SameTrail, Reported, Quarantines
<1>2. SafeFrame(req'[t]) /\ BudgetFrame(req[t])'
  BY <1>1 DEF SafeFrame, BudgetFrame, Idle
<1>3. ASSUME OneReporter
      PROVE  BudgetStore' /\ \A u \in Thread \ {t} : BudgetFrame(req[u])'
  BY <1>1, <1>3, BudgetKept, BudgetStoreKept DEF BudgetInv
<1> QED
  BY <1>1, <1>2, <1>3, BudgetStep

\* The histories add nothing to what the service does.
LEMMA ReporterInvariance == ReporterSpec => []IInv
<1>1. ReporterInit => Init
  BY DEF ReporterInit
<1>2. [ReporterNext]_historyVars => [Next]_vars
  BY DEF ReporterNext, historyVars
<1> QED
  BY <1>1, <1>2, Invariance, PTL DEF ReporterSpec, Spec

\* As long as one client at most reports attempts, no race with kills, pauses,
\* resumes and approvals lets the trail hold more attempts than the budget, or
\* two quarantines of one run.
THEOREM OneReporterKeepsBudgetAlways == ReporterSpec => []OneReporterKeepsBudget
<1>2. ReporterInit => BudgetInv
  <2> SUFFICES ASSUME ReporterInit PROVE BudgetInv
    OBVIOUS
  <2>1. \A t \in Thread : req[t] = Idle
    BY DEF ReporterInit, Init
  <2>2. \A w \in WorkflowID : leases[w] = NoLease /\ Reported(w) = 0 /\ Quarantines(w) = 0
    BY DEF ReporterInit, Init, Reported, Quarantines, AuditAction
  <2>3. BudgetStore
    BY <2>2, MaxAttemptsAssumption DEF BudgetStore, NoLease
  <2> QED
    BY <2>1, <2>3 DEF BudgetInv, SafeFrame, BudgetFrame, Idle
<1>3. IInv /\ BudgetInv /\ [ReporterNext]_historyVars => BudgetInv'
  <2> SUFFICES ASSUME IInv, BudgetInv, [ReporterNext]_historyVars PROVE BudgetInv'
    OBVIOUS
  <2>1. CASE UNCHANGED historyVars
    BY ZenonT(40), <2>1 DEF historyVars, vars, BudgetInv, OneReporter, SafeFrame, BudgetStore, BudgetFrame, Reported,
                Quarantines
  <2>2. CASE ReporterNext
    <3>1. Noted
      BY <2>2 DEF ReporterNext, Remember, Noted
    <3>2. PICK t \in Thread : AdmissionStep(t) \/ ControlStep(t) \/ SharedStep(t)
      BY <2>2 DEF ReporterNext, Next
    <3>3. CASE AdmissionStep(t) \/ ControlStep(t)
      BY <3>1, <3>3, AdmissionEarly, ControlEarly, EarlyBudget
    <3>4. CASE SharedStep(t)
      BY <3>1, <3>4, SaveLeaseBudget, UpdateLeaseBudget, UpdateWorkflowBudget, FinishBudget,
         AbortBudget DEF SharedStep
    <3> QED
      BY <3>2, <3>3, <3>4
  <2> QED
    BY <2>1, <2>2
<1>4. BudgetInv => OneReporterKeepsBudget
  BY DEF BudgetInv, OneReporterKeepsBudget, BudgetStore, AttemptsWithinBudget,
         QuarantineAuditedOnce, Reported, Quarantines
<1> QED
  BY <1>2, <1>3, <1>4, ReporterInvariance, PTL DEF ReporterSpec

---------------------------------------------------------------------------
\* A budget is granted once

\* A lease that is written back has been used or revoked.
SpentFrame(f) == f.pc = "update_lease" => f.lease # NewExecutionLease

\* No step leaves a request with a new lease to write back.
LEMMA SpentStep ==
  ASSUME IInv, \A u \in Thread : SpentFrame(req[u]), [Next]_vars
  PROVE  \A u \in Thread : SpentFrame(req'[u])
<1>1. CASE UNCHANGED vars
  BY <1>1 DEF vars
<1>2. ASSUME NEW t \in Thread, AdmissionStep(t) \/ ControlStep(t)
      PROVE  \A u \in Thread : SpentFrame(req'[u])
  <2>1. NewFrame(req'[t]) /\ \A u \in Thread \ {t} : req'[u] = req[u]
    BY <1>2, AdmissionEarly, ControlEarly DEF Early
  <2>2. PICK f : f = req'[t]
    OBVIOUS
  <2>3. CASE f.pc = "update_lease" /\ f.op = "attempt"
    <3>1. f.wf \in WorkflowID /\ f.lease = RecordAttempt(leases[f.wf])
      BY <2>1, <2>2, <2>3 DEF NewFrame
    <3>2. f.lease.used # 0
      BY <3>1, BudgetTypes DEF RecordAttempt
    <3> QED
      BY <2>1, <2>2, <3>2 DEF SpentFrame, NewExecutionLease
  <2>4. CASE f.pc = "update_lease" /\ f.op # "attempt"
    BY <2>1, <2>2, <2>4 DEF NewFrame, SafeFrame, SpentFrame, NewExecutionLease
  <2>5. CASE f.pc # "update_lease"
    BY <2>1, <2>2, <2>5 DEF SpentFrame
  <2> QED
    BY <2>3, <2>4, <2>5
<1>3. ASSUME NEW t \in Thread, SharedStep(t)
      PROVE  \A u \in Thread : SpentFrame(req'[u])
  <2>1. req \in [Thread -> Frame] /\ req[t] \in Frame
    BY BudgetTypes
  <2>2. PICK f :
          /\ req' = [req EXCEPT ![t] = f]
          /\ \/ f = Idle
             \/ f = [req[t] EXCEPT !.pc = "update_wf"]
             \/ f = [req[t] EXCEPT !.pc = "update_wf", !.lease = NoLease]
             \/ f = [req[t] EXCEPT !.pc = "finish"]
    BY Zenon, <1>3 DEF SharedStep, SaveLease, UpdateLease, UpdateWorkflow, Finish, Abort, Goto, Return
  <2>3. f.pc \in {"idle", "update_wf", "finish"}
    <3>1. CASE f = Idle
      BY <3>1 DEF Idle
    <3>2. CASE f = [req[t] EXCEPT !.pc = "update_wf"]
      BY <2>1, <3>2 DEF Frame
    <3>3. CASE f = [req[t] EXCEPT !.pc = "update_wf", !.lease = NoLease]
      BY <2>1, <3>3 DEF Frame
    <3>4. CASE f = [req[t] EXCEPT !.pc = "finish"]
      BY <2>1, <3>4 DEF Frame
    <3> QED
      BY Zenon, <2>2, <3>1, <3>2, <3>3, <3>4
  <2>4. req'[t] = f /\ \A u \in Thread \ {t} : req'[u] = req[u]
    BY <2>1, <2>2
  <2> QED
    BY <2>3, <2>4 DEF SpentFrame
<1> QED
  BY <1>1, <1>2, <1>3 DEF Next

\* A lease, once there, is only replaced by one with an attempt more or a
\* revoked one, so approvers and starters that race grant one budget in all.
THEOREM BudgetGrantedOnceAlways == Spec => BudgetGrantedOnce
<1> DEFINE SpentInv == \A t \in Thread : SpentFrame(req[t])
           once == \A w \in WorkflowID :
                     leases[w] # NoLease /\ leases'[w] # leases[w] => leases'[w] # NewExecutionLease
<1>1. Init => SpentInv
  BY DEF Init, SpentFrame, Idle
<1>2. IInv /\ SpentInv /\ [Next]_vars => SpentInv'
  BY SpentStep
<1>3. IInv /\ SpentInv /\ [Next]_vars => [once]_vars
  <2> SUFFICES ASSUME IInv, SpentInv, NEW t \in Thread,
                      AdmissionStep(t) \/ ControlStep(t) \/ SharedStep(t),
                      NEW w \in WorkflowID, leases[w] # NoLease, leases'[w] # leases[w]
               PROVE  leases'[w] # NewExecutionLease
    BY DEF Next
  <2>1. SharedStep(t)
    BY AdmissionEarly, ControlEarly DEF Early
  <2>2. leases \in [WorkflowID -> Lease]
    BY DEF IInv, TypeOK
  <2>3. UpdateLease(t)
    BY ZenonT(40), <2>1, <2>2 DEF SharedStep, SaveLease, UpdateWorkflow, Finish, Abort
  <2> QED
    BY <2>2, <2>3 DEF UpdateLease, SpentFrame
<1> QED
  BY <1>1, <1>2, <1>3, Invariance, PTL DEF Spec, BudgetGrantedOnce

---------------------------------------------------------------------------
\* No lease without a decision or an approval

\* What permissions rest on is not taken back: decisions, the task of a run and
\* the run of an approval request.
Steady ==
  /\ \A d \in PolicyID : policies[d] # NoPolicy => policies'[d] = policies[d]
  /\ \A w \in WorkflowID : wfs[w].status # "none" => wfs'[w].task = wfs[w].task
  /\ \A a \in ApprovalID : approvals[a] # NoApproval =>
       approvals'[a] # NoApproval /\ approvals'[a].wf = approvals[a].wf

\* Every step is steady.
LEMMA StepSteady ==
  ASSUME IInv, NEW t \in Thread, AdmissionStep(t) \/ ControlStep(t) \/ SharedStep(t)
  PROVE  Steady
<1>0. /\ policies \in [PolicyID -> [task : TaskID, outcome : Outcome] \cup {NoPolicy}]
      /\ wfs \in [WorkflowID -> Row]
      /\ approvals \in [ApprovalID ->
           [wf : WorkflowID, status : Resolution \cup {"pending"}] \cup {NoApproval}]
      /\ FrameInv(req[t])
  BY DEF IInv, TypeOK
<1>1. CASE UNCHANGED <<policies, wfs, approvals>>
  BY <1>1 DEF Steady
<1>2. ASSUME NEW task \in TaskID, NEW a \in PolicyAction, NEW d \in PolicyID,
             PolicySaveDecision(t, task, a, d)
      PROVE  Steady
  BY <1>0, <1>2 DEF PolicySaveDecision, Steady
<1>3. ASSUME NEW w \in WorkflowID, RouteCreateWorkflow(t, w) PROVE Steady
  BY <1>0, <1>3 DEF RouteCreateWorkflow, Steady
<1>4. ASSUME NEW a \in ApprovalID, StartSaveApproval(t, a) PROVE Steady
  BY <1>0, <1>4 DEF StartSaveApproval, Steady
<1>5. CASE ResolveUpdateApproval(t)
  <2>1. /\ approvals' = [approvals EXCEPT ![req[t].id].status = req[t].arg]
        /\ UNCHANGED <<policies, wfs>> /\ req[t].op = "resolve"
    BY <1>5 DEF ResolveUpdateApproval, At
  <2>2. req[t].arg \in Resolution
    BY <1>0, <2>1 DEF FrameInv
  <2>3. ASSUME NEW a \in ApprovalID, approvals[a] # NoApproval
        PROVE  approvals'[a] # NoApproval /\ approvals'[a].wf = approvals[a].wf
    <3>1. approvals[a] \in [wf : WorkflowID, status : Resolution \cup {"pending"}]
      BY <1>0, <2>3
    <3>2. approvals'[a] = approvals[a] \/ approvals'[a] = [approvals[a] EXCEPT !.status = req[t].arg]
      BY <1>0, <2>1
    <3> QED
      BY <2>2, <2>3, <3>1, <3>2 DEF NoApproval, Resolution
  <2> QED
    BY <2>1, <2>3 DEF Steady
<1>6. CASE UpdateWorkflow(t)
  <2>1. /\ wfs' = [wfs EXCEPT ![req[t].wf] = req[t].row] /\ req[t].pc = "update_wf"
        /\ UNCHANGED <<policies, approvals>>
    BY <1>6 DEF UpdateWorkflow
  <2>2. req[t].row.task = wfs[req[t].wf].task
    BY ZenonT(40), <1>0, <2>1 DEF FrameInv, GoodRow
  <2> QED
    BY <1>0, <2>1, <2>2 DEF Steady
<1>7. CASE AdmissionStep(t)
  BY ZenonT(40), <1>1, <1>2, <1>3, <1>7 DEF AdmissionStep, SubmitSaveTask, SubmitAudit,
     RouteSaveDecision, RouteFindWorkflow, RouteMissWorkflow, RouteAudit, RouteSaveSubtask,
     RouteAuditSubtask, PolicyFindWorkflow, PolicyMissWorkflow, PolicyAudit
<1>8. CASE ControlStep(t)
  BY ZenonT(40), <1>1, <1>4, <1>5, <1>8 DEF ControlStep, StartLoadPolicy, StartLoadWorkflow,
     StartMissWorkflow, AttemptLoadWorkflow, AttemptLoadLease, PauseLoadWorkflow,
     ResumeLoadWorkflow, ResumeLoadLease, KillLoadWorkflow, KillLoadLease, KillLeaseFault,
     ResolveLoadApproval, ResolveLoadWorkflow
<1>9. CASE SharedStep(t)
  BY ZenonT(40), <1>1, <1>6, <1>9 DEF SharedStep, SaveLease, UpdateLease, Finish, Abort
<1> QED
  BY <1>7, <1>8, <1>9

\* A frame g after f that claims no more than f did.
Plain(f, g) ==
  /\ g.pc # "save_lease"
  /\ g.op = "resolve" /\ g.pc # "update_approval" =>
       /\ f.op = "resolve" /\ f.pc # "update_approval"
       /\ g.id = f.id /\ g.arg = f.arg

\* A steady step of t keeps the invariant if the leases it leaves are permitted
\* and its new frame claims no more than the old one, or rightly so.
LEMMA GrantStep ==
  ASSUME IInv, GrantInv, Remember, Steady, NEW t \in Thread,
         \A u \in Thread \ {t} : req'[u] = req[u],
         \A w \in WorkflowID : leases'[w] # NoLease => Exists(w) /\ Permitted(w),
         Plain(req[t], req'[t]) \/ GrantFrame(req[t])'
  PROVE  GrantInv'
<1>1. grants \subseteq grants' /\ grants' \subseteq {a \in ApprovalID : approvals'[a] # NoApproval}
  BY DEF Remember, GrantInv, Steady, NoApproval
<1>2. ASSUME NEW w, Exists(w), Permitted(w) PROVE Permitted(w)'
  <2>1. wfs'[w].task = wfs[w].task
    BY <1>2 DEF Exists, Steady
  <2>2. CASE Decided(wfs[w].task, {"allow", "allow_with_constraints"})
    BY <2>1, <2>2 DEF Decided, Steady, NoPolicy, Permitted
  <2>3. CASE \E a \in grants : approvals[a].wf = w
    BY <1>1, <2>3 DEF GrantInv, Steady, Permitted
  <2> QED
    BY <1>2, <2>2, <2>3 DEF Permitted
<1>3. ASSUME NEW w \in WorkflowID, leases'[w] # NoLease PROVE Permitted(w)'
  BY <1>2, <1>3
<1>4. ASSUME NEW u \in Thread \ {t} PROVE GrantFrame(req[u])'
  <2>1. PICK f : f = req[u]
    OBVIOUS
  <2>2. GrantFrame(f) /\ (f.pc = "save_lease" => Exists(f.wf))
    BY ZenonT(40), <2>1 DEF GrantInv, IInv, FrameInv
  <2>3. GrantFrame(f)'
    BY <1>1, <1>2, <2>2 DEF GrantFrame
  <2> QED
    BY <2>1, <2>3 DEF GrantFrame, Permitted
<1>5. GrantFrame(req[t])'
  <2>1. CASE Plain(req[t], req'[t])
    <3>1. GrantFrame(req[t])
      BY DEF GrantInv
    <3> QED
      BY <1>1, <2>1, <3>1 DEF GrantFrame, Plain
  <2> QED
    BY <2>1
<1> QED
  BY <1>1, <1>3, <1>4, <1>5 DEF GrantInv

\* SubmitTask, RouteTask and EvaluatePolicy neither resolve nor grant.
LEMMA AdmissionPlain ==
  ASSUME IInv, NEW t \in Thread, AdmissionStep(t)
  PROVE  Plain(req[t], req'[t])
<1>0. req \in [Thread -> Frame] /\ req[t] \in Frame /\ FrameInv(req[t])
  BY DEF IInv, TypeOK
<1>1. req'[t].op # "resolve" /\ req'[t].pc # "save_lease" => Plain(req[t], req'[t])
  BY DEF Plain
<1>2. CASE Return(t)
  BY <1>0, <1>2 DEF Return, Plain, Idle
<1>3. ASSUME NEW attr \in TaskAttr, NEW task \in TaskID, SubmitSaveTask(t, attr, task)
      PROVE  Plain(req[t], req'[t])
  BY <1>0, <1>1, <1>3 DEF SubmitSaveTask, Accept, Idle
<1>4. ASSUME NEW task \in TaskID, NEW d \in RoutingID, NEW s \in Strategy,
             RouteSaveDecision(t, task, d, s)
      PROVE  Plain(req[t], req'[t])
  BY <1>0, <1>1, <1>4 DEF RouteSaveDecision, Accept, Idle
<1>5. ASSUME NEW w \in WorkflowID, RouteFindWorkflow(t, w) PROVE Plain(req[t], req'[t])
  BY ZenonT(40), <1>0, <1>1, <1>2, <1>5 DEF RouteFindWorkflow, At, Goto, Frame
<1>6. CASE RouteMissWorkflow(t)
  BY <1>0, <1>1, <1>6 DEF RouteMissWorkflow, At, Goto, Frame
<1>7. ASSUME NEW w \in WorkflowID, RouteCreateWorkflow(t, w) PROVE Plain(req[t], req'[t])
  BY <1>0, <1>1, <1>7 DEF RouteCreateWorkflow, At, Goto, Frame
<1>8. CASE RouteAudit(t)
  BY ZenonT(40), <1>0, <1>1, <1>2, <1>8 DEF RouteAudit, Goto, Idle
<1>9. ASSUME NEW sub \in TaskID, RouteSaveSubtask(t, sub) PROVE Plain(req[t], req'[t])
  <2>1. req[t].op = "route"
    BY <1>0, <1>9 DEF RouteSaveSubtask, FrameInv
  <2> QED
    BY <1>0, <1>1, <1>9, <2>1 DEF RouteSaveSubtask, Goto, Frame
<1>10. CASE RouteAuditSubtask(t)
  <2>1. req[t].op = "route"
    BY <1>0, <1>10 DEF RouteAuditSubtask, FrameInv
  <2> QED
    BY ZenonT(40), <1>0, <1>1, <1>2, <1>10, <2>1 DEF RouteAuditSubtask, Goto, Frame
<1>11. ASSUME NEW task \in TaskID, NEW a \in PolicyAction, NEW d \in PolicyID,
              PolicySaveDecision(t, task, a, d)
       PROVE  Plain(req[t], req'[t])
  BY <1>0, <1>1, <1>11 DEF PolicySaveDecision, Accept, Idle
<1>12. ASSUME NEW w \in WorkflowID, PolicyFindWorkflow(t, w) PROVE Plain(req[t], req'[t])
  BY ZenonT(40), <1>0, <1>1, <1>2, <1>12 DEF PolicyFindWorkflow, At, Goto, Frame
<1> QED
  BY ZenonT(40), <1>2, <1>3, <1>4, <1>5, <1>6, <1>7, <1>8, <1>9, <1>10, <1>11, <1>12
     DEF AdmissionStep, SubmitAudit, PolicyMissWorkflow, PolicyAudit

\* StartWorkflow goes on to grant a lease if it has read a decision that allows
\* the action, ResolveApproval if it has stored an approval; no other request does.
LEMMA ControlGrant ==
  ASSUME IInv, GrantInv, Remember, NEW t \in Thread, ControlStep(t)
  PROVE  Plain(req[t], req'[t]) \/ GrantFrame(req[t])'
<1>0. req \in [Thread -> Frame] /\ req[t] \in Frame /\ FrameInv(req[t])
  BY DEF IInv, TypeOK
<1>1. /\ req'[t].pc # "save_lease"
      /\ req'[t].op # "resolve" \/ req'[t].pc = "update_approval"
      => Plain(req[t], req'[t])
  BY DEF Plain
<1>2. CASE Return(t)
  BY <1>0, <1>2 DEF Return, Plain, Idle
<1>3. ASSUME NEW task \in TaskID, NEW d \in PolicyID, StartLoadPolicy(t, task, d)
      PROVE  Plain(req[t], req'[t])
  BY <1>0, <1>1, <1>3 DEF StartLoadPolicy, Accept, Idle
<1>4. ASSUME NEW w \in WorkflowID, StartLoadWorkflow(t, w)
      PROVE  Plain(req[t], req'[t]) \/ GrantFrame(req[t])'
  <2> DEFINE target == StartTarget(req[t].arg)
  <2>1. /\ req[t].op = "start" /\ req[t].pc = "load_wf"
        /\ wfs[w].task = req[t].task /\ UNCHANGED <<policies, wfs>>
    BY <1>4 DEF StartLoadWorkflow, At, RunsOf
  <2>2. CASE CanTransition(wfs[w], target)
    <3>1. PICK f : f = [req[t] EXCEPT !.pc = StartFirstWrite(req[t].arg), !.wf = w,
                                      !.row = TransitionTo(wfs[w], target)]
      OBVIOUS
    <3>2. /\ f.op = "start" /\ f.wf = w /\ f.pc = StartFirstWrite(req[t].arg)
      BY <1>0, <2>1, <3>1 DEF Frame
    <3>3. req' = [req EXCEPT ![t] = f] /\ req'[t] = f
      BY <1>0, <1>4, <2>2, <3>1 DEF StartLoadWorkflow, Goto
    <3>4. /\ req[t].id \in PolicyID /\ req[t].arg \in Outcome
          /\ policies[req[t].id] = [task |-> req[t].task, outcome |-> req[t].arg]
      BY ZenonT(40), <1>0, <2>1 DEF FrameInv
    <3>5. ASSUME f.pc = "save_lease" PROVE Permitted(w)'
      <4>1. req[t].arg \in {"allow", "allow_with_constraints"}
        BY <3>2, <3>4, <3>5 DEF StartFirstWrite, Outcome
      <4> QED
        BY <2>1, <3>4, <4>1 DEF Permitted, Decided
    <3>6. GrantFrame(f)'
      BY <3>2, <3>5 DEF GrantFrame
    <3> QED
      BY <3>3, <3>6 DEF GrantFrame, Permitted
  <2>3. CASE ~CanTransition(wfs[w], target)
    BY <1>2, <1>4, <2>3 DEF StartLoadWorkflow
  <2> QED
    BY <2>2, <2>3
<1>5. ASSUME NEW a \in ApprovalID, StartSaveApproval(t, a) PROVE Plain(req[t], req'[t])
  BY <1>0, <1>1, <1>5 DEF StartSaveApproval, At, Goto, Frame
<1>6. ASSUME NEW w \in WorkflowID, NEW s \in AttemptStatus, AttemptLoadWorkflow(t, w, s)
      PROVE  Plain(req[t], req'[t])
  BY <1>0, <1>1, <1>6 DEF AttemptLoadWorkflow, Accept, Idle
<1>7. CASE AttemptLoadLease(t)
  <2>1. req[t].op = "attempt"
    BY <1>7 DEF AttemptLoadLease, At
  <2>2. PICK lease, row : \/ Return(t)
                          \/ Goto(t, [req[t] EXCEPT !.pc = "update_lease", !.lease = lease])
                          \/ Goto(t, [[req[t] EXCEPT !.pc = "update_lease", !.lease = lease]
                                        EXCEPT !.row = row])
    BY ZenonT(40), <1>7 DEF AttemptLoadLease
  <2> QED
    BY ZenonT(40), <1>0, <1>1, <1>2, <2>1, <2>2 DEF Goto, Frame
<1>8. ASSUME NEW w \in WorkflowID, PauseLoadWorkflow(t, w) PROVE Plain(req[t], req'[t])
  BY <1>0, <1>1, <1>8 DEF PauseLoadWorkflow, Accept, Idle
<1>9. ASSUME NEW w \in WorkflowID, ResumeLoadWorkflow(t, w) PROVE Plain(req[t], req'[t])
  BY <1>0, <1>1, <1>9 DEF ResumeLoadWorkflow, Accept, Idle
<1>10. CASE ResumeLoadLease(t)
  BY ZenonT(40), <1>0, <1>1, <1>2, <1>10 DEF ResumeLoadLease, At, Goto, Frame
<1>11. ASSUME NEW w \in WorkflowID, KillLoadWorkflow(t, w) PROVE Plain(req[t], req'[t])
  BY <1>0, <1>1, <1>11 DEF KillLoadWorkflow, Accept, Idle
<1>12. CASE KillLoadLease(t)
  BY <1>0, <1>1, <1>12 DEF KillLoadLease, At, Goto, Frame
<1>13. CASE KillLeaseFault(t)
  BY <1>0, <1>1, <1>13 DEF KillLeaseFault, At, Goto, Frame
<1>14. ASSUME NEW a \in ApprovalID, NEW r \in Resolution, ResolveLoadApproval(t, a, r)
       PROVE  Plain(req[t], req'[t])
  BY <1>0, <1>1, <1>14 DEF ResolveLoadApproval, Accept, Idle
<1>15. CASE ResolveUpdateApproval(t)
  <2>1. PICK f : f = [req[t] EXCEPT !.pc = "load_wf"]
    BY Zenon
  <2>2. /\ f.pc = "load_wf" /\ f.id = req[t].id /\ f.arg = req[t].arg
        /\ req'[t] = f /\ req[t].op = "resolve" /\ req[t].pc = "update_approval"
    BY <1>0, <1>15, <2>1 DEF ResolveUpdateApproval, At, Goto, Frame
  <2>3. /\ f.id \in ApprovalID /\ Exists(req[t].wf) /\ approvals[f.id].wf = req[t].wf
        /\ approvals' = [approvals EXCEPT ![f.id].status = f.arg]
    BY <1>0, <1>15, <2>2 DEF FrameInv, ResolveUpdateApproval
  <2>4. approvals'[f.id].status = f.arg
    <3>1. approvals[f.id] \in [wf : WorkflowID, status : Resolution \cup {"pending"}]
      BY <2>3, StoreAssumption DEF IInv, TypeOK, Exists, NoApproval
    <3>2. approvals'[f.id] = [approvals[f.id] EXCEPT !.status = f.arg]
      BY <2>3 DEF IInv, TypeOK
    <3> QED
      BY <3>1, <3>2
  <2>5. f.arg = "approved" => f.id \in grants'
    BY <2>3, <2>4 DEF Remember
  <2> QED
    BY <2>2, <2>5 DEF GrantFrame
<1>16. CASE ResolveLoadWorkflow(t)
  <2>1. /\ req[t].op = "resolve" /\ req[t].pc = "load_wf"
        /\ UNCHANGED <<policies, wfs, approvals>>
    BY <1>16 DEF ResolveLoadWorkflow, At
  <2>2. PICK f : f = [req[t] EXCEPT
                        !.pc = IF req[t].arg = "approved" THEN "save_lease" ELSE "update_wf",
                        !.row = Resolved(wfs[req[t].wf], req[t].arg)]
    OBVIOUS
  <2>3. /\ f.op = "resolve" /\ f.wf = req[t].wf /\ f.id = req[t].id /\ f.arg = req[t].arg
        /\ f.pc = IF req[t].arg = "approved" THEN "save_lease" ELSE "update_wf"
    BY <1>0, <2>1, <2>2 DEF Frame
  <2>4. Return(t) \/ req' = [req EXCEPT ![t] = f]
    BY <1>16, <2>2 DEF ResolveLoadWorkflow, Goto
  <2>5. f.arg = "approved" => f.id \in grants /\ f.id \in grants'
    BY ZenonT(40), <2>1, <2>3 DEF GrantInv, GrantFrame, Remember
  <2>6. approvals'[f.id].wf = f.wf
    BY ZenonT(40), <1>0, <2>1, <2>3 DEF FrameInv
  <2>7. GrantFrame(f)'
    BY <2>3, <2>5, <2>6 DEF GrantFrame, Permitted
  <2>8. req' = [req EXCEPT ![t] = f] => req'[t] = f
    BY <1>0
  <2> QED
    BY <1>2, <2>4, <2>7, <2>8 DEF GrantFrame, Permitted
<1> QED
  BY ZenonT(40), <1>2, <1>3, <1>4, <1>5, <1>6, <1>7, <1>8, <1>9, <1>10, <1>11, <1>12, <1>13, <1>14,
     <1>15, <1>16 DEF ControlStep, StartMissWorkflow

\* The shared statements write the lease that was permitted and claim nothing new.
LEMMA SharedGrant ==
  ASSUME IInv, GrantInv, NEW t \in Thread, SharedStep(t)
  PROVE  /\ Plain(req[t], req'[t]) /\ \A u \in Thread \ {t} : req'[u] = req[u]
         /\ \A w \in WorkflowID : leases'[w] # NoLease => Exists(w) /\ Permitted(w)
<1>0. /\ req \in [Thread -> Frame] /\ req[t] \in Frame /\ FrameInv(req[t])
      /\ leases \in [WorkflowID -> Lease]
      /\ \A w \in WorkflowID : leases[w] # NoLease => Exists(w) /\ Permitted(w)
  BY DEF IInv, TypeOK, StoreInv, GrantInv
<1>1. /\ Plain(req[t], req'[t]) /\ \A u \in Thread \ {t} : req'[u] = req[u]
  <2>1. PICK f :
          /\ req' = [req EXCEPT ![t] = f]
          /\ \/ f = Idle
             \/ f = [req[t] EXCEPT !.pc = "update_wf"] /\ req[t].pc = "save_lease"
             \/ f = [req[t] EXCEPT !.pc = "update_wf", !.lease = NoLease] /\ req[t].pc = "update_lease"
             \/ f = [req[t] EXCEPT !.pc = "finish"] /\ req[t].pc = "update_wf"
    BY ZenonT(40) DEF SharedStep, SaveLease, UpdateLease, UpdateWorkflow, Finish, Abort, Goto, Return
  <2>2. Plain(req[t], f)
    <3>1. CASE f = Idle
      BY <3>1 DEF Idle, Plain
    <3>2. CASE f = [req[t] EXCEPT !.pc = "update_wf"] /\ req[t].pc = "save_lease"
      BY <1>0, <3>2 DEF Frame, Plain
    <3>3. CASE f = [req[t] EXCEPT !.pc = "update_wf", !.lease = NoLease] /\ req[t].pc = "update_lease"
      BY <1>0, <3>3 DEF Frame, Plain
    <3>4. CASE f = [req[t] EXCEPT !.pc = "finish"] /\ req[t].pc = "update_wf"
      BY <1>0, <3>4 DEF Frame, Plain
    <3> QED
      BY Zenon, <2>1, <3>1, <3>2, <3>3, <3>4
  <2> QED
    BY <1>0, <2>1, <2>2
<1>2. ASSUME NEW w \in WorkflowID, leases'[w] # NoLease PROVE Exists(w) /\ Permitted(w)
  <2>1. CASE SaveLease(t)
    <3>1. Exists(req[t].wf) /\ Permitted(req[t].wf)
      BY ZenonT(40), <1>0, <2>1 DEF SaveLease, FrameInv, GrantInv, GrantFrame
    <3>2. w = req[t].wf \/ leases'[w] = leases[w]
      BY <1>0, <2>1 DEF SaveLease
    <3> QED
      BY <1>0, <1>2, <3>1, <3>2
  <2>2. CASE UpdateLease(t)
    <3>1. leases[req[t].wf] # NoLease
      BY ZenonT(40), <1>0, <2>2 DEF UpdateLease, FrameInv
    <3>2. w = req[t].wf \/ leases'[w] = leases[w]
      BY <1>0, <2>2 DEF UpdateLease
    <3> QED
      BY <1>0, <1>2, <3>1, <3>2
  <2>3. CASE UNCHANGED leases
    BY <1>0, <1>2, <2>3
  <2> QED
    BY ZenonT(40), <2>1, <2>2, <2>3 DEF SharedStep, UpdateWorkflow, Finish, Abort
<1> QED
  BY <1>1, <1>2

\* Whatever starters and approvers race and wherever requests break off, a run
\* gets a lease only if a stored decision allows its action, or one requires an
\* approval and an approval has been stored: a denial or silence starts nothing.
THEOREM LeaseNeedsApprovalAlways == ReporterSpec => []LeaseNeedsApproval
<1>1. ReporterInit => GrantInv
  BY DEF ReporterInit, Init, GrantInv, GrantFrame, Idle
<1>2. IInv /\ GrantInv /\ [ReporterNext]_historyVars => GrantInv'
  <2> SUFFICES ASSUME IInv, GrantInv, [ReporterNext]_historyVars PROVE GrantInv'
    OBVIOUS
  <2>1. CASE UNCHANGED historyVars
    BY <2>1 DEF historyVars, vars, GrantInv, GrantFrame, Permitted, Decided
  <2>2. CASE ReporterNext
    <3>1. Remember
      BY <2>2 DEF ReporterNext
    <3>2. PICK t \in Thread : AdmissionStep(t) \/ ControlStep(t) \/ SharedStep(t)
      BY <2>2 DEF ReporterNext, Next
    <3>3. Steady
      BY <3>2, StepSteady
    <3>4. CASE AdmissionStep(t) \/ ControlStep(t)
      <4>1. UNCHANGED leases /\ \A u \in Thread \ {t} : req'[u] = req[u]
        BY ZenonT(40), <3>4, AdmissionEarly, ControlEarly DEF Early
      <4>2. Plain(req[t], req'[t]) \/ GrantFrame(req[t])'
        BY <3>1, <3>4, AdmissionPlain, ControlGrant
      <4>3. \A w \in WorkflowID : leases'[w] # NoLease => Exists(w) /\ Permitted(w)
        BY ZenonT(40), <4>1 DEF IInv, StoreInv, GrantInv
      <4> QED
        BY <3>1, <3>3, <4>1, <4>2, <4>3, GrantStep
    <3>5. CASE SharedStep(t)
      BY ZenonT(40), <3>1, <3>3, <3>5, SharedGrant, GrantStep
    <3> QED
      BY <3>2, <3>4, <3>5
  <2> QED
    BY <2>1, <2>2
<1>3. IInv /\ GrantInv => LeaseNeedsApproval
  <2> SUFFICES ASSUME IInv, GrantInv, NEW w \in WorkflowID, leases[w] # NoLease
               PROVE  \E d \in PoliciesOf(wfs[w].task) :
                        \/ policies[d].outcome \in {"allow", "allow_with_constraints"}
                        \/ /\ policies[d].outcome = "require_approval"
                           /\ \E a \in grants : approvals[a].wf = w
    BY DEF LeaseNeedsApproval
  <2>1. CASE Decided(wfs[w].task, {"allow", "allow_with_constraints"})
    BY <2>1 DEF Decided, PoliciesOf
  <2>2. ASSUME NEW a \in grants, approvals[a].wf = w
        PROVE  Decided(wfs[w].task, {"require_approval"})
    BY <2>2 DEF GrantInv, IInv, StoreInv
  <2> QED
    BY <2>1, <2>2 DEF GrantInv, Permitted, Decided, PoliciesOf
<1> QED
  BY <1>1, <1>2, <1>3, ReporterInvariance, PTL DEF ReporterSpec
=============================================================================

----------------------------- MODULE GateProofs -----------------------------
(***************************************************************************)
(* One request at a time and no failed statement: a lease, an approval     *)
(* gate and a resolution agree with the run they belong to.                *)
(***************************************************************************)
EXTENDS SerialProofs

---------------------------------------------------------------------------
\* Steps of the only thread

LEMMA CurrentFrame ==
  ASSUME OneThread, IInv, NEW t \in Thread
  PROVE  /\ Current = req[t]
         /\ \A g : req' = [req EXCEPT ![t] = g] => Current' = g
<1>1. (CHOOSE u \in Thread : TRUE) = t
  BY Zenon DEF OneThread
<1>2. Thread # {} /\ t \in DOMAIN req
  BY DEF IInv, TypeOK
<1> QED
  BY <1>1, <1>2, Zenon DEF Current

\* What the steps that write no run, lease, approval or resolution keep.
LeavesGates ==
  /\ UNCHANGED <<wfs, leases, approvals>>
  /\ \A w \in WorkflowID : audit'[w]["approval_resolved"] = audit[w]["approval_resolved"]

\* A frame that holds no row to write and does not resolve.
Neutral(f) == f.pc # "update_wf" /\ ~Resolving(f, f.wf)

LEMMA ReadStore ==
  ASSUME IInv, NEW f, NEW g, CalmStore(f), Neutral(f), LeavesGates, g.pc # "update_wf"
  PROVE  CalmStore(g)'
<1>1. ASSUME NEW w \in WorkflowID PROVE Standing(g, w)' = Standing(f, w)
  BY DEF Standing, Neutral, LeavesGates
<1>2. ASSUME NEW w PROVE ~Resolving(f, w)
  BY DEF Neutral, Resolving
<1>3. ASSUME NEW a, NEW w PROVE Pending(a, w)' <=> Pending(a, w)
  BY DEF Pending, LeavesGates
<1>4. ASSUME NEW w \in WorkflowID
      PROVE  /\ leases'[w] # NoLease => Standing(g, w)' \in Executing \cup TerminalStates
             /\ leases'[w].status = "active" => Standing(g, w)' \notin {"killed", "quarantined"}
             /\ Standing(g, w)' = "awaiting_approval" => \E a \in ApprovalID : Pending(a, w)'
             /\ \A a \in ApprovalID : Pending(a, w)' =>
                  /\ Standing(g, w)' \in {"awaiting_approval", "killed", "failed"}
                  /\ \A b \in ApprovalID : Pending(b, w)' => a = b
  BY <1>1, <1>2, <1>3, Zenon DEF CalmStore, LeavesGates
<1>5. ASSUME NEW a \in ApprovalID, approvals'[a].status \in Resolution
      PROVE  \/ audit'[approvals'[a].wf]["approval_resolved"] > 0
             \/ wfs'[approvals'[a].wf].status \in {"killed", "failed"}
  <2>1. approvals'[a] = approvals[a]
    BY DEF LeavesGates
  <2>2. approvals[a].wf \in WorkflowID
    BY <1>5, <2>1 DEF IInv, TypeOK, NoApproval, Resolution
  <2> QED
    BY <1>2, <1>5, <2>1, <2>2 DEF CalmStore, LeavesGates
<1> QED
  BY <1>4, <1>5, Zenon DEF CalmStore

\* A frame that is about to write g.row over the run w.
LEMMA WriteStore ==
  ASSUME IInv, NEW f, NEW g, NEW w \in WorkflowID, CalmStore(f), f.pc # "update_wf",
         g.pc = "update_wf", g.wf = w,
         UNCHANGED approvals,
         \A v \in WorkflowID : audit'[v]["approval_resolved"] = audit[v]["approval_resolved"],
         \A v \in WorkflowID \ {w} : wfs'[v] = wfs[v] /\ leases'[v] = leases[v],
         wfs'[w].status = wfs[w].status \/ wfs[w].status = "none",
         leases'[w] # NoLease => g.row.status \in Executing \cup TerminalStates,
         leases'[w].status = "active" => g.row.status \notin {"killed", "quarantined"},
         g.row.status # "awaiting_approval",
         g.row.status \in {"killed", "failed"} \/ \A a \in ApprovalID : ~Pending(a, w),
         \A v : Resolving(f, v) => v = w /\ g.op = "resolve"
  PROVE  CalmStore(g)'
<1>1. /\ Standing(g, w)' = g.row.status
      /\ \A v \in WorkflowID \ {w} : Standing(g, v)' = Standing(f, v)
  BY DEF Standing
<1>2. ASSUME NEW v \in WorkflowID \ {w} PROVE ~Resolving(f, v)
  OBVIOUS
<1>3. ASSUME NEW a, NEW v PROVE Pending(a, v)' <=> Pending(a, v)
  BY DEF Pending
<1>4. ASSUME NEW v \in WorkflowID
      PROVE  /\ leases'[v] # NoLease => Standing(g, v)' \in Executing \cup TerminalStates
             /\ leases'[v].status = "active" => Standing(g, v)' \notin {"killed", "quarantined"}
             /\ Standing(g, v)' = "awaiting_approval" => \E a \in ApprovalID : Pending(a, v)'
             /\ \A a \in ApprovalID : Pending(a, v)' =>
                  /\ Standing(g, v)' \in {"awaiting_approval", "killed", "failed"}
                  /\ \A b \in ApprovalID : Pending(b, v)' => a = b
  <2>1. CASE v # w
    BY <1>1, <1>2, <1>3, <2>1, Zenon DEF CalmStore
  <2>2. CASE v = w
    BY <1>1, <1>3, <2>2, Zenon DEF CalmStore
  <2> QED
    BY <2>1, <2>2
<1>5. ASSUME NEW a \in ApprovalID, approvals'[a].status \in Resolution
      PROVE  \/ audit'[approvals'[a].wf]["approval_resolved"] > 0
             \/ wfs'[approvals'[a].wf].status \in {"killed", "failed"}
             \/ Resolving(g, approvals'[a].wf)
  <2>1. PICK v : v = approvals[a].wf
    OBVIOUS
  <2>2. v \in WorkflowID /\ approvals'[a].wf = v
    BY <1>5, <2>1 DEF IInv, TypeOK, NoApproval, Resolution
  <2>3. \/ audit[v]["approval_resolved"] > 0
        \/ wfs[v].status \in {"killed", "failed"}
        \/ Resolving(f, v)
    BY <1>5, <2>1 DEF CalmStore
  <2>4. CASE Resolving(f, v)
    BY <2>2, <2>4 DEF Resolving
  <2>5. CASE audit[v]["approval_resolved"] > 0
    BY <2>2, <2>5
  <2>6. CASE wfs[v].status \in {"killed", "failed"}
    BY <2>2, <2>6
  <2> QED
    BY <2>3, <2>4, <2>5, <2>6
<1> QED
  BY <1>4, <1>5, Zenon DEF CalmStore, Resolving

LEMMA CalmRead ==
  ASSUME OneThread, IInv, CalmInvariant, NEW t \in Thread, NEW g,
         req' = [req EXCEPT ![t] = g], faults' = 0 => faults = 0,
         Neutral(req[t]), LeavesGates, g.pc # "update_wf", faults = 0 => CalmFrame(g)'
  PROVE  CalmInvariant'
<1>1. PICK f : f = req[t] /\ f = Current
  BY CurrentFrame
<1>2. Current' = g
  BY ZenonT(40), CurrentFrame
<1>3. ASSUME faults' = 0 PROVE CalmStore(g)'
  BY <1>1, <1>3, ReadStore DEF CalmInvariant
<1>4. CalmFrame(g)' <=> CalmFrame(Current)'
  BY <1>2, Zenon DEF CalmFrame, Resolving
<1>5. CalmStore(g)' <=> CalmStore(Current)'
  BY <1>2, Zenon DEF CalmStore, Standing, Resolving
<1> QED
  BY <1>3, <1>4, <1>5 DEF CalmInvariant

\* Steps of requests that neither wait to write a run nor resolve.
LEMMA CalmPlain ==
  ASSUME OneThread, IInv, CalmInvariant, NEW t \in Thread, NEW g,
         req' = [req EXCEPT ![t] = g], faults' = 0 => faults = 0,
         Neutral(req[t]), LeavesGates,
         g.pc \notin {"update_wf", "save_approval", "save_lease", "update_lease"},
         g.op # "resolve" \/ g.pc = "update_approval"
  PROVE  CalmInvariant'
<1>1. CalmFrame(g)'
  BY DEF CalmFrame, Resolving
<1> QED
  BY <1>1, CalmRead, Zenon

LEMMA CalmReturn ==
  ASSUME OneThread, IInv, CalmInvariant, NEW t \in Thread, Return(t),
         faults' = 0 => faults = 0, Neutral(req[t]), LeavesGates
  PROVE  CalmInvariant'
<1>1. PICK g : g = Idle
  OBVIOUS
<1>2. g.op = "idle" /\ g.pc = "idle"
  BY <1>1 DEF Idle
<1> QED
  BY <1>1, <1>2, CalmPlain, Zenon DEF Return

\* The step after which a request waits to write its row over the run w.
LEMMA CalmWrite ==
  ASSUME OneThread, IInv, CalmInvariant, NEW t \in Thread, NEW g,
         req' = [req EXCEPT ![t] = g], faults' = 0 => faults = 0,
         NEW w \in WorkflowID, req[t].pc # "update_wf", g.pc = "update_wf", g.wf = w,
         UNCHANGED <<approvals, audit>>,
         \A v \in WorkflowID \ {w} : wfs'[v] = wfs[v] /\ leases'[v] = leases[v],
         wfs'[w].status = wfs[w].status \/ wfs[w].status = "none",
         faults' = 0 =>
           /\ leases'[w] # NoLease => g.row.status \in Executing \cup TerminalStates
           /\ leases'[w].status = "active" => g.row.status \notin {"killed", "quarantined"}
           /\ g.row.status # "awaiting_approval"
           /\ g.row.status \in {"killed", "failed"} \/ \A a \in ApprovalID : ~Pending(a, w)
           /\ g.op = "resolve" => \A a \in ApprovalID : ~Pending(a, w),
         \A v : Resolving(req[t], v) => v = w /\ g.op = "resolve"
  PROVE  CalmInvariant'
<1>1. PICK f : f = req[t] /\ f = Current
  BY CurrentFrame
<1>2. Current' = g
  BY ZenonT(40), CurrentFrame
<1>3. ASSUME faults' = 0 PROVE CalmStore(g)'
  <2>1. CalmStore(f) /\ f.pc # "update_wf" /\ \A v : Resolving(f, v) => v = w /\ g.op = "resolve"
    BY <1>1, <1>3 DEF CalmInvariant
  <2> QED
    BY <1>3, <2>1, WriteStore
<1>4. ASSUME faults' = 0 PROVE CalmFrame(g)'
  <2>1. \A a \in ApprovalID : Pending(a, g.wf)' <=> Pending(a, w)
    BY DEF Pending
  <2> QED
    BY <1>4, <2>1 DEF CalmFrame, Resolving
<1>5. CalmFrame(g)' <=> CalmFrame(Current)'
  BY <1>2, Zenon DEF CalmFrame, Resolving
<1>6. CalmStore(g)' <=> CalmStore(Current)'
  BY <1>2, Zenon DEF CalmStore, Standing, Resolving
<1> QED
  BY <1>3, <1>4, <1>5, <1>6 DEF CalmInvariant

\* What the invariant says of a run while no frame waits to write it.
LEMMA CalmFacts ==
  ASSUME OneThread, IInv, CalmInvariant, NEW t \in Thread, faults = 0,
         NEW w \in WorkflowID, req[t].pc = "update_wf" => req[t].wf # w
  PROVE  /\ leases[w] # NoLease => wfs[w].status \in Executing \cup TerminalStates
         /\ leases[w].status = "active" =>
              leases[w] # NoLease /\ wfs[w].status \notin {"killed", "quarantined"}
         /\ \A a \in ApprovalID : Pending(a, w) =>
              /\ wfs[w].status \in {"awaiting_approval", "killed", "failed"}
              /\ \A b \in ApprovalID : Pending(b, w) => a = b
<1>1. CalmStore(req[t])
  BY CurrentFrame DEF CalmInvariant
<1>2. Standing(req[t], w) = wfs[w].status
  BY DEF Standing
<1>3. leases[w].status = "active" => leases[w] # NoLease
  BY DEF NoLease
<1> QED
  BY <1>1, <1>2, <1>3, Zenon DEF CalmStore

---------------------------------------------------------------------------
\* Admission

LEMMA RecordUntouched ==
  ASSUME IInv, UNCHANGED <<wfs, leases, approvals>>, NEW subject,
         NEW action \in AuditAction \ {"approval_resolved"}, Record(subject, action)
  PROVE  LeavesGates
<1>1. audit \in [TaskID \cup WorkflowID -> [AuditAction -> Nat]]
  BY DEF IInv, TypeOK
<1>2. "approval_resolved" \in AuditAction
  BY DEF AuditAction
<1>3. ASSUME NEW w \in WorkflowID
      PROVE  audit'[w]["approval_resolved"] = audit[w]["approval_resolved"]
  BY <1>1, <1>2 DEF Record
<1> QED
  BY <1>3 DEF LeavesGates

LEMMA IdleNeutral == ASSUME NEW f, f = Idle PROVE Neutral(f)
BY DEF Neutral, Idle, Resolving

\* Routing and policy move a run that has neither lease nor request.
LEMMA CalmMark ==
  ASSUME OneThread, IInv, CalmInvariant, NEW t \in Thread, NEW g,
         req' = [req EXCEPT ![t] = g], UNCHANGED <<wfs, leases, approvals, audit, faults>>,
         NEW w \in WorkflowID, req[t].pc = "find_wf", req[t].op # "resolve",
         g.pc = "update_wf", g.op # "resolve", g.wf = w,
         wfs[w].status \in {"created", "routed"}, g.row.status \in {"routed", "policy_checked"}
  PROVE  CalmInvariant'
<1>1. ASSUME faults = 0
      PROVE  /\ leases[w] = NoLease /\ leases[w].status # "active"
             /\ \A a \in ApprovalID : ~Pending(a, w)
  BY <1>1, CalmFacts DEF Executing, TerminalStates
<1>2. \A v : ~Resolving(req[t], v)
  BY DEF Resolving
<1> QED
  BY ZenonT(40), <1>1, <1>2, CalmWrite

LEMMA CalmAdmission ==
  ASSUME OneThread, IInv, CalmInvariant, NEW t \in Thread, AdmissionStep(t)
  PROVE  CalmInvariant'
<1>0. req[t] \in Frame /\ FrameInv(req[t]) /\ wfs \in [WorkflowID -> Row]
  BY DEF IInv, TypeOK
<1>a. UNCHANGED <<wfs, leases, approvals, audit>> => LeavesGates
  BY DEF LeavesGates
<1>b. req[t].op # "resolve" /\ req[t].pc # "update_wf" => Neutral(req[t])
  BY DEF Neutral, Resolving
<1>1. ASSUME NEW attr \in TaskAttr, NEW task \in TaskID, SubmitSaveTask(t, attr, task)
      PROVE  CalmInvariant'
  <2>1. PICK g : g = [Idle EXCEPT !.op = "submit", !.pc = "audit_task", !.task = task]
    OBVIOUS
  <2>2. g.op = "submit" /\ g.pc = "audit_task"
    BY <2>1 DEF Idle
  <2>3. /\ req' = [req EXCEPT ![t] = g] /\ faults' = faults /\ LeavesGates /\ Neutral(req[t])
    BY <1>1, <1>a, <2>1, IdleNeutral, Zenon DEF SubmitSaveTask, Accept
  <2> QED
    BY Zenon, <2>2, <2>3, CalmPlain
<1>2. CASE SubmitAudit(t)
  <2>1. LeavesGates /\ Neutral(req[t])
    BY <1>2, <1>b, RecordUntouched DEF SubmitAudit, AuditAction, At
  <2> QED
    BY <1>2, <2>1, CalmReturn DEF SubmitAudit
<1>3. ASSUME NEW task \in TaskID, NEW d \in RoutingID, NEW s \in Strategy,
             RouteSaveDecision(t, task, d, s)
      PROVE  CalmInvariant'
  <2>1. PICK g : g = [Idle EXCEPT !.op = "route", !.pc = "find_wf", !.task = task,
                                  !.id = d, !.arg = s]
    OBVIOUS
  <2>2. g.op = "route" /\ g.pc = "find_wf"
    BY <2>1 DEF Idle
  <2>3. /\ req' = [req EXCEPT ![t] = g] /\ faults' = faults /\ LeavesGates /\ Neutral(req[t])
    BY <1>3, <1>a, <2>1, IdleNeutral, Zenon DEF RouteSaveDecision, Accept
  <2> QED
    BY Zenon, <2>2, <2>3, CalmPlain
<1>4. ASSUME NEW w \in WorkflowID, RouteFindWorkflow(t, w) PROVE CalmInvariant'
  <2>1. /\ UNCHANGED <<wfs, leases, approvals, audit, faults>>
        /\ req[t].op = "route" /\ req[t].pc = "find_wf"
    BY <1>4 DEF RouteFindWorkflow, At
  <2>2. CASE CanTransition(wfs[w], "routed")
    <3>1. PICK g : g = [req[t] EXCEPT !.pc = "update_wf", !.wf = w,
                                      !.row = MarkRouted(wfs[w], req[t].id)]
      OBVIOUS
    <3>2. g.op = "route" /\ g.pc = "update_wf" /\ g.wf = w /\ g.row.status = "routed"
      BY <1>0, <2>1, <3>1, TransitionFields DEF Frame
    <3>3. wfs[w].status = "created"
      BY <2>2 DEF CanTransition, IsValidTransition, TransitionTable
    <3>4. req' = [req EXCEPT ![t] = g]
      BY <1>4, <2>2, <3>1 DEF RouteFindWorkflow, Goto
    <3> QED
      BY ZenonT(40), <2>1, <3>2, <3>3, <3>4, CalmMark
  <2> QED
    BY <1>4, <1>a, <1>b, <2>1, <2>2, CalmReturn DEF RouteFindWorkflow
<1>5. CASE RouteMissWorkflow(t)
  <2>1. PICK g : g = [req[t] EXCEPT !.pc = "create_wf"]
    BY Zenon
  <2>2. g.op = "route" /\ g.pc = "create_wf" /\ req[t].op = "route" /\ req[t].pc = "find_wf"
    BY <1>0, <1>5, <2>1 DEF RouteMissWorkflow, At, Frame
  <2>3. req' = [req EXCEPT ![t] = g] /\ LeavesGates /\ Neutral(req[t])
    BY <1>5, <1>a, <1>b, <2>1, <2>2, Zenon DEF RouteMissWorkflow, Goto
  <2>4. faults' = 0 => faults = 0
    BY <1>5 DEF RouteMissWorkflow, Fault, IInv, TypeOK
  <2> QED
    BY Zenon, <2>2, <2>3, <2>4, CalmPlain
<1>6. ASSUME NEW w \in WorkflowID, RouteCreateWorkflow(t, w) PROVE CalmInvariant'
  <2>1. PICK new : new = NewWorkflowRun(req[t].task, Nil)
    OBVIOUS
  <2>2. PICK g : g = [req[t] EXCEPT !.pc = "update_wf", !.wf = w, !.row = MarkRouted(new, req[t].id)]
    OBVIOUS
  <2>3. /\ g.op = "route" /\ g.pc = "update_wf" /\ g.wf = w /\ g.row = MarkRouted(new, req[t].id)
        /\ req[t].op = "route" /\ req[t].pc = "create_wf"
    BY <1>0, <1>6, <2>2 DEF RouteCreateWorkflow, At, Frame
  <2>4. new \in Row
    BY <1>0, <2>1, <2>3, NewRunHistory DEF FrameInv
  <2>5. g.row.status = "routed"
    BY <2>3, <2>4, TransitionFields
  <2>6. /\ req' = [req EXCEPT ![t] = g] /\ UNCHANGED <<leases, approvals, audit, faults>>
        /\ wfs' = [wfs EXCEPT ![w] = new] /\ wfs[w].status = "none"
    BY <1>6, <2>1, <2>2 DEF RouteCreateWorkflow, Goto
  <2>7. \A v \in WorkflowID \ {w} : wfs'[v] = wfs[v] /\ leases'[v] = leases[v]
    BY <1>0, <2>6
  <2>8. ASSUME faults = 0
        PROVE  /\ leases'[w] = NoLease /\ leases'[w].status # "active"
               /\ \A a \in ApprovalID : ~Pending(a, w)
    BY <2>3, <2>6, <2>8, CalmFacts DEF Executing, TerminalStates
  <2>9. \A v : ~Resolving(req[t], v)
    BY <2>3 DEF Resolving
  <2> QED
    BY ZenonT(40), <2>3, <2>5, <2>6, <2>7, <2>8, <2>9, CalmWrite
<1>7. CASE RouteAudit(t)
  <2>1. LeavesGates /\ Neutral(req[t])
    BY <1>7, <1>b, RecordUntouched DEF RouteAudit, AuditAction, At
  <2>2. PICK g : g = [Idle EXCEPT !.op = "route", !.pc = "save_subtask1", !.task = req[t].task]
    OBVIOUS
  <2>3. g.op = "route" /\ g.pc = "save_subtask1"
    BY <2>2 DEF Idle
  <2>4. faults' = faults /\ (req' = [req EXCEPT ![t] = g] \/ Return(t))
    BY <1>7, <2>2, Zenon DEF RouteAudit, Goto
  <2> QED
    BY Zenon, <2>1, <2>3, <2>4, CalmPlain, CalmReturn
<1>8. ASSUME NEW sub \in TaskID, RouteSaveSubtask(t, sub) PROVE CalmInvariant'
  <2>1. PICK g : g = [req[t] EXCEPT
                        !.pc = IF @ = "save_subtask1" THEN "audit_subtask1" ELSE "audit_subtask2",
                        !.id = sub]
    OBVIOUS
  <2>2. /\ g.op = "route" /\ g.pc \in {"audit_subtask1", "audit_subtask2"}
        /\ req[t].op = "route" /\ req[t].pc # "update_wf"
    BY <1>0, <1>8, <2>1 DEF RouteSaveSubtask, Frame, FrameInv
  <2>3. req' = [req EXCEPT ![t] = g] /\ faults' = faults /\ LeavesGates /\ Neutral(req[t])
    BY <1>8, <1>a, <1>b, <2>1, <2>2 DEF RouteSaveSubtask, Goto
  <2> QED
    BY Zenon, <2>2, <2>3, CalmPlain
<1>9. CASE RouteAuditSubtask(t)
  <2>1. PICK g : g = [req[t] EXCEPT !.pc = "save_subtask2", !.id = Nil]
    OBVIOUS
  <2>2. /\ g.op = "route" /\ g.pc = "save_subtask2" /\ req[t].op = "route"
        /\ req[t].pc # "update_wf"
    BY <1>0, <1>9, <2>1 DEF RouteAuditSubtask, Frame, FrameInv
  <2>3. LeavesGates /\ Neutral(req[t])
    BY <1>9, <1>b, <2>2, RecordUntouched DEF RouteAuditSubtask, AuditAction
  <2>4. faults' = faults /\ (req' = [req EXCEPT ![t] = g] \/ Return(t))
    BY <1>9, <2>1, Zenon DEF RouteAuditSubtask, Goto
  <2> QED
    BY Zenon, <2>2, <2>3, <2>4, CalmPlain, CalmReturn
<1>10. ASSUME NEW task \in TaskID, NEW a \in PolicyAction, NEW d \in PolicyID,
              PolicySaveDecision(t, task, a, d)
       PROVE  CalmInvariant'
  <2>1. PICK g : g = [Idle EXCEPT !.op = "policy", !.pc = "find_wf", !.task = task,
                                  !.id = d, !.arg = PolicyOutcome(tasks[task], a)]
    OBVIOUS
  <2>2. g.op = "policy" /\ g.pc = "find_wf"
    BY <2>1 DEF Idle
  <2>3. /\ req' = [req EXCEPT ![t] = g] /\ faults' = faults /\ LeavesGates /\ Neutral(req[t])
    BY <1>10, <1>a, <2>1, IdleNeutral, Zenon DEF PolicySaveDecision, Accept
  <2> QED
    BY Zenon, <2>2, <2>3, CalmPlain
<1>11. ASSUME NEW w \in WorkflowID, PolicyFindWorkflow(t, w) PROVE CalmInvariant'
  <2>1. /\ UNCHANGED <<wfs, leases, approvals, audit, faults>>
        /\ req[t].op = "policy" /\ req[t].pc = "find_wf"
    BY <1>11 DEF PolicyFindWorkflow, At
  <2>2. CASE CanTransition(wfs[w], "policy_checked")
    <3>1. PICK g : g = [req[t] EXCEPT !.pc = "update_wf", !.wf = w,
                                      !.row = MarkPolicyChecked(wfs[w], req[t].id)]
      OBVIOUS
    <3>2. g.op = "policy" /\ g.pc = "update_wf" /\ g.wf = w /\ g.row.status = "policy_checked"
      BY <1>0, <2>1, <3>1, TransitionFields DEF Frame
    <3>3. wfs[w].status = "routed"
      BY <2>2 DEF CanTransition, IsValidTransition, TransitionTable
    <3>4. req' = [req EXCEPT ![t] = g]
      BY <1>11, <2>2, <3>1 DEF PolicyFindWorkflow, Goto
    <3> QED
      BY ZenonT(40), <2>1, <3>2, <3>3, <3>4, CalmMark
  <2> QED
    BY <1>11, <1>a, <1>b, <2>1, <2>2, CalmReturn DEF PolicyFindWorkflow
<1>12. CASE PolicyMissWorkflow(t)
  BY <1>12, <1>a, <1>b, CalmReturn DEF PolicyMissWorkflow, At
<1>13. CASE PolicyAudit(t)
  <2>1. LeavesGates /\ Neutral(req[t])
    BY <1>13, <1>b, RecordUntouched DEF PolicyAudit, AuditAction, At
  <2> QED
    BY <1>13, <2>1, CalmReturn DEF PolicyAudit
<1> QED
  BY <1>1, <1>2, <1>3, <1>4, <1>5, <1>6, <1>7, <1>8, <1>9, <1>10, <1>11, <1>12, <1>13
     DEF AdmissionStep

---------------------------------------------------------------------------
\* Control

LEMMA CalmStart ==
  ASSUME OneThread, IInv, CalmInvariant, NEW t \in Thread,
         \/ \E task \in TaskID, d \in PolicyID : StartLoadPolicy(t, task, d)
         \/ \E w \in WorkflowID : StartLoadWorkflow(t, w)
         \/ StartMissWorkflow(t)
  PROVE  CalmInvariant'
<1>0. req[t] \in Frame /\ FrameInv(req[t]) /\ wfs \in [WorkflowID -> Row]
  BY DEF IInv, TypeOK
<1>a. UNCHANGED <<wfs, leases, approvals, audit>> => LeavesGates
  BY DEF LeavesGates
<1>b. req[t].op # "resolve" /\ req[t].pc # "update_wf" => Neutral(req[t])
  BY DEF Neutral, Resolving
<1>1. ASSUME NEW task \in TaskID, NEW d \in PolicyID, StartLoadPolicy(t, task, d)
      PROVE  CalmInvariant'
  <2>1. PICK g : g = [Idle EXCEPT !.op = "start", !.pc = "load_wf", !.task = task,
                                  !.id = d, !.arg = policies[d].outcome]
    OBVIOUS
  <2>2. g.op = "start" /\ g.pc = "load_wf"
    BY <2>1 DEF Idle
  <2>3. /\ req' = [req EXCEPT ![t] = g] /\ faults' = faults /\ LeavesGates /\ Neutral(req[t])
    BY <1>1, <1>a, <2>1, IdleNeutral, Zenon DEF StartLoadPolicy, Accept
  <2> QED
    BY Zenon, <2>2, <2>3, CalmPlain
<1>2. ASSUME NEW w \in WorkflowID, StartLoadWorkflow(t, w) PROVE CalmInvariant'
  <2> DEFINE target == StartTarget(req[t].arg)
  <2>1. /\ UNCHANGED <<wfs, leases, approvals, audit, faults>>
        /\ req[t].op = "start" /\ req[t].pc = "load_wf"
    BY <1>2, Zenon DEF StartLoadWorkflow, At
  <2>2. LeavesGates /\ Neutral(req[t])
    BY <1>a, <1>b, <2>1
  <2>3. CASE CanTransition(wfs[w], target)
    <3>1. PICK g : g = [req[t] EXCEPT !.pc = StartFirstWrite(req[t].arg), !.wf = w,
                                      !.row = TransitionTo(wfs[w], target)]
      OBVIOUS
    <3>2. /\ g.op = "start" /\ g.pc = StartFirstWrite(req[t].arg) /\ g.wf = w
          /\ g.row.status = target
      BY <1>0, <2>1, <3>1, TransitionFields DEF Frame
    <3>3. req' = [req EXCEPT ![t] = g]
      BY <1>2, <2>3, <3>1, Zenon DEF StartLoadWorkflow, Goto
    <3>4. CASE req[t].arg = "deny"
      <4>1. g.pc = "update_wf" /\ g.row.status = "failed"
        BY <3>2, <3>4 DEF StartFirstWrite, StartTarget
      <4>2. \A v : ~Resolving(req[t], v)
        BY <2>1 DEF Resolving
      <4> QED
        BY ZenonT(40), <2>1, <3>2, <3>3, <4>1, <4>2, CalmWrite DEF TerminalStates
    <3>5. CASE req[t].arg = "require_approval"
      <4>1. g.pc = "save_approval" /\ target = "awaiting_approval"
        BY <3>2, <3>5 DEF StartFirstWrite, StartTarget
      <4>2. wfs[w].status = "policy_checked"
        BY <2>3, <4>1 DEF CanTransition, IsValidTransition, TransitionTable
      <4>3. CalmFrame(g)'
        BY <2>1, <3>2, <4>1, <4>2 DEF CalmFrame, Resolving
      <4> QED
        BY Zenon, <2>1, <2>2, <3>3, <4>1, <4>3, CalmRead
    <3>6. CASE req[t].arg \notin {"deny", "require_approval"}
      <4>1. g.pc = "save_lease" /\ target = "running"
        BY <3>2, <3>6 DEF StartFirstWrite, StartTarget
      <4>2. wfs[w].status # "awaiting_approval"
        BY <2>3, <4>1 DEF CanTransition, IsValidTransition, TransitionTable
      <4>3. CalmFrame(g)'
        BY <2>1, <3>2, <4>1, <4>2 DEF CalmFrame, Resolving
      <4> QED
        BY Zenon, <2>1, <2>2, <3>3, <4>1, <4>3, CalmRead
    <3> QED
      BY <3>4, <3>5, <3>6
  <2>4. CASE ~CanTransition(wfs[w], target)
    <3>1. Return(t)
      BY <1>2, <2>4, Zenon DEF StartLoadWorkflow
    <3> QED
      BY <2>1, <2>2, <3>1, CalmReturn
  <2> QED
    BY <2>3, <2>4
<1>3. CASE StartMissWorkflow(t)
  BY <1>3, <1>a, <1>b, CalmReturn DEF StartMissWorkflow, At
<1> QED
  BY <1>1, <1>2, <1>3

\* The request is saved for a run that has no pending one.
LEMMA CalmSaveApproval ==
  ASSUME OneThread, IInv, CalmInvariant, NEW t \in Thread, NEW a \in ApprovalID,
         StartSaveApproval(t, a)
  PROVE  CalmInvariant'
<1> DEFINE new == [wf |-> req[t].wf, status |-> "pending"]
<1>0. /\ req[t] \in Frame /\ FrameInv(req[t])
      /\ approvals \in [ApprovalID ->
           [wf : WorkflowID, status : Resolution \cup {"pending"}] \cup {NoApproval}]
  BY DEF IInv, TypeOK
<1>1. PICK f, w : f = req[t] /\ w = req[t].wf /\ f = Current
  BY CurrentFrame
<1>2. /\ f.op = "start" /\ f.pc = "save_approval" /\ f.wf = w /\ w \in WorkflowID
      /\ f.row.status = "awaiting_approval"
  BY <1>0, <1>1 DEF StartSaveApproval, At, FrameInv, Exists
<1>3. PICK g : g = [f EXCEPT !.pc = "update_wf"]
  BY Zenon
<1>4. g.op = "start" /\ g.pc = "update_wf" /\ g.wf = w /\ g.row.status = "awaiting_approval"
  BY ZenonT(40), <1>0, <1>1, <1>2, <1>3 DEF Frame
<1>5. /\ req' = [req EXCEPT ![t] = g] /\ UNCHANGED <<wfs, leases, audit, faults>>
      /\ approvals[a] = NoApproval /\ approvals' = [approvals EXCEPT ![a] = new]
  BY <1>1, <1>3 DEF StartSaveApproval, Goto
<1>6. approvals'[a] = new /\ \A b \in ApprovalID \ {a} : approvals'[b] = approvals[b]
  BY <1>0, <1>5
<1>7. Current' = g
  BY ZenonT(40), <1>5, CurrentFrame
<1>8. ASSUME faults = 0 PROVE CalmStore(g)' /\ CalmFrame(g)'
  <2>1. CalmStore(f) /\ wfs[w].status = "policy_checked"
    BY <1>1, <1>2, <1>8 DEF CalmInvariant, CalmFrame
  <2>2. leases[w] = NoLease /\ \A b \in ApprovalID : ~Pending(b, w)
    BY ZenonT(40), <1>1, <1>2, <1>8, <2>1, CalmFacts DEF Executing, TerminalStates
  <2>3. /\ Standing(g, w)' = "awaiting_approval"
        /\ \A v \in WorkflowID \ {w} : Standing(g, v)' = Standing(f, v)
    BY <1>2, <1>4, <1>5 DEF Standing
  <2>4. /\ Pending(a, w)'
        /\ \A b \in ApprovalID \ {a} : ~Pending(b, w)'
        /\ \A v \in WorkflowID \ {w}, b \in ApprovalID : Pending(b, v)' <=> Pending(b, v)
    <3>1. Pending(a, w)'
      BY ZenonT(40), <1>1, <1>6 DEF Pending
    <3>2. ASSUME NEW b \in ApprovalID \ {a}, NEW v PROVE Pending(b, v)' <=> Pending(b, v)
      BY <1>6 DEF Pending
    <3>3. ASSUME NEW v \in WorkflowID \ {w} PROVE ~Pending(a, v) /\ ~Pending(a, v)'
      BY <1>1, <1>5, <1>6 DEF Pending, NoApproval
    <3> QED
      BY <2>2, <3>1, <3>2, <3>3
  <2>5. ASSUME NEW v \in WorkflowID
        PROVE  /\ leases'[v] # NoLease => Standing(g, v)' \in Executing \cup TerminalStates
               /\ leases'[v].status = "active" => Standing(g, v)' \notin {"killed", "quarantined"}
               /\ Standing(g, v)' = "awaiting_approval" => \E b \in ApprovalID : Pending(b, v)'
               /\ \A b \in ApprovalID : Pending(b, v)' =>
                    /\ Standing(g, v)' \in {"awaiting_approval", "killed", "failed"}
                    /\ \A c \in ApprovalID : Pending(c, v)' => b = c
    <3>1. CASE v = w
      BY <1>5, <2>2, <2>3, <2>4, <3>1
    <3>2. CASE v # w
      <4>1. ~Resolving(f, v)
        BY <1>2 DEF Resolving
      <4> QED
        BY <1>5, <2>1, <2>3, <2>4, <3>2, <4>1, Zenon DEF CalmStore
    <3> QED
      BY <3>1, <3>2
  <2>6. ASSUME NEW b \in ApprovalID, approvals'[b].status \in Resolution
        PROVE  \/ audit'[approvals'[b].wf]["approval_resolved"] > 0
               \/ wfs'[approvals'[b].wf].status \in {"killed", "failed"}
    <3>1. b # a
      BY <1>6, <2>6 DEF Resolution
    <3>2. ~Resolving(f, approvals[b].wf)
      BY <1>2 DEF Resolving
    <3> QED
      BY <1>5, <1>6, <2>1, <2>6, <3>1, <3>2 DEF CalmStore
  <2>7. CalmFrame(g)'
    BY <1>4 DEF CalmFrame, Resolving
  <2> QED
    BY <2>5, <2>6, <2>7, Zenon DEF CalmStore
<1>9. (CalmStore(g)' <=> CalmStore(Current)') /\ (CalmFrame(g)' <=> CalmFrame(Current)')
  BY <1>7, Zenon DEF CalmStore, CalmFrame, Standing, Resolving
<1> QED
  BY <1>5, <1>8, <1>9 DEF CalmInvariant

LEMMA CalmAttempt ==
  ASSUME OneThread, IInv, SerialInvariant, CalmInvariant, NEW t \in Thread,
         \/ \E w \in WorkflowID, s \in AttemptStatus : AttemptLoadWorkflow(t, w, s)
         \/ AttemptLoadLease(t)
  PROVE  CalmInvariant'
<1>0. /\ Fresh(req[t]) /\ req[t] \in Frame /\ FrameInv(req[t]) /\ wfs \in [WorkflowID -> Row]
  BY DEF SerialInvariant, IInv, TypeOK
<1>a. UNCHANGED <<wfs, leases, approvals, audit>> => LeavesGates
  BY DEF LeavesGates
<1>b. req[t].op # "resolve" /\ req[t].pc # "update_wf" => Neutral(req[t])
  BY DEF Neutral, Resolving
<1>1. ASSUME NEW w \in WorkflowID, NEW s \in AttemptStatus, AttemptLoadWorkflow(t, w, s)
      PROVE  CalmInvariant'
  <2>1. PICK g : g = [Idle EXCEPT !.op = "attempt", !.pc = "load_lease", !.wf = w,
                                  !.row = wfs[w], !.arg = s]
    OBVIOUS
  <2>2. g.op = "attempt" /\ g.pc = "load_lease"
    BY <2>1 DEF Idle
  <2>3. /\ req' = [req EXCEPT ![t] = g] /\ faults' = faults /\ LeavesGates /\ Neutral(req[t])
    BY <1>1, <1>a, <2>1, IdleNeutral, Zenon DEF AttemptLoadWorkflow, Accept
  <2> QED
    BY Zenon, <2>2, <2>3, CalmPlain
<1>2. CASE AttemptLoadLease(t)
  <2> DEFINE w == req[t].wf
             lease == RecordAttempt(leases[w])
             row == req[t].row
             target == AttemptTarget(req[t].arg, lease, row)
  <2>0. PICK recorded : recorded = [req[t] EXCEPT !.pc = "update_lease", !.lease = lease]
    OBVIOUS
  <2>1. /\ UNCHANGED <<wfs, leases, approvals, audit, faults>>
        /\ req[t].op = "attempt" /\ req[t].pc = "load_lease"
    BY <1>2 DEF AttemptLoadLease, At
  <2>2. LeavesGates /\ Neutral(req[t]) /\ w \in WorkflowID /\ row = wfs[w] /\ row \in Row
    BY ZenonT(40), <1>0, <1>a, <1>b, <2>1 DEF Fresh, FrameInv, Exists
  <2>3. target \in {"completed", "quarantined", row.status}
    BY DEF AttemptTarget
  <2>4. \/ Return(t)
        \/ req' = [req EXCEPT ![t] = recorded]
        \/ req' = [req EXCEPT ![t] = [recorded EXCEPT !.row = TransitionTo(row, target)]]
    BY <1>2, <2>0 DEF AttemptLoadLease, Goto
  <2>5. TransitionTo(row, target).status = target
    BY <2>2, TransitionFields
  <2> HIDE DEF target, lease
  <2>6. ASSUME NEW g, g.op = "attempt", g.pc = "update_lease", g.wf = w,
               g.row.status \in {"completed", "quarantined", row.status},
               req' = [req EXCEPT ![t] = g]
        PROVE  CalmInvariant'
    <3>1. CalmFrame(g)'
      BY <2>1, <2>2, <2>6 DEF CalmFrame, Resolving
    <3> QED
      BY Zenon, <2>1, <2>2, <2>6, <3>1, CalmRead
  <2>7. CASE Return(t)
    BY <2>1, <2>2, <2>7, CalmReturn
  <2>8. CASE req' = [req EXCEPT ![t] = recorded]
    <3>1. /\ recorded.op = "attempt" /\ recorded.pc = "update_lease" /\ recorded.wf = w
          /\ recorded.row = row
      BY <1>0, <2>0, <2>1 DEF Frame
    <3> QED
      BY ZenonT(40), <2>6, <2>8, <3>1
  <2>9. CASE req' = [req EXCEPT ![t] = [recorded EXCEPT !.row = TransitionTo(row, target)]]
    <3>1. PICK g : g = [recorded EXCEPT !.row = TransitionTo(row, target)]
      BY ZenonT(40)
    <3>2. /\ g.op = "attempt" /\ g.pc = "update_lease" /\ g.wf = w
          /\ g.row = TransitionTo(row, target)
      BY <1>0, <2>0, <2>1, <3>1 DEF Frame
    <3>3. req' = [req EXCEPT ![t] = g]
      BY <2>9, <3>1
    <3> QED
      BY ZenonT(40), <2>3, <2>5, <2>6, <3>2, <3>3
  <2> QED
    BY <2>4, <2>7, <2>8, <2>9
<1> QED
  BY <1>1, <1>2

LEMMA CalmPauseResume ==
  ASSUME OneThread, IInv, SerialInvariant, CalmInvariant, NEW t \in Thread,
         \/ \E w \in WorkflowID : PauseLoadWorkflow(t, w) \/ ResumeLoadWorkflow(t, w)
         \/ ResumeLoadLease(t)
  PROVE  CalmInvariant'
<1>0. /\ Fresh(req[t]) /\ req[t] \in Frame /\ FrameInv(req[t]) /\ wfs \in [WorkflowID -> Row]
  BY DEF SerialInvariant, IInv, TypeOK
<1>a. UNCHANGED <<wfs, leases, approvals, audit>> => LeavesGates
  BY DEF LeavesGates
<1>1. ASSUME NEW w \in WorkflowID, PauseLoadWorkflow(t, w) PROVE CalmInvariant'
  <2>1. PICK g : g = [Idle EXCEPT !.op = "pause", !.pc = "update_wf", !.wf = w,
                                  !.row = TransitionTo(wfs[w], "paused")]
    OBVIOUS
  <2>2. g.op = "pause" /\ g.pc = "update_wf" /\ g.wf = w /\ g.row.status = "paused"
    BY <1>0, <2>1, TransitionFields DEF Idle
  <2>3. /\ req' = [req EXCEPT ![t] = g] /\ UNCHANGED <<wfs, leases, approvals, audit, faults>>
        /\ req[t] = Idle /\ CanTransition(wfs[w], "paused")
    BY <1>1, <2>1, Zenon DEF PauseLoadWorkflow, Accept
  <2>4. wfs[w].status = "running"
    BY <2>3 DEF CanTransition, IsValidTransition, TransitionTable
  <2>5. req[t].pc # "update_wf" /\ \A v : ~Resolving(req[t], v)
    BY <2>3 DEF Idle, Resolving
  <2>6. ASSUME faults = 0 PROVE \A a \in ApprovalID : ~Pending(a, w)
    BY <2>4, <2>5, <2>6, CalmFacts
  <2> QED
    BY ZenonT(40), <2>2, <2>3, <2>5, <2>6, CalmWrite DEF Executing
<1>2. ASSUME NEW w \in WorkflowID, ResumeLoadWorkflow(t, w) PROVE CalmInvariant'
  <2>1. PICK g : g = [Idle EXCEPT !.op = "resume", !.pc = "load_lease", !.wf = w, !.row = wfs[w]]
    OBVIOUS
  <2>2. g.op = "resume" /\ g.pc = "load_lease"
    BY <2>1 DEF Idle
  <2>3. /\ req' = [req EXCEPT ![t] = g] /\ faults' = faults /\ LeavesGates /\ Neutral(req[t])
    BY <1>2, <1>a, <2>1, IdleNeutral, Zenon DEF ResumeLoadWorkflow, Accept
  <2> QED
    BY Zenon, <2>2, <2>3, CalmPlain
<1>3. CASE ResumeLoadLease(t)
  <2>1. /\ UNCHANGED <<wfs, leases, approvals, audit, faults>>
        /\ req[t].op = "resume" /\ req[t].pc = "load_lease"
    BY <1>3 DEF ResumeLoadLease, At
  <2>2. PICK w : w = req[t].wf
    OBVIOUS
  <2>3. w \in WorkflowID /\ req[t].row = wfs[w]
    BY ZenonT(40), <1>0, <2>1, <2>2 DEF Fresh, FrameInv, Exists
  <2>4. \A v : ~Resolving(req[t], v)
    BY <2>1 DEF Resolving
  <2>5. CASE HasRetryBudget(leases[w]) /\ CanTransition(wfs[w], "running")
    <3>1. PICK g : g = [req[t] EXCEPT !.pc = "update_wf", !.row = TransitionTo(wfs[w], "running")]
      OBVIOUS
    <3>2. g.op = "resume" /\ g.pc = "update_wf" /\ g.wf = w /\ g.row.status = "running"
      BY <1>0, <2>1, <2>2, <2>3, <3>1, TransitionFields DEF Frame
    <3>3. req' = [req EXCEPT ![t] = g]
      BY <1>3, <2>2, <2>3, <2>5, <3>1 DEF ResumeLoadLease, Goto
    <3>4. ASSUME faults = 0 PROVE \A a \in ApprovalID : ~Pending(a, w)
      BY <2>1, <2>3, <2>5, <3>4, CalmFacts
         DEF HasRetryBudget, CanTransition, Executing, TerminalStates
    <3> QED
      BY ZenonT(40), <2>1, <2>3, <2>4, <3>2, <3>3, <3>4, CalmWrite DEF Executing
  <2>6. CASE ~(HasRetryBudget(leases[w]) /\ CanTransition(wfs[w], "running"))
    <3>1. Return(t)
      BY <1>3, <2>2, <2>3, <2>6 DEF ResumeLoadLease
    <3>2. Neutral(req[t]) /\ LeavesGates
      BY <1>a, <2>1, <2>4 DEF Neutral
    <3> QED
      BY <2>1, <3>1, <3>2, CalmReturn
  <2> QED
    BY <2>5, <2>6
<1> QED
  BY <1>1, <1>2, <1>3

LEMMA CalmKill ==
  ASSUME OneThread, IInv, SerialInvariant, CalmInvariant, NEW t \in Thread,
         \/ \E w \in WorkflowID : KillLoadWorkflow(t, w)
         \/ KillLoadLease(t)
         \/ KillLeaseFault(t)
  PROVE  CalmInvariant'
<1>0. /\ Fresh(req[t]) /\ req[t] \in Frame /\ FrameInv(req[t]) /\ wfs \in [WorkflowID -> Row]
  BY DEF SerialInvariant, IInv, TypeOK
<1>a. UNCHANGED <<wfs, leases, approvals, audit>> => LeavesGates
  BY DEF LeavesGates
<1>1. ASSUME NEW w \in WorkflowID, KillLoadWorkflow(t, w) PROVE CalmInvariant'
  <2>1. PICK g : g = [Idle EXCEPT !.op = "kill", !.pc = "load_lease", !.wf = w,
                                  !.row = TransitionTo(wfs[w], "killed")]
    OBVIOUS
  <2>2. g.op = "kill" /\ g.pc = "load_lease"
    BY <2>1 DEF Idle
  <2>3. /\ req' = [req EXCEPT ![t] = g] /\ faults' = faults /\ LeavesGates /\ Neutral(req[t])
    BY <1>1, <1>a, <2>1, IdleNeutral, Zenon DEF KillLoadWorkflow, Accept
  <2> QED
    BY Zenon, <2>2, <2>3, CalmPlain
<1>2. CASE KillLoadLease(t)
  <2>1. /\ UNCHANGED <<wfs, leases, approvals, audit, faults>>
        /\ req[t].op = "kill" /\ req[t].pc = "load_lease"
    BY <1>2 DEF KillLoadLease, At
  <2>2. PICK w : w = req[t].wf
    OBVIOUS
  <2>3. w \in WorkflowID /\ req[t].row.status = "killed"
    BY ZenonT(40), <1>0, <2>1, <2>2 DEF Fresh, FrameInv, Exists
  <2>4. \A v : ~Resolving(req[t], v)
    BY <2>1 DEF Resolving
  <2>5. CASE CanRevoke(leases[w])
    <3>1. PICK g : g = [req[t] EXCEPT !.pc = "update_lease", !.lease = Revoke(leases[w])]
      OBVIOUS
    <3>2. g.op = "kill" /\ g.pc = "update_lease"
      BY <1>0, <2>1, <3>1 DEF Frame
    <3>3. CalmFrame(g)' /\ Neutral(req[t]) /\ LeavesGates
      BY <1>a, <2>1, <2>4, <3>2 DEF CalmFrame, Resolving, Neutral
    <3>4. req' = [req EXCEPT ![t] = g]
      BY <1>2, <2>2, <2>5, <3>1 DEF KillLoadLease, Goto
    <3> QED
      BY Zenon, <2>1, <3>2, <3>3, <3>4, CalmRead
  <2>6. CASE ~CanRevoke(leases[w])
    <3>1. PICK g : g = [req[t] EXCEPT !.pc = "update_wf"]
      BY Zenon
    <3>2. g.op = "kill" /\ g.pc = "update_wf" /\ g.wf = w /\ g.row.status = "killed"
      BY <1>0, <2>1, <2>2, <2>3, <3>1 DEF Frame
    <3>3. req' = [req EXCEPT ![t] = g]
      BY <1>2, <2>2, <2>6, <3>1 DEF KillLoadLease, Goto
    <3>4. leases[w].status # "active"
      BY <2>6 DEF CanRevoke
    <3> QED
      BY ZenonT(40), <2>1, <2>3, <2>4, <3>2, <3>3, <3>4, CalmWrite DEF TerminalStates
  <2> QED
    BY <2>5, <2>6
<1>3. CASE KillLeaseFault(t)
  BY <1>3 DEF KillLeaseFault, Fault, CalmInvariant, IInv, TypeOK
<1> QED
  BY <1>1, <1>2, <1>3

\* A resolution that goes on to grant the lease, or finds the run ended.
LEMMA ResolveStore ==
  ASSUME IInv, NEW f, NEW g, NEW w \in WorkflowID, CalmStore(f), Resolving(f, w),
         f.pc \in {"load_wf", "save_lease"}, LeavesGates, g.pc # "update_wf",
         \/ g.op = "resolve" /\ g.pc = "save_lease" /\ g.wf = w
         \/ wfs[w].status \in {"killed", "failed"}
  PROVE  CalmStore(g)'
<1>1. ASSUME NEW v \in WorkflowID
      PROVE  Standing(g, v)' = Standing(f, v) /\ Standing(f, w) = wfs[w].status
  BY DEF Standing, LeavesGates
<1>2. ASSUME NEW v, v # w PROVE ~Resolving(f, v)
  BY <1>2 DEF Resolving
<1>3. ASSUME NEW a, NEW v PROVE Pending(a, v)' <=> Pending(a, v)
  BY DEF Pending, LeavesGates
<1>4. \/ Resolving(g, w) /\ g.pc \in {"load_wf", "save_lease"}
      \/ wfs[w].status \in {"killed", "failed"}
  BY DEF Resolving
<1>5. ASSUME NEW v \in WorkflowID
      PROVE  /\ leases'[v] # NoLease => Standing(g, v)' \in Executing \cup TerminalStates
             /\ leases'[v].status = "active" => Standing(g, v)' \notin {"killed", "quarantined"}
             /\ Standing(g, v)' = "awaiting_approval" =>
                  \/ \E a \in ApprovalID : Pending(a, v)'
                  \/ Resolving(g, v) /\ g.pc \in {"load_wf", "save_lease"}
             /\ \A a \in ApprovalID : Pending(a, v)' =>
                  /\ Standing(g, v)' \in {"awaiting_approval", "killed", "failed"}
                  /\ \A b \in ApprovalID : Pending(b, v)' => a = b
  <2>1. CASE v # w
    <3>1. ~Resolving(f, v) /\ Standing(g, v)' = Standing(f, v) /\ leases'[v] = leases[v]
      BY <1>1, <1>2, <2>1 DEF LeavesGates
    <3> QED
      BY <1>3, <3>1, ZenonT(40) DEF CalmStore
  <2>2. CASE v = w
    <3>1. wfs[w].status \in {"killed", "failed"} => wfs[w].status # "awaiting_approval"
      OBVIOUS
    <3> QED
      BY <1>1, <1>3, <1>4, <2>2, <3>1, Zenon DEF CalmStore, LeavesGates
  <2> QED
    BY <2>1, <2>2
<1>6. ASSUME NEW a \in ApprovalID, approvals'[a].status \in Resolution
      PROVE  \/ audit'[approvals'[a].wf]["approval_resolved"] > 0
             \/ wfs'[approvals'[a].wf].status \in {"killed", "failed"}
             \/ Resolving(g, approvals'[a].wf)
  <2>1. approvals'[a] = approvals[a] /\ UNCHANGED wfs
    BY DEF LeavesGates
  <2>2. approvals[a].wf \in WorkflowID
    BY <1>6, <2>1 DEF IInv, TypeOK, NoApproval, Resolution
  <2>3. CASE approvals[a].wf = w
    BY <1>4, <2>1, <2>3
  <2>4. CASE approvals[a].wf # w
    BY <1>2, <1>6, <2>1, <2>2, <2>4 DEF CalmStore, LeavesGates
  <2> QED
    BY <2>3, <2>4
<1> QED
  BY <1>5, <1>6, Zenon DEF CalmStore, Resolving

LEMMA CalmResolveLoad ==
  ASSUME OneThread, IInv, CalmInvariant, NEW t \in Thread,
         \/ \E a \in ApprovalID, r \in Resolution : ResolveLoadApproval(t, a, r)
         \/ ResolveLoadWorkflow(t)
  PROVE  CalmInvariant'
<1>0. req[t] \in Frame /\ FrameInv(req[t]) /\ wfs \in [WorkflowID -> Row]
  BY DEF IInv, TypeOK
<1>a. UNCHANGED <<wfs, leases, approvals, audit>> => LeavesGates
  BY DEF LeavesGates
<1>1. ASSUME NEW a \in ApprovalID, NEW r \in Resolution, ResolveLoadApproval(t, a, r)
      PROVE  CalmInvariant'
  <2>1. PICK g : g = [Idle EXCEPT !.op = "resolve", !.pc = "update_approval",
                                  !.wf = approvals[a].wf, !.id = a, !.arg = r]
    OBVIOUS
  <2>2. g.op = "resolve" /\ g.pc = "update_approval"
    BY <2>1 DEF Idle
  <2>3. /\ req' = [req EXCEPT ![t] = g] /\ faults' = faults /\ LeavesGates /\ Neutral(req[t])
    BY <1>1, <1>a, <2>1, IdleNeutral, Zenon DEF ResolveLoadApproval, Accept
  <2> QED
    BY Zenon, <2>2, <2>3, CalmPlain
<1>2. CASE ResolveLoadWorkflow(t)
  <2>1. PICK f, w, target :
          /\ f = req[t] /\ f = Current /\ w = req[t].wf
          /\ target = IF req[t].arg = "approved" THEN "approved" ELSE "failed"
    BY CurrentFrame
  <2>2. /\ UNCHANGED <<wfs, leases, approvals, audit, faults>> /\ LeavesGates
        /\ f.op = "resolve" /\ f.pc = "load_wf" /\ f.wf = w /\ w \in WorkflowID
    BY ZenonT(40), <1>0, <1>2, <1>a, <2>1 DEF ResolveLoadWorkflow, At, FrameInv, Exists
  <2>3. Resolving(f, w) /\ \A v : Resolving(f, v) => v = w
    BY <2>2 DEF Resolving
  <2>4. ASSUME faults = 0
        PROVE  /\ CalmStore(f) /\ \A a \in ApprovalID : ~Pending(a, w)
               /\ wfs[w].status \in {"awaiting_approval", "killed", "failed"}
    BY <2>1, <2>2, <2>3, <2>4 DEF CalmInvariant, CalmFrame
  <2>5. /\ target \in {"approved", "failed"}
        /\ wfs[w].status = "awaiting_approval" => CanTransition(wfs[w], target)
    BY <2>1 DEF CanTransition, IsValidTransition, TransitionTable, TerminalStates
  <2>6. ASSUME NEW g, req' = [req EXCEPT ![t] = g], faults = 0 => CalmStore(g)' /\ CalmFrame(g)'
        PROVE  CalmInvariant'
    <3>1. Current' = g
      BY ZenonT(40), <2>6, CurrentFrame
    <3>2. (CalmStore(g)' <=> CalmStore(Current)') /\ (CalmFrame(g)' <=> CalmFrame(Current)')
      BY <3>1, Zenon DEF CalmStore, CalmFrame, Standing, Resolving
    <3> QED
      BY <2>2, <2>6, <3>2 DEF CalmInvariant
  <2>7. CASE CanTransition(wfs[w], target) /\ target = "approved"
    <3>1. PICK g : g = [f EXCEPT !.pc = "save_lease", !.row = Resolved(wfs[w], f.arg)]
      OBVIOUS
    <3>2. g.op = "resolve" /\ g.pc = "save_lease" /\ g.wf = w
      BY <1>0, <2>1, <2>2, <3>1 DEF Frame
    <3>3. req' = [req EXCEPT ![t] = g]
      BY ZenonT(40), <1>2, <2>1, <2>7, <3>1 DEF ResolveLoadWorkflow, Goto
    <3>4. ASSUME faults = 0 PROVE CalmStore(g)' /\ CalmFrame(g)'
      <4>1. CalmStore(g)'
        BY <2>2, <2>3, <2>4, <3>2, <3>4, ResolveStore
      <4>2. wfs[w].status = "awaiting_approval"
        BY <2>7 DEF CanTransition, IsValidTransition, TransitionTable
      <4>3. \A a \in ApprovalID : ~Pending(a, w)'
        BY <2>2, <2>4, <3>4 DEF Pending
      <4>4. CalmFrame(g)'
        BY <2>2, <3>2, <4>2, <4>3 DEF CalmFrame, Resolving, Pending
      <4> QED
        BY <4>1, <4>4
    <3> QED
      BY <2>6, <3>3, <3>4, Zenon
  <2>8. CASE CanTransition(wfs[w], target) /\ target # "approved"
    <3>1. PICK g : g = [f EXCEPT !.pc = "update_wf", !.row = Resolved(wfs[w], f.arg)]
      OBVIOUS
    <3>2. /\ g.op = "resolve" /\ g.pc = "update_wf" /\ g.wf = w
          /\ g.row = Resolved(wfs[w], f.arg) /\ f.arg # "approved"
      BY ZenonT(40), <1>0, <2>1, <2>2, <2>8, <3>1 DEF Frame
    <3>3. g.row.status = "failed"
      BY <1>0, <2>2, <3>2, TransitionFields DEF Resolved
    <3>4. req' = [req EXCEPT ![t] = g]
      BY ZenonT(40), <1>2, <2>1, <2>8, <3>1 DEF ResolveLoadWorkflow, Goto
    <3> QED
      BY ZenonT(40), <2>1, <2>2, <2>3, <2>4, <3>2, <3>3, <3>4, CalmWrite DEF TerminalStates
  <2>9. CASE ~CanTransition(wfs[w], target)
    <3>1. PICK g : g = Idle
      OBVIOUS
    <3>2. g.pc = "idle" /\ g.op = "idle"
      BY <3>1 DEF Idle
    <3>3. req' = [req EXCEPT ![t] = g]
      BY ZenonT(40), <1>2, <2>1, <2>9, <3>1 DEF ResolveLoadWorkflow, Return
    <3>4. ASSUME faults = 0 PROVE CalmStore(g)' /\ CalmFrame(g)'
      <4>1. wfs[w].status \in {"killed", "failed"}
        BY <2>4, <2>5, <2>9, <3>4
      <4>2. CalmStore(g)'
        BY <2>2, <2>3, <2>4, <3>2, <3>4, <4>1, ResolveStore
      <4>3. CalmFrame(g)'
        BY <3>2 DEF CalmFrame, Resolving
      <4> QED
        BY <4>2, <4>3
    <3> QED
      BY <2>6, <3>3, <3>4, Zenon
  <2> QED
    BY <2>7, <2>8, <2>9
<1> QED
  BY <1>1, <1>2

\* The resolution takes the only pending request of its run.
LEMMA CalmResolveUpdate ==
  ASSUME OneThread, IInv, SerialInvariant, CalmInvariant, NEW t \in Thread,
         ResolveUpdateApproval(t)
  PROVE  CalmInvariant'
<1>0. /\ req[t] \in Frame /\ FrameInv(req[t]) /\ Fresh(req[t])
      /\ approvals \in [ApprovalID ->
           [wf : WorkflowID, status : Resolution \cup {"pending"}] \cup {NoApproval}]
  BY DEF SerialInvariant, IInv, TypeOK
<1>1. PICK f, w, a : f = req[t] /\ w = req[t].wf /\ a = req[t].id /\ f = Current
  BY CurrentFrame
<1>2. /\ f.op = "resolve" /\ f.pc = "update_approval" /\ f.wf = w /\ w \in WorkflowID
      /\ a \in ApprovalID /\ approvals[a].wf = w /\ approvals[a].status = "pending"
      /\ f.arg \in Resolution
  BY <1>0, <1>1 DEF ResolveUpdateApproval, At, FrameInv, Exists, Fresh
<1>3. Pending(a, w)
  BY <1>0, <1>2 DEF Pending, NoApproval
<1>4. PICK g : g = [f EXCEPT !.pc = "load_wf"]
  BY Zenon
<1>5. g.op = "resolve" /\ g.pc = "load_wf" /\ g.wf = w
  BY ZenonT(40), <1>0, <1>1, <1>2, <1>4 DEF Frame
<1>6. /\ req' = [req EXCEPT ![t] = g] /\ UNCHANGED <<wfs, leases, audit, faults>>
      /\ approvals' = [approvals EXCEPT ![a].status = f.arg]
  BY <1>1, <1>4 DEF ResolveUpdateApproval, Goto
<1>7. /\ approvals'[a].wf = w /\ approvals'[a].status \in Resolution
      /\ \A b \in ApprovalID \ {a} : approvals'[b] = approvals[b]
  BY <1>0, <1>2, <1>6 DEF NoApproval
<1>8. Current' = g
  BY ZenonT(40), <1>6, CurrentFrame
<1>9. ASSUME faults = 0 PROVE CalmStore(g)' /\ CalmFrame(g)'
  <2>1. CalmStore(f)
    BY <1>1, <1>9 DEF CalmInvariant
  <2>2. /\ wfs[w].status \in {"awaiting_approval", "killed", "failed"}
        /\ \A b \in ApprovalID : Pending(b, w) => b = a
    BY ZenonT(40), <1>1, <1>2, <1>3, <1>9, CalmFacts
  <2>3. /\ \A v \in WorkflowID : Standing(g, v)' = Standing(f, v)
        /\ \A v : ~Resolving(f, v)
        /\ Resolving(g, w)
    BY <1>2, <1>5, <1>6 DEF Standing, Resolving
  <2>4. /\ \A b \in ApprovalID : ~Pending(b, w)'
        /\ \A v \in WorkflowID \ {w}, b \in ApprovalID : Pending(b, v)' <=> Pending(b, v)
    <3>1. \A v : ~Pending(a, v)'
      BY <1>7 DEF Pending, Resolution
    <3>2. ASSUME NEW b \in ApprovalID \ {a}, NEW v PROVE Pending(b, v)' <=> Pending(b, v)
      BY <1>7 DEF Pending
    <3>3. ASSUME NEW v \in WorkflowID \ {w} PROVE ~Pending(a, v)
      BY <1>2 DEF Pending
    <3> QED
      BY <2>2, <3>1, <3>2, <3>3
  <2>5. ASSUME NEW v \in WorkflowID
        PROVE  /\ leases'[v] # NoLease => Standing(g, v)' \in Executing \cup TerminalStates
               /\ leases'[v].status = "active" => Standing(g, v)' \notin {"killed", "quarantined"}
               /\ Standing(g, v)' = "awaiting_approval" =>
                    \/ \E b \in ApprovalID : Pending(b, v)'
                    \/ Resolving(g, v) /\ g.pc \in {"load_wf", "save_lease"}
               /\ \A b \in ApprovalID : Pending(b, v)' =>
                    /\ Standing(g, v)' \in {"awaiting_approval", "killed", "failed"}
                    /\ \A c \in ApprovalID : Pending(c, v)' => b = c
    <3>1. /\ leases'[v] = leases[v] /\ Standing(g, v)' = Standing(f, v)
          /\ g.pc \in {"load_wf", "save_lease"}
      BY <1>5, <1>6, <2>3
    <3>2. CASE v = w
      BY <2>1, <2>3, <2>4, <3>1, <3>2, Zenon DEF CalmStore
    <3>3. CASE v # w
      BY <2>1, <2>3, <2>4, <3>1, <3>3, ZenonT(40) DEF CalmStore
    <3> QED
      BY <3>2, <3>3
  <2>6. ASSUME NEW b \in ApprovalID, approvals'[b].status \in Resolution
        PROVE  \/ audit'[approvals'[b].wf]["approval_resolved"] > 0
               \/ wfs'[approvals'[b].wf].status \in {"killed", "failed"}
               \/ Resolving(g, approvals'[b].wf)
    <3>1. CASE b = a
      BY <1>7, <2>3, <3>1
    <3>2. CASE b # a
      BY <1>6, <1>7, <2>1, <2>3, <2>6, <3>2 DEF CalmStore
    <3> QED
      BY <3>1, <3>2
  <2>7. CalmFrame(g)'
    BY <1>5, <1>6, <2>2, <2>4 DEF CalmFrame, Pending
  <2> QED
    BY <2>5, <2>6, <2>7, Zenon DEF CalmStore, Resolving
<1>10. (CalmStore(g)' <=> CalmStore(Current)') /\ (CalmFrame(g)' <=> CalmFrame(Current)')
  BY <1>8, Zenon DEF CalmStore, CalmFrame, Standing, Resolving
<1> QED
  BY <1>6, <1>9, <1>10 DEF CalmInvariant

---------------------------------------------------------------------------
\* The shared statements

LEMMA CalmSaveLease ==
  ASSUME OneThread, IInv, SerialInvariant, CalmInvariant, NEW t \in Thread, SaveLease(t)
  PROVE  CalmInvariant'
<1>0. /\ req[t] \in Frame /\ FrameInv(req[t]) /\ leases \in [WorkflowID -> Lease]
      /\ Fresh(req[t])
  BY DEF SerialInvariant, IInv, TypeOK
<1>1. PICK f, w : f = req[t] /\ w = req[t].wf /\ f = Current
  BY CurrentFrame
<1>2. /\ f.pc = "save_lease" /\ f.wf = w /\ w \in WorkflowID /\ f.row.status = "running"
      /\ UNCHANGED <<wfs, approvals, audit, faults>>
      /\ wfs[w].status \notin TerminalStates
  BY <1>0, <1>1 DEF SaveLease, FrameInv, Exists, Fresh, Advances
<1>3. ASSUME faults = 0
      PROVE  /\ wfs[w].status = "awaiting_approval" <=> f.op = "resolve"
             /\ \A a \in ApprovalID : ~Pending(a, w)
  <2>1. CalmFrame(f)
    BY <1>1, <1>3 DEF CalmInvariant
  <2>2. wfs[w].status = "awaiting_approval" <=> f.op = "resolve"
    BY <1>2, <2>1 DEF CalmFrame
  <2>3. CASE f.op = "resolve"
    <3>1. Resolving(f, w)
      BY <1>2, <2>3 DEF Resolving
    <3> QED
      BY <1>2, <2>1, <2>2, <3>1 DEF CalmFrame
  <2>4. CASE f.op # "resolve"
    BY ZenonT(40), <1>1, <1>2, <1>3, <2>2, <2>4, CalmFacts DEF TerminalStates
  <2> QED
    BY <2>2, <2>3, <2>4
<1>4. CASE leases[w] = NoLease
  <2>1. PICK g : g = [f EXCEPT !.pc = "update_wf"]
    BY Zenon
  <2>2. g.op = f.op /\ g.pc = "update_wf" /\ g.wf = w /\ g.row.status = "running"
    BY ZenonT(40), <1>0, <1>1, <1>2, <2>1 DEF Frame
  <2>3. req' = [req EXCEPT ![t] = g] /\ leases' = [leases EXCEPT ![w] = NewExecutionLease]
    BY <1>1, <1>4, <2>1 DEF SaveLease, Goto
  <2>4. \A v \in WorkflowID \ {w} : wfs'[v] = wfs[v] /\ leases'[v] = leases[v]
    BY <1>0, <1>2, <2>3
  <2>5. \A v : Resolving(req[t], v) => v = w /\ g.op = "resolve"
    BY <1>1, <1>2, <2>2 DEF Resolving
  <2>6. req[t].pc # "update_wf" /\ "running" \in Executing
    BY <1>1, <1>2 DEF Executing
  <2> QED
    BY ZenonT(40), <1>2, <1>3, <2>2, <2>3, <2>4, <2>5, <2>6, CalmWrite
<1>5. CASE leases[w] # NoLease
  <2>1. Return(t) /\ UNCHANGED leases
    BY <1>1, <1>5 DEF SaveLease
  <2>2. LeavesGates
    BY <1>2, <2>1 DEF LeavesGates
  <2>3. CASE f.op # "resolve"
    <3>1. Neutral(req[t])
      BY <1>1, <1>2, <2>3 DEF Neutral, Resolving
    <3> QED
      BY <1>2, <2>1, <2>2, <3>1, CalmReturn
  <2>4. CASE f.op = "resolve"
    <3>1. ASSUME faults = 0 PROVE FALSE
      BY ZenonT(40), <1>1, <1>2, <1>3, <1>5, <2>4, <3>1, CalmFacts DEF Executing, TerminalStates
    <3> QED
      BY <1>2, <3>1 DEF CalmInvariant
  <2> QED
    BY <2>3, <2>4
<1> QED
  BY <1>4, <1>5

LEMMA CalmUpdateLease ==
  ASSUME OneThread, IInv, SerialInvariant, CalmInvariant, NEW t \in Thread, UpdateLease(t)
  PROVE  CalmInvariant'
<1>0. /\ req[t] \in Frame /\ FrameInv(req[t]) /\ leases \in [WorkflowID -> Lease]
      /\ Fresh(req[t])
  BY DEF SerialInvariant, IInv, TypeOK
<1>1. PICK f, w : f = req[t] /\ w = req[t].wf /\ f = Current
  BY CurrentFrame
<1>2. /\ f.pc = "update_lease" /\ f.wf = w /\ w \in WorkflowID
      /\ UNCHANGED <<wfs, approvals, audit, faults>>
      /\ leases' = [leases EXCEPT ![w] = f.lease]
  BY <1>0, <1>1 DEF UpdateLease, FrameInv, Exists
<1>3. /\ leases[w].status = "active" /\ Earned(f.lease, f.row.status)
      /\ \/ f.op = "attempt"
         \/ f.op = "kill" /\ f.lease = Revoke(leases[w]) /\ f.row.status = "killed"
      /\ wfs[w].status \notin TerminalStates
  BY ZenonT(40), <1>0, <1>1, <1>2 DEF Fresh, Advances
<1>4. PICK g : g = [f EXCEPT !.pc = "update_wf", !.lease = NoLease]
  OBVIOUS
<1>5. g.op = f.op /\ g.pc = "update_wf" /\ g.wf = w /\ g.row = f.row
  BY ZenonT(40), <1>0, <1>1, <1>2, <1>4 DEF Frame
<1>6. req' = [req EXCEPT ![t] = g]
  BY <1>1, <1>4 DEF UpdateLease, Goto
<1>7. leases'[w] = f.lease /\ \A v \in WorkflowID \ {w} : leases'[v] = leases[v]
  BY <1>0, <1>2
<1>8. \A v : ~Resolving(req[t], v)
  BY <1>1, <1>2 DEF Resolving
<1>9. ASSUME faults = 0
      PROVE  /\ g.row.status \in Executing \cup TerminalStates
             /\ leases'[w].status = "active" => g.row.status \notin {"killed", "quarantined"}
             /\ g.row.status # "awaiting_approval"
             /\ g.row.status \in {"killed", "failed"} \/ \A a \in ApprovalID : ~Pending(a, w)
  <2>1. /\ wfs[w].status \in Executing \ TerminalStates
        /\ wfs[w].status \notin {"killed", "quarantined"}
        /\ \A a \in ApprovalID : ~Pending(a, w)
    BY ZenonT(40), <1>1, <1>2, <1>3, <1>9, CalmFacts DEF Executing, TerminalStates
  <2>2. CASE f.op = "attempt"
    <3>1. f.row.status \in {wfs[w].status, "completed", "quarantined"}
      BY <1>1, <1>2, <1>9, <2>2 DEF CalmInvariant, CalmFrame
    <3>2. f.row.status = "quarantined" => f.lease.status = "exhausted"
      BY <1>3 DEF Earned
    <3> QED
      BY <1>5, <1>7, <2>1, <3>1, <3>2 DEF Executing, TerminalStates
  <2>3. CASE f.op = "kill"
    <3>1. f.lease.status = "revoked" /\ g.row.status = "killed"
      BY <1>0, <1>2, <1>3, <1>5, <2>3 DEF Revoke, Lease
    <3> QED
      BY <1>7, <3>1 DEF TerminalStates
  <2> QED
    BY ZenonT(40), <1>3, <2>2, <2>3
<1>10. g.op # "resolve" /\ req[t].pc # "update_wf"
  BY <1>1, <1>2, <1>3, <1>5
<1> QED
  BY ZenonT(40), <1>2, <1>5, <1>6, <1>7, <1>8, <1>9, <1>10, CalmWrite

\* Writing the row makes the standing of the run its status.
LEMMA CalmUpdateWorkflow ==
  ASSUME OneThread, IInv, SerialInvariant, CalmInvariant, NEW t \in Thread, UpdateWorkflow(t)
  PROVE  CalmInvariant'
<1>0. /\ req[t] \in Frame /\ FrameInv(req[t]) /\ wfs \in [WorkflowID -> Row] /\ Fresh(req[t])
  BY DEF SerialInvariant, IInv, TypeOK
<1>1. PICK f, w : f = req[t] /\ w = req[t].wf /\ f = Current
  BY CurrentFrame
<1>2. /\ f.pc = "update_wf" /\ f.wf = w /\ w \in WorkflowID
      /\ UNCHANGED <<leases, approvals, audit, faults>>
      /\ wfs' = [wfs EXCEPT ![w] = f.row]
      /\ wfs[w].status \notin TerminalStates
  BY <1>0, <1>1 DEF UpdateWorkflow, FrameInv, Exists, Fresh, Advances
<1>3. PICK g : g = [f EXCEPT !.pc = "finish"]
  BY Zenon
<1>4. g.op = f.op /\ g.pc = "finish" /\ g.wf = w
  BY ZenonT(40), <1>0, <1>1, <1>2, <1>3 DEF Frame
<1>5. req' = [req EXCEPT ![t] = g]
  BY <1>1, <1>3 DEF UpdateWorkflow, Goto
<1>6. wfs'[w] = f.row /\ \A v \in WorkflowID \ {w} : wfs'[v] = wfs[v]
  BY <1>0, <1>2
<1>7. Current' = g
  BY ZenonT(40), <1>5, CurrentFrame
<1>8. ASSUME faults = 0 PROVE CalmStore(g)' /\ CalmFrame(g)'
  <2>1. CalmStore(f) /\ CalmFrame(f)
    BY <1>1, <1>8 DEF CalmInvariant
  <2>2. ASSUME NEW v \in WorkflowID PROVE Standing(g, v)' = Standing(f, v)
    BY <1>2, <1>4, <1>6 DEF Standing
  <2>3. /\ \A v : Resolving(f, v) <=> Resolving(g, v)
        /\ f.pc \notin {"load_wf", "save_lease"}
    BY <1>2, <1>4 DEF Resolving
  <2>4. ASSUME NEW a, NEW v PROVE Pending(a, v)' <=> Pending(a, v)
    BY <1>2 DEF Pending
  <2>5. ASSUME NEW v \in WorkflowID
        PROVE  /\ leases'[v] # NoLease => Standing(g, v)' \in Executing \cup TerminalStates
               /\ leases'[v].status = "active" => Standing(g, v)' \notin {"killed", "quarantined"}
               /\ Standing(g, v)' = "awaiting_approval" => \E b \in ApprovalID : Pending(b, v)'
               /\ \A b \in ApprovalID : Pending(b, v)' =>
                    /\ Standing(g, v)' \in {"awaiting_approval", "killed", "failed"}
                    /\ \A c \in ApprovalID : Pending(c, v)' => b = c
    <3>1. leases'[v] = leases[v] /\ Standing(g, v)' = Standing(f, v)
      BY <1>2, <2>2
    <3> QED
      BY <2>1, <2>3, <2>4, <3>1, ZenonT(40) DEF CalmStore
  <2>6. ASSUME NEW a \in ApprovalID, approvals'[a].status \in Resolution
        PROVE  \/ audit'[approvals'[a].wf]["approval_resolved"] > 0
               \/ wfs'[approvals'[a].wf].status \in {"killed", "failed"}
               \/ Resolving(g, approvals'[a].wf)
    <3>1. approvals[a].wf \in WorkflowID /\ approvals'[a] = approvals[a]
      BY <1>2, <2>6 DEF IInv, TypeOK, NoApproval, Resolution
    <3>2. wfs[w].status \notin {"killed", "failed"}
      BY <1>2 DEF TerminalStates
    <3> QED
      BY <1>2, <1>6, <2>1, <2>3, <2>6, <3>1, <3>2 DEF CalmStore
  <2>7. CalmFrame(g)'
    <3>1. Resolving(g, g.wf) => \A a \in ApprovalID : ~Pending(a, w)
      BY <1>2, <1>4, <2>1, <2>3 DEF CalmFrame
    <3> QED
      BY ZenonT(40), <1>2, <1>4, <3>1 DEF CalmFrame, Resolving, Pending
  <2> QED
    BY <2>5, <2>6, <2>7, Zenon DEF CalmStore, Resolving
<1>9. (CalmStore(g)' <=> CalmStore(Current)') /\ (CalmFrame(g)' <=> CalmFrame(Current)')
  BY <1>7, Zenon DEF CalmStore, CalmFrame, Standing, Resolving
<1> QED
  BY <1>2, <1>8, <1>9 DEF CalmInvariant

\* Unless it loses the entry, a resolution that finishes has been audited.
LEMMA CalmFinish ==
  ASSUME OneThread, IInv, CalmInvariant, NEW t \in Thread,
         NEW lost \in SUBSET (AuditsOf(req[t]) \cup CallbacksOf(req[t])), Finish(t, lost)
  PROVE  CalmInvariant'
<1>0. /\ req[t] \in Frame /\ FrameInv(req[t]) /\ faults \in Nat
      /\ audit \in [TaskID \cup WorkflowID -> [AuditAction -> Nat]]
  BY DEF IInv, TypeOK
<1>1. PICK f, w : f = req[t] /\ w = req[t].wf /\ f = Current
  BY CurrentFrame
<1>2. /\ f.pc = "finish" /\ f.wf = w /\ w \in WorkflowID /\ UNCHANGED <<wfs, leases, approvals>>
      /\ req' = [req EXCEPT ![t] = Idle] /\ faults' = faults + Cardinality(lost)
  <2>1. /\ f.pc = "finish" /\ UNCHANGED <<wfs, leases, approvals>>
        /\ req' = [req EXCEPT ![t] = Idle] /\ faults' = faults + Cardinality(lost)
    BY <1>1 DEF Finish, Return, At
  <2>2. w \in WorkflowID
    BY <1>0, <1>1, <2>1 DEF FrameInv, Exists
  <2> QED
    BY <1>1, <2>1, <2>2
<1> DEFINE recorded(a) == IF a \in AuditsOf(f) \ lost THEN 1 ELSE 0
           count == [a \in AuditAction |-> audit[w][a] + recorded(a)]
<1>3. audit' = [audit EXCEPT ![w] = count]
  BY <1>1, Zenon DEF Finish
<1>4. ASSUME NEW v \in WorkflowID
      PROVE  /\ audit[v]["approval_resolved"] \in Nat
             /\ audit'[v]["approval_resolved"] =
                  audit[v]["approval_resolved"] + IF v = w THEN recorded("approval_resolved") ELSE 0
  <2>1. "approval_resolved" \in AuditAction
    BY DEF AuditAction
  <2>2. audit[v]["approval_resolved"] \in Nat /\ v \in DOMAIN audit
    BY <1>0, <2>1
  <2>3. CASE v = w
    <3>1. audit'[v] = count
      BY Zenon, <1>3, <2>2, <2>3
    <3>2. count["approval_resolved"] = audit[w]["approval_resolved"] + recorded("approval_resolved")
      BY Zenon, <2>1
    <3> QED
      BY Zenon, <2>2, <2>3, <3>1, <3>2
  <2>4. CASE v # w
    <3>1. audit'[v] = audit[v]
      BY Zenon, <1>3, <2>2, <2>4
    <3> QED
      BY <2>2, <2>4, <3>1
  <2> QED
    BY Zenon, <2>3, <2>4
<1>5. faults' = 0 => faults = 0 /\ lost = {}
  <2>1. IsFiniteSet(lost) /\ Cardinality(lost) \in Nat
    BY EffectsFinite
  <2> QED
    BY <1>0, <1>2, <2>1, FS_EmptySet
<1>6. f.op = "resolve" /\ lost = {} => recorded("approval_resolved") = 1
  BY DEF AuditsOf
<1>7. recorded("approval_resolved") \in {0, 1}
  OBVIOUS
<1> HIDE DEF recorded, count
<1>8. PICK g : g = Idle
  OBVIOUS
<1>9. g.pc = "idle" /\ g.op = "idle" /\ Current' = g
  BY ZenonT(40), <1>2, <1>8, CurrentFrame DEF Idle
<1>10. ASSUME faults' = 0 PROVE CalmStore(g)' /\ CalmFrame(g)'
  <2>1. CalmStore(f)
    BY <1>1, <1>5, <1>10 DEF CalmInvariant
  <2>2. ASSUME NEW v \in WorkflowID PROVE Standing(g, v)' = Standing(f, v)
    BY <1>2, <1>9 DEF Standing
  <2>3. f.pc \notin {"load_wf", "save_lease"}
    BY <1>2
  <2>4. ASSUME NEW a, NEW v PROVE Pending(a, v)' <=> Pending(a, v)
    BY <1>2 DEF Pending
  <2>5. ASSUME NEW v \in WorkflowID
        PROVE  /\ leases'[v] # NoLease => Standing(g, v)' \in Executing \cup TerminalStates
               /\ leases'[v].status = "active" => Standing(g, v)' \notin {"killed", "quarantined"}
               /\ Standing(g, v)' = "awaiting_approval" => \E b \in ApprovalID : Pending(b, v)'
               /\ \A b \in ApprovalID : Pending(b, v)' =>
                    /\ Standing(g, v)' \in {"awaiting_approval", "killed", "failed"}
                    /\ \A c \in ApprovalID : Pending(c, v)' => b = c
    <3>1. leases'[v] = leases[v] /\ Standing(g, v)' = Standing(f, v)
      BY <1>2, <2>2
    <3> QED
      BY <2>1, <2>3, <2>4, <3>1, ZenonT(40) DEF CalmStore
  <2>6. ASSUME NEW a \in ApprovalID, approvals'[a].status \in Resolution
        PROVE  \/ audit'[approvals'[a].wf]["approval_resolved"] > 0
               \/ wfs'[approvals'[a].wf].status \in {"killed", "failed"}
    <3>1. PICK v : v = approvals[a].wf
      OBVIOUS
    <3>2. v \in WorkflowID /\ approvals'[a] = approvals[a]
      BY <1>2, <2>6, <3>1 DEF IInv, TypeOK, NoApproval, Resolution
    <3>3. \/ audit[v]["approval_resolved"] > 0
          \/ wfs[v].status \in {"killed", "failed"}
          \/ Resolving(f, v)
      BY ZenonT(40), <2>1, <2>6, <3>1, <3>2 DEF CalmStore
    <3>4. CASE audit[v]["approval_resolved"] > 0
      BY <1>4, <1>7, <3>1, <3>2, <3>4
    <3>5. CASE wfs[v].status \in {"killed", "failed"}
      BY <1>2, <3>1, <3>2, <3>5
    <3>6. CASE Resolving(f, v)
      <4>1. v = w /\ recorded("approval_resolved") = 1
        BY <1>2, <1>5, <1>6, <1>10, <3>6 DEF Resolving
      <4> QED
        BY <1>4, <3>1, <3>2, <4>1
    <3> QED
      BY <3>3, <3>4, <3>5, <3>6
  <2>7. CalmFrame(g)'
    BY <1>9 DEF CalmFrame, Resolving
  <2> QED
    BY <2>5, <2>6, <2>7, Zenon DEF CalmStore
<1>11. (CalmStore(g)' <=> CalmStore(Current)') /\ (CalmFrame(g)' <=> CalmFrame(Current)')
  BY <1>9, Zenon DEF CalmStore, CalmFrame, Standing, Resolving
<1> QED
  BY <1>10, <1>11 DEF CalmInvariant

---------------------------------------------------------------------------
\* The invariant and what it gives

LEMMA CalmInit == Init => CalmInvariant
<1> SUFFICES ASSUME Init PROVE CalmInvariant
  OBVIOUS
<1>1. Current = Idle
  <2>1. CASE Thread = {}
    BY <2>1 DEF Current
  <2>2. CASE Thread # {}
    <3>1. (CHOOSE t \in Thread : TRUE) \in Thread
      BY <2>2, Zenon
    <3>2. \A t \in Thread : req[t] = Idle
      BY DEF Init
    <3> QED
      BY <2>2, <3>1, <3>2, Zenon DEF Current
  <2> QED
    BY <2>1, <2>2
<1>2. ASSUME NEW w \in WorkflowID
      PROVE  leases[w] = NoLease /\ leases[w].status = "none" /\ wfs[w].status = "none"
  BY DEF Init, NoLease, NoRun, NewWorkflowRun
<1>3. ASSUME NEW a \in ApprovalID
      PROVE  approvals[a].status = "none" /\ \A w : ~Pending(a, w)
  BY DEF Init, NoApproval, Pending
<1>4. ASSUME NEW f, f.pc = "idle", f.op = "idle" PROVE CalmStore(f) /\ CalmFrame(f)
  BY <1>2, <1>3, <1>4 DEF CalmStore, CalmFrame, Standing, Resolving, Resolution
<1>5. Idle.pc = "idle" /\ Idle.op = "idle"
  BY DEF Idle
<1> QED
  BY <1>1, <1>4, <1>5 DEF CalmInvariant

LEMMA CalmNext ==
  OneThread /\ IInv /\ SerialInvariant /\ CalmInvariant /\ [Next]_vars => CalmInvariant'
<1> SUFFICES ASSUME OneThread, IInv, SerialInvariant, CalmInvariant, [Next]_vars
             PROVE  CalmInvariant'
  OBVIOUS
<1>1. CASE UNCHANGED vars
  <2>1. /\ wfs' = wfs /\ leases' = leases /\ approvals' = approvals
        /\ audit' = audit /\ req' = req /\ faults' = faults
    BY <1>1 DEF vars
  <2>2. Current' = Current
    BY <2>1 DEF Current
  <2>3. CalmStore(Current) <=> CalmStore(Current)'
    <3>1. PICK f : f = Current /\ f = Current'
      BY <2>2
    <3>2. /\ \A w : Standing(f, w)' = Standing(f, w)
          /\ \A a, w : Pending(a, w)' <=> Pending(a, w)
      BY <2>1 DEF Standing, Pending
    <3>3. CalmStore(f) <=> CalmStore(f)'
      BY <2>1, <3>2, ZenonT(40) DEF CalmStore, Resolving
    <3>4. (CalmStore(f) <=> CalmStore(Current)) /\ (CalmStore(f)' <=> CalmStore(Current)')
      BY <3>1, Zenon DEF CalmStore, Standing, Resolving
    <3> QED
      BY <3>3, <3>4
  <2>4. CalmFrame(Current) <=> CalmFrame(Current)'
    BY <2>1, <2>2, ZenonT(40) DEF CalmFrame, Resolving, Pending
  <2> QED
    BY <2>1, <2>3, <2>4 DEF CalmInvariant
<1>2. CASE Next
  <2>1. PICK t \in Thread : AdmissionStep(t) \/ ControlStep(t) \/ SharedStep(t)
    BY <1>2 DEF Next
  <2>2. CASE ControlStep(t)
    BY <2>2, CalmStart, CalmSaveApproval, CalmAttempt, CalmPauseResume, CalmKill,
       CalmResolveLoad, CalmResolveUpdate DEF ControlStep
  <2>3. CASE SharedStep(t)
    <3>1. CASE Abort(t)
      BY <3>1 DEF Abort, Fault, CalmInvariant, IInv, TypeOK
    <3> QED
      BY <2>3, <3>1, CalmSaveLease, CalmUpdateLease, CalmUpdateWorkflow, CalmFinish
         DEF SharedStep
  <2> QED
    BY <2>1, <2>2, <2>3, CalmAdmission
<1> QED
  BY <1>1, <1>2

LEMMA CalmInvariance == OneThread => (Spec => []CalmInvariant)
<1> SUFFICES ASSUME OneThread PROVE Spec => []CalmInvariant
  OBVIOUS
<1>1. Init => CalmInvariant
  BY CalmInit
<1>2. IInv /\ SerialInvariant /\ CalmInvariant /\ [Next]_vars => CalmInvariant'
  BY CalmNext
<1>3. Spec => []SerialInvariant
  BY SerialInvariance
<1> QED
  BY <1>1, <1>2, <1>3, Invariance, PTL DEF Spec

\* Between requests no row waits to be written.
LEMMA QuietStore ==
  ASSUME Quiet, CalmInvariant, faults = 0
  PROVE  CalmStore(Idle) /\ \A w : Standing(Idle, w) = wfs[w].status /\ ~Resolving(Idle, w)
<1>1. Current = Idle
  <2>1. CASE Thread # {}
    <3>1. (CHOOSE t \in Thread : TRUE) \in Thread
      BY <2>1, Zenon
    <3> QED
      BY <2>1, <3>1, Zenon DEF Current, Quiet
  <2> QED
    BY <2>1 DEF Current
<1>2. CalmStore(Idle)
  BY <1>1, Zenon DEF CalmInvariant
<1> QED
  BY <1>2 DEF Standing, Resolving, Idle

\* One request at a time and no fault: between requests, a usable lease belongs
\* to a run that has started and was neither killed nor quarantined.
THEOREM LeaseMatchesRunAlways == OneThread => (Spec => []LeaseMatchesRun)
<1>1. CalmInvariant => LeaseMatchesRun
  <2> SUFFICES ASSUME CalmInvariant, Quiet, faults = 0, NEW w \in WorkflowID,
                      leases[w].status = "active"
               PROVE  wfs[w].status \in {"running", "paused", "completed", "failed"}
    BY DEF LeaseMatchesRun
  <2>1. leases[w] # NoLease
    BY DEF NoLease
  <2>2. /\ wfs[w].status \in Executing \cup TerminalStates
        /\ wfs[w].status \notin {"killed", "quarantined"}
    BY <2>1, QuietStore, Zenon DEF CalmStore
  <2> QED
    BY <2>2 DEF Executing, TerminalStates
<1> QED
  BY <1>1, CalmInvariance, PTL

\* One request at a time and no fault: between requests, a run awaits approval
\* exactly if it has a pending request, unless a kill or a deny has ended it.
THEOREM GateMatchesRequestAlways == OneThread => (Spec => []GateMatchesRequest)
<1>1. CalmInvariant => GateMatchesRequest
  <2> SUFFICES ASSUME CalmInvariant, Quiet, faults = 0, NEW w \in WorkflowID
               PROVE  /\ wfs[w].status = "awaiting_approval" => \E a \in ApprovalID : Pending(a, w)
                      /\ \A a \in ApprovalID : Pending(a, w) =>
                           wfs[w].status \in {"awaiting_approval", "killed", "failed"}
    BY Zenon DEF GateMatchesRequest, Pending
  <2> QED
    BY QuietStore, Zenon DEF CalmStore
<1> QED
  BY <1>1, CalmInvariance, PTL

\* One request at a time and no fault: between requests, a resolved approval
\* request has left its entry in the trail unless its run has ended.
THEOREM ResolutionIsAuditedAlways == OneThread => (Spec => []ResolutionIsAudited)
<1>1. CalmInvariant => ResolutionIsAudited
  BY QuietStore DEF CalmStore, ResolutionIsAudited
<1> QED
  BY <1>1, CalmInvariance, PTL
=============================================================================

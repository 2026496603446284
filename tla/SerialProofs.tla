---------------------------- MODULE SerialProofs ----------------------------
(***************************************************************************)
(* One request at a time, for any number of rows, attempts, requests and   *)
(* faults: the service implements Lifecycle, and what has ended stays      *)
(* ended.  SerialEffect lists what a step may do to the tables that        *)
(* Lifecycle speaks of; every result follows from that list.               *)
(***************************************************************************)
EXTENDS SerialInv, GovernanceProofs

---------------------------------------------------------------------------
\* Moves of a row

LEMMA AppendProlongs ==
  ASSUME NEW S, NEW s \in Seq(S), NEW x \in S
  PROVE  /\ Append(s, x) \in Seq(S)
         /\ Len(s) <= Len(Append(s, x))
         /\ SubSeq(Append(s, x), 1, Len(s)) = s
<1>1. Append(s, x) \in Seq(S) /\ Len(Append(s, x)) = Len(s) + 1 /\ Len(s) \in Nat
  OBVIOUS
<1>2. SubSeq(Append(s, x), 1, Len(s)) = s
  OBVIOUS
<1> QED
  BY <1>1, <1>2

LEMMA AppendTwiceProlongs ==
  ASSUME NEW S, NEW s \in Seq(S), NEW x \in S, NEW y \in S
  PROVE  /\ Len(s) <= Len(Append(Append(s, x), y))
         /\ SubSeq(Append(Append(s, x), y), 1, Len(s)) = s
<1>1. Append(s, x) \in Seq(S) /\ Len(Append(s, x)) = Len(s) + 1 /\ Len(s) \in Nat
  OBVIOUS
<1>2. Len(Append(Append(s, x), y)) = Len(s) + 2
  BY <1>1
<1>3. SubSeq(Append(Append(s, x), y), 1, Len(s)) = s
  BY <1>1
<1> QED
  BY <1>1, <1>2, <1>3

\* A move that the status machine allows advances the row.
LEMMA TransitionAdvances ==
  ASSUME NEW old \in Row, NEW target \in WorkflowStatus, old.status \in WorkflowStatus,
         CanTransition(old, target), target # "approved",
         NEW new, new.status = target,
         new.transitions = TransitionTo(old, target).transitions
  PROVE  Advances(old, new)
<1>1. TransitionTo(old, target).transitions = Append(old.transitions, <<old.status, target>>)
  BY DEF TransitionTo, Row
<1>2. <<old.status, target>> \in WorkflowStatus \X WorkflowStatus
  OBVIOUS
<1>3. Prolongs(old, new)
  BY <1>1, <1>2, AppendProlongs DEF Prolongs, Row
<1> QED
  BY <1>3 DEF Advances, CanTransition

LEMMA TransitionFields ==
  ASSUME NEW old \in Row, NEW target
  PROVE  /\ TransitionTo(old, target).status = target
         /\ \A d : /\ MarkRouted(old, d).status = "routed"
                   /\ MarkRouted(old, d).transitions = TransitionTo(old, "routed").transitions
                   /\ MarkPolicyChecked(old, d).status = "policy_checked"
                   /\ MarkPolicyChecked(old, d).transitions = TransitionTo(old, "policy_checked").transitions
BY DEF TransitionTo, MarkRouted, MarkPolicyChecked, Row

\* So does an approval, which is two moves at once.
LEMMA ResolvedAdvances ==
  ASSUME NEW old \in Row, old.status \in WorkflowStatus,
         CanTransition(old, "approved")
  PROVE  /\ Advances(old, Resolved(old, "approved"))
         /\ Resolved(old, "approved").status = "running"
<1>1. old.status = "awaiting_approval"
  BY DEF CanTransition, IsValidTransition, TransitionTable
<1> DEFINE mid == TransitionTo(old, "approved")
           new == TransitionTo(mid, "running")
<1>2. mid.status = "approved" /\ mid.transitions = Append(old.transitions, <<old.status, "approved">>)
  BY DEF TransitionTo, Row
<1>3. mid \in Row
  BY TransitionType DEF WorkflowStatus
<1>4. new.status = "running" /\ new.transitions = Append(mid.transitions, <<mid.status, "running">>)
  BY <1>3 DEF TransitionTo, Row
<1>5. Resolved(old, "approved") = new
  BY DEF Resolved
<1> HIDE DEF mid, new
<1>6. <<old.status, "approved">> \in WorkflowStatus \X WorkflowStatus
      /\ <<mid.status, "running">> \in WorkflowStatus \X WorkflowStatus
  BY <1>2 DEF WorkflowStatus
<1>7. Prolongs(old, new)
  BY <1>2, <1>4, <1>6, AppendTwiceProlongs DEF Prolongs, Row
<1> QED
  BY <1>1, <1>4, <1>5, <1>7 DEF Advances, TerminalStates

---------------------------------------------------------------------------
\* Steps

LEMMA IdleFresh == Fresh(Idle) /\ Fresh(Idle)'
BY DEF Fresh, Idle

\* A step of the only request that keeps the store sound and leaves the request
\* with a fresh frame keeps the invariant.
LEMMA SerialStep ==
  ASSUME OneThread, IInv, NEW t \in Thread, NEW f, req' = [req EXCEPT ![t] = f],
         Fresh(f)', SerialStore'
  PROVE  SerialInvariant'
<1>1. ASSUME NEW u \in Thread PROVE req'[u] = f
  BY DEF OneThread, IInv, TypeOK
<1> QED
  BY <1>1 DEF SerialInvariant

LEMMA StoreKept ==
  ASSUME SerialStore, UNCHANGED <<wfs, leases>>,
         \A w \in WorkflowID : /\ audit'[w]["attempt_registered"] = audit[w]["attempt_registered"]
                               /\ audit'[w]["workflow_quarantined"] = audit[w]["workflow_quarantined"]
  PROVE  SerialStore'
BY DEF SerialStore, Earned

LEMMA StoreRead ==
  ASSUME SerialStore, UNCHANGED <<wfs, leases, audit>>
  PROVE  SerialStore'
BY StoreKept

LEMMA RecordKept ==
  ASSUME SerialStore, IInv, UNCHANGED <<wfs, leases>>, NEW subject,
         NEW action \in AuditAction \ {"attempt_registered", "workflow_quarantined"},
         Record(subject, action)
  PROVE  SerialStore'
<1>1. audit \in [TaskID \cup WorkflowID -> [AuditAction -> Nat]]
  BY DEF IInv, TypeOK
<1>2. ASSUME NEW w \in WorkflowID, NEW a \in AuditAction, a # action
      PROVE  audit'[w][a] = audit[w][a]
  BY <1>1, <1>2 DEF Record
<1>3. {"attempt_registered", "workflow_quarantined"} \subseteq AuditAction
  BY DEF AuditAction
<1> QED
  BY <1>2, <1>3, StoreKept

\* A frame at a statement that writes neither a run nor a lease nor an approval.
LEMMA PlainFresh ==
  ASSUME NEW f, f.op \notin {"attempt", "kill"},
         f.pc \notin {"update_approval", "load_lease", "save_approval", "save_lease",
                      "update_lease", "update_wf", "finish"}
  PROVE  Fresh(f)'
BY DEF Fresh

LEMMA SerialPlain ==
  ASSUME OneThread, IInv, NEW t \in Thread, NEW f, req' = [req EXCEPT ![t] = f],
         f.op \notin {"attempt", "kill"},
         f.pc \notin {"update_approval", "load_lease", "save_approval", "save_lease",
                      "update_lease", "update_wf", "finish"},
         SerialStore'
  PROVE  SerialInvariant'
BY ZenonT(40), PlainFresh, SerialStep

LEMMA SerialReturn ==
  ASSUME OneThread, IInv, NEW t \in Thread, Return(t), SerialStore'
  PROVE  SerialInvariant'
<1>1. PICK f : f = Idle
  OBVIOUS
<1>2. f.op = "idle" /\ f.pc = "idle"
  BY <1>1 DEF Idle
<1> QED
  BY ZenonT(40), <1>1, <1>2, SerialPlain DEF Return

\* A request that has loaded a row and moved its copy.
LEMMA HoldsAdvance ==
  ASSUME NEW f, f.pc \in {"save_approval", "save_lease", "update_wf"}, f.op # "attempt",
         f.op = "kill" => f.row.status = "killed",
         Advances(wfs[f.wf], f.row)', f.row.status \notin {"completed", "quarantined"}
  PROVE  Fresh(f)'
BY DEF Fresh, Earned

LEMMA SerialAdvance ==
  ASSUME OneThread, IInv, NEW t \in Thread, NEW f, req' = [req EXCEPT ![t] = f],
         f.pc \in {"save_approval", "save_lease", "update_wf"}, f.op # "attempt",
         f.op = "kill" => f.row.status = "killed",
         Advances(wfs[f.wf], f.row)', f.row.status \notin {"completed", "quarantined"},
         SerialStore'
  PROVE  SerialInvariant'
<1>1. Fresh(f)'
  BY HoldsAdvance
<1> QED
  BY ZenonT(40), <1>1, SerialStep

LEMMA SerialAdmission ==
  ASSUME OneThread, IInv, SerialInvariant, NEW t \in Thread, AdmissionStep(t)
  PROVE  SerialInvariant'
<1>0. /\ SerialStore /\ req[t] \in Frame /\ FrameInv(req[t]) /\ wfs \in [WorkflowID -> Row]
  BY DEF SerialInvariant, IInv, TypeOK
<1>1. ASSUME NEW attr \in TaskAttr, NEW task \in TaskID, SubmitSaveTask(t, attr, task)
      PROVE  SerialInvariant'
  <2>1. PICK f : f = [Idle EXCEPT !.op = "submit", !.pc = "audit_task", !.task = task]
    OBVIOUS
  <2>2. f.op = "submit" /\ f.pc = "audit_task"
    BY <2>1 DEF Idle
  <2> QED
    BY ZenonT(40), <1>0, <1>1, <2>1, <2>2, SerialPlain, StoreRead DEF SubmitSaveTask, Accept
<1>2. CASE SubmitAudit(t)
  BY <1>0, <1>2, SerialReturn, RecordKept DEF SubmitAudit, AuditAction
<1>3. ASSUME NEW task \in TaskID, NEW d \in RoutingID, NEW s \in Strategy,
             RouteSaveDecision(t, task, d, s)
      PROVE  SerialInvariant'
  <2>1. PICK f : f = [Idle EXCEPT !.op = "route", !.pc = "find_wf", !.task = task,
                                  !.id = d, !.arg = s]
    OBVIOUS
  <2>2. f.op = "route" /\ f.pc = "find_wf"
    BY <2>1 DEF Idle
  <2> QED
    BY ZenonT(40), <1>0, <1>3, <2>1, <2>2, SerialPlain, StoreRead DEF RouteSaveDecision, Accept
<1>4. ASSUME NEW w \in WorkflowID, RouteFindWorkflow(t, w) PROVE SerialInvariant'
  <2>1. SerialStore'
    BY <1>0, <1>4, StoreRead DEF RouteFindWorkflow
  <2>2. CASE CanTransition(wfs[w], "routed")
    <3>1. PICK f : f = [req[t] EXCEPT !.pc = "update_wf", !.wf = w,
                                      !.row = MarkRouted(wfs[w], req[t].id)]
      OBVIOUS
    <3>2. f.op = "route" /\ f.pc = "update_wf" /\ f.wf = w /\ f.row = MarkRouted(wfs[w], req[t].id)
      BY <1>0, <1>4, <3>1 DEF RouteFindWorkflow, At, Frame
    <3>3. wfs[w].status \in WorkflowStatus /\ "routed" \in WorkflowStatus
      BY <2>2, TableType
    <3>4. Advances(wfs[w], f.row) /\ f.row.status = "routed"
      BY <1>0, <2>2, <3>2, <3>3, TransitionFields, TransitionAdvances
    <3>5. Advances(wfs[f.wf], f.row)'
      BY <1>4, <3>2, <3>4 DEF RouteFindWorkflow, Advances, Prolongs
    <3>6. req' = [req EXCEPT ![t] = f]
      BY <1>4, <2>2, <3>1 DEF RouteFindWorkflow, Goto
    <3> QED
      BY ZenonT(40), <2>1, <3>2, <3>4, <3>5, <3>6, SerialAdvance
  <2> QED
    BY <1>4, <2>1, <2>2, SerialReturn DEF RouteFindWorkflow
<1>5. CASE RouteMissWorkflow(t)
  <2>1. PICK f : f = [req[t] EXCEPT !.pc = "create_wf"]
    BY ZenonT(40)
  <2>2. f.op = "route" /\ f.pc = "create_wf"
    BY <1>0, <1>5, <2>1 DEF RouteMissWorkflow, At, Frame
  <2> QED
    BY ZenonT(40), <1>0, <1>5, <2>1, <2>2, SerialPlain, StoreRead DEF RouteMissWorkflow, Goto
<1>6. ASSUME NEW w \in WorkflowID, RouteCreateWorkflow(t, w) PROVE SerialInvariant'
  <2>1. PICK new : new = NewWorkflowRun(req[t].task, Nil)
    OBVIOUS
  <2>2. PICK f : f = [req[t] EXCEPT !.pc = "update_wf", !.wf = w, !.row = MarkRouted(new, req[t].id)]
    OBVIOUS
  <2>3. f.op = "route" /\ f.pc = "update_wf" /\ f.wf = w /\ f.row = MarkRouted(new, req[t].id)
    BY <1>0, <1>6, <2>2 DEF RouteCreateWorkflow, At, Frame
  <2>4. req[t].task \in TaskID
    BY <1>0, <1>6 DEF RouteCreateWorkflow, At, FrameInv
  <2>5. new \in Row /\ new.status = "created"
    BY <2>1, <2>4, NewRunHistory DEF NewWorkflowRun
  <2>6. CanTransition(new, "routed") /\ "created" \in WorkflowStatus /\ "routed" \in WorkflowStatus
    BY <2>5 DEF CanTransition, IsValidTransition, TransitionTable, TerminalStates, WorkflowStatus
  <2>7. Advances(new, f.row) /\ f.row.status = "routed"
    BY <2>3, <2>5, <2>6, TransitionFields, TransitionAdvances
  <2>8. wfs' = [wfs EXCEPT ![w] = new] /\ wfs[w].status = "none" /\ UNCHANGED <<leases, audit>>
    BY <1>6, <2>1 DEF RouteCreateWorkflow
  <2>9. wfs'[w] = new
    BY <1>0, <2>8
  <2>10. Advances(wfs[f.wf], f.row)'
    BY <2>3, <2>7, <2>9 DEF Advances, Prolongs
  <2>11. SerialStore'
    BY <1>0, <2>5, <2>8 DEF SerialStore, Earned
  <2>12. req' = [req EXCEPT ![t] = f]
    BY <1>6, <2>1, <2>2 DEF RouteCreateWorkflow, Goto
  <2> QED
    BY ZenonT(40), <2>3, <2>7, <2>10, <2>11, <2>12, SerialAdvance
<1>7. CASE RouteAudit(t)
  <2>1. SerialStore'
    BY <1>0, <1>7, RecordKept DEF RouteAudit, AuditAction
  <2>2. PICK f : f = [Idle EXCEPT !.op = "route", !.pc = "save_subtask1", !.task = req[t].task]
    OBVIOUS
  <2>3. f.op = "route" /\ f.pc = "save_subtask1"
    BY <2>2 DEF Idle
  <2> QED
    BY ZenonT(40), <1>7, <2>1, <2>2, <2>3, SerialPlain, SerialReturn DEF RouteAudit, Goto
<1>8. ASSUME NEW sub \in TaskID, RouteSaveSubtask(t, sub) PROVE SerialInvariant'
  <2>1. PICK f : f = [req[t] EXCEPT
                        !.pc = IF @ = "save_subtask1" THEN "audit_subtask1" ELSE "audit_subtask2",
                        !.id = sub]
    OBVIOUS
  <2>2. f.op = "route" /\ f.pc \in {"audit_subtask1", "audit_subtask2"}
    BY <1>0, <1>8, <2>1 DEF RouteSaveSubtask, Frame, FrameInv
  <2> QED
    BY ZenonT(40), <1>0, <1>8, <2>1, <2>2, SerialPlain, StoreRead DEF RouteSaveSubtask, Goto
<1>9. CASE RouteAuditSubtask(t)
  <2>1. SerialStore'
    BY <1>0, <1>9, RecordKept DEF RouteAuditSubtask, AuditAction
  <2>2. PICK f : f = [req[t] EXCEPT !.pc = "save_subtask2", !.id = Nil]
    OBVIOUS
  <2>3. f.op = "route" /\ f.pc = "save_subtask2"
    BY <1>0, <1>9, <2>2 DEF RouteAuditSubtask, Frame, FrameInv
  <2> QED
    BY ZenonT(40), <1>9, <2>1, <2>2, <2>3, SerialPlain, SerialReturn DEF RouteAuditSubtask, Goto
<1>10. ASSUME NEW task \in TaskID, NEW a \in PolicyAction, NEW d \in PolicyID,
              PolicySaveDecision(t, task, a, d)
       PROVE  SerialInvariant'
  <2>1. PICK f : f = [Idle EXCEPT !.op = "policy", !.pc = "find_wf", !.task = task,
                                  !.id = d, !.arg = PolicyOutcome(tasks[task], a)]
    OBVIOUS
  <2>2. f.op = "policy" /\ f.pc = "find_wf"
    BY <2>1 DEF Idle
  <2> QED
    BY ZenonT(40), <1>0, <1>10, <2>1, <2>2, SerialPlain, StoreRead DEF PolicySaveDecision, Accept
<1>11. ASSUME NEW w \in WorkflowID, PolicyFindWorkflow(t, w) PROVE SerialInvariant'
  <2>1. SerialStore'
    BY <1>0, <1>11, StoreRead DEF PolicyFindWorkflow
  <2>2. CASE CanTransition(wfs[w], "policy_checked")
    <3>1. PICK f : f = [req[t] EXCEPT !.pc = "update_wf", !.wf = w,
                                      !.row = MarkPolicyChecked(wfs[w], req[t].id)]
      OBVIOUS
    <3>2. /\ f.op = "policy" /\ f.pc = "update_wf" /\ f.wf = w
          /\ f.row = MarkPolicyChecked(wfs[w], req[t].id)
      BY <1>0, <1>11, <3>1 DEF PolicyFindWorkflow, At, Frame
    <3>3. wfs[w].status \in WorkflowStatus /\ "policy_checked" \in WorkflowStatus
      BY <2>2, TableType
    <3>4. Advances(wfs[w], f.row) /\ f.row.status = "policy_checked"
      BY <1>0, <2>2, <3>2, <3>3, TransitionFields, TransitionAdvances
    <3>5. Advances(wfs[f.wf], f.row)'
      BY <1>11, <3>2, <3>4 DEF PolicyFindWorkflow, Advances, Prolongs
    <3>6. req' = [req EXCEPT ![t] = f]
      BY <1>11, <2>2, <3>1 DEF PolicyFindWorkflow, Goto
    <3> QED
      BY ZenonT(40), <2>1, <3>2, <3>4, <3>5, <3>6, SerialAdvance
  <2> QED
    BY <1>11, <2>1, <2>2, SerialReturn DEF PolicyFindWorkflow
<1>12. CASE PolicyMissWorkflow(t)
  BY <1>0, <1>12, SerialReturn, StoreRead DEF PolicyMissWorkflow
<1>13. CASE PolicyAudit(t)
  BY <1>0, <1>13, SerialReturn, RecordKept DEF PolicyAudit, AuditAction
<1> QED
  BY <1>1, <1>2, <1>3, <1>4, <1>5, <1>6, <1>7, <1>8, <1>9, <1>10, <1>11, <1>12, <1>13
     DEF AdmissionStep

\* A copy that is written back as it was.
LEMMA SameAdvances ==
  ASSUME NEW row \in Row, row.status \notin TerminalStates, row.status # "approved"
  PROVE  Advances(row, row)
<1>1. row.transitions \in Seq(WorkflowStatus \X WorkflowStatus)
  BY DEF Row
<1>2. SubSeq(row.transitions, 1, Len(row.transitions)) = row.transitions
      /\ Len(row.transitions) \in Nat
  BY <1>1
<1> QED
  BY <1>2 DEF Advances, Prolongs

\* Recording an attempt earns what AttemptTarget makes of it.
LEMMA AttemptEarns ==
  ASSUME NEW lease \in Lease, CanRecordAttempt(lease), NEW row, NEW s,
         row.status \notin TerminalStates
  PROVE  /\ Earned(RecordAttempt(lease), AttemptTarget(s, RecordAttempt(lease), row))
         /\ AttemptTarget(s, RecordAttempt(lease), row) \in {"completed", "quarantined", row.status}
         /\ Earned(RecordAttempt(lease), row.status)
BY MaxAttemptsAssumption
   DEF Lease, CanRecordAttempt, RecordAttempt, AttemptTarget, HasRetryBudget, Earned, TerminalStates

LEMMA SerialStart ==
  ASSUME OneThread, IInv, SerialInvariant, NEW t \in Thread,
         \/ \E task \in TaskID, d \in PolicyID : StartLoadPolicy(t, task, d)
         \/ \E w \in WorkflowID : StartLoadWorkflow(t, w)
         \/ StartMissWorkflow(t)
         \/ \E a \in ApprovalID : StartSaveApproval(t, a)
  PROVE  SerialInvariant'
<1>0. /\ SerialStore /\ Fresh(req[t]) /\ req[t] \in Frame /\ FrameInv(req[t])
      /\ wfs \in [WorkflowID -> Row]
  BY DEF SerialInvariant, IInv, TypeOK
<1>1. ASSUME NEW task \in TaskID, NEW d \in PolicyID, StartLoadPolicy(t, task, d)
      PROVE  SerialInvariant'
  <2>1. PICK f : f = [Idle EXCEPT !.op = "start", !.pc = "load_wf", !.task = task,
                                  !.id = d, !.arg = policies[d].outcome]
    OBVIOUS
  <2>2. f.op = "start" /\ f.pc = "load_wf"
    BY <2>1 DEF Idle
  <2> QED
    BY ZenonT(40), <1>0, <1>1, <2>1, <2>2, SerialPlain, StoreRead DEF StartLoadPolicy, Accept
<1>2. ASSUME NEW w \in WorkflowID, StartLoadWorkflow(t, w) PROVE SerialInvariant'
  <2>1. SerialStore'
    BY ZenonT(40), <1>0, <1>2, StoreRead DEF StartLoadWorkflow
  <2> DEFINE target == StartTarget(req[t].arg)
             row == TransitionTo(wfs[w], target)
  <2>2. target \in {"failed", "awaiting_approval", "running"}
    BY DEF StartTarget
  <2>3. CASE CanTransition(wfs[w], target)
    <3>1. PICK f : f = [req[t] EXCEPT !.pc = StartFirstWrite(req[t].arg), !.wf = w, !.row = row]
      OBVIOUS
    <3>2. /\ f.op = "start" /\ f.pc \in {"update_wf", "save_approval", "save_lease"}
          /\ f.wf = w /\ f.row = row
      BY ZenonT(40), <1>0, <1>2, <3>1 DEF StartLoadWorkflow, At, Frame, StartFirstWrite
    <3>3. wfs[w].status \in WorkflowStatus /\ target \in WorkflowStatus
      BY <2>2, <2>3, TableType
    <3>4. Advances(wfs[w], f.row) /\ f.row.status = target
      BY <1>0, <2>2, <2>3, <3>2, <3>3, TransitionFields, TransitionAdvances
    <3>5. Advances(wfs[f.wf], f.row)'
      BY ZenonT(40), <1>2, <3>2, <3>4 DEF StartLoadWorkflow, Advances, Prolongs
    <3>6. req' = [req EXCEPT ![t] = f]
      BY ZenonT(40), <1>2, <2>3, <3>1 DEF StartLoadWorkflow, Goto
    <3> QED
      BY ZenonT(40), <2>1, <2>2, <3>2, <3>4, <3>5, <3>6, SerialAdvance
  <2> QED
    BY ZenonT(40), <1>2, <2>1, <2>3, SerialReturn DEF StartLoadWorkflow
<1>3. CASE StartMissWorkflow(t)
  BY <1>0, <1>3, SerialReturn, StoreRead DEF StartMissWorkflow
<1>4. ASSUME NEW a \in ApprovalID, StartSaveApproval(t, a) PROVE SerialInvariant'
  <2>1. PICK f : f = [req[t] EXCEPT !.pc = "update_wf"]
    BY ZenonT(40)
  <2>2. f.op = "start" /\ f.pc = "update_wf" /\ f.wf = req[t].wf /\ f.row = req[t].row
    BY <1>0, <1>4, <2>1 DEF StartSaveApproval, At, Frame
  <2>3. Advances(wfs[f.wf], f.row) /\ f.row.status = "awaiting_approval"
    BY <1>0, <1>4, <2>2 DEF StartSaveApproval, At, Fresh, FrameInv
  <2>4. Advances(wfs[f.wf], f.row)'
    BY <1>4, <2>3 DEF StartSaveApproval, Advances, Prolongs
  <2> QED
    BY ZenonT(40), <1>0, <1>4, <2>1, <2>2, <2>3, <2>4, StoreRead, SerialAdvance DEF StartSaveApproval, Goto
<1> QED
  BY <1>1, <1>2, <1>3, <1>4

LEMMA SerialAttempt ==
  ASSUME OneThread, IInv, SerialInvariant, NEW t \in Thread,
         \/ \E w \in WorkflowID, s \in AttemptStatus : AttemptLoadWorkflow(t, w, s)
         \/ AttemptLoadLease(t)
  PROVE  SerialInvariant'
<1>0. /\ SerialStore /\ Fresh(req[t]) /\ req[t] \in Frame /\ FrameInv(req[t])
      /\ wfs \in [WorkflowID -> Row] /\ leases \in [WorkflowID -> Lease]
  BY DEF SerialInvariant, IInv, TypeOK
<1>1. ASSUME NEW w \in WorkflowID, NEW s \in AttemptStatus, AttemptLoadWorkflow(t, w, s)
      PROVE  SerialInvariant'
  <2>1. PICK f : f = [Idle EXCEPT !.op = "attempt", !.pc = "load_lease", !.wf = w,
                                  !.row = wfs[w], !.arg = s]
    OBVIOUS
  <2>2. f.op = "attempt" /\ f.pc = "load_lease" /\ f.wf = w /\ f.row = wfs[w]
    BY <2>1 DEF Idle
  <2>3. f.row.status \notin TerminalStates /\ UNCHANGED <<wfs, leases, audit>>
    BY ZenonT(40), <1>1, <2>2 DEF AttemptLoadWorkflow
  <2>4. Fresh(f)'
    BY <2>2, <2>3 DEF Fresh
  <2> QED
    BY ZenonT(40), <1>0, <1>1, <2>1, <2>3, <2>4, StoreRead, SerialStep DEF AttemptLoadWorkflow, Accept
<1>2. CASE AttemptLoadLease(t)
  <2> DEFINE w == req[t].wf
             lease == RecordAttempt(leases[w])
             row == req[t].row
             target == AttemptTarget(req[t].arg, lease, row)
             recorded == [req[t] EXCEPT !.pc = "update_lease", !.lease = lease]
  <2>1. SerialStore' /\ UNCHANGED <<wfs, leases, audit>>
    BY <1>0, <1>2, StoreRead DEF AttemptLoadLease
  <2>2. /\ req[t].op = "attempt" /\ req[t].pc = "load_lease"
        /\ row = wfs[w] /\ row.status \notin TerminalStates
        /\ w \in WorkflowID /\ wfs[w].status # "none"
    BY <1>0, <1>2 DEF AttemptLoadLease, At, Fresh, FrameInv, Exists
  <2>3. row \in Row /\ row.status \in WorkflowStatus /\ row.status # "approved"
    BY <1>0, <2>2 DEF Row, SerialStore
  <2>4. ASSUME CanRecordAttempt(leases[w]), NEW new, Advances(wfs[w], new),
               Earned(lease, new.status),
               req' = [req EXCEPT ![t] = [recorded EXCEPT !.row = new]]
        PROVE  SerialInvariant'
    <3>1. PICK f : f = [recorded EXCEPT !.row = new]
      OBVIOUS
    <3>2. f.op = "attempt" /\ f.pc = "update_lease" /\ f.wf = w /\ f.lease = lease /\ f.row = new
      BY <1>0, <2>2, <3>1 DEF Frame
    <3> HIDE DEF recorded
    <3>3. Fresh(f)'
      <4>1. leases'[f.wf].status = "active" /\ f.lease = RecordAttempt(leases'[f.wf])
        BY <2>1, <2>4, <3>2 DEF CanRecordAttempt
      <4>2. Advances(wfs[f.wf], f.row)'
        BY <2>1, <2>4, <3>2 DEF Advances, Prolongs
      <4>3. Earned(f.lease, f.row.status)
        BY <2>4, <3>2
      <4> HIDE DEF lease
      <4> QED
        BY <3>2, <4>1, <4>2, <4>3 DEF Fresh
    <3> QED
      BY ZenonT(40), <2>1, <2>4, <3>1, <3>3, SerialStep
  <2>5. CASE ~ CanRecordAttempt(leases[w])
    BY <1>2, <2>1, <2>5, SerialReturn DEF AttemptLoadLease
  <2>6. CASE CanRecordAttempt(leases[w]) /\ target = row.status
    <3>1. Advances(wfs[w], row) /\ Earned(lease, row.status)
      BY <1>0, <2>2, <2>3, <2>6, SameAdvances, AttemptEarns
    <3>2. recorded = [recorded EXCEPT !.row = row]
      BY ZenonT(40), <1>0 DEF Frame
    <3>3. req' = [req EXCEPT ![t] = recorded]
      BY <1>2, <2>6 DEF AttemptLoadLease, Goto
    <3>4. PICK new : new = row
      OBVIOUS
    <3>5. /\ Advances(wfs[w], new) /\ Earned(lease, new.status)
          /\ req' = [req EXCEPT ![t] = [recorded EXCEPT !.row = new]]
      BY <3>1, <3>2, <3>3, <3>4, Zenon
    <3> QED
      BY ZenonT(40), <2>4, <2>6, <3>5
  <2>7. CASE CanRecordAttempt(leases[w]) /\ target # row.status /\ CanTransition(row, target)
    <3>1. PICK new : new = TransitionTo(row, target)
      OBVIOUS
    <3>2. Earned(lease, target) /\ target \in {"completed", "quarantined"}
      BY <1>0, <2>2, <2>7, AttemptEarns
    <3>3. target \in WorkflowStatus /\ target # "approved"
      BY <3>2 DEF WorkflowStatus, TerminalStates
    <3>4. new.status = target /\ new.transitions = TransitionTo(row, target).transitions
      BY <2>3, <3>1, TransitionFields
    <3>5. Advances(wfs[w], new)
      BY <2>2, <2>3, <2>7, <3>3, <3>4, TransitionAdvances
    <3>6. req' = [req EXCEPT ![t] = [recorded EXCEPT !.row = new]]
      BY <1>2, <2>7, <3>1 DEF AttemptLoadLease, Goto
    <3> QED
      BY ZenonT(40), <2>4, <2>7, <3>2, <3>4, <3>5, <3>6
  <2>8. CASE CanRecordAttempt(leases[w]) /\ target # row.status /\ ~ CanTransition(row, target)
    BY <1>2, <2>1, <2>8, SerialReturn DEF AttemptLoadLease
  <2> QED
    BY <2>5, <2>6, <2>7, <2>8
<1> QED
  BY <1>1, <1>2

LEMMA SerialPauseResume ==
  ASSUME OneThread, IInv, SerialInvariant, NEW t \in Thread,
         \/ \E w \in WorkflowID : PauseLoadWorkflow(t, w) \/ ResumeLoadWorkflow(t, w)
         \/ ResumeLoadLease(t)
  PROVE  SerialInvariant'
<1>0. /\ SerialStore /\ Fresh(req[t]) /\ req[t] \in Frame /\ FrameInv(req[t])
      /\ wfs \in [WorkflowID -> Row]
  BY DEF SerialInvariant, IInv, TypeOK
<1>1. ASSUME NEW w \in WorkflowID, PauseLoadWorkflow(t, w) PROVE SerialInvariant'
  <2>1. PICK f : f = [Idle EXCEPT !.op = "pause", !.pc = "update_wf", !.wf = w,
                                  !.row = TransitionTo(wfs[w], "paused")]
    OBVIOUS
  <2>2. f.op = "pause" /\ f.pc = "update_wf" /\ f.wf = w /\ f.row = TransitionTo(wfs[w], "paused")
    BY <2>1 DEF Idle
  <2>3. CanTransition(wfs[w], "paused") /\ UNCHANGED <<wfs, leases, audit>>
    BY ZenonT(40), <1>1 DEF PauseLoadWorkflow
  <2>4. wfs[w].status \in WorkflowStatus /\ "paused" \in WorkflowStatus
    BY <2>3, TableType
  <2>5. Advances(wfs[w], f.row) /\ f.row.status = "paused"
    BY <1>0, <2>2, <2>3, <2>4, TransitionFields, TransitionAdvances
  <2>6. Advances(wfs[f.wf], f.row)'
    BY <2>2, <2>3, <2>5 DEF Advances, Prolongs
  <2>7. req' = [req EXCEPT ![t] = f] /\ SerialStore'
    BY ZenonT(40), <1>0, <1>1, <2>1, <2>3, StoreRead DEF PauseLoadWorkflow, Accept
  <2> QED
    BY ZenonT(40), <2>2, <2>5, <2>6, <2>7, SerialAdvance
<1>2. ASSUME NEW w \in WorkflowID, ResumeLoadWorkflow(t, w) PROVE SerialInvariant'
  <2>1. PICK f : f = [Idle EXCEPT !.op = "resume", !.pc = "load_lease", !.wf = w, !.row = wfs[w]]
    OBVIOUS
  <2>2. f.op = "resume" /\ f.pc = "load_lease" /\ f.wf = w /\ f.row = wfs[w]
    BY <2>1 DEF Idle
  <2>3. UNCHANGED <<wfs, leases, audit>> /\ req' = [req EXCEPT ![t] = f]
    BY ZenonT(40), <1>2, <2>1 DEF ResumeLoadWorkflow, Accept
  <2>4. Fresh(f)'
    BY <2>2, <2>3 DEF Fresh
  <2> QED
    BY ZenonT(40), <1>0, <2>3, <2>4, StoreRead, SerialStep
<1>3. CASE ResumeLoadLease(t)
  <2>1. SerialStore' /\ UNCHANGED wfs
    BY <1>0, <1>3, StoreRead DEF ResumeLoadLease
  <2>2. /\ req[t].op = "resume" /\ req[t].pc = "load_lease" /\ req[t].row = wfs[req[t].wf]
        /\ req[t].wf \in WorkflowID
    BY <1>0, <1>3 DEF ResumeLoadLease, At, Fresh, FrameInv, Exists
  <2>3. CASE HasRetryBudget(leases[req[t].wf]) /\ CanTransition(req[t].row, "running")
    <3>1. PICK f : f = [req[t] EXCEPT !.pc = "update_wf", !.row = TransitionTo(req[t].row, "running")]
      OBVIOUS
    <3>2. /\ f.op = "resume" /\ f.pc = "update_wf" /\ f.wf = req[t].wf
          /\ f.row = TransitionTo(wfs[f.wf], "running")
      BY <1>0, <2>2, <3>1 DEF Frame
    <3>3. wfs[f.wf].status \in WorkflowStatus /\ "running" \in WorkflowStatus
      BY <2>2, <2>3, <3>2, TableType
    <3>4. Advances(wfs[f.wf], f.row) /\ f.row.status = "running"
      BY <1>0, <2>2, <2>3, <3>2, <3>3, TransitionFields, TransitionAdvances
    <3>5. Advances(wfs[f.wf], f.row)'
      BY <2>1, <3>4 DEF Advances, Prolongs
    <3>6. req' = [req EXCEPT ![t] = f]
      BY <1>3, <2>3, <3>1 DEF ResumeLoadLease, Goto
    <3> QED
      BY ZenonT(40), <2>1, <3>2, <3>4, <3>5, <3>6, SerialAdvance
  <2> QED
    BY <1>3, <2>1, <2>3, SerialReturn DEF ResumeLoadLease
<1> QED
  BY <1>1, <1>2, <1>3

LEMMA SerialKill ==
  ASSUME OneThread, IInv, SerialInvariant, NEW t \in Thread,
         \/ \E w \in WorkflowID : KillLoadWorkflow(t, w)
         \/ KillLoadLease(t)
         \/ KillLeaseFault(t)
  PROVE  SerialInvariant'
<1>0. /\ SerialStore /\ Fresh(req[t]) /\ req[t] \in Frame /\ FrameInv(req[t])
      /\ wfs \in [WorkflowID -> Row] /\ leases \in [WorkflowID -> Lease]
  BY DEF SerialInvariant, IInv, TypeOK
<1>1. ASSUME NEW w \in WorkflowID, KillLoadWorkflow(t, w) PROVE SerialInvariant'
  <2>1. PICK f : f = [Idle EXCEPT !.op = "kill", !.pc = "load_lease", !.wf = w,
                                  !.row = TransitionTo(wfs[w], "killed")]
    OBVIOUS
  <2>2. f.op = "kill" /\ f.pc = "load_lease" /\ f.wf = w /\ f.row = TransitionTo(wfs[w], "killed")
    BY <2>1 DEF Idle
  <2>3. /\ CanTransition(wfs[w], "killed") /\ wfs[w].status # "none"
        /\ UNCHANGED <<wfs, leases, audit>> /\ req' = [req EXCEPT ![t] = f]
    BY ZenonT(40), <1>1, <2>1 DEF KillLoadWorkflow, Accept
  <2>4. wfs[w].status \in WorkflowStatus /\ "killed" \in WorkflowStatus
    BY <1>0, <2>3 DEF Row, WorkflowStatus, TerminalStates
  <2>5. Advances(wfs[w], f.row) /\ f.row.status = "killed"
    BY <1>0, <2>2, <2>3, <2>4, TransitionFields, TransitionAdvances
  <2>6. Advances(wfs[f.wf], f.row)'
    BY <2>2, <2>3, <2>5 DEF Advances, Prolongs
  <2>7. Fresh(f)'
    BY <2>2, <2>5, <2>6 DEF Fresh
  <2> QED
    BY ZenonT(40), <1>0, <2>3, <2>7, StoreRead, SerialStep
<1>2. CASE KillLoadLease(t)
  <2>1. SerialStore' /\ UNCHANGED <<wfs, leases>>
    BY <1>0, <1>2, StoreRead DEF KillLoadLease
  <2>2. /\ req[t].op = "kill" /\ req[t].row.status = "killed"
        /\ Advances(wfs[req[t].wf], req[t].row)
    BY <1>0, <1>2 DEF KillLoadLease, At, Fresh
  <2>3. CASE CanRevoke(leases[req[t].wf])
    <3>1. PICK f : f = [req[t] EXCEPT !.pc = "update_lease", !.lease = Revoke(leases[req[t].wf])]
      OBVIOUS
    <3>2. /\ f.op = "kill" /\ f.pc = "update_lease" /\ f.wf = req[t].wf /\ f.row = req[t].row
          /\ f.lease = Revoke(leases[f.wf])
      BY <1>0, <2>2, <3>1 DEF Frame
    <3>3. Advances(wfs[f.wf], f.row)'
      BY <2>1, <2>2, <3>2 DEF Advances, Prolongs
    <3>4. leases'[f.wf].status = "active" /\ f.lease = Revoke(leases'[f.wf])
      BY <2>1, <2>3, <3>2 DEF CanRevoke
    <3>5. Fresh(f)'
      BY <2>2, <3>2, <3>3, <3>4 DEF Fresh, Earned
    <3>6. req' = [req EXCEPT ![t] = f]
      BY <1>2, <2>3, <3>1 DEF KillLoadLease, Goto
    <3> QED
      BY ZenonT(40), <2>1, <3>5, <3>6, SerialStep
  <2>4. CASE ~ CanRevoke(leases[req[t].wf])
    <3>1. PICK f : f = [req[t] EXCEPT !.pc = "update_wf"]
      BY ZenonT(40)
    <3>2. f.op = "kill" /\ f.pc = "update_wf" /\ f.wf = req[t].wf /\ f.row = req[t].row
      BY <1>0, <2>2, <3>1 DEF Frame
    <3>3. Advances(wfs[f.wf], f.row)'
      BY <2>1, <2>2, <3>2 DEF Advances, Prolongs
    <3>4. req' = [req EXCEPT ![t] = f]
      BY <1>2, <2>4, <3>1 DEF KillLoadLease, Goto
    <3> QED
      BY ZenonT(40), <2>1, <2>2, <3>2, <3>3, <3>4, SerialAdvance
  <2> QED
    BY <2>3, <2>4
<1>3. CASE KillLeaseFault(t)
  <2>1. SerialStore' /\ UNCHANGED wfs
    BY <1>0, <1>3, StoreRead DEF KillLeaseFault
  <2>2. /\ req[t].op = "kill" /\ req[t].row.status = "killed"
        /\ Advances(wfs[req[t].wf], req[t].row)
    BY <1>0, <1>3 DEF KillLeaseFault, At, Fresh
  <2>3. PICK f : f = [req[t] EXCEPT !.pc = "update_wf", !.lease = NoLease]
    OBVIOUS
  <2>4. f.op = "kill" /\ f.pc = "update_wf" /\ f.wf = req[t].wf /\ f.row = req[t].row
    BY <1>0, <2>2, <2>3 DEF Frame
  <2>5. Advances(wfs[f.wf], f.row)'
    BY <2>1, <2>2, <2>4 DEF Advances, Prolongs
  <2>6. req' = [req EXCEPT ![t] = f]
    BY <1>3, <2>3 DEF KillLeaseFault, Goto
  <2> QED
    BY ZenonT(40), <2>1, <2>2, <2>4, <2>5, <2>6, SerialAdvance
<1> QED
  BY <1>1, <1>2, <1>3

LEMMA SerialResolve ==
  ASSUME OneThread, IInv, SerialInvariant, NEW t \in Thread,
         \/ \E a \in ApprovalID, r \in Resolution : ResolveLoadApproval(t, a, r)
         \/ ResolveUpdateApproval(t)
         \/ ResolveLoadWorkflow(t)
  PROVE  SerialInvariant'
<1>0. /\ SerialStore /\ Fresh(req[t]) /\ req[t] \in Frame /\ FrameInv(req[t])
      /\ wfs \in [WorkflowID -> Row]
  BY DEF SerialInvariant, IInv, TypeOK
<1>1. ASSUME NEW a \in ApprovalID, NEW r \in Resolution, ResolveLoadApproval(t, a, r)
      PROVE  SerialInvariant'
  <2>1. PICK f : f = [Idle EXCEPT !.op = "resolve", !.pc = "update_approval",
                                  !.wf = approvals[a].wf, !.id = a, !.arg = r]
    OBVIOUS
  <2>2. f.op = "resolve" /\ f.pc = "update_approval" /\ f.id = a
    BY <2>1 DEF Idle
  <2>3. /\ approvals'[a].status = "pending" /\ UNCHANGED <<wfs, leases, audit>>
        /\ req' = [req EXCEPT ![t] = f]
    BY ZenonT(40), <1>1, <2>1 DEF ResolveLoadApproval, CanResolve, Accept
  <2>4. Fresh(f)'
    BY <2>2, <2>3 DEF Fresh
  <2> QED
    BY ZenonT(40), <1>0, <2>3, <2>4, StoreRead, SerialStep
<1>2. CASE ResolveUpdateApproval(t)
  <2>1. PICK f : f = [req[t] EXCEPT !.pc = "load_wf"]
    BY ZenonT(40)
  <2>2. f.op = "resolve" /\ f.pc = "load_wf"
    BY <1>0, <1>2, <2>1 DEF ResolveUpdateApproval, At, Frame
  <2> QED
    BY ZenonT(40), <1>0, <1>2, <2>1, <2>2, StoreRead, SerialPlain DEF ResolveUpdateApproval, Goto
<1>3. CASE ResolveLoadWorkflow(t)
  <2> DEFINE w == req[t].wf
             row == wfs[w]
             approved == req[t].arg = "approved"
             target == IF approved THEN "approved" ELSE "failed"
  <2>1. SerialStore' /\ UNCHANGED wfs
    BY <1>0, <1>3, StoreRead DEF ResolveLoadWorkflow
  <2>2. w \in WorkflowID /\ req[t].op = "resolve" /\ req[t].arg \in Resolution
    BY <1>0, <1>3 DEF ResolveLoadWorkflow, At, FrameInv, Exists
  <2>3. CASE CanTransition(row, target)
    <3>1. PICK f : f = [req[t] EXCEPT !.pc = IF approved THEN "save_lease" ELSE "update_wf",
                                      !.row = Resolved(row, req[t].arg)]
      OBVIOUS
    <3>2. /\ f.op = "resolve" /\ f.pc \in {"save_lease", "update_wf"} /\ f.wf = w
          /\ f.row = Resolved(row, req[t].arg)
      BY <1>0, <2>2, <3>1 DEF Frame
    <3>3. row \in Row /\ row.status \in WorkflowStatus /\ target \in WorkflowStatus
      BY <1>0, <2>2, <2>3, TableType
    <3>4. Advances(row, f.row) /\ f.row.status \in {"running", "failed"}
      <4>1. CASE approved
        BY <2>3, <3>2, <3>3, <4>1, ResolvedAdvances
      <4>2. CASE ~ approved
        <5>1. f.row = TransitionTo(row, "failed")
          BY <3>2, <4>2 DEF Resolved
        <5> QED
          BY <2>3, <3>3, <4>2, <5>1, TransitionFields, TransitionAdvances
      <4> QED
        BY <4>1, <4>2
    <3>5. Advances(wfs[f.wf], f.row)'
      BY ZenonT(40), <2>1, <3>2, <3>4 DEF Advances, Prolongs
    <3>6. req' = [req EXCEPT ![t] = f]
      BY <1>3, <2>3, <3>1 DEF ResolveLoadWorkflow, Goto
    <3> QED
      BY ZenonT(40), <2>1, <3>2, <3>4, <3>5, <3>6, SerialAdvance
  <2> QED
    BY <1>3, <2>1, <2>3, SerialReturn DEF ResolveLoadWorkflow
<1> QED
  BY <1>1, <1>2, <1>3

---------------------------------------------------------------------------
\* The shared statements

LEMMA SerialSaveLease ==
  ASSUME OneThread, IInv, SerialInvariant, NEW t \in Thread, SaveLease(t)
  PROVE  SerialInvariant'
<1>0. /\ SerialStore /\ Fresh(req[t]) /\ req[t] \in Frame /\ FrameInv(req[t])
      /\ wfs \in [WorkflowID -> Row] /\ leases \in [WorkflowID -> Lease]
  BY DEF SerialInvariant, IInv, TypeOK
<1>1. /\ req[t].wf \in WorkflowID /\ req[t].row.status = "running"
      /\ Advances(wfs[req[t].wf], req[t].row)
      /\ req[t].op \notin {"attempt", "kill"}
  BY <1>0 DEF SaveLease, FrameInv, Exists, Fresh
<1>2. CASE leases[req[t].wf] = NoLease
  <2>1. PICK f : f = [req[t] EXCEPT !.pc = "update_wf"]
    BY ZenonT(40)
  <2>2. f.op = req[t].op /\ f.pc = "update_wf" /\ f.wf = req[t].wf /\ f.row = req[t].row
    BY <1>0, <2>1 DEF Frame
  <2>3. /\ leases' = [leases EXCEPT ![req[t].wf] = NewExecutionLease]
        /\ UNCHANGED <<wfs, audit>> /\ req' = [req EXCEPT ![t] = f]
    BY <1>2, <2>1 DEF SaveLease, Goto
  <2>4. SerialStore'
    <3>1. ASSUME NEW w \in WorkflowID
          PROVE  leases'[w].used = leases[w].used /\ Earned(leases'[w], wfs'[w].status)
      <4>1. CASE w = req[t].wf
        <5>1. leases'[w].used = 0 /\ leases[w].used = 0
          BY <1>0, <1>1, <1>2, <2>3, <4>1 DEF NewExecutionLease, NoLease
        <5>2. wfs'[w].status \notin TerminalStates
          BY <1>1, <2>3, <4>1 DEF Advances
        <5> QED
          BY <5>1, <5>2 DEF Earned, TerminalStates
      <4>2. CASE w # req[t].wf
        BY <1>0, <2>3, <4>2 DEF SerialStore
      <4> QED
        BY <4>1, <4>2
    <3> QED
      BY <1>0, <2>3, <3>1 DEF SerialStore
  <2>5. Advances(wfs[f.wf], f.row)'
    BY <1>1, <2>2, <2>3 DEF Advances, Prolongs
  <2> QED
    BY ZenonT(40), <1>1, <2>2, <2>3, <2>4, <2>5, SerialAdvance
<1>3. CASE leases[req[t].wf] # NoLease
  BY <1>0, <1>3, StoreRead, SerialReturn DEF SaveLease
<1> QED
  BY <1>2, <1>3

LEMMA SerialUpdateLease ==
  ASSUME OneThread, IInv, SerialInvariant, NEW t \in Thread, UpdateLease(t)
  PROVE  SerialInvariant'
<1>0. /\ SerialStore /\ Fresh(req[t]) /\ req[t] \in Frame /\ FrameInv(req[t])
      /\ leases \in [WorkflowID -> Lease]
      /\ audit \in [TaskID \cup WorkflowID -> [AuditAction -> Nat]]
  BY DEF SerialInvariant, IInv, TypeOK
<1>1. /\ req[t].wf \in WorkflowID /\ Advances(wfs[req[t].wf], req[t].row)
      /\ Earned(req[t].lease, req[t].row.status)
      /\ \/ req[t].op = "attempt" /\ req[t].lease = RecordAttempt(leases[req[t].wf])
         \/ req[t].op = "kill" /\ req[t].lease = Revoke(leases[req[t].wf])
      /\ req[t].op = "kill" => req[t].row.status = "killed"
  BY <1>0 DEF UpdateLease, FrameInv, Exists, Fresh
<1>2. PICK f : f = [req[t] EXCEPT !.pc = "update_wf", !.lease = NoLease]
  OBVIOUS
<1>3. f.op = req[t].op /\ f.pc = "update_wf" /\ f.wf = req[t].wf /\ f.row = req[t].row
  BY <1>0, <1>2 DEF Frame
<1>4. /\ leases' = [leases EXCEPT ![req[t].wf] = req[t].lease]
      /\ UNCHANGED <<wfs, audit>> /\ req' = [req EXCEPT ![t] = f]
  BY <1>2 DEF UpdateLease, Goto
<1>5. /\ leases[req[t].wf].used \in Nat
      /\ audit[req[t].wf]["attempt_registered"] \in Nat
      /\ audit[req[t].wf]["attempt_registered"] <= leases[req[t].wf].used
  BY <1>0, <1>1 DEF Lease, SerialStore, AuditAction
<1>6. /\ req[t].op = "attempt" => req[t].lease.used = leases[req[t].wf].used + 1
      /\ req[t].op = "kill" => req[t].lease.used = leases[req[t].wf].used
  <2>1. leases[req[t].wf] \in Lease
    BY <1>0, <1>1
  <2> QED
    BY <1>1, <2>1 DEF RecordAttempt, Revoke, Lease
<1>7. leases'[req[t].wf] = req[t].lease
  BY <1>0, <1>1, <1>4
<1>8. SerialStore'
  <2>1. ASSUME NEW w \in WorkflowID, w # req[t].wf PROVE leases'[w] = leases[w]
    BY <1>0, <1>4, <2>1
  <2>2. audit'[req[t].wf]["attempt_registered"] <= leases'[req[t].wf].used
    BY <1>1, <1>4, <1>5, <1>6, <1>7
  <2>3. Earned(leases'[req[t].wf], wfs'[req[t].wf].status)
    BY <1>1, <1>4 DEF Advances, Earned, TerminalStates
  <2> QED
    BY <1>0, <1>4, <2>1, <2>2, <2>3 DEF SerialStore
<1>9. Advances(wfs[f.wf], f.row)' /\ Earned(leases'[f.wf], f.row.status)
  BY ZenonT(40), <1>1, <1>3, <1>4, <1>7 DEF Advances, Prolongs
<1>10. f.op = "attempt" => audit'[f.wf]["attempt_registered"] < leases'[f.wf].used
  BY <1>3, <1>4, <1>5, <1>6, <1>7
<1>11. Fresh(f)'
  BY ZenonT(40), <1>1, <1>3, <1>9, <1>10 DEF Fresh, Earned
<1> QED
  BY ZenonT(40), <1>4, <1>8, <1>11, SerialStep

LEMMA SerialUpdateWorkflow ==
  ASSUME OneThread, IInv, SerialInvariant, NEW t \in Thread, UpdateWorkflow(t)
  PROVE  SerialInvariant'
<1>0. /\ SerialStore /\ Fresh(req[t]) /\ req[t] \in Frame /\ FrameInv(req[t])
      /\ wfs \in [WorkflowID -> Row]
      /\ audit \in [TaskID \cup WorkflowID -> [AuditAction -> Nat]]
  BY DEF SerialInvariant, IInv, TypeOK
<1>1. /\ req[t].wf \in WorkflowID /\ Advances(wfs[req[t].wf], req[t].row)
      /\ Earned(leases[req[t].wf], req[t].row.status)
      /\ req[t].op = "kill" => req[t].row.status = "killed"
      /\ req[t].op = "attempt" =>
           audit[req[t].wf]["attempt_registered"] < leases[req[t].wf].used
  BY <1>0 DEF UpdateWorkflow, FrameInv, Exists, Fresh
<1>2. PICK f : f = [req[t] EXCEPT !.pc = "finish"]
  BY ZenonT(40)
<1>3. f.op = req[t].op /\ f.pc = "finish" /\ f.wf = req[t].wf /\ f.row = req[t].row
  BY <1>0, <1>2 DEF Frame
<1>4. /\ wfs' = [wfs EXCEPT ![req[t].wf] = req[t].row]
      /\ UNCHANGED <<leases, audit>> /\ req' = [req EXCEPT ![t] = f]
  BY <1>2 DEF UpdateWorkflow, Goto
<1>5. wfs'[req[t].wf] = req[t].row
  BY <1>0, <1>1, <1>4
<1>6. audit[req[t].wf]["workflow_quarantined"] = 0
  <2>1. wfs[req[t].wf].status # "quarantined"
    BY <1>1 DEF Advances, TerminalStates
  <2>2. audit[req[t].wf]["workflow_quarantined"] \in Nat
    BY <1>0, <1>1 DEF AuditAction
  <2> QED
    BY <1>0, <1>1, <2>1, <2>2 DEF SerialStore
<1>7. SerialStore'
  <2>1. ASSUME NEW w \in WorkflowID, w # req[t].wf PROVE wfs'[w] = wfs[w]
    BY <1>0, <1>4, <2>1
  <2>2. req[t].row.status \notin {"none", "approved"}
    BY <1>0, <1>1 DEF Advances, UpdateWorkflow, FrameInv, GoodRow
  <2> QED
    BY <1>0, <1>1, <1>4, <1>5, <1>6, <2>1, <2>2 DEF SerialStore
<1>8. Fresh(f)'
  BY <1>1, <1>3, <1>4, <1>5, <1>6 DEF Fresh
<1> QED
  BY ZenonT(40), <1>4, <1>7, <1>8, SerialStep

LEMMA SerialFinish ==
  ASSUME OneThread, IInv, SerialInvariant, NEW t \in Thread, NEW lost, Finish(t, lost)
  PROVE  SerialInvariant'
<1>0. /\ SerialStore /\ Fresh(req[t]) /\ req[t] \in Frame /\ FrameInv(req[t])
      /\ leases \in [WorkflowID -> Lease]
      /\ audit \in [TaskID \cup WorkflowID -> [AuditAction -> Nat]]
  BY DEF SerialInvariant, IInv, TypeOK
<1> DEFINE w == req[t].wf
           recorded(a) == IF a \in AuditsOf(req[t]) \ lost THEN 1 ELSE 0
           count == [a \in AuditAction |-> audit[w][a] + recorded(a)]
<1>1. w \in WorkflowID
  BY ZenonT(40), <1>0 DEF Finish, FrameInv, Exists
<1>2. /\ audit' = [audit EXCEPT ![w] = count] /\ UNCHANGED <<wfs, leases>> /\ Return(t)
  BY ZenonT(40) DEF Finish
<1>3. /\ audit'[w]["attempt_registered"] = audit[w]["attempt_registered"] + recorded("attempt_registered")
      /\ audit'[w]["workflow_quarantined"] = audit[w]["workflow_quarantined"] + recorded("workflow_quarantined")
      /\ audit[w]["attempt_registered"] \in Nat /\ audit[w]["workflow_quarantined"] \in Nat
  BY <1>0, <1>1, <1>2 DEF AuditAction
<1>4. req[t].op # "attempt" => recorded("attempt_registered") = 0 /\ recorded("workflow_quarantined") = 0
  BY DEF AuditsOf
<1>5. req[t].op = "attempt" /\ req[t].row.status # "quarantined" => recorded("workflow_quarantined") = 0
  BY DEF AuditsOf, AttemptAudits
<1>6. recorded("attempt_registered") \in {0, 1} /\ recorded("workflow_quarantined") \in {0, 1}
  OBVIOUS
<1> HIDE DEF recorded, count
<1>7. leases[w].used \in Nat
  BY <1>0, <1>1 DEF Lease
<1>8. /\ req[t].op = "attempt" => audit[w]["attempt_registered"] < leases[w].used
      /\ req[t].op = "attempt" /\ req[t].row.status = "quarantined" =>
           wfs[w].status = "quarantined" /\ audit[w]["workflow_quarantined"] = 0
  BY ZenonT(40), <1>0 DEF Fresh, Finish
<1>9. audit'[w]["attempt_registered"] <= leases[w].used
  <2>1. audit[w]["attempt_registered"] <= leases[w].used
    BY ZenonT(40), <1>0, <1>1 DEF SerialStore
  <2>2. PICK n \in Nat, m \in Nat, k \in {0, 1} :
          /\ n = audit[w]["attempt_registered"] /\ m = leases[w].used
          /\ k = recorded("attempt_registered")
    BY <1>3, <1>6, <1>7, Zenon
  <2>3. audit'[w]["attempt_registered"] = n + k /\ (n < m \/ (n <= m /\ k = 0))
    BY <1>3, <1>4, <1>8, <2>1, <2>2, Zenon
  <2>4. n + k <= m
    BY <2>3
  <2> QED
    BY <2>2, <2>3, <2>4, Zenon
<1>10. audit'[w]["workflow_quarantined"] <= IF wfs[w].status = "quarantined" THEN 1 ELSE 0
  <2>1. audit[w]["workflow_quarantined"] <= IF wfs[w].status = "quarantined" THEN 1 ELSE 0
    BY <1>0, <1>1 DEF SerialStore
  <2>2. CASE req[t].op = "attempt" /\ req[t].row.status = "quarantined"
    BY <1>3, <1>6, <1>8, <2>2
  <2>3. CASE ~(req[t].op = "attempt" /\ req[t].row.status = "quarantined")
    BY <1>3, <1>4, <1>5, <2>1, <2>3
  <2> QED
    BY <2>2, <2>3
<1>11. SerialStore'
  <2>1. ASSUME NEW v \in WorkflowID, v # w PROVE audit'[v] = audit[v]
    BY <1>0, <1>2, <2>1
  <2> QED
    BY <1>0, <1>2, <1>9, <1>10, <2>1 DEF SerialStore
<1> QED
  BY <1>2, <1>11, SerialReturn

---------------------------------------------------------------------------
\* The invariant

LEMMA SerialInit == Init => SerialInvariant
<1> SUFFICES ASSUME Init PROVE SerialInvariant
  OBVIOUS
<1>1. ASSUME NEW t \in Thread PROVE Fresh(req[t])
  BY IdleFresh DEF Init
<1>2. ASSUME NEW w \in WorkflowID
      PROVE  /\ wfs[w].status = "none" /\ wfs[w].transitions = <<>> /\ leases[w].used = 0
             /\ audit[w]["attempt_registered"] = 0 /\ audit[w]["workflow_quarantined"] = 0
  BY DEF Init, NoRun, NewWorkflowRun, NoLease, AuditAction
<1> QED
  BY <1>1, <1>2 DEF SerialInvariant, SerialStore, Earned

LEMMA SerialStutter == SerialInvariant /\ UNCHANGED vars => SerialInvariant'
<1> SUFFICES ASSUME SerialInvariant, UNCHANGED vars PROVE SerialInvariant'
  OBVIOUS
<1>1. SerialStore'
  BY StoreRead DEF SerialInvariant, vars
<1>2. ASSUME NEW t \in Thread PROVE Fresh(req[t])'
  BY ZenonT(40) DEF SerialInvariant, vars, Fresh, Advances, Prolongs, Earned
<1> QED
  BY <1>1, <1>2 DEF SerialInvariant

LEMMA SerialNext == OneThread /\ IInv /\ SerialInvariant /\ Next => SerialInvariant'
<1> SUFFICES ASSUME OneThread, IInv, SerialInvariant, Next PROVE SerialInvariant'
  OBVIOUS
<1>1. PICK t \in Thread : AdmissionStep(t) \/ ControlStep(t) \/ SharedStep(t)
  BY DEF Next
<1>2. CASE ControlStep(t)
  BY <1>2, SerialStart, SerialAttempt, SerialPauseResume, SerialKill, SerialResolve DEF ControlStep
<1>3. CASE SharedStep(t)
  <2>1. CASE Abort(t)
    BY <2>1, StoreRead, SerialReturn DEF Abort, SerialInvariant
  <2> QED
    BY <1>3, <2>1, SerialSaveLease, SerialUpdateLease, SerialUpdateWorkflow, SerialFinish
    DEF SharedStep
<1> QED
  BY <1>1, <1>2, <1>3, SerialAdmission

\* One request at a time, whatever statements fail, requests hold fresh copies
\* and the trail and the status of a run follow its lease.
THEOREM SerialInvariance == OneThread => (Spec => []SerialInvariant)
<1> SUFFICES ASSUME OneThread PROVE Spec => []SerialInvariant
  OBVIOUS
<1>1. Init => SerialInvariant
  BY SerialInit
<1>2. IInv /\ SerialInvariant /\ [Next]_vars => SerialInvariant'
  BY SerialNext, SerialStutter
<1> QED
  BY <1>1, <1>2, Invariance, PTL DEF Spec

---------------------------------------------------------------------------
\* What a step may do to the tables of Lifecycle

Untouched == UNCHANGED <<wfs, leases, approvals>>

Created(w) ==
  /\ wfs[w].status = "none" /\ wfs[w].transitions = <<>>
  /\ \E row : /\ row.status = "created" /\ row.transitions = <<>>
              /\ wfs' = [wfs EXCEPT ![w] = row]
  /\ UNCHANGED <<leases, approvals>>

Written(w) ==
  /\ wfs[w].status # "none"
  /\ \E row \in Row :
       /\ row.status # "none"
       /\ Advances(wfs[w], row)
       /\ row.status \in Executing => leases[w] # NoLease
       /\ Earned(leases[w], row.status)
       /\ wfs' = [wfs EXCEPT ![w] = row]
  /\ UNCHANGED <<leases, approvals>>

Granted(w) ==
  /\ wfs[w].status \in {"policy_checked", "awaiting_approval"}
  /\ leases[w] = NoLease
  /\ leases' = [leases EXCEPT ![w] = NewExecutionLease]
  /\ UNCHANGED <<wfs, approvals>>

Reduced(w) ==
  /\ wfs[w].status \notin TerminalStates
  /\ leases[w].status = "active"
  /\ \/ leases' = [leases EXCEPT ![w] = RecordAttempt(leases[w])]
     \/ leases' = [leases EXCEPT ![w] = Revoke(leases[w])]
  /\ UNCHANGED <<wfs, approvals>>

Asked(a) ==
  /\ approvals[a].status = "none"
  /\ \E request : /\ request.status = "pending"
                  /\ approvals' = [approvals EXCEPT ![a] = request]
  /\ UNCHANGED <<wfs, leases>>

Answered(a) ==
  /\ approvals[a].status = "pending"
  /\ \E r \in Resolution : approvals' = [approvals EXCEPT ![a].status = r]
  /\ UNCHANGED <<wfs, leases>>

SerialEffect ==
  \/ Untouched
  \/ \E w \in WorkflowID : Created(w) \/ Written(w) \/ Granted(w) \/ Reduced(w)
  \/ \E a \in ApprovalID : Asked(a) \/ Answered(a)

---------------------------------------------------------------------------
\* What the writing statements do

LEMMA CreateEffect ==
  ASSUME IInv, SerialInvariant, NEW t \in Thread, NEW w \in WorkflowID, RouteCreateWorkflow(t, w)
  PROVE  Created(w)
<1>1. PICK row : row = NewWorkflowRun(req[t].task, Nil)
  OBVIOUS
<1>2. row.status = "created" /\ row.transitions = <<>>
  BY <1>1 DEF NewWorkflowRun
<1>3. wfs[w].status = "none" /\ wfs[w].transitions = <<>>
  BY DEF RouteCreateWorkflow, SerialInvariant, SerialStore
<1> QED
  BY ZenonT(40), <1>1, <1>2, <1>3 DEF RouteCreateWorkflow, Created

LEMMA WriteEffect ==
  ASSUME IInv, SerialInvariant, NEW t \in Thread, UpdateWorkflow(t)
  PROVE  Written(req[t].wf) /\ req[t].wf \in WorkflowID
<1>1. Fresh(req[t]) /\ req[t] \in Frame /\ FrameInv(req[t])
  BY DEF SerialInvariant, IInv, TypeOK
<1>2. /\ Exists(req[t].wf) /\ req[t].row.status # "none"
      /\ req[t].row.status \in Executing => leases[req[t].wf] # NoLease
  BY <1>1 DEF UpdateWorkflow, FrameInv, GoodRow, Backed
<1>3. Advances(wfs[req[t].wf], req[t].row) /\ Earned(leases[req[t].wf], req[t].row.status)
  BY <1>1 DEF UpdateWorkflow, Fresh
<1>4. req[t].row \in Row
  BY <1>1 DEF Frame
<1>5. wfs' = [wfs EXCEPT ![req[t].wf] = req[t].row] /\ UNCHANGED <<leases, approvals>>
  BY DEF UpdateWorkflow
<1> QED
  BY ZenonT(40), <1>2, <1>3, <1>4, <1>5 DEF Written, Exists

\* A lease is granted at the policy check or at the approval gate: a run that
\* already executes has one, and approved is never stored.
LEMMA GrantEffect ==
  ASSUME IInv, SerialInvariant, NEW t \in Thread, SaveLease(t)
  PROVE  Untouched \/ (req[t].wf \in WorkflowID /\ Granted(req[t].wf))
<1>1. /\ Fresh(req[t]) /\ FrameInv(req[t]) /\ StoreInv /\ SerialStore
  BY DEF SerialInvariant, IInv
<1>2. /\ Exists(req[t].wf) /\ req[t].row.status = "running"
      /\ Advances(wfs[req[t].wf], req[t].row)
  BY <1>1 DEF SaveLease, FrameInv, Fresh
<1>3. CASE leases[req[t].wf] = NoLease
  <2>1. wfs[req[t].wf].status \notin {"running", "paused", "approved"}
    BY <1>1, <1>2, <1>3 DEF StoreInv, Backed, Executing, SerialStore, Exists
  <2>2. wfs[req[t].wf].status \in {"policy_checked", "awaiting_approval"}
    BY <1>2, <2>1 DEF Advances, IsValidTransition, TransitionTable
  <2> QED
    BY <1>2, <1>3, <2>2 DEF SaveLease, Granted, Exists
<1>4. CASE leases[req[t].wf] # NoLease
  BY <1>4 DEF SaveLease, Untouched
<1> QED
  BY <1>3, <1>4

LEMMA ReduceEffect ==
  ASSUME IInv, SerialInvariant, NEW t \in Thread, UpdateLease(t)
  PROVE  req[t].wf \in WorkflowID /\ Reduced(req[t].wf)
<1>1. Fresh(req[t]) /\ FrameInv(req[t])
  BY DEF SerialInvariant, IInv
<1>2. /\ leases[req[t].wf].status = "active" /\ Advances(wfs[req[t].wf], req[t].row)
      /\ \/ req[t].lease = RecordAttempt(leases[req[t].wf])
         \/ req[t].lease = Revoke(leases[req[t].wf])
  BY <1>1 DEF UpdateLease, Fresh
<1>3. req[t].wf \in WorkflowID
  BY <1>1 DEF UpdateLease, FrameInv, Exists
<1> QED
  BY ZenonT(40), <1>2, <1>3 DEF UpdateLease, Reduced, Advances

LEMMA AskEffect ==
  ASSUME IInv, NEW t \in Thread, NEW a \in ApprovalID, StartSaveApproval(t, a)
  PROVE  Asked(a)
<1>1. PICK request : request = [wf |-> req[t].wf, status |-> "pending"]
  BY ZenonT(40)
<1>2. request.status = "pending" /\ approvals[a].status = "none"
  BY <1>1 DEF StartSaveApproval, NoApproval
<1> QED
  BY ZenonT(40), <1>1, <1>2 DEF StartSaveApproval, Asked

LEMMA AnswerEffect ==
  ASSUME IInv, SerialInvariant, NEW t \in Thread, ResolveUpdateApproval(t)
  PROVE  req[t].id \in ApprovalID /\ Answered(req[t].id)
<1>1. Fresh(req[t]) /\ FrameInv(req[t])
  BY DEF SerialInvariant, IInv
<1>2. req[t].op = "resolve" /\ req[t].pc = "update_approval"
  BY DEF ResolveUpdateApproval, At
<1>3. req[t].id \in ApprovalID /\ req[t].arg \in Resolution /\ approvals[req[t].id].status = "pending"
  BY <1>1, <1>2 DEF Fresh, FrameInv
<1> QED
  BY ZenonT(40), <1>3 DEF ResolveUpdateApproval, Answered

\* The other statements write none of the three tables.
LEMMA AdmissionEffect ==
  ASSUME IInv, SerialInvariant, NEW t \in Thread, AdmissionStep(t)
  PROVE  SerialEffect
<1>1. ASSUME NEW w \in WorkflowID, RouteCreateWorkflow(t, w) PROVE SerialEffect
  BY <1>1, CreateEffect DEF SerialEffect
<1>2. CASE \/ \E attr \in TaskAttr, task \in TaskID : SubmitSaveTask(t, attr, task)
           \/ SubmitAudit(t)
           \/ \E task \in TaskID, d \in RoutingID, s \in Strategy : RouteSaveDecision(t, task, d, s)
           \/ \E w \in WorkflowID : RouteFindWorkflow(t, w)
           \/ RouteMissWorkflow(t)
  <2>1. Untouched
    BY <1>2, Zenon DEF SubmitSaveTask, SubmitAudit, RouteSaveDecision, RouteFindWorkflow,
                       RouteMissWorkflow, Untouched
  <2> QED
    BY <2>1 DEF SerialEffect
<1>3. CASE RouteAudit(t) \/ RouteAuditSubtask(t) \/ \E sub \in TaskID : RouteSaveSubtask(t, sub)
  <2>1. Untouched
    BY <1>3, Zenon DEF RouteAudit, RouteAuditSubtask, RouteSaveSubtask, Untouched
  <2> QED
    BY <2>1 DEF SerialEffect
<1>4. CASE \/ \E task \in TaskID, a \in PolicyAction, d \in PolicyID :
                PolicySaveDecision(t, task, a, d)
           \/ \E w \in WorkflowID : PolicyFindWorkflow(t, w)
           \/ PolicyMissWorkflow(t)
           \/ PolicyAudit(t)
  <2>1. Untouched
    BY <1>4, Zenon DEF PolicySaveDecision, PolicyFindWorkflow, PolicyMissWorkflow, PolicyAudit,
                       Untouched
  <2> QED
    BY <2>1 DEF SerialEffect
<1> QED
  BY <1>1, <1>2, <1>3, <1>4 DEF AdmissionStep

LEMMA ControlEffect ==
  ASSUME IInv, SerialInvariant, NEW t \in Thread, ControlStep(t)
  PROVE  SerialEffect
<1>1. ASSUME NEW a \in ApprovalID, StartSaveApproval(t, a) PROVE SerialEffect
  BY <1>1, AskEffect DEF SerialEffect
<1>2. CASE ResolveUpdateApproval(t)
  BY <1>2, AnswerEffect DEF SerialEffect
<1>3. CASE \/ \E task \in TaskID, d \in PolicyID : StartLoadPolicy(t, task, d)
           \/ \E w \in WorkflowID : StartLoadWorkflow(t, w)
           \/ StartMissWorkflow(t)
           \/ \E w \in WorkflowID, s \in AttemptStatus : AttemptLoadWorkflow(t, w, s)
           \/ AttemptLoadLease(t)
  <2>1. Untouched
    BY <1>3, Zenon DEF StartLoadPolicy, StartLoadWorkflow, StartMissWorkflow,
                       AttemptLoadWorkflow, AttemptLoadLease, Untouched
  <2> QED
    BY <2>1 DEF SerialEffect
<1>4. CASE \/ \E w \in WorkflowID : PauseLoadWorkflow(t, w) \/ ResumeLoadWorkflow(t, w)
           \/ ResumeLoadLease(t)
           \/ \E w \in WorkflowID : KillLoadWorkflow(t, w)
           \/ KillLoadLease(t)
           \/ KillLeaseFault(t)
           \/ \E a \in ApprovalID, r \in Resolution : ResolveLoadApproval(t, a, r)
           \/ ResolveLoadWorkflow(t)
  <2>1. Untouched
    BY <1>4, Zenon DEF PauseLoadWorkflow, ResumeLoadWorkflow, ResumeLoadLease, KillLoadWorkflow,
                       KillLoadLease, KillLeaseFault, ResolveLoadApproval, ResolveLoadWorkflow,
                       Untouched
  <2> QED
    BY <2>1 DEF SerialEffect
<1> QED
  BY <1>1, <1>2, <1>3, <1>4 DEF ControlStep

LEMMA StepEffect == IInv /\ SerialInvariant /\ [Next]_vars => SerialEffect
<1> SUFFICES ASSUME IInv, SerialInvariant, [Next]_vars PROVE SerialEffect
  OBVIOUS
<1>1. CASE Next
  <2>1. PICK t \in Thread : AdmissionStep(t) \/ ControlStep(t) \/ SharedStep(t)
    BY <1>1 DEF Next
  <2>2. CASE SharedStep(t)
    <3>1. ASSUME NEW lost, Finish(t, lost) \/ Abort(t) PROVE Untouched
      BY <3>1, Zenon DEF Finish, Abort, Untouched
    <3> QED
      BY <2>2, <3>1, GrantEffect, ReduceEffect, WriteEffect DEF SharedStep, SerialEffect
  <2> QED
    BY <2>1, <2>2, AdmissionEffect, ControlEffect
<1>2. CASE UNCHANGED vars
  BY <1>2 DEF vars, Untouched, SerialEffect
<1> QED
  BY <1>1, <1>2

---------------------------------------------------------------------------
\* The refinement

status == [w \in WorkflowID |-> wfs[w].status]

LEMMA CreatedRefines ==
  ASSUME IInv, NEW w \in WorkflowID, Created(w)
  PROVE  L!Create(w)
<1>1. wfs \in [WorkflowID -> Row]
  BY DEF IInv, TypeOK
<1>2. PICK row : row.status = "created" /\ wfs' = [wfs EXCEPT ![w] = row]
  BY ZenonT(40) DEF Created
<1>3. status' = [status EXCEPT ![w] = "created"]
  BY ZenonT(40), <1>1, <1>2 DEF status
<1> QED
  BY <1>3 DEF Created, L!Create, status

LEMMA WrittenRefines ==
  ASSUME IInv, SerialInvariant, NEW w \in WorkflowID, Written(w)
  PROVE  UNCHANGED L!lifecycle \/ \E to \in L!WorkflowStatus : L!Move(w, to)
<1>1. wfs \in [WorkflowID -> Row]
  BY DEF IInv, TypeOK
<1>2. PICK row \in Row :
        /\ row.status # "none" /\ Advances(wfs[w], row)
        /\ row.status \in Executing => leases[w] # NoLease
        /\ Earned(leases[w], row.status)
        /\ wfs' = [wfs EXCEPT ![w] = row]
  BY ZenonT(40) DEF Written
<1>3. UNCHANGED <<leases, approvals>>
  BY DEF Written
<1>4. status' = [status EXCEPT ![w] = row.status]
  BY ZenonT(40), <1>1, <1>2 DEF status
<1>5. CASE row.status = wfs[w].status
  <2>1. UNCHANGED status
    BY ZenonT(40), <1>4, <1>5 DEF status
  <2> QED
    BY <1>3, <2>1 DEF L!lifecycle, status
<1>6. CASE row.status # wfs[w].status
  <2>1. wfs[w].status \in L!WorkflowStatus \ L!TerminalStates
    BY <1>1, <1>2 DEF Written, Row, Advances, WorkflowStatus, TerminalStates,
                      L!WorkflowStatus, L!TerminalStates
  <2>2. row.status \in L!WorkflowStatus
    BY <1>2 DEF Row, WorkflowStatus, TerminalStates, L!WorkflowStatus, L!TerminalStates
  <2>3. \/ L!IsValidTransition(wfs[w].status, row.status)
        \/ <<wfs[w].status, row.status>> = <<"awaiting_approval", "running">>
    BY <1>2, <1>6 DEF Advances, IsValidTransition, TransitionTable, TerminalStates,
                      L!IsValidTransition, L!TransitionTable, L!TerminalStates
  <2>4. L!Permits(leases[w], row.status)
    BY <1>2 DEF Executing, Earned, NoLease, L!Permits, L!NoLease
  <2>5. L!Move(w, row.status)
    BY <1>3, <1>4, <2>1, <2>3, <2>4 DEF L!Move, status
  <2> QED
    BY <2>2, <2>5
<1> QED
  BY <1>5, <1>6

LEMMA LeaseRefines ==
  ASSUME IInv, NEW w \in WorkflowID, Granted(w) \/ Reduced(w)
  PROVE  L!Grant(w) \/ L!Spend(w) \/ L!Withdraw(w)
<1>1. UNCHANGED <<status, approvals>> /\ status[w] = wfs[w].status
  BY DEF Granted, Reduced, status
<1>2. CASE Granted(w)
  BY <1>1, <1>2 DEF Granted, L!Grant, NoLease, L!NoLease, NewExecutionLease, L!NewExecutionLease,
                    status
<1>3. CASE Reduced(w)
  <2>1. CASE leases' = [leases EXCEPT ![w] = RecordAttempt(leases[w])]
    BY <1>1, <1>3, <2>1 DEF Reduced, L!Spend, RecordAttempt, L!RecordAttempt,
                            TerminalStates, L!TerminalStates, status
  <2>2. CASE leases' = [leases EXCEPT ![w] = Revoke(leases[w])]
    BY <1>1, <1>3, <2>2 DEF Reduced, L!Withdraw, Revoke, L!Revoke,
                            TerminalStates, L!TerminalStates, status
  <2> QED
    BY <1>3, <2>1, <2>2 DEF Reduced
<1> QED
  BY <1>2, <1>3

approval == [a \in ApprovalID |-> approvals[a].status]

LEMMA ApprovalRefines ==
  ASSUME IInv, NEW a \in ApprovalID, Asked(a) \/ Answered(a)
  PROVE  L!Ask(a) \/ L!Answer(a)
<1>1. /\ approvals \in [ApprovalID ->
           [wf : WorkflowID, status : Resolution \cup {"pending"}] \cup {NoApproval}]
  BY DEF IInv, TypeOK
<1>2. UNCHANGED <<wfs, leases>>
  BY DEF Asked, Answered
<1>3. CASE Asked(a)
  <2>1. PICK request : request.status = "pending" /\ approvals' = [approvals EXCEPT ![a] = request]
    BY ZenonT(40), <1>3 DEF Asked
  <2>2. approval' = [approval EXCEPT ![a] = "pending"]
    BY ZenonT(40), <1>1, <2>1 DEF approval
  <2> QED
    BY <1>2, <1>3, <2>2 DEF Asked, L!Ask, approval
<1>4. CASE Answered(a)
  <2>1. PICK r \in Resolution : approvals' = [approvals EXCEPT ![a].status = r]
    BY ZenonT(40), <1>4 DEF Answered
  <2>2. approvals'[a].status = r
    BY <1>1, <1>4, <2>1 DEF Answered, NoApproval
  <2>3. \A b \in ApprovalID : b # a => approvals'[b] = approvals[b]
    BY <1>1, <2>1
  <2>4. approval' = [approval EXCEPT ![a] = r]
    BY ZenonT(40), <2>2, <2>3 DEF approval
  <2> QED
    BY ZenonT(40), <1>2, <1>4, <2>4 DEF Answered, L!Answer, approval, Resolution
<1> QED
  BY <1>3, <1>4

LEMMA EffectRefines == IInv /\ SerialInvariant /\ SerialEffect => [L!Next]_(L!lifecycle)
<1> SUFFICES ASSUME IInv, SerialInvariant, SerialEffect PROVE [L!Next]_(L!lifecycle)
  OBVIOUS
<1>1. CASE Untouched
  BY <1>1 DEF Untouched, L!lifecycle
<1>2. ASSUME NEW w \in WorkflowID, Created(w) \/ Written(w) \/ Granted(w) \/ Reduced(w)
      PROVE  [L!Next]_(L!lifecycle)
  BY <1>2, CreatedRefines, WrittenRefines, LeaseRefines DEF L!Next
<1>3. ASSUME NEW a \in ApprovalID, Asked(a) \/ Answered(a) PROVE [L!Next]_(L!lifecycle)
  BY <1>3, ApprovalRefines DEF L!Next
<1> QED
  BY <1>1, <1>2, <1>3 DEF SerialEffect

\* One request at a time, the statements of the services, with any failures
\* between them, implement the abstract lifecycle of runs, leases and approval
\* requests: each statement is one of its steps or none.
THEOREM LifecycleImplemented == OneThread => (Spec => ImplementsLifecycle)
<1> SUFFICES ASSUME OneThread PROVE Spec => ImplementsLifecycle
  OBVIOUS
<1>1. Init => L!Init
  <2>1. NoRun.status = "none" /\ NoApproval.status = "none" /\ NoLease = L!NoLease
    BY DEF NoRun, NewWorkflowRun, NoApproval, NoLease, L!NoLease
  <2> QED
    BY <2>1 DEF Init, L!Init
<1>2. IInv /\ SerialInvariant /\ [Next]_vars => [L!Next]_(L!lifecycle)
  BY StepEffect, EffectRefines
<1>3. Spec => []SerialInvariant
  BY SerialInvariance
<1> QED
  BY <1>1, <1>2, <1>3, Invariance, PTL DEF Spec, ImplementsLifecycle, L!Spec

---------------------------------------------------------------------------
\* What has ended stays ended

\* One request at a time, no statement changes a run that was killed, failed,
\* completed or was quarantined.
THEOREM TerminalIsFinalSerially == OneThread => (Spec => TerminalIsFinal)
<1> SUFFICES ASSUME OneThread PROVE Spec => TerminalIsFinal
  OBVIOUS
<1>1. ASSUME IInv, SerialEffect, NEW w \in WorkflowID, wfs[w].status \in TerminalStates
      PROVE  wfs'[w] = wfs[w]
  <2>1. wfs \in [WorkflowID -> Row]
    BY <1>1 DEF IInv, TypeOK
  <2>2. ASSUME NEW v \in WorkflowID, Created(v) \/ Written(v) PROVE wfs'[w] = wfs[w]
    <3>1. v # w
      BY <1>1, <2>2 DEF Created, Written, Advances, TerminalStates
    <3> QED
      BY <2>1, <2>2, <3>1 DEF Created, Written
  <2> QED
    BY <1>1, <2>2 DEF SerialEffect, Untouched, Granted, Reduced, Asked, Answered
<1>2. IInv /\ SerialInvariant /\ [Next]_vars
        => [\A w \in WorkflowID : wfs[w].status \in TerminalStates => wfs'[w] = wfs[w]]_vars
  BY <1>1, StepEffect
<1>3. Spec => []SerialInvariant
  BY SerialInvariance
<1> QED
  BY <1>2, <1>3, Invariance, PTL DEF Spec, TerminalIsFinal

\* One request at a time, no write of a run drops a recorded move.
THEOREM HistoryAppendOnlySerially == OneThread => (Spec => HistoryAppendOnly)
<1> SUFFICES ASSUME OneThread PROVE Spec => HistoryAppendOnly
  OBVIOUS
<1>1. ASSUME IInv, SerialEffect, NEW w \in WorkflowID PROVE Prolongs(wfs[w], wfs'[w])
  <2>1. wfs \in [WorkflowID -> Row]
    BY <1>1 DEF IInv, TypeOK
  <2>2. Prolongs(wfs[w], wfs[w])
    <3>1. wfs[w].transitions \in Seq(WorkflowStatus \X WorkflowStatus)
      BY <2>1 DEF Row
    <3> QED
      BY <3>1 DEF Prolongs
  <2>3. ASSUME NEW v \in WorkflowID, Created(v) PROVE Prolongs(wfs[w], wfs'[w])
    <3>1. PICK row : row.transitions = <<>> /\ wfs' = [wfs EXCEPT ![v] = row]
      BY ZenonT(40), <2>3 DEF Created
    <3>2. CASE v = w
      <4>1. wfs[w].transitions = <<>> /\ wfs'[w].transitions = <<>>
        BY <2>1, <2>3, <3>1, <3>2 DEF Created
      <4> QED
        BY <2>2, <4>1 DEF Prolongs
    <3> QED
      BY <2>1, <2>2, <3>1, <3>2
  <2>4. ASSUME NEW v \in WorkflowID, Written(v) PROVE Prolongs(wfs[w], wfs'[w])
    <3>1. PICK row \in Row : Advances(wfs[v], row) /\ wfs' = [wfs EXCEPT ![v] = row]
      BY ZenonT(40), <2>4 DEF Written
    <3> QED
      BY <2>1, <2>2, <3>1 DEF Advances
  <2> QED
    BY <1>1, <2>2, <2>3, <2>4 DEF SerialEffect, Untouched, Granted, Reduced, Asked, Answered
<1>2. IInv /\ SerialInvariant /\ [Next]_vars =>
        [\A w \in WorkflowID :
           /\ Len(wfs[w].transitions) <= Len(wfs'[w].transitions)
           /\ SubSeq(wfs'[w].transitions, 1, Len(wfs[w].transitions)) = wfs[w].transitions]_vars
  BY <1>1, StepEffect DEF Prolongs
<1>3. Spec => []SerialInvariant
  BY SerialInvariance
<1> QED
  BY <1>2, <1>3, Invariance, PTL DEF Spec, HistoryAppendOnly

\* One request at a time, no statement revives a lease that is exhausted or
\* was revoked.
THEOREM LeaseEndIsFinalSerially == OneThread => (Spec => LeaseEndIsFinal)
<1> SUFFICES ASSUME OneThread PROVE Spec => LeaseEndIsFinal
  OBVIOUS
<1>1. ASSUME IInv, SerialEffect, NEW w \in WorkflowID, leases[w].status \in Ended
      PROVE  leases'[w] = leases[w]
  <2>1. leases \in [WorkflowID -> Lease]
    BY <1>1 DEF IInv, TypeOK
  <2>2. ASSUME NEW v \in WorkflowID, Granted(v) \/ Reduced(v) PROVE leases'[w] = leases[w]
    <3>1. v # w
      BY <1>1, <2>2 DEF Granted, Reduced, NoLease, Ended
    <3> QED
      BY <2>1, <2>2, <3>1 DEF Granted, Reduced
  <2> QED
    BY <1>1, <2>2 DEF SerialEffect, Untouched, Created, Written, Asked, Answered
<1>2. IInv /\ SerialInvariant /\ [Next]_vars
        => [\A w \in WorkflowID : leases[w].status \in Ended => leases'[w] = leases[w]]_vars
  BY <1>1, StepEffect
<1>3. Spec => []SerialInvariant
  BY SerialInvariance
<1> QED
  BY <1>2, <1>3, Invariance, PTL DEF Spec, LeaseEndIsFinal

---------------------------------------------------------------------------
\* The trail follows the lease

\* One request at a time, the trail holds no more attempts than the lease has
\* recorded, so never more than the budget.
THEOREM AttemptsWithinBudgetSerially == OneThread => (Spec => []AttemptsWithinBudget)
<1> SUFFICES ASSUME OneThread PROVE Spec => []AttemptsWithinBudget
  OBVIOUS
<1>1. IInv /\ SerialInvariant => AttemptsWithinBudget
  <2> SUFFICES ASSUME IInv, SerialInvariant, NEW w \in WorkflowID
               PROVE  audit[w]["attempt_registered"] <= MaxAttempts
    BY DEF AttemptsWithinBudget
  <2>1. /\ leases[w] \in Lease /\ SoundLease(leases[w])
        /\ audit[w]["attempt_registered"] <= leases[w].used
    BY DEF IInv, TypeOK, StoreInv, SerialInvariant, SerialStore
  <2>2. leases[w].used \in Nat /\ leases[w].used <= MaxAttempts
    BY <2>1, MaxAttemptsAssumption DEF SoundLease, NoLease, Lease
  <2>3. audit[w]["attempt_registered"] \in Nat
    BY DEF IInv, TypeOK, AuditAction
  <2> QED
    BY <2>1, <2>2, <2>3, MaxAttemptsAssumption
<1>2. Spec => []SerialInvariant
  BY SerialInvariance
<1> QED
  BY <1>1, <1>2, Invariance, PTL

\* One request at a time, a quarantine is audited at most once and only when
\* the lease is exhausted.
THEOREM QuarantineSerially ==
  OneThread => (Spec => [](QuarantineAuditedOnce /\ QuarantineMeansExhausted))
<1> SUFFICES ASSUME OneThread
             PROVE  Spec => [](QuarantineAuditedOnce /\ QuarantineMeansExhausted)
  OBVIOUS
<1>1. IInv /\ SerialInvariant => QuarantineAuditedOnce
  <2> SUFFICES ASSUME IInv, SerialInvariant, NEW w \in WorkflowID
               PROVE  audit[w]["workflow_quarantined"] <= 1
    BY DEF QuarantineAuditedOnce
  <2>1. audit[w]["workflow_quarantined"] \in Nat
    BY DEF IInv, TypeOK, AuditAction
  <2>2. audit[w]["workflow_quarantined"] <= IF wfs[w].status = "quarantined" THEN 1 ELSE 0
    BY DEF SerialInvariant, SerialStore
  <2> QED
    BY <2>1, <2>2
<1>2. SerialInvariant => QuarantineMeansExhausted
  BY DEF SerialInvariant, SerialStore, Earned, QuarantineMeansExhausted
<1>3. Spec => []SerialInvariant
  BY SerialInvariance
<1> QED
  BY <1>1, <1>2, <1>3, Invariance, PTL
=============================================================================

-------------------------- MODULE GovernanceProofs --------------------------
(***************************************************************************)
(* The safety properties of Governance hold for any number of threads,     *)
(* rows, attempts, requests and faults: IInv holds initially, every step   *)
(* keeps it, and it implies each of them.                                  *)
(*                                                                         *)
(* First what the steps share: how the aggregates' operations treat a good *)
(* row, why what a frame relies on is stable, and what is left to show of  *)
(* a single step of one thread.  Then the steps of TaskAdmission, those of *)
(* WorkflowControl, and the properties.                                    *)
(***************************************************************************)
EXTENDS GovernanceInv, TLAPS, FiniteSetTheorems, SequenceTheorems

---------------------------------------------------------------------------
\* The aggregates

\* transitionTo keeps a row well typed.
LEMMA TransitionType ==
  ASSUME NEW row \in Row, NEW target \in WorkflowStatus,
         row.status \in WorkflowStatus
  PROVE  TransitionTo(row, target) \in Row
<1>1. /\ row.transitions \in Seq(WorkflowStatus \X WorkflowStatus)
      /\ <<row.status, target>> \in WorkflowStatus \X WorkflowStatus
  BY DEF Row
<1>2. Append(row.transitions, <<row.status, target>>) \in Seq(WorkflowStatus \X WorkflowStatus)
  BY <1>1, AppendProperties
<1> QED
  BY Zenon, <1>2 DEF Row, TransitionTo

\* A move of the table starts from a stored row, whatever the row is.
LEMMA TableType ==
  ASSUME NEW row, NEW target, CanTransition(row, target), target # "killed"
  PROVE  row.status \in WorkflowStatus /\ target \in WorkflowStatus
BY DEF CanTransition, IsValidTransition, TransitionTable, WorkflowStatus, TerminalStates

\* transitionTo extends a legal history to a legal history.
LEMMA TransitionHistory ==
  ASSUME NEW row \in Row, NEW target \in WorkflowStatus,
         row.status \in WorkflowStatus,
         CanTransition(row, target), IsLegalHistory(row)
  PROVE  IsLegalHistory(TransitionTo(row, target))
<1> DEFINE h == row.transitions
           g == TransitionTo(row, target).transitions
<1>1. /\ h \in Seq(WorkflowStatus \X WorkflowStatus)
      /\ g = Append(h, <<row.status, target>>)
      /\ TransitionTo(row, target).status = target
  BY DEF Row, TransitionTo
<1>2. /\ Len(g) = Len(h) + 1 /\ Len(h) \in Nat
      /\ g[Len(g)] = <<row.status, target>>
      /\ \A i \in 1..Len(h) : g[i] = h[i]
      /\ g # <<>>
  BY <1>1
<1>3. IsValidTransition(row.status, target)
  BY DEF CanTransition
<1>4. \A i \in 1..Len(g) : IsValidTransition(g[i][1], g[i][2])
  <2> SUFFICES ASSUME NEW i \in 1..Len(g)
               PROVE  IsValidTransition(g[i][1], g[i][2])
    OBVIOUS
  <2>1. CASE i \in 1..Len(h)
    BY <2>1, <1>2 DEF IsLegalHistory
  <2>2. CASE i = Len(g)
    BY <2>2, <1>2, <1>3
  <2> QED
    BY <2>1, <2>2, <1>2
<1>5. \A i \in 1..Len(g) : g[i][1] = IF i = 1 THEN "created" ELSE g[i - 1][2]
  <2> SUFFICES ASSUME NEW i \in 1..Len(g)
               PROVE  g[i][1] = IF i = 1 THEN "created" ELSE g[i - 1][2]
    OBVIOUS
  <2>1. CASE i \in 1..Len(h)
    BY <2>1, <1>2 DEF IsLegalHistory
  <2>2. CASE i = Len(h) + 1 /\ h = <<>>
    BY <2>2, <1>2 DEF IsLegalHistory
  <2>3. CASE i = Len(h) + 1 /\ h # <<>>
    <3>1. Len(h) # 0
      BY <2>3, <1>1
    <3>2. g[i - 1] = h[Len(h)] /\ i # 1
      BY <2>3, <3>1, <1>2
    <3> QED
      BY <2>3, <3>2, <1>2 DEF IsLegalHistory
  <2> QED
    BY <2>1, <2>2, <2>3, <1>2
<1> QED
  BY <1>1, <1>2, <1>4, <1>5 DEF IsLegalHistory

\* A new run has the empty history of status created.
LEMMA NewRunHistory ==
  ASSUME NEW k \in TaskID
  PROVE  NewWorkflowRun(k, Nil) \in Row /\ IsLegalHistory(NewWorkflowRun(k, Nil))
BY DEF NewWorkflowRun, Row, IsLegalHistory, WorkflowStatus

---------------------------------------------------------------------------
\* Stability

\* A step that leaves the tables alone keeps what holds of them.
LEMMA StoreUnchanged ==
  ASSUME StoreInv, UNCHANGED store
  PROVE  StoreInv' /\ Grow
<1>1. StoreInv'
  BY DEF StoreInv, store, Exists, Decided, GoodRow, Backed, NoApproval, NoLease, SoundLease
<1>2. Grow
  BY DEF Grow, store
<1> QED
  BY <1>1, <1>2

\* Stored facts outlive a step that only grows the store.
LEMMA FactsStable ==
  ASSUME TypeOK, StoreInv, Grow
  PROVE  /\ \A w : Exists(w) =>
              /\ Exists(w)'
              /\ wfs'[w].task = wfs[w].task
              /\ wfs[w].task \in TaskID
              /\ \A row : GoodRow(w, row) => GoodRow(w, row)'
              /\ \A row : Backed(w, row) => Backed(w, row)'
         /\ \A k : Decided(k, {"require_approval"}) => Decided(k, {"require_approval"})'
<1>2. ASSUME NEW w, Exists(w)
      PROVE  /\ Exists(w)' /\ wfs'[w].task = wfs[w].task /\ wfs[w].task \in TaskID
             /\ leases[w] # NoLease => leases'[w] # NoLease
  BY <1>2 DEF Exists, Grow, StoreInv
<1>3. ASSUME NEW k, NEW outcomes, Decided(k, outcomes), "none" \notin outcomes
      PROVE  Decided(k, outcomes)'
  BY <1>3 DEF Decided, Grow, NoPolicy
<1>5. ASSUME NEW w, NEW row, Exists(w), GoodRow(w, row)
      PROVE  GoodRow(w, row)'
  BY <1>2, <1>5, StoreAssumption DEF GoodRow, Grow, NoPolicy
<1>6. ASSUME NEW w, NEW row, Exists(w), Backed(w, row)
      PROVE  Backed(w, row)'
  BY <1>2, <1>6, StoreAssumption DEF Backed, Exists, Grow, NoApproval
<1> QED
  BY <1>2, <1>3, <1>5, <1>6

\* What a frame relies on outlives a step that only grows the store.
LEMMA FrameStable ==
  ASSUME TypeOK, StoreInv, Grow, NEW f \in Frame, FrameInv(f)
  PROVE  FrameInv(f)'
<1>1. /\ f.task \in TaskID /\ tasks[f.task] # Nil => tasks'[f.task] = tasks[f.task]
      /\ f.id \in RoutingID /\ routings[f.id] # Nil => routings'[f.id] = routings[f.id]
      /\ f.id \in PolicyID /\ policies[f.id] # NoPolicy => policies'[f.id] = policies[f.id]
  BY DEF Grow
<1>2. f.id \in ApprovalID /\ Exists(f.wf) /\ approvals[f.id].wf = f.wf =>
        /\ approvals'[f.id].wf = f.wf
        /\ approvals[f.id].status \in Resolution => approvals'[f.id].status \in Resolution
  BY StoreAssumption DEF Grow, Exists, NoApproval
<1>3. f.pc = "update_lease" => leases'[f.wf] # NoLease
  BY DEF FrameInv, Grow, Exists
<1> QED
  BY <1>1, <1>2, <1>3, FactsStable, StoreAssumption DEF FrameInv, NoPolicy, Outcome

\* The frames of the threads that do not move.
LEMMA OthersStable ==
  ASSUME TypeOK, StoreInv, Grow, NEW u \in Thread, FrameInv(req[u]), req'[u] = req[u]
  PROVE  FrameInv(req[u])'
<1>1. PICK f : f = req[u]
  OBVIOUS
<1>2. f \in Frame /\ FrameInv(f)
  BY <1>1 DEF TypeOK
<1>3. FrameInv(f)'
  BY <1>2, FrameStable
<1> QED
  BY <1>1, <1>3

\* A step that grows the store keeps StoreInv if the rows it changes are good.
LEMMA StoreStep ==
  ASSUME TypeOK, StoreInv, Grow,
         \A w \in WorkflowID : wfs'[w] # wfs[w] =>
           wfs'[w].task \in TaskID /\ GoodRow(w, wfs[w])' /\ Backed(w, wfs[w])',
         \A w \in WorkflowID : leases'[w] # leases[w] =>
           SoundLease(leases'[w]) /\ Exists(w),
         \A a \in ApprovalID : approvals'[a] # approvals[a] =>
           Exists(approvals'[a].wf) /\ Decided(wfs[approvals'[a].wf].task, {"require_approval"})
  PROVE  StoreInv'
<1>1. ASSUME NEW w \in WorkflowID, wfs'[w].status # "none"
      PROVE  wfs'[w].task \in TaskID /\ GoodRow(w, wfs[w])' /\ Backed(w, wfs[w])'
  <2>1. CASE wfs'[w] = wfs[w]
    <3>1. PICK row : row = wfs[w]
      OBVIOUS
    <3>2. Exists(w) /\ GoodRow(w, row) /\ Backed(w, row) /\ wfs[w].task \in TaskID
      BY <1>1, <2>1, <3>1 DEF StoreInv, Exists
    <3>3. GoodRow(w, row)' /\ Backed(w, row)'
      BY <3>2, FactsStable
    <3> QED
      BY <2>1, <3>1, <3>2, <3>3
  <2> QED
    BY <2>1
<1>2. ASSUME NEW w \in WorkflowID
      PROVE  /\ leases'[w] # NoLease => Exists(w)'
             /\ SoundLease(leases'[w])
  BY FactsStable DEF StoreInv
<1>3. ASSUME NEW a \in ApprovalID, approvals'[a] # NoApproval
      PROVE  Exists(approvals[a].wf)' /\ Decided(wfs[approvals[a].wf].task, {"require_approval"})'
  <2>1. PICK w : w = approvals'[a].wf
    OBVIOUS
  <2>2. Exists(w) /\ Decided(wfs[w].task, {"require_approval"})
    BY <1>3, <2>1 DEF StoreInv
  <2>3. PICK k : k = wfs[w].task
    OBVIOUS
  <2>4. Exists(w)' /\ wfs'[w].task = k /\ Decided(k, {"require_approval"})'
    BY <2>2, <2>3, FactsStable
  <2> QED
    BY <2>1, <2>4
<1> QED
  BY <1>1, <1>2, <1>3 DEF StoreInv

---------------------------------------------------------------------------
\* From one step of one thread to the invariant

StoreType ==
  /\ tasks \in [TaskID -> TaskAttr \cup {Nil}]
  /\ routings \in [RoutingID -> TaskID \cup {Nil}]
  /\ policies \in [PolicyID -> [task : TaskID, outcome : Outcome] \cup {NoPolicy}]
  /\ wfs \in [WorkflowID -> Row]
  /\ leases \in [WorkflowID -> Lease]
  /\ approvals \in [ApprovalID ->
       [wf : WorkflowID, status : Resolution \cup {"pending"}] \cup {NoApproval}]

CountType ==
  /\ audit \in [TaskID \cup WorkflowID -> [AuditAction -> Nat]]
  /\ notified \in [WorkflowID -> [Callback -> Nat]]
  /\ issued \in 0..MaxRequests
  /\ faults \in 0..MaxFaults

\* The type invariant, table by table.
LEMMA TypeParts == TypeOK <=> StoreType /\ CountType /\ req \in [Thread -> Frame]
BY DEF TypeOK, StoreType, CountType

\* An idle thread knows nothing, and that is always true.
LEMMA IdleFrame == Idle \in Frame /\ FrameInv(Idle)
<1>1. NoRun \in Row
  <2>1. <<>> \in Seq(WorkflowStatus \X WorkflowStatus)
    OBVIOUS
  <2>2. NoRun = [task |-> Nil, status |-> "none", rd |-> Nil, pd |-> Nil, transitions |-> <<>>]
    BY DEF NoRun, NewWorkflowRun
  <2> QED
    BY <2>1, <2>2 DEF Row
<1>2. NoLease \in Lease /\ SoundLease(NoLease)
  BY DEF NoLease, Lease, SoundLease
<1>3. Idle \in Frame
  BY <1>1, <1>2 DEF Idle, Frame
<1>4. FrameInv(Idle)
  BY <1>2 DEF Idle, FrameInv
<1> QED
  BY <1>3, <1>4

\* A step that grows the store and gives its thread a good frame is inductive.
LEMMA WriteStep ==
  ASSUME IInv, Grow, StoreInv', StoreType', CountType',
         NEW t \in Thread, NEW f \in Frame, req' = [req EXCEPT ![t] = f], FrameInv(f)'
  PROVE  IInv'
<1>1. req' \in [Thread -> Frame]
  BY TypeParts DEF IInv
<1>2. TypeOK'
  BY <1>1 DEF TypeOK, StoreType, CountType
<1>3. ASSUME NEW u \in Thread PROVE FrameInv(req[u])'
  <2>1. CASE u = t
    <3>1. req'[u] = f
      BY <2>1, TypeParts DEF IInv
    <3> QED
      BY <3>1
  <2>2. CASE u # t
    <3>1. req'[u] = req[u]
      BY <2>2, TypeParts DEF IInv
    <3> QED
      BY <3>1, OthersStable DEF IInv
  <2> QED
    BY <2>1, <2>2
<1> QED
  BY <1>2, <1>3 DEF IInv

\* A step that leaves the tables alone needs its new frame to be good only in
\* the state it starts from.
LEMMA ReadStep ==
  ASSUME IInv, UNCHANGED store, CountType',
         NEW t \in Thread, NEW f \in Frame, req' = [req EXCEPT ![t] = f], FrameInv(f)
  PROVE  IInv'
<1>1. StoreInv' /\ Grow
  BY StoreUnchanged DEF IInv
<1>2. StoreType'
  BY TypeParts DEF IInv, StoreType, store
<1>3. FrameInv(f)'
  BY <1>1, FrameStable DEF IInv
<1> QED
  BY Zenon, <1>1, <1>2, <1>3, WriteStep

\* A request that ends, normally or not, and touches no table.
LEMMA ReturnStep ==
  ASSUME IInv, UNCHANGED store, CountType', NEW t \in Thread, Return(t)
  PROVE  IInv'
<1>1. PICK f : f = Idle
  OBVIOUS
<1>2. f \in Frame /\ FrameInv(f)
  BY <1>1, IdleFrame
<1> QED
  BY Zenon, <1>1, <1>2, ReadStep DEF Return

---------------------------------------------------------------------------
\* Rows a request computes from a good copy

\* transitionTo keeps a run's row well-formed and its history a legal path.
LEMMA GoodTransition ==
  ASSUME NEW w, NEW row \in Row, NEW target \in WorkflowStatus,
         GoodRow(w, row), CanTransition(row, target),
         target \notin {"routed", "policy_checked"}
  PROVE  /\ TransitionTo(row, target) \in Row
         /\ GoodRow(w, TransitionTo(row, target))
         /\ TransitionTo(row, target).status = target
         /\ TransitionTo(row, target).task = row.task
<1> DEFINE new == TransitionTo(row, target)
<1>1. row.status \in WorkflowStatus
  BY DEF GoodRow, Row
<1>2. /\ new.status = target /\ new.task = row.task
      /\ new.rd = row.rd /\ new.pd = row.pd
  BY DEF TransitionTo, Row
<1>3. /\ target \notin {"created", "killed"} => row.status \notin {"created", "killed"}
      /\ target \notin {"created", "routed", "killed"} =>
           row.status \notin {"created", "routed", "killed"}
      /\ target # "none"
  BY DEF CanTransition, IsValidTransition, TransitionTable, TerminalStates, WorkflowStatus
<1>4. new \in Row /\ IsLegalHistory(new)
  BY <1>1, TransitionType, TransitionHistory DEF GoodRow
<1> QED
  BY <1>2, <1>3, <1>4 DEF GoodRow

\* MarkRouted gives a well-formed row that names its routing decision.
LEMMA GoodMarkRouted ==
  ASSUME NEW w, NEW row \in Row, NEW d \in RoutingID,
         GoodRow(w, row), CanTransition(row, "routed"), routings[d] = row.task
  PROVE  /\ MarkRouted(row, d) \in Row
         /\ GoodRow(w, MarkRouted(row, d))
         /\ MarkRouted(row, d).status = "routed"
<1> DEFINE moved == TransitionTo(row, "routed")
<1>1. row.status \in WorkflowStatus /\ "routed" \in WorkflowStatus
  BY DEF GoodRow, Row, WorkflowStatus
<1>2. moved \in Row /\ IsLegalHistory(moved)
  BY <1>1, TransitionType, TransitionHistory DEF GoodRow
<1>3. moved.status = "routed" /\ moved.task = row.task
  BY DEF TransitionTo, Row
<1>4. /\ MarkRouted(row, d) = [moved EXCEPT !.rd = d]
      /\ MarkRouted(row, d) \in Row
  BY Zenon, <1>2 DEF MarkRouted, Row
<1>5. IsLegalHistory(MarkRouted(row, d))
  BY <1>2, <1>4 DEF IsLegalHistory, Row
<1> QED
  BY <1>2, <1>3, <1>4, <1>5 DEF GoodRow, Row

\* MarkPolicyChecked gives a well-formed row that names its policy decision.
LEMMA GoodMarkPolicyChecked ==
  ASSUME NEW w, NEW row \in Row, NEW d \in PolicyID,
         GoodRow(w, row), CanTransition(row, "policy_checked"), policies[d].task = row.task
  PROVE  /\ MarkPolicyChecked(row, d) \in Row
         /\ GoodRow(w, MarkPolicyChecked(row, d))
         /\ MarkPolicyChecked(row, d).status = "policy_checked"
<1> DEFINE moved == TransitionTo(row, "policy_checked")
<1>1. row.status \in WorkflowStatus /\ "policy_checked" \in WorkflowStatus
  BY DEF GoodRow, Row, WorkflowStatus
<1>2. moved \in Row /\ IsLegalHistory(moved)
  BY <1>1, TransitionType, TransitionHistory DEF GoodRow
<1>3. moved.status = "policy_checked" /\ moved.task = row.task /\ moved.rd = row.rd
  BY DEF TransitionTo, Row
<1>4. row.status = "routed"
  BY DEF CanTransition, IsValidTransition, TransitionTable
<1>5. /\ MarkPolicyChecked(row, d) = [moved EXCEPT !.pd = d]
      /\ MarkPolicyChecked(row, d) \in Row
  BY Zenon, <1>2 DEF MarkPolicyChecked, Row
<1>6. IsLegalHistory(MarkPolicyChecked(row, d))
  BY <1>2, <1>5 DEF IsLegalHistory, Row
<1> QED
  BY <1>2, <1>3, <1>4, <1>5, <1>6 DEF GoodRow, Row

---------------------------------------------------------------------------
\* The steps that count: audit entries, callbacks, requests, faults

\* One more audit entry.
LEMMA RecordType ==
  ASSUME CountType, NEW subject, NEW action \in AuditAction, Record(subject, action)
  PROVE  audit' \in [TaskID \cup WorkflowID -> [AuditAction -> Nat]]
<1>1. CASE subject \in TaskID \cup WorkflowID
  BY <1>1 DEF Record, CountType
<1>2. CASE subject \notin TaskID \cup WorkflowID
  BY Zenon, <1>2 DEF Record, CountType
<1> QED
  BY <1>1, <1>2

\* One more request.
LEMMA AcceptType ==
  ASSUME CountType, NEW t \in Thread, NEW f, Accept(t, f), UNCHANGED <<audit, notified, faults>>
  PROVE  CountType' /\ req[t] = Idle /\ req' = [req EXCEPT ![t] = f]
BY StoreAssumption DEF CountType, Accept

\* One more fault.
LEMMA FaultType ==
  ASSUME CountType, Fault, UNCHANGED <<audit, notified, issued>>
  PROVE  CountType'
BY StoreAssumption DEF CountType, Fault

---------------------------------------------------------------------------
\* The steps of TaskAdmission

\* SubmitTask's insert of the task row keeps the invariant.
LEMMA SubmitSaveTaskInv ==
  ASSUME IInv, NEW t \in Thread,
         NEW attr \in TaskAttr, NEW task \in TaskID, SubmitSaveTask(t, attr, task)
  PROVE  IInv'
<1>0. StoreType /\ CountType /\ StoreInv
  BY TypeParts DEF IInv
<1>1. PICK f : f = [Idle EXCEPT !.op = "submit", !.pc = "audit_task", !.task = task]
  OBVIOUS
<1>2. f \in Frame /\ FrameInv(f)
  BY Zenon, <1>1, IdleFrame DEF Frame, FrameInv, Idle
<1>3. Grow /\ StoreType'
  BY <1>0 DEF SubmitSaveTask, Grow, StoreType
<1>4. FrameInv(f)'
  BY <1>2, <1>3, FrameStable DEF IInv
<1>5. StoreInv'
  BY <1>0, <1>3, StoreStep DEF IInv, SubmitSaveTask
<1>6. CountType' /\ req' = [req EXCEPT ![t] = f]
  BY <1>0, <1>1, AcceptType DEF SubmitSaveTask
<1> QED
  BY Zenon, <1>2, <1>3, <1>4, <1>5, <1>6, WriteStep

\* SubmitTask's audit entry keeps the invariant.
LEMMA SubmitAuditInv ==
  ASSUME IInv, NEW t \in Thread,
         SubmitAudit(t)
  PROVE  IInv'
<1>0. StoreType /\ CountType /\ StoreInv
  BY TypeParts DEF IInv
<1>1. CountType'
  BY <1>0, RecordType DEF SubmitAudit, CountType, AuditAction
<1> QED
  BY <1>1, ReturnStep DEF SubmitAudit, store

\* RouteTask's insert of the routing decision keeps the invariant.
LEMMA RouteSaveDecisionInv ==
  ASSUME IInv, NEW t \in Thread,
         NEW task \in TaskID, NEW d \in RoutingID, NEW s \in Strategy, RouteSaveDecision(t, task, d, s)
  PROVE  IInv'
<1>0. /\ TypeOK /\ StoreType /\ CountType /\ StoreInv
      /\ req[t] \in Frame /\ FrameInv(req[t])
  BY TypeParts DEF IInv
<1>1. PICK f : f = [Idle EXCEPT !.op = "route", !.pc = "find_wf", !.task = task,
                                !.id = d, !.arg = s]
  OBVIOUS
<1>2. f \in Frame
  BY Zenon, <1>1, IdleFrame DEF Frame
<1>3. Grow /\ StoreType'
  BY <1>0 DEF RouteSaveDecision, Grow, StoreType
<1>4. FrameInv(f)'
  BY <1>0, <1>1, IdleFrame DEF FrameInv, Idle, RouteSaveDecision, StoreType
<1>5. StoreInv'
  BY <1>0, <1>3, StoreStep DEF RouteSaveDecision
<1>6. CountType' /\ req' = [req EXCEPT ![t] = f]
  BY <1>0, <1>1, AcceptType DEF RouteSaveDecision
<1> QED
  BY Zenon, <1>2, <1>3, <1>4, <1>5, <1>6, WriteStep

\* RouteTask taking a copy of an existing run keeps the invariant.
LEMMA RouteFindWorkflowInv ==
  ASSUME IInv, NEW t \in Thread,
         NEW w \in WorkflowID, RouteFindWorkflow(t, w)
  PROVE  IInv'
<1>0. /\ TypeOK /\ StoreType /\ CountType /\ StoreInv
      /\ req[t] \in Frame /\ FrameInv(req[t])
  BY TypeParts DEF IInv
<1>1. CountType' /\ UNCHANGED store
  BY <1>0 DEF RouteFindWorkflow, CountType, store
<1>2. CASE CanTransition(wfs[w], "routed")
  <2>1. PICK f : f = [req[t] EXCEPT !.pc = "update_wf", !.wf = w,
                                    !.row = MarkRouted(wfs[w], req[t].id)]
    OBVIOUS
  <2>2. /\ Exists(w) /\ GoodRow(w, wfs[w]) /\ wfs[w] \in Row
        /\ wfs[w].task = req[t].task
    BY <1>0 DEF RouteFindWorkflow, RunsOf, StoreInv, Exists, StoreType
  <2>3. req[t].id \in RoutingID /\ routings[req[t].id] = req[t].task
    BY <1>0 DEF RouteFindWorkflow, At, FrameInv
  <2>4. /\ MarkRouted(wfs[w], req[t].id) \in Row
        /\ GoodRow(w, MarkRouted(wfs[w], req[t].id))
        /\ MarkRouted(wfs[w], req[t].id).status = "routed"
    BY <1>2, <2>2, <2>3, GoodMarkRouted
  <2>5. f \in Frame
    BY Zenon, <1>0, <2>1, <2>4 DEF Frame
  <2>6. /\ f.op = "route" /\ f.pc = "update_wf" /\ f.wf = w /\ f.task = req[t].task
        /\ f.lease = req[t].lease /\ f.row = MarkRouted(wfs[w], req[t].id)
    BY <1>0, <2>1 DEF Frame, RouteFindWorkflow, At
  <2>7. Backed(f.wf, f.row)
    BY <2>4, <2>6 DEF Backed, Executing
  <2>8. FrameInv(f)
    BY <1>0, <2>2, <2>4, <2>6, <2>7 DEF FrameInv, RouteFindWorkflow, At
  <2>9. req' = [req EXCEPT ![t] = f]
    BY <1>2, <2>1 DEF RouteFindWorkflow, Goto
  <2> QED
    BY Zenon, <1>1, <2>5, <2>8, <2>9, ReadStep
<1>3. CASE ~CanTransition(wfs[w], "routed")
  BY <1>1, <1>3, ReturnStep DEF RouteFindWorkflow
<1> QED
  BY <1>2, <1>3

\* RouteTask finding no run, or failing to look, keeps the invariant.
LEMMA RouteMissWorkflowInv ==
  ASSUME IInv, NEW t \in Thread,
         RouteMissWorkflow(t)
  PROVE  IInv'
<1>0. /\ TypeOK /\ StoreType /\ CountType /\ StoreInv
      /\ req[t] \in Frame /\ FrameInv(req[t])
  BY TypeParts DEF IInv
<1>1. PICK f : f = [req[t] EXCEPT !.pc = "create_wf"]
  BY Zenon
<1>2. f \in Frame /\ FrameInv(f)
  BY <1>0, <1>1 DEF RouteMissWorkflow, At, Frame, FrameInv
<1>3. CountType'
  BY <1>0, FaultType DEF RouteMissWorkflow, CountType
<1> QED
  BY Zenon, <1>1, <1>2, <1>3, ReadStep DEF RouteMissWorkflow, Goto, store

\* RouteTask's insert of a new run keeps the invariant.
LEMMA RouteCreateWorkflowInv ==
  ASSUME IInv, NEW t \in Thread,
         NEW w \in WorkflowID, RouteCreateWorkflow(t, w)
  PROVE  IInv'
<1>0. /\ TypeOK /\ StoreType /\ CountType /\ StoreInv
      /\ req[t] \in Frame /\ FrameInv(req[t])
  BY TypeParts DEF IInv
<1> DEFINE new == NewWorkflowRun(req[t].task, Nil)
           row == MarkRouted(new, req[t].id)
<1>1. PICK f : f = [req[t] EXCEPT !.pc = "update_wf", !.wf = w, !.row = row]
  OBVIOUS
<1>2. /\ req[t].op = "route" /\ req[t].task \in TaskID /\ tasks[req[t].task] # Nil
      /\ req[t].id \in RoutingID /\ routings[req[t].id] = req[t].task
  BY <1>0 DEF RouteCreateWorkflow, At, FrameInv
<1>3. new \in Row /\ IsLegalHistory(new) /\ new.status = "created" /\ new.task = req[t].task
  BY <1>2, NewRunHistory DEF NewWorkflowRun
<1>4. wfs' = [wfs EXCEPT ![w] = new] /\ wfs[w].status = "none"
  BY DEF RouteCreateWorkflow
<1>5. Grow /\ StoreType'
  BY <1>0, <1>3, <1>4 DEF RouteCreateWorkflow, Grow, StoreType
<1>6. wfs'[w] = new
  BY <1>0, <1>4 DEF StoreType
<1>7. PICK n : n = new
  OBVIOUS
<1>8. GoodRow(w, n)' /\ Backed(w, n)'
  BY <1>3, <1>6, <1>7 DEF GoodRow, Backed, Executing
<1>9. StoreInv'
  <2>1. \A v \in WorkflowID : wfs'[v] # wfs[v] => v = w
    BY <1>0, <1>4 DEF StoreType
  <2>2. wfs'[w].task \in TaskID /\ GoodRow(w, wfs[w])' /\ Backed(w, wfs[w])'
    BY <1>2, <1>3, <1>6, <1>7, <1>8
  <2> QED
    BY <1>0, <1>5, <2>1, <2>2, StoreStep DEF RouteCreateWorkflow
<1>10. CanTransition(n, "routed") /\ Exists(w)' /\ routings' = routings
  BY <1>3, <1>6, <1>7 DEF CanTransition, IsValidTransition, TransitionTable,
     TerminalStates, Exists, RouteCreateWorkflow
<1>11. /\ row \in Row /\ row.status = "routed" /\ IsLegalHistory(row)
       /\ row.task = req[t].task /\ row.rd = req[t].id
  <2>1. TransitionTo(new, "routed") \in Row /\ IsLegalHistory(TransitionTo(new, "routed"))
    BY <1>3, <1>7, <1>10, TransitionType, TransitionHistory DEF WorkflowStatus
  <2> QED
    BY Zenon, <1>2, <1>3, <2>1 DEF MarkRouted, TransitionTo, Row, IsLegalHistory
<1>12. f \in Frame
  BY Zenon, <1>0, <1>1, <1>11 DEF Frame
<1>13. /\ f.op = "route" /\ f.pc = "update_wf" /\ f.wf = w /\ f.task = req[t].task
       /\ f.lease = req[t].lease /\ f.row = row
  BY <1>0, <1>1, <1>2 DEF Frame
<1>14. GoodRow(f.wf, f.row)' /\ Backed(f.wf, f.row)'
  BY <1>2, <1>3, <1>6, <1>10, <1>11, <1>13 DEF GoodRow, Backed, Executing
<1>15. FrameInv(f)'
  BY <1>0, <1>2, <1>10, <1>13, <1>14 DEF FrameInv, RouteCreateWorkflow
<1>16. CountType' /\ req' = [req EXCEPT ![t] = f]
  BY <1>0, <1>1 DEF RouteCreateWorkflow, CountType, Goto
<1> QED
  BY Zenon, <1>5, <1>9, <1>12, <1>15, <1>16, WriteStep

\* RouteTask's audit entry keeps the invariant.
LEMMA RouteAuditInv ==
  ASSUME IInv, NEW t \in Thread,
         RouteAudit(t)
  PROVE  IInv'
<1>0. /\ TypeOK /\ StoreType /\ CountType /\ StoreInv
      /\ req[t] \in Frame /\ FrameInv(req[t])
  BY TypeParts DEF IInv
<1>1. CountType' /\ UNCHANGED store
  BY <1>0, RecordType DEF RouteAudit, CountType, AuditAction, store
<1>2. CASE req[t].arg = "decompose"
  <2>1. PICK f : f = [Idle EXCEPT !.op = "route", !.pc = "save_subtask1",
                                  !.task = req[t].task]
    OBVIOUS
  <2>2. f \in Frame /\ FrameInv(f)
    BY Zenon, <1>0, <2>1, IdleFrame DEF RouteAudit, At, Frame, FrameInv, Idle
  <2> QED
    BY <1>1, <1>2, <2>1, <2>2, ReadStep DEF RouteAudit, Goto
<1>3. CASE req[t].arg # "decompose"
  BY <1>1, <1>3, ReturnStep DEF RouteAudit
<1> QED
  BY <1>2, <1>3

\* The insert of a subtask keeps the invariant.
LEMMA RouteSaveSubtaskInv ==
  ASSUME IInv, NEW t \in Thread, NEW sub \in TaskID, RouteSaveSubtask(t, sub)
  PROVE  IInv'
<1>0. /\ TypeOK /\ StoreType /\ CountType /\ StoreInv
      /\ req[t] \in Frame /\ FrameInv(req[t])
  BY TypeParts DEF IInv
<1>1. PICK p : /\ p = IF req[t].pc = "save_subtask1" THEN "audit_subtask1" ELSE "audit_subtask2"
               /\ p \in {"audit_subtask1", "audit_subtask2"}
  OBVIOUS
<1>2. PICK f : f = [req[t] EXCEPT !.pc = p, !.id = sub]
  OBVIOUS
<1>3. f \in Frame
  <2>1. CASE p = "audit_subtask1"
    BY Zenon, <1>0, <1>2, <2>1 DEF Frame
  <2>2. CASE p = "audit_subtask2"
    BY Zenon, <1>0, <1>2, <2>2 DEF Frame
  <2> QED
    BY <1>1, <2>1, <2>2
<1>4. f.op = req[t].op /\ f.task = req[t].task /\ f.lease = req[t].lease /\ f.pc = p
  BY <1>0, <1>2 DEF Frame
<1>5. FrameInv(f)
  <2>1. /\ req[t].op = "route" /\ req[t].task \in TaskID /\ tasks[req[t].task] # Nil
        /\ SoundLease(req[t].lease)
    BY <1>0 DEF RouteSaveSubtask, FrameInv
  <2> QED
    BY <1>1, <1>4, <2>1 DEF FrameInv
<1>6. ChildAttr(tasks[req[t].task]) \in TaskAttr
  BY <1>0, StoreAssumption DEF RouteSaveSubtask, FrameInv, StoreType
<1>7. Grow /\ StoreType'
  BY <1>0, <1>6 DEF RouteSaveSubtask, Grow, StoreType
<1>8. FrameInv(f)' /\ StoreInv'
  BY <1>0, <1>3, <1>5, <1>7, FrameStable, StoreStep, Zenon DEF RouteSaveSubtask
<1>9. CountType' /\ req' = [req EXCEPT ![t] = f]
  BY <1>0, <1>1, <1>2 DEF RouteSaveSubtask, Goto, CountType
<1> QED
  BY <1>3, <1>7, <1>8, <1>9, WriteStep, Zenon

\* The audit entry of a subtask keeps the invariant.
LEMMA RouteAuditSubtaskInv ==
  ASSUME IInv, NEW t \in Thread,
         RouteAuditSubtask(t)
  PROVE  IInv'
<1>0. /\ TypeOK /\ StoreType /\ CountType /\ StoreInv
      /\ req[t] \in Frame /\ FrameInv(req[t])
  BY TypeParts DEF IInv
<1>1. CountType' /\ UNCHANGED store
  BY <1>0, RecordType DEF RouteAuditSubtask, CountType, AuditAction, store
<1>2. CASE req[t].pc = "audit_subtask1"
  <2>1. PICK f : f = [req[t] EXCEPT !.pc = "save_subtask2", !.id = Nil]
    OBVIOUS
  <2>2. f \in Frame /\ FrameInv(f)
    BY Zenon, <1>0, <1>2, <2>1 DEF Frame, FrameInv
  <2> QED
    BY <1>1, <1>2, <2>1, <2>2, ReadStep DEF RouteAuditSubtask, Goto
<1>3. CASE req[t].pc # "audit_subtask1"
  BY <1>1, <1>3, ReturnStep DEF RouteAuditSubtask
<1> QED
  BY <1>2, <1>3

\* EvaluatePolicy's insert of the decision keeps the invariant.
LEMMA PolicySaveDecisionInv ==
  ASSUME IInv, NEW t \in Thread,
         NEW task \in TaskID, NEW a \in PolicyAction, NEW d \in PolicyID, PolicySaveDecision(t, task, a, d)
  PROVE  IInv'
<1>0. /\ TypeOK /\ StoreType /\ CountType /\ StoreInv
      /\ req[t] \in Frame /\ FrameInv(req[t])
  BY TypeParts DEF IInv
<1> DEFINE outcome == PolicyOutcome(tasks[task], a)
<1>1. PICK f : f = [Idle EXCEPT !.op = "policy", !.pc = "find_wf", !.task = task,
                                !.id = d, !.arg = outcome]
  OBVIOUS
<1>2. /\ outcome \in Outcome /\ tasks[task] # Nil
      /\ policies[d] = NoPolicy
      /\ policies' = [policies EXCEPT ![d] = [task |-> task, outcome |-> outcome]]
      /\ UNCHANGED <<tasks, routings, wfs, leases, approvals>>
  BY Zenon, <1>0, StoreAssumption DEF PolicySaveDecision, StoreType
<1>3. f \in Frame
  BY Zenon, <1>1, <1>2, IdleFrame DEF Frame
<1>4. Grow /\ StoreType'
  BY <1>0, <1>2 DEF Grow, StoreType
<1>5. policies'[d].task = task
  BY <1>0, <1>2 DEF StoreType
<1>6. FrameInv(f)'
  BY <1>1, <1>2, <1>5, IdleFrame DEF FrameInv, Idle
<1>7. StoreInv'
  BY <1>0, <1>2, <1>4, StoreStep
<1>8. CountType' /\ req' = [req EXCEPT ![t] = f]
  BY <1>0, <1>1, AcceptType DEF PolicySaveDecision
<1> QED
  BY Zenon, <1>3, <1>4, <1>6, <1>7, <1>8, WriteStep

\* EvaluatePolicy taking a copy of the run keeps the invariant.
LEMMA PolicyFindWorkflowInv ==
  ASSUME IInv, NEW t \in Thread,
         NEW w \in WorkflowID, PolicyFindWorkflow(t, w)
  PROVE  IInv'
<1>0. /\ TypeOK /\ StoreType /\ CountType /\ StoreInv
      /\ req[t] \in Frame /\ FrameInv(req[t])
  BY TypeParts DEF IInv
<1>1. CountType' /\ UNCHANGED store
  BY <1>0 DEF PolicyFindWorkflow, CountType, store
<1>2. CASE CanTransition(wfs[w], "policy_checked")
  <2>1. PICK f : f = [req[t] EXCEPT !.pc = "update_wf", !.wf = w,
                                    !.row = MarkPolicyChecked(wfs[w], req[t].id)]
    OBVIOUS
  <2>2. /\ Exists(w) /\ GoodRow(w, wfs[w]) /\ wfs[w] \in Row
        /\ wfs[w].task = req[t].task
    BY <1>0 DEF PolicyFindWorkflow, RunsOf, StoreInv, Exists, StoreType
  <2>3. req[t].id \in PolicyID /\ policies[req[t].id].task = req[t].task
    BY <1>0 DEF PolicyFindWorkflow, At, FrameInv
  <2>4. /\ MarkPolicyChecked(wfs[w], req[t].id) \in Row
        /\ GoodRow(w, MarkPolicyChecked(wfs[w], req[t].id))
        /\ MarkPolicyChecked(wfs[w], req[t].id).status = "policy_checked"
    BY <1>2, <2>2, <2>3, GoodMarkPolicyChecked
  <2>5. f \in Frame
    BY Zenon, <1>0, <2>1, <2>4 DEF Frame
  <2>6. /\ f.op = "policy" /\ f.pc = "update_wf" /\ f.wf = w /\ f.task = req[t].task
        /\ f.lease = req[t].lease /\ f.row = MarkPolicyChecked(wfs[w], req[t].id)
    BY <1>0, <2>1 DEF Frame, PolicyFindWorkflow, At
  <2>7. Backed(f.wf, f.row)
    BY <2>4, <2>6 DEF Backed, Executing
  <2>8. FrameInv(f)
    BY <1>0, <2>2, <2>4, <2>6, <2>7 DEF FrameInv, PolicyFindWorkflow, At
  <2>9. req' = [req EXCEPT ![t] = f]
    BY <1>2, <2>1 DEF PolicyFindWorkflow, Goto
  <2> QED
    BY Zenon, <1>1, <2>5, <2>8, <2>9, ReadStep
<1>3. CASE ~CanTransition(wfs[w], "policy_checked")
  BY <1>1, <1>3, ReturnStep DEF PolicyFindWorkflow
<1> QED
  BY <1>2, <1>3

\* EvaluatePolicy finding no run keeps the invariant.
LEMMA PolicyMissWorkflowInv ==
  ASSUME IInv, NEW t \in Thread,
         PolicyMissWorkflow(t)
  PROVE  IInv'
<1>0. /\ TypeOK /\ StoreType /\ CountType /\ StoreInv
      /\ req[t] \in Frame /\ FrameInv(req[t])
  BY TypeParts DEF IInv
<1>1. CountType'
  BY <1>0 DEF PolicyMissWorkflow, CountType
<1> QED
  BY <1>1, ReturnStep DEF PolicyMissWorkflow, store

\* EvaluatePolicy's audit entry keeps the invariant.
LEMMA PolicyAuditInv ==
  ASSUME IInv, NEW t \in Thread,
         PolicyAudit(t)
  PROVE  IInv'
<1>0. /\ TypeOK /\ StoreType /\ CountType /\ StoreInv
      /\ req[t] \in Frame /\ FrameInv(req[t])
  BY TypeParts DEF IInv
<1>1. CountType'
  BY <1>0, RecordType DEF PolicyAudit, CountType, AuditAction
<1> QED
  BY <1>1, ReturnStep DEF PolicyAudit, store

---------------------------------------------------------------------------
\* Frames that hold a copy of a run

\* A stored run is a good copy of itself.
LEMMA StoredRow ==
  ASSUME IInv, NEW w \in WorkflowID, wfs[w].status # "none"
  PROVE  /\ Exists(w) /\ wfs[w] \in Row /\ GoodRow(w, wfs[w]) /\ Backed(w, wfs[w])
         /\ wfs[w].task \in TaskID
BY TypeParts DEF IInv, StoreType, StoreInv, Exists

\* All a frame of the four simple operations has to know to write its copy.
LEMMA HoldsRow ==
  ASSUME NEW f \in Frame, f.op \in {"attempt", "pause", "resume", "kill"},
         f.pc \in {"load_lease", "update_wf"},
         Exists(f.wf), GoodRow(f.wf, f.row), Backed(f.wf, f.row), SoundLease(f.lease)
  PROVE  FrameInv(f)
BY DEF FrameInv

\* The same for a frame that also writes a lease.
LEMMA HoldsLease ==
  ASSUME NEW f \in Frame, f.op \in {"attempt", "kill"}, f.pc = "update_lease",
         Exists(f.wf), GoodRow(f.wf, f.row), Backed(f.wf, f.row), SoundLease(f.lease),
         f.lease # NoLease, leases[f.wf] # NoLease
  PROVE  FrameInv(f)
BY DEF FrameInv

---------------------------------------------------------------------------
\* StartWorkflow

\* StartWorkflow holds the policy decision it has read.
LEMMA StartLoadPolicyInv ==
  ASSUME IInv, NEW t \in Thread, NEW task \in TaskID, NEW d \in PolicyID,
         StartLoadPolicy(t, task, d)
  PROVE  IInv'
<1>0. StoreType /\ CountType /\ StoreInv
  BY TypeParts DEF IInv
<1>1. PICK f : f = [Idle EXCEPT !.op = "start", !.pc = "load_wf", !.task = task,
                                !.id = d, !.arg = policies[d].outcome]
  OBVIOUS
<1>3. /\ policies[d] = [task |-> task, outcome |-> policies[d].outcome]
      /\ policies[d].outcome \in Outcome
      /\ tasks[task] # Nil
  <2>1. policies[d].task = task /\ tasks[task] # Nil
    BY DEF StartLoadPolicy, PoliciesOf
  <2>2. policies[d] # NoPolicy
    BY <2>1, StoreAssumption DEF NoPolicy
  <2>3. policies[d] \in [task : TaskID, outcome : Outcome]
    BY <1>0, <2>2 DEF StoreType
  <2> QED
    BY <2>1, <2>3
<1>2. f \in Frame
  BY Zenon, <1>1, <1>3, IdleFrame DEF Frame
<1>4. FrameInv(f)
  BY <1>1, <1>3, IdleFrame DEF FrameInv, Idle
<1>5. CountType' /\ req' = [req EXCEPT ![t] = f] /\ UNCHANGED store
  BY <1>0, <1>1, AcceptType DEF StartLoadPolicy, store
<1> QED
  BY Zenon, <1>2, <1>4, <1>5, ReadStep

\* StartWorkflow moves its copy only along the decision it holds, and goes to
\* write a lease only with the authority for it.
LEMMA StartLoadWorkflowInv ==
  ASSUME IInv, NEW t \in Thread, NEW w \in WorkflowID, StartLoadWorkflow(t, w)
  PROVE  IInv'
<1>0. /\ StoreType /\ CountType /\ StoreInv
      /\ req[t] \in Frame /\ FrameInv(req[t])
  BY TypeParts DEF IInv
<1>1. CountType' /\ UNCHANGED store
  BY <1>0 DEF StartLoadWorkflow, CountType, store
<1> DEFINE target == StartTarget(req[t].arg)
           row == TransitionTo(wfs[w], target)
<1>2. CASE CanTransition(wfs[w], target)
  <2>1. PICK f : f = [req[t] EXCEPT !.pc = StartFirstWrite(req[t].arg), !.wf = w, !.row = row]
    OBVIOUS
  <2>2. /\ wfs[w].status # "none" /\ wfs[w].task = req[t].task
        /\ req[t].op = "start" /\ req[t].pc = "load_wf"
    BY DEF StartLoadWorkflow, At, RunsOf
  <2>3. /\ req[t].id \in PolicyID /\ req[t].arg \in Outcome
        /\ policies[req[t].id] = [task |-> req[t].task, outcome |-> req[t].arg]
        /\ req[t].task \in TaskID /\ tasks[req[t].task] # Nil
        /\ SoundLease(req[t].lease)
    BY <1>0, <2>2 DEF FrameInv
  <2>4. /\ target \in WorkflowStatus /\ target \notin {"routed", "policy_checked"}
        /\ target \in {"failed", "awaiting_approval", "running"}
    BY DEF StartTarget, WorkflowStatus, TerminalStates
  <2>5. /\ row \in Row /\ GoodRow(w, row) /\ row.status = target
        /\ row.task = wfs[w].task /\ Exists(w)
    BY <1>2, <2>2, <2>4, StoredRow, GoodTransition
  <2>6. StartFirstWrite(req[t].arg) \in {"update_wf", "save_approval", "save_lease"}
    BY DEF StartFirstWrite
  <2>7. f \in Frame
    BY Zenon, <1>0, <2>1, <2>5, <2>6 DEF Frame
  <2>8. /\ f.op = "start" /\ f.wf = w /\ f.row = row /\ f.id = req[t].id
        /\ f.arg = req[t].arg /\ f.task = req[t].task /\ f.lease = req[t].lease
        /\ f.pc = StartFirstWrite(req[t].arg)
    BY <1>0, <2>1, <2>2 DEF Frame
  <2>9. FrameInv(f)
    <3>1. CASE req[t].arg = "deny"
      <4>1. f.pc = "update_wf" /\ target = "failed"
        BY <2>8, <3>1 DEF StartFirstWrite, StartTarget
      <4>2. Backed(w, row)
        BY <2>5, <4>1 DEF Backed, Executing
      <4> QED
        BY ZenonT(40), <2>3, <2>5, <2>8, <4>1, <4>2 DEF FrameInv
    <3>2. CASE req[t].arg = "require_approval"
      <4>1. f.pc = "save_approval" /\ target = "awaiting_approval"
        BY <2>8, <3>2 DEF StartFirstWrite, StartTarget
      <4> QED
        BY <2>2, <2>3, <2>5, <2>8, <3>2, <4>1 DEF FrameInv
    <3>3. CASE req[t].arg \in {"allow", "allow_with_constraints"}
      <4>1. f.pc = "save_lease" /\ target = "running"
        BY <2>8, <3>3 DEF StartFirstWrite, StartTarget
      <4> QED
        BY <2>3, <2>5, <2>8, <4>1 DEF FrameInv
    <3> QED
      BY <2>3, <3>1, <3>2, <3>3 DEF Outcome
  <2>10. req' = [req EXCEPT ![t] = f]
    BY <1>2, <2>1 DEF StartLoadWorkflow, Goto
  <2> QED
    BY Zenon, <1>1, <2>7, <2>9, <2>10, ReadStep
<1>3. CASE ~CanTransition(wfs[w], target)
  BY <1>1, <1>3, ReturnStep DEF StartLoadWorkflow
<1> QED
  BY <1>2, <1>3

\* Without a run, StartWorkflow ends.
LEMMA StartMissWorkflowInv ==
  ASSUME IInv, NEW t \in Thread, StartMissWorkflow(t)
  PROVE  IInv'
<1>1. CountType'
  BY TypeParts DEF IInv, StartMissWorkflow, CountType
<1> QED
  BY <1>1, ReturnStep DEF StartMissWorkflow, store

\* The approval request is in place before the status that waits for it.
LEMMA StartSaveApprovalInv ==
  ASSUME IInv, NEW t \in Thread, NEW a \in ApprovalID, StartSaveApproval(t, a)
  PROVE  IInv'
<1>0. /\ TypeOK /\ StoreType /\ CountType /\ StoreInv
      /\ req[t] \in Frame /\ FrameInv(req[t])
  BY TypeParts DEF IInv
<1>1. PICK f : f = [req[t] EXCEPT !.pc = "update_wf"]
  BY Zenon
<1>2. /\ req[t].op = "start" /\ req[t].pc = "save_approval" /\ approvals[a] = NoApproval
      /\ approvals' = [approvals EXCEPT ![a] = [wf |-> req[t].wf, status |-> "pending"]]
      /\ UNCHANGED <<tasks, routings, policies, wfs, leases>>
  BY DEF StartSaveApproval, At
<1>3. /\ Exists(req[t].wf) /\ GoodRow(req[t].wf, req[t].row)
      /\ req[t].row.status = "awaiting_approval" /\ req[t].row.task = req[t].task
      /\ req[t].id \in PolicyID /\ req[t].task \in TaskID /\ tasks[req[t].task] # Nil
      /\ policies[req[t].id] = [task |-> req[t].task, outcome |-> "require_approval"]
      /\ SoundLease(req[t].lease)
  BY <1>0, <1>2 DEF FrameInv
<1>4. req[t].wf \in WorkflowID
  BY <1>3 DEF Exists
<1>5. approvals'[a] = [wf |-> req[t].wf, status |-> "pending"]
  BY <1>0, <1>2 DEF StoreType
<1>6. Grow /\ StoreType'
  BY <1>0, <1>2, <1>4 DEF Grow, StoreType
<1>7. StoreInv'
  <2>1. Decided(wfs[req[t].wf].task, {"require_approval"})
    BY <1>3 DEF Decided, GoodRow
  <2>2. \A b \in ApprovalID : approvals'[b] # approvals[b] => b = a
    BY <1>0, <1>2 DEF StoreType
  <2>3. Exists(approvals'[a].wf) /\ Decided(wfs[approvals'[a].wf].task, {"require_approval"})
    BY <1>3, <1>5, <2>1
  <2> QED
    BY <1>0, <1>2, <1>6, <2>2, <2>3, StoreStep
<1>8. f \in Frame
  BY <1>0, <1>1 DEF Frame
<1>9. /\ f.op = "start" /\ f.pc = "update_wf" /\ f.wf = req[t].wf /\ f.row = req[t].row
      /\ f.task = req[t].task /\ f.lease = req[t].lease
  BY <1>0, <1>1, <1>2 DEF Frame
<1>10. FrameInv(f)'
  <2>1. Exists(f.wf)' /\ GoodRow(f.wf, f.row)'
    BY <1>0, <1>3, <1>6, <1>9, FactsStable
  <2>2. Backed(f.wf, f.row)'
    BY <1>3, <1>5, <1>9 DEF Backed, Executing
  <2> QED
    BY ZenonT(40), <1>2, <1>3, <1>9, <2>1, <2>2 DEF FrameInv
<1>11. CountType' /\ req' = [req EXCEPT ![t] = f]
  BY <1>0, <1>1 DEF StartSaveApproval, CountType, Goto
<1> QED
  BY Zenon, <1>6, <1>7, <1>8, <1>10, <1>11, WriteStep

---------------------------------------------------------------------------
\* RegisterAttempt

\* RegisterAttempt holds the run it has read.
LEMMA AttemptLoadWorkflowInv ==
  ASSUME IInv, NEW t \in Thread, NEW w \in WorkflowID, NEW s \in AttemptStatus,
         AttemptLoadWorkflow(t, w, s)
  PROVE  IInv'
<1>0. CountType
  BY TypeParts DEF IInv
<1>1. PICK f : f = [Idle EXCEPT !.op = "attempt", !.pc = "load_lease", !.wf = w,
                                !.row = wfs[w], !.arg = s]
  OBVIOUS
<1>2. wfs[w].status # "none"
  BY DEF AttemptLoadWorkflow, WorkflowStatus, TerminalStates
<1>3. f \in Frame
  BY Zenon, <1>1, <1>2, StoredRow, IdleFrame DEF Frame
<1>4. /\ f.op = "attempt" /\ f.pc = "load_lease" /\ f.wf = w /\ f.row = wfs[w]
      /\ SoundLease(f.lease)
  BY <1>1, IdleFrame DEF Idle, FrameInv
<1>5. FrameInv(f)
  BY <1>2, <1>3, <1>4, StoredRow, HoldsRow
<1>6. CountType' /\ req' = [req EXCEPT ![t] = f] /\ UNCHANGED store
  BY <1>0, <1>1, AcceptType DEF AttemptLoadWorkflow, store
<1> QED
  BY Zenon, <1>3, <1>5, <1>6, ReadStep

\* A recorded attempt keeps a sound lease sound.
LEMMA RecordSound ==
  ASSUME NEW l \in Lease, SoundLease(l), l.status = "active"
  PROVE  /\ RecordAttempt(l) \in Lease /\ SoundLease(RecordAttempt(l))
         /\ RecordAttempt(l) # NoLease
BY MaxAttemptsAssumption DEF RecordAttempt, SoundLease, Lease, LeaseStatus, NoLease

\* The attempt is recorded on an existing lease, so its run may end executed.
LEMMA AttemptLoadLeaseInv ==
  ASSUME IInv, NEW t \in Thread, AttemptLoadLease(t)
  PROVE  IInv'
<1>0. /\ StoreType /\ CountType /\ StoreInv
      /\ req[t] \in Frame /\ FrameInv(req[t])
  BY TypeParts DEF IInv
<1>1. CountType' /\ UNCHANGED store
  BY <1>0 DEF AttemptLoadLease, CountType, store
<1> DEFINE w == req[t].wf
           lease == RecordAttempt(leases[w])
           row == req[t].row
           target == AttemptTarget(req[t].arg, lease, row)
           recorded == [req[t] EXCEPT !.pc = "update_lease", !.lease = lease]
<1>2. /\ req[t].op = "attempt" /\ req[t].pc = "load_lease"
      /\ Exists(w) /\ GoodRow(w, row) /\ Backed(w, row)
  BY <1>0 DEF AttemptLoadLease, At, FrameInv
<1>3. w \in WorkflowID /\ row \in Row
  BY <1>0, <1>2 DEF Exists, Frame
<1>4. CASE leases[w].status = "active"
  <2>1. /\ lease \in Lease /\ SoundLease(lease) /\ lease # NoLease
        /\ leases[w] # NoLease
    BY <1>0, <1>3, <1>4, RecordSound DEF StoreType, StoreInv, NoLease
  <2>2. ASSUME NEW r \in Row, GoodRow(w, r), Backed(w, r),
               req' = [req EXCEPT ![t] = [recorded EXCEPT !.row = r]]
        PROVE  IInv'
    <3>1. PICK f : f = [recorded EXCEPT !.row = r]
      OBVIOUS
    <3>2. f \in Frame
      BY Zenon, <1>0, <2>1, <3>1 DEF Frame
    <3>3. /\ f.op = "attempt" /\ f.pc = "update_lease" /\ f.wf = w /\ f.row = r
          /\ f.lease = lease
      BY <1>0, <1>2, <3>1 DEF Frame
    <3>4. FrameInv(f)
      BY <1>2, <2>1, <2>2, <3>2, <3>3, HoldsLease
    <3> QED
      BY Zenon, <1>1, <2>2, <3>1, <3>2, <3>4, ReadStep
  <2>3. CASE target = row.status
    <3>1. req' = [req EXCEPT ![t] = recorded]
      BY <1>4, <2>3 DEF AttemptLoadLease, CanRecordAttempt, Goto
    <3>2. recorded = [recorded EXCEPT !.row = row]
      BY Zenon, <1>0 DEF Frame
    <3> QED
      BY Zenon, <1>2, <1>3, <2>2, <3>1, <3>2
  <2>4. CASE target # row.status /\ CanTransition(row, target)
    <3>1. req' = [req EXCEPT ![t] = [recorded EXCEPT !.row = TransitionTo(row, target)]]
      BY <1>4, <2>4 DEF AttemptLoadLease, CanRecordAttempt, Goto
    <3>2. target \in {"completed", "quarantined"}
      BY <2>4 DEF AttemptTarget
    <3>3. /\ TransitionTo(row, target) \in Row /\ GoodRow(w, TransitionTo(row, target))
          /\ TransitionTo(row, target).status = target
      BY <1>2, <1>3, <2>4, <3>2, GoodTransition DEF WorkflowStatus, TerminalStates
    <3>4. Backed(w, TransitionTo(row, target))
      BY <2>1, <3>2, <3>3 DEF Backed
    <3> QED
      BY Zenon, <2>2, <3>1, <3>3, <3>4
  <2>5. CASE target # row.status /\ ~CanTransition(row, target)
    BY <1>1, <1>4, <2>5, ReturnStep DEF AttemptLoadLease, CanRecordAttempt
  <2> QED
    BY <2>3, <2>4, <2>5
<1>5. CASE leases[w].status # "active"
  BY <1>1, <1>5, ReturnStep DEF AttemptLoadLease, CanRecordAttempt
<1> QED
  BY <1>4, <1>5

---------------------------------------------------------------------------
\* PauseWorkflow, ResumeWorkflow, KillWorkflow

\* PauseWorkflow holds a paused copy; a paused run may have been executing.
LEMMA PauseLoadWorkflowInv ==
  ASSUME IInv, NEW t \in Thread, NEW w \in WorkflowID, PauseLoadWorkflow(t, w)
  PROVE  IInv'
<1>0. CountType
  BY TypeParts DEF IInv
<1>1. PICK row : row = TransitionTo(wfs[w], "paused")
  OBVIOUS
<1>2. PICK f : f = [Idle EXCEPT !.op = "pause", !.pc = "update_wf", !.wf = w, !.row = row]
  OBVIOUS
<1>3. wfs[w].status # "none" /\ CanTransition(wfs[w], "paused")
  BY DEF PauseLoadWorkflow
<1>4. /\ Exists(w) /\ wfs[w] \in Row /\ GoodRow(w, wfs[w]) /\ Backed(w, wfs[w])
  BY <1>3, StoredRow
<1>5. row \in Row /\ GoodRow(w, row) /\ row.status = "paused"
  BY <1>1, <1>3, <1>4, GoodTransition DEF WorkflowStatus
<1>6. wfs[w].status = "running"
  BY <1>3 DEF CanTransition, IsValidTransition, TransitionTable
<1>7. Backed(w, row)
  BY <1>4, <1>5, <1>6 DEF Backed, Executing
<1>8. f \in Frame
  BY Zenon, <1>2, <1>5, IdleFrame DEF Frame
<1>9. /\ f.op = "pause" /\ f.pc = "update_wf" /\ f.wf = w /\ f.row = row
      /\ SoundLease(f.lease)
  BY <1>2, IdleFrame DEF Idle, FrameInv
<1>10. FrameInv(f)
  BY <1>4, <1>5, <1>7, <1>8, <1>9, HoldsRow
<1>11. CountType' /\ req' = [req EXCEPT ![t] = f] /\ UNCHANGED store
  BY <1>0, <1>1, <1>2, AcceptType DEF PauseLoadWorkflow, store
<1> QED
  BY Zenon, <1>8, <1>10, <1>11, ReadStep

\* ResumeWorkflow holds the run it has read.
LEMMA ResumeLoadWorkflowInv ==
  ASSUME IInv, NEW t \in Thread, NEW w \in WorkflowID, ResumeLoadWorkflow(t, w)
  PROVE  IInv'
<1>0. CountType
  BY TypeParts DEF IInv
<1>1. PICK f : f = [Idle EXCEPT !.op = "resume", !.pc = "load_lease", !.wf = w,
                                !.row = wfs[w]]
  OBVIOUS
<1>2. wfs[w].status # "none"
  BY DEF ResumeLoadWorkflow
<1>3. f \in Frame
  BY Zenon, <1>1, <1>2, StoredRow, IdleFrame DEF Frame
<1>4. /\ f.op = "resume" /\ f.pc = "load_lease" /\ f.wf = w /\ f.row = wfs[w]
      /\ SoundLease(f.lease)
  BY <1>1, IdleFrame DEF Idle, FrameInv
<1>5. FrameInv(f)
  BY <1>2, <1>3, <1>4, StoredRow, HoldsRow
<1>6. CountType' /\ req' = [req EXCEPT ![t] = f] /\ UNCHANGED store
  BY <1>0, <1>1, AcceptType DEF ResumeLoadWorkflow, store
<1> QED
  BY Zenon, <1>3, <1>5, <1>6, ReadStep

\* A run is resumed only on a lease with budget, so on a lease.
LEMMA ResumeLoadLeaseInv ==
  ASSUME IInv, NEW t \in Thread, ResumeLoadLease(t)
  PROVE  IInv'
<1>0. /\ StoreType /\ CountType
      /\ req[t] \in Frame /\ FrameInv(req[t])
  BY TypeParts DEF IInv
<1>1. CountType' /\ UNCHANGED store
  BY <1>0 DEF ResumeLoadLease, CountType, store
<1>2. PICK w : w = req[t].wf
  OBVIOUS
<1>3. PICK row : row = TransitionTo(req[t].row, "running")
  OBVIOUS
<1>4. /\ req[t].op = "resume" /\ Exists(w) /\ GoodRow(w, req[t].row)
      /\ req[t].row \in Row /\ SoundLease(req[t].lease)
  BY <1>0, <1>2 DEF ResumeLoadLease, At, FrameInv, Frame
<1>5. CASE HasRetryBudget(leases[w]) /\ CanTransition(req[t].row, "running")
  <2>1. row \in Row /\ GoodRow(w, row) /\ row.status = "running"
    BY <1>3, <1>4, <1>5, GoodTransition DEF WorkflowStatus
  <2>2. leases[w] # NoLease
    BY <1>5 DEF HasRetryBudget, NoLease
  <2>3. Backed(w, row)
    BY <2>1, <2>2 DEF Backed
  <2>4. PICK f : f = [req[t] EXCEPT !.pc = "update_wf", !.row = row]
    OBVIOUS
  <2>5. f \in Frame
    BY Zenon, <1>0, <2>1, <2>4 DEF Frame
  <2>6. /\ f.op = "resume" /\ f.pc = "update_wf" /\ f.wf = w /\ f.row = row
        /\ SoundLease(f.lease)
    BY <1>0, <1>2, <1>4, <2>4 DEF Frame
  <2>7. FrameInv(f)
    BY <1>4, <2>1, <2>3, <2>5, <2>6, HoldsRow
  <2>8. req' = [req EXCEPT ![t] = f]
    BY <1>2, <1>3, <1>5, <2>4 DEF ResumeLoadLease, Goto
  <2> QED
    BY Zenon, <1>1, <2>5, <2>7, <2>8, ReadStep
<1>6. CASE ~(HasRetryBudget(leases[w]) /\ CanTransition(req[t].row, "running"))
  BY <1>1, <1>2, <1>6, ReturnStep DEF ResumeLoadLease
<1> QED
  BY <1>5, <1>6

\* KillWorkflow holds a killed copy, which needs neither lease nor request.
LEMMA KillLoadWorkflowInv ==
  ASSUME IInv, NEW t \in Thread, NEW w \in WorkflowID, KillLoadWorkflow(t, w)
  PROVE  IInv'
<1>0. CountType
  BY TypeParts DEF IInv
<1>1. PICK row : row = TransitionTo(wfs[w], "killed")
  OBVIOUS
<1>2. PICK f : f = [Idle EXCEPT !.op = "kill", !.pc = "load_lease", !.wf = w, !.row = row]
  OBVIOUS
<1>3. wfs[w].status # "none" /\ CanTransition(wfs[w], "killed")
  BY DEF KillLoadWorkflow
<1>4. /\ Exists(w) /\ wfs[w] \in Row /\ GoodRow(w, wfs[w])
  BY <1>3, StoredRow
<1>5. row \in Row /\ GoodRow(w, row) /\ row.status = "killed"
  BY <1>1, <1>3, <1>4, GoodTransition DEF WorkflowStatus, TerminalStates
<1>6. Backed(w, row)
  BY <1>5 DEF Backed, Executing
<1>7. f \in Frame
  BY Zenon, <1>2, <1>5, IdleFrame DEF Frame
<1>8. /\ f.op = "kill" /\ f.pc = "load_lease" /\ f.wf = w /\ f.row = row
      /\ SoundLease(f.lease)
  BY <1>2, IdleFrame DEF Idle, FrameInv
<1>9. FrameInv(f)
  BY <1>4, <1>5, <1>6, <1>7, <1>8, HoldsRow
<1>10. CountType' /\ req' = [req EXCEPT ![t] = f] /\ UNCHANGED store
  BY <1>0, <1>1, <1>2, AcceptType DEF KillLoadWorkflow, store
<1> QED
  BY Zenon, <1>7, <1>9, <1>10, ReadStep

\* KillWorkflow writes a lease only where it has read an active one.
LEMMA KillLoadLeaseInv ==
  ASSUME IInv, NEW t \in Thread, KillLoadLease(t)
  PROVE  IInv'
<1>0. /\ StoreType /\ CountType /\ StoreInv
      /\ req[t] \in Frame /\ FrameInv(req[t])
  BY TypeParts DEF IInv
<1>1. CountType' /\ UNCHANGED store
  BY <1>0 DEF KillLoadLease, CountType, store
<1>2. PICK w : w = req[t].wf
  OBVIOUS
<1>3. /\ req[t].op = "kill" /\ Exists(w) /\ GoodRow(w, req[t].row)
      /\ Backed(w, req[t].row) /\ SoundLease(req[t].lease) /\ w \in WorkflowID
  BY <1>0, <1>2 DEF KillLoadLease, At, FrameInv, Exists
<1>4. CASE leases[w].status = "active"
  <2>1. PICK lease : lease = Revoke(leases[w])
    OBVIOUS
  <2>2. /\ lease \in Lease /\ SoundLease(lease) /\ lease # NoLease /\ leases[w] # NoLease
    BY <1>0, <1>3, <1>4, <2>1 DEF Revoke, StoreType, StoreInv, Lease, LeaseStatus, SoundLease, NoLease
  <2>3. PICK f : f = [req[t] EXCEPT !.pc = "update_lease", !.lease = lease]
    OBVIOUS
  <2>4. f \in Frame
    BY Zenon, <1>0, <2>2, <2>3 DEF Frame
  <2>5. /\ f.op = "kill" /\ f.pc = "update_lease" /\ f.wf = w /\ f.row = req[t].row
        /\ f.lease = lease
    BY <1>0, <1>2, <1>3, <2>3 DEF Frame
  <2>6. FrameInv(f)
    BY <1>3, <2>2, <2>4, <2>5, HoldsLease
  <2>7. req' = [req EXCEPT ![t] = f]
    BY <1>2, <1>4, <2>1, <2>3 DEF KillLoadLease, CanRevoke, Goto
  <2> QED
    BY Zenon, <1>1, <2>4, <2>6, <2>7, ReadStep
<1>5. CASE leases[w].status # "active"
  <2>1. PICK f : f = [req[t] EXCEPT !.pc = "update_wf"]
    BY Zenon
  <2>2. f \in Frame
    BY <1>0, <2>1 DEF Frame
  <2>3. /\ f.op = "kill" /\ f.pc = "update_wf" /\ f.wf = w /\ f.row = req[t].row
        /\ f.lease = req[t].lease
    BY <1>0, <1>2, <1>3, <2>1 DEF Frame
  <2>4. FrameInv(f)
    BY <1>3, <2>2, <2>3, HoldsRow
  <2>5. req' = [req EXCEPT ![t] = f]
    BY <1>2, <1>5, <2>1 DEF KillLoadLease, CanRevoke, Goto
  <2> QED
    BY Zenon, <1>1, <2>2, <2>4, <2>5, ReadStep
<1> QED
  BY <1>4, <1>5

\* A kill that goes on without the lease keeps its copy.
LEMMA KillLeaseFaultInv ==
  ASSUME IInv, NEW t \in Thread, KillLeaseFault(t)
  PROVE  IInv'
<1>0. CountType /\ req[t] \in Frame /\ FrameInv(req[t])
  BY TypeParts DEF IInv
<1>1. CountType' /\ UNCHANGED store
  BY <1>0, FaultType DEF KillLeaseFault, store
<1>2. PICK f : f = [req[t] EXCEPT !.pc = "update_wf", !.lease = NoLease]
  OBVIOUS
<1>3. /\ req[t].op = "kill" /\ Exists(req[t].wf) /\ GoodRow(req[t].wf, req[t].row)
      /\ Backed(req[t].wf, req[t].row)
  BY <1>0 DEF KillLeaseFault, At, FrameInv
<1>4. NoLease \in Lease /\ SoundLease(NoLease)
  BY DEF NoLease, Lease, SoundLease
<1>5. f \in Frame
  BY Zenon, <1>0, <1>2, <1>4 DEF Frame
<1>6. /\ f.op = "kill" /\ f.pc = "update_wf" /\ f.wf = req[t].wf /\ f.row = req[t].row
      /\ f.lease = NoLease
  BY <1>0, <1>2, <1>3 DEF Frame
<1>7. FrameInv(f)
  BY <1>3, <1>4, <1>5, <1>6, HoldsRow
<1>8. req' = [req EXCEPT ![t] = f]
  BY <1>2 DEF KillLeaseFault, Goto
<1> QED
  BY Zenon, <1>1, <1>5, <1>7, <1>8, ReadStep

---------------------------------------------------------------------------
\* ResolveApproval

\* ResolveApproval holds a request it has seen pending.
LEMMA ResolveLoadApprovalInv ==
  ASSUME IInv, NEW t \in Thread, NEW a \in ApprovalID, NEW r \in Resolution,
         ResolveLoadApproval(t, a, r)
  PROVE  IInv'
<1>0. StoreType /\ CountType /\ StoreInv
  BY TypeParts DEF IInv
<1>1. PICK f : f = [Idle EXCEPT !.op = "resolve", !.pc = "update_approval",
                                !.wf = approvals[a].wf, !.id = a, !.arg = r]
  OBVIOUS
<1>2. approvals[a] # NoApproval
  BY DEF ResolveLoadApproval, CanResolve, NoApproval
<1>3. Exists(approvals[a].wf)
  BY <1>0, <1>2 DEF StoreInv
<1>4. approvals[a].wf \in WorkflowID
  BY <1>3 DEF Exists
<1>5. f \in Frame
  BY Zenon, <1>1, <1>4, IdleFrame DEF Frame
<1>6. /\ f.op = "resolve" /\ f.pc = "update_approval" /\ f.wf = approvals[a].wf
      /\ f.id = a /\ f.arg = r /\ SoundLease(f.lease)
  BY <1>1, IdleFrame DEF Idle, FrameInv
<1>7. FrameInv(f)
  BY <1>3, <1>6 DEF FrameInv
<1>8. CountType' /\ req' = [req EXCEPT ![t] = f] /\ UNCHANGED store
  BY <1>0, <1>1, AcceptType DEF ResolveLoadApproval, store
<1> QED
  BY Zenon, <1>5, <1>7, <1>8, ReadStep

\* The resolution is persisted; the request keeps its run.
LEMMA ResolveUpdateApprovalInv ==
  ASSUME IInv, NEW t \in Thread, ResolveUpdateApproval(t)
  PROVE  IInv'
<1>0. /\ TypeOK /\ StoreType /\ CountType /\ StoreInv
      /\ req[t] \in Frame /\ FrameInv(req[t])
  BY TypeParts DEF IInv
<1>1. PICK a : a = req[t].id
  OBVIOUS
<1>2. /\ req[t].op = "resolve" /\ req[t].pc = "update_approval"
      /\ approvals' = [approvals EXCEPT ![a].status = req[t].arg]
      /\ UNCHANGED <<tasks, routings, policies, wfs, leases>>
  BY <1>1 DEF ResolveUpdateApproval, At
<1>3. /\ Exists(req[t].wf) /\ a \in ApprovalID /\ req[t].arg \in Resolution
      /\ approvals[a].wf = req[t].wf /\ SoundLease(req[t].lease)
  BY <1>0, <1>1, <1>2 DEF FrameInv
<1>4. approvals[a] # NoApproval /\ req[t].wf \in WorkflowID
  BY <1>3, StoreAssumption DEF Exists, NoApproval
<1>5. approvals[a] \in [wf : WorkflowID, status : Resolution \cup {"pending"}]
  BY <1>0, <1>3, <1>4 DEF StoreType
<1>6. approvals'[a] = [wf |-> req[t].wf, status |-> req[t].arg]
  BY <1>0, <1>2, <1>3, <1>5 DEF StoreType
<1>7. \A b \in ApprovalID : b # a => approvals'[b] = approvals[b]
  BY <1>0, <1>2 DEF StoreType
<1>8. approvals' = [approvals EXCEPT ![a] = [wf |-> req[t].wf, status |-> req[t].arg]]
  <2>1. [approvals[a] EXCEPT !.status = req[t].arg] = [wf |-> req[t].wf, status |-> req[t].arg]
    BY <1>3, <1>5
  <2>2. approvals' = [approvals EXCEPT ![a] = [approvals[a] EXCEPT !.status = req[t].arg]]
    BY <1>2
  <2> QED
    BY Zenon, <2>1, <2>2
<1>9. StoreType'
  BY <1>0, <1>2, <1>3, <1>4, <1>8 DEF StoreType
<1>10. Grow
  BY <1>2, <1>3, <1>4, <1>6, <1>7 DEF Grow, NoApproval, Resolution
<1>11. StoreInv'
  <2>1. Exists(approvals'[a].wf) /\ Decided(wfs[approvals'[a].wf].task, {"require_approval"})
    BY <1>0, <1>3, <1>4, <1>6 DEF StoreInv
  <2> QED
    BY <1>0, <1>2, <1>7, <1>10, <2>1, StoreStep
<1>12. PICK f : f = [req[t] EXCEPT !.pc = "load_wf"]
  BY Zenon
<1>13. f \in Frame
  BY <1>0, <1>12 DEF Frame
<1>14. /\ f.op = "resolve" /\ f.pc = "load_wf" /\ f.wf = req[t].wf /\ f.id = a
       /\ f.arg = req[t].arg /\ f.lease = req[t].lease
  BY <1>0, <1>1, <1>2, <1>12 DEF Frame
<1>15. FrameInv(f)'
  <2>1. Exists(f.wf)'
    BY <1>0, <1>3, <1>10, <1>14, FactsStable
  <2>2. /\ approvals'[f.id].wf = f.wf /\ approvals'[f.id].status \in Resolution
        /\ f.id \in ApprovalID /\ f.arg \in Resolution /\ SoundLease(f.lease)
    BY <1>3, <1>6, <1>14
  <2> QED
    BY ZenonT(40), <1>14, <2>1, <2>2 DEF FrameInv
<1>16. CountType' /\ req' = [req EXCEPT ![t] = f]
  BY <1>0, <1>12 DEF ResolveUpdateApproval, CountType, Goto
<1> QED
  BY Zenon, <1>9, <1>10, <1>11, <1>13, <1>15, <1>16, WriteStep

\* An approved run is to get its lease, a denied one has failed.
LEMMA ResolveLoadWorkflowInv ==
  ASSUME IInv, NEW t \in Thread, ResolveLoadWorkflow(t)
  PROVE  IInv'
<1>0. /\ StoreType /\ CountType /\ StoreInv
      /\ req[t] \in Frame /\ FrameInv(req[t])
  BY TypeParts DEF IInv
<1>1. CountType' /\ UNCHANGED store
  BY <1>0 DEF ResolveLoadWorkflow, CountType, store
<1>2. PICK w : w = req[t].wf
  OBVIOUS
<1>3. /\ req[t].op = "resolve" /\ Exists(w) /\ req[t].id \in ApprovalID
      /\ req[t].arg \in Resolution /\ approvals[req[t].id].wf = w
      /\ approvals[req[t].id].status \in Resolution /\ SoundLease(req[t].lease)
  BY <1>0, <1>2 DEF ResolveLoadWorkflow, At, FrameInv
<1>4. w \in WorkflowID /\ wfs[w].status # "none"
  BY <1>3 DEF Exists
<1>5. wfs[w] \in Row /\ GoodRow(w, wfs[w])
  BY <1>4, StoredRow
<1>7. CASE req[t].arg = "approved" /\ CanTransition(wfs[w], "approved")
  <2>1. PICK mid : mid = TransitionTo(wfs[w], "approved")
    OBVIOUS
  <2>2. mid \in Row /\ GoodRow(w, mid) /\ mid.status = "approved"
    BY <1>5, <1>7, <2>1, GoodTransition DEF WorkflowStatus
  <2>3. CanTransition(mid, "running")
    BY <2>2 DEF CanTransition, IsValidTransition, TransitionTable, TerminalStates
  <2>4. PICK row : row = TransitionTo(mid, "running")
    OBVIOUS
  <2>5. row \in Row /\ GoodRow(w, row) /\ row.status = "running"
    BY <2>2, <2>3, <2>4, GoodTransition DEF WorkflowStatus
  <2>6. PICK f : f = [req[t] EXCEPT !.pc = "save_lease", !.row = row]
    OBVIOUS
  <2>7. f \in Frame
    BY Zenon, <1>0, <2>5, <2>6 DEF Frame
  <2>8. /\ f.op = "resolve" /\ f.pc = "save_lease" /\ f.wf = w /\ f.row = row
        /\ f.id = req[t].id /\ f.arg = req[t].arg /\ f.lease = req[t].lease
    BY <1>0, <1>2, <1>3, <2>6 DEF Frame
  <2>9. FrameInv(f)
    BY <1>3, <2>5, <2>8 DEF FrameInv
  <2>10. req' = [req EXCEPT ![t] = f]
    BY <1>2, <1>7, <2>1, <2>4, <2>6 DEF ResolveLoadWorkflow, Goto, Resolved
  <2> QED
    BY Zenon, <1>1, <2>7, <2>9, <2>10, ReadStep
<1>8. CASE req[t].arg # "approved" /\ CanTransition(wfs[w], "failed")
  <2>1. PICK row : row = TransitionTo(wfs[w], "failed")
    OBVIOUS
  <2>2. row \in Row /\ GoodRow(w, row) /\ row.status = "failed"
    BY <1>5, <1>8, <2>1, GoodTransition DEF WorkflowStatus, TerminalStates
  <2>3. Backed(w, row)
    BY <2>2 DEF Backed, Executing
  <2>4. PICK f : f = [req[t] EXCEPT !.pc = "update_wf", !.row = row]
    OBVIOUS
  <2>5. f \in Frame
    BY Zenon, <1>0, <2>2, <2>4 DEF Frame
  <2>6. /\ f.op = "resolve" /\ f.pc = "update_wf" /\ f.wf = w /\ f.row = row
        /\ f.id = req[t].id /\ f.arg = req[t].arg /\ f.lease = req[t].lease
    BY <1>0, <1>2, <1>3, <2>4 DEF Frame
  <2>7. FrameInv(f)
    BY <1>3, <2>2, <2>3, <2>6 DEF FrameInv
  <2>8. req' = [req EXCEPT ![t] = f]
    BY <1>2, <1>8, <2>1, <2>4 DEF ResolveLoadWorkflow, Goto, Resolved
  <2> QED
    BY Zenon, <1>1, <2>5, <2>7, <2>8, ReadStep
<1>9. CASE ~CanTransition(wfs[w], IF req[t].arg = "approved" THEN "approved" ELSE "failed")
  BY <1>1, <1>2, <1>9, ReturnStep DEF ResolveLoadWorkflow
<1> QED
  BY <1>7, <1>8, <1>9

---------------------------------------------------------------------------
\* The statements the operations share

\* A lease is inserted for a run that is about to be running.
LEMMA SaveLeaseInv ==
  ASSUME IInv, NEW t \in Thread, SaveLease(t)
  PROVE  IInv'
<1>0. /\ TypeOK /\ StoreType /\ CountType /\ StoreInv
      /\ req[t] \in Frame /\ FrameInv(req[t])
  BY TypeParts DEF IInv
<1>1. PICK g : g = req[t]
  OBVIOUS
<1>2. CountType' /\ g \in Frame /\ FrameInv(g) /\ g.pc = "save_lease"
  BY <1>0, <1>1 DEF SaveLease, CountType
<1>3. /\ Exists(g.wf) /\ GoodRow(g.wf, g.row) /\ g.row.status = "running"
      /\ g.wf \in WorkflowID
  BY <1>2 DEF FrameInv, Exists
<1>4. CASE leases[g.wf] = NoLease
  <2>1. /\ leases' = [leases EXCEPT ![g.wf] = NewExecutionLease]
        /\ req' = [req EXCEPT ![t] = [g EXCEPT !.pc = "update_wf"]]
        /\ UNCHANGED <<tasks, routings, policies, wfs, approvals>>
    BY <1>1, <1>4 DEF SaveLease, Goto
  <2>2. /\ NewExecutionLease \in Lease /\ SoundLease(NewExecutionLease)
        /\ NewExecutionLease # NoLease
    BY MaxAttemptsAssumption DEF NewExecutionLease, Lease, LeaseStatus, SoundLease, NoLease
  <2>3. /\ leases'[g.wf] = NewExecutionLease
        /\ \A w \in WorkflowID : w # g.wf => leases'[w] = leases[w]
        /\ StoreType'
    BY <1>0, <1>3, <2>1, <2>2 DEF StoreType
  <2>4. Grow
    BY <2>1, <2>2, <2>3 DEF Grow
  <2>5. Exists(g.wf)' /\ GoodRow(g.wf, g.row)'
    BY <1>0, <1>3, <2>4, FactsStable
  <2>6. StoreInv'
    BY <1>0, <1>3, <2>1, <2>2, <2>3, <2>4, <2>5, StoreStep
  <2>7. PICK f : f = [g EXCEPT !.pc = "update_wf"]
    BY Zenon
  <2>8. f \in Frame
    BY <1>2, <2>7 DEF Frame
  <2>9. /\ f.op = g.op /\ f.pc = "update_wf" /\ f.wf = g.wf /\ f.row = g.row
        /\ f.id = g.id /\ f.arg = g.arg /\ f.lease = g.lease /\ f.task = g.task
    BY <1>2, <2>7 DEF Frame
  <2>10. Backed(g.wf, g.row)'
    BY <1>3, <2>2, <2>3 DEF Backed
  <2>11. FrameInv(g)'
    BY <1>0, <1>2, <2>4, FrameStable
  <2>12. FrameInv(f)'
    BY ZenonT(40), <1>2, <2>5, <2>9, <2>10, <2>11 DEF FrameInv
  <2> QED
    BY Zenon, <1>2, <2>1, <2>3, <2>4, <2>6, <2>7, <2>8, <2>12, WriteStep
<1>5. CASE leases[g.wf] # NoLease
  BY <1>1, <1>2, <1>5, ReturnStep DEF SaveLease, store
<1> QED
  BY <1>4, <1>5

\* A lease is overwritten by a sound one, where there was one.
LEMMA UpdateLeaseInv ==
  ASSUME IInv, NEW t \in Thread, UpdateLease(t)
  PROVE  IInv'
<1>0. /\ TypeOK /\ StoreType /\ CountType /\ StoreInv
      /\ req[t] \in Frame /\ FrameInv(req[t])
  BY TypeParts DEF IInv
<1>1. PICK g : g = req[t]
  OBVIOUS
<1>2. CountType' /\ g \in Frame /\ FrameInv(g) /\ g.pc = "update_lease"
  BY <1>0, <1>1 DEF UpdateLease, CountType
<1>3. /\ Exists(g.wf) /\ g.lease # NoLease /\ leases[g.wf] # NoLease
      /\ g.wf \in WorkflowID /\ SoundLease(g.lease) /\ g.lease \in Lease
  BY <1>2 DEF FrameInv, Exists, Frame
<1>4. /\ leases' = [leases EXCEPT ![g.wf] = g.lease]
      /\ req' = [req EXCEPT ![t] = [g EXCEPT !.pc = "update_wf", !.lease = NoLease]]
      /\ UNCHANGED <<tasks, routings, policies, wfs, approvals>>
  BY <1>1 DEF UpdateLease, Goto
<1>5. /\ leases'[g.wf] = g.lease
      /\ \A w \in WorkflowID : w # g.wf => leases'[w] = leases[w]
      /\ StoreType'
  BY <1>0, <1>3, <1>4 DEF StoreType
<1>6. Grow
  BY <1>3, <1>4, <1>5 DEF Grow
<1>8. StoreInv'
  BY <1>0, <1>3, <1>4, <1>5, <1>6, StoreStep
<1>9. PICK f : f = [g EXCEPT !.pc = "update_wf", !.lease = NoLease]
  OBVIOUS
<1>10. NoLease \in Lease /\ SoundLease(NoLease)
  BY DEF NoLease, Lease, SoundLease
<1>11. f \in Frame
  BY Zenon, <1>2, <1>9, <1>10 DEF Frame
<1>12. /\ f.op = g.op /\ f.pc = "update_wf" /\ f.wf = g.wf /\ f.row = g.row
       /\ f.id = g.id /\ f.arg = g.arg /\ f.lease = NoLease /\ f.task = g.task
  BY <1>2, <1>9 DEF Frame
<1>13. FrameInv(g)'
  BY <1>0, <1>2, <1>6, FrameStable
<1>14. FrameInv(f)'
  BY ZenonT(40), <1>2, <1>10, <1>12, <1>13 DEF FrameInv
<1> QED
  BY Zenon, <1>2, <1>4, <1>5, <1>6, <1>8, <1>9, <1>11, <1>14, WriteStep

\* The row a request writes back is as good as the one it replaces.
LEMMA UpdateWorkflowInv ==
  ASSUME IInv, NEW t \in Thread, UpdateWorkflow(t)
  PROVE  IInv'
<1>0. /\ TypeOK /\ StoreType /\ CountType /\ StoreInv
      /\ req[t] \in Frame /\ FrameInv(req[t])
  BY TypeParts DEF IInv
<1>1. PICK g : g = req[t]
  OBVIOUS
<1>2. CountType' /\ g \in Frame /\ FrameInv(g) /\ g.pc = "update_wf"
  BY <1>0, <1>1 DEF UpdateWorkflow, CountType
<1>3. /\ Exists(g.wf) /\ GoodRow(g.wf, g.row) /\ Backed(g.wf, g.row)
      /\ g.wf \in WorkflowID /\ g.row \in Row
      /\ g.row.status # "none" /\ g.row.task = wfs[g.wf].task
  BY ZenonT(40), <1>2 DEF FrameInv, Exists, Frame, GoodRow
<1>4. /\ wfs' = [wfs EXCEPT ![g.wf] = g.row]
      /\ req' = [req EXCEPT ![t] = [g EXCEPT !.pc = "finish"]]
      /\ UNCHANGED <<tasks, routings, policies, leases, approvals>>
  BY <1>1 DEF UpdateWorkflow, Goto
<1>5. /\ wfs'[g.wf] = g.row
      /\ \A w \in WorkflowID : w # g.wf => wfs'[w] = wfs[w]
      /\ StoreType'
  BY <1>0, <1>3, <1>4 DEF StoreType
<1>6. Grow
  BY <1>3, <1>4, <1>5 DEF Grow
<1>7. g.row.task \in TaskID /\ GoodRow(g.wf, g.row)' /\ Backed(g.wf, g.row)'
  BY ZenonT(40), <1>0, <1>3, <1>6, FactsStable
<1>8. StoreInv'
  BY <1>0, <1>4, <1>5, <1>6, <1>7, StoreStep
<1>9. PICK f : f = [g EXCEPT !.pc = "finish"]
  BY Zenon
<1>10. f \in Frame
  BY <1>2, <1>9 DEF Frame
<1>11. /\ f.op = g.op /\ f.pc = "finish" /\ f.wf = g.wf /\ f.row = g.row
       /\ f.id = g.id /\ f.arg = g.arg /\ f.lease = g.lease /\ f.task = g.task
  BY <1>2, <1>9 DEF Frame
<1>12. FrameInv(g)'
  BY ZenonT(40), <1>0, <1>2, <1>6, FrameStable
<1>13. FrameInv(f)'
  BY ZenonT(40), <1>2, <1>11, <1>12 DEF FrameInv
<1> QED
  BY Zenon, <1>2, <1>4, <1>5, <1>6, <1>8, <1>9, <1>10, <1>13, WriteStep

\* What an operation audits and calls back is finite.
LEMMA EffectsFinite ==
  ASSUME NEW frame, NEW lost \in SUBSET (AuditsOf(frame) \cup CallbacksOf(frame))
  PROVE  IsFiniteSet(lost) /\ Cardinality(lost) \in Nat
<1>1. PICK a, b : AuditsOf(frame) \subseteq {a} \cup {b}
  <2>1. \/ AuditsOf(frame) \subseteq {"workflow_started"} \cup {"workflow_paused"}
        \/ AuditsOf(frame) \subseteq {"workflow_resumed"} \cup {"workflow_killed"}
        \/ AuditsOf(frame) \subseteq {"attempt_registered"} \cup {"workflow_quarantined"}
        \/ AuditsOf(frame) \subseteq {"approval_resolved"} \cup {"approval_resolved"}
    BY DEF AuditsOf, AttemptAudits
  <2> QED
    BY <2>1
<1>2. PICK c : CallbacksOf(frame) \subseteq {c}
  <2>1. \/ CallbacksOf(frame) \subseteq {"workflow_terminated"}
        \/ CallbacksOf(frame) \subseteq {"approval_required"}
        \/ CallbacksOf(frame) \subseteq {"execution_ready"}
    BY DEF CallbacksOf
  <2> QED
    BY <2>1
<1>3. IsFiniteSet({a}) /\ IsFiniteSet({b}) /\ IsFiniteSet({c})
  BY Zenon, FS_Singleton
<1>4. IsFiniteSet({a} \cup {b})
  BY Zenon, <1>3, FS_Union
<1>5. IsFiniteSet(({a} \cup {b}) \cup {c})
  BY Zenon, <1>3, <1>4, FS_Union
<1>6. lost \subseteq (({a} \cup {b}) \cup {c})
  BY <1>1, <1>2
<1> QED
  BY <1>5, <1>6, FS_Subset, FS_CardinalityType

\* Audit entries and callbacks touch no table.
LEMMA FinishInv ==
  ASSUME IInv, NEW t \in Thread,
         NEW lost \in SUBSET (AuditsOf(req[t]) \cup CallbacksOf(req[t])), Finish(t, lost)
  PROVE  IInv'
<1>0. CountType /\ req[t] \in Frame
  BY TypeParts DEF IInv
<1>1. Cardinality(lost) \in Nat
  BY EffectsFinite
<1>2. faults' \in 0..MaxFaults /\ issued' \in 0..MaxRequests
  BY <1>0, <1>1, StoreAssumption DEF Finish, CountType
<1> DEFINE w == req[t].wf
           recorded(a) == IF a \in AuditsOf(req[t]) \ lost THEN 1 ELSE 0
           called(c) == IF c \in CallbacksOf(req[t]) \ lost THEN 1 ELSE 0
<1>3. w \in WorkflowID
  BY Zenon, TypeParts DEF IInv, FrameInv, Exists, Finish
<1>4. audit' \in [TaskID \cup WorkflowID -> [AuditAction -> Nat]]
  <2>1. [a \in AuditAction |-> audit[w][a] + recorded(a)] \in [AuditAction -> Nat]
    BY <1>0, <1>3 DEF CountType
  <2>2. audit' = [audit EXCEPT ![w] = [a \in AuditAction |-> audit[w][a] + recorded(a)]]
    BY DEF Finish
  <2> QED
    BY Zenon, <1>0, <2>1, <2>2 DEF CountType
<1>5. notified' \in [WorkflowID -> [Callback -> Nat]]
  <2>1. [c \in Callback |-> notified[w][c] + called(c)] \in [Callback -> Nat]
    BY <1>0, <1>3 DEF CountType
  <2>2. notified' = [notified EXCEPT ![w] = [c \in Callback |-> notified[w][c] + called(c)]]
    BY DEF Finish
  <2> QED
    BY Zenon, <1>0, <2>1, <2>2 DEF CountType
<1> QED
  BY <1>2, <1>4, <1>5, ReturnStep DEF Finish, CountType, store

\* A request that is cut short leaves what it has written.
LEMMA AbortInv ==
  ASSUME IInv, NEW t \in Thread, Abort(t)
  PROVE  IInv'
<1>1. CountType'
  BY TypeParts, FaultType DEF IInv, Abort
<1> QED
  BY <1>1, ReturnStep DEF Abort, store

---------------------------------------------------------------------------
\* The invariant and what it implies

\* Empty tables and idle threads satisfy the invariant.
LEMMA InitIInv == Init => IInv
<1> SUFFICES ASSUME Init PROVE IInv
  OBVIOUS
<1>1. NoRun \in Row /\ NoRun.status = "none"
  <2>1. <<>> \in Seq(WorkflowStatus \X WorkflowStatus)
    OBVIOUS
  <2>2. NoRun = [task |-> Nil, status |-> "none", rd |-> Nil, pd |-> Nil, transitions |-> <<>>]
    BY DEF NoRun, NewWorkflowRun
  <2> QED
    BY <2>1, <2>2 DEF Row
<1>2. NoLease \in Lease /\ SoundLease(NoLease)
  BY DEF NoLease, Lease, SoundLease
<1>3. StoreType
  BY <1>1, <1>2 DEF Init, StoreType
<1>4. CountType
  BY StoreAssumption DEF Init, CountType
<1>5. req \in [Thread -> Frame] /\ \A t \in Thread : FrameInv(req[t])
  <2>1. \A t \in Thread : req[t] = Idle
    BY DEF Init
  <2>2. PICK f : f = Idle
    OBVIOUS
  <2>3. f \in Frame /\ FrameInv(f)
    BY <2>2, IdleFrame
  <2>4. req = [t \in Thread |-> f]
    BY <2>2 DEF Init
  <2> QED
    BY <2>3, <2>4
<1>6. StoreInv
  BY <1>1, <1>2 DEF Init, StoreInv
<1> QED
  BY <1>3, <1>4, <1>5, <1>6, TypeParts DEF IInv

\* A step that changes nothing keeps the invariant.
LEMMA StutterIInv ==
  ASSUME IInv, UNCHANGED vars
  PROVE  IInv'
<1>1. StoreInv' /\ Grow
  BY StoreUnchanged DEF IInv, vars, store
<1>2. TypeOK'
  BY DEF IInv, TypeOK, vars
<1>3. \A u \in Thread : FrameInv(req[u])'
  BY <1>1, OthersStable DEF IInv, vars
<1> QED
  BY <1>1, <1>2, <1>3 DEF IInv

\* SubmitTask, RouteTask and EvaluatePolicy keep the invariant.
LEMMA AdmissionIInv ==
  ASSUME IInv, NEW t \in Thread, AdmissionStep(t)
  PROVE  IInv'
<1>1. CASE \E attr \in TaskAttr, task \in TaskID : SubmitSaveTask(t, attr, task)
  BY <1>1, SubmitSaveTaskInv
<1>2. CASE SubmitAudit(t)
  BY <1>2, SubmitAuditInv
<1>3. CASE \E task \in TaskID, d \in RoutingID, s \in Strategy : RouteSaveDecision(t, task, d, s)
  BY <1>3, RouteSaveDecisionInv
<1>4. CASE \E w \in WorkflowID : RouteFindWorkflow(t, w)
  BY <1>4, RouteFindWorkflowInv
<1>5. CASE RouteMissWorkflow(t)
  BY <1>5, RouteMissWorkflowInv
<1>6. CASE \E w \in WorkflowID : RouteCreateWorkflow(t, w)
  BY <1>6, RouteCreateWorkflowInv
<1>7. CASE RouteAudit(t)
  BY <1>7, RouteAuditInv
<1>8. CASE \E sub \in TaskID : RouteSaveSubtask(t, sub)
  BY <1>8, RouteSaveSubtaskInv
<1>9. CASE RouteAuditSubtask(t)
  BY <1>9, RouteAuditSubtaskInv
<1>10. CASE \E task \in TaskID, a \in PolicyAction, d \in PolicyID :
              PolicySaveDecision(t, task, a, d)
  BY <1>10, PolicySaveDecisionInv
<1>11. CASE \E w \in WorkflowID : PolicyFindWorkflow(t, w)
  BY <1>11, PolicyFindWorkflowInv
<1>12. CASE PolicyMissWorkflow(t)
  BY <1>12, PolicyMissWorkflowInv
<1>13. CASE PolicyAudit(t)
  BY <1>13, PolicyAuditInv
<1> QED
  BY <1>1, <1>2, <1>3, <1>4, <1>5, <1>6, <1>7, <1>8, <1>9, <1>10, <1>11, <1>12, <1>13
     DEF AdmissionStep

\* StartWorkflow, RegisterAttempt, Pause, Resume, Kill and ResolveApproval keep
\* the invariant up to their shared statements.
LEMMA ControlIInv ==
  ASSUME IInv, NEW t \in Thread, ControlStep(t)
  PROVE  IInv'
<1>1. CASE \E task \in TaskID, d \in PolicyID : StartLoadPolicy(t, task, d)
  BY <1>1, StartLoadPolicyInv
<1>2. CASE \E w \in WorkflowID : StartLoadWorkflow(t, w)
  BY <1>2, StartLoadWorkflowInv
<1>3. CASE StartMissWorkflow(t)
  BY <1>3, StartMissWorkflowInv
<1>4. CASE \E a \in ApprovalID : StartSaveApproval(t, a)
  BY <1>4, StartSaveApprovalInv
<1>5. CASE \E w \in WorkflowID, s \in AttemptStatus : AttemptLoadWorkflow(t, w, s)
  BY <1>5, AttemptLoadWorkflowInv
<1>6. CASE AttemptLoadLease(t)
  BY <1>6, AttemptLoadLeaseInv
<1>7. CASE \E w \in WorkflowID : PauseLoadWorkflow(t, w)
  BY <1>7, PauseLoadWorkflowInv
<1>8. CASE \E w \in WorkflowID : ResumeLoadWorkflow(t, w)
  BY <1>8, ResumeLoadWorkflowInv
<1>9. CASE ResumeLoadLease(t)
  BY <1>9, ResumeLoadLeaseInv
<1>10. CASE \E w \in WorkflowID : KillLoadWorkflow(t, w)
  BY <1>10, KillLoadWorkflowInv
<1>11. CASE KillLoadLease(t)
  BY <1>11, KillLoadLeaseInv
<1>12. CASE KillLeaseFault(t)
  BY <1>12, KillLeaseFaultInv
<1>13. CASE \E a \in ApprovalID, r \in Resolution : ResolveLoadApproval(t, a, r)
  BY <1>13, ResolveLoadApprovalInv
<1>14. CASE ResolveUpdateApproval(t)
  BY <1>14, ResolveUpdateApprovalInv
<1>15. CASE ResolveLoadWorkflow(t)
  BY <1>15, ResolveLoadWorkflowInv
<1> QED
  BY <1>1, <1>2, <1>3, <1>4, <1>5, <1>6, <1>7, <1>8, <1>9, <1>10, <1>11, <1>12, <1>13,
     <1>14, <1>15 DEF ControlStep

\* The shared statements keep the invariant, and so does an aborted request.
LEMMA SharedIInv ==
  ASSUME IInv, NEW t \in Thread, SharedStep(t)
  PROVE  IInv'
<1>1. CASE SaveLease(t)
  BY <1>1, SaveLeaseInv
<1>2. CASE UpdateLease(t)
  BY <1>2, UpdateLeaseInv
<1>3. CASE UpdateWorkflow(t)
  BY <1>3, UpdateWorkflowInv
<1>4. CASE \E lost \in SUBSET (AuditsOf(req[t]) \cup CallbacksOf(req[t])) : Finish(t, lost)
  BY <1>4, FinishInv
<1>5. CASE Abort(t)
  BY <1>5, AbortInv
<1> QED
  BY <1>1, <1>2, <1>3, <1>4, <1>5 DEF SharedStep

---------------------------------------------------------------------------

\* The invariant is inductive.
THEOREM Invariance == Spec => []IInv
<1>1. Init => IInv
  BY InitIInv
<1>2. IInv /\ [Next]_vars => IInv'
  <2> SUFFICES ASSUME IInv, [Next]_vars PROVE IInv'
    OBVIOUS
  <2>1. CASE Next
    <3>1. PICK t \in Thread : AdmissionStep(t) \/ ControlStep(t) \/ SharedStep(t)
      BY <2>1 DEF Next
    <3>2. CASE AdmissionStep(t)
      BY <3>2, AdmissionIInv
    <3>3. CASE ControlStep(t)
      BY <3>3, ControlIInv
    <3>4. CASE SharedStep(t)
      BY <3>4, SharedIInv
    <3> QED
      BY <3>1, <3>2, <3>3, <3>4
  <2>2. CASE UNCHANGED vars
    BY <2>2, StutterIInv
  <2> QED
    BY <2>1, <2>2
<1> QED
  BY <1>1, <1>2, PTL DEF Spec

\* Tables and frames keep their types.
THEOREM TypeCorrect == Spec => []TypeOK
<1>1. IInv => TypeOK
  BY DEF IInv
<1> QED
  BY <1>1, Invariance, PTL

\* No run executes, pauses, completes or is quarantined without a lease row,
\* under any interleaving and wherever requests break off.
THEOREM LeaseBackedAlways == Spec => []LeaseBacked
<1>1. IInv => LeaseBacked
  BY DEF IInv, StoreInv, Backed, LeaseBacked, Executing
<1> QED
  BY <1>1, Invariance, PTL

\* No run waits for approval without an approval request about it.
THEOREM ApprovalBackedAlways == Spec => []ApprovalBacked
<1>1. IInv => ApprovalBacked
  BY DEF IInv, StoreInv, Backed, ApprovalBacked
<1> QED
  BY <1>1, Invariance, PTL

\* No run gets past routing or policy without the stored decision of its task.
THEOREM NoBypassAlways == Spec => []NoBypass
<1>1. IInv => NoBypass
  BY StoreAssumption DEF IInv, StoreInv, GoodRow, NoBypass
<1> QED
  BY <1>1, Invariance, PTL

\* Stored leases stay within their budget and are exhausted exactly at it,
\* although stale copies may overwrite them.
THEOREM LeaseSoundAlways == Spec => []LeaseSound
<1>1. IInv => LeaseSound
  BY DEF IInv, StoreInv, LeaseSound
<1> QED
  BY <1>1, Invariance, PTL

\* The stored history of a run is one path of the status machine, although
\* stale copies may overwrite it.
THEOREM LegalHistoryAlways == Spec => []LegalHistory
<1>1. IInv => LegalHistory
  BY DEF IInv, StoreInv, GoodRow, LegalHistory
<1> QED
  BY <1>1, Invariance, PTL
=============================================================================

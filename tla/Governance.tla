----------------------------- MODULE Governance -----------------------------
(***************************************************************************)
(* The service as a whole: the admission and the control operations over   *)
(* one store, interleaved step by step, and what they keep true.           *)
(***************************************************************************)
EXTENDS TaskAdmission, WorkflowControl

AdmissionStep(t) ==
  \/ \E attr \in TaskAttr, task \in TaskID : SubmitSaveTask(t, attr, task)
  \/ SubmitAudit(t)
  \/ \E task \in TaskID, d \in RoutingID, s \in Strategy : RouteSaveDecision(t, task, d, s)
  \/ \E w \in WorkflowID : RouteFindWorkflow(t, w)
  \/ RouteMissWorkflow(t)
  \/ \E w \in WorkflowID : RouteCreateWorkflow(t, w)
  \/ RouteAudit(t)
  \/ \E sub \in TaskID : RouteSaveSubtask(t, sub)
  \/ RouteAuditSubtask(t)
  \/ \E task \in TaskID, a \in PolicyAction, d \in PolicyID : PolicySaveDecision(t, task, a, d)
  \/ \E w \in WorkflowID : PolicyFindWorkflow(t, w)
  \/ PolicyMissWorkflow(t)
  \/ PolicyAudit(t)

ControlStep(t) ==
  \/ \E task \in TaskID, d \in PolicyID : StartLoadPolicy(t, task, d)
  \/ \E w \in WorkflowID : StartLoadWorkflow(t, w)
  \/ StartMissWorkflow(t)
  \/ \E a \in ApprovalID : StartSaveApproval(t, a)
  \/ \E w \in WorkflowID, s \in AttemptStatus : AttemptLoadWorkflow(t, w, s)
  \/ AttemptLoadLease(t)
  \/ \E w \in WorkflowID : PauseLoadWorkflow(t, w)
  \/ \E w \in WorkflowID : ResumeLoadWorkflow(t, w)
  \/ ResumeLoadLease(t)
  \/ \E w \in WorkflowID : KillLoadWorkflow(t, w)
  \/ KillLoadLease(t)
  \/ KillLeaseFault(t)
  \/ \E a \in ApprovalID, r \in Resolution : ResolveLoadApproval(t, a, r)
  \/ ResolveUpdateApproval(t)
  \/ ResolveLoadWorkflow(t)

SharedStep(t) ==
  \/ SaveLease(t)
  \/ UpdateLease(t)
  \/ UpdateWorkflow(t)
  \/ \E lost \in SUBSET (AuditsOf(req[t]) \cup CallbacksOf(req[t])) : Finish(t, lost)
  \/ Abort(t)

Next == \E t \in Thread : AdmissionStep(t) \/ ControlStep(t) \/ SharedStep(t)

Spec == Init /\ [][Next]_vars

---------------------------------------------------------------------------
\* Types

Row ==
  [task : TaskID \cup {Nil}, status : WorkflowStatus \cup {"none"},
   rd : RoutingID \cup {Nil}, pd : PolicyID \cup {Nil},
   transitions : Seq(WorkflowStatus \X WorkflowStatus)]

Lease == [status : LeaseStatus \cup {"none"}, used : Nat]

Frame ==
  [op : {"idle", "submit", "route", "policy", "start", "attempt", "pause",
         "resume", "kill", "resolve"},
   pc : {"idle", "audit_task", "find_wf", "create_wf", "save_subtask1",
         "audit_subtask1", "save_subtask2", "audit_subtask2", "load_wf",
         "load_lease", "save_approval", "update_approval", "save_lease",
         "update_lease", "update_wf", "finish"},
   task : TaskID \cup {Nil}, wf : WorkflowID \cup {Nil}, row : Row, lease : Lease,
   id : TaskID \cup RoutingID \cup PolicyID \cup ApprovalID \cup {Nil},
   arg : Strategy \cup Outcome \cup AttemptStatus \cup Resolution \cup {"none"}]

\* Every table and every frame holds values of the columns' types.
TypeOK ==
  /\ tasks \in [TaskID -> TaskAttr \cup {Nil}]
  /\ routings \in [RoutingID -> TaskID \cup {Nil}]
  /\ policies \in [PolicyID -> [task : TaskID, outcome : Outcome] \cup {NoPolicy}]
  /\ wfs \in [WorkflowID -> Row]
  /\ leases \in [WorkflowID -> Lease]
  /\ approvals \in [ApprovalID ->
       [wf : WorkflowID, status : Resolution \cup {"pending"}] \cup {NoApproval}]
  /\ audit \in [TaskID \cup WorkflowID -> [AuditAction -> Nat]]
  /\ notified \in [WorkflowID -> [Callback -> Nat]]
  /\ req \in [Thread -> Frame]
  /\ issued \in 0..MaxRequests
  /\ faults \in 0..MaxFaults

---------------------------------------------------------------------------
\* What every interleaving, with any faults, keeps true

Executing == {"running", "paused", "completed", "quarantined"}

\* Whatever requests race and wherever they break off, a run that executes,
\* pauses, completed or was quarantined has a row in execution_leases: the
\* services write the lease before the status that needs it.
LeaseBacked ==
  \A w \in WorkflowID : wfs[w].status \in Executing => leases[w] # NoLease

\* A run that waits for approval has an approval request to resolve or
\* resolved: StartWorkflow saves the request before the status.
ApprovalBacked ==
  \A w \in WorkflowID :
    wfs[w].status = "awaiting_approval" => \E a \in ApprovalID : approvals[a].wf = w

\* No bypass: past created a run names a stored routing decision of its task,
\* past routed a stored policy decision of its task.  (A run may be killed
\* before it has either.)
NoBypass ==
  \A w \in WorkflowID :
    /\ wfs[w].status \notin {"none", "created", "killed"} =>
         wfs[w].rd # Nil /\ routings[wfs[w].rd] = wfs[w].task
    /\ wfs[w].status \notin {"none", "created", "routed", "killed"} =>
         wfs[w].pd # Nil /\ policies[wfs[w].pd].task = wfs[w].task

SoundLease(lease) ==
  \/ lease = NoLease
  \/ lease.status \in {"active", "revoked"} /\ lease.used < MaxAttempts
  \/ lease.status = "exhausted" /\ lease.used = MaxAttempts

\* A stored lease is exhausted exactly when its attempts are used up, and only
\* a lease with attempts left is revoked, even when stale copies overwrite it.
LeaseSound == \A w \in WorkflowID : SoundLease(leases[w])

\* The stored transitions are one path of the status machine from created to
\* the stored status, even when a stale copy has replaced the row.
LegalHistory ==
  \A w \in WorkflowID : wfs[w].status # "none" => IsLegalHistory(wfs[w])

\* Without faults, a terminal run has been announced to the notifier, or the
\* request that made it terminal is about to.
TerminationAnnounced ==
  faults = 0 =>
    \A w \in WorkflowID : wfs[w].status \in TerminalStates =>
      \/ notified[w]["workflow_terminated"] > 0
      \/ \E t \in Thread : /\ req[t].pc = "finish" /\ req[t].wf = w
                           /\ req[t].row.status \in TerminalStates

\* A run is granted its budget once: a second approver, a second StartWorkflow
\* or a request that writes back an old copy never gives the run a new lease in
\* the place of one that has been used or revoked.
BudgetGrantedOnce ==
  [][\A w \in WorkflowID :
       leases[w] # NoLease /\ leases'[w] # leases[w] => leases'[w] # NewExecutionLease]_vars

---------------------------------------------------------------------------
\* What one request at a time keeps true, faults included, and what racing
\* requests do not

Ended == {"exhausted", "revoked"}

\* Kill, failure, completion and quarantine are final: no later statement
\* changes a row that a request has written with a terminal status.
TerminalIsFinal ==
  [][\A w \in WorkflowID : wfs[w].status \in TerminalStates => wfs'[w] = wfs[w]]_vars

\* Transitions are only ever appended: no write of a run drops recorded moves.
HistoryAppendOnly ==
  [][\A w \in WorkflowID :
       /\ Len(wfs[w].transitions) <= Len(wfs'[w].transitions)
       /\ SubSeq(wfs'[w].transitions, 1, Len(wfs[w].transitions)) = wfs[w].transitions]_vars

\* An exhausted or revoked lease is never active again.
LeaseEndIsFinal ==
  [][\A w \in WorkflowID : leases[w].status \in Ended => leases'[w] = leases[w]]_vars

\* No more attempts are recorded in the audit trail than the budget allows.
AttemptsWithinBudget ==
  \A w \in WorkflowID : audit[w]["attempt_registered"] <= MaxAttempts

\* The dedicated quarantine entry is written at most once per run.
QuarantineAuditedOnce ==
  \A w \in WorkflowID : audit[w]["workflow_quarantined"] <= 1

\* A quarantined run has used up its lease: RegisterAttempt writes the
\* exhausted lease before the status.
QuarantineMeansExhausted ==
  \A w \in WorkflowID : wfs[w].status = "quarantined" => leases[w].status = "exhausted"

Quiet == \A t \in Thread : req[t] = Idle

\* Between requests and without faults, a usable lease belongs to a run that
\* has started and was neither killed nor quarantined: a kill revokes the lease
\* and a grant is followed by running.  (A second StartWorkflow that reads a
\* deny decision fails a running run and leaves its lease active.)
LeaseMatchesRun ==
  Quiet /\ faults = 0 =>
    \A w \in WorkflowID :
      leases[w].status = "active" =>
        wfs[w].status \in {"running", "paused", "completed", "failed"}

\* Between requests and without faults, a run that awaits approval has a
\* pending approval request, and a run with a pending one still awaits it
\* unless a kill or a deny decision has ended the run.
GateMatchesRequest ==
  Quiet /\ faults = 0 =>
    \A w \in WorkflowID :
      /\ wfs[w].status = "awaiting_approval" =>
           \E a \in ApprovalID : approvals[a] = [wf |-> w, status |-> "pending"]
      /\ \A a \in ApprovalID : approvals[a] = [wf |-> w, status |-> "pending"] =>
           wfs[w].status \in {"awaiting_approval", "killed", "failed"}

\* Between requests and without faults, a resolved approval request has left an
\* approval_resolved entry, unless its run has ended: the run is moved after
\* the resolution is stored, and one that was killed refuses.
ResolutionIsAudited ==
  Quiet /\ faults = 0 =>
    \A a \in ApprovalID : approvals[a].status \in Resolution =>
      \/ audit[approvals[a].wf]["approval_resolved"] > 0
      \/ wfs[approvals[a].wf].status \in {"killed", "failed"}

L == INSTANCE Lifecycle WITH
       status <- [w \in WorkflowID |-> wfs[w].status],
       lease <- leases,
       approval <- [a \in ApprovalID |-> approvals[a].status]

\* One request at a time, the service implements the abstract lifecycle, even
\* if requests break off between any two statements.
ImplementsLifecycle == L!Spec

---------------------------------------------------------------------------
\* What documents say of the service

\* "A denied action must not proceed": a run whose policy decision is deny
\* does not execute.
DeniedDoesNotProceed ==
  \A w \in WorkflowID :
    wfs[w].status \in {"running", "paused"} => policies[wfs[w].pd].outcome # "deny"

---------------------------------------------------------------------------
\* Liveness: a request that a thread has begun is carried on

Fairness ==
  \A t \in Thread :
    WF_vars(req[t] # Idle /\ (AdmissionStep(t) \/ ControlStep(t) \/ SharedStep(t)))

FairSpec == Spec /\ Fairness

\* Unless a statement fails, once an approval request is resolved its run
\* leaves the approval gate.
ResolutionReleasesGate ==
  \A a \in ApprovalID, w \in WorkflowID :
    approvals[a].wf = w /\ approvals[a].status \in Resolution
      ~> wfs[w].status # "awaiting_approval" \/ faults > 0

\* Unless a statement fails, a granted lease leads to a run past its gate: the
\* grant is not left behind by the status that goes with it.
LeaseLeadsToExecution ==
  \A w \in WorkflowID :
    leases[w] # NoLease ~> wfs[w].status \in Executing \cup TerminalStates \/ faults > 0
=============================================================================

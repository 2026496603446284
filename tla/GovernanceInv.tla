---------------------------- MODULE GovernanceInv ----------------------------
(***************************************************************************)
(* The inductive invariant behind the safety properties of Governance.     *)
(* The properties speak of stored rows; a request writes rows from copies  *)
(* it has held over other requests' steps, so the invariant also says what *)
(* those copies satisfy at each statement.  All of it is stable: the store *)
(* only gains tasks, decisions, leases and approval requests, so what a    *)
(* copy relies on cannot be taken away from it.                            *)
(***************************************************************************)
EXTENDS Governance

Exists(w) == w \in WorkflowID /\ wfs[w].status # "none"

Decided(task, outcomes) ==
  \E d \in PolicyID : policies[d].task = task /\ policies[d].outcome \in outcomes

\* A version of the row of w that is legal in itself and names real decisions.
GoodRow(w, row) ==
  /\ row.status # "none"
  /\ row.task = wfs[w].task
  /\ row.status \notin {"created", "killed"} =>
       row.rd \in RoutingID /\ routings[row.rd] = row.task
  /\ row.status \notin {"created", "routed", "killed"} =>
       row.pd \in PolicyID /\ policies[row.pd].task = row.task
  /\ IsLegalHistory(row)

\* What the row's status promises about the other tables is there.
Backed(w, row) ==
  /\ row.status \in Executing => leases[w] # NoLease
  /\ row.status = "awaiting_approval" => \E a \in ApprovalID : approvals[a].wf = w

StoreInv ==
  /\ \A w \in WorkflowID :
       /\ wfs[w].status # "none" =>
            /\ wfs[w].task \in TaskID
            /\ GoodRow(w, wfs[w])
            /\ Backed(w, wfs[w])
       /\ leases[w] # NoLease => Exists(w)
       /\ SoundLease(leases[w])
  /\ \A a \in ApprovalID : approvals[a] # NoApproval =>
       Exists(approvals[a].wf) /\ Decided(wfs[approvals[a].wf].task, {"require_approval"})

\* What a frame knows at its statement.
FrameInv(f) ==
  /\ SoundLease(f.lease)
  /\ f.op \in {"route", "policy", "start"} => f.task \in TaskID /\ tasks[f.task] # Nil
  /\ f.pc \in {"find_wf", "create_wf"} =>
       \/ f.op = "route" /\ f.id \in RoutingID /\ routings[f.id] = f.task
       \/ f.op = "policy" /\ f.id \in PolicyID /\ policies[f.id].task = f.task
  /\ f.pc = "create_wf" => f.op = "route"
  /\ f.pc \in {"save_subtask1", "save_subtask2", "audit_subtask1", "audit_subtask2"} =>
       f.op = "route"
  /\ f.op = "start" /\ f.pc \in {"load_wf", "save_approval"} =>
       /\ f.id \in PolicyID
       /\ policies[f.id] = [task |-> f.task, outcome |-> f.arg]
       /\ f.arg \in Outcome
  /\ f.op = "resolve" =>
       /\ Exists(f.wf) /\ f.id \in ApprovalID /\ f.arg \in Resolution
       /\ approvals[f.id].wf = f.wf
       /\ f.pc # "update_approval" => approvals[f.id].status \in Resolution
  /\ f.pc \in {"load_lease", "save_approval", "save_lease", "update_lease",
               "update_wf", "finish"} => Exists(f.wf) /\ GoodRow(f.wf, f.row)
  /\ f.pc \in {"load_lease", "update_lease", "update_wf", "finish"} => Backed(f.wf, f.row)
  /\ f.pc = "save_approval" =>
       f.op = "start" /\ f.row.status = "awaiting_approval" /\ f.row.task = f.task
         /\ f.arg = "require_approval"
  /\ f.pc = "save_lease" => f.row.status = "running"
  /\ f.pc = "update_lease" => f.lease # NoLease /\ leases[f.wf] # NoLease

\* How the store may change: rows are added and changed, never taken away, and
\* the facts frames rely on stay.
Grow ==
  /\ \A k \in TaskID : tasks[k] # Nil => tasks'[k] = tasks[k]
  /\ \A d \in RoutingID : routings[d] # Nil => routings'[d] = routings[d]
  /\ \A d \in PolicyID : policies[d] # NoPolicy => policies'[d] = policies[d]
  /\ \A w \in WorkflowID :
       /\ wfs[w].status # "none" => wfs'[w].status # "none" /\ wfs'[w].task = wfs[w].task
       /\ leases[w] # NoLease => leases'[w] # NoLease
  /\ \A a \in ApprovalID : approvals[a] # NoApproval =>
       /\ approvals'[a] # NoApproval
       /\ approvals'[a].wf = approvals[a].wf
       /\ approvals[a].status \in Resolution => approvals'[a].status \in Resolution

store == <<tasks, routings, policies, wfs, leases, approvals>>

\* The inductive invariant.
IInv == TypeOK /\ StoreInv /\ \A t \in Thread : FrameInv(req[t])

---------------------------------------------------------------------------
\* Announcements

\* Routing and policy, which announce nothing, write no terminal status.
SilentFrame(f) ==
  f.op \in {"route", "policy"} /\ f.pc \in {"update_lease", "update_wf", "finish"} =>
    f.row.status \notin TerminalStates

AnnounceInv == TerminationAnnounced /\ \A t \in Thread : SilentFrame(req[t])
=============================================================================

------------------------------ MODULE SerialInv ------------------------------
(***************************************************************************)
(* What is true in addition when requests do not overlap: a copy that a    *)
(* request holds is as the store has it, up to the move the request is     *)
(* about to write.  Requests may still break off between any statements.   *)
(***************************************************************************)
EXTENDS GovernanceInv

OneThread == \A t, u \in Thread : t = u

Prolongs(old, new) ==
  /\ Len(old.transitions) <= Len(new.transitions)
  /\ SubSeq(new.transitions, 1, Len(old.transitions)) = old.transitions

\* What a request may write over a row: the row itself, one move, or the two
\* moves of an approval.
Advances(old, new) ==
  /\ old.status \notin TerminalStates
  /\ \/ new.status = old.status
     \/ IsValidTransition(old.status, new.status)
     \/ old.status = "awaiting_approval" /\ new.status = "running"
  /\ new.status # "approved"
  /\ Prolongs(old, new)

\* The attempts that a status speaks of have been recorded.
Earned(lease, status) ==
  /\ status = "completed" => lease.used > 0
  /\ status = "quarantined" => lease.status = "exhausted"

Fresh(f) ==
  /\ f.pc = "update_approval" => f.op = "resolve" /\ approvals[f.id].status = "pending"
  /\ f.pc = "load_lease" =>
       \/ f.op = "attempt" /\ f.row = wfs[f.wf] /\ f.row.status \notin TerminalStates
       \/ f.op = "resume" /\ f.row = wfs[f.wf]
       \/ f.op = "kill" /\ Advances(wfs[f.wf], f.row)
  /\ f.op = "kill" => f.row.status = "killed"
  /\ f.pc \in {"save_approval", "save_lease", "update_lease", "update_wf"} =>
       Advances(wfs[f.wf], f.row)
  /\ f.pc = "update_lease" =>
       /\ leases[f.wf].status = "active"
       /\ \/ f.op = "attempt" /\ f.lease = RecordAttempt(leases[f.wf])
          \/ f.op = "kill" /\ f.lease = Revoke(leases[f.wf])
       /\ Earned(f.lease, f.row.status)
  /\ f.pc = "update_wf" => Earned(leases[f.wf], f.row.status)
  /\ f.op = "attempt" => f.pc \in {"load_lease", "update_lease", "update_wf", "finish"}
  /\ f.op = "attempt" /\ f.pc \in {"update_wf", "finish"} =>
       audit[f.wf]["attempt_registered"] < leases[f.wf].used
  /\ f.op = "attempt" /\ f.pc = "finish" /\ f.row.status = "quarantined" =>
       wfs[f.wf].status = "quarantined" /\ audit[f.wf]["workflow_quarantined"] = 0

SerialStore ==
  \A w \in WorkflowID :
    /\ wfs[w].status # "approved"
    /\ wfs[w].status = "none" => wfs[w].transitions = <<>>
    /\ Earned(leases[w], wfs[w].status)
    /\ audit[w]["attempt_registered"] <= leases[w].used
    /\ audit[w]["workflow_quarantined"] <= IF wfs[w].status = "quarantined" THEN 1 ELSE 0

\* One request at a time, what each request holds is up to date, no run is
\* stored as approved, and the audit trail and the status follow the lease.
SerialInvariant == SerialStore /\ \A t \in Thread : Fresh(req[t])

---------------------------------------------------------------------------
\* Leases, gates and resolutions while no statement has failed

\* The frame of the only thread.
Current == IF Thread = {} THEN Idle ELSE req[CHOOSE t \in Thread : TRUE]

\* The status of w once a request with frame f has written its row.
Standing(f, w) == IF f.pc = "update_wf" /\ f.wf = w THEN f.row.status ELSE wfs[w].status

Pending(a, w) == approvals[a] = [wf |-> w, status |-> "pending"]

\* f has stored a resolution for w and is not through with the run.
Resolving(f, w) ==
  f.op = "resolve" /\ f.pc \in {"load_wf", "save_lease", "update_wf", "finish"} /\ f.wf = w

\* Leases follow the status that is stored or about to be, a gate has one
\* pending request or is being opened, and a resolution has been audited, is
\* about to be, or came too late.
CalmStore(f) ==
  /\ \A w \in WorkflowID :
       /\ leases[w] # NoLease => Standing(f, w) \in Executing \cup TerminalStates
       /\ leases[w].status = "active" => Standing(f, w) \notin {"killed", "quarantined"}
       /\ Standing(f, w) = "awaiting_approval" =>
            \/ \E a \in ApprovalID : Pending(a, w)
            \/ Resolving(f, w) /\ f.pc \in {"load_wf", "save_lease"}
       /\ \A a \in ApprovalID : Pending(a, w) =>
            /\ Standing(f, w) \in {"awaiting_approval", "killed", "failed"}
            /\ \A b \in ApprovalID : Pending(b, w) => a = b
  /\ \A a \in ApprovalID : approvals[a].status \in Resolution =>
       \/ audit[approvals[a].wf]["approval_resolved"] > 0
       \/ wfs[approvals[a].wf].status \in {"killed", "failed"}
       \/ Resolving(f, approvals[a].wf)

CalmFrame(f) ==
  /\ f.pc = "save_approval" => wfs[f.wf].status = "policy_checked"
  /\ f.pc = "save_lease" => (wfs[f.wf].status = "awaiting_approval" <=> f.op = "resolve")
  /\ f.op = "attempt" /\ f.pc = "update_lease" =>
       f.row.status \in {wfs[f.wf].status, "completed", "quarantined"}
  /\ Resolving(f, f.wf) =>
       /\ f.pc = "load_wf" => wfs[f.wf].status \in {"awaiting_approval", "killed", "failed"}
       /\ \A a \in ApprovalID : ~Pending(a, f.wf)

CalmInvariant == faults = 0 => CalmStore(Current) /\ CalmFrame(Current)
=============================================================================

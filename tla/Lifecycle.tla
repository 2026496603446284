------------------------------ MODULE Lifecycle ------------------------------
(***************************************************************************)
(* What the service promises a client about one run after another, with no *)
(* trace of requests, frames or partial writes: the status follows the     *)
(* transition table and stops at a terminal one, a lease is granted once,  *)
(* spent attempt by attempt and never revived, execution needs a lease,    *)
(* success needs an attempt, quarantine an exhausted lease, and an         *)
(* approval request is resolved once.                                      *)
(***************************************************************************)
EXTENDS WorkflowRun, ExecutionLease

CONSTANTS WorkflowID, ApprovalID

VARIABLES status, lease, approval

lifecycle == <<status, lease, approval>>

Init ==
  /\ status = [w \in WorkflowID |-> "none"]
  /\ lease = [w \in WorkflowID |-> NoLease]
  /\ approval = [a \in ApprovalID |-> "none"]

Create(w) ==
  /\ status[w] = "none"
  /\ status' = [status EXCEPT ![w] = "created"]
  /\ UNCHANGED <<lease, approval>>

\* The lease a run must have to be in a status.
Permits(l, s) ==
  /\ s \in {"running", "paused", "completed", "quarantined"} => l # NoLease
  /\ s = "completed" => l.used > 0
  /\ s = "quarantined" => l.status = "exhausted"

Move(w, to) ==
  /\ status[w] \in WorkflowStatus \ TerminalStates
  /\ IsValidTransition(status[w], to) \/ <<status[w], to>> = <<"awaiting_approval", "running">>
  /\ Permits(lease[w], to)
  /\ status' = [status EXCEPT ![w] = to]
  /\ UNCHANGED <<lease, approval>>

Grant(w) ==
  /\ status[w] \in {"policy_checked", "awaiting_approval"}
  /\ lease[w] = NoLease
  /\ lease' = [lease EXCEPT ![w] = NewExecutionLease]
  /\ UNCHANGED <<status, approval>>

Spend(w) ==
  /\ status[w] \notin TerminalStates
  /\ lease[w].status = "active"
  /\ lease' = [lease EXCEPT ![w] = RecordAttempt(@)]
  /\ UNCHANGED <<status, approval>>

Withdraw(w) ==
  /\ status[w] \notin TerminalStates
  /\ lease[w].status = "active"
  /\ lease' = [lease EXCEPT ![w] = Revoke(@)]
  /\ UNCHANGED <<status, approval>>

Ask(a) ==
  /\ approval[a] = "none"
  /\ approval' = [approval EXCEPT ![a] = "pending"]
  /\ UNCHANGED <<status, lease>>

Answer(a) ==
  /\ approval[a] = "pending"
  /\ \E r \in {"approved", "denied"} : approval' = [approval EXCEPT ![a] = r]
  /\ UNCHANGED <<status, lease>>

Next ==
  \/ \E w \in WorkflowID :
       \/ Create(w)
       \/ \E to \in WorkflowStatus : Move(w, to)
       \/ Grant(w)
       \/ Spend(w)
       \/ Withdraw(w)
  \/ \E a \in ApprovalID : Ask(a) \/ Answer(a)

Spec == Init /\ [][Next]_lifecycle
=============================================================================

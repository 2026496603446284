------------------------------ MODULE Reporters ------------------------------
(***************************************************************************)
(* The service with a history of who has reported attempts and which       *)
(* approvals have been given, what racing reporters and approvers cannot   *)
(* do, and the invariants behind that.                                     *)
(***************************************************************************)
EXTENDS GovernanceInv

VARIABLES
  reporters, \* threads that have sent RegisterAttempt
  grants     \* requests stored as approved, though maybe overwritten since

historyVars == <<vars, reporters, grants>>

ReporterInit == Init /\ reporters = {} /\ grants = {}

Remember ==
  /\ reporters' = reporters \cup {t \in Thread : req'[t].op = "attempt"}
  /\ grants' = grants \cup {a \in ApprovalID : approvals'[a].status = "approved"}

ReporterNext == Next /\ Remember

ReporterSpec == ReporterInit /\ [][ReporterNext]_historyVars

OneReporter == \A t, u \in reporters : t = u

\* If one client at most reports the attempts, one after the other, then kills,
\* pauses, resumes and approvals that race with it cannot stretch the budget or
\* make a quarantine be audited twice: only RegisterAttempt writes back a lease
\* that is still active.
OneReporterKeepsBudget == OneReporter => AttemptsWithinBudget /\ QuarantineAuditedOnce

\* A lease exists only by the authority of a stored decision about the run's
\* task that allows the action, or that requires an approval which somebody has
\* given.  Of two approvers who answer at the same time the later write stands,
\* but a denial alone, or a request nobody has answered, never starts a run.
LeaseNeedsApproval ==
  \A w \in WorkflowID : leases[w] # NoLease =>
    \E d \in PoliciesOf(wfs[w].task) :
      \/ policies[d].outcome \in {"allow", "allow_with_constraints"}
      \/ /\ policies[d].outcome = "require_approval"
         /\ \E a \in grants : approvals[a].wf = w

---------------------------------------------------------------------------

Reported(w) == audit[w]["attempt_registered"]

Quarantines(w) == audit[w]["workflow_quarantined"]

Unused == {"none", "active"}

\* The attempts in the trail are covered by the stored lease while it can
\* still be used, and by the budget in any case; the quarantine comes after.
BudgetStore ==
  \A w \in WorkflowID :
    /\ leases[w].status = "active" => Reported(w) <= leases[w].used
    /\ leases[w] = NoLease => Reported(w) = 0
    /\ Reported(w) <= MaxAttempts
    /\ leases[w].status \in Unused => Quarantines(w) = 0
    /\ Quarantines(w) <= 1

\* The attempt that a frame is about to add to the trail is covered too, and so
\* is the quarantine.
BudgetFrame(f) ==
  f.op = "attempt" =>
    /\ f.pc \in {"load_lease", "update_lease", "update_wf", "finish"}
    /\ f.pc # "load_lease" => Quarantines(f.wf) = 0
    /\ f.pc = "update_lease" =>
         /\ Reported(f.wf) < f.lease.used
         /\ f.row.status = "quarantined" => f.lease.status \notin Unused
    /\ f.pc \in {"update_wf", "finish"} =>
         /\ leases[f.wf] # NoLease
         /\ leases[f.wf].status = "active" => Reported(f.wf) < leases[f.wf].used
         /\ Reported(f.wf) < MaxAttempts
         /\ f.row.status = "quarantined" => leases[f.wf].status \notin Unused

\* A lease that is written back and not by an attempt is revoked, and an attempt
\* begins with a run that is not quarantined.
SafeFrame(f) ==
  /\ f.pc = "update_lease" /\ f.op # "attempt" => f.op = "kill" /\ f.lease.status = "revoked"
  /\ f.pc = "load_lease" /\ f.op = "attempt" => f.row.status # "quarantined"

BudgetInv ==
  /\ \A t \in Thread : /\ req[t].op = "attempt" => t \in reporters
                       /\ SafeFrame(req[t])
  /\ OneReporter => BudgetStore /\ \A t \in Thread : BudgetFrame(req[t])

---------------------------------------------------------------------------

\* What LeaseNeedsApproval asks for, but for the decision that a request for
\* approval comes from.
Permitted(w) ==
  \/ Decided(wfs[w].task, {"allow", "allow_with_constraints"})
  \/ \E a \in grants : approvals[a].wf = w

\* An approver has stored the approval before anything follows from it, and
\* what is about to grant a lease may do so.
GrantFrame(f) ==
  /\ f.op = "resolve" /\ f.pc # "update_approval" /\ f.arg = "approved" => f.id \in grants
  /\ f.pc = "save_lease" => Permitted(f.wf)

GrantInv ==
  /\ grants \subseteq {a \in ApprovalID : approvals[a] # NoApproval}
  /\ \A w \in WorkflowID : leases[w] # NoLease => Permitted(w)
  /\ \A t \in Thread : GrantFrame(req[t])
=============================================================================

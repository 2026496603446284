--------------------------- MODULE ExecutionLease ---------------------------
(***************************************************************************)
(* The ExecutionLease aggregate (internal/domain/execution): the retry     *)
(* budget of one workflow run.  The timeout budget and the elapsed time    *)
(* are left out: no service writes TimeElapsed or reads TimeoutBudget.     *)
(***************************************************************************)
EXTENDS Naturals

CONSTANT MaxAttempts \* defaultMaxRetries of StartWorkflow and ResolveApproval

\* NewRetryBudget refuses a budget below one.
ASSUME MaxAttemptsAssumption == MaxAttempts \in Nat \ {0}

LeaseStatus == {"active", "exhausted", "revoked"}

NoLease == [status |-> "none", used |-> 0]

NewExecutionLease == [status |-> "active", used |-> 0]

HasRetryBudget(lease) == lease.status = "active" /\ lease.used < MaxAttempts

\* RecordAttempt and Revoke return an error unless the lease is active.
CanRecordAttempt(lease) == lease.status = "active"

\* Mutant: the budget is compared with > instead of >=.
RecordAttemptMutant(lease) ==
  [status |-> IF lease.used + 1 > MaxAttempts THEN "exhausted" ELSE "active",
   used |-> lease.used + 1]

\* RecordAttempt past its error return.
RecordAttempt(lease) ==
  [status |-> IF lease.used + 1 >= MaxAttempts THEN "exhausted" ELSE "active",
   used |-> lease.used + 1]

\* Mutant: an exhausted lease can be revoked too.
CanRevokeMutant(lease) == lease.status \in {"active", "exhausted"}

CanRevoke(lease) == lease.status = "active"

\* Mutant: the status is left as it was.
RevokeMutant(lease) == lease

Revoke(lease) == [lease EXCEPT !.status = "revoked"]
=============================================================================

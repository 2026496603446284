# Formal model of agent-governance-core

TLA+ specifications of the governance service, model-checked with TLC on small
instances, with the safety core proved by TLAPS for every value of the
constants. `PROJECT.json` lists the runs, the mutants, the source lines of every
definition, the findings and the hazards.

## 1. The system

The service decides whether and how an agent's task may execute. A client
submits a task, has it routed, has an action evaluated against policy, starts
the workflow run, and reports attempts. A human resolves approval requests, and
an operator pauses, resumes and kills runs. Every operation is an HTTP handler
over an application service. Services share PostgreSQL tables, an audit trail
and a notifier. An external orchestrator asks a second, simpler facade before
each phase of a change and polls its approval gate. Clients escalate tasks and
read the runs and the audit trail page by page.

Three facts about the code shape the model:

- A repository method is one autocommitted SQL statement. No service opens a
  transaction, no row has a version, and `Update` overwrites the whole row.
- A request loads rows, works on copies and writes them back. Other requests
  run between any two of its statements.
- Audit and notifier errors after the main writes are discarded in the workflow
  and approval services, and returned in intake, routing and policy.

### Inventory

| Part | Source under `src/internal/` | Module |
|---|---|---|
| Workflow run aggregate | `domain/workflow` | `WorkflowRun` |
| Execution lease, attempts | `domain/execution` | `ExecutionLease`; validation of an attempt in `FailureStats` |
| Approval requests | `domain/approval` | `WorkflowControl` (no `Expire`: it has no caller) |
| Task intake, routing, policy evaluation services | `application/{intake,routing,policyeval}` | `TaskAdmission` |
| Workflow and approval services | `application/{workflowrun,approvals}` | `WorkflowControl` |
| PostgreSQL repositories, audit trail, notifier | `adapters/outbound` | `Store` |
| The composed service | `adapters/inbound/http`, `bootstrap` | `Governance` |
| Routing evaluator | `domain/routing` | `RoutingEvaluator` |
| Policy evaluator | `domain/policy` | `PolicyEvaluator` |
| Decomposition into subtasks | `application/routing/route_task.go` | `TaskAdmission`, `TaskTree` |
| Adaptive routing, failure statistics | `domain/routing/adaptive.go`, `application/routing/failure_stats_*` | `FailureStats` |
| Circuit breakers | `application/resilience` | `CircuitBreaker` |
| Escalation triggers | `application/escalation`, `domain/escalation` | `Escalation` (no `Resolve`: it has no caller) |
| Phase decisions facade | `application/govdecisions` | `PhaseDecisions` |
| Lists of runs and audit entries | `application/{workflowrun/get_status.go,audit}`, their repositories and handlers | `Paging` |
| Server process | `cmd/agent-governance-core/main.go` | `Server`; the four composed in `Facade` |
| Single-row queries, SDK facade, ports | `adapters/inbound`, `ports` | not modelled: read-only or delegation |
| Metrics, tracing, trace context, configuration, id generation | | not modelled: change no governed state |
| Test doubles and fixtures | `govhttptest`, `test/fixtures` | not modelled |

## 2. The modules

```
WorkflowRun, ExecutionLease <- Lifecycle
WorkflowRun, ExecutionLease <- Store <- TaskAdmission, WorkflowControl
TaskAdmission, WorkflowControl <- Governance <- GovernanceInv
GovernanceInv <- SerialInv <- MCGovernance
GovernanceInv <- Reporters;  MCGovernance, Reporters <- MCExecution
GovernanceInv <- GovernanceProofs;  with Reporters <- AttemptProofs
                                    with SerialInv <- SerialProofs <- GateProofs

RoutingEvaluator <- PolicyEvaluator <- TaskTree <- MCTaskTree, TaskTreeProofs
RoutingEvaluator <- FailureStats <- StatsProofs
CircuitBreaker <- BreakerProofs

Server <- PhaseDecisions;  Server <- Escalation <- Paging
PhaseDecisions, Paging <- Facade <- FacadeInv <- MCFacade, FacadeProofs
```

`A <- B` means that `B` extends `A`. `Governance` instantiates `Lifecycle` for the
refinement, and `MCGovernance` gives the evaluators their values from
`PolicyEvaluator`.

**WorkflowRun** and **ExecutionLease** are the two aggregates: the status table
and `TransitionTo`, the attempt counter and its end. A run keeps its task, the
two decisions, its status and its transitions. Texts, actors and times are left
out.

**Store** declares the tables and one frame per thread. A frame holds the
operation, the statement it executes next and the copies of rows it works on.
`FindByTaskID` has no `ORDER BY`, so it returns any matching row. The evaluators
are constants (`Strategies`, `PolicyOutcome`, `ChildAttr`): the proofs hold for
any evaluators, the runs use the real ones.

**TaskAdmission** has an action per statement of `SubmitTask`, `RouteTask` and
`EvaluatePolicy`. `ProcessTask` is the sequence of these and of `StartWorkflow`,
which clients may also call one by one. **WorkflowControl** does the same for
`StartWorkflow`, `RegisterAttempt`, `PauseWorkflow`, `ResumeWorkflow`,
`KillWorkflow` and `ResolveApproval`. The first action of an operation takes an
input and makes the first reads. `Abort` is a failed statement, a cancelled
request or a crash: the frame is gone and its writes stay. A statement whose
error the code ignores has a fault action of its own (`KillLeaseFault`, the lost
entries of `Finish`).

**Governance** composes the two and states the properties. **Lifecycle** is the
abstract specification: status, lease and approval requests, without requests,
frames or partial writes. **GovernanceInv** is the inductive invariant,
**SerialInv** what holds in addition if requests do not overlap. **Reporters**
adds two history variables: `reporters`, the threads that have reported attempts,
and `grants`, the requests that were stored as approved at some time, even if a
racing denial has overwritten them since. It states what a single reporter keeps
and what a lease needs.

**RoutingEvaluator** and **PolicyEvaluator** are the evaluators as operators:
classification of risk, overrides, weighted scores, tie-break, the policy rules
and the most restrictive outcome. Scores are integers, so there is no rounding.
**TaskTree** follows one branch of a decomposition, with any memory context and
adjustments, or with `StubMemory`, the provider the service is wired with.

**CircuitBreaker** models what the end of `RegisterAttempt` feeds a breaker. It
is a module of its own because no operation reads a breaker. The time of an
observation is taken before the rows are written, so it may be old when the
mutex is entered. The listener writes its audit entry after the mutex is
released. `seen` is a history variable.

**FailureStats** models the collector of adaptive routing: the cutoff, the query
and the publication are separate steps, racing with attempts. The three levels
of statistics and the adjustment follow the code. Adjustments are in units of
10^-4, rounded down.

**Server** is the process around the remaining components: it serves, drains
after a signal until its requests are done or ten seconds are over, goes down,
and is started again. A request that is cut off keeps what it has written, and a
client may hang up while its request goes on. `pgxpool.Close` waits for running
statements, so a request is cut off between statements only.

**PhaseDecisions** has the two questions, which store a row and allow, and the
poll of a gate, where no row means granted. The orchestrator's workers and the
people who write `phase_approvals` are outside the repository: a worker repeats
a question until it is answered and goes on when the answer lets it.
**Escalation** stores a trigger, whose foreign key refuses an unknown task, and
then makes and inserts an audit entry. **Paging** is a client that reads a list
by limit and offset while runs are written and entries are inserted. Rows with
equal times come in any order, and a row takes its time before it is written. The
history variables `rewritten` and `split` hold the runs written since the reader
began, and the rows that once stood behind the end of a page with the time of a
row before it.
**Facade** composes the four, and **FacadeInv** is their inductive invariant. They
share the process and no table with `Governance`, except that runs and audit
entries appear in `Paging` by their times only. So the two compositions stay
apart.

## 3. The runs

All runs stop at bounds on requests or time, so they do not check for deadlock:
the state in which the bound is used up is an end state of the model only.

| Run | Instance | Shows |
|---|---|---|
| `Admission` | 2 threads, 3 tasks, 2 runs, 5 requests, 1 fault | `NoBypass`, `LegalHistory`, `IInv` (which contains `TypeOK`) from an empty store, with decomposition and two runs of one task |
| `Execution` | 2 threads, 1 run from policy_checked, 2 decisions, 2 approvals, 5 requests, 1 fault | `LeaseBacked`, `ApprovalBacked`, `LeaseSound`, `TerminationAnnounced`; `LeaseNeedsApproval` and `BudgetGrantedOnce`: racing starters and approvers grant one lease, and none without a decision that allows it or an approval; `OneReporterKeepsBudget`: the budget survives racing kills, pauses and resolutions, and a quarantine is audited once, as long as one thread reports attempts |
| `Serial` | 1 thread, 9 requests, 2 faults, from an empty store | what holds if requests do not overlap, including `ImplementsLifecycle` and `SerialInvariant` |
| `Live` | 1 thread, 5 requests, 1 fault, fair | `ResolutionReleasesGate`, `LeaseLeadsToExecution` |
| `TaskTree` | every submitted task, depth 5; every memory context and extreme adjustments, or the memory stub and no statistics | `GateIsInherited`: no branch of a deployment loses its approval gate; for the second wiring `EscalationIsGated`, and `DecompositionEnds` for low and medium risk |
| `Breaker` | 1 pair, 2 threads, 7 observations, 1 lost entry, 1 restart | `WindowIsRecent`, `FailuresAreCounted`, `ProbesAreCounted`, `AuditTrailBalances`, `RecoveryNeedsProbes` |
| `Stats` | 4 attempts, 2 times, 1 failed refresh, 1 restart, fair | `CountsAreBacked`, `ExplainedIsApplied`, `SnapshotCatchesUp` |
| `Facade` | 2 threads, 2 workers, 2 tasks, 5 entries, 4 runs, limits 0, 1 and 3 where 2 is the maximum, 2 requests, 3 faults, fair | `AllowIsRecorded`, `GateIsRespected`, `EscalationIsStored`, `PagesAreComplete`, `AuditIsComplete`, `FacadeInvariant`, `DecisionArrives` |

### Bounds

- A retry budget of 2 has a first, a last and a refused attempt.
- Two threads are enough for every lost update: one copy goes stale under one
  other writer. The theorems cover any number.
- Five or six requests reach start, resolution, two attempts and a kill on one
  run; nine reach the same from submission.
- Two approval requests and two policy decisions are the fewest with which a run
  can have a second one.
- The thresholds of the breaker are scaled down (2 failures, a window of 4, a
  cooldown of 2, 2 probes). Both reasons to trip, a full window and a recovery
  occur. The theorems hold for all thresholds.
- In the statistics one strategy with one role and one category suffices: levels
  add up over keys and strategies do not interact. The sample thresholds are
  scaled to 1 and 3, so four attempts go past full confidence.
- A branch of a decomposition reaches file scope after three subtasks; depth 5
  goes on from there. A branch that is cut off at the bound counts as one that
  does not end.
- In `Facade` the workers and the reader share no table, so TLC explores them in
  separate scenes: workers that ask and poll, a reader of runs beside updates,
  and a reader of the audit trail beside escalations. Three stored rows and one
  row per page give a row before, at and behind the edge of a page; two requests
  write, insert or set back two of them. One worker has a gate and one asks about
  a sensitive capability. The readers' scenes have one fault, the workers' three:
  a lost answer, a lost repetition and a stop. The theorems have no scenes.
- Symmetry is used in `Admission` and `Execution`, which check invariants and one
  action property (`BudgetGrantedOnce`) that treats all identifiers alike. No run
  with a liveness property uses it.

### Fairness

`Live` and `GateStuck` assume that a thread that has begun a request carries it
on (weak fairness per thread). A goroutine runs until its handler returns, and
statements without faults return. No request is ever assumed to arrive.
`Stats` assumes weak fairness of the collector's loop, a goroutine with a
ticker; failures and restarts are bounded. `Facade` assumes that requests in
flight go on, that the timer of `Shutdown` ends a drain, that a supervisor starts
the process again, and that a worker without an answer asks again, which is how
the orchestrator is meant to use the facade. Faults are bounded. `TaskTree` assumes that a
client that routes a tree goes on routing.

### Findings

Each of these runs checks one sentence of a document or comment and TLC finds a
behaviour of the code that contradicts it. `PROJECT.json` quotes the sentence.

| Run | What happens |
|---|---|
| `KillOverwritten` | A start that loaded the run before a kill writes it back as running. |
| `GateStuck` | A resolution between the two writes of a start is used up; the run waits for ever. |
| `DeniedRuns` | Sequential: a second evaluation stores an allowing decision that does not apply, and a start reads it. |
| `StatsPenalty` | The finer levels count failures only, so a strategy at the baseline is penalised like one that always fails. A success carries no failure code (`attempt.go:99`), so it reaches neither of the finer levels; the design document and the test of the collector expect totals above the failures there. |

The lost update of `KillOverwritten` has more faces. With two threads that both
report attempts (`Thread = {t1, t2}` and the specification of `Execution`), TLC
also finds `HistoryAppendOnly`, `LeaseEndIsFinal`, `AttemptsWithinBudget` and
`QuarantineAuditedOnce` violated; the last one is what the comment at
`register_attempt.go:96` says ("emitted once on effective transition").
`SerialProofs` shows them to hold if requests do not overlap,
`OneReporterKeepsBudget` that a single reporter is enough for the last two. Two
approvers can both answer a request, and the later write stands. What they cannot
do is in `LeaseNeedsApproval` and `BudgetGrantedOnce`.

More behaviours worth knowing, none of which breaks a property checked here:

- An attempt with status retry can use up the budget and leaves the run running.
- The resolution of a request whose run was killed leaves no audit entry.
- A lease that was stored before the update of its run failed stays. A second start
  then trips over the unique index, so the run never executes.
- The type of a task is inherited by its subtasks, its scope is not. A development
  task of system scope needs an approval and its repository-scope subtasks are
  allowed with constraints. Of all gates only that of a deployment survives
  decomposition, and a branch of high risk may be decomposed for ever.
- A breaker whose first probe fails reports half_open to open without having
  reported open to half_open.
- `List` of the run repository does not look at `rows.Err`, so a connection that
  breaks while rows are read gives a short page without an error
  (`pg_workflow_run_repo.go:216`). The audit repository does look.
- Pages of runs filtered by a status can miss a run nobody touched, when another
  one leaves the filter between two pages. A writer that took its time early can
  set `updated_at` back, with the same effect. Neither list has a second sort
  key, so of two rows with equal times on the two sides of a page's end the later
  one can be missed. `PagesAreComplete` and `AuditIsComplete` name these
  exceptions and no other.
- A page of runs past the end reports a total of 0, and an audit query without a
  limit ignores its offset.
- A question with a missing field is answered without a row in `phase_decisions`,
  although the header of `govdecisions/service.go` says that every call writes one.
- If the listener cannot be opened, `main` logs the error and waits for a signal.

## 4. The proofs

| Theorem | Module | Statement |
|---|---|---|
| `Invariance` | `GovernanceProofs` | `Spec => []IInv` |
| `TypeCorrect`, `LeaseBackedAlways`, `ApprovalBackedAlways`, `NoBypassAlways`, `LeaseSoundAlways`, `LegalHistoryAlways` | `GovernanceProofs` | the named property holds always |
| `TerminationAnnouncedAlways` | `AttemptProofs` | `Spec => []TerminationAnnounced` |
| `OneReporterKeepsBudgetAlways`, `LeaseNeedsApprovalAlways` | `AttemptProofs` | the named property holds always, from `ReporterSpec` |
| `BudgetGrantedOnceAlways` | `AttemptProofs` | `Spec => BudgetGrantedOnce` |
| `SerialInvariance` | `SerialProofs` | `OneThread => (Spec => []SerialInvariant)` |
| `LifecycleImplemented` | `SerialProofs` | `OneThread => (Spec => ImplementsLifecycle)` |
| `TerminalIsFinalSerially`, `HistoryAppendOnlySerially`, `LeaseEndIsFinalSerially`, `AttemptsWithinBudgetSerially`, `QuarantineSerially` | `SerialProofs` | the named property holds for one request at a time |
| `LeaseMatchesRunAlways`, `GateMatchesRequestAlways`, `ResolutionIsAuditedAlways` | `GateProofs` | the same, for the properties of quiet states without faults |
| `GateIsInheritedAlways`, `EscalationIsGatedAlways` | `TaskTreeProofs` | the named property holds always |
| `DecompositionIsBounded` | `TaskTreeProofs` | with the stub and no statistics, a branch of a task of low or medium risk has at most three subtasks |
| `CountsAreBackedAlways`, `ExplainedIsAppliedAlways` | `StatsProofs` | the named property holds always |
| `FacadeInvariance`, `AllowIsRecordedAlways`, `GateIsRespectedAlways`, `EscalationIsStoredAlways`, `PagesAreCompleteAlways`, `AuditIsCompleteAlways` | `FacadeProofs` | `Spec => []FacadeInvariant` of `Facade`, and the named properties |
| `Invariance`, `TypeCorrect`, `WindowIsRecentAlways`, `FailuresAreCountedAlways`, `ProbesAreCountedAlways`, `RecoveryNeedsProbesAlways`, `AuditTrailBalancesAlways` | `BreakerProofs` | the same for the breakers |

They hold for any sets of threads and identifiers, any budget, thresholds,
evaluators and bounds. The assumptions are `StoreAssumption`, the assumption on
`MaxAttempts` in `ExecutionLease`, `BreakerAssumption`, `TaskTreeAssumption` (a
failure rate is in tenths, an adjustment within its limits),
`FailureStatsAssumption` (finitely many categories, none of them the empty one,
and fewer samples for a first adjustment than for full confidence), and for the facade
`ThreadAssumption` (finitely many goroutines), `ClientAssumption`,
`TaskAssumption` and `PagingAssumption` (finite tables, limits that are numbers).
TLC evaluates them in the runs.

**Governance.** The properties speak of stored rows, but a request writes rows
from copies it has held while others wrote. `IInv` therefore also states, for
each statement a frame can be at, what its copies satisfy (`FrameInv`): a copy
of a run is a legal history that names real decisions (`GoodRow`), and what its
status promises about other tables is already there (`Backed`). These facts are
stable because the store only grows in the sense of `Grow`: tasks and decisions
stay, a lease or an approval request is never removed, a resolution is never
taken back to pending. `GovernanceProofs` first shows that any step that satisfies
`Grow` keeps the facts of the frames that do not move, then has one lemma per
action of `TaskAdmission` and `WorkflowControl`, and combines them.

So the proved properties are those that the order of the writes protects, even
under lost updates. The others are false in general (see the findings) and need
requests not to overlap.

**One request at a time.** `OneThread` says that there is one thread; requests may
still break off between any two statements. `SerialInvariant` then says what
`IInv` cannot: the copy a request holds is the stored row up to its own move
(`Advances`), the lease it is about to write is the stored one with one attempt
more or revoked, and the request it resolves is still pending (`Fresh`); approved
is never stored, and trail and status follow the lease (`SerialStore`).
`SerialProofs` proves it for each action, with `IInv` as a hypothesis.
From both follows what a statement can do to runs, leases and approval requests
(`SerialEffect`). Each of these effects is a step of `Lifecycle`, which is the
refinement, and the properties about what stays are read off it.

`CalmInvariant` is what the three properties of quiet states need while no
statement has failed. A request between its statements leaves lease, gate and
trail behind the run, so the invariant speaks of the status the run will have
once the current request has written its copy (`Standing`), of a request that has
stored a resolution and still owes the move and the entry (`Resolving`), and says
at which statements it may do so. With no request under way these are the
properties. It was model-checked on the instance of `Serial` before the proof.

**Announcements.** A terminal status is written by `UpdateWorkflow` only, and the
request that wrote it then stands at `finish`, where it announces. Routing and
policy pass through the same statements and announce nothing. `AnnounceInv` adds
that the copies they write are not terminal (`SilentFrame`). A stale copy may
replace a terminal row, but then the announcement has been made or the row is no
longer terminal, and whoever ends the run again announces that end. Without
faults `Finish` loses no callback.

**One reporter.** `BudgetInv` counts the attempts in the trail against the stored
lease (`BudgetStore`) and against the attempt in flight (`BudgetFrame`). Only an
attempt writes a lease back as active; a racing kill writes it back revoked
(`SafeFrame`), possibly with a stale count, but a revoked lease takes no
attempt. With one reporter no second attempt is in flight, so the count it has
read is still the stored one, or the lease has been revoked meanwhile. A quarantine
is due only with an exhausted lease, and no attempt follows on that.

**One grant.** Once a run has a lease every copy of it that a request holds has been
attempted on or revoked (`SpentFrame`), so writing one back never gives a fresh
budget, and an insert meets the unique index. `GrantInv` says that an approver has
stored the approval before anything follows from it (`GrantFrame`) and that a run
with a lease, or a request about to insert one, has a decision that allows the
action or an approval that was stored (`Permitted`). Approvals and decisions are
only ever added to (`Steady`), so this survives every interleaving. That the
decision behind an approval asked for one is `IInv`.

**Task tree.** Subtasks keep type and risk, so the deployment rule applies to the
whole branch. That escalate loses against decompose for an ungated task, and that
a task of file scope and low or medium risk is not decomposed, are statements
about the weighted tables: the proof computes the scores case by case.

**Statistics.** The levels are sums over a bag of entries of any size. The
library's induction theorems are not available to the prover (they take an operator as a
parameter), so `StatsProofs` argues with a least counterexample: the subsets of a
finite set are well-founded (`WFMin`), hence a statement that fails for some
subset fails for one all of whose proper subsets satisfy it. This gives the
existence of the fold's table, then that a sum does not depend on the order, is
additive over disjoint sets, monotone, and that summing over keys sums over the
union of their entries. `StatsInv` then carries the order of the levels from the
query to the store, and that the coarsest counts no more than the trail holds.
The limits of an adjustment follow from the range of the raw
value and of a floor division by a larger number than the factor.

**Facade.** `FacadeInvariant` has a part per component. Decisions: a request that
is about to answer has a row. Gates: an answer in flight that lets a worker pass
is true or older than its gate. Escalations: entries and answers, counted together
with the requests that still owe one, are no more than triggers; this is a
statement about cardinalities. Pages: while a list is read, a row that is not
excused and has not been seen is still in the list, and at least as many rows as
the offset come before it. Inserts and later writes only move rows towards the
front, so this is kept. If the page that follows does not hold the row, it is
full, and all its rows come before it.

**Breakers.** The invariant relates each breaker to the history of results it
was shown: window, row of failures, row of probes. It is inductive together with
the types. Times occur only in the guard of the cooldown, so none of the
theorems depends on the order of the clocks.

**Model-checked only.** The five liveness properties `ResolutionReleasesGate`,
`LeaseLeadsToExecution`, `DecompositionEnds`, `SnapshotCatchesUp` and
`DecisionArrives`: the prover handles neither fairness nor `ENABLED`. And the
counterexamples of the findings.

## 5. Not modelled

- Reasons, actors, constraints and all texts. `UpdatedAt` is in `Paging` only.
- The timeout of a lease and the expiry of an approval request: fields that no
  operation acts on.
- The task status operations, and `Resolve`, `Update` and `FindByTaskID` of
  escalation triggers: no service calls them.
- Repeated `ProcessTask` calls are new tasks; there is no idempotency key.
- SQL isolation below one statement, and the width of identifier columns:
  identifiers are assumed to fit `CHAR(26)`.
- A clock that steps back. Times are taken from one process whose clock does not.
- Single-row queries, the SDK facade and the inbound ports read one row or
  delegate; there is no state to model.
- Metrics, tracing and the trace context instrument calls and govern nothing.
- Configuration, wiring, exporters and the decoding of requests are input and
  output. What a restart loses is in `CircuitBreaker`, `FailureStats` and
  `Server`.

## 6. Plan

1. *Done.* Aggregates, store, admission, control, composition, abstract
   lifecycle, evaluators, task tree, breakers, failure statistics; the inductive
   invariants and their proofs.
2. *Done.* Phase decisions, escalations, lists and the server process, composed
   in `Facade`, with their proofs.
3. *Done.* The refinement and the properties of one request at a time, proved.
4. Compose `FailureStats` with `TaskTree`: adjustments that a real sequence of
   attempts can produce, in place of the extremes.
5. *Done.* Every safety property that a run checks is proved.
6. Prove the safety cores of the liveness properties: that a frame is never stuck
   and what each of its steps brings nearer.

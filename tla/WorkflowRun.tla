----------------------------- MODULE WorkflowRun -----------------------------
(***************************************************************************)
(* The WorkflowRun aggregate: its status machine and the operations that   *)
(* move it (internal/domain/workflow).  Reasons, actors and timestamps of  *)
(* a transition are left out; who moves from where to where is kept.       *)
(***************************************************************************)
EXTENDS Naturals, Sequences

TerminalStates == {"completed", "failed", "killed", "quarantined"}

WorkflowStatus ==
  {"created", "routed", "policy_checked", "awaiting_approval", "approved",
   "running", "paused"} \cup TerminalStates

TransitionTable ==
  {<<"created", "routed">>, <<"routed", "policy_checked">>,
   <<"policy_checked", "running">>, <<"policy_checked", "awaiting_approval">>,
   <<"policy_checked", "failed">>,
   <<"awaiting_approval", "approved">>, <<"awaiting_approval", "failed">>,
   <<"approved", "running">>,
   <<"running", "completed">>, <<"running", "failed">>, <<"running", "paused">>,
   <<"running", "killed">>, <<"running", "quarantined">>,
   <<"paused", "running">>, <<"paused", "killed">>}

IsValidTransition(from, to) ==
  \/ to = "killed" /\ from \notin TerminalStates
  \/ <<from, to>> \in TransitionTable

\* A row is [task, status, rd, pd, transitions]: rd and pd are the identifiers
\* of the routing and the policy decision, transitions the recorded moves.
NewWorkflowRun(task, nil) ==
  [task |-> task, status |-> "created", rd |-> nil, pd |-> nil,
   transitions |-> <<>>]

\* Mutant: a kill is let through from any status.
CanTransitionMutant(wf, target) ==
  target = "killed" \/ IsValidTransition(wf.status, target)

\* The two checks transitionTo makes before it touches the aggregate.
CanTransition(wf, target) ==
  wf.status \notin TerminalStates /\ IsValidTransition(wf.status, target)

\* Mutant: the status moves but the move is not appended to Transitions.
TransitionToMutant(wf, target) == [wf EXCEPT !.status = target]

\* Mutant: the move replaces the recorded ones.
TransitionToResetMutant(wf, target) ==
  [wf EXCEPT !.status = target, !.transitions = <<<<wf.status, target>>>>]

TransitionTo(wf, target) ==
  [wf EXCEPT !.status = target,
             !.transitions = Append(@, <<wf.status, target>>)]

\* Mutant: the task is stored where the decision belongs.
MarkRoutedMutant(wf, decision) == [TransitionTo(wf, "routed") EXCEPT !.rd = wf.task]

MarkRouted(wf, decision) == [TransitionTo(wf, "routed") EXCEPT !.rd = decision]

\* Mutant: the identifier of the decision is not stored.
MarkPolicyCheckedMutant(wf, decision) == TransitionTo(wf, "policy_checked")

MarkPolicyChecked(wf, decision) ==
  [TransitionTo(wf, "policy_checked") EXCEPT !.pd = decision]

\* The recorded moves form one path of the status machine from created to the
\* present status.
IsLegalHistory(wf) ==
  LET h == wf.transitions IN
  /\ \A i \in 1..Len(h) : IsValidTransition(h[i][1], h[i][2])
  /\ \A i \in 1..Len(h) :
       h[i][1] = IF i = 1 THEN "created" ELSE h[i - 1][2]
  /\ wf.status = IF h = <<>> THEN "created" ELSE h[Len(h)][2]
=============================================================================

------------------------------ MODULE TaskTree ------------------------------
(***************************************************************************)
(* One branch of the tree of tasks a client gets by routing a submitted    *)
(* task, then one of its subtasks, and so on while the strategy is         *)
(* decompose.  Each routing sees its own memory context and its own        *)
(* adjustments.                                                            *)
(***************************************************************************)
EXTENDS PolicyEvaluator

CONSTANTS
  Memory,       \* memory contexts a provider may report, NoMemory for none
  Adaptation,   \* adjustments of the three scored strategies
  MaxDepth      \* bound on the length of the branch

\* The stub the service is wired with reports an empty context; a provider
\* that is absent or fails reports none.
StubMemory == {NoMemory, [known |-> TRUE, failureRate |-> 0, heuristics |-> FALSE]}

ASSUME TaskTreeAssumption ==
  /\ Memory \subseteq [known : BOOLEAN, failureRate : 0..10, heuristics : BOOLEAN]
  /\ Adaptation \subseteq [Scored -> Adjustment]
  /\ MaxDepth \in Nat

VARIABLES
  plain,     \* the memory stub is wired and there are no statistics
  root,      \* the submitted task
  task,      \* the task at the end of the branch
  strategy,  \* its routing strategy, "none" until it is routed
  depth      \* its distance from the root

vars == <<plain, root, task, strategy, depth>>

Init ==
  /\ plain \in BOOLEAN
  /\ \E type \in TaskType, scope \in Scope, priority \in Priority,
        force \in Strategy \cup {"none"}, done \in BOOLEAN :
       root = Submitted(type, scope, priority, force, done)
  /\ task = root
  /\ strategy = "none"
  /\ depth = 0

Route ==
  /\ strategy = "none"
  /\ \E mem \in IF plain THEN StubMemory ELSE Memory,
        adjust \in IF plain THEN {NoAdaptation} ELSE Adaptation :
       strategy' \in Evaluate(task, mem, adjust)
  /\ UNCHANGED <<plain, root, task, depth>>

Descend ==
  /\ strategy = "decompose"
  /\ depth < MaxDepth
  /\ task' = Child(task)
  /\ strategy' = "none"
  /\ depth' = depth + 1
  /\ UNCHANGED <<plain, root>>

Next == Route \/ Descend

Spec == Init /\ [][Next]_vars

FairSpec == Spec /\ WF_vars(Next)

---------------------------------------------------------------------------

\* No branch of a deployment (the only tasks of critical risk) ever reaches a
\* task that policy allows without an approval, however it is routed, forced or
\* split.
GateIsInherited ==
  root.type = "deployment" =>
    \A action \in Action : EvaluatePolicy(task, action) \in {"require_approval", "deny"}

\* With the memory stub the service is wired with, or no memory, and before
\* any statistics, what the router hands to a human policy does not let run on
\* its own: when the scores or an override of risk or scope select escalate,
\* every action needs an approval or is denied.  (force_strategy may ask for
\* escalate too, and statistics may tip the scores.)
EscalationIsGated ==
  plain /\ strategy = "escalate" /\ task.force # "escalate" =>
    \A action \in Action : EvaluatePolicy(task, action) \in {"require_approval", "deny"}

\* Under the same conditions a branch of a task that is not of high risk ends:
\* at the latest a subtask of file scope is not decomposed again.  (A high-risk
\* research task of file scope scores highest on decompose, for ever.)
DecompositionEnds ==
  plain /\ root.risk \in {"low", "medium"} => <>(strategy \notin {"none", "decompose"})
=============================================================================

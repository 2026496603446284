-------------------------- MODULE RoutingEvaluator --------------------------
(***************************************************************************)
(* The pure half of intake and routing: the risk SubmitTask gives a task,  *)
(* the strategy routing.Evaluate selects for it, and the subtasks a        *)
(* decomposed task gets.  A task is the record of what is read of it; of   *)
(* the metadata, force_strategy ("none" if absent or no strategy) and      *)
(* whether tasks_phase_status is "done".                                   *)
(*                                                                         *)
(* Scores are integers in units of 10^-4: factors in hundredths times      *)
(* weights in hundredths.  The code adds floats, so two strategies whose   *)
(* exact scores are equal may compare either way or as a tie, and each of  *)
(* them can win.                                                           *)
(***************************************************************************)
EXTENDS Integers, FiniteSets

TaskType == {"development", "bugfix", "refactor", "research", "review", "deployment"}

Scope == {"file", "module", "repo", "system"}

Priority == {"low", "normal", "high", "urgent"}

RiskLevel == {"low", "medium", "high", "critical"}

Strategy == {"direct", "decompose", "collaborate", "escalate"}

Scored == {"direct", "decompose", "escalate"}

Attributes ==
  [type : TaskType, scope : Scope, priority : Priority, risk : RiskLevel,
   force : Strategy \cup {"none"}, tasksDone : BOOLEAN]

---------------------------------------------------------------------------
\* Intake

ClassifyRisk(type, scope) ==
  CASE type = "deployment" /\ scope = "system" -> "critical"
    [] type = "deployment" /\ scope = "repo"   -> "high"
    [] type # "deployment" /\ scope = "system" -> "high"
    [] type = "bugfix" /\ scope = "file"       -> "low"
    [] OTHER                                   -> "medium"

Submitted(type, scope, priority, force, tasksDone) ==
  [type |-> type, scope |-> scope, priority |-> priority,
   risk |-> ClassifyRisk(type, scope), force |-> force, tasksDone |-> tasksDone]

---------------------------------------------------------------------------
\* Factors, in hundredths

RiskScore ==
  [direct    |-> [low |-> 90, medium |-> 60, high |-> 30, critical |-> 10],
   decompose |-> [low |-> 40, medium |-> 70, high |-> 80, critical |-> 50],
   escalate  |-> [low |-> 10, medium |-> 40, high |-> 70, critical |-> 100]]

ScopeScore ==
  [direct    |-> [file |-> 90, module |-> 70, repo |-> 40, system |-> 20],
   decompose |-> [file |-> 30, module |-> 60, repo |-> 80, system |-> 70],
   escalate  |-> [file |-> 10, module |-> 30, repo |-> 50, system |-> 80]]

TypeScore ==
  [direct    |-> [bugfix |-> 80, development |-> 70, review |-> 60,
                  research |-> 50, refactor |-> 40, deployment |-> 20],
   decompose |-> [bugfix |-> 30, development |-> 60, review |-> 40,
                  research |-> 70, refactor |-> 80, deployment |-> 50],
   escalate  |-> [bugfix |-> 20, development |-> 30, review |-> 40,
                  research |-> 30, refactor |-> 40, deployment |-> 90]]

PriorityScore ==
  [direct    |-> [low |-> 70, normal |-> 70, high |-> 50, urgent |-> 40],
   decompose |-> [low |-> 50, normal |-> 50, high |-> 60, urgent |-> 50],
   escalate  |-> [low |-> 20, normal |-> 30, high |-> 60, urgent |-> 80]]

NoMemory == [known |-> FALSE, failureRate |-> 0, heuristics |-> FALSE]

\* The share of similar tasks that failed, a multiple of 0.1, is in tenths.
SimilarScore(mem) ==
  IF mem.known
    THEN [direct    |-> 100 - 10 * mem.failureRate,
          decompose |-> 50 + 3 * mem.failureRate,
          escalate  |-> 10 * mem.failureRate]
    ELSE [s \in Scored |-> 50]

HeuristicScore(mem) ==
  IF mem.known /\ mem.heuristics
    THEN [direct |-> 80, decompose |-> 60, escalate |-> 30]
    ELSE [s \in Scored |-> 50]

Score(task, mem, s) ==
  30 * RiskScore[s][task.risk] + 25 * ScopeScore[s][task.scope]
  + 20 * TypeScore[s][task.type] + 10 * PriorityScore[s][task.priority]
  + 10 * SimilarScore(mem)[s] + 5 * HeuristicScore(mem)[s]

---------------------------------------------------------------------------
\* Selection

\* The adjustment of a strategy is at most a bonus of 0.05 and a penalty of 0.15.
Adjustment == -1500..500

NoAdaptation == [s \in Scored |-> 0]

Tiebreak(scores) == {s \in Scored : \A r \in Scored : scores[r] <= scores[s]}

Override(task) ==
  IF task.risk = "critical" \/ (task.scope = "system" /\ task.type = "deployment")
    THEN "escalate"
    ELSE task.force

Evaluate(task, mem, adjust) ==
  IF Override(task) # "none"
    THEN {Override(task)}
    ELSE Tiebreak([s \in Scored |-> Score(task, mem, s) + adjust[s]])

---------------------------------------------------------------------------
\* Decomposition

\* The subtasks keep the scope of their parent.
ChildScopeMutant(scope) == scope

ChildScope(scope) ==
  CASE scope = "system" -> "repo"
    [] scope = "repo"   -> "module"
    [] OTHER            -> "file"

\* The subtasks are bug fixes, whatever the parent is.
ChildOfFixedType(task) ==
  [task EXCEPT !.scope = ChildScope(task.scope), !.force = "none", !.tasksDone = FALSE,
               !.type = "bugfix"]

\* Both subtasks: the parent's type, priority and risk, and no metadata.
Child(task) ==
  [task EXCEPT !.scope = ChildScope(task.scope), !.force = "none", !.tasksDone = FALSE]
=============================================================================

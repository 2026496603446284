--------------------------- MODULE TaskTreeProofs ---------------------------
(***************************************************************************)
(* Proofs about the task tree, for every set of memory contexts, every set *)
(* of adjustments and branches of any length.                              *)
(***************************************************************************)
EXTENDS TaskTree, TLAPS

Gated(t) ==
  \A action \in Action : EvaluatePolicy(t, action) \in {"require_approval", "deny"}

\* What policy asks of a task as a function of its attributes only.
Restricted(t) == t.risk = "critical" \/ t.type = "deployment" \/ t.scope = "system"

TypeOK ==
  /\ plain \in BOOLEAN
  /\ root \in Attributes
  /\ task \in Attributes
  /\ strategy \in Strategy \cup {"none"}

\* The inductive invariant: a branch keeps the type of its root, and the last
\* routing of a plain service escalated only what it was forced to or what is
\* restricted.
TreeInv ==
  /\ TypeOK
  /\ task.type = root.type
  /\ plain /\ strategy = "escalate" => Restricted(task) \/ task.force = "escalate"

---------------------------------------------------------------------------
\* Policy

\* policy.EvaluatePolicy: one of the outcomes is at least as restrictive as
\* all others, so the chosen one is an outcome and none is stronger.
LEMMA PolicyIsMostRestrictive ==
  ASSUME NEW t, NEW action
  PROVE  LET outcomes == RuleOutcomes(t, action) \cup {"allow_with_constraints"} IN
         /\ EvaluatePolicy(t, action) \in outcomes
         /\ \A x \in outcomes :
              Restrictiveness[x] <= Restrictiveness[EvaluatePolicy(t, action)]
<1> DEFINE outcomes == RuleOutcomes(t, action) \cup {"allow_with_constraints"}
           Top(o) == \A x \in outcomes : Restrictiveness[x] <= Restrictiveness[o]
<1>1. outcomes \subseteq {"allow", "allow_with_constraints", "require_approval", "deny"}
  BY DEF RuleOutcomes, ApprovalRules, DestructiveActionDeny, FileScopeLowRiskAllow,
         NoApplyWithoutTasksDone
<1>2. \E o \in outcomes : Top(o)
  <2>1. CASE "deny" \in outcomes
    BY <1>1, <2>1 DEF Restrictiveness
  <2>2. CASE "deny" \notin outcomes /\ "require_approval" \in outcomes
    BY <1>1, <2>2 DEF Restrictiveness
  <2>3. CASE "deny" \notin outcomes /\ "require_approval" \notin outcomes
    BY <1>1, <2>3 DEF Restrictiveness
  <2> QED BY <2>1, <2>2, <2>3
<1>3. EvaluatePolicy(t, action) = CHOOSE o \in outcomes : Top(o)
  BY DEF EvaluatePolicy
<1>4. EvaluatePolicy(t, action) \in outcomes /\ Top(EvaluatePolicy(t, action))
  <2> HIDE DEF outcomes, Top
  <2> QED BY <1>2, <1>3
<1> QED BY <1>4

\* DefaultRules gate every task of critical risk, every deployment and every
\* task of system scope, whatever the action.
LEMMA RestrictedIsGated ==
  ASSUME NEW t, Restricted(t)
  PROVE  Gated(t)
<1> SUFFICES ASSUME NEW action \in Action
             PROVE  EvaluatePolicy(t, action) \in {"require_approval", "deny"}
  BY DEF Gated
<1> DEFINE outcomes == RuleOutcomes(t, action) \cup {"allow_with_constraints"}
<1>1. "require_approval" \in outcomes
  BY DEF Restricted, RuleOutcomes, ApprovalRules
<1>2. /\ EvaluatePolicy(t, action) \in outcomes
      /\ Restrictiveness["require_approval"] <= Restrictiveness[EvaluatePolicy(t, action)]
  BY <1>1, PolicyIsMostRestrictive
<1>3. outcomes \subseteq {"allow", "allow_with_constraints", "require_approval", "deny"}
  BY DEF RuleOutcomes, ApprovalRules, DestructiveActionDeny, FileScopeLowRiskAllow,
         NoApplyWithoutTasksDone
<1> DEFINE o == EvaluatePolicy(t, action)
<1>4. /\ o \in {"allow", "allow_with_constraints", "require_approval", "deny"}
      /\ Restrictiveness["require_approval"] <= Restrictiveness[o]
  BY <1>2, <1>3
<1> HIDE DEF outcomes, o
<1>5. o \in {"require_approval", "deny"}
  BY <1>4 DEF Restrictiveness
<1> QED BY <1>5 DEF o

---------------------------------------------------------------------------
\* Routing

\* Of a task that is not restricted, with the memory stub, decompose scores
\* strictly more than escalate: it leads by at least 300 on risk and by 500 on
\* scope, and trails by at most 300 on priority.
LEMMA DecomposeBeatsEscalate ==
  ASSUME NEW t \in Attributes, ~ Restricted(t), NEW mem \in StubMemory
  PROVE  /\ Score(t, mem, "escalate") \in Int
         /\ Score(t, mem, "decompose") \in Int
         /\ Score(t, mem, "escalate") < Score(t, mem, "decompose")
<1> DEFINE r(s) == RiskScore[s][t.risk]
           c(s) == ScopeScore[s][t.scope]
           y(s) == TypeScore[s][t.type]
           p(s) == PriorityScore[s][t.priority]
           m(s) == SimilarScore(mem)[s]
           h(s) == HeuristicScore(mem)[s]
<1>1. /\ r("escalate") \in Int /\ r("decompose") \in Int
      /\ r("escalate") + 10 <= r("decompose")
  BY DEF Attributes, RiskLevel, RiskScore, Restricted
<1>2. /\ c("escalate") \in Int /\ c("decompose") \in Int
      /\ c("escalate") + 20 <= c("decompose")
  BY DEF Attributes, Scope, ScopeScore, Restricted
<1>3. /\ y("escalate") \in Int /\ y("decompose") \in Int
      /\ y("escalate") <= y("decompose")
  BY DEF Attributes, TaskType, TypeScore, Restricted
<1>4. /\ p("escalate") \in Int /\ p("decompose") \in Int
      /\ p("escalate") <= p("decompose") + 30
  BY DEF Attributes, Priority, PriorityScore
<1>5. /\ m("escalate") \in Int /\ m("decompose") \in Int
      /\ m("escalate") <= m("decompose")
  BY DEF StubMemory, NoMemory, SimilarScore, Scored
<1>6. /\ h("escalate") \in Int /\ h("decompose") \in Int
      /\ h("escalate") <= h("decompose")
  BY DEF StubMemory, NoMemory, HeuristicScore, Scored
<1>7. /\ Score(t, mem, "escalate")
           = 30 * r("escalate") + 25 * c("escalate") + 20 * y("escalate")
             + 10 * p("escalate") + 10 * m("escalate") + 5 * h("escalate")
      /\ Score(t, mem, "decompose")
           = 30 * r("decompose") + 25 * c("decompose") + 20 * y("decompose")
             + 10 * p("decompose") + 10 * m("decompose") + 5 * h("decompose")
  BY DEF Score
<1> HIDE DEF r, c, y, p, m, h
<1> QED BY <1>1, <1>2, <1>3, <1>4, <1>5, <1>6, <1>7

\* routing.Evaluate of a plain service: escalate is selected only for a
\* restricted task or when force_strategy asks for it.
LEMMA EscalatedAreRestricted ==
  ASSUME NEW t \in Attributes, NEW mem \in StubMemory,
         "escalate" \in Evaluate(t, mem, NoAdaptation)
  PROVE  Restricted(t) \/ t.force = "escalate"
<1> SUFFICES ASSUME ~ Restricted(t), t.force # "escalate" PROVE FALSE
  OBVIOUS
<1> DEFINE scores == [s \in Scored |-> Score(t, mem, s) + NoAdaptation[s]]
<1>1. Override(t) = t.force
  BY DEF Override, Restricted
<1>2. "escalate" \in Tiebreak(scores)
  BY <1>1 DEF Evaluate
<1>3. scores["decompose"] <= scores["escalate"]
  BY <1>2 DEF Tiebreak, Scored
<1>4. Score(t, mem, "decompose") + 0 <= Score(t, mem, "escalate") + 0
  BY <1>3 DEF Scored, NoAdaptation
<1> QED BY <1>4, DecomposeBeatsEscalate

---------------------------------------------------------------------------
\* The invariant

\* Submitted tasks satisfy the invariant.
LEMMA TreeInit == Init => TreeInv
<1> SUFFICES ASSUME Init PROVE TreeInv
  OBVIOUS
<1>1. PICK type \in TaskType, scope \in Scope, priority \in Priority,
           force \in Strategy \cup {"none"}, done \in BOOLEAN :
        root = Submitted(type, scope, priority, force, done)
  BY DEF Init
<1>2. ClassifyRisk(type, scope) \in RiskLevel
  BY DEF ClassifyRisk, RiskLevel
<1>3. root \in Attributes
  BY <1>1, <1>2 DEF Submitted, Attributes
<1> QED BY <1>3 DEF Init, TreeInv, TypeOK

\* Routing and descending preserve it.
LEMMA TreeNext == TreeInv /\ [Next]_vars => TreeInv'
<1> SUFFICES ASSUME TreeInv, [Next]_vars PROVE TreeInv'
  OBVIOUS
<1> USE DEF TreeInv
<1>1. CASE Route
  <2>1. PICK mem \in IF plain THEN StubMemory ELSE Memory,
             adjust \in IF plain THEN {NoAdaptation} ELSE Adaptation :
          strategy' \in Evaluate(task, mem, adjust)
    BY <1>1 DEF Route
  <2>2. strategy' \in Strategy \cup {"none"}
    <3>1. Override(task) \in Strategy \cup {"none"}
      BY DEF Override, TypeOK, Attributes, Strategy
    <3>2. Scored \subseteq Strategy
      BY DEF Scored, Strategy
    <3> QED BY <2>1, <3>1, <3>2 DEF Evaluate, Tiebreak
  <2>3. plain /\ strategy' = "escalate" => Restricted(task) \/ task.force = "escalate"
    BY <2>1, EscalatedAreRestricted DEF TypeOK
  <2>4. UNCHANGED <<plain, root, task>>
    BY <1>1 DEF Route
  <2> QED BY <2>2, <2>3, <2>4 DEF TypeOK, Restricted
<1>2. CASE Descend
  <2>1. ChildScope(task.scope) \in Scope
    BY DEF ChildScope, Scope
  <2>2. task' \in Attributes /\ task'.type = task.type
    BY <1>2, <2>1 DEF Descend, Child, TypeOK, Attributes, Strategy
  <2> QED BY <1>2, <2>2 DEF Descend, TypeOK
<1>3. CASE UNCHANGED vars
  BY <1>3 DEF vars, TypeOK, Restricted
<1> QED BY <1>1, <1>2, <1>3 DEF Next

\* Every reachable branch satisfies the invariant.
LEMMA TreeInvAlways == Spec => []TreeInv
BY TreeInit, TreeNext, PTL DEF Spec

\* No branch of a deployment reaches a task that policy allows without an
\* approval: Child copies the type, and the rule on deployments outranks every
\* weaker outcome of policy.EvaluatePolicy.
THEOREM GateIsInheritedAlways == Spec => []GateIsInherited
<1>1. TreeInv => GateIsInherited
  BY RestrictedIsGated DEF TreeInv, GateIsInherited, Restricted, Gated
<1> QED BY <1>1, TreeInvAlways, PTL

\* Without statistics and with the memory stub, what the scores or an override
\* hand to a human needs an approval: routing.Evaluate prefers decompose to
\* escalate for every task the approval rules do not gate.
THEOREM EscalationIsGatedAlways == Spec => []EscalationIsGated
<1>1. TreeInv => EscalationIsGated
  BY RestrictedIsGated DEF TreeInv, EscalationIsGated, Gated
<1> QED BY <1>1, TreeInvAlways, PTL

---------------------------------------------------------------------------
\* The length of a branch

Calm == plain /\ root.risk \in {"low", "medium"}

Levels == [file |-> 0, module |-> 1, repo |-> 2, system |-> 3]

\* The branch has used up one level of scope per step; only the root may be
\* forced, so only a root of file scope is decomposed without losing a level.
DepthInv ==
  /\ depth \in Nat
  /\ task.risk = root.risk
  /\ task.force # "none" => depth = 0
  /\ Calm => /\ depth <= 3
             /\ task.scope # "file" => depth + Levels[task.scope] <= 3
             /\ strategy = "decompose" /\ task.scope = "file" => task.force = "decompose"

\* Of a task of file scope and low or medium risk, direct scores strictly more
\* than decompose: it leads by 1500 on scope and trails by at most 300 on risk,
\* 800 on type and 100 on priority.
LEMMA DirectBeatsDecompose ==
  ASSUME NEW t \in Attributes, t.scope = "file", t.risk \in {"low", "medium"},
         NEW mem \in StubMemory
  PROVE  /\ Score(t, mem, "direct") \in Int
         /\ Score(t, mem, "decompose") \in Int
         /\ Score(t, mem, "decompose") < Score(t, mem, "direct")
<1> DEFINE r(s) == RiskScore[s][t.risk]
           c(s) == ScopeScore[s][t.scope]
           y(s) == TypeScore[s][t.type]
           p(s) == PriorityScore[s][t.priority]
           m(s) == SimilarScore(mem)[s]
           h(s) == HeuristicScore(mem)[s]
<1>1. /\ r("direct") \in Int /\ r("decompose") \in Int
      /\ r("decompose") <= r("direct") + 10
  BY DEF RiskScore
<1>2. /\ c("direct") \in Int /\ c("decompose") \in Int
      /\ c("decompose") + 60 <= c("direct")
  BY DEF ScopeScore
<1>3. /\ y("direct") \in Int /\ y("decompose") \in Int
      /\ y("decompose") <= y("direct") + 40
  BY DEF Attributes, TaskType, TypeScore
<1>4. /\ p("direct") \in Int /\ p("decompose") \in Int
      /\ p("decompose") <= p("direct") + 10
  BY DEF Attributes, Priority, PriorityScore
<1>5. /\ m("direct") \in Int /\ m("decompose") \in Int
      /\ m("decompose") <= m("direct")
  BY DEF StubMemory, NoMemory, SimilarScore, Scored
<1>6. /\ h("direct") \in Int /\ h("decompose") \in Int
      /\ h("decompose") <= h("direct")
  BY DEF StubMemory, NoMemory, HeuristicScore, Scored
<1>7. /\ Score(t, mem, "direct")
           = 30 * r("direct") + 25 * c("direct") + 20 * y("direct")
             + 10 * p("direct") + 10 * m("direct") + 5 * h("direct")
      /\ Score(t, mem, "decompose")
           = 30 * r("decompose") + 25 * c("decompose") + 20 * y("decompose")
             + 10 * p("decompose") + 10 * m("decompose") + 5 * h("decompose")
  BY DEF Score
<1> HIDE DEF r, c, y, p, m, h
<1> QED BY <1>1, <1>2, <1>3, <1>4, <1>5, <1>6, <1>7

\* routing.Evaluate of a plain service splits such a task only when
\* force_strategy asks for it.
LEMMA FilesAreNotSplit ==
  ASSUME NEW t \in Attributes, t.scope = "file", t.risk \in {"low", "medium"},
         NEW mem \in StubMemory, "decompose" \in Evaluate(t, mem, NoAdaptation)
  PROVE  t.force = "decompose"
<1> SUFFICES ASSUME t.force # "decompose" PROVE FALSE
  OBVIOUS
<1> DEFINE scores == [s \in Scored |-> Score(t, mem, s) + NoAdaptation[s]]
<1>1. Override(t) = t.force
  BY DEF Override
<1>2. "decompose" \in Tiebreak(scores)
  BY <1>1 DEF Evaluate
<1>3. scores["direct"] <= scores["decompose"]
  BY <1>2 DEF Tiebreak, Scored
<1>4. Score(t, mem, "direct") + 0 <= Score(t, mem, "decompose") + 0
  BY <1>3 DEF Scored, NoAdaptation
<1> QED BY <1>4, DirectBeatsDecompose

\* Routing and descending preserve the depth invariant.
LEMMA DepthNext == TreeInv /\ DepthInv /\ [Next]_vars => DepthInv'
<1> SUFFICES ASSUME TreeInv, DepthInv, [Next]_vars PROVE DepthInv'
  OBVIOUS
<1> USE DEF DepthInv, Calm
<1>1. CASE Route
  <2>1. PICK mem \in IF plain THEN StubMemory ELSE Memory,
             adjust \in IF plain THEN {NoAdaptation} ELSE Adaptation :
          strategy' \in Evaluate(task, mem, adjust)
    BY <1>1 DEF Route
  <2>2. Calm /\ strategy' = "decompose" /\ task.scope = "file" => task.force = "decompose"
    BY <2>1, FilesAreNotSplit DEF TreeInv, TypeOK
  <2>3. UNCHANGED <<plain, root, task, depth>>
    BY <1>1 DEF Route
  <2> QED BY <2>2, <2>3
<1>2. CASE Descend
  <2>1. /\ task'.risk = task.risk /\ task'.force = "none"
        /\ task'.scope = ChildScope(task.scope)
    BY <1>2 DEF Descend, Child, TreeInv, TypeOK, Attributes
  <2>2. strategy = "decompose" /\ strategy' = "none" /\ depth' = depth + 1
        /\ UNCHANGED <<plain, root>>
    BY <1>2 DEF Descend
  <2>3. task.scope \in {"file", "module", "repo", "system"}
    BY DEF TreeInv, TypeOK, Attributes, Scope
  <2>4. CASE task.scope = "file"
    <3>1. task'.scope = "file"
      BY <2>1, <2>4 DEF ChildScope
    <3> QED BY <2>1, <2>2, <2>4, <3>1
  <2>5. CASE task.scope = "module"
    <3>1. task'.scope = "file"
      BY <2>1, <2>5 DEF ChildScope
    <3> QED BY <2>1, <2>2, <2>5, <3>1 DEF Levels
  <2>6. CASE task.scope = "repo"
    <3>1. task'.scope = "module"
      BY <2>1, <2>6 DEF ChildScope
    <3> QED BY <2>1, <2>2, <2>6, <3>1 DEF Levels
  <2>7. CASE task.scope = "system"
    <3>1. task'.scope = "repo"
      BY <2>1, <2>7 DEF ChildScope
    <3> QED BY <2>1, <2>2, <2>7, <3>1 DEF Levels
  <2> QED BY <2>3, <2>4, <2>5, <2>6, <2>7
<1>3. CASE UNCHANGED vars
  BY <1>3 DEF vars
<1> QED BY <1>1, <1>2, <1>3 DEF Next

\* Without statistics and with the memory stub, no branch of a task of low or
\* medium risk is longer than the scopes are deep, whatever MaxDepth: the bound
\* behind DecompositionEnds.
THEOREM DecompositionIsBounded ==
  Spec => [](plain /\ root.risk \in {"low", "medium"} => depth <= 3)
<1>1. Init => DepthInv
  <2> SUFFICES ASSUME Init PROVE DepthInv
    OBVIOUS
  <2>1. task.scope \in {"file", "module", "repo", "system"}
    BY TreeInit DEF TreeInv, TypeOK, Attributes, Scope
  <2> QED BY <2>1 DEF Init, DepthInv, Levels
<1>2. DepthInv => (plain /\ root.risk \in {"low", "medium"} => depth <= 3)
  BY DEF DepthInv, Calm
<1> QED BY <1>1, <1>2, DepthNext, TreeInvAlways, PTL DEF Spec
=============================================================================

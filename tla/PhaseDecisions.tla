--------------------------- MODULE PhaseDecisions ---------------------------
(***************************************************************************)
(* The facade an orchestrator asks before each phase of a change: a phase  *)
(* or sensitive decision, which is stored and always allows, and the       *)
(* status of the approval gate, which it polls.                            *)
(*                                                                         *)
(* The orchestrator is outside this repository: it repeats a question      *)
(* until it is answered, then goes on if the answer lets it.  So are the   *)
(* people who open and decide gates: no code here writes phase_approvals.  *)
(***************************************************************************)
EXTENDS Server

CONSTANTS
  Client,     \* orchestrator workers, each with one change and phase
  Sensitive   \* those that ask about a sensitive capability, which has no gate

ASSUME ClientAssumption == Sensitive \subseteq Client

VARIABLES
  client,    \* what each worker is doing
  decisions, \* phase_decisions: rows by worker
  gate,      \* phase_approvals: the row of each worker's phase
  opened     \* history: whether a gate was opened before or after it was read

phaseVars == <<client, decisions, gate, opened>>

PhaseInit ==
  /\ decisions = [c \in Client |-> 0]
  /\ gate = [c \in Client |-> "none"]
  /\ opened = [c \in Client |-> "no"]

Waiting(c) ==
  \E t \in Thread : req[t].op \in {"evaluate", "poll"} /\ req[t].who = c /\ req[t].heard

---------------------------------------------------------------------------
\* EvaluatePhase and EvaluateSensitive

Ask(t, c) ==
  /\ client[c] = "asking"
  /\ ~ Waiting(c)
  /\ Accept(t, Request("evaluate", "save", c))
  /\ UNCHANGED <<process, clock, issued, faults, phaseVars>>

EvaluatePhase(t, c) == c \notin Sensitive /\ Ask(t, c)

EvaluateSensitive(t, c) == c \in Sensitive /\ Ask(t, c)

Evaluate(t, c) == EvaluatePhase(t, c) \/ EvaluateSensitive(t, c)

\* A change, phase or capability is missing: an answer, but no row.
EvaluateInvalid(c) ==
  /\ process = "serving"
  /\ client[c] = "asking"
  /\ ~ Waiting(c)
  /\ client' = [client EXCEPT ![c] = "rejected"]
  /\ UNCHANGED <<serverVars, decisions, gate, opened>>

\* Each question gets an identifier, and so a row, of its own.
InsertDecision(c) == decisions' = [decisions EXCEPT ![c] = @ + 1]

\* Mutant: one row per change, so that a repeated question is refused.
SaveDecisionUnique(t) ==
  /\ At(t, "evaluate", "save")
  /\ IF decisions[req[t].who] = 0
       THEN /\ InsertDecision(req[t].who)
            /\ Goto(t, [req[t] EXCEPT !.pc = "respond", !.answer = "allow"])
       ELSE Return(t) /\ UNCHANGED decisions
  /\ UNCHANGED <<process, clock, issued, faults, client, gate, opened>>

\* Mutant: the row is written after the answer, if at all.
SaveDecisionLater(t) ==
  /\ At(t, "evaluate", "save")
  /\ Goto(t, [req[t] EXCEPT !.pc = "respond", !.answer = "allow"])
  /\ UNCHANGED <<process, clock, issued, faults, phaseVars>>

SaveDecision(t) ==
  /\ At(t, "evaluate", "save")
  /\ InsertDecision(req[t].who)
  /\ Goto(t, [req[t] EXCEPT !.pc = "respond", !.answer = "allow"])
  /\ UNCHANGED <<process, clock, issued, faults, client, gate, opened>>

\* The decision reaches the worker, which goes on to its gate if it has one.
RespondDecision(t) ==
  /\ At(t, "evaluate", "respond")
  /\ LET c == req[t].who IN
     client' = IF req[t].heard
                 THEN [client EXCEPT ![c] = IF c \in Sensitive THEN "proceeding" ELSE "polling"]
                 ELSE client
  /\ Return(t)
  /\ UNCHANGED <<process, clock, issued, faults, decisions, gate, opened>>

---------------------------------------------------------------------------
\* ApprovalStatusFor

\* Mutant: a gate nobody has decided yet counts as none.
ApprovalStatusForMutant(row) == IF row \in {"none", "pending"} THEN "granted" ELSE row

\* No row means that there is no explicit gate.
ApprovalStatusFor(row) == IF row = "none" THEN "granted" ELSE row

Find(c) == gate[c]

Poll(t, c) ==
  /\ client[c] = "polling"
  /\ ~ Waiting(c)
  /\ Accept(t, [Request("poll", "respond", c) EXCEPT !.answer = ApprovalStatusFor(Find(c))])
  /\ UNCHANGED <<process, clock, issued, faults, phaseVars>>

RespondPoll(t) ==
  /\ At(t, "poll", "respond")
  /\ client' = IF ~ req[t].heard THEN client
               ELSE [client EXCEPT ![req[t].who] =
                       CASE req[t].answer = "granted" -> "proceeding"
                         [] req[t].answer = "denied" -> "stopped"
                         [] OTHER -> @]
  /\ Return(t)
  /\ UNCHANGED <<process, clock, issued, faults, decisions, gate, opened>>

\* The worker has read, or is about to read, that it has no gate.
Passing(c) ==
  \/ client[c] = "proceeding"
  \/ \E t \in Thread : /\ At(t, "poll", "respond") /\ req[t].who = c
                       /\ req[t].answer = "granted" /\ req[t].heard

OpenGate(c) ==
  /\ gate[c] = "none"
  /\ gate' = [gate EXCEPT ![c] = "pending"]
  /\ opened' = [opened EXCEPT ![c] = IF Passing(c) THEN "late" ELSE "early"]
  /\ UNCHANGED <<serverVars, client, decisions>>

DecideGate(c, status) ==
  /\ gate[c] = "pending"
  /\ gate' = [gate EXCEPT ![c] = status]
  /\ UNCHANGED <<serverVars, client, decisions, opened>>

PhaseStep ==
  \/ \E t \in Thread : SaveDecision(t) \/ RespondDecision(t) \/ RespondPoll(t)
  \/ \E t \in Thread, c \in Client : Evaluate(t, c) \/ Poll(t, c)
  \/ \E c \in Client : EvaluateInvalid(c)
  \/ \E c \in Client \ Sensitive :
       OpenGate(c) \/ \E status \in {"granted", "denied"} : DecideGate(c, status)

---------------------------------------------------------------------------

\* A worker goes past its decision only with a row in phase_decisions, however
\* often the process was stopped or the question repeated.
AllowIsRecorded ==
  \A c \in Client : client[c] \in {"polling", "proceeding", "stopped"} => decisions[c] > 0

\* A gate that was opened before its worker found none is passed only once it
\* is granted, whatever polls failed, were repeated or answered late.
GateIsRespected ==
  \A c \in Client : client[c] = "proceeding" /\ opened[c] = "early" => gate[c] = "granted"
=============================================================================

------------------------------- MODULE Facade -------------------------------
(***************************************************************************)
(* The components that share the server but no table with the workflows'   *)
(* own services: phase decisions, escalations and the lists.               *)
(***************************************************************************)
EXTENDS PhaseDecisions, Paging

vars == <<serverVars, phaseVars, escalationVars, pagingVars>>

Next ==
  \/ ServerStep /\ UNCHANGED <<phaseVars, escalationVars, pagingVars>>
  \/ PhaseStep /\ UNCHANGED <<escalationVars, pagingVars>>
  \/ EscalationStep /\ UNCHANGED <<phaseVars, pagingVars>>
  \/ PagingStep /\ UNCHANGED phaseVars

\* Tables of any content, except that no entry is about a task of Task yet, and
\* that the workers are there or not, and a reader is.
Init ==
  /\ ServerInit
  /\ PhaseInit
  /\ EscalationInit
  /\ PagingInit
  /\ clock \in Nat \ {0}
  /\ client \in [Client -> {"asking", "away"}]
  /\ pager \in {NotReading, Ready}
  /\ entries \in [EntryID -> {NoEntry} \cup [at : 1..clock, task : {Nobody}]]
  /\ runs \in [RunID -> {NoRun} \cup [at : 1..clock, match : BOOLEAN]]

\* A request in flight goes on to its next statement.
Proceed(t) ==
  \/ /\ SaveDecision(t) \/ RespondDecision(t) \/ RespondPoll(t)
     /\ UNCHANGED <<escalationVars, pagingVars>>
  \/ /\ \/ SaveTrigger(t)
        \/ \E at \in {clock, clock + 1} : NewAuditEntry(t, at)
        \/ AppendEntry(t)
        \/ RespondEscalation(t)
     /\ UNCHANGED <<phaseVars, pagingVars>>
  \/ (\E match \in Matching : WriteRun(t, match)) /\ UNCHANGED phaseVars

\* The goroutines run, Shutdown's timer ends, the process is started again, and
\* a client that waits for an answer asks again.
Fairness ==
  /\ \A t \in Thread : WF_vars(Proceed(t))
  /\ WF_vars((Drained \/ (process = "draining" /\ CutOff) \/ Start)
              /\ UNCHANGED <<phaseVars, escalationVars, pagingVars>>)
  /\ \A c \in Client :
       WF_vars((\E t \in Thread : Evaluate(t, c)) /\ UNCHANGED <<escalationVars, pagingVars>>)

Spec == Init /\ [][Next]_vars

---------------------------------------------------------------------------

\* A worker that asks for a decision gets one, although questions and answers
\* are lost and the process is stopped: asking again is harmless, for each
\* question gets a row of its own.
DecisionArrives ==
  \A c \in Client : client[c] = "asking" ~> client[c] # "asking"
=============================================================================

---------------------------- MODULE FacadeProofs ----------------------------
(***************************************************************************)
(* What the facade keeps for every number of threads, workers, tasks, runs *)
(* and entries, every limit and every number of requests and faults.       *)
(***************************************************************************)
EXTENDS FacadeInv, FiniteSetTheorems, TLAPS

---------------------------------------------------------------------------
\* Requests

LEMMA IdleOK == Idle \in Frame /\ FrameOK(Idle)
BY DEF Idle, Frame, FrameOK

\* A request that is replaced by a good one leaves all requests good.
LEMMA FramesUpdate ==
  ASSUME FramesOK, NEW t \in Thread, NEW f, FrameOK(f), Goto(t, f), clock' \in Nat \ {0}
  PROVE  FramesOK'
BY DEF FramesOK, FrameOK, Goto

LEMMA FramesReturn ==
  ASSUME FramesOK, NEW t \in Thread, Return(t), UNCHANGED clock
  PROVE  FramesOK'
BY FramesUpdate, IdleOK DEF Return, FramesOK

LEMMA FramesInit == Init => FramesOK
BY IdleOK DEF Init, ServerInit, FramesOK

LEMMA FramesServer == FramesOK /\ ServerStep => FramesOK'
<1> SUFFICES ASSUME FramesOK, ServerStep PROVE FramesOK'
  OBVIOUS
<1>1. ASSUME NEW t \in Thread, Fail(t) PROVE FramesOK'
  BY <1>1, FramesReturn DEF Fail
<1>2. ASSUME NEW t \in Thread, HangUp(t) PROVE FramesOK'
  <2>1. FrameOK([req[t] EXCEPT !.heard = FALSE])
    BY ZenonT(40) DEF FramesOK, FrameOK, Frame
  <2> QED
    BY <1>2, <2>1, FramesUpdate DEF HangUp, FramesOK
<1>3. CASE Signal \/ Drained \/ Start
  BY <1>3 DEF Signal, Drained, Start, FramesOK
<1>4. CASE CutOff
  BY <1>4, IdleOK DEF CutOff, FramesOK
<1> QED
  BY <1>1, <1>2, <1>3, <1>4 DEF ServerStep

LEMMA FramesPhase == FramesOK /\ GatesOK /\ PhaseStep => FramesOK'
<1> SUFFICES ASSUME FramesOK, GatesOK, PhaseStep PROVE FramesOK'
  OBVIOUS
<1>1. ASSUME NEW t \in Thread, NEW c \in Client, Evaluate(t, c) PROVE FramesOK'
  <2>1. FrameOK(Request("evaluate", "save", c))
    BY ZenonT(40) DEF Request, Idle, Frame, FrameOK
  <2> QED
    BY <1>1, <2>1, FramesUpdate
       DEF Evaluate, EvaluatePhase, EvaluateSensitive, Ask, Accept, FramesOK
<1>2. ASSUME NEW t \in Thread, NEW c \in Client, Poll(t, c) PROVE FramesOK'
  <2>1. ApprovalStatusFor(Find(c)) \in {"granted", "denied", "pending"}
    BY DEF ApprovalStatusFor, Find, GatesOK
  <2>2. FrameOK([Request("poll", "respond", c) EXCEPT !.answer = ApprovalStatusFor(Find(c))])
    BY ZenonT(40), <2>1 DEF Request, Idle, Frame, FrameOK
  <2> QED
    BY <1>2, <2>2, FramesUpdate DEF Poll, Accept, FramesOK
<1>3. ASSUME NEW t \in Thread, SaveDecision(t) PROVE FramesOK'
  <2>1. FrameOK([req[t] EXCEPT !.pc = "respond", !.answer = "allow"])
    BY ZenonT(40), <1>3 DEF SaveDecision, At, FramesOK, FrameOK, Frame
  <2> QED
    BY <1>3, <2>1, FramesUpdate DEF SaveDecision, FramesOK
<1>4. ASSUME NEW t \in Thread, RespondDecision(t) \/ RespondPoll(t) PROVE FramesOK'
  BY <1>4, FramesReturn DEF RespondDecision, RespondPoll
<1>5. ASSUME NEW c \in Client,
             EvaluateInvalid(c) \/ OpenGate(c) \/ \E s \in {"granted", "denied"} : DecideGate(c, s)
      PROVE FramesOK'
  BY <1>5 DEF EvaluateInvalid, OpenGate, DecideGate, serverVars, FramesOK
<1> QED
  BY <1>1, <1>2, <1>3, <1>4, <1>5, ClientAssumption DEF PhaseStep

LEMMA FramesEscalation == FramesOK /\ EscalationStep => FramesOK'
<1> SUFFICES ASSUME FramesOK, EscalationStep PROVE FramesOK'
  OBVIOUS
<1>1. ASSUME NEW t \in Thread, NEW k \in Task, TriggerEscalation(t, k) PROVE FramesOK'
  <2>1. FrameOK(Request("escalate", "save", k))
    BY ZenonT(40) DEF Request, Idle, Frame, FrameOK
  <2> QED
    BY <1>1, <2>1, FramesUpdate DEF TriggerEscalation, Accept, FramesOK
<1>2. ASSUME NEW t \in Thread, SaveTrigger(t) PROVE FramesOK'
  <2>1. FrameOK([req[t] EXCEPT !.pc = "record"])
    BY <1>2 DEF SaveTrigger, At, FramesOK, FrameOK, Frame
  <2> QED
    BY <1>2, <2>1, FramesUpdate, FramesReturn DEF SaveTrigger, FramesOK
<1>3. ASSUME NEW t \in Thread, NEW at \in {clock, clock + 1}, NewAuditEntry(t, at)
      PROVE FramesOK'
  <2>1. at \in Nat \ {0}
    BY DEF FramesOK
  <2>2. FrameOK([req[t] EXCEPT !.pc = "append", !.at = at])
    <3>1. at > 0
      BY <2>1
    <3> QED
      BY ZenonT(40), <1>3, <2>1, <3>1 DEF NewAuditEntry, At, FramesOK, FrameOK, Frame
  <2> QED
    BY <1>3, <2>1, <2>2, FramesUpdate DEF NewAuditEntry, Stamped
<1>4. ASSUME NEW t \in Thread, AppendEntry(t) \/ AppendEntryFault(t) PROVE FramesOK'
  <2>1. FrameOK([req[t] EXCEPT !.pc = "respond"])
    BY DEF FramesOK, FrameOK, Frame
  <2> QED
    BY <1>4, <2>1, FramesUpdate DEF AppendEntry, AppendEntryFault, FramesOK
<1>5. ASSUME NEW t \in Thread, RespondEscalation(t) PROVE FramesOK'
  BY <1>5, FramesReturn DEF RespondEscalation
<1> QED
  BY <1>1, <1>2, <1>3, <1>4, <1>5 DEF EscalationStep

LEMMA FramesPaging == FramesOK /\ PagingStep => FramesOK'
<1> SUFFICES ASSUME FramesOK, PagingStep PROVE FramesOK'
  OBVIOUS
<1>1. ASSUME NEW t \in Thread, NEW r \in RunID, NEW at \in {clock, clock + 1}, LoadRun(t, r, at)
      PROVE FramesOK'
  <2>1. at \in Nat \ {0}
    BY DEF FramesOK
  <2>2. FrameOK([Request("update", "write", r) EXCEPT !.at = at])
    <3>1. at > 0
      BY <2>1
    <3> QED
      BY ZenonT(40), <2>1, <3>1 DEF Request, Idle, FrameOK, Frame
  <2> QED
    BY <1>1, <2>1, <2>2, FramesUpdate DEF LoadRun, Stamped, Accept
<1>2. ASSUME NEW t \in Thread, NEW match \in Matching, WriteRun(t, match) PROVE FramesOK'
  BY <1>2, FramesReturn DEF WriteRun
<1>3. ASSUME NEW list, NEW filtered, NEW asked, BeginPaging(list, filtered, asked)
      PROVE FramesOK'
  BY <1>3 DEF BeginPaging, serverVars, FramesOK
<1>4. CASE ReadPage
  BY <1>4 DEF ReadPage, serverVars, FramesOK
<1>5. CASE CutPage
  BY <1>5 DEF CutPage, FramesOK
<1> QED
  BY <1>1, <1>2, <1>3, <1>4, <1>5 DEF PagingStep

---------------------------------------------------------------------------
\* Decisions

LEMMA DecisionsInit == Init => DecisionsOK
BY DEF Init, ServerInit, PhaseInit, Idle, DecisionsOK, AllowIsRecorded, At

\* Steps that are not about workers keep the requests that are, except that
\* these end or lose their listener.
PhaseFramesKept ==
  \A t \in Thread : req'[t].op \in {"evaluate", "poll"} =>
    /\ req[t].op = req'[t].op /\ req[t].pc = req'[t].pc /\ req[t].who = req'[t].who
    /\ req[t].answer = req'[t].answer
    /\ req'[t].heard => req[t].heard

LEMMA ServerKeepsPhaseFrames == FramesOK /\ ServerStep => PhaseFramesKept
<1> SUFFICES ASSUME FramesOK, ServerStep PROVE PhaseFramesKept
  OBVIOUS
<1>1. ASSUME NEW t \in Thread, Fail(t) PROVE PhaseFramesKept
  BY <1>1 DEF Fail, Return, Goto, FramesOK, Idle, PhaseFramesKept
<1>2. ASSUME NEW t \in Thread, HangUp(t) PROVE PhaseFramesKept
  BY <1>2 DEF HangUp, Goto, FramesOK, Frame, PhaseFramesKept
<1>3. CASE Signal \/ Drained \/ Start
  BY <1>3 DEF Signal, Drained, Start, PhaseFramesKept
<1>4. CASE CutOff
  BY <1>4 DEF CutOff, Idle, PhaseFramesKept
<1> QED
  BY <1>1, <1>2, <1>3, <1>4 DEF ServerStep

LEMMA OthersKeepPhaseFrames == FramesOK /\ (EscalationStep \/ PagingStep) => PhaseFramesKept
<1> SUFFICES ASSUME FramesOK, EscalationStep \/ PagingStep PROVE PhaseFramesKept
  OBVIOUS
<1>1. ASSUME NEW t \in Thread, NEW k \in Task, TriggerEscalation(t, k) PROVE PhaseFramesKept
  BY <1>1 DEF TriggerEscalation, Accept, Goto, Request, Idle, FramesOK, PhaseFramesKept
<1>2. ASSUME NEW t \in Thread, SaveTrigger(t) PROVE PhaseFramesKept
  BY <1>2 DEF SaveTrigger, At, Return, Goto, FramesOK, Frame, Idle, PhaseFramesKept
<1>3. ASSUME NEW t \in Thread, NEW at, NewAuditEntry(t, at) PROVE PhaseFramesKept
  BY <1>3 DEF NewAuditEntry, At, Goto, FramesOK, Frame, PhaseFramesKept
<1>4. ASSUME NEW t \in Thread, AppendEntry(t) \/ AppendEntryFault(t) PROVE PhaseFramesKept
  BY <1>4 DEF AppendEntry, AppendEntryFault, At, Goto, FramesOK, Frame, PhaseFramesKept
<1>5. ASSUME NEW t \in Thread, RespondEscalation(t) PROVE PhaseFramesKept
  BY <1>5 DEF RespondEscalation, Return, Goto, FramesOK, Idle, PhaseFramesKept
<1>6. ASSUME NEW t \in Thread, NEW r, NEW at, LoadRun(t, r, at) PROVE PhaseFramesKept
  BY <1>6 DEF LoadRun, Accept, Goto, Request, Idle, FramesOK, PhaseFramesKept
<1>7. ASSUME NEW t \in Thread, NEW match, WriteRun(t, match) PROVE PhaseFramesKept
  BY <1>7 DEF WriteRun, Return, Goto, FramesOK, Idle, PhaseFramesKept
<1>8. ASSUME NEW list, NEW filtered, NEW asked, BeginPaging(list, filtered, asked)
      PROVE PhaseFramesKept
  BY <1>8 DEF BeginPaging, serverVars, PhaseFramesKept
<1>9. CASE ReadPage \/ CutPage
  BY <1>9 DEF ReadPage, CutPage, serverVars, PhaseFramesKept
<1> QED
  BY <1>1, <1>2, <1>3, <1>4, <1>5, <1>6, <1>7, <1>8, <1>9 DEF EscalationStep, PagingStep

LEMMA DecisionsOthers ==
  DecisionsOK /\ PhaseFramesKept /\ UNCHANGED phaseVars => DecisionsOK'
BY DEF DecisionsOK, PhaseFramesKept, phaseVars, AllowIsRecorded, At

LEMMA DecisionsPhase == FramesOK /\ DecisionsOK /\ PhaseStep => DecisionsOK'
<1> SUFFICES ASSUME FramesOK, DecisionsOK, PhaseStep PROVE DecisionsOK'
  OBVIOUS
<1> USE DEF DecisionsOK, AllowIsRecorded
<1>1. ASSUME NEW t \in Thread, NEW c \in Client, Evaluate(t, c) PROVE DecisionsOK'
  BY ZenonT(40), <1>1 DEF Evaluate, EvaluatePhase, EvaluateSensitive, Ask, Accept, Goto, Request, Idle, At,
              FramesOK, phaseVars
<1>2. ASSUME NEW t \in Thread, NEW c \in Client, Poll(t, c) PROVE DecisionsOK'
  BY <1>2 DEF Poll, Accept, Goto, Request, Idle, At, FramesOK, phaseVars
<1>3. ASSUME NEW t \in Thread, SaveDecision(t) PROVE DecisionsOK'
  <2>1. req[t].who \in Client /\ req[t].op = "evaluate"
    BY <1>3 DEF SaveDecision, At, FramesOK, FrameOK
  <2>2. /\ decisions' \in [Client -> Nat]
        /\ decisions'[req[t].who] > 0
        /\ \A c \in Client : decisions[c] > 0 => decisions'[c] > 0
    BY <1>3, <2>1 DEF SaveDecision, InsertDecision
  <2>3. \A u \in Thread : /\ u # t => req'[u] = req[u]
                          /\ req'[u].who = req[u].who
                          /\ req'[u].op = req[u].op
    BY <1>3 DEF SaveDecision, Goto, FramesOK, Frame
  <2>4. \A u \in Thread : req[u].op \in {"evaluate", "poll"} => req[u].who \in Client
    BY DEF FramesOK, FrameOK
  <2> QED
    BY <1>3, <2>1, <2>2, <2>3, <2>4 DEF SaveDecision, At
<1>4. ASSUME NEW t \in Thread, RespondDecision(t) PROVE DecisionsOK'
  BY <1>4 DEF RespondDecision, Return, Goto, Idle, At, FramesOK, FrameOK
<1>5. ASSUME NEW t \in Thread, RespondPoll(t) PROVE DecisionsOK'
  BY <1>5 DEF RespondPoll, Return, Goto, Idle, At, FramesOK, FrameOK
<1>6. ASSUME NEW c \in Client,
             EvaluateInvalid(c) \/ OpenGate(c) \/ \E s \in {"granted", "denied"} : DecideGate(c, s)
      PROVE DecisionsOK'
  BY <1>6 DEF EvaluateInvalid, OpenGate, DecideGate, serverVars, At
<1> QED
  BY <1>1, <1>2, <1>3, <1>4, <1>5, <1>6, ClientAssumption DEF PhaseStep

---------------------------------------------------------------------------
\* Gates

LEMMA GatesInit == Init => GatesOK
BY ClientAssumption DEF Init, ServerInit, PhaseInit, Idle, GatesOK, GateIsRespected

LEMMA GatesOthers ==
  GatesOK /\ PhaseFramesKept /\ UNCHANGED phaseVars => GatesOK'
BY DEF GatesOK, PhaseFramesKept, phaseVars, GateIsRespected

LEMMA GatesPhase ==
  FramesOK /\ DecisionsOK /\ GatesOK /\ PhaseStep => GatesOK'
<1> SUFFICES ASSUME FramesOK, DecisionsOK, GatesOK, PhaseStep PROVE GatesOK'
  OBVIOUS
<1> USE DEF GatesOK, GateIsRespected
<1>0. client \in [Client -> {"asking", "rejected", "polling", "proceeding", "stopped", "away"}]
  BY DEF DecisionsOK
<1>1. ASSUME NEW t \in Thread, NEW c \in Client, Evaluate(t, c) PROVE GatesOK'
  <2>1. Ask(t, c)
    BY <1>1 DEF Evaluate, EvaluatePhase, EvaluateSensitive
  <2>2. \A u \in Thread : req'[u].op = "poll" => req'[u] = req[u]
    BY <2>1 DEF Ask, Accept, Goto, Request, Idle, FramesOK
  <2> QED
    BY <2>1, <2>2 DEF Ask, phaseVars
<1>2. ASSUME NEW t \in Thread, NEW c \in Client, Poll(t, c) PROVE GatesOK'
  BY <1>2 DEF Poll, Find, ApprovalStatusFor, Accept, Goto, Request, Idle, FramesOK, phaseVars
<1>3. ASSUME NEW t \in Thread, SaveDecision(t) PROVE GatesOK'
  BY <1>3 DEF SaveDecision, Goto, At, FramesOK, Frame
<1>4. ASSUME NEW t \in Thread, RespondDecision(t) PROVE GatesOK'
  <2>1. req[t].who \in Client
    BY <1>4 DEF RespondDecision, At, FramesOK, FrameOK
  <2>2. \A c \in Client : client'[c] = "proceeding" /\ client[c] # "proceeding" => c \in Sensitive
    BY <1>0, <1>4, <2>1 DEF RespondDecision
  <2>3. GateIsRespected'
    BY <1>4, <2>2 DEF RespondDecision
  <2> QED
    BY <1>4, <2>3 DEF RespondDecision, Return, Goto, Idle, FramesOK
<1>5. ASSUME NEW t \in Thread, RespondPoll(t) PROVE GatesOK'
  <2>1. req[t].who \in Client /\ req[t].op = "poll"
    BY <1>5 DEF RespondPoll, At, FramesOK, FrameOK
  <2>2. \A c \in Client : client'[c] = "proceeding" /\ client[c] # "proceeding" =>
          c = req[t].who /\ req[t].heard /\ req[t].answer = "granted"
    BY <1>0, <1>5, <2>1 DEF RespondPoll
  <2>3. GateIsRespected'
    BY <1>5, <2>1, <2>2 DEF RespondPoll
  <2> QED
    BY <1>5, <2>3 DEF RespondPoll, Return, Goto, Idle, FramesOK
<1>6. ASSUME NEW c \in Client, EvaluateInvalid(c) PROVE GatesOK'
  BY <1>0, <1>6 DEF EvaluateInvalid, serverVars
<1>7. ASSUME NEW c \in Client \ Sensitive, OpenGate(c) PROVE GatesOK'
  <2>1. \A t \in Thread : req[t].op = "poll" => req[t].pc = "respond" /\ req[t].who \in Client
    BY DEF FramesOK, FrameOK
  <2>2. \A t \in Thread :
          req[t].op = "poll" /\ req[t].heard /\ req[t].answer = "granted" /\ req[t].who = c
            => opened'[c] = "late"
    BY <1>7, <2>1 DEF OpenGate, Passing, At
  <2>3. client[c] = "proceeding" => opened'[c] = "late"
    BY <1>7 DEF OpenGate, Passing
  <2>4. /\ UNCHANGED <<req, client>>
        /\ gate' = [gate EXCEPT ![c] = "pending"]
        /\ \A d \in Client : d # c => opened'[d] = opened[d]
        /\ opened'[c] \in {"early", "late"}
        /\ opened' \in [Client -> {"no", "early", "late"}]
        /\ gate[c] = "none"
    BY <1>7 DEF OpenGate, serverVars
  <2>5. GateIsRespected'
    BY <2>3, <2>4
  <2>6. \A t \in Thread :
          req[t].op = "poll" /\ req[t].heard /\ req[t].answer = "granted"
            /\ opened'[req[t].who] = "early" => gate'[req[t].who] = "granted"
    BY <2>1, <2>2, <2>4
  <2> QED
    BY <2>4, <2>5, <2>6, ClientAssumption
<1>8. ASSUME NEW c \in Client \ Sensitive, NEW s \in {"granted", "denied"}, DecideGate(c, s)
      PROVE GatesOK'
  BY <1>8 DEF DecideGate, serverVars, FramesOK, FrameOK
<1> QED
  BY <1>1, <1>2, <1>3, <1>4, <1>5, <1>6, <1>7, <1>8, ClientAssumption DEF PhaseStep

---------------------------------------------------------------------------
\* Lists

LEMMA VisibleIsFinite ==
  ASSUME NEW list, NEW filtered
  PROVE  IsFiniteSet(Visible(list, filtered))
BY PagingAssumption, FS_Subset DEF Visible

LEMMA TimesAreNumbers ==
  ASSUME PagesOK, NEW list, NEW filtered, NEW x \in Visible(list, filtered)
  PROVE  TimeOf(list, x) \in Nat
BY DEF PagesOK, Visible, TimeOf

\* A row that the page leaves out, that shares its time with no row up to the
\* end of the page, and before which there are at least as many rows as the
\* offset, has not been passed: the page is full, and its rows and the skipped
\* ones come before it.
LEMMA PageLemma ==
  ASSUME NEW list, NEW limit \in Nat, NEW offset \in Nat, NEW S, IsFiniteSet(S),
         \A x \in S : TimeOf(list, x) \in Nat,
         NEW K, NEW P, IsPage(list, limit, offset, S, K, P),
         NEW p \in S, p \notin Cut(list, K \cup P, S), p \notin P,
         offset <= Cardinality({x \in S : TimeOf(list, p) < TimeOf(list, x)})
  PROVE  /\ limit # 0 /\ Cardinality(P) = limit
         /\ offset + Cardinality(P) <= Cardinality({x \in S : TimeOf(list, p) < TimeOf(list, x)})
<1> DEFINE A == {x \in S : TimeOf(list, p) < TimeOf(list, x)}
<1> HIDE DEF A
<1>1. /\ K \subseteq S /\ P \subseteq S \ K
      /\ Cardinality(K) = IF limit = 0 THEN 0 ELSE Least(offset, Cardinality(S))
      /\ Cardinality(P) = IF limit = 0 THEN Cardinality(S) ELSE Least(limit, Cardinality(S \ K))
      /\ \A x \in K, y \in S \ K : TimeOf(list, y) <= TimeOf(list, x)
      /\ \A x \in P, y \in (S \ K) \ P : TimeOf(list, y) <= TimeOf(list, x)
  BY DEF IsPage, Newest
<1>2. /\ IsFiniteSet(K) /\ IsFiniteSet(P) /\ IsFiniteSet(A) /\ IsFiniteSet(S \ K)
      /\ IsFiniteSet(K \cup P)
      /\ Cardinality(A) <= Cardinality(S)
      /\ A \subseteq S
  <2>1. A \subseteq S /\ S \ K \subseteq S /\ P \subseteq S /\ K \cup P \subseteq S
    BY <1>1 DEF A
  <2> QED
    BY <1>1, <2>1, FS_Subset
<1>3. /\ Cardinality(K) \in Nat /\ Cardinality(P) \in Nat /\ Cardinality(A) \in Nat
      /\ Cardinality(S) \in Nat /\ Cardinality(S \ K) \in Nat
  BY <1>2, FS_CardinalityType
<1>4. offset <= Cardinality(A)
  BY DEF A
<1>5. p \notin K
  <2> SUFFICES ASSUME p \in K PROVE FALSE
    OBVIOUS
  <2>1. A \subseteq K \ {p}
    BY <1>1 DEF A
  <2>2. IsFiniteSet(K \ {p}) /\ Cardinality(K \ {p}) = Cardinality(K) - 1
    BY <1>2, FS_RemoveElement
  <2>3. Cardinality(A) <= Cardinality(K) - 1
    BY <2>1, <2>2, FS_Subset
  <2>4. Cardinality(K) <= offset
    BY <1>1, <1>3 DEF Least
  <2> QED
    BY <1>3, <1>4, <2>3, <2>4
<1>6. K \cup P \subseteq A
  <2>1. \A x \in K \cup P : TimeOf(list, x) # TimeOf(list, p)
    BY <1>5 DEF Cut
  <2>2. \A x \in K \cup P : x \in S /\ x # p /\ TimeOf(list, p) <= TimeOf(list, x)
    BY <1>1, <1>5
  <2> QED
    BY <2>1, <2>2 DEF A
<1>7. Cardinality(K) + Cardinality(P) <= Cardinality(A)
  <2>1. Cardinality(K \cup P) = Cardinality(K) + Cardinality(P) - Cardinality(K \cap P)
    BY <1>2, FS_Union
  <2>2. K \cap P = {}
    BY <1>1
  <2>3. Cardinality(K \cap P) = 0
    BY <2>2, FS_EmptySet
  <2>4. Cardinality(K \cup P) <= Cardinality(A)
    BY <1>2, <1>6, FS_Subset
  <2> QED
    BY <1>3, <2>1, <2>3, <2>4
<1>8. P # S \ K
  BY <1>5
<1>9. Cardinality(P) # Cardinality(S \ K)
  BY <1>1, <1>2, <1>8, FS_Subset
<1>10. limit # 0
  <2> SUFFICES ASSUME limit = 0 PROVE FALSE
    OBVIOUS
  <2>1. K = {}
    BY <1>1, <1>2, FS_EmptySet
  <2> QED
    BY <1>1, <1>9, <2>1
<1>11. Cardinality(K) = offset
  BY <1>1, <1>2, <1>3, <1>4, <1>10 DEF Least
<1>12. Cardinality(P) = limit
  BY <1>1, <1>3, <1>9, <1>10 DEF Least
<1> QED
  BY <1>7, <1>10, <1>11, <1>12 DEF A

LEMMA PagesInit == Init => PagesOK
<1> SUFFICES ASSUME Init PROVE PagesOK
  OBVIOUS
<1>1. entries \in [EntryID -> [at : Nat, task : Task \cup {Nobody}]]
  BY DEF Init, NoEntry
<1>2. runs \in [RunID -> [at : Nat, match : BOOLEAN]]
  <2>1. 1..clock \subseteq Nat
    BY DEF Init
  <2>2. [at : 1..clock, match : BOOLEAN] \subseteq [at : Nat, match : BOOLEAN]
    BY <2>1, Zenon
  <2>3. 0 \in Nat /\ FALSE \in BOOLEAN
    OBVIOUS
  <2>4. NoRun \in [at : Nat, match : BOOLEAN]
    BY <2>3, Zenon DEF NoRun
  <2>5. {NoRun} \cup [at : 1..clock, match : BOOLEAN] \subseteq [at : Nat, match : BOOLEAN]
    BY <2>2, <2>4, Zenon
  <2>6. runs \in [RunID -> {NoRun} \cup [at : 1..clock, match : BOOLEAN]]
    BY DEF Init
  <2> QED
    BY <2>5, <2>6, Zenon
<1>3. pager.phase \in {"off", "ready"} /\ pager.list = "none" /\ pager \in Pager
  <2>1. pager = NotReading \/ pager = Ready
    BY DEF Init
  <2>2. 0 \in Nat /\ {} \in SUBSET (RunID \cup EntryID) /\ FALSE \in BOOLEAN
    OBVIOUS
  <2>3. NotReading.phase = "off" /\ NotReading.list = "none" /\ NotReading \in Pager
    BY <2>2 DEF NotReading, Pager
  <2>4. Ready.phase = "ready" /\ Ready.list = "none" /\ Ready \in Pager
    BY ZenonT(40), <2>2 DEF Ready, NotReading, Pager
  <2> QED
    BY <2>1, <2>3, <2>4
<1> QED
  BY ZenonT(40), <1>1, <1>2, <1>3 DEF Init, PagingInit, PagesOK, PagesAreComplete

\* What the table may do while a list is read: a row that the reader waits for
\* stays, and so do the rows before it.
LEMMA PagesKept ==
  ASSUME PagesOK, UNCHANGED <<pager, base>>,
         entries' \in [EntryID -> [at : Nat, task : Task \cup {Nobody}]],
         runs' \in [RunID -> [at : Nat, match : BOOLEAN]],
         Excused \subseteq Excused',
         disturbed' \in BOOLEAN, disturbed => disturbed', disturbed' => pager.list = "runs",
         pager.phase = "reading" /\ ~ disturbed' =>
           \A p \in (base \ Excused') \ pager.seen :
             p \in Visible(pager.list, pager.filtered) =>
               /\ p \in Visible(pager.list, pager.filtered)'
               /\ Above(p) \subseteq Above(p)'
  PROVE  PagesOK'
<1>1. ASSUME pager.phase = "reading", ~ disturbed', NEW p \in (base \ Excused') \ pager.seen
      PROVE  p \in Visible(pager.list, pager.filtered)' /\ pager.offset <= Cardinality(Above(p)')
  <2>1. p \in Visible(pager.list, pager.filtered) /\ pager.offset <= Cardinality(Above(p))
    BY <1>1 DEF PagesOK
  <2>2. p \in Visible(pager.list, pager.filtered)' /\ Above(p) \subseteq Above(p)'
    BY <1>1, <2>1
  <2>3. IsFiniteSet(Above(p)')
    <3>1. Above(p)' \subseteq Visible(pager.list, pager.filtered)'
      BY DEF Above
    <3>2. IsFiniteSet(Visible(pager.list, pager.filtered)')
      BY PagingAssumption, FS_Subset DEF Visible
    <3> QED
      BY <3>1, <3>2, FS_Subset
  <2>4. IsFiniteSet(Above(p)) /\ Cardinality(Above(p)) <= Cardinality(Above(p)')
    BY <2>2, <2>3, FS_Subset
  <2>5. Cardinality(Above(p)) \in Nat /\ Cardinality(Above(p)') \in Nat
    BY <2>3, <2>4, FS_CardinalityType
  <2>6. pager.offset \in Nat
    BY DEF PagesOK, Pager
  <2> QED
    BY <2>1, <2>2, <2>4, <2>5, <2>6
<1>2. PagesAreComplete'
  BY DEF PagesOK, PagesAreComplete
<1>3. pager.phase \in {"off", "ready"} => ~ disturbed'
  BY DEF PagesOK
<1> QED
  BY <1>1, <1>2, <1>3 DEF PagesOK

LEMMA PagesOthers ==
  PagesOK /\ UNCHANGED <<entries, pagingVars>> => PagesOK'
<1> SUFFICES ASSUME PagesOK, UNCHANGED <<entries, pagingVars>> PROVE PagesOK'
  OBVIOUS
<1>1. Visible(pager.list, pager.filtered)' = Visible(pager.list, pager.filtered)
  BY DEF pagingVars, Visible
<1>2. \A p : Above(p)' = Above(p)
  BY <1>1 DEF pagingVars, Above, TimeOf
<1>3. Excused' = Excused
  BY DEF pagingVars, Excused
<1> QED
  BY <1>1, <1>2, <1>3, PagesKept DEF PagesOK, pagingVars

LEMMA PagesEscalation ==
  FramesOK /\ PagesOK /\ EscalationStep /\ UNCHANGED pagingVars => PagesOK'
<1> SUFFICES ASSUME FramesOK, PagesOK, EscalationStep, UNCHANGED pagingVars PROVE PagesOK'
  OBVIOUS
<1>1. CASE UNCHANGED entries
  BY <1>1, PagesOthers
<1>2. ASSUME NEW t \in Thread, AppendEntry(t) PROVE PagesOK'
  <2> DEFINE e == FreshID
             new == [at |-> req[t].at, task |-> req[t].who]
  <2>1. e \in EntryID /\ entries[e] = NoEntry
    BY <1>2 DEF AppendEntry, FreshID
  <2>2. new \in [at : Nat, task : Task \cup {Nobody}] /\ new # NoEntry
    BY <1>2 DEF AppendEntry, At, FramesOK, FrameOK, Frame, NoEntry
  <2> HIDE DEF e, new
  <2>3. entries' = [entries EXCEPT ![e] = new]
    BY <1>2 DEF AppendEntry, e, new
  <2>4. entries' \in [EntryID -> [at : Nat, task : Task \cup {Nobody}]]
    BY <2>1, <2>2, <2>3 DEF PagesOK
  <2>5. \A x \in EntryID : entries[x] # NoEntry => entries'[x] = entries[x]
    BY <2>1, <2>3 DEF PagesOK
  <2>6. \A p \in Visible(pager.list, pager.filtered) :
          /\ p \in Visible(pager.list, pager.filtered)'
          /\ TimeOf(pager.list, p)' = TimeOf(pager.list, p)
    BY <2>5 DEF Visible, TimeOf, pagingVars
  <2>7. \A p \in Visible(pager.list, pager.filtered) : Above(p) \subseteq Above(p)'
    BY <2>6 DEF Above
  <2>8. Excused' = Excused
    BY DEF pagingVars, Excused
  <2> QED
    BY <2>4, <2>6, <2>7, <2>8, PagesKept DEF pagingVars, PagesOK
<1> QED
  BY <1>1, <1>2 DEF EscalationStep, TriggerEscalation, SaveTrigger, NewAuditEntry, AppendEntryFault,
                    RespondEscalation, escalationVars

LEMMA PagesWrite ==
  ASSUME FramesOK, PagesOK, NEW t \in Thread, NEW match \in Matching, WriteRun(t, match)
  PROVE  PagesOK'
<1> DEFINE r == req[t].who
           at == req[t].at
           gone == pager.filtered /\ runs[r].match /\ ~ match
<1>1. r \in RunID /\ at \in Nat /\ at > 0 /\ match \in BOOLEAN
  BY ZenonT(40) DEF WriteRun, At, FramesOK, FrameOK, Frame, Matching
<1>2. /\ runs' = [runs EXCEPT ![r] = [at |-> at, match |-> match]]
      /\ rewritten' = rewritten \cup {r} /\ split' = split
      /\ disturbed' = (disturbed \/ (pager.list = "runs" /\ (at < runs[r].at \/ gone)))
      /\ UNCHANGED <<pager, base, entries>>
  BY ZenonT(40) DEF WriteRun, escalationVars
<1> HIDE DEF r, at
<1>3. runs' \in [RunID -> [at : Nat, match : BOOLEAN]]
  BY <1>1, <1>2 DEF PagesOK
<1>4. disturbed' \in BOOLEAN /\ (disturbed => disturbed') /\ (disturbed' => pager.list = "runs")
  BY <1>2 DEF PagesOK
<1>5. ASSUME pager.phase = "reading", ~ disturbed', NEW p \in Visible(pager.list, pager.filtered), p # r
      PROVE  p \in Visible(pager.list, pager.filtered)' /\ Above(p) \subseteq Above(p)'
  <2>1. CASE pager.list = "audit"
    BY <1>2, <2>1 DEF Visible, Above, TimeOf
  <2>2. CASE pager.list # "audit"
    <3>1. /\ \A x \in RunID : x # r => runs'[x] = runs[x]
          /\ runs'[r].at = at /\ runs'[r].match = match
          /\ runs'[r] # NoRun
      BY <1>1, <1>2 DEF PagesOK, NoRun
    <3>2. p \in RunID /\ runs'[p] = runs[p]
      BY <1>5, <2>2, <3>1 DEF Visible
    <3>3. p \in Visible(pager.list, pager.filtered)'
      BY <1>2, <1>5, <2>2, <3>2 DEF Visible
    <3>4. ASSUME NEW x \in Above(p) PROVE x \in Above(p)'
      <4>1. x \in RunID /\ runs[x] # NoRun /\ (pager.filtered => runs[x].match)
            /\ runs[p].at < runs[x].at
        BY <2>2 DEF Above, Visible, TimeOf
      <4>2. CASE x # r
        BY <1>2, <2>2, <3>1, <3>2, <4>1, <4>2 DEF Above, Visible, TimeOf
      <4>3. CASE x = r
        <5>1. pager.list = "runs"
          BY <1>5, <2>2 DEF PagesOK, Pager
        <5>2. ~ (at < runs[r].at) /\ ~ gone
          BY ZenonT(40), <1>2, <1>5, <5>1 DEF PagesOK
        <5>3. runs[r].at \in Nat /\ runs[p].at \in Nat
          BY <1>1, <3>2 DEF PagesOK
        <5>4. runs[p].at < at /\ (pager.filtered => match)
          BY <1>1, <4>1, <4>3, <5>2, <5>3
        <5> QED
          BY <1>2, <2>2, <3>1, <3>2, <4>1, <4>3, <5>4 DEF Above, Visible, TimeOf
      <4> QED
        BY <4>2, <4>3
    <3> QED
      BY <3>3, <3>4
  <2> QED
    BY <2>1, <2>2
<1>6. Excused \subseteq Excused'
  BY <1>2 DEF Excused
<1>7. ASSUME pager.phase = "reading", ~ disturbed', NEW p \in (base \ Excused') \ pager.seen,
             p \in Visible(pager.list, pager.filtered)
      PROVE  p \in Visible(pager.list, pager.filtered)' /\ Above(p) \subseteq Above(p)'
  <2>1. CASE pager.list = "audit"
    BY <1>2, <1>7, <2>1 DEF Visible, Above, TimeOf
  <2>2. CASE pager.list # "audit"
    BY <1>2, <1>5, <1>7, <2>2 DEF Excused
  <2> QED
    BY <2>1, <2>2
<1> QED
  BY <1>2, <1>3, <1>4, <1>6, <1>7, PagesKept DEF PagesOK

LEMMA PagesBegin ==
  ASSUME PagesOK, NEW list \in {"runs", "audit"}, NEW filtered \in BOOLEAN,
         NEW asked \in AskedLimit, BeginPaging(list, filtered, asked)
  PROVE  PagesOK'
<1>1. EffectiveLimit(list, asked) \in Nat
  BY PagingAssumption DEF EffectiveLimit
<1>2. pager' = [phase |-> "reading", list |-> list, filtered |-> filtered,
                limit |-> EffectiveLimit(list, asked), offset |-> 0, seen |-> {}]
  BY ZenonT(40) DEF BeginPaging, NotReading
<1>3. UNCHANGED <<entries, runs, disturbed>> /\ ~ disturbed /\ base' = Visible(list, filtered)
  BY DEF BeginPaging, escalationVars, PagesOK
<1>4. Visible(pager.list, pager.filtered)' = Visible(list, filtered)
  BY <1>2, <1>3 DEF Visible
<1>5. ASSUME NEW p PROVE 0 <= Cardinality(Above(p)')
  <2>1. Above(p)' \subseteq Visible(list, filtered)
    BY <1>4 DEF Above
  <2> QED
    BY <2>1, VisibleIsFinite, FS_Subset, FS_CardinalityType
<1>6. pager' \in Pager
  BY <1>1, <1>2 DEF Pager
<1>7. pager'.phase = "reading" /\ pager'.list = list /\ pager'.offset = 0
  BY <1>2
<1> QED
  BY <1>3, <1>4, <1>5, <1>6, <1>7 DEF PagesOK, PagesAreComplete

LEMMA ReceivedPage ==
  ASSUME pager \in Pager, NEW P \in SUBSET (RunID \cup EntryID), Cardinality(P) \in Nat
  PROVE  /\ Received(P) \in Pager
         /\ Received(P).list = pager.list
         /\ Received(P).filtered = pager.filtered
         /\ Received(P).limit = pager.limit
         /\ Received(P).seen = pager.seen \cup P
         /\ Received(P).offset = pager.offset + Cardinality(P)
         /\ Received(P).phase =
              IF pager.limit = 0 \/ Cardinality(P) < pager.limit THEN "done" ELSE "reading"
<1> DEFINE s == pager.seen \cup P
           o == pager.offset + Cardinality(P)
           f == IF pager.limit = 0 \/ Cardinality(P) < pager.limit THEN "done" ELSE "reading"
<1>1. Received(P) = [pager EXCEPT !.seen = s, !.offset = o, !.phase = f]
  BY DEF Received, Pager
<1>2. s \in SUBSET (RunID \cup EntryID) /\ o \in Nat /\ f \in {"done", "reading"}
  BY DEF Pager
<1> HIDE DEF s, o, f
<1>3. /\ [pager EXCEPT !.seen = s, !.offset = o, !.phase = f] \in Pager
      /\ Received(P).list = pager.list
      /\ Received(P).filtered = pager.filtered
      /\ Received(P).limit = pager.limit
      /\ Received(P).seen = s
      /\ Received(P).offset = o
      /\ Received(P).phase = f
  BY ZenonT(40), <1>1, <1>2 DEF Pager
<1> QED
  BY <1>1, <1>3 DEF s, o, f

LEMMA PagesRead ==
  ASSUME PagesOK, ReadPage
  PROVE  PagesOK'
<1> DEFINE S == Visible(pager.list, pager.filtered)
<1>1. PICK K \in SUBSET S, P \in SUBSET S :
        /\ IsPage(pager.list, pager.limit, pager.offset, S, K, P) /\ pager' = Received(P)
        /\ split' = split \cup Cut(pager.list, K \cup P, S)
  BY ZenonT(40) DEF ReadPage
<1>2. /\ UNCHANGED <<entries, runs, base, disturbed>>
      /\ rewritten' = rewritten
      /\ pager.phase = "reading"
  BY DEF ReadPage, escalationVars
<1>3. IsFiniteSet(S) /\ \A x \in S : TimeOf(pager.list, x) \in Nat
  BY VisibleIsFinite, TimesAreNumbers
<1>4. IsFiniteSet(P) /\ Cardinality(P) \in Nat
  BY <1>3, FS_Subset, FS_CardinalityType
<1>5. S \subseteq RunID \cup EntryID
  BY DEF Visible
<1>6. /\ pager'.list = pager.list /\ pager'.filtered = pager.filtered /\ pager'.limit = pager.limit
      /\ pager'.seen = pager.seen \cup P
      /\ pager'.offset = pager.offset + Cardinality(P)
      /\ pager'.phase = IF pager.limit = 0 \/ Cardinality(P) < pager.limit THEN "done" ELSE "reading"
      /\ pager' \in Pager
  BY <1>1, <1>4, <1>5, ReceivedPage DEF PagesOK
<1>7. Visible(pager.list, pager.filtered)' = S
  BY <1>2, <1>6 DEF Visible
<1>8. \A p : Above(p)' = Above(p)
  BY <1>2, <1>6, <1>7 DEF Above, TimeOf
<1>9. ASSUME ~ disturbed, NEW p \in (base \ Excused') \ pager'.seen
      PROVE  /\ p \in S /\ pager'.offset <= Cardinality(Above(p))
             /\ pager'.phase = "reading"
  <2>1. p \in (base \ Excused) \ pager.seen /\ p \notin P /\ p \notin Cut(pager.list, K \cup P, S)
    BY <1>1, <1>2, <1>6, <1>9 DEF Excused
  <2>2. p \in S /\ pager.offset <= Cardinality(Above(p))
    BY <1>2, <1>9, <2>1 DEF PagesOK
  <2>3. pager.limit \in Nat /\ pager.offset \in Nat
    BY DEF PagesOK, Pager
  <2>4. Above(p) = {x \in S : TimeOf(pager.list, p) < TimeOf(pager.list, x)}
    BY DEF Above
  <2> DEFINE l == pager.list
             n == pager.limit
             o == pager.offset
  <2> HIDE DEF S, l, n, o
  <2>5. /\ n \in Nat /\ o \in Nat /\ IsPage(l, n, o, S, K, P) /\ p \notin Cut(l, K \cup P, S)
        /\ IsFiniteSet(S) /\ \A x \in S : TimeOf(l, x) \in Nat
        /\ p \in S /\ p \notin P
        /\ o <= Cardinality({x \in S : TimeOf(l, p) < TimeOf(l, x)})
    BY <1>1, <1>3, <2>1, <2>2, <2>3, <2>4 DEF l, n, o
  <2>6. /\ n # 0 /\ Cardinality(P) = n
        /\ o + Cardinality(P) <= Cardinality({x \in S : TimeOf(l, p) < TimeOf(l, x)})
    BY <2>5, PageLemma
  <2>7. /\ pager.limit # 0 /\ Cardinality(P) = pager.limit
        /\ pager.offset + Cardinality(P) <= Cardinality(Above(p))
    BY <2>4, <2>6 DEF l, n, o
  <2> QED
    BY <1>4, <1>6, <2>2, <2>3, <2>7
<1>10. PagesAreComplete'
  BY <1>2, <1>6, <1>9 DEF PagesAreComplete
<1>11. pager'.phase \in {"reading", "done"}
  BY <1>6
<1> QED
  BY <1>2, <1>6, <1>7, <1>8, <1>9, <1>10, <1>11 DEF PagesOK

LEMMA PagesCut ==
  ASSUME PagesOK, CutPage
  PROVE  PagesOK'
<1> DEFINE S == Visible(pager.list, pager.filtered)
<1>1. PICK P \in SUBSET S : pager' = Received(P)
  BY DEF CutPage
<1>2. /\ UNCHANGED <<entries, runs>> /\ disturbed' /\ pager.list = "runs" /\ disturbed' \in BOOLEAN
  BY DEF CutPage, escalationVars
<1>3. IsFiniteSet(P) /\ Cardinality(P) \in Nat
  BY VisibleIsFinite, FS_Subset, FS_CardinalityType
<1>4. S \subseteq RunID \cup EntryID
  BY DEF Visible
<1>5. /\ pager'.list = pager.list
      /\ pager'.phase \in {"reading", "done"}
      /\ pager' \in Pager
  BY <1>1, <1>3, <1>4, ReceivedPage DEF PagesOK
<1> QED
  BY <1>2, <1>5 DEF PagesOK, PagesAreComplete

LEMMA PagesPaging == FramesOK /\ PagesOK /\ PagingStep => PagesOK'
<1> SUFFICES ASSUME FramesOK, PagesOK, PagingStep PROVE PagesOK'
  OBVIOUS
<1>1. ASSUME NEW t, NEW r, NEW at, LoadRun(t, r, at) PROVE PagesOK'
  BY <1>1, PagesOthers DEF LoadRun, escalationVars
<1> QED
  BY <1>1, PagesWrite, PagesBegin, PagesRead, PagesCut DEF PagingStep

---------------------------------------------------------------------------
\* Escalations

LEMMA EscalationSetsAreFinite ==
  ASSUME NEW k
  PROVE  /\ IsFiniteSet(Unrecorded(k)) /\ Cardinality(Unrecorded(k)) \in Nat
         /\ IsFiniteSet(Unanswered(k)) /\ Cardinality(Unanswered(k)) \in Nat
         /\ IsFiniteSet(EntriesOf(k)) /\ Cardinality(EntriesOf(k)) \in Nat
<1>1. Unrecorded(k) \subseteq Thread /\ Unanswered(k) \subseteq Thread /\ EntriesOf(k) \subseteq EntryID
  BY DEF Unrecorded, Unanswered, EntriesOf
<1>2. IsFiniteSet(Unrecorded(k)) /\ IsFiniteSet(Unanswered(k)) /\ IsFiniteSet(EntriesOf(k))
  BY <1>1, ThreadAssumption, PagingAssumption, FS_Subset
<1> QED
  BY <1>2, FS_CardinalityType

LEMMA EscalationsInit == Init => EscalationsOK
<1> SUFFICES ASSUME Init PROVE EscalationsOK
  OBVIOUS
<1>1. ASSUME NEW k \in Task PROVE Unrecorded(k) = {} /\ Unanswered(k) = {} /\ EntriesOf(k) = {}
  <2>1. Unrecorded(k) = {} /\ Unanswered(k) = {}
    BY DEF Init, ServerInit, Idle, Unrecorded, Unanswered
  <2>2. \A e \in EntryID : entries[e].task = Nobody
    BY DEF Init, NoEntry
  <2> QED
    BY <2>1, <2>2, TaskAssumption DEF EntriesOf
<1> QED
  BY <1>1, FS_EmptySet DEF Init, EscalationInit, EscalationsOK

\* Requests may end without having given what they owe.
LEMMA EscalationsKept ==
  ASSUME EscalationsOK, UNCHANGED escalationVars,
         \A k \in Task : /\ Unrecorded(k)' \subseteq Unrecorded(k)
                         /\ Unanswered(k)' \subseteq Unanswered(k)
  PROVE  EscalationsOK'
<1>1. ASSUME NEW k \in Task
      PROVE  /\ Cardinality(Unrecorded(k)') <= Cardinality(Unrecorded(k))
             /\ Cardinality(Unrecorded(k)') \in Nat
             /\ Cardinality(Unanswered(k)') <= Cardinality(Unanswered(k))
             /\ Cardinality(Unanswered(k)') \in Nat
  BY EscalationSetsAreFinite, FS_Subset, FS_CardinalityType
<1>2. ASSUME NEW k \in Task PROVE EntriesOf(k)' = EntriesOf(k)
  BY DEF EntriesOf, escalationVars
<1>3. ASSUME NEW k \in Task
      PROVE  /\ Cardinality(EntriesOf(k)) + Cardinality(Unrecorded(k)') <= triggers[k]
             /\ told[k] + Cardinality(Unanswered(k)') <= triggers[k]
  <2>1. triggers[k] \in Nat /\ told[k] \in Nat
    BY DEF EscalationsOK
  <2>2. /\ Cardinality(EntriesOf(k)) + Cardinality(Unrecorded(k)) <= triggers[k]
        /\ told[k] + Cardinality(Unanswered(k)) <= triggers[k]
    BY DEF EscalationsOK
  <2> QED
    BY <1>1, <2>1, <2>2, EscalationSetsAreFinite
<1> QED
  BY <1>2, <1>3 DEF EscalationsOK, escalationVars

\* A request that has stored its trigger is left alone, or ended.
EscalationFramesKept ==
  \A t \in Thread : req'[t].op = "escalate" /\ req'[t].pc # "save" =>
    req[t].op = "escalate" /\ req[t].pc = req'[t].pc /\ req[t].who = req'[t].who

LEMMA EscalationsOthers ==
  EscalationsOK /\ EscalationFramesKept /\ UNCHANGED escalationVars => EscalationsOK'
<1> SUFFICES ASSUME EscalationsOK, EscalationFramesKept, UNCHANGED escalationVars
             PROVE  EscalationsOK'
  OBVIOUS
<1>1. ASSUME NEW k \in Task
      PROVE  /\ Unrecorded(k)' \subseteq Unrecorded(k)
             /\ Unanswered(k)' \subseteq Unanswered(k)
  BY DEF Unrecorded, Unanswered, EscalationFramesKept
<1> QED
  BY <1>1, EscalationsKept

LEMMA ServerKeepsEscalationFrames == FramesOK /\ ServerStep => EscalationFramesKept
<1> SUFFICES ASSUME FramesOK, ServerStep PROVE EscalationFramesKept
  OBVIOUS
<1>1. ASSUME NEW t \in Thread, Fail(t) PROVE EscalationFramesKept
  BY <1>1 DEF Fail, Return, Goto, FramesOK, Idle, EscalationFramesKept
<1>2. ASSUME NEW t \in Thread, HangUp(t) PROVE EscalationFramesKept
  BY <1>2 DEF HangUp, Goto, FramesOK, Frame, EscalationFramesKept
<1>3. CASE Signal \/ Drained \/ Start
  BY <1>3 DEF Signal, Drained, Start, EscalationFramesKept
<1>4. CASE CutOff
  BY <1>4 DEF CutOff, Idle, EscalationFramesKept
<1> QED
  BY <1>1, <1>2, <1>3, <1>4 DEF ServerStep

LEMMA PhaseKeepsEscalationFrames == FramesOK /\ PhaseStep => EscalationFramesKept
<1> SUFFICES ASSUME FramesOK, PhaseStep PROVE EscalationFramesKept
  OBVIOUS
<1>1. ASSUME NEW t \in Thread, NEW c \in Client, Evaluate(t, c) PROVE EscalationFramesKept
  BY ZenonT(40), <1>1 DEF Evaluate, EvaluatePhase, EvaluateSensitive, Ask, Accept, Goto, Request, Idle,
              FramesOK, EscalationFramesKept
<1>2. ASSUME NEW t \in Thread, NEW c \in Client, Poll(t, c) PROVE EscalationFramesKept
  BY <1>2 DEF Poll, Accept, Goto, Request, Idle, FramesOK, EscalationFramesKept
<1>3. ASSUME NEW t \in Thread, SaveDecision(t) PROVE EscalationFramesKept
  BY <1>3 DEF SaveDecision, At, Goto, FramesOK, Frame, EscalationFramesKept
<1>4. ASSUME NEW t \in Thread, RespondDecision(t) \/ RespondPoll(t) PROVE EscalationFramesKept
  BY <1>4 DEF RespondDecision, RespondPoll, Return, Goto, FramesOK, Idle, EscalationFramesKept
<1>5. ASSUME NEW c \in Client,
             EvaluateInvalid(c) \/ OpenGate(c) \/ \E s \in {"granted", "denied"} : DecideGate(c, s)
      PROVE EscalationFramesKept
  BY <1>5 DEF EvaluateInvalid, OpenGate, DecideGate, serverVars, EscalationFramesKept
<1> QED
  BY <1>1, <1>2, <1>3, <1>4, <1>5, ClientAssumption DEF PhaseStep

LEMMA PagingKeepsEscalationFrames == FramesOK /\ PagingStep => EscalationFramesKept
<1> SUFFICES ASSUME FramesOK, PagingStep PROVE EscalationFramesKept
  OBVIOUS
<1>1. ASSUME NEW t \in Thread, NEW r, NEW at, LoadRun(t, r, at) PROVE EscalationFramesKept
  BY <1>1 DEF LoadRun, Accept, Goto, Request, Idle, FramesOK, EscalationFramesKept
<1>2. ASSUME NEW t \in Thread, NEW match, WriteRun(t, match) PROVE EscalationFramesKept
  BY <1>2 DEF WriteRun, Return, Goto, FramesOK, Idle, EscalationFramesKept
<1>3. ASSUME NEW list, NEW filtered, NEW asked, BeginPaging(list, filtered, asked)
      PROVE EscalationFramesKept
  BY <1>3 DEF BeginPaging, serverVars, EscalationFramesKept
<1>4. CASE ReadPage \/ CutPage
  BY <1>4 DEF ReadPage, CutPage, serverVars, EscalationFramesKept
<1> QED
  BY <1>1, <1>2, <1>3, <1>4 DEF PagingStep

\* How a step of one request changes the two sets.
LEMMA EscalationSetsUpdate ==
  ASSUME FramesOK, NEW t \in Thread, NEW f, Goto(t, f), NEW k
  PROVE  /\ Unrecorded(k)' =
              IF f.op = "escalate" /\ f.pc \in {"record", "append"} /\ f.who = k
              THEN Unrecorded(k) \cup {t} ELSE Unrecorded(k) \ {t}
         /\ Unanswered(k)' =
              IF f.op = "escalate" /\ f.pc \in {"record", "append", "respond"} /\ f.who = k
              THEN Unanswered(k) \cup {t} ELSE Unanswered(k) \ {t}
BY DEF FramesOK, Goto, Unrecorded, Unanswered

LEMMA EscalationsSave ==
  ASSUME FramesOK, EscalationsOK, NEW t \in Thread, SaveTrigger(t)
  PROVE  EscalationsOK'
<1> DEFINE w == req[t].who
           f == [req[t] EXCEPT !.pc = "record"]
<1>1. w \in Task /\ req[t].op = "escalate" /\ req[t].pc = "save"
      /\ UNCHANGED <<entries, told>>
  BY DEF SaveTrigger, At, FramesOK, FrameOK
<1>2. CASE w \notin KnownTask
  <2>1. EscalationFramesKept
    BY <1>2 DEF SaveTrigger, Return, Goto, FramesOK, Idle, EscalationFramesKept
  <2> QED
    BY <1>1, <1>2, <2>1, EscalationsOthers DEF SaveTrigger, escalationVars
<1>3. CASE w \in KnownTask
  <2>1. Goto(t, f) /\ triggers' = [triggers EXCEPT ![w] = @ + 1]
    BY <1>3 DEF SaveTrigger, InsertTrigger
  <2>2. f.op = "escalate" /\ f.pc = "record" /\ f.who = w
    BY <1>1 DEF FramesOK, Frame
  <2> HIDE DEF f, w
  <2>3. ASSUME NEW k \in Task
        PROVE  /\ Cardinality(EntriesOf(k)') + Cardinality(Unrecorded(k)') <= triggers'[k]
               /\ told'[k] + Cardinality(Unanswered(k)') <= triggers'[k]
               /\ triggers'[k] > 0 => k \in KnownTask
    <3>1. EntriesOf(k)' = EntriesOf(k) /\ told'[k] = told[k]
      BY <1>1 DEF EntriesOf
    <3>2. /\ triggers[k] \in Nat /\ told[k] \in Nat
          /\ Cardinality(EntriesOf(k)) + Cardinality(Unrecorded(k)) <= triggers[k]
          /\ told[k] + Cardinality(Unanswered(k)) <= triggers[k]
          /\ triggers[k] > 0 => k \in KnownTask
          /\ triggers'[k] = IF k = w THEN triggers[k] + 1 ELSE triggers[k]
      BY <2>1 DEF EscalationsOK
    <3>3. CASE k = w
      <4>1. Unrecorded(k)' = Unrecorded(k) \cup {t} /\ Unanswered(k)' = Unanswered(k) \cup {t}
        BY <2>1, <2>2, <3>3, EscalationSetsUpdate
      <4>2. /\ Cardinality(Unrecorded(k)') <= Cardinality(Unrecorded(k)) + 1
            /\ Cardinality(Unanswered(k)') <= Cardinality(Unanswered(k)) + 1
            /\ Cardinality(Unrecorded(k)') \in Nat /\ Cardinality(Unanswered(k)') \in Nat
        <5>1. IsFiniteSet(Unrecorded(k)) /\ Cardinality(Unrecorded(k)) \in Nat
              /\ IsFiniteSet(Unanswered(k)) /\ Cardinality(Unanswered(k)) \in Nat
          BY EscalationSetsAreFinite
        <5>2. Cardinality(Unrecorded(k) \cup {t}) \in {Cardinality(Unrecorded(k)), Cardinality(Unrecorded(k)) + 1}
          BY <5>1, FS_AddElement
        <5>3. Cardinality(Unanswered(k) \cup {t}) \in {Cardinality(Unanswered(k)), Cardinality(Unanswered(k)) + 1}
          BY <5>1, FS_AddElement
        <5> QED
          BY <4>1, <5>1, <5>2, <5>3
      <4> QED
        BY <1>3, <3>1, <3>2, <3>3, <4>2, EscalationSetsAreFinite
    <3>4. CASE k # w
      <4>1. Unrecorded(k)' = Unrecorded(k) \ {t} /\ Unanswered(k)' = Unanswered(k) \ {t}
        BY <2>1, <2>2, <3>4, EscalationSetsUpdate
      <4>2. /\ Cardinality(Unrecorded(k)') <= Cardinality(Unrecorded(k))
            /\ Cardinality(Unanswered(k)') <= Cardinality(Unanswered(k))
            /\ Cardinality(Unrecorded(k)') \in Nat /\ Cardinality(Unanswered(k)') \in Nat
        BY <4>1, EscalationSetsAreFinite, FS_Subset, FS_CardinalityType
      <4> QED
        BY <3>1, <3>2, <3>4, <4>2, EscalationSetsAreFinite
    <3> QED
      BY <3>3, <3>4
  <2>4. triggers' \in [Task -> Nat] /\ told' \in [Task -> Nat]
    BY <1>1, <2>1 DEF EscalationsOK
  <2> QED
    BY <2>3, <2>4 DEF EscalationsOK
<1> QED
  BY <1>2, <1>3

LEMMA EscalationsAppend ==
  ASSUME FramesOK, PagesOK, EscalationsOK, NEW t \in Thread, AppendEntry(t)
  PROVE  EscalationsOK'
<1> DEFINE w == req[t].who
           f == [req[t] EXCEPT !.pc = "respond"]
           e == FreshID
           new == [at |-> req[t].at, task |-> w]
<1>1. w \in Task /\ req[t].op = "escalate" /\ req[t].pc = "append"
      /\ UNCHANGED <<triggers, told>> /\ Goto(t, f)
  BY DEF AppendEntry, At, FramesOK, FrameOK
<1>2. f.op = "escalate" /\ f.pc = "respond" /\ f.who = w
  BY <1>1 DEF FramesOK, Frame
<1>3. e \in EntryID /\ entries[e] = NoEntry
  BY DEF AppendEntry, FreshID
<1>4. new.task = w
  OBVIOUS
<1>5. entries' = [entries EXCEPT ![e] = new]
  BY DEF AppendEntry
<1>6. t \in Unrecorded(w) /\ t \in Unanswered(w)
  BY <1>1 DEF Unrecorded, Unanswered
<1> HIDE DEF w, f, e, new
<1>7. ASSUME NEW k \in Task
      PROVE  /\ Cardinality(EntriesOf(k)') + Cardinality(Unrecorded(k)') <= triggers[k]
             /\ told[k] + Cardinality(Unanswered(k)') <= triggers[k]
  <2>1. /\ triggers[k] \in Nat /\ told[k] \in Nat
        /\ Cardinality(EntriesOf(k)) + Cardinality(Unrecorded(k)) <= triggers[k]
        /\ told[k] + Cardinality(Unanswered(k)) <= triggers[k]
    BY DEF EscalationsOK
  <2>2. /\ e \notin EntriesOf(k)
        /\ \A x \in EntryID : entries'[x] = IF x = e THEN new ELSE entries[x]
    BY <1>3, <1>5, TaskAssumption DEF EntriesOf, NoEntry, PagesOK
  <2>3. CASE k = w
    <3>1. EntriesOf(k)' = EntriesOf(k) \cup {e}
      BY <1>3, <1>4, <2>2, <2>3 DEF EntriesOf
    <3>2. Unrecorded(k)' = Unrecorded(k) \ {t} /\ Unanswered(k)' = Unanswered(k) \cup {t}
      BY <1>1, <1>2, <2>3, EscalationSetsUpdate
    <3>3. Cardinality(EntriesOf(k)') = Cardinality(EntriesOf(k)) + 1
      BY ZenonT(40), <2>2, <3>1, EscalationSetsAreFinite, FS_AddElement
    <3>4. Cardinality(Unrecorded(k)') = Cardinality(Unrecorded(k)) - 1
      BY ZenonT(40), <1>6, <2>3, <3>2, EscalationSetsAreFinite, FS_RemoveElement
    <3>5. Unanswered(k)' = Unanswered(k)
      BY <1>6, <2>3, <3>2
    <3> QED
      BY <2>1, <3>3, <3>4, <3>5, EscalationSetsAreFinite
  <2>4. CASE k # w
    <3>1. EntriesOf(k)' = EntriesOf(k)
      BY <1>3, <1>4, <2>2, <2>4 DEF EntriesOf
    <3>2. Unrecorded(k)' = Unrecorded(k) \ {t} /\ Unanswered(k)' = Unanswered(k) \ {t}
      BY <1>1, <1>2, <2>4, EscalationSetsUpdate
    <3>3. /\ Cardinality(Unrecorded(k)') <= Cardinality(Unrecorded(k))
          /\ Cardinality(Unanswered(k)') <= Cardinality(Unanswered(k))
          /\ Cardinality(Unrecorded(k)') \in Nat /\ Cardinality(Unanswered(k)') \in Nat
      BY <3>2, EscalationSetsAreFinite, FS_Subset, FS_CardinalityType
    <3> QED
      BY <2>1, <3>1, <3>3, EscalationSetsAreFinite
  <2> QED
    BY <2>3, <2>4
<1> QED
  BY <1>1, <1>7 DEF EscalationsOK

LEMMA EscalationsRespond ==
  ASSUME FramesOK, EscalationsOK, NEW t \in Thread, RespondEscalation(t)
  PROVE  EscalationsOK'
<1> DEFINE w == req[t].who
<1>1. w \in Task /\ req[t].op = "escalate" /\ req[t].pc = "respond"
      /\ UNCHANGED <<triggers, entries>> /\ Goto(t, Idle)
  BY DEF RespondEscalation, Return, At, FramesOK, FrameOK
<1>2. t \in Unanswered(w)
  BY <1>1 DEF Unanswered
<1>3. Idle.op = "idle"
  BY DEF Idle
<1>4. told' = [told EXCEPT ![w] = @ + 1] \/ told' = told
  BY DEF RespondEscalation
<1> HIDE DEF w
<1>5. ASSUME NEW k \in Task
      PROVE  /\ Cardinality(EntriesOf(k)') + Cardinality(Unrecorded(k)') <= triggers[k]
             /\ told'[k] + Cardinality(Unanswered(k)') <= triggers[k]
  <2>1. /\ triggers[k] \in Nat /\ told[k] \in Nat
        /\ Cardinality(EntriesOf(k)) + Cardinality(Unrecorded(k)) <= triggers[k]
        /\ told[k] + Cardinality(Unanswered(k)) <= triggers[k]
    BY DEF EscalationsOK
  <2>2. Unrecorded(k)' = Unrecorded(k) \ {t} /\ Unanswered(k)' = Unanswered(k) \ {t}
    BY <1>1, <1>3, EscalationSetsUpdate
  <2>3. EntriesOf(k)' = EntriesOf(k)
    BY <1>1 DEF EntriesOf
  <2>4. /\ Cardinality(Unrecorded(k)') <= Cardinality(Unrecorded(k))
        /\ Cardinality(Unrecorded(k)') \in Nat
    BY <2>2, EscalationSetsAreFinite, FS_Subset, FS_CardinalityType
  <2>5. told'[k] + Cardinality(Unanswered(k)') <= told[k] + Cardinality(Unanswered(k))
    <3>1. CASE k = w
      <4>1. Cardinality(Unanswered(k)') = Cardinality(Unanswered(k)) - 1
        BY ZenonT(40), <1>2, <2>2, <3>1, EscalationSetsAreFinite, FS_RemoveElement
      <4>2. told'[k] \in {told[k], told[k] + 1}
        BY <1>4, <3>1 DEF EscalationsOK
      <4> QED
        BY <2>1, <4>1, <4>2, EscalationSetsAreFinite
    <3>2. CASE k # w
      <4>1. Cardinality(Unanswered(k)') <= Cardinality(Unanswered(k))
            /\ Cardinality(Unanswered(k)') \in Nat
        BY <2>2, EscalationSetsAreFinite, FS_Subset, FS_CardinalityType
      <4>2. told'[k] = told[k]
        BY <1>4, <3>2 DEF EscalationsOK
      <4> QED
        BY <2>1, <4>1, <4>2, EscalationSetsAreFinite
    <3> QED
      BY <3>1, <3>2
  <2>6. told'[k] \in Nat /\ Cardinality(Unanswered(k)') \in Nat
    <3>1. told'[k] \in Nat
      BY <1>4, <2>1 DEF EscalationsOK
    <3>2. Cardinality(Unanswered(k)') \in Nat
      BY <2>2, EscalationSetsAreFinite, FS_Subset, FS_CardinalityType
    <3> QED
      BY <3>1, <3>2
  <2> QED
    BY <2>1, <2>3, <2>4, <2>5, <2>6, EscalationSetsAreFinite
<1>6. told' \in [Task -> Nat]
  BY <1>1, <1>4 DEF EscalationsOK
<1> QED
  BY <1>1, <1>5, <1>6 DEF EscalationsOK

LEMMA EscalationsEscalation ==
  FramesOK /\ PagesOK /\ EscalationsOK /\ EscalationStep => EscalationsOK'
<1> SUFFICES ASSUME FramesOK, PagesOK, EscalationsOK, EscalationStep PROVE EscalationsOK'
  OBVIOUS
<1>1. ASSUME NEW t \in Thread, NEW k \in Task, TriggerEscalation(t, k) PROVE EscalationsOK'
  <2>1. EscalationFramesKept
    BY <1>1 DEF TriggerEscalation, Accept, Goto, Request, Idle, FramesOK, EscalationFramesKept
  <2> QED
    BY <1>1, <2>1, EscalationsOthers DEF TriggerEscalation
<1>2. ASSUME NEW t \in Thread, NEW at \in {clock, clock + 1}, NewAuditEntry(t, at)
      PROVE EscalationsOK'
  <2>1. ASSUME NEW k \in Task
        PROVE  /\ Unrecorded(k)' \subseteq Unrecorded(k)
               /\ Unanswered(k)' \subseteq Unanswered(k)
    BY <1>2 DEF NewAuditEntry, At, Goto, FramesOK, Frame, Unrecorded, Unanswered
  <2> QED
    BY <1>2, <2>1, EscalationsKept DEF NewAuditEntry
<1>3. ASSUME NEW t \in Thread, AppendEntryFault(t) PROVE EscalationsOK'
  <2>1. ASSUME NEW k \in Task
        PROVE  /\ Unrecorded(k)' \subseteq Unrecorded(k)
               /\ Unanswered(k)' \subseteq Unanswered(k)
    BY <1>3 DEF AppendEntryFault, At, Goto, FramesOK, Frame, Unrecorded, Unanswered
  <2> QED
    BY <1>3, <2>1, EscalationsKept DEF AppendEntryFault
<1> QED
  BY <1>1, <1>2, <1>3, EscalationsSave, EscalationsAppend, EscalationsRespond DEF EscalationStep

---------------------------------------------------------------------------
\* The invariant

LEMMA FacadeStutters == FacadeInvariant /\ UNCHANGED vars => FacadeInvariant'
<1> SUFFICES ASSUME FacadeInvariant, UNCHANGED vars PROVE FacadeInvariant'
  OBVIOUS
<1> USE DEF FacadeInvariant
<1>1. PhaseFramesKept /\ EscalationFramesKept
  BY DEF vars, serverVars, PhaseFramesKept, EscalationFramesKept
<1>2. FramesOK'
  BY DEF vars, serverVars, FramesOK
<1> QED
  BY <1>1, <1>2, DecisionsOthers, GatesOthers, PagesOthers, EscalationsOthers
     DEF vars, escalationVars

LEMMA FacadeSteps == FacadeInvariant /\ Next => FacadeInvariant'
<1> SUFFICES ASSUME FacadeInvariant, Next PROVE FacadeInvariant'
  OBVIOUS
<1> USE DEF FacadeInvariant
<1>1. CASE ServerStep /\ UNCHANGED <<phaseVars, escalationVars, pagingVars>>
  BY <1>1, FramesServer, ServerKeepsPhaseFrames, ServerKeepsEscalationFrames, DecisionsOthers,
     GatesOthers, PagesOthers, EscalationsOthers DEF escalationVars
<1>2. CASE PhaseStep /\ UNCHANGED <<escalationVars, pagingVars>>
  BY <1>2, FramesPhase, DecisionsPhase, GatesPhase, PhaseKeepsEscalationFrames, PagesOthers,
     EscalationsOthers DEF escalationVars
<1>3. CASE EscalationStep /\ UNCHANGED <<phaseVars, pagingVars>>
  BY <1>3, FramesEscalation, OthersKeepPhaseFrames, DecisionsOthers, GatesOthers, PagesEscalation,
     EscalationsEscalation
<1>4. CASE PagingStep /\ UNCHANGED phaseVars
  <2>1. UNCHANGED escalationVars
    BY ZenonT(40), <1>4 DEF PagingStep, LoadRun, WriteRun, BeginPaging, ReadPage, CutPage
  <2> QED
    BY <1>4, <2>1, FramesPaging, OthersKeepPhaseFrames, DecisionsOthers, GatesOthers, PagesPaging,
       PagingKeepsEscalationFrames, EscalationsOthers
<1> QED
  BY <1>1, <1>2, <1>3, <1>4 DEF Next

\* The invariant of the facade holds with any number of concurrent requests,
\* failed statements, hang-ups, crashes and restarts (the shutdown in main.go and
\* the handlers of govdecisions, escalation and the two lists).
THEOREM FacadeInvariance == Spec => []FacadeInvariant
<1>1. Init => FacadeInvariant
  BY FramesInit, DecisionsInit, GatesInit, PagesInit, EscalationsInit DEF FacadeInvariant
<1>2. FacadeInvariant /\ [Next]_vars => FacadeInvariant'
  BY FacadeSteps, FacadeStutters
<1> QED
  BY <1>1, <1>2, PTL DEF Spec

\* A worker that goes on because of a decision has that decision in
\* phase_decisions (EvaluatePhase saves before it answers).
THEOREM AllowIsRecordedAlways == Spec => []AllowIsRecorded
<1>1. FacadeInvariant => AllowIsRecorded
  BY DEF FacadeInvariant, DecisionsOK
<1> QED
  BY <1>1, FacadeInvariance, PTL

\* A worker whose gate was open before it asked for its status does not pass
\* unless the gate is granted (ApprovalStatusFor).
THEOREM GateIsRespectedAlways == Spec => []GateIsRespected
<1>1. FacadeInvariant => GateIsRespected
  BY DEF FacadeInvariant, GatesOK
<1> QED
  BY <1>1, FacadeInvariance, PTL

\* TriggerEscalation never leaves an audit entry or an answer without a stored
\* trigger of the same task.
THEOREM EscalationIsStoredAlways == Spec => []EscalationIsStored
<1>1. FacadeInvariant => EscalationIsStored
  <2> SUFFICES ASSUME FacadeInvariant, NEW k \in Task
               PROVE  /\ Cardinality(EntriesOf(k)) <= triggers[k]
                      /\ told[k] <= triggers[k]
                      /\ triggers[k] > 0 => k \in KnownTask
    BY DEF EscalationIsStored
  <2>1. /\ triggers[k] \in Nat /\ told[k] \in Nat
        /\ Cardinality(EntriesOf(k)) + Cardinality(Unrecorded(k)) <= triggers[k]
        /\ told[k] + Cardinality(Unanswered(k)) <= triggers[k]
        /\ triggers[k] > 0 => k \in KnownTask
    BY DEF FacadeInvariant, EscalationsOK
  <2> QED
    BY <2>1, EscalationSetsAreFinite
<1> QED
  BY <1>1, FacadeInvariance, PTL

\* For every page size a reader of either list sees every row that was there
\* when it began, but for the exceptions PagesAreComplete names: runs written
\* since, rows whose time is shared across the end of a page and, for runs, a
\* time set back, a row that left the filter, a page cut short.
THEOREM PagesAreCompleteAlways == Spec => []PagesAreComplete
<1>1. FacadeInvariant => PagesAreComplete
  BY DEF FacadeInvariant, PagesOK
<1> QED
  BY <1>1, FacadeInvariance, PTL

\* For every page size, and whatever is appended meanwhile in whatever order, a
\* reader of the audit trail misses an entry that was there only if the entry
\* stood behind the end of a page with the time of an entry before that end.
THEOREM AuditIsCompleteAlways == Spec => []AuditIsComplete
<1>1. FacadeInvariant => AuditIsComplete
  BY DEF FacadeInvariant, PagesOK, PagesAreComplete, Excused, AuditIsComplete
<1> QED
  BY <1>1, FacadeInvariance, PTL
=============================================================================

------------------------------- MODULE Server -------------------------------
(***************************************************************************)
(* The process that serves the orchestrator's facade and the lists: its    *)
(* requests in flight, and how it stops and starts.                        *)
(*                                                                         *)
(* A signal closes the listener and lets requests finish; the process      *)
(* leaves when they have, or when the time for that is up.  It may also    *)
(* crash.  A request that is cut off keeps what it has written.            *)
(***************************************************************************)
EXTENDS Naturals, FiniteSets

CONSTANTS
  Thread,      \* request goroutines
  Nobody,      \* the subject of no request
  MaxRequests, \* bound on the requests that are sent without being asked for
  MaxFaults    \* bound on failed statements, hang-ups, signals and crashes

ASSUME ThreadAssumption == IsFiniteSet(Thread)

VARIABLES
  process,  \* serving, draining after a signal, or down
  req,      \* the request of each thread
  clock,    \* the time, as far as rows carry it
  issued,   \* what MaxRequests counts
  faults    \* what MaxFaults counts

serverVars == <<process, req, clock, issued, faults>>

\* A request: its operation, its next statement, whom or what it is about, the
\* time or the answer it holds, and whether its client still listens.
Idle ==
  [op |-> "idle", pc |-> "idle", who |-> Nobody, at |-> 0, answer |-> "none",
   heard |-> FALSE]

Request(op, pc, who) ==
  [Idle EXCEPT !.op = op, !.pc = pc, !.who = who, !.heard = TRUE]

ServerInit ==
  /\ process = "serving"
  /\ req = [t \in Thread |-> Idle]
  /\ issued \in 0..MaxRequests
  /\ faults \in 0..MaxFaults

At(t, op, pc) == req[t].op = op /\ req[t].pc = pc

Goto(t, frame) == req' = [req EXCEPT ![t] = frame]

Return(t) == Goto(t, Idle)

Accept(t, frame) ==
  /\ process = "serving"
  /\ req[t] = Idle
  /\ Goto(t, frame)

\* A request nobody waits for is bounded by the number of requests.
Issue ==
  /\ issued < MaxRequests
  /\ issued' = issued + 1

Fault ==
  /\ faults < MaxFaults
  /\ faults' = faults + 1

\* Time has passed since the last stamp, or not enough to be seen.
Stamped(at) ==
  /\ at \in {clock, clock + 1}
  /\ clock' = at

---------------------------------------------------------------------------

\* The next statement fails, and the handler answers with its error.
Fail(t) ==
  /\ req[t] # Idle
  /\ Fault
  /\ Return(t)
  /\ UNCHANGED <<process, clock, issued>>

\* The client gives up waiting.  The request goes on, or fails as its context
\* is cancelled.
HangUp(t) ==
  /\ req[t].heard
  /\ Fault
  /\ Goto(t, [req[t] EXCEPT !.heard = FALSE])
  /\ UNCHANGED <<process, clock, issued>>

Signal ==
  /\ process = "serving"
  /\ Fault
  /\ process' = "draining"
  /\ UNCHANGED <<req, clock, issued>>

Drained ==
  /\ process = "draining"
  /\ \A t \in Thread : req[t] = Idle
  /\ process' = "down"
  /\ UNCHANGED <<req, clock, issued, faults>>

\* Shutdown's ten seconds are over, or the process is killed.
CutOff ==
  /\ \/ process = "draining" /\ UNCHANGED faults
     \/ process = "serving" /\ Fault
  /\ process' = "down"
  /\ req' = [t \in Thread |-> Idle]
  /\ UNCHANGED <<clock, issued>>

Start ==
  /\ process = "down"
  /\ process' = "serving"
  /\ UNCHANGED <<req, clock, issued, faults>>

ServerStep ==
  \/ \E t \in Thread : Fail(t) \/ HangUp(t)
  \/ Signal
  \/ Drained
  \/ CutOff
  \/ Start
=============================================================================

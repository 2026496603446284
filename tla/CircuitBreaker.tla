--------------------------- MODULE CircuitBreaker ---------------------------
(***************************************************************************)
(* The circuit breakers of (tool, agent role) pairs: what the end of every *)
(* RegisterAttempt feeds them, the transitions they go through, and the    *)
(* audit entries their listener writes.                                    *)
(*                                                                         *)
(* An attempt carries a time taken early in its request.  The observation  *)
(* is atomic, under the registry's mutex; the listener runs after the      *)
(* mutex is released.  The registry lives in memory only.  A pair the      *)
(* registry does not hold yet is a closed breaker that has seen nothing.   *)
(***************************************************************************)
EXTENDS Integers, Sequences, FiniteSets

CONSTANTS
  Key,                           \* (tool, agent role) pairs
  Thread,                        \* requests in flight
  ConsecutiveFailuresThreshold,
  RatioWindowSize,
  RatioMinSamples,               \* the ratio threshold itself is one half
  OpenCooldown,
  HalfOpenProbeSuccesses,
  MaxClock,                      \* bound on time
  MaxObservations,               \* bound on attempts
  MaxLost,                       \* bound on audit entries the recorder loses
  MaxRestarts                    \* bound on restarts

ASSUME BreakerAssumption ==
  /\ ConsecutiveFailuresThreshold \in Nat \ {0}
  /\ RatioWindowSize \in Nat \ {0}
  /\ RatioMinSamples \in Nat \ {0}
  /\ OpenCooldown \in Nat \ {0}
  /\ HalfOpenProbeSuccesses \in Nat \ {0}
  /\ MaxClock \in Nat /\ MaxObservations \in Nat /\ MaxLost \in Nat /\ MaxRestarts \in Nat

VARIABLES
  breakers,  \* the breaker of each key
  seen,      \* history: the results observed for each key since the last start
  trail,     \* audit entries: the transitions recorded for each key
  req,       \* the attempt each thread is reporting
  clock,
  issued, lost, restarts  \* what the bounds count

vars == <<breakers, seen, trail, req, clock, issued, lost, restarts>>

State == {"closed", "open", "half_open"}

Never == -1

NoTransition == <<"none", "none">>

---------------------------------------------------------------------------
\* One breaker

NewCircuitBreaker ==
  [state |-> "closed", openedAt |-> Never, failures |-> 0, successes |-> 0, ring |-> <<>>]

\* The window keeps one result more than its size.
AppendToRingBufferMutant(ring, failed) ==
  Append(IF Len(ring) > RatioWindowSize THEN Tail(ring) ELSE ring, failed)

AppendToRingBuffer(ring, failed) ==
  Append(IF Len(ring) >= RatioWindowSize THEN Tail(ring) ELSE ring, failed)

FailureCount(ring) == Cardinality({i \in DOMAIN ring : ring[i]})

\* More failures in a row than the threshold.
EvaluateTripMutant(b) ==
  \/ b.failures > ConsecutiveFailuresThreshold
  \/ Len(b.ring) >= RatioMinSamples /\ 2 * FailureCount(b.ring) > Len(b.ring)

EvaluateTrip(b) ==
  \/ b.failures >= ConsecutiveFailuresThreshold
  \/ Len(b.ring) >= RatioMinSamples /\ 2 * FailureCount(b.ring) > Len(b.ring)

Counted(b, success) ==
  [b EXCEPT
     !.ring = AppendToRingBuffer(b.ring, ~ success),
     !.failures = IF success THEN 0 ELSE b.failures + 1,
     !.successes = IF success /\ b.state = "half_open" THEN b.successes + 1 ELSE 0]

Opened(b, at) == [b EXCEPT !.state = "open", !.openedAt = at, !.successes = 0]

\* One success too few closes the breaker.
ProbedMutant(b, success, at) ==
  IF ~ success THEN Opened(b, at)
  ELSE IF b.successes + 1 >= HalfOpenProbeSuccesses
         THEN [b EXCEPT !.state = "closed", !.openedAt = Never, !.successes = 0]
         ELSE [b EXCEPT !.state = "half_open"]

\* A closed breaker keeps the time it was opened at.
ProbedKeepsTime(b, success, at) ==
  IF ~ success THEN Opened(b, at)
  ELSE IF b.successes >= HalfOpenProbeSuccesses
         THEN [b EXCEPT !.state = "closed", !.successes = 0]
         ELSE [b EXCEPT !.state = "half_open"]

\* An observation in HALF_OPEN, or the first one after the cooldown.
Probed(b, success, at) ==
  IF ~ success THEN Opened(b, at)
  ELSE IF b.successes >= HalfOpenProbeSuccesses
         THEN [b EXCEPT !.state = "closed", !.openedAt = Never, !.successes = 0]
         ELSE [b EXCEPT !.state = "half_open"]

CooledDown(b, at) == b.state = "open" /\ at - b.openedAt >= OpenCooldown

Observed(b, success, at) ==
  LET c == Counted(b, success) IN
  CASE b.state = "closed" -> IF EvaluateTrip(c) THEN Opened(c, at) ELSE c
    [] b.state = "half_open" -> Probed(c, success, at)
    [] OTHER -> IF CooledDown(b, at)
                  THEN Probed([c EXCEPT !.successes = IF success THEN 1 ELSE 0], success, at)
                  ELSE c

\* A probe that fails is not reported.
TransitionOfMutant(b, success, at) ==
  LET to == Observed(b, success, at).state IN
  IF to # b.state /\ b.state # "half_open" THEN <<b.state, to>> ELSE NoTransition

\* The transition reported: HALF_OPEN to OPEN when the first observation after
\* the cooldown fails.
TransitionOf(b, success, at) ==
  LET to == Observed(b, success, at).state IN
  IF CooledDown(b, at) /\ ~ success THEN <<"half_open", "open">>
  ELSE IF to # b.state THEN <<b.state, to>> ELSE NoTransition

---------------------------------------------------------------------------
\* The registry and the requests

Idle == [pc |-> "idle", at |-> 0, transition |-> NoTransition]

Init ==
  /\ breakers = [k \in Key |-> NewCircuitBreaker]
  /\ seen = [k \in Key |-> <<>>]
  /\ trail = [k \in Key |-> <<>>]
  /\ req = [t \in Thread |-> Idle]
  /\ clock = 0 /\ issued = 0 /\ lost = 0 /\ restarts = 0

\* RegisterAttempt takes the time before it writes the lease and the run.
Begin(t) ==
  /\ req[t] = Idle
  /\ issued < MaxObservations
  /\ issued' = issued + 1
  /\ req' = [req EXCEPT ![t] = [Idle EXCEPT !.pc = "observe", !.at = clock]]
  /\ UNCHANGED <<breakers, seen, trail, clock, lost, restarts>>

\* RegisterAttempt fails, or names no tool or no role: nothing is observed.
Skip(t) ==
  /\ req[t].pc = "observe"
  /\ req' = [req EXCEPT ![t] = Idle]
  /\ UNCHANGED <<breakers, seen, trail, clock, issued, lost, restarts>>

Observe(t, k, success) ==
  /\ req[t].pc = "observe"
  /\ LET reported == TransitionOf(breakers[k], success, req[t].at) IN
     req' = [req EXCEPT ![t] =
       IF reported = NoTransition THEN Idle
       ELSE [Idle EXCEPT !.pc = "listen", !.transition = <<k, reported>>]]
  /\ breakers' = [breakers EXCEPT ![k] = Observed(breakers[k], success, req[t].at)]
  /\ seen' = [seen EXCEPT ![k] = Append(seen[k], success)]
  /\ UNCHANGED <<trail, clock, issued, lost, restarts>>

\* AuditListener: the entry is written, or its error dropped.
Listen(t) ==
  /\ req[t].pc = "listen"
  /\ \/ /\ trail' = [trail EXCEPT ![req[t].transition[1]] =
                       Append(trail[req[t].transition[1]], req[t].transition[2])]
        /\ UNCHANGED lost
     \/ /\ lost < MaxLost
        /\ lost' = lost + 1
        /\ UNCHANGED trail
  /\ req' = [req EXCEPT ![t] = Idle]
  /\ UNCHANGED <<breakers, seen, clock, issued, restarts>>

Tick ==
  /\ clock < MaxClock
  /\ clock' = clock + 1
  /\ UNCHANGED <<breakers, seen, trail, req, issued, lost, restarts>>

\* The service starts again, with an empty registry.  Its entry about that
\* opens a new trail.
Restart ==
  /\ restarts < MaxRestarts
  /\ restarts' = restarts + 1
  /\ breakers' = [k \in Key |-> NewCircuitBreaker]
  /\ seen' = [k \in Key |-> <<>>]
  /\ trail' = [k \in Key |-> <<>>]
  /\ req' = [t \in Thread |-> Idle]
  /\ UNCHANGED <<clock, issued, lost>>

Next ==
  \/ \E t \in Thread : \/ Begin(t) \/ Skip(t) \/ Listen(t)
                       \/ \E k \in Key, success \in BOOLEAN : Observe(t, k, success)
  \/ Tick
  \/ Restart

Spec == Init /\ [][Next]_vars

---------------------------------------------------------------------------
\* Types

Breaker ==
  [state : State, openedAt : Nat \cup {Never}, failures : Nat, successes : Nat,
   ring : Seq(BOOLEAN)]

Move == State \X State

\* Every breaker and every request holds values of its fields' types.
TypeOK ==
  /\ breakers \in [Key -> Breaker]
  /\ seen \in [Key -> Seq(BOOLEAN)]
  /\ trail \in [Key -> Seq(Move)]
  /\ req \in [Thread -> [pc : {"idle", "observe", "listen"}, at : Nat,
                         transition : (Key \X Move) \cup {NoTransition}]]
  /\ \A t \in Thread : req[t].pc = "listen" => req[t].transition \in Key \X Move
  /\ clock \in Nat /\ issued \in Nat /\ lost \in Nat /\ restarts \in Nat

---------------------------------------------------------------------------
\* What holds whatever the order of the attempts and the age of their times

\* The last n of the results s are all of the given kind.
LastAre(s, n, success) ==
  /\ n <= Len(s)
  /\ \A i \in 1..Len(s) : i > Len(s) - n => s[i] = success

IsWindow(ring, s) ==
  /\ Len(ring) = IF Len(s) <= RatioWindowSize THEN Len(s) ELSE RatioWindowSize
  /\ \A i \in 1..Len(ring) : ring[i] = ~ s[Len(s) - Len(ring) + i]

CountsFailures(b, s) ==
  /\ LastAre(s, b.failures, FALSE)
  /\ b.failures < Len(s) => s[Len(s) - b.failures] = TRUE
  /\ b.state = "closed" => b.failures < ConsecutiveFailuresThreshold

CountsProbes(b, s) ==
  /\ b.openedAt = Never <=> b.state = "closed"
  /\ b.state = "half_open" => b.successes \in 1..(HalfOpenProbeSuccesses - 1)
  /\ b.state # "half_open" => b.successes = 0
  /\ LastAre(s, b.successes, TRUE)

\* A breaker's window is the most recent results for its key, as many of them
\* as there are up to the window's size, across openings and closings.
WindowIsRecent == \A k \in Key : IsWindow(breakers[k].ring, seen[k])

\* The failure counter is the length of the row of failures the results end
\* with, and a closed breaker has seen no row as long as the threshold.
FailuresAreCounted == \A k \in Key : CountsFailures(breakers[k], seen[k])

\* A half-open breaker counts the successes the results end with, at least one
\* and too few to close; a breaker is without an opening time iff it is closed.
ProbesAreCounted == \A k \in Key : CountsProbes(breakers[k], seen[k])

\* Only as many successes in a row as there are probes close a breaker, short
\* of a restart.
RecoveryNeedsProbes ==
  [][\A k \in Key :
       breakers[k].state # "closed" /\ breakers'[k].state = "closed" /\ restarts' = restarts
         => LastAre(seen'[k], HalfOpenProbeSuccesses, TRUE)]_vars

\* How often the entries for k, written or about to be, say that its breaker
\* left (i = 1) or reached (i = 2) the closed state.
ClosedEntries(k, i) ==
  Cardinality({n \in DOMAIN trail[k] : trail[k][n][i] = "closed"})
  + Cardinality({t \in Thread : /\ req[t].pc = "listen" /\ req[t].transition[1] = k
                                /\ req[t].transition[2][i] = "closed"})

\* Entries of two listeners may be written in the other order, but unless one
\* is lost they tell whether a breaker is closed: it has left that state as
\* often as it has come back, else once more.
AuditTrailBalances ==
  lost = 0 => \A k \in Key :
    ClosedEntries(k, 1) - ClosedEntries(k, 2) = IF breakers[k].state = "closed" THEN 0 ELSE 1
=============================================================================

---------------------------- MODULE BreakerProofs ----------------------------
(***************************************************************************)
(* Proofs about the circuit breakers, for any thresholds, any number of    *)
(* keys and requests, and times observed in any order.                     *)
(***************************************************************************)
EXTENDS CircuitBreaker, FiniteSetTheorems, TLAPS

USE DEF Never, State

\* What one breaker keeps true of the results it has been shown.
Faithful(b, s) == IsWindow(b.ring, s) /\ CountsFailures(b, s) /\ CountsProbes(b, s)

IInv == TypeOK /\ \A k \in Key : Faithful(breakers[k], seen[k])

---------------------------------------------------------------------------

\* appendToRingBuffer keeps the ring a window on the results.
LEMMA WindowAppend ==
  ASSUME NEW ring \in Seq(BOOLEAN), NEW s \in Seq(BOOLEAN), NEW success \in BOOLEAN,
         IsWindow(ring, s)
  PROVE  /\ AppendToRingBuffer(ring, ~ success) \in Seq(BOOLEAN)
         /\ IsWindow(AppendToRingBuffer(ring, ~ success), Append(s, success))
<1> DEFINE kept == IF Len(ring) >= RatioWindowSize THEN Tail(ring) ELSE ring
<1> DEFINE r == Append(kept, ~ success)
<1> DEFINE z == Append(s, success)
<1>1. RatioWindowSize \in Nat \ {0} BY BreakerAssumption
<1>2. Len(ring) \in Nat /\ Len(s) \in Nat OBVIOUS
<1>3. /\ kept \in Seq(BOOLEAN)
      /\ Len(kept) = IF Len(ring) >= RatioWindowSize THEN Len(ring) - 1 ELSE Len(ring)
  <2>1. CASE Len(ring) >= RatioWindowSize
    <3>1. ring # << >> BY <2>1, <1>1, <1>2
    <3>2. Tail(ring) \in Seq(BOOLEAN) /\ Len(Tail(ring)) = Len(ring) - 1 BY <3>1
    <3> QED BY <3>2, <2>1
  <2>2. CASE ~ (Len(ring) >= RatioWindowSize) BY <2>2
  <2> QED BY <2>1, <2>2
<1>4. Len(kept) = IF Len(ring) >= RatioWindowSize THEN Len(ring) - 1 ELSE Len(ring)
  BY <1>3
<1>5. /\ z \in Seq(BOOLEAN) /\ Len(z) = Len(s) + 1 /\ z[Len(s) + 1] = success
      /\ \A i \in 1..Len(s) : z[i] = s[i]
  OBVIOUS
<1>6. /\ r \in Seq(BOOLEAN) /\ Len(r) = Len(kept) + 1 /\ r[Len(kept) + 1] = ~ success
      /\ \A i \in 1..Len(kept) : r[i] = kept[i]
  BY <1>3
<1> HIDE DEF kept, r, z
<1>7. PICK n \in Nat, m \in Nat, l \in Nat :
        n = Len(ring) /\ m = Len(s) /\ l = Len(kept)
  BY <1>1, <1>2, <1>3
<1>8. /\ Len(r) = l + 1 /\ Len(z) = m + 1 /\ n <= m
      /\ l = IF n >= RatioWindowSize THEN n - 1 ELSE n
  BY <1>1, <1>3, <1>5, <1>6, <1>7 DEF IsWindow
<1>9. Len(r) = IF Len(z) <= RatioWindowSize THEN Len(z) ELSE RatioWindowSize
  BY <1>1, <1>2, <1>4, <1>5, <1>6 DEF IsWindow
<1>10. ASSUME NEW i \in 1..Len(r) PROVE r[i] = ~ z[Len(z) - Len(r) + i]
  <2>1. CASE i = Len(r)
    <3>1. i = l + 1 /\ (m + 1) - (l + 1) + i = m + 1 BY <2>1, <1>8
    <3>2. i = Len(kept) + 1 /\ Len(z) - Len(r) + i = Len(s) + 1 BY <3>1, <1>7, <1>8
    <3>3. r[i] = ~ success BY <3>2, <1>6
    <3>4. z[Len(z) - Len(r) + i] = success BY <3>2, <1>5
    <3> QED BY <3>3, <3>4
  <2>2. CASE i # Len(r) /\ Len(ring) >= RatioWindowSize
    <3>1. i \in 1..Len(kept) /\ i + 1 \in 1..Len(ring) BY <2>2, <1>1, <1>2, <1>4, <1>6
    <3>2. kept[i] = ring[i + 1] BY <2>2, <3>1, <1>1, <1>2, <1>4 DEF kept
    <3>3. ring[i + 1] = ~ s[Len(s) - Len(ring) + (i + 1)] BY <3>1 DEF IsWindow
    <3>4. /\ Len(z) - Len(r) + i = Len(s) - Len(ring) + (i + 1)
          /\ Len(s) - Len(ring) + (i + 1) \in 1..Len(s)
      BY <2>2, <3>1, <1>1, <1>7, <1>8
    <3>5. r[i] = ~ s[Len(s) - Len(ring) + (i + 1)] BY <3>1, <3>2, <3>3, <1>6
    <3>6. z[Len(z) - Len(r) + i] = s[Len(s) - Len(ring) + (i + 1)] BY <3>4, <1>5
    <3> QED BY <3>5, <3>6
  <2>3. CASE i # Len(r) /\ ~ (Len(ring) >= RatioWindowSize)
    <3>1. i \in 1..Len(kept) /\ i \in 1..Len(ring) /\ kept[i] = ring[i]
      BY <2>3, <1>1, <1>2, <1>4, <1>6 DEF kept
    <3>2. ring[i] = ~ s[Len(s) - Len(ring) + i] BY <3>1 DEF IsWindow
    <3>3. /\ Len(z) - Len(r) + i = Len(s) - Len(ring) + i
          /\ Len(s) - Len(ring) + i \in 1..Len(s)
      BY <2>3, <3>1, <1>1, <1>7, <1>8
    <3>4. r[i] = ~ s[Len(s) - Len(ring) + i] BY <3>1, <3>2, <1>6
    <3>5. z[Len(z) - Len(r) + i] = s[Len(s) - Len(ring) + i] BY <3>3, <1>5
    <3> QED BY <3>4, <3>5
  <2> QED BY <2>1, <2>2, <2>3
<1>11. IsWindow(r, z) BY <1>9, <1>10 DEF IsWindow
<1> QED BY <1>6, <1>11 DEF AppendToRingBuffer, kept, r, z

\* One more result of the same kind makes the row at the end one longer.
LEMMA LastAreGrows ==
  ASSUME NEW s \in Seq(BOOLEAN), NEW success \in BOOLEAN, NEW n \in Nat,
         LastAre(s, n, success)
  PROVE  LastAre(Append(s, success), n + 1, success)
<1> DEFINE z == Append(s, success)
<1>1. /\ Len(s) \in Nat /\ Len(z) = Len(s) + 1 /\ z[Len(s) + 1] = success
      /\ \A i \in 1..Len(s) : z[i] = s[i]
  OBVIOUS
<1> HIDE DEF z
<1>2. n + 1 <= Len(z) BY <1>1 DEF LastAre
<1>3. ASSUME NEW i \in 1..Len(z), i > Len(z) - (n + 1) PROVE z[i] = success
  <2>1. CASE i = Len(s) + 1 BY <2>1, <1>1
  <2>2. CASE i # Len(s) + 1
    <3>1. i \in 1..Len(s) /\ i > Len(s) - n BY <2>2, <1>1, <1>3
    <3> QED BY <3>1, <1>1 DEF LastAre
  <2> QED BY <2>1, <2>2
<1>4. LastAre(z, n + 1, success) BY <1>2, <1>3 DEF LastAre
<1> QED BY <1>4 DEF z

\* Of no results at all, anything may be said.
LEMMA LastAreNone ==
  ASSUME NEW s \in Seq(BOOLEAN), NEW success \in BOOLEAN
  PROVE  LastAre(s, 0, success)
BY DEF LastAre

\* What the counters say of the results once the new one is counted.
CountedSound(b, success, c, z) ==
  /\ c \in Breaker /\ z \in Seq(BOOLEAN)
  /\ c.state = b.state /\ c.openedAt = b.openedAt
  /\ c.failures = IF success THEN 0 ELSE b.failures + 1
  /\ c.successes = IF success /\ b.state = "half_open" THEN b.successes + 1 ELSE 0
  /\ IsWindow(c.ring, z)
  /\ LastAre(z, c.failures, FALSE)
  /\ c.failures < Len(z) => z[Len(z) - c.failures] = TRUE
  /\ LastAre(z, c.successes, TRUE)
  /\ success => LastAre(z, 1, TRUE)

\* The counters of Observe describe the results up to and with the new one.
LEMMA CountedFacts ==
  ASSUME NEW b \in Breaker, NEW s \in Seq(BOOLEAN), NEW success \in BOOLEAN,
         Faithful(b, s), NEW c, c = Counted(b, success),
         NEW z, z = Append(s, success)
  PROVE  CountedSound(b, success, c, z)
<1>1. /\ b.failures \in Nat /\ b.successes \in Nat /\ b.ring \in Seq(BOOLEAN)
      /\ b.state \in State /\ b.openedAt \in Nat \cup {Never}
  BY DEF Breaker
<1>2. /\ AppendToRingBuffer(b.ring, ~ success) \in Seq(BOOLEAN)
      /\ IsWindow(AppendToRingBuffer(b.ring, ~ success), z)
  BY <1>1, WindowAppend DEF Faithful
<1>3. /\ c.ring = AppendToRingBuffer(b.ring, ~ success)
      /\ c.state = b.state /\ c.openedAt = b.openedAt
      /\ c.failures = IF success THEN 0 ELSE b.failures + 1
      /\ c.successes = IF success /\ b.state = "half_open" THEN b.successes + 1 ELSE 0
  BY DEF Counted, Breaker
<1>4. c.failures \in Nat /\ c.successes \in Nat BY <1>1, <1>3
<1>5. c = [state |-> c.state, openedAt |-> c.openedAt, failures |-> c.failures,
           successes |-> c.successes, ring |-> c.ring]
  BY DEF Counted, Breaker
<1>6. c \in Breaker BY <1>1, <1>2, <1>3, <1>4, <1>5 DEF Breaker
<1>7. /\ z \in Seq(BOOLEAN) /\ Len(z) = Len(s) + 1 /\ z[Len(s) + 1] = success
      /\ \A i \in 1..Len(s) : z[i] = s[i] /\ Len(s) \in Nat
  OBVIOUS
<1>8. LastAre(z, 0, FALSE) /\ LastAre(z, 0, TRUE) BY <1>7, LastAreNone
<1>9. LastAre(z, c.failures, FALSE) /\ (c.failures < Len(z) => z[Len(z) - c.failures] = TRUE)
  <2>1. CASE success
    <3>1. c.failures = 0 BY <2>1, <1>3
    <3>2. Len(z) - c.failures = Len(s) + 1 BY <3>1, <1>7
    <3>3. z[Len(z) - c.failures] = TRUE BY <3>2, <2>1, <1>7
    <3> QED BY <3>1, <3>3, <1>8
  <2>2. CASE ~ success
    <3>1. c.failures = b.failures + 1 BY <2>2, <1>3
    <3>2. success = FALSE BY <2>2
    <3>3. LastAre(s, b.failures, FALSE) /\ (b.failures < Len(s) => s[Len(s) - b.failures] = TRUE)
      BY DEF Faithful, CountsFailures
    <3>4. LastAre(z, c.failures, FALSE) BY <3>1, <3>2, <3>3, <1>1, LastAreGrows
    <3>5. ASSUME c.failures < Len(z) PROVE z[Len(z) - c.failures] = TRUE
      <4>1. /\ Len(z) - c.failures = Len(s) - b.failures
            /\ b.failures < Len(s) /\ Len(s) - b.failures \in 1..Len(s)
        BY <3>1, <3>5, <1>1, <1>7
      <4>2. z[Len(s) - b.failures] = s[Len(s) - b.failures] BY <4>1, <1>7
      <4>3. s[Len(s) - b.failures] = TRUE BY <4>1, <3>3
      <4> QED BY <4>1, <4>2, <4>3
    <3> QED BY <3>4, <3>5
  <2> QED BY <2>1, <2>2
<1>10. success => LastAre(z, 1, TRUE)
  <2>1. LastAre(s, 0, TRUE) BY LastAreNone
  <2>2. ASSUME success PROVE LastAre(z, 1, TRUE)
    <3>1. success = TRUE BY <2>2
    <3>2. LastAre(z, 0 + 1, success) BY <2>1, <3>1, LastAreGrows
    <3>3. 0 + 1 = 1 OBVIOUS
    <3> QED BY <3>1, <3>2, <3>3
  <2> QED BY <2>2
<1>11. LastAre(z, c.successes, TRUE)
  <2>1. CASE success /\ b.state = "half_open"
    <3>1. success = TRUE /\ c.successes = b.successes + 1 BY <2>1, <1>3
    <3>2. LastAre(s, b.successes, TRUE) BY DEF Faithful, CountsProbes
    <3>3. LastAre(Append(s, success), b.successes + 1, success)
      BY <3>1, <3>2, <1>1, LastAreGrows
    <3> QED BY <3>1, <3>3
  <2>2. CASE ~ (success /\ b.state = "half_open") BY <2>2, <1>3, <1>8
  <2> QED BY <2>1, <2>2
<1> QED BY <1>2, <1>3, <1>6, <1>7, <1>9, <1>10, <1>11 DEF CountedSound

\* Observe keeps a breaker faithful to the results it has been shown, and
\* closes it only after as many successes in a row as there are probes.
LEMMA ObservedFaithful ==
  ASSUME NEW b \in Breaker, NEW s \in Seq(BOOLEAN), NEW success \in BOOLEAN,
         NEW at \in Nat, Faithful(b, s)
  PROVE  /\ Observed(b, success, at) \in Breaker
         /\ Faithful(Observed(b, success, at), Append(s, success))
         /\ b.state # "closed" /\ Observed(b, success, at).state = "closed"
              => LastAre(Append(s, success), HalfOpenProbeSuccesses, TRUE)
<1> DEFINE Q(o, x) ==
      /\ o \in Breaker
      /\ Faithful(o, x)
      /\ b.state # "closed" /\ o.state = "closed" => LastAre(x, HalfOpenProbeSuccesses, TRUE)
<1>1. PICK c : c = Counted(b, success) OBVIOUS
<1>2. PICK z : z = Append(s, success) OBVIOUS
<1>3. CountedSound(b, success, c, z) BY <1>1, <1>2, CountedFacts
<1> USE DEF CountedSound
<1>4. LastAre(z, 0, TRUE) BY <1>3, LastAreNone
<1>5. /\ ConsecutiveFailuresThreshold \in Nat \ {0} /\ HalfOpenProbeSuccesses \in Nat \ {0}
  BY BreakerAssumption
<1>6. Q(Opened(c, at), z)
  <2>1. PICK o : o = Opened(c, at) OBVIOUS
  <2>2. /\ o.state = "open" /\ o.openedAt = at /\ o.successes = 0
        /\ o.failures = c.failures /\ o.ring = c.ring /\ o \in Breaker
    BY <2>1, <1>3 DEF Opened, Breaker
  <2>3. IsWindow(o.ring, z) /\ CountsFailures(o, z) BY <2>2, <1>3 DEF CountsFailures
  <2>4. at # Never OBVIOUS
  <2>5. CountsProbes(o, z) BY <2>2, <2>4, <1>4 DEF CountsProbes
  <2> QED BY <2>1, <2>2, <2>3, <2>5 DEF Faithful
<1>7. ASSUME NEW d \in Breaker, d.openedAt # Never, d.failures = c.failures, d.ring = c.ring,
             success => d.successes \in 1..HalfOpenProbeSuccesses /\ LastAre(z, d.successes, TRUE),
             Q(Opened(d, at), z)
      PROVE  Q(Probed(d, success, at), z)
  <2>1. CASE ~ success BY <2>1, <1>7 DEF Probed
  <2>2. CASE success /\ d.successes >= HalfOpenProbeSuccesses
    <3>1. PICK o : o = Probed(d, success, at) OBVIOUS
    <3>2. /\ o.state = "closed" /\ o.openedAt = Never /\ o.successes = 0
          /\ o.failures = d.failures /\ o.ring = d.ring /\ o \in Breaker
      BY <3>1, <2>2, <1>7 DEF Probed, Breaker
    <3>3. d.successes = HalfOpenProbeSuccesses BY <2>2, <1>5, <1>7
    <3>4. c.failures = 0 BY <2>2, <1>3
    <3>5. IsWindow(o.ring, z) /\ CountsFailures(o, z)
      <4>1. o.failures = c.failures /\ o.ring = c.ring BY <3>2, <1>7
      <4>2. o.failures < ConsecutiveFailuresThreshold BY <4>1, <3>4, <1>5
      <4> QED BY <4>1, <4>2, <1>3 DEF CountsFailures
    <3>6. CountsProbes(o, z) BY <3>2, <1>4 DEF CountsProbes
    <3> QED BY <3>1, <3>2, <3>3, <3>5, <3>6, <2>2, <1>7 DEF Faithful
  <2>3. CASE success /\ ~ (d.successes >= HalfOpenProbeSuccesses)
    <3>1. PICK o : o = Probed(d, success, at) OBVIOUS
    <3>2. /\ o.state = "half_open" /\ o.openedAt = d.openedAt /\ o.successes = d.successes
          /\ o.failures = d.failures /\ o.ring = d.ring /\ o \in Breaker
      BY <3>1, <2>3, <1>7 DEF Probed, Breaker
    <3>3. d.successes \in 1..(HalfOpenProbeSuccesses - 1) BY <2>3, <1>5, <1>7
    <3>4. Faithful(o, z)
      BY <3>2, <3>3, <2>3, <1>3, <1>7 DEF Faithful, CountsFailures, CountsProbes
    <3> QED BY <3>1, <3>2, <3>4
  <2> QED BY <2>1, <2>2, <2>3
<1>8. CASE b.state = "closed"
  <2>1. b.openedAt = Never BY <1>8 DEF Faithful, CountsProbes
  <2>2. CASE EvaluateTrip(c) BY <2>2, <1>1, <1>2, <1>6, <1>8 DEF Observed
  <2>3. CASE ~ EvaluateTrip(c)
    <3>1. c.failures < ConsecutiveFailuresThreshold
      BY <2>3, <1>3, <1>5 DEF EvaluateTrip, Breaker
    <3>2. c.successes = 0 BY <1>3, <1>8
    <3>3. Faithful(c, z)
      BY <3>1, <3>2, <2>1, <1>3, <1>4, <1>8 DEF Faithful, CountsFailures, CountsProbes
    <3>4. Observed(b, success, at) = c BY <2>3, <1>1, <1>8 DEF Observed
    <3> QED BY <3>3, <3>4, <1>2, <1>3, <1>8
  <2> QED BY <2>2, <2>3
<1>9. CASE b.state = "half_open"
  <2>1. b.openedAt # Never /\ b.successes \in 1..(HalfOpenProbeSuccesses - 1)
    BY <1>9 DEF Faithful, CountsProbes
  <2>2. success => c.successes \in 1..HalfOpenProbeSuccesses BY <2>1, <1>3, <1>5, <1>9
  <2>3. Q(Probed(c, success, at), z) BY <2>1, <2>2, <1>3, <1>6, <1>7
  <2>4. Observed(b, success, at) = Probed(c, success, at) BY <1>1, <1>9 DEF Observed
  <2> QED BY <2>3, <2>4, <1>2
<1>10. CASE b.state = "open"
  <2>1. b.openedAt # Never BY <1>10 DEF Faithful, CountsProbes
  <2>2. CASE CooledDown(b, at)
    <3>1. PICK d : d = [c EXCEPT !.successes = IF success THEN 1 ELSE 0] OBVIOUS
    <3>2. /\ d \in Breaker /\ d.openedAt = c.openedAt /\ d.failures = c.failures
          /\ d.ring = c.ring /\ (success => d.successes = 1)
      BY <3>1, <1>3 DEF Breaker
    <3>3. Opened(d, at) = Opened(c, at) BY <3>1, <1>3 DEF Opened, Breaker
    <3>4. success => d.successes \in 1..HalfOpenProbeSuccesses /\ LastAre(z, d.successes, TRUE)
      <4>1. 1 \in 1..HalfOpenProbeSuccesses BY <1>5
      <4> QED BY <4>1, <3>2, <1>3
    <3>5. Q(Probed(d, success, at), z) BY <3>2, <3>3, <3>4, <2>1, <1>3, <1>6, <1>7
    <3>6. Observed(b, success, at) = Probed(d, success, at)
      BY <3>1, <2>2, <1>1, <1>10 DEF Observed
    <3> QED BY <3>5, <3>6, <1>2
  <2>3. CASE ~ CooledDown(b, at)
    <3>1. c.successes = 0 BY <1>3, <1>10
    <3>2. Faithful(c, z)
      BY <3>1, <2>1, <1>3, <1>4, <1>10 DEF Faithful, CountsFailures, CountsProbes
    <3>3. Observed(b, success, at) = c BY <2>3, <1>1, <1>10 DEF Observed
    <3> QED BY <3>2, <3>3, <1>2, <1>3, <1>10
  <2> QED BY <2>2, <2>3
<1> QED BY <1>8, <1>9, <1>10 DEF Breaker

---------------------------------------------------------------------------

\* The empty registry is faithful to the results of nobody.
LEMMA NewFaithful == NewCircuitBreaker \in Breaker /\ Faithful(NewCircuitBreaker, << >>)
<1>1. << >> \in Seq(BOOLEAN) /\ Len(<< >>) = 0 OBVIOUS
<1>2. ConsecutiveFailuresThreshold \in Nat \ {0} /\ RatioWindowSize \in Nat \ {0}
  BY BreakerAssumption
<1>3. LastAre(<< >>, 0, TRUE) /\ LastAre(<< >>, 0, FALSE) BY <1>1, LastAreNone
<1>4. NewCircuitBreaker \in Breaker BY <1>1 DEF NewCircuitBreaker, Breaker
<1>5. IsWindow(NewCircuitBreaker.ring, << >>)
  <2>1. NewCircuitBreaker.ring = << >> BY DEF NewCircuitBreaker
  <2>2. IsWindow(<< >>, << >>) BY <1>1, <1>2 DEF IsWindow
  <2> QED BY <2>1, <2>2
<1>6. CountsFailures(NewCircuitBreaker, << >>)
  <2>1. NewCircuitBreaker.failures = 0 BY DEF NewCircuitBreaker
  <2>2. ~ (0 < Len(<< >>)) /\ 0 < ConsecutiveFailuresThreshold BY <1>1, <1>2
  <2> QED BY <2>1, <2>2, <1>3 DEF CountsFailures
<1>7. CountsProbes(NewCircuitBreaker, << >>)
  BY <1>1, <1>3 DEF NewCircuitBreaker, CountsProbes
<1> QED BY <1>4, <1>5, <1>6, <1>7 DEF Faithful

\* Requests hold a time to observe at, or a transition to report.
Frames ==
  [pc : {"idle", "observe", "listen"}, at : Nat,
   transition : (Key \X Move) \cup {NoTransition}]

\* A request between attempts is a well-formed one.
LEMMA IdleFrame == Idle \in Frames /\ Idle.pc = "idle"
BY DEF Idle, Frames

\* What Observe reports is a pair of states or nothing.
LEMMA TransitionType ==
  ASSUME NEW b \in Breaker, NEW success \in BOOLEAN, NEW at \in Nat,
         Observed(b, success, at) \in Breaker
  PROVE  TransitionOf(b, success, at) \in Move \cup {NoTransition}
<1>1. b.state \in State /\ Observed(b, success, at).state \in State BY DEF Breaker
<1> QED BY <1>1 DEF TransitionOf, Move

\* The registry starts empty.
LEMMA InitIInv == Init => IInv
<1> SUFFICES ASSUME Init PROVE IInv OBVIOUS
<1>1. << >> \in Seq(BOOLEAN) /\ << >> \in Seq(Move) OBVIOUS
<1>2. TypeOK
  BY <1>1, NewFaithful, IdleFrame DEF Init, TypeOK, Frames
<1> QED BY <1>2, NewFaithful DEF Init, IInv

\* Every observation, at whatever time, and every other step keeps every
\* breaker faithful to its results.
LEMMA NextIInv == IInv /\ [Next]_vars => IInv'
<1> SUFFICES ASSUME IInv, [Next]_vars PROVE IInv' OBVIOUS
<1>1. /\ TypeOK /\ \A k \in Key : Faithful(breakers[k], seen[k])
      /\ req \in [Thread -> Frames]
  BY DEF IInv, TypeOK, Frames
<1>2. ASSUME NEW t \in Thread, Begin(t) PROVE IInv'
  <2>1. PICK f : f = [Idle EXCEPT !.pc = "observe", !.at = clock] OBVIOUS
  <2>2. f \in Frames /\ f.pc = "observe" BY <2>1, <1>1, IdleFrame DEF TypeOK, Frames
  <2>3. req' = [req EXCEPT ![t] = f] BY <1>2, <2>1 DEF Begin
  <2>4. /\ req' \in [Thread -> Frames]
        /\ \A u \in Thread : req'[u].pc = "listen" => req'[u].transition \in Key \X Move
    BY <2>2, <2>3, <1>1 DEF TypeOK
  <2>5. issued' \in Nat BY <1>1, <1>2 DEF Begin, TypeOK
  <2>6. UNCHANGED <<breakers, seen, trail, clock, lost, restarts>> BY <1>2 DEF Begin
  <2>7. TypeOK' BY <2>4, <2>5, <2>6, <1>1 DEF TypeOK, Frames
  <2> QED BY <2>6, <2>7, <1>1 DEF IInv
<1>3. ASSUME NEW t \in Thread, Skip(t) PROVE IInv'
  <2>1. req' = [req EXCEPT ![t] = Idle] BY <1>3 DEF Skip
  <2>2. /\ req' \in [Thread -> Frames]
        /\ \A u \in Thread : req'[u].pc = "listen" => req'[u].transition \in Key \X Move
    BY <2>1, <1>1, IdleFrame DEF TypeOK
  <2>3. UNCHANGED <<breakers, seen, trail, clock, issued, lost, restarts>> BY <1>3 DEF Skip
  <2>4. TypeOK' BY <2>2, <2>3, <1>1 DEF TypeOK, Frames
  <2> QED BY <2>3, <2>4, <1>1 DEF IInv
<1>4. ASSUME NEW t \in Thread, NEW k \in Key, NEW success \in BOOLEAN,
             Observe(t, k, success)
      PROVE  IInv'
  <2>1. PICK o, r : /\ o = Observed(breakers[k], success, req[t].at)
                    /\ r = TransitionOf(breakers[k], success, req[t].at)
    OBVIOUS
  <2>2. /\ breakers[k] \in Breaker /\ seen[k] \in Seq(BOOLEAN) /\ req[t].at \in Nat
        /\ Faithful(breakers[k], seen[k])
    BY <1>1 DEF TypeOK, Frames
  <2>3. o \in Breaker /\ Faithful(o, Append(seen[k], success)) BY <2>1, <2>2, ObservedFaithful
  <2>4. r \in Move \cup {NoTransition} BY <2>1, <2>2, <2>3, TransitionType
  <2>5. PICK f : f = IF r = NoTransition THEN Idle
                     ELSE [Idle EXCEPT !.pc = "listen", !.transition = <<k, r>>]
    OBVIOUS
  <2>6. f \in Frames /\ (f.pc = "listen" => f.transition \in Key \X Move)
    <3>1. CASE r = NoTransition BY <3>1, <2>5, IdleFrame
    <3>2. CASE r # NoTransition
      <4>1. <<k, r>> \in Key \X Move BY <3>2, <2>4
      <4>2. f = [Idle EXCEPT !.pc = "listen", !.transition = <<k, r>>] BY <3>2, <2>5
      <4> QED BY <4>1, <4>2 DEF Idle, Frames
    <3> QED BY <3>1, <3>2
  <2>7. req' = [req EXCEPT ![t] = f] BY <2>1, <2>5, <1>4 DEF Observe
  <2>8. /\ req' \in [Thread -> Frames]
        /\ \A u \in Thread : req'[u].pc = "listen" => req'[u].transition \in Key \X Move
    BY <2>6, <2>7, <1>1 DEF TypeOK
  <2>9. /\ breakers' = [breakers EXCEPT ![k] = o]
        /\ seen' = [seen EXCEPT ![k] = Append(seen[k], success)]
        /\ UNCHANGED <<trail, clock, issued, lost, restarts>>
    BY <2>1, <1>4 DEF Observe
  <2>10. Append(seen[k], success) \in Seq(BOOLEAN) BY <2>2
  <2>11. TypeOK' BY <2>3, <2>8, <2>9, <2>10, <1>1 DEF TypeOK, Frames
  <2>12. \A j \in Key : Faithful(breakers'[j], seen'[j]) BY <2>3, <2>9, <1>1 DEF TypeOK
  <2> QED BY <2>11, <2>12 DEF IInv
<1>5. ASSUME NEW t \in Thread, Listen(t) PROVE IInv'
  <2>1. req' = [req EXCEPT ![t] = Idle] BY <1>5 DEF Listen
  <2>2. /\ req' \in [Thread -> Frames]
        /\ \A u \in Thread : req'[u].pc = "listen" => req'[u].transition \in Key \X Move
    BY <2>1, <1>1, IdleFrame DEF TypeOK
  <2>3. trail' \in [Key -> Seq(Move)] /\ lost' \in Nat
    <3>1. PICK k, m : k = req[t].transition[1] /\ m = req[t].transition[2] OBVIOUS
    <3>2. k \in Key /\ m \in Move BY <3>1, <1>1, <1>5 DEF Listen, TypeOK
    <3>3. CASE trail' = [trail EXCEPT ![k] = Append(trail[k], m)] /\ lost' = lost
      <4>1. Append(trail[k], m) \in Seq(Move) BY <3>2, <1>1 DEF TypeOK
      <4> QED BY <4>1, <3>2, <3>3, <1>1 DEF TypeOK
    <3>4. CASE lost' = lost + 1 /\ trail' = trail BY <3>4, <1>1 DEF TypeOK
    <3> QED BY <3>1, <3>3, <3>4, <1>5 DEF Listen
  <2>4. UNCHANGED <<breakers, seen, clock, issued, restarts>> BY <1>5 DEF Listen
  <2>5. TypeOK' BY <2>2, <2>3, <2>4, <1>1 DEF TypeOK, Frames
  <2> QED BY <2>4, <2>5, <1>1 DEF IInv
<1>6. CASE Tick
  <2>1. clock' \in Nat BY <1>1, <1>6 DEF Tick, TypeOK
  <2>2. UNCHANGED <<breakers, seen, trail, req, issued, lost, restarts>> BY <1>6 DEF Tick
  <2>3. TypeOK' BY <2>1, <2>2, <1>1 DEF TypeOK
  <2> QED BY <2>2, <2>3, <1>1 DEF IInv
<1>7. CASE Restart
  <2>1. << >> \in Seq(BOOLEAN) /\ << >> \in Seq(Move) OBVIOUS
  <2>2. /\ breakers' = [k \in Key |-> NewCircuitBreaker] /\ seen' = [k \in Key |-> << >>]
        /\ trail' = [k \in Key |-> << >>] /\ req' = [t \in Thread |-> Idle]
        /\ restarts' = restarts + 1 /\ UNCHANGED <<clock, issued, lost>>
    BY <1>7 DEF Restart
  <2>3. TypeOK' BY <2>1, <2>2, <1>1, NewFaithful, IdleFrame DEF TypeOK, Frames
  <2> QED BY <2>2, <2>3, NewFaithful DEF IInv
<1>8. CASE UNCHANGED vars
  <2>1. UNCHANGED <<breakers, seen, trail, req, clock, issued, lost, restarts>>
    BY <1>8 DEF vars
  <2>2. TypeOK' BY <2>1, <1>1 DEF TypeOK
  <2> QED BY <2>1, <2>2, <1>1 DEF IInv
<1> QED BY <1>2, <1>3, <1>4, <1>5, <1>6, <1>7, <1>8 DEF Next

\* The service keeps every breaker faithful to its results.
THEOREM Invariance == Spec => []IInv
BY InitIInv, NextIInv, PTL DEF Spec

\* The registry and the requests are well-formed in every behaviour.
THEOREM TypeCorrect == Spec => []TypeOK
<1>1. IInv => TypeOK BY DEF IInv
<1> QED BY Invariance, <1>1, PTL

\* For any window size, the ring of every breaker is the most recent results.
THEOREM WindowIsRecentAlways == Spec => []WindowIsRecent
<1>1. IInv => WindowIsRecent BY DEF IInv, Faithful, WindowIsRecent
<1> QED BY Invariance, <1>1, PTL

\* For any threshold, the failure counter is the row of failures at the end of
\* the results, and a closed breaker's row is shorter than the threshold.
THEOREM FailuresAreCountedAlways == Spec => []FailuresAreCounted
<1>1. IInv => FailuresAreCounted BY DEF IInv, Faithful, FailuresAreCounted
<1> QED BY Invariance, <1>1, PTL

\* For any number of probes, a half-open breaker counts the successes since it
\* half-opened, and only closed breakers are without an opening time.
THEOREM ProbesAreCountedAlways == Spec => []ProbesAreCounted
<1>1. IInv => ProbesAreCounted BY DEF IInv, Faithful, ProbesAreCounted
<1> QED BY Invariance, <1>1, PTL

\* A breaker closes only on a full row of successful probes, or by a restart.
THEOREM RecoveryNeedsProbesAlways == Spec => RecoveryNeedsProbes
<1> DEFINE A == \A k \in Key :
      breakers[k].state # "closed" /\ breakers'[k].state = "closed" /\ restarts' = restarts
        => LastAre(seen'[k], HalfOpenProbeSuccesses, TRUE)
<1>1. ASSUME IInv, [Next]_vars PROVE A
  <2> SUFFICES ASSUME NEW k \in Key, breakers[k].state # "closed",
                      breakers'[k].state = "closed", restarts' = restarts
               PROVE  LastAre(seen'[k], HalfOpenProbeSuccesses, TRUE)
    OBVIOUS
  <2>1. breakers' # breakers OBVIOUS
  <2>2. ~ Restart BY <1>1 DEF Restart, IInv, TypeOK
  <2>3. PICK t \in Thread, j \in Key, success \in BOOLEAN : Observe(t, j, success)
    BY <2>1, <2>2, <1>1 DEF Next, vars, Begin, Skip, Listen, Tick
  <2>4. /\ breakers[j] \in Breaker /\ seen[j] \in Seq(BOOLEAN) /\ req[t].at \in Nat
        /\ Faithful(breakers[j], seen[j])
    BY <1>1 DEF IInv, TypeOK
  <2>5. /\ breakers' = [breakers EXCEPT ![j] = Observed(breakers[j], success, req[t].at)]
        /\ seen' = [seen EXCEPT ![j] = Append(seen[j], success)]
    BY <2>3 DEF Observe
  <2>6. j = k BY <2>5, <1>1 DEF IInv, TypeOK
  <2>7. /\ breakers'[k] = Observed(breakers[k], success, req[t].at)
        /\ seen'[k] = Append(seen[k], success)
    BY <2>5, <2>6, <1>1 DEF IInv, TypeOK
  <2> QED BY <2>4, <2>6, <2>7, ObservedFaithful
<1>2. IInv /\ [Next]_vars => [A]_vars BY <1>1
<1> QED BY Invariance, <1>2, PTL DEF Spec, RecoveryNeedsProbes

---------------------------------------------------------------------------
\* The audit trail.  ClosedEntries counts two finite sets: the entries written
\* and the requests that are about to write one.

Written(s, i) == {n \in DOMAIN s : s[n][i] = "closed"}

Listening(r) == {t \in Thread : r[t].pc = "listen"}

Waiting(r, k, i) ==
  {t \in Thread : /\ r[t].pc = "listen" /\ r[t].transition[1] = k
                  /\ r[t].transition[2][i] = "closed"}

\* Of any number of threads only finitely many report at a time, and unless an
\* entry is lost the entries of every key balance.
TrailInv == IsFiniteSet(Listening(req)) /\ AuditTrailBalances

\* Appending an entry to a trail counts it once, if it is about the closed state.
LEMMA WrittenAppend ==
  ASSUME NEW s \in Seq(Move), NEW m \in Move, NEW i \in {1, 2}
  PROVE  /\ IsFiniteSet(Written(s, i)) /\ Cardinality(Written(s, i)) \in Nat
         /\ Cardinality(Written(Append(s, m), i)) =
              Cardinality(Written(s, i)) + IF m[i] = "closed" THEN 1 ELSE 0
<1>1. PICK z : z = Append(s, m) OBVIOUS
<1>2. PICK n \in Nat : n = Len(s) OBVIOUS
<1>3. /\ DOMAIN s = 1..n /\ DOMAIN z = 1..(n + 1) /\ z[n + 1] = m
      /\ \A j \in 1..n : z[j] = s[j]
  BY <1>1, <1>2
<1>4. IsFiniteSet(1..n) BY <1>2, FS_Interval
<1>5. IsFiniteSet(Written(s, i)) /\ Cardinality(Written(s, i)) \in Nat
  <2>1. Written(s, i) \in SUBSET (1..n) BY <1>3 DEF Written
  <2> QED BY <2>1, <1>4, FS_Subset, FS_CardinalityType
<1>6. Written(z, i) = IF m[i] = "closed" THEN Written(s, i) \cup {n + 1} ELSE Written(s, i)
  <2>1. \A j : j \in 1..(n + 1) <=> j \in 1..n \/ j = n + 1 BY <1>2
  <2>2. \A j : j \in Written(z, i) <=> j \in 1..(n + 1) /\ z[j][i] = "closed"
    BY <1>3 DEF Written
  <2>3. \A j : j \in Written(s, i) <=> j \in 1..n /\ s[j][i] = "closed"
    BY <1>3 DEF Written
  <2>4. \A j : j \in Written(z, i) <=> j \in Written(s, i) \/ (j = n + 1 /\ m[i] = "closed")
    BY <2>1, <2>2, <2>3, <1>3
  <2> QED BY <2>4
<1>7. n + 1 \notin Written(s, i) BY <1>2, <1>3 DEF Written
<1>8. CASE m[i] = "closed" BY <1>1, <1>5, <1>6, <1>7, <1>8, FS_AddElement
<1>9. CASE m[i] # "closed" BY <1>1, <1>5, <1>6, <1>9
<1> QED BY <1>5, <1>8, <1>9

\* What the balance counts, in this state and in the next.
LEMMA ClosedEntriesAre ==
  ASSUME NEW k, NEW i
  PROVE  /\ ClosedEntries(k, i) = Cardinality(Written(trail[k], i)) + Cardinality(Waiting(req, k, i))
         /\ ClosedEntries(k, i)' =
              Cardinality(Written(trail'[k], i)) + Cardinality(Waiting(req', k, i))
BY Zenon DEF ClosedEntries, Written, Waiting

\* The requests about to report a key are finitely many.
LEMMA WaitingFinite ==
  ASSUME NEW r, IsFiniteSet(Listening(r)), NEW k, NEW i
  PROVE  IsFiniteSet(Waiting(r, k, i)) /\ Cardinality(Waiting(r, k, i)) \in Nat
<1>1. Waiting(r, k, i) \in SUBSET Listening(r) BY DEF Waiting, Listening
<1> QED BY <1>1, FS_Subset, FS_CardinalityType

ReportsClosed(b, r, to) ==
  /\ r[1] = "closed" <=> b.state = "closed" /\ to # "closed"
  /\ r[2] = "closed" <=> b.state # "closed" /\ to = "closed"
  /\ r = NoTransition => (to = "closed" <=> b.state = "closed")

\* What the listeners are told: that the breaker left the closed state iff it
\* did, and that it came back to it iff it did.
LEMMA TransitionClosed ==
  ASSUME NEW b \in Breaker, NEW success \in BOOLEAN, NEW at \in Nat
  PROVE  ReportsClosed(b, TransitionOf(b, success, at), Observed(b, success, at).state)
<1> USE DEF ReportsClosed
<1>0. PICK r, to : r = TransitionOf(b, success, at) /\ to = Observed(b, success, at).state
  OBVIOUS
<1>1. CASE CooledDown(b, at) /\ ~ success
  <2>1. b.state = "open" BY <1>1 DEF CooledDown
  <2>2. PICK c : c = [Counted(b, success) EXCEPT !.successes = IF success THEN 1 ELSE 0]
    OBVIOUS
  <2>3. Observed(b, success, at) = Opened(c, at) BY <1>1, <2>1, <2>2 DEF Observed, Probed
  <2>4. "state" \in DOMAIN c BY <2>2 DEF Counted, Breaker
  <2>5. to = "open" BY <1>0, <2>3, <2>4 DEF Opened
  <2>6. r = <<"half_open", "open">> BY <1>0, <1>1 DEF TransitionOf
  <2> QED BY <1>0, <2>1, <2>5, <2>6 DEF NoTransition
<1>2. CASE ~ (CooledDown(b, at) /\ ~ success)
  <2>1. r = IF to # b.state THEN <<b.state, to>> ELSE NoTransition BY <1>0, <1>2 DEF TransitionOf
  <2>2. NoTransition[1] # "closed" /\ NoTransition[2] # "closed" BY DEF NoTransition
  <2>3. b.state \in State BY DEF Breaker
  <2>4. CASE to # b.state
    <3>1. r = <<b.state, to>> BY <2>1, <2>4
    <3>2. r[1] = b.state /\ r[2] = to BY <3>1
    <3>3. r # NoTransition BY <3>2, <2>3 DEF NoTransition
    <3> QED BY <1>0, <3>2, <3>3, <2>4
  <2>5. CASE to = b.state BY <1>0, <2>1, <2>2, <2>5
  <2> QED BY <2>4, <2>5
<1> QED BY <1>1, <1>2

\* A step that leaves the trail, the breakers and the reports alone keeps the
\* balance.
LEMMA SameTrail ==
  ASSUME TrailInv, UNCHANGED <<trail, breakers, lost>>,
         \A t \in Thread : /\ req'[t].pc = "listen" <=> req[t].pc = "listen"
                           /\ req[t].pc = "listen" => req'[t] = req[t]
  PROVE  TrailInv'
<1>1. Listening(req') = Listening(req) BY DEF Listening
<1>2. \A k, i : Waiting(req', k, i) = Waiting(req, k, i) BY DEF Waiting
<1>3. \A k, i : ClosedEntries(k, i)' = ClosedEntries(k, i)
  BY <1>2 DEF ClosedEntries, Waiting
<1> QED BY <1>1, <1>3 DEF TrailInv, AuditTrailBalances, Listening

EmptyRegistry ==
  /\ breakers = [k \in Key |-> NewCircuitBreaker]
  /\ trail = [k \in Key |-> << >>]
  /\ req = [t \in Thread |-> Idle]

\* An empty registry has nothing to report.
LEMMA EmptyTrail == EmptyRegistry => TrailInv
<1> SUFFICES ASSUME EmptyRegistry PROVE TrailInv OBVIOUS
<1> USE DEF EmptyRegistry
<1>1. Listening(req) = {} /\ \A k, i : Waiting(req, k, i) = {}
  BY IdleFrame DEF Listening, Waiting
<1>2. \A i : Written(<< >>, i) = {} BY DEF Written
<1>3. \A k \in Key, i \in {1, 2} : ClosedEntries(k, i) = 0 + 0
  <2>1. \A k \in Key, i \in {1, 2} :
          Cardinality(Written(trail[k], i)) = 0 /\ Cardinality(Waiting(req, k, i)) = 0
    BY <1>1, <1>2, FS_EmptySet
  <2> QED BY <2>1, ClosedEntriesAre
<1>4. \A k \in Key : breakers[k].state = "closed" BY DEF NewCircuitBreaker
<1>5. \A k \in Key : ClosedEntries(k, 1) - ClosedEntries(k, 2) = 0
  BY <1>3
<1> QED BY <1>1, <1>4, <1>5, FS_EmptySet DEF TrailInv, AuditTrailBalances

\* The observation of a result adds to the reports exactly what the breaker did.
LEMMA ObserveTrail ==
  ASSUME IInv, TrailInv, NEW t \in Thread, NEW k \in Key, NEW success \in BOOLEAN,
         Observe(t, k, success)
  PROVE  TrailInv'
<1>1. PICK b, r, to : /\ b = breakers[k] /\ r = TransitionOf(b, success, req[t].at)
                      /\ to = Observed(b, success, req[t].at).state
  OBVIOUS
<1>2. /\ b \in Breaker /\ req[t].at \in Nat /\ seen[k] \in Seq(BOOLEAN)
      /\ Faithful(b, seen[k]) /\ req \in [Thread -> Frames] /\ trail \in [Key -> Seq(Move)]
      /\ breakers \in [Key -> Breaker]
  BY <1>1 DEF IInv, TypeOK, Frames
<1>3. ReportsClosed(b, r, to) BY <1>1, <1>2, TransitionClosed
<1>4. PICK f : f = IF r = NoTransition THEN Idle
                   ELSE [Idle EXCEPT !.pc = "listen", !.transition = <<k, r>>]
  OBVIOUS
<1>5. /\ f.pc = "listen" <=> r # NoTransition
      /\ r # NoTransition => f.transition[1] = k /\ f.transition[2] = r
  BY <1>4 DEF Idle
<1>6. /\ req' = [req EXCEPT ![t] = f] /\ req[t].pc = "observe"
      /\ breakers' = [breakers EXCEPT ![k] = Observed(b, success, req[t].at)]
      /\ trail' = trail /\ lost' = lost
  BY <1>1, <1>4 DEF Observe
<1>7. /\ \A u \in Thread : u # t => req'[u] = req[u]
      /\ req'[t] = f /\ breakers'[k].state = to
      /\ \A j \in Key : j # k => breakers'[j] = breakers[j]
  BY <1>1, <1>2, <1>6
<1>8. IsFiniteSet(Listening(req'))
  <2>1. Listening(req') \in SUBSET (Listening(req) \cup {t}) BY <1>7 DEF Listening
  <2>2. IsFiniteSet(Listening(req) \cup {t}) BY FS_AddElement DEF TrailInv
  <2> QED BY <2>1, <2>2, FS_Subset
<1>9. ASSUME NEW i \in {1, 2}
      PROVE  ClosedEntries(k, i)' =
               ClosedEntries(k, i) + IF r # NoTransition /\ r[i] = "closed" THEN 1 ELSE 0
  <2>1. t \notin Waiting(req, k, i) BY <1>6 DEF Waiting
  <2>2. Waiting(req', k, i) = IF r # NoTransition /\ r[i] = "closed"
                                THEN Waiting(req, k, i) \cup {t} ELSE Waiting(req, k, i)
    BY <1>5, <1>7, <2>1 DEF Waiting
  <2>3. IsFiniteSet(Waiting(req, k, i)) /\ Cardinality(Waiting(req, k, i)) \in Nat
    BY WaitingFinite DEF TrailInv
  <2>4. Cardinality(Waiting(req', k, i)) = Cardinality(Waiting(req, k, i))
          + IF r # NoTransition /\ r[i] = "closed" THEN 1 ELSE 0
    <3>1. CASE r # NoTransition /\ r[i] = "closed"
      <4>1. Waiting(req', k, i) = Waiting(req, k, i) \cup {t} BY <2>2, <3>1
      <4> QED BY <4>1, <3>1, <2>1, <2>3, FS_AddElement
    <3>2. CASE ~ (r # NoTransition /\ r[i] = "closed") BY <3>2, <2>2, <2>3
    <3> QED BY <3>1, <3>2
  <2>5. Cardinality(Written(trail[k], i)) \in Nat
    <3>1. <<"open", "open">> \in Move BY DEF Move
    <3> QED BY <3>1, <1>2, WrittenAppend
  <2>6. /\ ClosedEntries(k, i) = Cardinality(Written(trail[k], i)) + Cardinality(Waiting(req, k, i))
        /\ ClosedEntries(k, i)' = Cardinality(Written(trail[k], i)) + Cardinality(Waiting(req', k, i))
    BY <1>6, ClosedEntriesAre
  <2> QED BY <2>3, <2>4, <2>5, <2>6
<1>10. ASSUME NEW j \in Key, j # k, NEW i \in {1, 2}
       PROVE  ClosedEntries(j, i)' = ClosedEntries(j, i)
  <2>1. Waiting(req', j, i) = Waiting(req, j, i) BY <1>5, <1>6, <1>7, <1>10 DEF Waiting
  <2> QED BY <2>1, <1>6, ClosedEntriesAre
<1>11. \A j \in Key, i \in {1, 2} : ClosedEntries(j, i) \in Nat
  <2>1. <<"open", "open">> \in Move BY DEF Move
  <2>2. \A j \in Key, i \in {1, 2} : Cardinality(Written(trail[j], i)) \in Nat
    BY <2>1, <1>2, WrittenAppend
  <2>3. \A j \in Key, i \in {1, 2} : Cardinality(Waiting(req, j, i)) \in Nat
    BY WaitingFinite DEF TrailInv
  <2> QED BY <2>2, <2>3, ClosedEntriesAre
<1>12. AuditTrailBalances'
  <2> SUFFICES ASSUME lost' = 0, NEW j \in Key
               PROVE  ClosedEntries(j, 1)' - ClosedEntries(j, 2)' =
                        IF breakers'[j].state = "closed" THEN 0 ELSE 1
    BY DEF AuditTrailBalances
  <2>1. ClosedEntries(j, 1) - ClosedEntries(j, 2) = IF breakers[j].state = "closed" THEN 0 ELSE 1
    BY <1>6 DEF TrailInv, AuditTrailBalances
  <2>2. CASE j # k BY <2>1, <2>2, <1>7, <1>10
  <2>3. CASE j = k
    <3>1. PICK x \in Nat, y \in Nat : x = ClosedEntries(k, 1) /\ y = ClosedEntries(k, 2)
      BY <1>11
    <3>2. x - y = IF b.state = "closed" THEN 0 ELSE 1 BY <3>1, <2>1, <2>3, <1>1
    <3>3. /\ ClosedEntries(k, 1)' = x + IF b.state = "closed" /\ to # "closed" THEN 1 ELSE 0
          /\ ClosedEntries(k, 2)' = y + IF b.state # "closed" /\ to = "closed" THEN 1 ELSE 0
      BY <3>1, <1>3, <1>9 DEF ReportsClosed
    <3> QED BY <3>2, <3>3, <2>3, <1>7
  <2> QED BY <2>2, <2>3
<1> QED BY <1>8, <1>12 DEF TrailInv, Listening

\* A listener that writes its entry moves it from the reports to the trail.
LEMMA ListenTrail ==
  ASSUME IInv, TrailInv, NEW t \in Thread, Listen(t)
  PROVE  TrailInv'
<1>1. PICK k, m : k = req[t].transition[1] /\ m = req[t].transition[2] OBVIOUS
<1>2. /\ k \in Key /\ m \in Move /\ req \in [Thread -> Frames]
      /\ trail \in [Key -> Seq(Move)] /\ lost \in Nat
  BY <1>1 DEF IInv, TypeOK, Frames, Listen
<1>3. req[t].pc = "listen" /\ req' = [req EXCEPT ![t] = Idle] /\ breakers' = breakers
  BY DEF Listen
<1>4. /\ \A u \in Thread : u # t => req'[u] = req[u]
      /\ req'[t].pc # "listen"
  BY <1>2, <1>3, IdleFrame
<1>5. IsFiniteSet(Listening(req'))
  <2>1. Listening(req') \in SUBSET Listening(req) BY <1>4 DEF Listening
  <2> QED BY <2>1, FS_Subset DEF TrailInv
<1>6. CASE trail' = [trail EXCEPT ![k] = Append(trail[k], m)] /\ lost' = lost
  <2>1. ASSUME NEW i \in {1, 2} PROVE ClosedEntries(k, i)' = ClosedEntries(k, i)
    <3>1. /\ IsFiniteSet(Waiting(req, k, i)) /\ Cardinality(Waiting(req, k, i)) \in Nat
      BY WaitingFinite DEF TrailInv
    <3>2. Waiting(req', k, i) = Waiting(req, k, i) \ {t} BY <1>4 DEF Waiting
    <3>3. t \in Waiting(req, k, i) <=> m[i] = "closed" BY <1>1, <1>3 DEF Waiting
    <3>4. Cardinality(Waiting(req', k, i)) =
            Cardinality(Waiting(req, k, i)) - IF m[i] = "closed" THEN 1 ELSE 0
      <4>1. Cardinality(Waiting(req, k, i) \ {t}) =
              IF t \in Waiting(req, k, i) THEN Cardinality(Waiting(req, k, i)) - 1
                                          ELSE Cardinality(Waiting(req, k, i))
        BY <3>1, FS_RemoveElement
      <4> QED BY <4>1, <3>1, <3>2, <3>3
    <3>5. trail'[k] = Append(trail[k], m) BY <1>2, <1>6
    <3>6. /\ Cardinality(Written(trail[k], i)) \in Nat
          /\ Cardinality(Written(trail'[k], i)) =
               Cardinality(Written(trail[k], i)) + IF m[i] = "closed" THEN 1 ELSE 0
      BY <3>5, <1>2, WrittenAppend
    <3> QED BY <3>1, <3>4, <3>6, ClosedEntriesAre
  <2>2. ASSUME NEW j \in Key, j # k, NEW i \in {1, 2}
        PROVE  ClosedEntries(j, i)' = ClosedEntries(j, i)
    <3>1. Waiting(req', j, i) = Waiting(req, j, i) BY <1>1, <1>4, <2>2 DEF Waiting
    <3>2. trail'[j] = trail[j] BY <1>2, <1>6, <2>2
    <3> QED BY <3>1, <3>2, ClosedEntriesAre
  <2>3. \A j \in Key : /\ ClosedEntries(j, 1)' = ClosedEntries(j, 1)
                       /\ ClosedEntries(j, 2)' = ClosedEntries(j, 2)
    BY <2>1, <2>2
  <2>4. AuditTrailBalances' BY <2>3, <1>3, <1>6 DEF TrailInv, AuditTrailBalances
  <2> QED BY <2>4, <1>5 DEF TrailInv, Listening
<1>7. CASE lost' = lost + 1
  <2>1. lost' # 0 BY <1>2, <1>7
  <2> QED BY <2>1, <1>5 DEF TrailInv, Listening, AuditTrailBalances
<1> QED BY <1>1, <1>6, <1>7 DEF Listen

\* Every step keeps the balance of the entries.
LEMMA NextTrail == IInv /\ TrailInv /\ [Next]_vars => TrailInv'
<1> SUFFICES ASSUME IInv, TrailInv, [Next]_vars PROVE TrailInv' OBVIOUS
<1>1. req \in [Thread -> Frames] BY DEF IInv, TypeOK, Frames
<1>2. ASSUME NEW t \in Thread, Begin(t) PROVE TrailInv'
  <2>1. PICK f : f = [Idle EXCEPT !.pc = "observe", !.at = clock] OBVIOUS
  <2>2. f.pc = "observe" /\ req[t].pc = "idle" /\ req' = [req EXCEPT ![t] = f]
    BY <2>1, <1>2, IdleFrame DEF Begin, Idle
  <2>3. \A u \in Thread : /\ req'[u].pc = "listen" <=> req[u].pc = "listen"
                          /\ req[u].pc = "listen" => req'[u] = req[u]
    BY <2>2, <1>1
  <2>4. UNCHANGED <<trail, breakers, lost>> BY <1>2 DEF Begin
  <2> QED BY <2>3, <2>4, SameTrail
<1>3. ASSUME NEW t \in Thread, Skip(t) PROVE TrailInv'
  <2>1. \A u \in Thread : /\ req'[u].pc = "listen" <=> req[u].pc = "listen"
                          /\ req[u].pc = "listen" => req'[u] = req[u]
    BY <1>1, <1>3, IdleFrame DEF Skip
  <2>2. UNCHANGED <<trail, breakers, lost>> BY <1>3 DEF Skip
  <2> QED BY <2>1, <2>2, SameTrail
<1>4. ASSUME NEW t \in Thread, NEW k \in Key, NEW success \in BOOLEAN, Observe(t, k, success)
      PROVE  TrailInv'
  BY <1>4, ObserveTrail
<1>5. ASSUME NEW t \in Thread, Listen(t) PROVE TrailInv' BY <1>5, ListenTrail
<1>6. CASE Tick \/ UNCHANGED vars
  <2>1. UNCHANGED <<trail, breakers, lost, req>> BY <1>6 DEF Tick, vars
  <2> QED BY <2>1, SameTrail
<1>7. CASE Restart
  <2>1. EmptyRegistry' BY <1>7 DEF Restart, EmptyRegistry
  <2> QED BY <2>1, EmptyTrail, PTL
<1> QED BY <1>2, <1>3, <1>4, <1>5, <1>6, <1>7 DEF Next

\* For any thresholds and any number of requests that report at once: unless an
\* entry is lost, the entries written and those about to be say of every breaker
\* that it has left the closed state as often as it has come back, or once more.
THEOREM AuditTrailBalancesAlways == Spec => []AuditTrailBalances
<1>1. Init => TrailInv BY EmptyTrail DEF Init, EmptyRegistry
<1>2. TrailInv => AuditTrailBalances BY DEF TrailInv
<1> QED BY Invariance, NextTrail, <1>1, <1>2, PTL DEF Spec
=============================================================================

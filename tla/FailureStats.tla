---------------------------- MODULE FailureStats ----------------------------
(***************************************************************************)
(* Adaptive routing: the collector that turns the attempt_registered       *)
(* entries of the audit trail into statistics, the store it publishes them *)
(* in, and the adjustment the evaluator derives from them for a strategy.  *)
(*                                                                         *)
(* The collector takes the cutoff, queries, and stores: attempts go on in  *)
(* between.  Its ticker is a refresh that may begin whenever none is under *)
(* way.  An adjustment is in units of 10^-4, rounded down.                 *)
(***************************************************************************)
EXTENDS RoutingEvaluator, FiniteSetsExt, Bags

CONSTANTS
  Reported,         \* strategies the attempts name
  Role, Category,   \* roles and failure categories the attempts name
  MinSamples, FullConfidenceAt,
  Window,           \* how far back the statistics look
  MaxClock, MaxEntries, MaxFaults, MaxRestarts

None == "none"  \* a field the client left out, or the category of an empty prefix

ASSUME FailureStatsAssumption ==
  /\ Reported \subseteq Strategy
  /\ IsFiniteSet(Category) /\ None \notin Category
  /\ MinSamples \in Nat \ {0} /\ FullConfidenceAt \in Nat /\ MinSamples < FullConfidenceAt
  /\ Window \in Nat \ {0}
  /\ MaxClock \in Nat /\ MaxEntries \in Nat /\ MaxFaults \in Nat /\ MaxRestarts \in Nat

VARIABLES
  trail,     \* the attempt_registered entries, a bag
  stats,     \* the snapshot in the store, or NoStats
  pc,        \* the collector's next step
  cutoff,    \* the time its query looks back to
  fresh,     \* the statistics it has computed
  clock, faults, restarts

vars == <<trail, stats, pc, cutoff, fresh, clock, faults, restarts>>

---------------------------------------------------------------------------
\* Entries

\* Validate lets a success through only without a failure code.
Valid(failed, category) == failed \/ category = None

\* What the collector reads of an entry; "failed" stands for the outcomes
\* failure and retry.  An entry without a strategy is skipped whatever else it
\* says.
Entry ==
  {e \in [strategy : Reported \cup {None}, role : Role \cup {None},
          category : Category \cup {None}, failed : BOOLEAN, at : 0..MaxClock] :
     e.strategy = None => e.role = None /\ e.category = None /\ ~ e.failed}

---------------------------------------------------------------------------
\* Statistics

NoStats == [known |-> FALSE]

SumOver(f, S) == MapThenSumSet(LAMBDA x : f[x], S)

\* How many of the counted entries there are, and how many of them failed.
FailureRate(bag, counted) ==
  [total |-> SumOver(bag, counted),
   failures |-> SumOver(bag, {e \in counted : e.failed})]

\* The three levels: by strategy, role and category; by strategy and category;
\* by strategy.  An entry without a field is not counted where the field is a key.
Aggregate(bag) ==
  LET Of(s) == {e \in BagToSet(bag) : e.strategy = s}
      In(s, c) == {e \in Of(s) : e.category = c} IN
  [known |-> TRUE,
   byStrategyRoleCategory |->
     [k \in Reported \X Role \X Category |->
        FailureRate(bag, {e \in In(k[1], k[3]) : e.role = k[2]})],
   byStrategyCategory |->
     [k \in Reported \X Category |-> FailureRate(bag, In(k[1], k[2]))],
   byStrategy |-> [s \in Reported |-> FailureRate(bag, Of(s))]]

\* Query: the entries younger than the cutoff.
Query(since) ==
  LET young == {e \in BagToSet(trail) : e.at > since} IN
  [e \in young |-> trail[e]]

---------------------------------------------------------------------------
\* Adjustments

DefaultRole == [direct |-> "implementer", decompose |-> "architect", escalate |-> "human"]

SumRates(rates) ==
  [total |-> SumOver([k \in DOMAIN rates |-> rates[k].total], DOMAIN rates),
   failures |-> SumOver([k \in DOMAIN rates |-> rates[k].failures], DOMAIN rates)]

ByStrategyAndRole(st, s) ==
  SumRates([k \in {k \in DOMAIN st.byStrategyRoleCategory :
                     k[1] = s /\ k[2] = DefaultRole[s]} |-> st.byStrategyRoleCategory[k]])

ByStrategyFromMap(st, s) ==
  SumRates([k \in {k \in DOMAIN st.byStrategyCategory : k[1] = s} |-> st.byStrategyCategory[k]])

ClampValue(value, min, max) ==
  IF value < min THEN min ELSE IF value > max THEN max ELSE value

\* Relative to a baseline failure rate of 0.20.
RawAdjustment(rate) ==
  LET deviation == rate.total - 5 * rate.failures IN
  ClampValue(IF deviation >= 0 THEN (deviation * 500) \div rate.total
                               ELSE (deviation * 1500) \div (4 * rate.total),
             -1500, 500)

\* Mutant: the confidence grows on past FullConfidenceAt.
ConfidentMutant(value, samples) ==
  IF samples <= MinSamples THEN 0
  ELSE (value * (samples - MinSamples)) \div (FullConfidenceAt - MinSamples)

\* The value times the confidence in that many samples.
Confident(value, samples) ==
  IF samples <= MinSamples THEN 0
  ELSE IF samples >= FullConfidenceAt THEN value
  ELSE (value * (samples - MinSamples)) \div (FullConfidenceAt - MinSamples)

BuildAdjustment(rate) == Confident(RawAdjustment(rate), rate.total)

\* The finest level with enough samples; the coarsest one if none has.
Level(st, s) ==
  IF ByStrategyAndRole(st, s).total >= MinSamples THEN ByStrategyAndRole(st, s)
  ELSE IF ByStrategyFromMap(st, s).total >= MinSamples THEN ByStrategyFromMap(st, s)
  ELSE st.byStrategy[s]

\* What the evaluator adds to the score of a strategy, 0 if there is no data.
ComputeAdjustment(st, s) ==
  IF ~ st.known \/ s \notin Reported THEN 0
  ELSE IF Level(st, s).total < MinSamples THEN 0
  ELSE BuildAdjustment(Level(st, s))

---------------------------------------------------------------------------
\* The collector

Init ==
  /\ trail = EmptyBag
  /\ stats = NoStats
  /\ pc = "idle" /\ cutoff = 0 /\ fresh = NoStats
  /\ clock = 0 /\ faults = 0 /\ restarts = 0

\* RegisterAttempt appends an entry with the strategy, the role and the failure
\* code its client named.
RegisterAttempt(e) ==
  /\ BagCardinality(trail) < MaxEntries
  /\ Valid(e.failed, e.category)
  /\ e.at = clock
  /\ trail' = trail (+) SetToBag({e})
  /\ UNCHANGED <<stats, pc, cutoff, fresh, clock, faults, restarts>>

Refresh ==
  /\ pc = "idle"
  /\ pc' = "query"
  /\ cutoff' = clock - Window
  /\ UNCHANGED <<trail, stats, fresh, clock, faults, restarts>>

RefreshQuery ==
  /\ pc = "query"
  /\ pc' = "update"
  /\ fresh' = Aggregate(Query(cutoff))
  /\ UNCHANGED <<trail, stats, cutoff, clock, faults, restarts>>

\* A failed query leaves the snapshot as it is, until the next tick.
RefreshFails ==
  /\ pc = "query"
  /\ faults < MaxFaults
  /\ faults' = faults + 1
  /\ pc' = "idle"
  /\ UNCHANGED <<trail, stats, cutoff, fresh, clock, restarts>>

\* Mutant: the counts go on from those of the last refresh.
PublishedSum ==
  IF ~ stats.known THEN fresh
  ELSE [fresh EXCEPT !.byStrategy =
          [s \in Reported |-> [total |-> @[s].total + stats.byStrategy[s].total,
                               failures |-> @[s].failures + stats.byStrategy[s].failures]]]

\* Mutant: a snapshot that is there is not replaced.
PublishedMutant == IF stats.known THEN stats ELSE fresh

Published == fresh

Update ==
  /\ pc = "update"
  /\ pc' = "idle"
  /\ stats' = Published
  /\ fresh' = NoStats
  /\ UNCHANGED <<trail, cutoff, clock, faults, restarts>>

Tick ==
  /\ clock < MaxClock
  /\ clock' = clock + 1
  /\ UNCHANGED <<trail, stats, pc, cutoff, fresh, faults, restarts>>

\* The store and the collector live in memory.
Restart ==
  /\ restarts < MaxRestarts
  /\ restarts' = restarts + 1
  /\ stats' = NoStats
  /\ pc' = "idle" /\ cutoff' = 0 /\ fresh' = NoStats
  /\ UNCHANGED <<trail, clock, faults>>

Collector == Refresh \/ RefreshQuery \/ Update

Next ==
  \/ \E e \in Entry : RegisterAttempt(e)
  \/ Collector
  \/ RefreshFails
  \/ Tick
  \/ Restart

Spec == Init /\ [][Next]_vars

\* The collector's loop goes on: its ticker fires and its statements return.
FairSpec == Spec /\ WF_vars(Collector)

---------------------------------------------------------------------------

\* The rate of a strategy's attempts in the whole trail.
Held(s) == FailureRate(trail, {e \in BagToSet(trail) : e.strategy = s})

AtMost(rate, bound) == rate.total <= bound.total /\ rate.failures <= bound.failures

\* However often the collector has run, and whatever was registered, failed or
\* restarted since, the snapshot counts no attempt twice and none that is not
\* in the trail: at each level a strategy has at most as many attempts, and
\* as many failures, as at the coarser level, and at the coarsest at most
\* those the trail holds.  No level has more failures than attempts.
CountsAreBacked ==
  stats.known => \A s \in Reported \cap Scored :
    LET fine == ByStrategyAndRole(stats, s)
        mid == ByStrategyFromMap(stats, s)
        coarse == stats.byStrategy[s] IN
    /\ \A rate \in {fine, mid, coarse} : rate.failures <= rate.total
    /\ AtMost(fine, mid) /\ AtMost(mid, coarse) /\ AtMost(coarse, Held(s))

\* The adjustment the decision explains is the one applied: the final clamp to
\* the limits around the base score never changes it.
ExplainedIsApplied ==
  \A s \in Scored :
    ClampValue(ComputeAdjustment(stats, s), -1500, 500) = ComputeAdjustment(stats, s)

\* What the two rest on.  The trail holds finitely many entries, and the
\* snapshot, in the store or on its way there, counts entries of the trail,
\* each level at least those of the finer one.
Counted(bag) ==
  /\ IsFiniteSet(DOMAIN bag)
  /\ \A e \in DOMAIN bag : e \in Entry /\ bag[e] \in Nat

IsRate(rate) == rate.total \in Nat /\ rate.failures \in Nat /\ rate.failures <= rate.total

Ordered(st) ==
  st.known => \A s \in Reported \cap Scored :
    LET fine == ByStrategyAndRole(st, s)
        mid == ByStrategyFromMap(st, s) IN
    /\ IsRate(fine) /\ IsRate(mid) /\ IsRate(st.byStrategy[s])
    /\ AtMost(fine, mid) /\ AtMost(mid, st.byStrategy[s])

Backed(st) == st.known => \A s \in Reported \cap Scored : AtMost(st.byStrategy[s], Held(s))

StatsInv ==
  /\ Counted(trail)
  /\ Ordered(stats) /\ Ordered(fresh)
  /\ Backed(stats) /\ Backed(fresh)

\* Once attempts and time stand still, the snapshot becomes that of the window
\* and stays so: failed refreshes and restarts are made up for.
SnapshotCatchesUp == <>[](stats = Aggregate(Query(clock - Window)))

\* "Below baseline -> positive (bonus), above -> negative (penalty)": a penalty
\* goes only to a strategy that fails above the baseline in the window.
PenaltyIsDeserved ==
  \A s \in Scored : ComputeAdjustment(stats, s) < 0 =>
    5 * stats.byStrategy[s].failures > stats.byStrategy[s].total
=============================================================================

----------------------------- MODULE MCTaskTree -----------------------------
(***************************************************************************)
(* Instances of the task tree for TLC.                                     *)
(***************************************************************************)
EXTENDS TaskTree

Known(rate, heuristics) == [known |-> TRUE, failureRate |-> rate, heuristics |-> heuristics]

\* No provider or a failed call, the stub's empty context, and every context
\* a provider could report.
MCMemory == {NoMemory} \cup {Known(rate, h) : rate \in 0..10, h \in BOOLEAN}

\* The extreme adjustments in all combinations.
MCExtremes == [Scored -> {-1500, 0, 500}]
=============================================================================

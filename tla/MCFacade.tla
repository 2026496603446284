------------------------------ MODULE MCFacade ------------------------------
(***************************************************************************)
(* The facade for TLC.  The workers and the reader touch no common table,  *)
(* so they are there one at a time; escalations and updates of runs go on  *)
(* beside both.                                                            *)
(***************************************************************************)
EXTENDS FacadeInv, TLC

CONSTANTS e1, e2, e3, r1, r2, r3

Stored(at) == [at |-> at, task |-> Nobody]

Row(at, match) == [at |-> at, match |-> match]

MCInit ==
  /\ clock = 3
  /\ issued = 0
  /\ \/ /\ client = [c \in Client |-> "asking"]
        /\ pager = NotReading
        /\ faults = 0
        /\ entries = [e \in EntryID |-> NoEntry]
        /\ runs = [r \in RunID |-> NoRun]
     \/ /\ client = [c \in Client |-> "away"]
        /\ pager = Ready
        /\ faults = MaxFaults - 1
        /\ entries = e1 :> Stored(1) @@ e2 :> Stored(2) @@ e3 :> Stored(3)
                      @@ [e \in EntryID |-> NoEntry]
        /\ runs = r1 :> Row(1, TRUE) @@ r2 :> Row(2, TRUE) @@ r3 :> Row(3, TRUE)
                   @@ [r \in RunID |-> NoRun]
  /\ Init

\* The requests that touch what the scene is about.
Scene ==
  CASE pager.phase = "off" -> {"evaluate", "poll"}
    [] pager.phase = "done" -> {}
    [] pager.list = "runs" -> {"update"}
    [] pager.list = "audit" -> {"escalate"}
    [] OTHER -> {}

MCNext == Next /\ \A t \in Thread : req'[t].op \in Scene \cup {"idle", req[t].op}

MCSpec == MCInit /\ [][MCNext]_vars /\ Fairness
=============================================================================

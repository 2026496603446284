---------------------------- MODULE MCExecution ----------------------------
(***************************************************************************)
(* A policy-checked run under concurrent requests, with a history of who   *)
(* has reported attempts and which approvals have been given.              *)
(***************************************************************************)
EXTENDS MCGovernance, Reporters

ExecutionSpec ==
  CheckedInit /\ reporters = {} /\ grants = {} /\ [][ReporterNext]_historyVars
=============================================================================

SPECIFICATION FairSpec
CONSTANTS
  Reported = {"direct"}
  Role = {"implementer"}
  Category = {"tool"}
  MinSamples = 1
  FullConfidenceAt = 3
  Window = 1
  MaxClock = 1
  MaxEntries = 4
  MaxFaults = 1
  MaxRestarts = 1
INVARIANTS
  CountsAreBacked
  ExplainedIsApplied
PROPERTIES
  SnapshotCatchesUp
CHECK_DEADLOCK FALSE

SPECIFICATION Spec
CONSTANTS
  Reported = {"direct"}
  Role = {}
  Category = {"tool"}
  MinSamples = 1
  FullConfidenceAt = 3
  Window = 1
  MaxClock = 0
  MaxEntries = 10
  MaxFaults = 0
  MaxRestarts = 0
INVARIANTS
  PenaltyIsDeserved
CHECK_DEADLOCK FALSE

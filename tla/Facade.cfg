SPECIFICATION MCSpec
CONSTANTS
  Thread = {t1, t2}
  Nobody = Nobody
  Client = {c1, c2}
  Sensitive = {c2}
  Task = {k1, k2}
  KnownTask = {k1}
  e1 = e1
  e2 = e2
  e3 = e3
  r1 = r1
  r2 = r2
  r3 = r3
  EntryID = {e1, e2, e3, e4, e5}
  RunID = {r1, r2, r3, r4}
  MaxLimit = 2
  DefaultLimit = 2
  AskedLimit = {0, 1, 3}
  MaxRequests = 2
  MaxFaults = 3
INVARIANTS
  AllowIsRecorded
  GateIsRespected
  EscalationIsStored
  PagesAreComplete
  AuditIsComplete
  FacadeInvariant
CHECK_DEADLOCK FALSE
PROPERTIES
  DecisionArrives

SPECIFICATION Spec
CONSTANTS
  Jobs = {j1}
  Replicas = {p1}
  Faults = {"database"}
  MaxCrashes = 0
  Ttl = 3  JobTimeout = 2  StuckAfter = 2
INVARIANTS
  AcceptedIsBacked
CHECK_DEADLOCK FALSE

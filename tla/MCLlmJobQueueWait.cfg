SPECIFICATION Spec
CONSTANTS
  Jobs = {j1}
  Replicas = {p1}
  Faults = {}
  MaxCrashes = 0
  Ttl = 3  JobTimeout = 2  StuckAfter = 2
INVARIANTS
  HoldOutlastsRun
CHECK_DEADLOCK FALSE

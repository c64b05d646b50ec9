SPECIFICATION Spec
CONSTANTS
  Jobs = {j1}
  Replicas = {p1, p2}
  Faults = {"crash", "billing", "wallclock"}
  MaxCrashes = 2
  Ttl = 3  JobTimeout = 2  StuckAfter = 2
INVARIANTS
  AcceptedIsBacked EveryCallAudited
PROPERTY AcceptedEnds
CHECK_DEADLOCK FALSE

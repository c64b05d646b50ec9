SPECIFICATION Spec
CONSTANTS
  Jobs = {j1}
  Replicas = {p1, p2}
  Faults = {"crash", "connection", "database", "billing", "model_gone", "wallclock"}
  MaxCrashes = 1
  Ttl = 3  JobTimeout = 2  StuckAfter = 2
INVARIANTS
  TypeOK EventsMatchStatus AuditRowsAgree OneExecution SettlementMatchesOutcome CancelAborts
  HoldOutlastsDirectRun
PROPERTY LivesOnce
SYMMETRY Symmetry
CHECK_DEADLOCK FALSE

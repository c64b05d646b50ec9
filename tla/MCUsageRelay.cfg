SPECIFICATION Spec
CONSTANTS
  Rows = {1, 2}
  Tagged = {2}
  Relays = {w1, w2}
  UsageReaders = {b1, b2}
  CampaignReaders = {c1}
  Hosts = {h1, h2}
  BatchSize = 2  ReadCount = 2  MaxLen = 1
  Faults = {"abort", "write", "ack", "restart", "rename", "redis_at_start"}
  MaxFaults = 1
INVARIANTS
  TypeOK LostOnlyByTrimming DoublesNeedAborts AckedIsCounted
PROPERTY DeliversOnce
SYMMETRY Symmetry
CHECK_DEADLOCK FALSE

SPECIFICATION Spec
CONSTANTS
  Rows = {1, 2}
  Tagged = {2}
  Relays = {w1}
  UsageReaders = {b1}
  CampaignReaders = {c1}
  Hosts = {h1}
  BatchSize = 2  ReadCount = 2  MaxLen = 1
  Faults = {"abort", "write", "ack", "restart"}
  MaxFaults = 1
PROPERTY Delivers
CHECK_DEADLOCK FALSE

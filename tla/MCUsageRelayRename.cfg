SPECIFICATION Spec
CONSTANTS
  Rows = {1}
  Tagged = {1}
  Relays = {w1}
  UsageReaders = {b1}
  CampaignReaders = {c1}
  Hosts = {h1, h2}
  BatchSize = 2  ReadCount = 2  MaxLen = 1
  Faults = {"restart", "rename"}
  MaxFaults = 1
PROPERTY Delivers
CHECK_DEADLOCK FALSE

SPECIFICATION Spec
CONSTANTS
  NoJob = NoJob
  Chapters = {1}
  Drivers = {d1}
  Jobs = {j1}
  Setups <- QuietSetups
  MaxCalls = 1
INVARIANT DoneWasExtracted
CHECK_DEADLOCK FALSE

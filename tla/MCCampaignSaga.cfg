SPECIFICATION Spec
CONSTANTS
  NoJob = NoJob
  Chapters = {1, 2}
  Drivers = {d1, d2}
  Jobs = {j1, j2, j3}
  Setups <- MixedSetups
  MaxCalls = 1
INVARIANTS
  TypeOK InflightBounded OneStageInFlight AttemptsBounded OneJobPerChapter CancelLeavesNothing
PROPERTY FollowsPlan
SYMMETRY Symmetry
CHECK_DEADLOCK FALSE

SPECIFICATION Spec
CONSTANTS
  j1 = j1
  j2 = j2
  j3 = j3
  Jobs = {j1, j2, j3}
  Setups <- MixedSetups
  PageLimit = 2
  AbsenceBatch = 1
  MaxRetries = 2
INVARIANTS TypeOK ProjectedIsKept SweptIsKept
PROPERTIES Converges MirrorsOwner

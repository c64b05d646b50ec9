SPECIFICATION Spec
CONSTANTS
  o1 = o1  j1 = j1  j2 = j2  k1 = k1
  NoKey = NoKey  NoJob = NoJob  NoAmount = NoAmount
  Owners = {o1}
  Jobs = {j1, j2}
  Reservations = {r1, r2}
  Requests = {q1, q2}
  Keys = {k1}
  OwnerOf <- SameOwner
  SourceOf <- UserModels
  KeyOf <- SameKey
  SpendCap <- KeyCap
  DefaultDaily = 4  DefaultMonthly = 4
  FreeTier = 0  StartCredits = 0
  Amounts = {0, 2}
  Limits = {}
  MaxDay = 0
INVARIANTS
  OneHoldPerJob ChargedOnce KeyHoldsWithinCap
PROPERTIES KeepsAccount HoldsEnd

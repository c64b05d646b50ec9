SPECIFICATION Spec
CONSTANTS
  o1 = o1  j1 = j1  j2 = j2  k1 = k1
  NoKey = NoKey  NoJob = NoJob  NoAmount = NoAmount
  Owners = {o1}
  Jobs = {j1, j2}
  Reservations = {r1, r2}
  Requests = {q1}
  Keys = {}
  OwnerOf <- SameOwner
  SourceOf <- MixedSources
  KeyOf <- FirstParty
  SpendCap <- KeyCap
  DefaultDaily = 3  DefaultMonthly = 4
  FreeTier = 2  StartCredits = 2
  Amounts = {1, 3}
  Limits = {2}
  MaxDay = 2
INVARIANTS
  TypeOK ReservedMatchesHolds WindowsMatchCharges CreditsPayTheOverflow
  OverspendExplained
PROPERTY KeepsAccount
SYMMETRY Symmetry

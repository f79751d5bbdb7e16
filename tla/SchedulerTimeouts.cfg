CONSTANTS
  Orgs = {"acme"}
  Org = "acme"
  Accounts = {"provider"}
  Provider = "provider"
  InitialOwner = "provider"
  ZeroAddress = "zero"
  Times = {0, 1, 2, 3, 4, 5, 6}
  Bodies <- PeriodBodies
  MaxNonce = 3
  MaxTime = 6
  Second = 2
  Day = 4
  MinPeriod = 1
  MaxEvents = 2
  MaxTx = 3
SPECIFICATION Spec
INVARIANTS
    AttestedOnce
    RecordsVerify

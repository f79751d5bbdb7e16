CONSTANTS
  Events = {"e1", "e2", "e3", "e4"}
  Bad = {"e3"}
  QueueMax = 2
  BatchSize = 2
  MaxRetries = 2
  Kinds = {"callback", "application", "decisions"}
  StartCanFail = TRUE
  MaxFaults = 3
SPECIFICATION FairSpec
INVARIANTS
    NoSilentLoss
    RepeatsAreExplained
    FaultsStayLocal
PROPERTIES
    WriterSettles
CHECK_DEADLOCK FALSE

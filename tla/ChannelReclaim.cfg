CONSTANTS
  Ids = {0, 1}
  Deposits = {1, 2}
  Payments = {1, 2}
  MinDeposit = 1
  MaxPayments = 2
  Durations = {2}
  CHALLENGE_PERIOD = 1
  AloneAmounts = {}
  AloneNonces = {}
  MaxAlone = 0
  MaxTime = 3
SPECIFICATION Spec
PROPERTY
  ClaimIsPaid
CHECK_DEADLOCK FALSE

CONSTANTS
  Ids = {0, 1}
  Deposits = {1, 2}
  Payments = {1, 2}
  MinDeposit = 1
  MaxPayments = 2
  Durations = {2}
  CHALLENGE_PERIOD = 1
  AloneAmounts = {1}
  AloneNonces = {1, 3}
  MaxAlone = 1
  MaxTime = 3
SPECIFICATION Spec
INVARIANTS
    EscrowSound
    DepositAccounted
    PaidWasSigned
    SignedStatesSound
PROPERTIES
    ClaimsHonoured
CHECK_DEADLOCK FALSE

CONSTANTS
  a1 = a1
  a2 = a2
  m1 = m1
  m2 = m2
  Attempts <- AttemptsMC
  Admins <- AdminsMC
  NoTx = NoTx
  Nobody = Nobody
  Endpoints <- AllEndpoints
  InSession = {}
  LateGuarantors = 1
  MaxFaults = 1
SPECIFICATION Spec
SYMMETRY Symmetric
INVARIANTS
  TypeOK
  ActiveLoanWasPaid
  ServiceInitiatesOnce
  PaidTwiceOnlyByFault
  FeeOnlyForDeliveredMoney
  FeeMatchesConfirmation
  AutoConfirmStandsAlone
  FailedWasNotPaid
  LostOnlyByFault
CHECK_DEADLOCK FALSE

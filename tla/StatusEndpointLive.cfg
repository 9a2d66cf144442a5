CONSTANTS
  a1 = a1
  a2 = a2
  m1 = m1
  m2 = m2
  Attempts <- AttemptsMC
  Admins <- AdminsMC
  NoTx = NoTx
  Nobody = Nobody
  Endpoints <- AllEndpoints
  InSession = {}
  LateGuarantors = 0
  MaxFaults = 0
SPECIFICATION FairSpec
PROPERTIES
  PaymentSettles
  DisbursementGetsAnswer
CHECK_DEADLOCK FALSE

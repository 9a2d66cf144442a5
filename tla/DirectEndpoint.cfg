CONSTANTS
  a1 = a1
  a2 = a2
  m1 = m1
  m2 = m2
  Attempts <- AttemptsMC
  Admins <- AdminsMC
  NoTx = NoTx
  Nobody = Nobody
  Endpoints <- DirectOnly
  InSession <- AdminsMC
  LateGuarantors = 0
  MaxFaults = 1
SPECIFICATION Spec
SYMMETRY Symmetric
INVARIANTS
  ActiveLoanWasPaid
  LedgerMatchesCompletion
  FailedWasNotPaid
CHECK_DEADLOCK FALSE

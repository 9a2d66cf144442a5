CONSTANTS
  s1 = s1
  s2 = s2
  r1 = r1
  d1 = d1
  x1 = x1
  x2 = x2
  w1 = w1
  w2 = w2
  StkDeposits <- OneStk
  StkRepayments <- None
  PspDeposits <- OnePsp
  Withdrawals <- None
  Workers <- TwoWorkers
  Owed = 1
  MaxFaults = 0
SPECIFICATION Spec
INVARIANT BalanceIsRunningSum
CHECK_DEADLOCK FALSE

CONSTANTS
  Loans = {l1}
  Members = {m1}
  Externals = {e1}
  Workers = {w1, w2}
  Required = 2
  LoanAmount = 3
  Amounts = {1}
  Savings = 4
  Repeats = FALSE
  None = None
SPECIFICATION Spec
SYMMETRY Symmetric
INVARIANT AnsweredIsClosed

------------------------- MODULE MCLoanDisbursement -------------------------
EXTENDS LoanDisbursement, TLC

CONSTANTS a1, a2, m1, m2

AttemptsMC == {a1, a2}
AdminsMC == {m1, m2}
DirectOnly == {"b2c"}

\* Attempts and admin requests are interchangeable.
Symmetric == Permutations(AttemptsMC) \cup Permutations(AdminsMC)
=============================================================================

---------------------------- MODULE MCCollections ----------------------------
EXTENDS Collections, TLC

CONSTANTS s1, s2, r1, d1, x1, x2, w1, w2

None == {}
OneStk == {s1}
TwoStk == {s1, s2}
OneRepayment == {r1}
OnePsp == {d1}
OneWithdrawal == {x1}
TwoWithdrawals == {x1, x2}
TwoWorkers == {w1, w2}

\* Workers and STK deposits are interchangeable.
Alike == Permutations(TwoWorkers) \cup Permutations(TwoStk)
=============================================================================

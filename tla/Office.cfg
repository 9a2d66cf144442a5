CONSTANTS
  Parts = {"applications", "instalments", "reminders", "campaigns", "billing",
           "dividends", "imports", "liquidity", "arrears", "notices", "credit"}
  Workers = {w1, w2}
  Nothing = Nothing
  Drafts = {c1}
  Past = {c0}
  Payments = {t1, t2}
  Accounts = {a1, a2}
  People = {p1, p2}
  Phones = {d1, d2}
  Member = u1
  Stranger = u2
SPECIFICATION Spec
SYMMETRY Symmetric
\* Rows, days and attempts are bounded.
CHECK_DEADLOCK FALSE
INVARIANTS
  OfficeTypeOK
  LimitRespected
  InstalmentsAddUp
  MessagesOnce
  BilledOnce
  BlockedForCause
  DividendsOnce
  ImportedOnce

CONSTANTS
  Parts = {"codes", "accounts", "identity", "roles"}
  Workers = {w1, w2}
  None = None
  Purposes = {"PHONE_VERIFY", "PASSWORD_RESET"}
  Channels = {"PHONE", "EMAIL"}
  Spellings = {s1, s2}
  MaxAttempts = 1
  MaxTokens = 2
  MaxTime = 1
  MaxChecks = 2
  Emails = {e1, e2}
  Subjects = {g1}
  Passwords = {p1}
  Phones = {n1, n2}
  Devices = {d1}
  Documents = {"id_front", "id_back", "passport"}
  MaxRequests = 4
  Founder = u1
  Second = u2
  Saccos = {b1, b2}
  Platform = Platform
  MaxRows = 4
  Deleted = Deleted
SPECIFICATION Spec
SYMMETRY Symmetric
\* Tokens, the clock and requests are bounded.
CHECK_DEADLOCK FALSE
INVARIANTS
  AccountsTypeOK
  CodeIsSpentOnce
  AcceptedWasCurrent
  OneCodeWorks
  LastChangesStand
  ApprovedWithCause

------------------------------- MODULE SignIn -------------------------------
(***************************************************************************)
(* Accounts and how people get into them: registration, login and logout,  *)
(* Google sign-in and linking (accounts/oauth_views.py), the profile and   *)
(* password endpoints (accounts/views.py 156-307) and registered devices   *)
(* (accounts/biometric_views.py).                                          *)
(*                                                                         *)
(* A request reads the account when it is authenticated and writes it at   *)
(* its end; only some of the writes name the columns they mean.  The codes *)
(* that a password reset and the check of a phone number need are in       *)
(* OneTimeCode; here is what the two write.  A Google token is one that    *)
(* Google signed for an allowed client, with the nonce of the request      *)
(* where there is one.                                                     *)
(***************************************************************************)
EXTENDS Integers, FiniteSets

CONSTANTS
  Emails,     \* accounts, by their e-mail address
  Subjects,   \* Google identities
  Passwords,  \* passwords that are strong enough
  Phones,     \* phone numbers
  Devices,    \* device ids
  Handlers,   \* requests handled at the same time
  Absent      \* no account, no password, no Google identity

VARIABLES
  account,   \* the User row of an e-mail address
  kycRow,    \* the accounts that have a KYCVerification row
  device,    \* the UserDevice rows of the one who uses this client
  sessions,  \* refresh tokens that are not blacklisted
  signReq,   \* what every handler is doing
  written,   \* history: the last value a request meant to store, by column
  crossed    \* history: accounts written to while a request that will save the
             \* whole row was at work

signVars == <<account, kycRow, device, sessions, signReq, written, crossed>>

Users == [password : Passwords \cup {Absent}, google : Subjects \cup {Absent},
          phone : Phones \cup {Absent}]

\* biometric_enabled, or no row.
DeviceRows == BOOLEAN \cup {Absent}

Sessions == [email : Emails, by : {"password", "google"}]

NewUser(p, s, n) == [password |-> p, google |-> s, phone |-> n]

NoRequest == [op |-> "none"]

SignInit ==
  /\ account = [e \in Emails |-> Absent] /\ written = account
  /\ kycRow = {} /\ sessions = {} /\ crossed = {}
  /\ device = [d \in Devices |-> Absent]
  /\ signReq = [h \in Handlers |-> NoRequest]

Registered(e) == account[e] # Absent

\* Requests that save every column of the row they read.
SavesRow(op) == op \in {"patch", "link"}

\* e is written by h: the others that will save a whole row cross it.
Cross(h, e) ==
  crossed' = IF \E g \in Handlers \ {h} : SavesRow(signReq[g].op) /\ signReq[g].email = e
             THEN crossed \cup {e} ELSE crossed

Store(h, e, row, meant) ==
  /\ account' = [account EXCEPT ![e] = row]
  /\ written' = [written EXCEPT ![e] = meant]
  /\ Cross(h, e)

Done(h) == signReq' = [signReq EXCEPT ![h] = NoRequest]

-----------------------------------------------------------------------------
(* Getting an account *)

\* UserRegistrationSerializer.validate: e-mail and phone number are free.
StartRegister(h, e, p, n) ==
  /\ signReq[h] = NoRequest /\ ~Registered(e)
  /\ \A f \in Emails : Registered(f) => account[f].phone # n
  /\ signReq' = [signReq EXCEPT ![h] =
       [op |-> "register", email |-> e, row |-> NewUser(p, Absent, n)]]
  /\ UNCHANGED <<account, kycRow, device, sessions, written, crossed>>

\* The e-mail address is unique in the table: of two requests one fails.
CreateAccount(h) ==
  LET r == signReq[h] IN
  /\ r.op = "register"
  /\ IF Registered(r.email)
     THEN Done(h) /\ UNCHANGED <<account, written, crossed>>
     ELSE /\ Store(h, r.email, r.row, r.row)
          /\ signReq' = [signReq EXCEPT ![h] = [op |-> "kyc", email |-> r.email]]
  /\ UNCHANGED <<kycRow, device, sessions>>

CreateKycRow(h) ==
  /\ signReq[h].op = "kyc"
  /\ kycRow' = kycRow \cup {signReq[h].email} /\ Done(h)
  /\ UNCHANGED <<account, device, sessions, written, crossed>>

\* A Google token names an address and an identity.  An account that is not
\* linked is not opened by it, and is told so (401 when Google has not verified
\* the address, 409 otherwise).
GoogleAnswer(e, flow) ==
  CASE Registered(e) /\ account[e].google # Absent -> "token"
    [] Registered(e) /\ account[e].google = Absent -> "refused"
    [] ~Registered(e) /\ flow = "login"            -> "unknown"
    [] ~Registered(e) /\ flow = "signup"           -> "create"

\* The callback: the look-up.
GoogleSignIn(h, e, s, flow) ==
  /\ signReq[h] = NoRequest
  /\ \/ /\ GoogleAnswer(e, flow) = "token"
        /\ sessions' = sessions \cup {[email |-> e, by |-> "google"]}
        /\ UNCHANGED signReq
     \/ /\ GoogleAnswer(e, flow) = "create"
        /\ signReq' = [signReq EXCEPT ![h] =
             [op |-> "google", email |-> e, row |-> NewUser(Absent, s, Absent)]]
        /\ UNCHANGED sessions
  /\ UNCHANGED <<account, kycRow, device, written, crossed>>

\* User.google_id is unique.
TakenIdentity(s, e) ==
  s # Absent /\ \E f \in Emails \ {e} : Registered(f) /\ account[f].google = s

\* Account and KYC row in one transaction; address and identity are unique.
GoogleCreate(h) ==
  LET r == signReq[h] IN
  /\ r.op = "google" /\ Done(h)
  /\ IF Registered(r.email) \/ TakenIdentity(r.row.google, r.email)
     THEN UNCHANGED <<account, kycRow, sessions, written, crossed>>
     ELSE /\ Store(h, r.email, r.row, r.row)
          /\ kycRow' = kycRow \cup {r.email}
          /\ sessions' = sessions \cup {[email |-> r.email, by |-> "google"]}
  /\ UNCHANGED device

Login(e, p) ==
  /\ Registered(e) /\ account[e].password = p
  /\ sessions' = sessions \cup {[email |-> e, by |-> "password"]}
  /\ UNCHANGED <<account, kycRow, device, signReq, written, crossed>>

Logout(s) ==
  /\ s \in sessions /\ sessions' = sessions \ {s}
  /\ UNCHANGED <<account, kycRow, device, signReq, written, crossed>>

-----------------------------------------------------------------------------
(* Changing it.  Each of these reads the account when it is authenticated. *)

SignedIn(e) == \E s \in sessions : s.email = e

Begin(h, e, op, new) ==
  /\ signReq[h] = NoRequest /\ SignedIn(e)
  /\ signReq' = [signReq EXCEPT ![h] = [op |-> op, email |-> e, row |-> account[e], new |-> new]]
  /\ UNCHANGED <<account, kycRow, device, sessions, written, crossed>>

\* Saving the whole row fails on a Google identity that is another's by now.
SaveRow(h, e, row, meant) ==
  IF TakenIdentity(row.google, e) THEN UNCHANGED <<account, written, crossed>>
  ELSE Store(h, e, row, meant)

\* MeView: name, picture, birthday and phone number may be changed; the
\* serializer saves the row as it was read.
StartPatch(h, e, n) == Begin(h, e, "patch", n)

SavePatch(h) ==
  LET r == signReq[h] IN
  /\ r.op = "patch" /\ Done(h)
  /\ SaveRow(h, r.email, [r.row EXCEPT !.phone = r.new],
                         [written[r.email] EXCEPT !.phone = r.new])
  /\ UNCHANGED <<kycRow, device, sessions>>

\* PasswordChangeView: the old password is checked against the row as read.
StartPasswordChange(h, e, old, p) == account[e].password = old /\ Begin(h, e, "password", p)

\* Mutant: the row is saved as it was read, with the new password.
SavePasswordChangeRow(h) ==
  LET r == signReq[h] IN
  /\ r.op = "password" /\ Done(h)
  /\ Store(h, r.email, [r.row EXCEPT !.password = r.new],
                       [written[r.email] EXCEPT !.password = r.new])
  /\ UNCHANGED <<kycRow, device, sessions>>

SavePasswordChange(h) ==
  LET r == signReq[h] IN
  /\ r.op = "password" /\ Done(h)
  /\ Store(h, r.email, [account[r.email] EXCEPT !.password = r.new],
                       [written[r.email] EXCEPT !.password = r.new])
  /\ UNCHANGED <<kycRow, device, sessions>>

\* PasswordResetConfirmView after the code was accepted.
PasswordIsReset(e, p) ==
  /\ Registered(e)
  /\ \E h \in Handlers :
       /\ signReq[h] = NoRequest
       /\ Store(h, e, [account[e] EXCEPT !.password = p], [written[e] EXCEPT !.password = p])
  /\ UNCHANGED <<kycRow, device, sessions, signReq>>

\* OTPSendView finds the account by its number, the newest where several have it
\* (which that is, is left open), and the token keeps account and number.
SendPhoneCode(h, e) ==
  /\ signReq[h] = NoRequest /\ Registered(e) /\ account[e].phone # Absent
  /\ signReq' = [signReq EXCEPT ![h] = [op |-> "verify", email |-> e, new |-> account[e].phone]]
  /\ UNCHANGED <<account, kycRow, device, sessions, written, crossed>>

\* OTPVerifyView: the number that the code was sent to is stored, also when the
\* account has another one by now.
SaveVerifiedPhone(h) ==
  LET r == signReq[h] IN
  /\ r.op = "verify" /\ Done(h)
  /\ Store(h, r.email, [account[r.email] EXCEPT !.phone = r.new],
                       [written[r.email] EXCEPT !.phone = r.new])
  /\ UNCHANGED <<kycRow, device, sessions>>

\* It is never entered, or not before it expires.
ForgetPhoneCode(h) ==
  /\ signReq[h].op = "verify" /\ Done(h)
  /\ UNCHANGED <<account, kycRow, device, sessions, written, crossed>>

\* GoogleOAuthLinkView: the address is the account's own, and the identity is
\* not another account's; the whole row is saved.
StartLink(h, e, s) == ~TakenIdentity(s, e) /\ Begin(h, e, "link", s)

SaveLink(h) ==
  LET r == signReq[h] IN
  /\ r.op = "link" /\ Done(h)
  /\ SaveRow(h, r.email, [r.row EXCEPT !.google = r.new],
                         [written[r.email] EXCEPT !.google = r.new])
  /\ UNCHANGED <<kycRow, device, sessions>>

-----------------------------------------------------------------------------
(* Devices *)

RegisterDevice(d, biometric) ==
  /\ sessions # {} /\ device' = [device EXCEPT ![d] = biometric]
  /\ UNCHANGED <<account, kycRow, sessions, signReq, written, crossed>>

RevokeDevice(d) ==
  /\ sessions # {} /\ device[d] # Absent /\ device' = [device EXCEPT ![d] = Absent]
  /\ UNCHANGED <<account, kycRow, sessions, signReq, written, crossed>>

SignNext ==
  \/ \E h \in Handlers, e \in Emails :
       \/ \E p \in Passwords, n \in Phones : StartRegister(h, e, p, n)
       \/ \E s \in Subjects, flow \in {"login", "signup"} : GoogleSignIn(h, e, s, flow)
       \/ \E n \in Phones : StartPatch(h, e, n)
       \/ Registered(e) /\ \E old, p \in Passwords : StartPasswordChange(h, e, old, p)
       \/ \E s \in Subjects : StartLink(h, e, s)
       \/ SendPhoneCode(h, e)
  \/ \E h \in Handlers :
       \/ CreateAccount(h) \/ CreateKycRow(h) \/ GoogleCreate(h)
       \/ SavePatch(h) \/ SavePasswordChange(h) \/ SaveLink(h)
       \/ SaveVerifiedPhone(h) \/ ForgetPhoneCode(h)
  \/ \E e \in Emails, p \in Passwords : Login(e, p) \/ PasswordIsReset(e, p)
  \/ \E s \in sessions : Logout(s)
  \/ \E d \in Devices : RevokeDevice(d) \/ \E b \in BOOLEAN : RegisterDevice(d, b)

-----------------------------------------------------------------------------
(* Properties *)

SignTypeOK ==
  /\ account \in [Emails -> Users \cup {Absent}] /\ kycRow \subseteq Emails
  /\ sessions \subseteq Sessions /\ device \in [Devices -> DeviceRows]

\* What people changed is what is stored: password, Google identity and phone
\* number are those of the last request that meant to store them, unless a
\* profile or link request was at work then (views.py 286, oauth_views.py 513
\* save every column as read at the start of the request).  A code entered late
\* is such a request: it brings back the number it was sent to.
LastChangesStand ==
  \A e \in Emails \ crossed : account[e] = written[e]
=============================================================================

----------------------------- MODULE MCAccounts -----------------------------
(***************************************************************************)
(* The four components around a person's account, for the model checker.   *)
(* Where two of them write a column, the password and the phone number,    *)
(* each has the other's write in it.  So a behaviour of the model follows  *)
(* one part, chosen at the start, while the others stay as they are.       *)
(***************************************************************************)
EXTENDS Integers, Sequences, FiniteSets, TLC

CONSTANTS Parts, Workers, None,
          Purposes, Channels, Spellings, MaxAttempts, MaxTokens, MaxTime, MaxChecks,
          Emails, Subjects, Passwords, Phones, Devices,
          Documents, MaxRequests,
          Founder, Second, Saccos, Platform, MaxRows, Deleted

VARIABLES part,
          tokens, phone, otpClock, otpReq, checks, accepted, met, twins,
          account, kycRow, device, sessions, signReq, written, crossed,
          kyc, kycReq, requests, mixed, rejected,
          role, call, gone, coincided, mutual, misplaced

codes == <<tokens, phone, otpClock, otpReq, checks, accepted, met, twins>>
accounts == <<account, kycRow, device, sessions, signReq, written, crossed>>
identity == <<kyc, kycReq, requests, mixed, rejected>>
roles == <<role, call, gone, coincided, mutual, misplaced>>

Otp == INSTANCE OneTimeCode
Sign == INSTANCE SignIn WITH Handlers <- Workers, Absent <- None
Check == INSTANCE Kyc WITH Clerks <- Workers
Grant == INSTANCE Roles WITH
  Users <- {Founder, Second}, Calls <- Workers,
  Offices <- {<<Platform, "SUPER_ADMIN">>} \cup (Saccos \X {"SACCO_ADMIN"})

Init == part \in Parts /\ Otp!OtpInit /\ Sign!SignInit /\ Check!KycInit /\ Grant!RoleInit

Next ==
  /\ UNCHANGED part
  /\ \/ part = "codes" /\ Otp!OtpNext /\ UNCHANGED <<accounts, identity, roles>>
     \/ part = "accounts" /\ Sign!SignNext /\ UNCHANGED <<codes, identity, roles>>
     \/ part = "identity" /\ Check!KycNext /\ UNCHANGED <<codes, accounts, roles>>
     \/ part = "roles" /\ Grant!RoleNext /\ UNCHANGED <<codes, accounts, identity>>

Spec == Init /\ [][Next]_<<part, codes, accounts, identity, roles>>

Symmetric == Permutations(Workers) \cup Permutations(Spellings)
             \cup Permutations(Emails) \cup Permutations(Phones)

\* Every row, token and session is of its type.
AccountsTypeOK == Otp!OtpTypeOK /\ Sign!SignTypeOK /\ Check!KycTypeOK /\ Grant!RoleTypeOK

\* A code is accepted once and compared MaxAttempts times at most, by requests
\* that have not read its token at once (accounts/otp_utils.py verify_otp).
CodeIsSpentOnce == Otp!CodeIsSpentOnce

\* An accepted code was for this purpose, was delivered and had not expired
\* (accounts/otp_utils.py verify_otp).
AcceptedWasCurrent == Otp!AcceptedWasCurrent

\* Only the latest code of an account and a purpose works, unless two were created
\* at once (create_otp_token).
OneCodeWorks == Otp!OneCodeWorks

\* Password, phone number and Google identity are the ones stored last, unless
\* a request that saves the whole row was at work; a role revoked is gone, with
\* the exceptions named in module Roles.
LastChangesStand == Sign!LastChangesStand /\ Grant!RevocationStands

\* No approval against the register without a reason, with the exceptions named
\* in module Kyc.
ApprovedWithCause == Check!ApprovedWithCause
=============================================================================

-------------------------- MODULE LoanApplications --------------------------
(***************************************************************************)
(* One person and one SACCO: the application for membership with its       *)
(* documents (saccomembership), its review (saccomanagement/views.py), the *)
(* loan limit (services/engines/loan_limits.py), the application for a     *)
(* loan (services/views.py) and leaving again.                             *)
(*                                                                         *)
(* A membership application and its review are one transaction each, kept  *)
(* apart by the unique (user, sacco) and by the row lock of the update.    *)
(* An application for a loan is no transaction: four queries, a comparison *)
(* and an insert, one step each, between which savings and loans move.     *)
(***************************************************************************)
EXTENDS Integers, Sequences, FiniteSets, SequencesExt

CONSTANTS
  Applicants,     \* requests of the member handled at the same time
  Multiplier,     \* SaccoSettings.loan_multiplier, or the SACCO's
  Amounts,        \* amounts asked for
  MaxAmount,      \* LoanType.max_amount
  MaxSavings,     \* bound on savings
  MaxLoans,       \* bound on loans and running applications
  MaxFiles,       \* bound on documents
  Nothing

VARIABLES
  member,     \* Membership.status, Nothing without a row
  form,       \* SaccoApplication.status, Nothing without a row
  files,      \* MembershipDocument rows of the application
  seasoned,   \* approved at least min_loan_months ago
  savings,    \* sum of the ACTIVE savings
  loans,      \* the Loan rows, in order of creation
  shown,      \* the eligibility in the cache: an amount, or Nothing
  applying    \* what every request is doing

memberVars == <<member, form, files, seasoned, savings, loans, shown, applying>>

MemberStatuses == {"PENDING", "APPROVED", "LEFT"}

FormStatuses == {"SUBMITTED", "APPROVED", "REJECTED"}

\* Those a loan passes through before it is paid out, and after.
LoanStatuses == {"PENDING", "GUARANTORS_PENDING", "PENDING_APPROVAL", "APPROVED",
                 "DISBURSEMENT_PENDING", "ACTIVE", "REJECTED"}

\* within: the highest limit the request that created it could have read (history).
LoanRows == [status : LoanStatuses, amount : Amounts, balance : 0..Max(Amounts), within : Nat]

Idle == [op |-> "idle"]

MemberInit ==
  /\ member = Nothing /\ form = Nothing /\ files = 0 /\ seasoned = FALSE
  /\ savings = 0 /\ loans = <<>> /\ shown = Nothing
  /\ applying = [a \in Applicants |-> Idle]

-----------------------------------------------------------------------------
(* Membership *)

\* MembershipApplySerializer: the SACCO takes applications and is active, no
\* row is there yet, the SACCO's own fields are known and complete.
MayApply(public, active, complete) == public /\ active /\ complete /\ member = Nothing

\* Both rows in one transaction; the unique (user, sacco) refuses a second.
Apply ==
  /\ \E public, active, complete \in BOOLEAN : MayApply(public, active, complete)
  /\ member' = "PENDING" /\ form' = "SUBMITTED"
  /\ UNCHANGED <<files, seasoned, savings, loans, shown, applying>>

\* A PDF or picture of 10 MB at most, while the application is not decided.
UploadDocument ==
  /\ form = "SUBMITTED" /\ files < MaxFiles /\ files' = files + 1
  /\ UNCHANGED <<member, form, seasoned, savings, loans, shown, applying>>

\* update_or_create: an approval makes a member of whoever has no row, waits or
\* has left; a rejection leaves the membership alone.
ApprovedMember(decision) == IF decision = "APPROVED" THEN "APPROVED" ELSE member

\* Any application may be reviewed, again and again.  The approval is dated
\* anew, which starts the waiting time for a loan again.
ReviewApplication(decision) ==
  /\ form # Nothing
  /\ form' = decision
  /\ member' = ApprovedMember(decision)
  /\ seasoned' = (seasoned /\ decision # "APPROVED")
  /\ UNCHANGED <<files, savings, loans, shown, applying>>

\* _has_active_loans
HasActiveLoans == \E k \in DOMAIN loans : loans[k].status \in {"ACTIVE", "APPROVED"}

StartLeave(a) ==
  /\ applying[a] = Idle /\ member # Nothing /\ ~HasActiveLoans
  /\ applying' = [applying EXCEPT ![a] = [op |-> "leave"]]
  /\ UNCHANGED <<member, form, files, seasoned, savings, loans, shown>>

SaveLeave(a) ==
  /\ applying[a].op = "leave"
  /\ member' = "LEFT" /\ applying' = [applying EXCEPT ![a] = Idle]
  /\ UNCHANGED <<form, files, seasoned, savings, loans, shown>>

-----------------------------------------------------------------------------
(* The limit *)

\* The balances of the loans in a status.
BalanceIn(ls, status) ==
  LET some == {k \in DOMAIN ls : ls[k].status = status}
  IN  SumFunction([k \in some |-> ls[k].balance])

\* Mutant: only loans paid out and not yet confirmed count.
ActiveBalanceInTransit(ls) == BalanceIn(ls, "DISBURSEMENT_PENDING")

\* Only ACTIVE loans count.
ActiveBalance(ls) == BalanceIn(ls, "ACTIVE")

NetLimit(saved, owed) == Max({Multiplier * saved - owed, 0})

\* LoanEligibilityView shows a limit up to five minutes old.
ShowLimit ==
  /\ shown = Nothing
  /\ shown' = IF member = "APPROVED" /\ seasoned THEN NetLimit(savings, ActiveBalance(loans)) ELSE 0
  /\ UNCHANGED <<member, form, files, seasoned, savings, loans, applying>>

ForgetLimit ==
  /\ shown # Nothing /\ shown' = Nothing
  /\ UNCHANGED <<member, form, files, seasoned, savings, loans, applying>>

-----------------------------------------------------------------------------
(* An application for a loan *)

Applies(a) == applying[a].op \notin {"idle", "leave"}

\* What is owed on ACTIVE loans (history; ActiveBalance is the code's own sum).
Owed(ls) ==
  SumFunction([k \in DOMAIN ls |-> IF ls[k].status = "ACTIVE" THEN ls[k].balance ELSE 0])

\* History: what every running application could have read so far.
Watched(saved, ls) ==
  [a \in Applicants |->
     IF Applies(a) THEN [applying[a] EXCEPT !.most = Max({@, saved}), !.least = Min({@, Owed(ls)})]
     ELSE applying[a]]

Step(a, r) ==
  /\ applying' = [applying EXCEPT ![a] = r]
  /\ UNCHANGED <<member, form, files, seasoned, savings, loans, shown>>

\* LoanApplySerializer: an active product, an amount within its maximum, a term
\* within its longest, an approved membership.
StartApplication(a, amount) ==
  /\ applying[a] = Idle
  /\ Len(loans) + Cardinality({b \in Applicants : Applies(b)}) < MaxLoans
  /\ amount <= MaxAmount /\ member = "APPROVED"
  /\ Step(a, [op |-> "member", amount |-> amount, saved |-> 0, limit |-> 0, row |-> 0,
              most |-> savings, least |-> Owed(loans)])

ReadMember(a) ==
  /\ applying[a].op = "member"
  /\ Step(a, IF member = "APPROVED" /\ seasoned THEN [applying[a] EXCEPT !.op = "savings"] ELSE Idle)

ReadSavings(a) ==
  /\ applying[a].op = "savings"
  /\ Step(a, IF savings = 0 THEN Idle
             ELSE [applying[a] EXCEPT !.op = "loans", !.saved = savings])

ReadBalances(a) ==
  /\ applying[a].op = "loans"
  /\ Step(a, [applying[a] EXCEPT !.op = "compare",
                                 !.limit = NetLimit(applying[a].saved, ActiveBalance(loans))])

\* Mutant: the limit shown to the member is the one compared with.
AdmittedByShown(r) == IF shown # Nothing THEN r.amount <= shown ELSE r.amount <= r.limit

Admitted(r) == r.amount <= r.limit

\* LoanEligibilityCreateMixin: nothing in the code sets DEFAULTED, so the last
\* query finds no loan in default.
Compare(a) ==
  /\ applying[a].op = "compare"
  /\ Step(a, IF Admitted(applying[a]) THEN [applying[a] EXCEPT !.op = "create"] ELSE Idle)

\* The row, PENDING.  LoanCollectionView leaves it so.
CreateLoan(a) ==
  LET r == applying[a] IN
  /\ r.op = "create"
  /\ loans' = Append(loans, [status |-> "PENDING", amount |-> r.amount, balance |-> r.amount,
                             within |-> NetLimit(r.most, r.least)])
  /\ applying' \in {[applying EXCEPT ![a] = Idle],
                    [applying EXCEPT ![a] = [r EXCEPT !.op = "status", !.row = Len(loans')]]}
  /\ UNCHANGED <<member, form, files, seasoned, savings, shown>>

\* LoanApplyView names the status a second time, whatever has become of the row.
SetStatus(a, guaranteed) ==
  /\ applying[a].op = "status"
  /\ loans' = [loans EXCEPT ![applying[a].row].status =
                 IF guaranteed THEN "GUARANTORS_PENDING" ELSE "PENDING_APPROVAL"]
  /\ applying' = [applying EXCEPT ![a] = Idle]
  /\ UNCHANGED <<member, form, files, seasoned, savings, shown>>

-----------------------------------------------------------------------------
(* What moves meanwhile *)

MoveLoan(k, to) ==
  /\ loans' = [loans EXCEPT ![k].status = to]
  /\ applying' = Watched(savings, loans')
  /\ UNCHANGED <<member, form, files, seasoned, savings, shown>>

\* UNDER_REVIEW on the way to APPROVED is left out; module Guarantees has the
\* decisions in full, and the answers of the guarantors.
DecideLoan(k, decision) ==
  /\ decision = "APPROVED" => loans[k].status = "PENDING_APPROVAL"
  /\ decision = "REJECTED" => loans[k].status \notin {"REJECTED", "ACTIVE"}
  /\ MoveLoan(k, decision)

GuarantorsAnswer(k) == loans[k].status = "GUARANTORS_PENDING" /\ MoveLoan(k, "PENDING_APPROVAL")

\* Module LoanDisbursement has the steps between.
PayOutLoan(k) ==
  \/ loans[k].status = "APPROVED" /\ MoveLoan(k, "DISBURSEMENT_PENDING")
  \/ loans[k].status = "DISBURSEMENT_PENDING" /\ MoveLoan(k, "ACTIVE")

RepayLoan(k) ==
  /\ loans[k].status = "ACTIVE" /\ loans[k].balance > 0
  /\ loans' = [loans EXCEPT ![k].balance = @ - 1]
  /\ applying' = Watched(savings, loans')
  /\ UNCHANGED <<member, form, files, seasoned, savings, shown>>

MoveSavings ==
  /\ member = "APPROVED"
  /\ savings' \in {savings - 1, savings + 1} \cap 0..MaxSavings
  /\ applying' = Watched(savings', loans)
  /\ UNCHANGED <<member, form, files, seasoned, loans, shown>>

\* min_loan_months have passed since the approval.
Season ==
  /\ member = "APPROVED" /\ ~seasoned /\ seasoned' = TRUE
  /\ UNCHANGED <<member, form, files, savings, loans, shown, applying>>

MemberNext ==
  \/ Apply \/ UploadDocument \/ MoveSavings \/ Season \/ ShowLimit \/ ForgetLimit
  \/ \E decision \in {"APPROVED", "REJECTED"} : ReviewApplication(decision)
  \/ \E a \in Applicants :
       \/ StartLeave(a) \/ SaveLeave(a)
       \/ \E amount \in Amounts : StartApplication(a, amount)
       \/ ReadMember(a) \/ ReadSavings(a) \/ ReadBalances(a) \/ Compare(a) \/ CreateLoan(a)
       \/ \E guaranteed \in BOOLEAN : SetStatus(a, guaranteed)
  \/ \E k \in DOMAIN loans :
       \/ \E decision \in {"APPROVED", "REJECTED"} : DecideLoan(k, decision)
       \/ GuarantorsAnswer(k) \/ PayOutLoan(k) \/ RepayLoan(k)

-----------------------------------------------------------------------------
(* Properties *)

MemberTypeOK ==
  /\ member \in MemberStatuses \cup {Nothing} /\ form \in FormStatuses \cup {Nothing}
  /\ files \in 0..MaxFiles /\ seasoned \in BOOLEAN /\ savings \in 0..MaxSavings
  /\ loans \in Seq(LoanRows) /\ Len(loans) <= MaxLoans

\* No loan is for more than the savings and balances of the moments of its own
\* application allowed, however other requests and payments fall between the
\* queries (services/engines/loan_limits.py calculate_loan_limit).
LimitRespected == \A k \in DOMAIN loans : loans[k].amount <= loans[k].within
=============================================================================

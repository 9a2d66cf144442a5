---------------------------- MODULE Instalments ----------------------------
(***************************************************************************)
(* The repayment schedule of one loan: its arithmetic                      *)
(* (services/engines/amortization.py), the two places that store it        *)
(* (RepaymentScheduleView and persist_loan_repayment_schedule), and the    *)
(* payments that go into it (payments/tasks.py _apply_loan_repayment).     *)
(*                                                                         *)
(* Amounts are whole cents.  A rate is a pair <<a, b>>: annual_rate / 1200 *)
(* is a / b.  A date is a record of year, month and day.                   *)
(***************************************************************************)
EXTENDS Integers, Sequences, FiniteSets, SequencesExt

CONSTANTS
  Principals, Rates, Terms,  \* the loans looked at
  Dates,                     \* days of approval and first look, <<year, month, day>>
  DueDays,                   \* day of the month; the callers leave it at 25
  Payments,                  \* amounts paid
  Viewers,                   \* requests that ask for the schedule at the same time
  MaxPayments                \* bound on payments

VARIABLES
  loan,      \* amount, rate, term, start, dueDay and status
  rows,      \* the RepaymentSchedule rows
  balance,   \* Loan.outstanding_balance
  storing,   \* what every request is doing
  booked,    \* sum of the LOAN_REPAYMENT entries of the ledger
  received   \* the repayments so far

loanVars == <<loan, rows, balance, storing, booked, received>>

SmallerOf(a, b) == IF a < b THEN a ELSE b
LargerOf(a, b) == IF a > b THEN a ELSE b

\* Decimal.quantize(ROUND_HALF_UP) of n / d, for n >= 0.
Rounded(n, d) == (2 * n + d) \div (2 * d)

-----------------------------------------------------------------------------
(* The calendar *)

Leap(y) == (y % 4 = 0 /\ y % 100 # 0) \/ y % 400 = 0

MonthLength(y, m) ==
  CASE m = 2 -> IF Leap(y) THEN 29 ELSE 28
    [] m \in {4, 6, 9, 11} -> 30
    [] OTHER -> 31

\* Months counted from year 0.
MonthOf(date) == 12 * date.year + date.month - 1

DayIn(month, dueDay) ==
  LET y == month \div 12
      m == (month % 12) + 1
  IN [year |-> y, month |-> m, day |-> SmallerOf(dueDay, MonthLength(y, m))]

\* Mutant: the due day itself still counts as ahead.
FirstMonthLate(start, dueDay) ==
  IF start.day <= dueDay /\ dueDay <= MonthLength(start.year, start.month)
  THEN MonthOf(start) ELSE MonthOf(start) + 1

\* This month if the due day is ahead and the month has it, or else the next.
FirstMonth(start, dueDay) ==
  IF start.day < dueDay /\ dueDay <= MonthLength(start.year, start.month)
  THEN MonthOf(start) ELSE MonthOf(start) + 1

DueDate(start, k, dueDay) == DayIn(FirstMonth(start, dueDay) + k - 1, dueDay)

-----------------------------------------------------------------------------
(* The schedule *)

\* P r (1 + r)^n / ((1 + r)^n - 1), and zero for a zero rate.
MonthlyPayment(p, rate, n) ==
  LET grown == (rate[1] + rate[2])^n
      base  == rate[2]^n
  IN IF p = 0 \/ rate[1] = 0 \/ n = 0 THEN 0
     ELSE Rounded(p * rate[1] * grown, rate[2] * (grown - base))

InterestOf(left, rate) == Rounded(left * rate[1], rate[2])

\* Mutant: the last instalment is one like the others.
InstalmentPlain(p, rate, n, k, left, date) ==
  LET interest == InterestOf(left, rate)
      principal == IF rate[1] = 0 THEN Rounded(p, n)
                   ELSE MonthlyPayment(p, rate, n) - interest
  IN [number |-> k, due |-> date, principal |-> principal, interest |-> interest,
      amount |-> MonthlyPayment(p, rate, n), after |-> LargerOf(left - principal, 0)]

\* One round of the loop: the k-th instalment when left is still owed.  The last
\* one clears the rest.  For a zero rate the amount is that of MonthlyPayment,
\* which is zero, and not the principal.
Instalment(p, rate, n, k, left, date) ==
  LET interest == InterestOf(left, rate)
      principal == IF k = n THEN left
                   ELSE IF rate[1] = 0 THEN Rounded(p, n)
                   ELSE MonthlyPayment(p, rate, n) - interest
  IN [number |-> k, due |-> date, principal |-> principal, interest |-> interest,
      amount |-> IF k = n THEN principal + interest ELSE MonthlyPayment(p, rate, n),
      after |-> LargerOf(left - principal, 0)]

\* The schedule so far with its k-th instalment.
Continued(l, so, k) ==
  LET left == IF k = 1 THEN l.amount ELSE Last(so).after
  IN Append(so, Instalment(l.amount, l.rate, l.term, k, left, DueDate(l.start, k, l.dueDay)))

\* generate_repayment_schedule
ScheduleOf(l) ==
  LET Upto[k \in 0..l.term] == IF k = 0 THEN <<>> ELSE Continued(l, Upto[k - 1], k)
  IN IF l.amount <= 0 \/ l.term <= 0 THEN <<>> ELSE Upto[l.term]

Unpaid(row) ==
  [number |-> row.number, due |-> row.due, principal |-> row.principal, interest |-> row.interest,
   amount |-> row.amount, after |-> row.after, paid |-> 0, status |-> "PENDING"]

Stored(l) == [k \in DOMAIN ScheduleOf(l) |-> Unpaid(ScheduleOf(l)[k])]

LoanStatuses == {"UNDER_REVIEW", "APPROVED", "ACTIVE"}

InstalmentStatuses == {"PENDING", "PARTIAL", "PAID", "OVERDUE"}

\* A row of services_repaymentschedule.  Nothing in the code sets OVERDUE.
InstalmentRows ==
  [number : Nat, due : [year : Nat, month : 1..12, day : 1..31], principal : Int, interest : Nat,
   amount : Nat, after : Nat, paid : Nat, status : InstalmentStatuses]

InstalInit ==
  /\ loan \in [amount : Principals, rate : Rates, term : Terms, start : Dates,
               dueDay : DueDays, status : {"UNDER_REVIEW"}]
  /\ rows = <<>> /\ balance = loan.amount /\ booked = 0 /\ received = <<>>
  /\ storing = [v \in Viewers |-> "idle"]

-----------------------------------------------------------------------------
(* Storing it *)

\* The approval stores the schedule in its own transaction, unless rows are there.
ApproveLoan ==
  /\ loan.status = "UNDER_REVIEW" /\ loan' = [loan EXCEPT !.status = "APPROVED"]
  /\ IF rows = <<>>
     THEN rows' = Stored(loan) /\ balance' = loan.amount
     ELSE UNCHANGED <<rows, balance>>
  /\ UNCHANGED <<storing, booked, received>>

\* Staff may set the status in the Django admin, where no schedule is stored.
StaffApprovesLoan ==
  /\ loan.status = "UNDER_REVIEW" /\ loan' = [loan EXCEPT !.status = "APPROVED"]
  /\ UNCHANGED <<rows, balance, storing, booked, received>>

LoanIsActive ==
  /\ loan.status = "APPROVED" /\ loan' = [loan EXCEPT !.status = "ACTIVE"]
  /\ UNCHANGED <<rows, balance, storing, booked, received>>

\* RepaymentScheduleView: no rows yet, and a loan approved, paid out or on the way.
LookAtSchedule(v) ==
  /\ storing[v] = "idle" /\ rows = <<>>
  /\ storing' = [storing EXCEPT ![v] = "read"]
  /\ UNCHANGED <<loan, rows, balance, booked, received>>

ReadLoan(v) ==
  /\ storing[v] = "read"
  /\ storing' = [storing EXCEPT ![v] = IF loan.status = "UNDER_REVIEW" THEN "idle" ELSE "store"]
  /\ UNCHANGED <<loan, rows, balance, booked, received>>

\* Mutant: the table has no unique (loan, instalment_number).
StoredAgain(old, new) == old \o new

\* bulk_create: all rows, or none when one of them clashes with the unique
\* (loan, instalment_number).
StoredOver(old, new) == IF old = <<>> THEN new ELSE old

ViewStores(v) ==
  /\ storing[v] = "store"
  /\ rows' = StoredOver(rows, Stored(loan))
  /\ storing' = [storing EXCEPT ![v] = "idle"]
  /\ UNCHANGED <<loan, balance, booked, received>>

-----------------------------------------------------------------------------
(* Repayments *)

Due(row) == LargerOf(row.amount - row.paid, 0)

\* Mutant: the amount of this payment replaces what was paid before.
PayIntoOver(row, money) ==
  [row EXCEPT !.paid = SmallerOf(money, Due(row)),
              !.status = IF SmallerOf(money, Due(row)) < row.amount THEN "PARTIAL" ELSE "PAID"]

PayInto(row, money) ==
  [row EXCEPT !.paid = @ + SmallerOf(money, Due(row)),
              !.status = IF row.paid + SmallerOf(money, Due(row)) < row.amount
                         THEN "PARTIAL" ELSE "PAID"]

\* The named instalment and those behind it take what is due of them, while money
\* is left.  An instalment of which nothing is due is passed over.
Takes(row, from, left) == row.number >= from /\ row.status # "PAID" /\ left > 0 /\ Due(row) > 0

\* The next row, after those that prev has seen to.
AllocatedTo(row, from, prev) ==
  IF Takes(row, from, prev.left)
  THEN [rows |-> Append(prev.rows, PayInto(row, prev.left)),
        left |-> prev.left - SmallerOf(prev.left, Due(row))]
  ELSE [rows |-> Append(prev.rows, row), left |-> prev.left]

\* _apply_amount_to_instalments
Allocated(table, from, money) ==
  LET Upto[k \in 0..Len(table)] ==
        IF k = 0 THEN [rows |-> <<>>, left |-> money]
        ELSE AllocatedTo(table[k], from, Upto[k - 1])
  IN Upto[Len(table)]

\* Mutant: nothing stops at zero, though interest lowers the balance too.
LoweredPlain(left, applied) == left - applied

Lowered(left, applied) == LargerOf(left - applied, 0)

\* _apply_loan_repayment, one transaction under the lock on the loan.  What no
\* instalment takes is logged and not booked.
RepayInstalments(from, money) ==
  LET taken == Allocated(rows, from, money)
      applied == money - taken.left
  IN
  /\ loan.status = "ACTIVE" /\ Len(received) < MaxPayments
  /\ received' = Append(received, [from |-> from, money |-> money])
  /\ rows' = taken.rows
  /\ balance' = IF applied > 0 THEN Lowered(balance, applied) ELSE balance
  /\ booked' = booked + applied
  /\ UNCHANGED <<loan, storing>>

InstalNext ==
  \/ ApproveLoan \/ StaffApprovesLoan \/ LoanIsActive
  \/ \E v \in Viewers : LookAtSchedule(v) \/ ReadLoan(v) \/ ViewStores(v)
  \/ \E from \in 1..loan.term, money \in Payments : RepayInstalments(from, money)

-----------------------------------------------------------------------------
(* Properties *)

InstalTypeOK ==
  /\ loan.status \in LoanStatuses /\ rows \in Seq(InstalmentRows)
  /\ balance \in 0..loan.amount /\ booked \in Nat
  /\ storing \in [Viewers -> {"idle", "read", "store"}]

SumOf(field) == SumFunction([k \in DOMAIN rows |-> rows[k][field]])

\* A stored schedule has the instalments 1 to term once each, whoever stored it;
\* the principals make up the loan and the last balance is zero; every amount is
\* principal and interest, at a rate above zero; the first is due after the day
\* the schedule was made and the others a month apart
\* (services/engines/amortization.py generate_repayment_schedule).
ScheduleAddsUp ==
  rows # <<>> =>
    /\ Len(rows) = loan.term
    /\ \A k \in DOMAIN rows :
         /\ rows[k].number = k
         /\ loan.rate[1] > 0 => rows[k].amount = rows[k].principal + rows[k].interest
         /\ k > 1 => MonthOf(rows[k].due) = MonthOf(rows[k - 1].due) + 1
    /\ MonthOf(rows[1].due) * 31 + rows[1].due.day > MonthOf(loan.start) * 31 + loan.start.day
    /\ SumOf("principal") = loan.amount
    /\ Last(rows).after = 0

\* What the instalments have taken is what the ledger has booked and what the
\* balance came down by, and it never exceeds what was paid in
\* (payments/tasks.py _apply_loan_repayment).
RepaymentsBalance ==
  /\ SumOf("paid") = booked
  /\ booked <= SumFunction([i \in DOMAIN received |-> received[i].money])
  /\ balance = LargerOf(loan.amount - booked, 0)
  /\ \A k \in DOMAIN rows : rows[k].paid <= rows[k].amount
=============================================================================

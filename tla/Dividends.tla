----------------------------- MODULE Dividends -----------------------------
(***************************************************************************)
(* A dividend declaration of a SACCO: its terms, the calculation of every  *)
(* member's share from month-end balances (services/engines/dividend_      *)
(* calculator.py), approval and disbursement (services/views.py).  Editing *)
(* and deleting a draft look at its status without a lock; the other steps *)
(* lock the declaration and are one transaction each.                      *)
(***************************************************************************)
EXTENDS Integers, FiniteSets, FiniteSetsExt

CONSTANTS
  Savings,   \* savings accounts of the declared type
  Terms,     \* [first, last, endDay, rate]: first day of a month to a day of one
  Movements, \* [month, day, amount]: deposits and withdrawals an account may have
  Admins,    \* requests that edit or delete
  MaxPaid    \* bound on payouts of one account

VARIABLES
  declaration, \* status, terms and total
  payout,      \* status, average and amount of every account
  moved,       \* movements of every account
  clerk,       \* what every admin is doing
  paid,        \* history: payouts to every account, and their sum
  blind        \* history: a draft was saved or deleted that was none any more

dividendVars == <<declaration, payout, moved, clerk, paid, blind>>

NoDeclaration == [status |-> "NONE", total |-> 0]

NoPayout == [status |-> "NONE"]

Idle == [op |-> "idle"]

DividendInit ==
  /\ declaration = NoDeclaration /\ payout = [s \in Savings |-> NoPayout] /\ blind = FALSE
  /\ moved \in [Savings -> SUBSET Movements]
  /\ clerk = [a \in Admins |-> Idle] /\ paid = [s \in Savings |-> [times |-> 0, sum |-> 0]]

-----------------------------------------------------------------------------
(* The share of an account, in cents *)

DaysIn == <<31, 28, 31, 30, 31, 30, 31, 31, 30, 31, 30, 31>>

\* dateutil adds a month to the last sample and keeps its day where it can:
\* after a shorter month the samples stay on the shorter month's day.
SampleDay(first, m) == Min({DaysIn[k] : k \in first..m})

\* The entries of the account up to a day of a month.
BalanceOn(s, m, day) ==
  LET entries == {e \in moved[s] : \/ e.month < m
                                   \/ e.month = m /\ (e.day <= day \/ day = DaysIn[m])}
  IN  SumFunction([e \in entries |-> e.amount])

SampledMonths(t) ==
  {m \in t.first..t.last : m < t.last \/ SampleDay(t.first, m) <= t.endDay}

RoundHalfUp(x, d) == (2 * x + d) \div (2 * d)

AverageBalance(s, t) ==
  LET months == SampledMonths(t) IN
  IF months = {} THEN BalanceOn(s, t.last, t.endDay)
  ELSE RoundHalfUp(SumFunction([m \in months |-> BalanceOn(s, m, SampleDay(t.first, m))]),
                   Cardinality(months))

\* Of the average, at the annual rate, for every month the period touches.
DividendOf(s, t) == RoundHalfUp(AverageBalance(s, t) * t.rate * (t.last - t.first + 1), 1200)

-----------------------------------------------------------------------------
(* Requests *)

CreateDeclaration(t) ==
  /\ declaration = NoDeclaration
  /\ declaration' = [status |-> "DRAFT", terms |-> t, total |-> 0]
  /\ UNCHANGED <<payout, moved, clerk, paid, blind>>

StartEdit(a, t) ==
  /\ clerk[a] = Idle /\ declaration.status = "DRAFT"
  /\ clerk' = [clerk EXCEPT ![a] = [op |-> "edit", row |-> [declaration EXCEPT !.terms = t]]]
  /\ UNCHANGED <<declaration, payout, moved, paid, blind>>

\* serializer.save writes every column, the status that was read included.
SaveEdit(a) ==
  /\ clerk[a].op = "edit" /\ clerk' = [clerk EXCEPT ![a] = Idle]
  /\ blind' = (blind \/ declaration.status # "DRAFT")
  /\ declaration' = clerk[a].row
  /\ UNCHANGED <<payout, moved, paid>>

StartDelete(a) ==
  /\ clerk[a] = Idle /\ declaration.status = "DRAFT"
  /\ clerk' = [clerk EXCEPT ![a] = [op |-> "delete"]]
  /\ UNCHANGED <<declaration, payout, moved, paid, blind>>

\* With its payouts.
FinishDelete(a) ==
  /\ clerk[a].op = "delete" /\ clerk' = [clerk EXCEPT ![a] = Idle]
  /\ blind' = (blind \/ declaration.status \notin {"DRAFT", "NONE"})
  /\ declaration' = NoDeclaration /\ payout' = [s \in Savings |-> NoPayout]
  /\ UNCHANGED <<moved, paid>>

\* Mutant: only an approved declaration is kept.
RecalculableUnlessApproved(status) == status \in {"DRAFT", "CALCULATED", "DISBURSED"}

Recalculable(status) == status \in {"DRAFT", "CALCULATED"}

\* Of the accounts with dividend_eligible; earlier payouts are deleted.
Calculate(eligible) ==
  /\ Recalculable(declaration.status)
  /\ LET t == declaration.terms IN
     /\ payout' = [s \in Savings |->
                     IF s \in eligible THEN [status |-> "PENDING", average |-> AverageBalance(s, t),
                                             amount |-> DividendOf(s, t)]
                     ELSE NoPayout]
     /\ declaration' = [declaration EXCEPT !.status = "CALCULATED",
                          !.total = SumFunction([s \in eligible |-> DividendOf(s, t)])]
  /\ UNCHANGED <<moved, clerk, paid, blind>>

Approve ==
  /\ declaration.status = "CALCULATED"
  /\ declaration' = [declaration EXCEPT !.status = "APPROVED"]
  /\ UNCHANGED <<payout, moved, clerk, paid, blind>>

PendingPayouts == {s \in Savings : payout[s].status = "PENDING"}

\* Ledger entry, balance and payout of every account, all or none.
Disburse ==
  /\ declaration.status = "APPROVED" /\ \A s \in PendingPayouts : paid[s].times < MaxPaid
  /\ payout' = [s \in Savings |-> IF s \in PendingPayouts THEN [payout[s] EXCEPT !.status = "PAID"]
                                  ELSE payout[s]]
  /\ paid' = [s \in Savings |->
                IF s \in PendingPayouts
                THEN [times |-> paid[s].times + 1, sum |-> paid[s].sum + payout[s].amount]
                ELSE paid[s]]
  /\ declaration' = [declaration EXCEPT !.status = "DISBURSED"]
  /\ UNCHANGED <<moved, clerk, blind>>

DividendNext ==
  \/ \E t \in Terms : CreateDeclaration(t) \/ \E a \in Admins : StartEdit(a, t)
  \/ \E a \in Admins : SaveEdit(a) \/ StartDelete(a) \/ FinishDelete(a)
  \/ \E eligible \in SUBSET Savings : Calculate(eligible)
  \/ Approve \/ Disburse

-----------------------------------------------------------------------------
(* Properties *)

DividendTypeOK ==
  /\ declaration.status \in {"NONE", "DRAFT", "CALCULATED", "APPROVED", "DISBURSED"}
  /\ \A s \in Savings : payout[s].status \in {"NONE", "PENDING", "PAID"} /\ paid[s].times \in 0..MaxPaid

\* The accounts that a calculation gave a share.
Shared == {s \in Savings : payout[s] # NoPayout}

\* Nobody is paid twice, what was paid is the declared total, and the total and
\* the shares follow from the declared terms, unless an edit or a deletion
\* crossed another step (services/views.py DividendDisburseView).
DividendsOnce ==
  \/ blind
  \/ /\ \A s \in Savings : paid[s].times <= 1
     /\ declaration.status \in {"CALCULATED", "APPROVED", "DISBURSED"} =>
          /\ declaration.total = SumFunction([s \in Shared |-> DividendOf(s, declaration.terms)])
          /\ SumFunction([s \in Savings |-> paid[s].sum])
               = (IF declaration.status = "DISBURSED" THEN declaration.total ELSE 0)
=============================================================================

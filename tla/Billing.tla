------------------------------ MODULE Billing ------------------------------
(***************************************************************************)
(* What a SACCO owes the platform: line items of completed payments, the   *)
(* monthly invoice made of them, its email, payment, and the suspension of *)
(* a SACCO that does not pay (billing/).  The scheduled tasks save rows    *)
(* they read before, and dates are Nairobi's except the month of an item,  *)
(* which is UTC's.                                                         *)
(***************************************************************************)
EXTENDS Integers, FiniteSets

CONSTANTS
  Saccos,
  Payments,    \* payments that complete
  MonthDays,   \* days of a month; the first is still the old month in UTC
  LastDay,     \* bound on days
  DueIn,       \* days an invoice has
  Grace,       \* days after which a SACCO is suspended
  Hands        \* Celery workers

VARIABLES
  item,     \* line item of every payment
  invoice,  \* invoice of every SACCO and month
  blocked,  \* SACCOs with is_billing_suspended
  mail,     \* invoices queued to be emailed
  hand,     \* what every worker is doing
  day,
  late,     \* history: invoices with an item recorded between total and update
  crossed   \* history: invoices paid while a task was about to write them

billingVars == <<item, invoice, blocked, mail, hand, day, late, crossed>>

Months == 0..(LastDay \div MonthDays)

Keys == Saccos \X Months

InvoiceStatuses == {"none", "draft", "sent", "paid", "overdue", "suspended"}

NoItem == [sacco |-> {}, month |-> 0, invoiced |-> FALSE]

NoInvoice == [status |-> "none", billed |-> {}, number |-> 0, due |-> 0, legacy |-> FALSE]

Free == [op |-> "free"]

BillingInit ==
  /\ item = [t \in Payments |-> NoItem] /\ invoice = [k \in Keys |-> NoInvoice]
  /\ blocked = {} /\ mail = {} /\ day = 0 /\ late = {} /\ crossed = {}
  /\ hand = [h \in Hands |-> Free]

Month == day \div MonthDays

UtcMonth == IF day % MonthDays = 0 /\ day > 0 THEN Month - 1 ELSE Month

Turn(h, r) == hand' = [hand EXCEPT ![h] = r]

\* With the payment's completion; an item is recorded once.
RecordItem(t, s) ==
  /\ item[t] = NoItem
  /\ item' = [item EXCEPT ![t] = [sacco |-> {s}, month |-> UtcMonth, invoiced |-> FALSE]]
  /\ UNCHANGED <<invoice, blocked, mail, hand, day, late, crossed>>

-----------------------------------------------------------------------------
(* The monthly invoice *)

ItemsOf(k) == {t \in Payments : item[t].sacco = {k[1]} /\ item[t].month = k[2]}

\* Mutant: of every month.
UninvoicedEver(k) == {t \in Payments : item[t].sacco = {k[1]} /\ ~item[t].invoiced}

Uninvoiced(k) == {t \in ItemsOf(k) : ~item[t].invoiced}

\* SS-<year>-<month>-<count + 1>; invoices made by hand have another form.
NextNumber(m) ==
  Cardinality({k \in Keys : k[2] = m /\ invoice[k].status # "none" /\ ~invoice[k].legacy}) + 1

\* For the month before.  The lock on an item keeps a second generator waiting.
StartInvoice(h, k) ==
  /\ hand[h] = Free /\ k[2] = Month - 1 /\ Uninvoiced(k) # {}
  /\ \A g \in Hands : hand[g].op = "invoice" => hand[g].of # k
  /\ Turn(h, [op |-> "invoice", of |-> k, sum |-> Uninvoiced(k), number |-> NextNumber(k[2])])
  /\ UNCHANGED <<item, invoice, blocked, mail, day, late, crossed>>

\* Two invoices of a SACCO and month, or of one number, are an error that is logged.
NumberTaken(r) ==
  \E k \in Keys : /\ invoice[k].status # "none"
                  /\ \/ k = r.of
                     \/ k[2] = r.of[2] /\ ~invoice[k].legacy /\ invoice[k].number = r.number

CommitInvoice(h) ==
  LET r == hand[h] IN
  /\ r.op = "invoice"
  /\ \/ NumberTaken(r) /\ Turn(h, Free) /\ UNCHANGED <<item, invoice, late>>
     \/ /\ ~NumberTaken(r)
        /\ invoice' = [invoice EXCEPT ![r.of] = [status |-> "draft", billed |-> r.sum,
                         number |-> r.number, due |-> day + DueIn, legacy |-> FALSE]]
        /\ item' = [t \in Payments |-> [item[t] EXCEPT !.invoiced = @ \/ t \in Uninvoiced(r.of)]]
        /\ late' = IF Uninvoiced(r.of) = r.sum THEN late ELSE late \cup {r.of}
        /\ Turn(h, [op |-> "pdf", of |-> r.of])
  /\ UNCHANGED <<blocked, mail, day, crossed>>

\* InvoicePDFGenerator, and the email is queued.  An error of either is logged,
\* and the invoice stays a draft.
MakePdf(h, ok) ==
  /\ hand[h].op = "pdf" /\ Turn(h, Free)
  /\ mail' = IF ok THEN mail \cup {hand[h].of} ELSE mail
  /\ UNCHANGED <<item, invoice, blocked, day, late, crossed>>

\* Without an address of an admin nothing is sent.
StartEmail(h, k, addressed) ==
  /\ hand[h] = Free /\ k \in mail /\ mail' = mail \ {k}
  /\ Turn(h, IF addressed THEN [op |-> "email", of |-> k] ELSE Free)
  /\ UNCHANGED <<item, invoice, blocked, day, late, crossed>>

\* The status is written over whatever it is now; an error is not tried again.
FinishEmail(h, ok) ==
  /\ hand[h].op = "email" /\ Turn(h, Free)
  /\ invoice' = IF ok THEN [invoice EXCEPT ![hand[h].of].status = "sent"] ELSE invoice
  /\ UNCHANGED <<item, blocked, mail, day, late, crossed>>

\* The older task, in no schedule: total and number are written again, items
\* are not marked.
GenerateByHand(k) ==
  /\ ItemsOf(k) # {}
  /\ invoice' = [invoice EXCEPT
       ![k].status = IF @ = "none" THEN "draft" ELSE @,
       ![k].billed = ItemsOf(k), ![k].legacy = TRUE,
       ![k].due = (k[2] + 1) * MonthDays - 1 + 2 * DueIn]
  /\ UNCHANGED <<item, blocked, mail, hand, day, late, crossed>>

-----------------------------------------------------------------------------
(* Payment and suspension *)

\* Mutant: whatever the status.
PastDueAny(k) == invoice[k].status # "none" /\ invoice[k].due < day

PastDue(k) == invoice[k].status = "sent" /\ invoice[k].due < day

UpdateOverdue ==
  /\ \E k \in Keys : PastDue(k)
  /\ invoice' = [k \in Keys |-> IF PastDue(k) THEN [invoice[k] EXCEPT !.status = "overdue"]
                                ELSE invoice[k]]
  /\ UNCHANGED <<item, blocked, mail, hand, day, late, crossed>>

\* The invoices, with their SACCOs, are read once.
Suspendable == {k \in Keys : /\ invoice[k].status = "overdue" /\ invoice[k].due + Grace <= day
                             /\ k[1] \notin blocked}

StartSuspend(h) ==
  /\ hand[h] = Free /\ Suspendable # {}
  /\ Turn(h, [op |-> "suspend", todo |-> Suspendable])
  /\ UNCHANGED <<item, invoice, blocked, mail, day, late, crossed>>

BlockSacco(h, k) ==
  LET r == hand[h] IN
  /\ r.op = "suspend" /\ k \in r.todo
  /\ blocked' = blocked \cup {k[1]}
  /\ Turn(h, [op |-> "mark", of |-> k, todo |-> r.todo \ {k}])
  /\ UNCHANGED <<item, invoice, mail, day, late, crossed>>

MarkSuspended(h) ==
  LET r == hand[h] IN
  /\ r.op = "mark"
  /\ invoice' = [invoice EXCEPT ![r.of].status = "suspended"]
  /\ Turn(h, IF r.todo = {} THEN Free ELSE [op |-> "suspend", todo |-> r.todo])
  /\ UNCHANGED <<item, blocked, mail, day, late, crossed>>

\* A worker is about to write this invoice or block its SACCO for it.
Writing(k) ==
  \/ k \in mail
  \/ \E h \in Hands : \/ hand[h].op \in {"pdf", "email", "mark"} /\ hand[h].of = k
                      \/ hand[h].op \in {"suspend", "mark"} /\ k \in hand[h].todo

\* InvoiceMarkPaidView, for an amount that is enough: in any status, paid included, and the
\* SACCO is restored whatever else it owes.
MarkPaid(k) ==
  /\ invoice[k].status # "none"
  /\ invoice' = [invoice EXCEPT ![k].status = "paid"] /\ blocked' = blocked \ {k[1]}
  /\ crossed' = IF Writing(k) THEN crossed \cup {k} ELSE crossed
  /\ UNCHANGED <<item, mail, hand, day, late>>

NextDay ==
  /\ day < LastDay /\ day' = day + 1 /\ \A h \in Hands : hand[h] = Free
  /\ UNCHANGED <<item, invoice, blocked, mail, hand, late, crossed>>

BillingNext ==
  \/ \E t \in Payments, s \in Saccos : RecordItem(t, s)
  \/ \E k \in Keys : MarkPaid(k) \/ GenerateByHand(k)
  \/ UpdateOverdue \/ NextDay
  \/ \E h \in Hands :
       \/ \E k \in Keys : StartInvoice(h, k) \/ BlockSacco(h, k)
       \/ \E k \in Keys, addressed \in BOOLEAN : StartEmail(h, k, addressed)
       \/ \E ok \in BOOLEAN : MakePdf(h, ok) \/ FinishEmail(h, ok)
       \/ CommitInvoice(h) \/ StartSuspend(h) \/ MarkSuspended(h)

-----------------------------------------------------------------------------
(* Properties *)

BillingTypeOK ==
  /\ \A t \in Payments : item[t].month \in Months /\ item[t].invoiced \in BOOLEAN
  /\ \A k \in Keys : invoice[k].status \in InvoiceStatuses /\ invoice[k].billed \subseteq Payments
  /\ blocked \subseteq Saccos /\ mail \subseteq Keys /\ day \in 0..LastDay

\* A payment is billed once, and an invoice asks for exactly the items marked
\* with it, unless one was recorded between its total and the update or the
\* older task wrote it (billing/invoice_generator.py InvoiceGenerator.generate).
BilledOnce ==
  /\ \A j, k \in Keys : j # k => invoice[j].billed \cap invoice[k].billed = {}
  /\ \A k \in Keys : invoice[k].status = "none" \/ invoice[k].legacy \/ k \in late
                     \/ invoice[k].billed = {t \in ItemsOf(k) : item[t].invoiced}

\* A SACCO is blocked for an invoice that is unpaid and overdue beyond the
\* grace, unless that invoice was paid while a task was about to write it
\* (billing/tasks.py suspend_overdue_saccos, billing/views.py InvoiceMarkPaidView).
BlockedForCause ==
  \A s \in blocked : \E m \in Months :
    /\ invoice[<<s, m>>].status \in {"overdue", "suspended"} \/ <<s, m>> \in crossed
    /\ invoice[<<s, m>>].due + Grace <= day \/ invoice[<<s, m>>].legacy
=============================================================================

---------------------------- MODULE BillingProofs ----------------------------
(***************************************************************************)
(* A payment is billed once, and a SACCO is blocked for an unpaid invoice: *)
(* for any order of the tasks and any number of SACCOs, payments, workers  *)
(* and days, whichever of the two invoice generators runs, and any errors  *)
(* between their steps.                                                    *)
(***************************************************************************)
EXTENDS Billing, FiniteSetTheorems, TLAPS

BillingSpec == BillingInit /\ [][BillingNext]_billingVars

\* What the argument needs of the types.
RowsInv ==
  /\ item \in [Payments -> [sacco : SUBSET Saccos, month : Int, invoiced : BOOLEAN]]
  /\ invoice \in [Keys -> [status : InvoiceStatuses, billed : SUBSET Payments,
                           number : Int, due : Int, legacy : BOOLEAN]]
  /\ hand = [h \in Hands |-> hand[h]]
  /\ day \in Int

\* A worker that has summed an invoice summed items of that SACCO and month.
SumInv ==
  \A h \in Hands : hand[h].op = "invoice" =>
    /\ hand[h].of \in Keys
    /\ hand[h].sum \subseteq ItemsOf(hand[h].of)
    /\ hand[h].number \in Int

\* An invoice bills items of its SACCO and month only; those marked, if no item was
\* recorded in between; and none are marked or billed while there is no invoice.
BilledInv ==
  \A k \in Keys :
    /\ invoice[k].billed \subseteq ItemsOf(k)
    /\ \/ invoice[k].legacy \/ k \in late
       \/ invoice[k].billed = {t \in ItemsOf(k) : item[t].invoiced}
    /\ invoice[k].status = "none" =>
         invoice[k].billed = {} /\ ~invoice[k].legacy /\ k \notin late

BillingInv == RowsInv /\ SumInv /\ BilledInv

\* An item belongs to one SACCO and one month.
LEMMA ItemsApart ==
  ASSUME NEW j \in Keys, NEW k \in Keys, j # k
  PROVE  ItemsOf(j) \cap ItemsOf(k) = {}
BY DEF ItemsOf, Keys

\* There is no item and no invoice at first.
LEMMA InitBilling ==
  ASSUME BillingInit PROVE BillingInv
<1>1. RowsInv /\ SumInv
  BY DEF BillingInit, NoItem, NoInvoice, InvoiceStatuses, Free, RowsInv, SumInv
<1>2. BilledInv
  BY DEF BillingInit, NoItem, NoInvoice, ItemsOf, BilledInv, Keys
<1> QED BY <1>1, <1>2 DEF BillingInv

\* A step that leaves items and bills alone, and changes at most the status of
\* invoices and what workers do without a sum in hand.
LEMMA QuietStep ==
  ASSUME BillingInv,
         UNCHANGED <<item, late>>,
         invoice' \in [Keys -> [status : InvoiceStatuses, billed : SUBSET Payments,
                                number : Int, due : Int, legacy : BOOLEAN]],
         \A k \in Keys : /\ invoice'[k].billed = invoice[k].billed
                         /\ invoice'[k].legacy = invoice[k].legacy
                         /\ invoice'[k].status = "none" => invoice[k].status = "none",
         hand' = [h \in Hands |-> hand'[h]],
         \A h \in Hands : hand'[h].op = "invoice" => hand'[h] = hand[h],
         day' \in Int
  PROVE  BillingInv'
<1>1. RowsInv'
  BY DEF BillingInv, RowsInv
<1>2. \A k : ItemsOf(k)' = ItemsOf(k)
  BY DEF ItemsOf
<1>3. SumInv'
  BY <1>2 DEF BillingInv, SumInv
<1>4. BilledInv'
  BY <1>2 DEF BillingInv, BilledInv
<1> QED BY <1>1, <1>3, <1>4 DEF BillingInv

\* Months are numbers.
LEMMA MonthType ==
  ASSUME MonthDays \in Nat \ {0}, day \in Int PROVE Month \in Int /\ UtcMonth \in Int
BY DEF Month, UtcMonth

\* The steps that make no sum, item or bill.
LEMMA QuietSteps ==
  ASSUME BillingInv,
         \/ \E k \in Keys : MarkPaid(k)
         \/ UpdateOverdue \/ NextDay
         \/ \E h \in Hands :
              \/ \E k \in Keys : BlockSacco(h, k)
              \/ \E k \in Keys, addressed \in BOOLEAN : StartEmail(h, k, addressed)
              \/ \E ok \in BOOLEAN : MakePdf(h, ok) \/ FinishEmail(h, ok)
              \/ StartSuspend(h) \/ MarkSuspended(h)
         \/ UNCHANGED billingVars
  PROVE  BillingInv'
<1> USE DEF BillingInv, RowsInv
<1>1. ASSUME NEW k \in Keys, MarkPaid(k) PROVE BillingInv'
  BY <1>1, QuietStep DEF MarkPaid, InvoiceStatuses
<1>2. ASSUME UpdateOverdue PROVE BillingInv'
  BY <1>2, QuietStep DEF UpdateOverdue, InvoiceStatuses
<1>3. ASSUME NextDay PROVE BillingInv'
  BY <1>3, QuietStep DEF NextDay
<1>4. ASSUME NEW h \in Hands, NEW k \in Keys, BlockSacco(h, k) PROVE BillingInv'
  BY <1>4, QuietStep DEF BlockSacco, Turn
<1>5. ASSUME NEW h \in Hands, NEW k \in Keys, NEW addressed \in BOOLEAN,
             StartEmail(h, k, addressed)
      PROVE  BillingInv'
  BY <1>5, QuietStep DEF StartEmail, Turn, Free
<1>6. ASSUME NEW h \in Hands, NEW ok \in BOOLEAN, MakePdf(h, ok) PROVE BillingInv'
  BY <1>6, QuietStep DEF MakePdf, Turn, Free
<1>7. ASSUME NEW h \in Hands, NEW ok \in BOOLEAN, FinishEmail(h, ok) PROVE BillingInv'
  <2>1. CASE ok
    <3>1. invoice' = [invoice EXCEPT ![hand[h].of].status = "sent"]
      BY <1>7, <2>1 DEF FinishEmail
    <3>2. invoice' \in [Keys -> [status : InvoiceStatuses, billed : SUBSET Payments,
                                 number : Int, due : Int, legacy : BOOLEAN]]
      BY <3>1, ZenonT(40) DEF InvoiceStatuses
    <3>3. \A k \in Keys : /\ invoice'[k].billed = invoice[k].billed
                          /\ invoice'[k].legacy = invoice[k].legacy
                          /\ invoice'[k].status = "none" => invoice[k].status = "none"
      BY <3>1
    <3>4. /\ UNCHANGED <<item, late, day>>
          /\ hand' = [hand EXCEPT ![h] = Free]
      BY <1>7 DEF FinishEmail, Turn
    <3>5. /\ hand' = [g \in Hands |-> hand'[g]]
          /\ \A g \in Hands : hand'[g].op = "invoice" => hand'[g] = hand[g]
      BY <3>4 DEF Free
    <3>6. day' \in Int
      BY <3>4
    <3> HIDE DEF BillingInv
    <3> QED BY <3>2, <3>3, <3>4, <3>5, <3>6, QuietStep
  <2>2. CASE ~ok
    BY <1>7, <2>2, QuietStep DEF FinishEmail, Turn, Free
  <2> QED BY <2>1, <2>2
<1>8. ASSUME NEW h \in Hands, StartSuspend(h) PROVE BillingInv'
  BY <1>8, QuietStep DEF StartSuspend, Turn
<1>9. ASSUME NEW h \in Hands, MarkSuspended(h) PROVE BillingInv'
  BY <1>9, QuietStep, ZenonT(40) DEF MarkSuspended, Turn, Free, InvoiceStatuses
<1>10. ASSUME UNCHANGED billingVars PROVE BillingInv'
  BY <1>10, QuietStep DEF billingVars
<1> QED BY <1>1, <1>2, <1>3, <1>4, <1>5, <1>6, <1>7, <1>8, <1>9, <1>10

\* A new item is of its own SACCO and month and not marked.
LEMMA RecordStep ==
  ASSUME BillingInv, MonthDays \in Nat \ {0},
         NEW t \in Payments, NEW s \in Saccos, RecordItem(t, s)
  PROVE  BillingInv'
<1>1. UtcMonth \in Int
  BY MonthType DEF BillingInv, RowsInv
<1>2. RowsInv'
  BY <1>1 DEF BillingInv, RowsInv, RecordItem
<1>3. ASSUME NEW k \in Keys
      PROVE  /\ ItemsOf(k) \subseteq ItemsOf(k)'
             /\ {u \in ItemsOf(k) : item[u].invoiced}' = {u \in ItemsOf(k) : item[u].invoiced}
  <2>1. /\ item[t].sacco = {} /\ ~item'[t].invoiced
        /\ \A u \in Payments : u # t => item'[u] = item[u]
    BY DEF BillingInv, RowsInv, RecordItem, NoItem
  <2>2. ItemsOf(k) \subseteq ItemsOf(k)' /\ ItemsOf(k)' \subseteq ItemsOf(k) \cup {t}
    BY <2>1 DEF ItemsOf
  <2>3. ItemsOf(k)' \subseteq Payments /\ t \notin ItemsOf(k)
    BY <2>1 DEF ItemsOf
  <2> QED BY <2>1, <2>2, <2>3
<1>4. SumInv'
  BY <1>3 DEF BillingInv, SumInv, RecordItem
<1>5. BilledInv'
  BY <1>3 DEF BillingInv, BilledInv, RecordItem
<1> QED BY <1>2, <1>4, <1>5 DEF BillingInv

\* The number of a new invoice is a number: there are finitely many invoices.
LEMMA NumberType ==
  ASSUME BillingInv, IsFiniteSet(Saccos), MonthDays \in Nat \ {0}, LastDay \in Nat,
         NEW m
  PROVE  NextNumber(m) \in Int
<1>1. IsFiniteSet(Months)
  <2>1. LastDay \div MonthDays \in Int
    OBVIOUS
  <2> QED BY <2>1, FS_Interval DEF Months
<1>2. IsFiniteSet(Keys)
  BY <1>1, FS_Product DEF Keys
<1> DEFINE numbered == {k \in Keys : k[2] = m /\ invoice[k].status # "none"
                                      /\ ~invoice[k].legacy}
<1>3. IsFiniteSet(numbered)
  BY <1>2, FS_Subset
<1>4. Cardinality(numbered) \in Nat
  BY <1>3, FS_CardinalityType
<1> QED BY <1>4 DEF NextNumber

\* The sum is over items of the invoice's SACCO and month.
LEMMA StartStep ==
  ASSUME BillingInv, IsFiniteSet(Saccos), MonthDays \in Nat \ {0}, LastDay \in Nat,
         NEW h \in Hands, NEW k \in Keys, StartInvoice(h, k)
  PROVE  BillingInv'
<1>1. NextNumber(k[2]) \in Int
  BY NumberType
<1>2. RowsInv'
  BY DEF BillingInv, RowsInv, StartInvoice, Turn
<1>3. \A j : ItemsOf(j)' = ItemsOf(j)
  BY DEF ItemsOf, StartInvoice
<1>4. SumInv'
  BY <1>1, <1>3 DEF BillingInv, RowsInv, SumInv, StartInvoice, Turn, Uninvoiced
<1>5. BilledInv'
  BY <1>3 DEF BillingInv, BilledInv, StartInvoice
<1> QED BY <1>2, <1>4, <1>5 DEF BillingInv

\* A new invoice bills what it marks, or is remembered as late.
LEMMA CommitStep ==
  ASSUME BillingInv, DueIn \in Int, NEW h \in Hands, CommitInvoice(h)
  PROVE  BillingInv'
<1> DEFINE r == hand[h]
<1>0. PICK key \in Keys : key = r.of
  BY DEF BillingInv, SumInv, CommitInvoice
<1>1. r.of = key /\ r.sum \subseteq ItemsOf(r.of) /\ r.number \in Int
  BY <1>0 DEF BillingInv, SumInv, CommitInvoice
<1>2. CASE NumberTaken(r)
  <2>1. UNCHANGED <<item, invoice, late, day>> /\ hand' = [hand EXCEPT ![h] = Free]
    BY <1>2 DEF CommitInvoice, Turn
  <2>2. hand' = [g \in Hands |-> hand'[g]]
    BY <2>1 DEF BillingInv, RowsInv
  <2>3. \A g \in Hands : hand'[g].op = "invoice" => hand'[g] = hand[g]
    BY <2>1 DEF BillingInv, RowsInv, Free
  <2> QED BY <2>1, <2>2, <2>3, QuietStep DEF BillingInv, RowsInv
<1>3. CASE ~NumberTaken(r)
  <2>1. /\ invoice' = [invoice EXCEPT ![key] =
                         [status |-> "draft", billed |-> r.sum, number |-> r.number,
                          due |-> day + DueIn, legacy |-> FALSE]]
        /\ item' = [t \in Payments |->
                      [item[t] EXCEPT !.invoiced = @ \/ t \in Uninvoiced(key)]]
        /\ late' = IF Uninvoiced(key) = r.sum THEN late ELSE late \cup {key}
        /\ hand' = [hand EXCEPT ![h] = [op |-> "pdf", of |-> key]]
        /\ day' = day
    BY <1>1, <1>3 DEF CommitInvoice, Turn
  <2>2. invoice[key].status = "none"
    BY <1>1, <1>3 DEF NumberTaken
  <2>3. \A t \in Payments : /\ item'[t].sacco = item[t].sacco
                            /\ item'[t].month = item[t].month
                            /\ item'[t].invoiced = (item[t].invoiced \/ t \in Uninvoiced(key))
    BY <2>1 DEF BillingInv, RowsInv
  <2>4. \A k : ItemsOf(k)' = ItemsOf(k)
    BY <2>3 DEF ItemsOf
  <2>5. RowsInv'
    <3>1. r.sum \in SUBSET Payments
      BY <1>1 DEF ItemsOf
    <3>2. item' \in [Payments -> [sacco : SUBSET Saccos, month : Int, invoiced : BOOLEAN]]
      BY <2>1 DEF BillingInv, RowsInv
    <3>3. invoice' \in [Keys -> [status : InvoiceStatuses, billed : SUBSET Payments,
                                 number : Int, due : Int, legacy : BOOLEAN]]
      BY <1>1, <2>1, <3>1 DEF BillingInv, RowsInv, InvoiceStatuses
    <3> QED BY <2>1, <3>2, <3>3 DEF BillingInv, RowsInv
  <2>6. SumInv'
    BY <2>1, <2>4 DEF BillingInv, RowsInv, SumInv
  <2>7. ASSUME NEW k \in Keys, k # key
        PROVE  {t \in ItemsOf(k) : item[t].invoiced}' = {t \in ItemsOf(k) : item[t].invoiced}
    <3>1. ItemsOf(k) \subseteq Payments /\ ItemsOf(k) \cap Uninvoiced(key) = {}
      BY <2>7, ItemsApart DEF Uninvoiced, ItemsOf
    <3> QED BY <3>1, <2>3, <2>4
  <2>8. {t \in ItemsOf(key) : item[t].invoiced}' = Uninvoiced(key)
    <3>1. {t \in ItemsOf(key) : item[t].invoiced} = {}
      BY <1>1, <2>2 DEF BillingInv, BilledInv
    <3>2. ItemsOf(key) \subseteq Payments /\ Uninvoiced(key) = ItemsOf(key)
      BY <3>1 DEF Uninvoiced, ItemsOf
    <3> QED BY <3>1, <3>2, <2>3, <2>4
  <2>9. ASSUME NEW k \in Keys, k # key
        PROVE  invoice'[k] = invoice[k] /\ (k \in late' <=> k \in late)
    BY <2>1, <2>9 DEF BillingInv, RowsInv
  <2>10. /\ invoice'[key].billed = r.sum /\ invoice'[key].status = "draft"
         /\ key \in late' \/ r.sum = Uninvoiced(key)
    BY <1>1, <2>1 DEF BillingInv, RowsInv
  <2>11. BilledInv'
    <3> SUFFICES ASSUME NEW k \in Keys
        PROVE  /\ invoice'[k].billed \subseteq ItemsOf(k)
               /\ \/ invoice'[k].legacy \/ k \in late'
                  \/ invoice'[k].billed = {t \in ItemsOf(k) : item[t].invoiced}'
               /\ invoice'[k].status = "none" =>
                    invoice'[k].billed = {} /\ ~invoice'[k].legacy /\ k \notin late'
      BY <2>4 DEF BilledInv
    <3>1. CASE k = key
      BY <3>1, <1>1, <2>8, <2>10
    <3>2. CASE k # key
      BY <3>2, <2>7, <2>9 DEF BillingInv, BilledInv
    <3> QED BY <3>1, <3>2
  <2> QED BY <2>5, <2>6, <2>11 DEF BillingInv
<1> QED BY <1>2, <1>3

\* The older task bills every item of the SACCO and month, and of no other.
LEMMA ByHandStep ==
  ASSUME BillingInv, MonthDays \in Nat \ {0}, DueIn \in Int,
         NEW k \in Keys, GenerateByHand(k)
  PROVE  BillingInv'
<1>1. \A j : ItemsOf(j)' = ItemsOf(j)
  BY DEF ItemsOf, GenerateByHand
<1>2. (k[2] + 1) * MonthDays - 1 + 2 * DueIn \in Int
  BY DEF Keys, Months
<1>3. ItemsOf(k) \in SUBSET Payments
  BY DEF ItemsOf
<1>4. RowsInv'
  <2>1. invoice[k].status \in InvoiceStatuses
    BY DEF BillingInv, RowsInv
  <2>2. (IF invoice[k].status = "none" THEN "draft" ELSE invoice[k].status) \in InvoiceStatuses
    BY <2>1 DEF InvoiceStatuses
  <2>3. invoice' \in [Keys -> [status : InvoiceStatuses, billed : SUBSET Payments,
                               number : Int, due : Int, legacy : BOOLEAN]]
    <3>1. PICK st \in InvoiceStatuses :
            st = IF invoice[k].status = "none" THEN "draft" ELSE invoice[k].status
      BY <2>2
    <3>2. PICK due \in Int : due = (k[2] + 1) * MonthDays - 1 + 2 * DueIn
      BY <1>2
    <3>3. PICK bill \in SUBSET Payments : bill = ItemsOf(k)
      BY <1>3
    <3>4. invoice' = [invoice EXCEPT ![k].status = st, ![k].billed = bill,
                                     ![k].legacy = TRUE, ![k].due = due]
      BY <3>1, <3>2, <3>3 DEF GenerateByHand
    <3>5. invoice \in [Keys -> [status : InvoiceStatuses, billed : SUBSET Payments,
                               number : Int, due : Int, legacy : BOOLEAN]]
      BY DEF BillingInv, RowsInv
    <3> DEFINE Row == [status : InvoiceStatuses, billed : SUBSET Payments,
                       number : Int, due : Int, legacy : BOOLEAN]
    <3>6. invoice[k] \in Row
      BY <3>5
    <3>7. [invoice[k] EXCEPT !.status = st, !.billed = bill, !.legacy = TRUE, !.due = due]
            \in Row
      BY <3>6
    <3>8. invoice' = [invoice EXCEPT ![k] =
            [invoice[k] EXCEPT !.status = st, !.billed = bill, !.legacy = TRUE, !.due = due]]
      BY <3>4, <3>5
    <3> HIDE DEF Row
    <3> QED BY <3>5, <3>7, <3>8
  <2> QED BY <2>3 DEF BillingInv, RowsInv, GenerateByHand
<1>5. SumInv'
  BY <1>1 DEF BillingInv, SumInv, GenerateByHand
<1>6. BilledInv'
  BY <1>1 DEF BillingInv, RowsInv, BilledInv, GenerateByHand
<1> QED BY <1>4, <1>5, <1>6 DEF BillingInv

\* No two invoices bill the same payment, and an invoice bills the items marked with
\* it but for the two exceptions that BilledOnce names.
THEOREM PaymentsAreBilledOnce ==
  ASSUME IsFiniteSet(Saccos), MonthDays \in Nat \ {0}, LastDay \in Nat, DueIn \in Int
  PROVE  BillingSpec => []BilledOnce
<1>1. BillingInit => BillingInv
  BY InitBilling
<1>2. BillingInv /\ [BillingNext]_billingVars => BillingInv'
  BY QuietSteps, RecordStep, StartStep, CommitStep, ByHandStep DEF BillingNext
<1>3. BillingInv => BilledOnce
  BY ItemsApart DEF BillingInv, BilledInv, BilledOnce
<1> QED BY <1>1, <1>2, <1>3, PTL DEF BillingSpec

-----------------------------------------------------------------------------
(* Whose services are blocked *)

\* The invoice k is, or was when a task read it, a reason to suspend its SACCO.
Cause(k) ==
  /\ invoice[k].status \in {"overdue", "suspended"} \/ k \in crossed
  /\ invoice[k].due + Grace <= day \/ invoice[k].legacy

\* A worker that makes or emails the invoice k.
Emailing(h, k) == hand[h].op \in {"pdf", "email"} /\ hand[h].of = k

\* A worker that suspends for the invoice k.
Suspending(h, k) ==
  \/ hand[h].op \in {"suspend", "mark"} /\ k \in hand[h].todo
  \/ hand[h].op = "mark" /\ hand[h].of = k

\* What is emailed is still a draft, and there is one email of it.
EmailInv ==
  /\ \A k \in mail : k \in Keys /\ (invoice[k].status = "draft" \/ k \in crossed)
  /\ \A k : \A h \in Hands : Emailing(h, k) =>
       /\ k \in Keys /\ (invoice[k].status = "draft" \/ k \in crossed)
       /\ k \notin mail
       /\ \A g \in Hands : Emailing(g, k) => g = h

\* A worker that suspends, and a SACCO that is suspended, has an invoice to show.
CauseInv ==
  /\ \A k \in crossed : k \in Keys /\ invoice[k].status # "none"
  /\ \A k : \A h \in Hands : Suspending(h, k) => k \in Keys /\ Cause(k)
  /\ \A s \in blocked : \E m \in Months : <<s, m>> \in Keys /\ Cause(<<s, m>>)

BlockInv == EmailInv /\ CauseInv

\* Nobody is blocked at first.
LEMMA InitBlocked ==
  ASSUME BillingInit PROVE BlockInv
BY DEF BillingInit, Free, BlockInv, EmailInv, CauseInv, Emailing, Suspending

\* A step after which the invoices that are causes still are, those that are drafts are
\* unless somebody emailed them, and no worker suspends for another one.
LEMMA CausesStay ==
  ASSUME BlockInv, EmailInv', UNCHANGED crossed, blocked' \subseteq blocked,
         \A k \in Keys : /\ Cause(k) => Cause(k)'
                         /\ invoice[k].status # "none" => invoice'[k].status # "none",
         \A k : \A h \in Hands : Suspending(h, k)' => Suspending(h, k)
  PROVE  BlockInv'
<1>1. \A k : k \in Keys' <=> k \in Keys
  BY DEF Keys, Months
<1>2. \A k \in crossed' : k \in Keys' /\ invoice'[k].status # "none"
  BY <1>1 DEF BlockInv, CauseInv
<1>3. \A k : \A h \in Hands : Suspending(h, k)' => k \in Keys' /\ Cause(k)'
  BY <1>1 DEF BlockInv, CauseInv
<1>4. \A s \in blocked' : \E m \in Months : <<s, m>> \in Keys' /\ Cause(<<s, m>>)'
  BY <1>1 DEF BlockInv, CauseInv
<1>5. CauseInv'
  BY <1>2, <1>3, <1>4 DEF CauseInv
<1> QED BY <1>5 DEF BlockInv

\* A step that leaves invoices, mail and the workers that email alone.
LEMMA EmailsStay ==
  ASSUME EmailInv, UNCHANGED crossed, UNCHANGED mail,
         \A k \in Keys : invoice[k].status = "draft" =>
           invoice'[k].status = "draft" \/ k \in crossed,
         \A k : \A h \in Hands : Emailing(h, k)' => Emailing(h, k)
  PROVE  EmailInv'
<1>1. \A k : k \in Keys' <=> k \in Keys
  BY DEF Keys, Months
<1> QED BY <1>1 DEF EmailInv

\* The steps that email nothing and block nobody.
LEMMA OtherKeepBlocked ==
  ASSUME BillingInv, BlockInv, Grace \in Int,
         \/ \E t \in Payments, s \in Saccos : RecordItem(t, s)
         \/ \E k \in Keys : GenerateByHand(k)
         \/ UpdateOverdue \/ NextDay
         \/ \E h \in Hands : MarkSuspended(h) \/ \E k \in Keys : StartInvoice(h, k)
         \/ UNCHANGED billingVars
  PROVE  BlockInv'
<1> USE DEF BlockInv, Cause, Emailing, Suspending
<1>1. ASSUME NEW t \in Payments, NEW s \in Saccos, RecordItem(t, s) PROVE BlockInv'
  BY <1>1, EmailsStay, CausesStay DEF RecordItem
<1>2. ASSUME NEW k \in Keys, GenerateByHand(k) PROVE BlockInv'
  <2>1. /\ UNCHANGED <<blocked, mail, hand, day, crossed>>
        /\ \A j \in Keys : j # k => invoice'[j] = invoice[j]
        /\ invoice'[k].legacy
        /\ invoice'[k].status = IF invoice[k].status = "none" THEN "draft"
                                ELSE invoice[k].status
    BY <1>2 DEF GenerateByHand, BillingInv, RowsInv
  <2>2. EmailInv'
    BY <2>1, EmailsStay
  <2>3. \A j \in Keys : Cause(j) => Cause(j)'
    BY <2>1
  <2> QED BY <2>1, <2>2, <2>3, CausesStay
<1>3. ASSUME UpdateOverdue PROVE BlockInv'
  <2>1. /\ UNCHANGED <<blocked, mail, hand, day, crossed>>
        /\ \A j \in Keys : /\ invoice'[j].legacy = invoice[j].legacy
                           /\ invoice'[j].due = invoice[j].due
                           /\ \/ invoice'[j].status = invoice[j].status
                              \/ invoice[j].status = "sent" /\ invoice'[j].status = "overdue"
    BY <1>3 DEF UpdateOverdue, PastDue, BillingInv, RowsInv
  <2>2. EmailInv'
    BY <2>1, EmailsStay
  <2> QED BY <2>1, <2>2, CausesStay
<1>4. ASSUME NextDay PROVE BlockInv'
  <2>1. UNCHANGED <<blocked, mail, hand, invoice, crossed>> /\ day' = day + 1
    BY <1>4 DEF NextDay
  <2>2. EmailInv'
    BY <2>1, EmailsStay
  <2>3. \A k \in Keys : Cause(k) => Cause(k)'
    BY <2>1 DEF BillingInv, RowsInv
  <2> QED BY <2>1, <2>2, <2>3, CausesStay
<1>5. ASSUME NEW h \in Hands, MarkSuspended(h) PROVE BlockInv'
  <2>1. PICK key \in Keys : key = hand[h].of /\ Cause(key)
    BY <1>5 DEF MarkSuspended, CauseInv
  <2>2. /\ UNCHANGED <<blocked, mail, day, crossed>>
        /\ invoice' = [invoice EXCEPT ![key].status = "suspended"]
    BY <1>5, <2>1 DEF MarkSuspended
  <2>3. /\ \A j \in Keys : /\ invoice'[j].legacy = invoice[j].legacy
                           /\ invoice'[j].due = invoice[j].due
                           /\ j # key => invoice'[j] = invoice[j]
        /\ invoice'[key].status = "suspended"
    BY <2>2 DEF BillingInv, RowsInv
  <2>4. /\ hand[h].op = "mark"
        /\ \/ hand' = [hand EXCEPT ![h] = Free]
           \/ hand' = [hand EXCEPT ![h] = [op |-> "suspend", todo |-> hand[h].todo]]
    BY <1>5 DEF MarkSuspended, Turn
  <2>5. \A k : \A g \in Hands : Emailing(g, k)' => Emailing(g, k)
    BY <2>4 DEF Free, BillingInv, RowsInv
  <2>6. \A k : \A g \in Hands : Suspending(g, k)' => Suspending(g, k)
    BY <2>4 DEF Free, BillingInv, RowsInv
  <2>7. \A j \in Keys : invoice[j].status = "draft" =>
          invoice'[j].status = "draft" \/ j \in crossed
    BY <2>1, <2>3
  <2>8. \A j \in Keys : Cause(j) => Cause(j)'
    BY <2>1, <2>2, <2>3
  <2>9. /\ UNCHANGED <<blocked, mail, crossed>>
        /\ \A j \in Keys : invoice[j].status # "none" => invoice'[j].status # "none"
    BY <2>2, <2>3
  <2> HIDE DEF Cause, Emailing, Suspending
  <2>10. EmailInv'
    BY <2>5, <2>7, <2>9, EmailsStay
  <2> HIDE DEF BlockInv
  <2> QED BY <2>6, <2>8, <2>9, <2>10, CausesStay
<1>6. ASSUME NEW h \in Hands, NEW k \in Keys, StartInvoice(h, k) PROVE BlockInv'
  <2>1. UNCHANGED <<blocked, mail, day, invoice, crossed>>
    BY <1>6 DEF StartInvoice
  <2>2. \A j : \A g \in Hands : Emailing(g, j)' => Emailing(g, j)
    BY <1>6 DEF StartInvoice, Turn, BillingInv, RowsInv
  <2>3. \A j : \A g \in Hands : Suspending(g, j)' => Suspending(g, j)
    BY <1>6 DEF StartInvoice, Turn, BillingInv, RowsInv
  <2>4. \A j \in Keys : Cause(j) => Cause(j)'
    BY <2>1
  <2> HIDE DEF Cause, Emailing, Suspending
  <2>5. EmailInv'
    BY <2>1, <2>2, EmailsStay
  <2> QED BY <2>1, <2>3, <2>4, <2>5, CausesStay
<1>7. CASE UNCHANGED billingVars
  BY <1>7, EmailsStay, CausesStay DEF billingVars
<1> QED BY <1>1, <1>2, <1>3, <1>4, <1>5, <1>6, <1>7

\* A worker starts to suspend for invoices that are overdue, and blocks their SACCOs.
LEMMA SuspendKeepsBlocked ==
  ASSUME BillingInv, BlockInv, NEW h \in Hands,
         StartSuspend(h) \/ \E k \in Keys : BlockSacco(h, k)
  PROVE  BlockInv'
<1>1. \A k : (k \in Keys' <=> k \in Keys) /\ Months' = Months
  BY DEF Keys, Months
<1>2. UNCHANGED <<invoice, mail, day, crossed>>
  BY DEF StartSuspend, BlockSacco
<1>3. /\ \A k : \A g \in Hands : Emailing(g, k)' => Emailing(g, k)
      /\ \A k : \A g \in Hands :
           Suspending(g, k)' => Suspending(g, k) \/ (k \in Keys /\ Cause(k))
  <2>1. CASE StartSuspend(h)
    <3>1. PICK todo : /\ todo = Suspendable
                      /\ hand' = [hand EXCEPT ![h] = [op |-> "suspend", todo |-> todo]]
      BY <2>1 DEF StartSuspend, Turn
    <3>2. \A k \in todo : k \in Keys /\ Cause(k)
      BY <3>1 DEF Suspendable, Cause
    <3> QED BY <3>1, <3>2 DEF Emailing, Suspending, BillingInv, RowsInv
  <2>2. ASSUME NEW k \in Keys, BlockSacco(h, k) PROVE <1>3!:
    <3>1. PICK todo : /\ todo = hand[h].todo \ {k}
                      /\ hand' = [hand EXCEPT ![h] = [op |-> "mark", of |-> k, todo |-> todo]]
      BY <2>2 DEF BlockSacco, Turn
    <3>2. \A j \in todo \cup {k} : Suspending(h, j)
      BY <2>2, <3>1 DEF BlockSacco, Suspending
    <3> QED BY <3>1, <3>2 DEF Emailing, Suspending, BillingInv, RowsInv
  <2> QED BY <2>1, <2>2
<1>4. EmailInv'
  BY <1>2, <1>3, EmailsStay DEF BlockInv
<1>5. \A k : Cause(k)' <=> Cause(k)
  BY <1>2 DEF Cause
<1>6. ASSUME NEW s \in blocked' PROVE \E m \in Months : <<s, m>> \in Keys /\ Cause(<<s, m>>)
  <2>1. CASE s \in blocked
    BY <2>1 DEF BlockInv, CauseInv
  <2>2. CASE s \notin blocked
    <3>1. PICK k \in Keys : BlockSacco(h, k)
      BY <1>6, <2>2 DEF StartSuspend
    <3>2. Suspending(h, k) /\ s = k[1]
      BY <1>6, <2>2, <3>1 DEF BlockSacco, Suspending
    <3>3. k = <<s, k[2]>> /\ k[2] \in Months
      BY <3>2 DEF Keys
    <3> QED BY <3>2, <3>3 DEF BlockInv, CauseInv
  <2> QED BY <2>1, <2>2
<1>7. \A k : \A g \in Hands : Suspending(g, k)' => k \in Keys' /\ Cause(k)'
  BY <1>1, <1>3, <1>5 DEF BlockInv, CauseInv
<1>8. \A s \in blocked' : \E m \in Months' : <<s, m>> \in Keys' /\ Cause(<<s, m>>)'
  BY <1>1, <1>5, <1>6
<1>9. \A k \in crossed' : k \in Keys' /\ invoice'[k].status # "none"
  BY <1>1, <1>2 DEF BlockInv, CauseInv
<1>10. CauseInv'
  BY <1>7, <1>8, <1>9 DEF CauseInv
<1> QED BY <1>4, <1>10 DEF BlockInv

\* An invoice is emailed by one worker at a time, which found a draft.
LEMMA EmailKeepsBlocked ==
  ASSUME BillingInv, BlockInv, NEW h \in Hands,
         \/ CommitInvoice(h)
         \/ \E k \in Keys, addressed \in BOOLEAN : StartEmail(h, k, addressed)
         \/ \E ok \in BOOLEAN : MakePdf(h, ok) \/ FinishEmail(h, ok)
  PROVE  BlockInv'
<1>1. PICK key : key = IF hand[h].op \in {"invoice", "pdf", "email"} THEN hand[h].of
                       ELSE CHOOSE k \in Keys : \E addressed : StartEmail(h, k, addressed)
  OBVIOUS
<1>2. CASE CommitInvoice(h) /\ ~NumberTaken(hand[h])
  <2>1. /\ hand[h].op = "invoice" /\ hand[h].of = key /\ key \in Keys
        /\ invoice[key].status = "none"
        /\ hand' = [hand EXCEPT ![h] = [op |-> "pdf", of |-> key]]
        /\ UNCHANGED <<blocked, mail, day, crossed>>
    BY <1>1, <1>2 DEF CommitInvoice, NumberTaken, Turn, BillingInv, SumInv
  <2>2. PICK row : /\ row.status = "draft" /\ invoice' = [invoice EXCEPT ![key] = row]
    <3>1. PICK row : row = [status |-> "draft", billed |-> hand[h].sum,
                            number |-> hand[h].number, due |-> day + DueIn, legacy |-> FALSE]
      OBVIOUS
    <3> QED BY <1>1, <1>2, <2>1, <3>1 DEF CommitInvoice
  <2>3. /\ \A k \in Keys : k # key => invoice'[k] = invoice[k]
        /\ invoice'[key].status = "draft"
    BY <2>1, <2>2 DEF BillingInv, RowsInv
  <2>4. key \notin mail /\ key \notin crossed /\ \A g \in Hands : ~Emailing(g, key)
    BY <2>1 DEF BlockInv, EmailInv, CauseInv
  <2>5. ~Cause(key)
    BY <2>1, <2>4 DEF Cause
  <2>6. /\ \A k : Emailing(h, k)' => k = key
        /\ \A k : \A g \in Hands : g # h => (Emailing(g, k)' <=> Emailing(g, k))
    BY <2>1 DEF Emailing, BillingInv, RowsInv
  <2>7. \A k : \A g \in Hands : Suspending(g, k)' => Suspending(g, k)
    BY <2>1 DEF Suspending, BillingInv, RowsInv
  <2>8. \A k \in Keys : Cause(k) => Cause(k)'
    BY <2>1, <2>3, <2>5 DEF Cause
  <2>9. \A k \in Keys : invoice[k].status # "none" => invoice'[k].status # "none"
    BY <2>3
  <2>10. Keys' = Keys
    BY DEF Keys, Months
  <2>11. EmailInv'
    <3>1. \A k \in mail' : k \in Keys' /\ (invoice'[k].status = "draft" \/ k \in crossed')
      BY <2>1, <2>3, <2>4, <2>10 DEF BlockInv, EmailInv
    <3>2. ASSUME NEW k, NEW g \in Hands, Emailing(g, k)'
          PROVE  /\ k \in Keys' /\ (invoice'[k].status = "draft" \/ k \in crossed')
                 /\ k \notin mail'
                 /\ \A f \in Hands : Emailing(f, k)' => f = g
      <4>1. CASE k = key
        BY <4>1, <3>2, <2>1, <2>3, <2>4, <2>6, <2>10
      <4>2. CASE k # key
        BY <4>2, <3>2, <2>1, <2>3, <2>6, <2>10 DEF BlockInv, EmailInv
      <4> QED BY <4>1, <4>2
    <3> QED BY <3>1, <3>2 DEF EmailInv
  <2> QED BY <2>1, <2>7, <2>8, <2>9, <2>11, CausesStay
<1>3. ASSUME UNCHANGED <<invoice, blocked, day, crossed>>,
             mail' \subseteq mail \cup {k \in Keys : Emailing(h, k)},
             \A k \in mail' : k \notin mail => ~Emailing(h, k)',
             \A k : Emailing(h, k)' =>
               (Emailing(h, k) \/ k \in mail) /\ k \notin mail',
             \A k : ~Suspending(h, k)',
             \A g \in Hands : g # h => hand'[g] = hand[g]
      PROVE  BlockInv'
  <2>1. \A k : \A g \in Hands : g # h => (Emailing(g, k)' <=> Emailing(g, k))
    BY <1>3 DEF Emailing
  <2>2. \A k : \A g \in Hands : Suspending(g, k)' => Suspending(g, k)
    BY <1>3 DEF Suspending
  <2>3. \A k \in Keys : Cause(k) => Cause(k)'
    BY <1>3 DEF Cause
  <2>4. Keys' = Keys
    BY DEF Keys, Months
  <2>5. EmailInv'
    <3>1. \A k \in mail' : k \in Keys' /\ (invoice'[k].status = "draft" \/ k \in crossed')
      BY <1>3, <2>4 DEF BlockInv, EmailInv
    <3>2. ASSUME NEW k, NEW g \in Hands, Emailing(g, k)'
          PROVE  /\ k \in Keys' /\ (invoice'[k].status = "draft" \/ k \in crossed')
                 /\ k \notin mail'
                 /\ \A f \in Hands : Emailing(f, k)' => f = g
      <4>1. CASE g = h
        BY <4>1, <3>2, <1>3, <2>1, <2>4 DEF BlockInv, EmailInv
      <4>2. CASE g # h
        <5>1. Emailing(g, k) /\ k \notin mail /\ ~Emailing(h, k)
          BY <4>2, <3>2, <2>1 DEF BlockInv, EmailInv
        <5>2. ~Emailing(h, k)' /\ k \notin mail'
          BY <5>1, <1>3
        <5> QED BY <5>1, <5>2, <4>2, <1>3, <2>1, <2>4 DEF BlockInv, EmailInv
      <4> QED BY <4>1, <4>2
    <3> QED BY <3>1, <3>2 DEF EmailInv
  <2> QED BY <1>3, <2>2, <2>3, <2>5, CausesStay
<1>4. hand = [g \in Hands |-> hand[g]]
  BY DEF BillingInv, RowsInv
<1>5. CASE CommitInvoice(h) /\ NumberTaken(hand[h])
  <2>1. UNCHANGED <<invoice, blocked, mail, day, crossed>> /\ hand' = [hand EXCEPT ![h] = Free]
    BY <1>5 DEF CommitInvoice, Turn
  <2> QED BY <1>3, <1>4, <2>1 DEF Free, Emailing, Suspending
<1>6. ASSUME NEW k \in Keys, NEW addressed \in BOOLEAN, StartEmail(h, k, addressed)
      PROVE  BlockInv'
  <2>1. /\ UNCHANGED <<invoice, blocked, day, crossed>> /\ k \in mail /\ mail' = mail \ {k}
        /\ \/ hand' = [hand EXCEPT ![h] = Free]
           \/ hand' = [hand EXCEPT ![h] = [op |-> "email", of |-> k]]
    BY <1>6 DEF StartEmail, Turn
  <2>2. \A j : (Emailing(h, j)' => j = k) /\ ~Suspending(h, j)'
    BY <1>4, <2>1 DEF Free, Emailing, Suspending
  <2>3. \A g \in Hands : g # h => hand'[g] = hand[g]
    BY <1>4, <2>1
  <2> QED BY <1>3, <2>1, <2>2, <2>3
<1>7. ASSUME NEW ok \in BOOLEAN, MakePdf(h, ok) PROVE BlockInv'
  <2>1. /\ UNCHANGED <<invoice, blocked, day, crossed>> /\ hand' = [hand EXCEPT ![h] = Free]
        /\ mail' \subseteq mail \cup {hand[h].of} /\ Emailing(h, hand[h].of)
    BY <1>7 DEF MakePdf, Turn, Emailing
  <2>2. \A j : ~Emailing(h, j)' /\ ~Suspending(h, j)'
    BY <1>4, <2>1 DEF Free, Emailing, Suspending
  <2>3. \A g \in Hands : g # h => hand'[g] = hand[g]
    BY <1>4, <2>1
  <2>4. hand[h].of \in Keys
    BY <2>1 DEF BlockInv, EmailInv
  <2> QED BY <1>3, <2>1, <2>2, <2>3, <2>4
<1>8. ASSUME NEW ok \in BOOLEAN, FinishEmail(h, ok) PROVE BlockInv'
  <2>1. /\ UNCHANGED <<mail, blocked, day, crossed>> /\ hand' = [hand EXCEPT ![h] = Free]
        /\ Emailing(h, hand[h].of)
    BY <1>8 DEF FinishEmail, Turn, Emailing
  <2>2. PICK k \in Keys : k = hand[h].of /\ (invoice[k].status = "draft" \/ k \in crossed)
    BY <2>1 DEF BlockInv, EmailInv
  <2>3. /\ \A j \in Keys : j # k => invoice'[j] = invoice[j]
        /\ invoice'[k].due = invoice[k].due /\ invoice'[k].legacy = invoice[k].legacy
        /\ invoice'[k].status \in {invoice[k].status, "sent"}
    <3>1. invoice' = IF ok THEN [invoice EXCEPT ![k].status = "sent"] ELSE invoice
      BY <1>8, <2>2 DEF FinishEmail
    <3> QED BY <3>1 DEF BillingInv, RowsInv
  <2>4. \A j \in Keys : Cause(j) => Cause(j)'
    BY <2>1, <2>2, <2>3 DEF Cause
  <2>5. \A j : ~Emailing(h, j)' /\ ~Suspending(h, j)'
    BY <1>4, <2>1 DEF Free, Emailing, Suspending
  <2>6. \A j : \A g \in Hands : g # h => (Emailing(g, j)' <=> Emailing(g, j))
    BY <1>4, <2>1 DEF Emailing
  <2>7. \A j : \A g \in Hands : Suspending(g, j)' => Suspending(g, j)
    BY <1>4, <2>1, <2>5 DEF Suspending
  <2>8. \A j \in mail : j # k
    BY <2>1, <2>2 DEF BlockInv, EmailInv
  <2>9. \A j : \A g \in Hands : Emailing(g, j)' => Emailing(g, j) /\ j # k
    BY <2>1, <2>2, <2>5, <2>6 DEF BlockInv, EmailInv
  <2>10. Keys' = Keys
    BY DEF Keys, Months
  <2>11. EmailInv'
    <3>1. \A j \in mail' : j \in Keys' /\ (invoice'[j].status = "draft" \/ j \in crossed')
      BY <2>1, <2>3, <2>8, <2>10 DEF BlockInv, EmailInv
    <3>2. \A j : \A g \in Hands : Emailing(g, j)' =>
            j \in Keys' /\ (invoice'[j].status = "draft" \/ j \in crossed')
      BY <2>1, <2>3, <2>9, <2>10 DEF BlockInv, EmailInv
    <3> QED BY <3>1, <3>2, <2>1, <2>9 DEF BlockInv, EmailInv
  <2>12. \A j \in Keys : invoice[j].status # "none" => invoice'[j].status # "none"
    BY <2>3
  <2>13. UNCHANGED <<blocked, crossed>>
    BY <2>1
  <2> QED BY <2>4, <2>7, <2>11, <2>12, <2>13, CausesStay
<1> QED BY <1>2, <1>5, <1>6, <1>7, <1>8

\* A paid invoice is a cause no more, but a worker that has read it does not know.
LEMMA PaidKeepsBlocked ==
  ASSUME BillingInv, BlockInv, NEW k \in Keys, MarkPaid(k)
  PROVE  BlockInv'
<1>1. /\ UNCHANGED <<mail, hand, day>> /\ blocked' = blocked \ {k[1]}
      /\ crossed' = IF Writing(k) THEN crossed \cup {k} ELSE crossed
      /\ \A j \in Keys : j # k => invoice'[j] = invoice[j]
      /\ invoice'[k].status = "paid"
      /\ invoice'[k].due = invoice[k].due /\ invoice'[k].legacy = invoice[k].legacy
  BY DEF MarkPaid, BillingInv, RowsInv
<1>2. Keys' = Keys /\ Months' = Months
  BY DEF Keys, Months
<1>3. /\ \A j : \A h \in Hands : Emailing(h, j)' <=> Emailing(h, j)
      /\ \A j : \A h \in Hands : Suspending(h, j)' <=> Suspending(h, j)
  BY <1>1 DEF Emailing, Suspending
<1>4. /\ \A h \in Hands : Emailing(h, k) => Writing(k)
      /\ \A h \in Hands : Suspending(h, k) => Writing(k)
      /\ k \in mail => Writing(k)
  BY DEF Emailing, Suspending, Writing
<1>5. EmailInv'
  <2>1. \A j \in mail' : j \in Keys' /\ (invoice'[j].status = "draft" \/ j \in crossed')
    BY <1>1, <1>2, <1>4 DEF BlockInv, EmailInv
  <2>2. \A j : \A h \in Hands : Emailing(h, j) =>
          j \in Keys' /\ (invoice'[j].status = "draft" \/ j \in crossed')
    BY <1>1, <1>2, <1>4 DEF BlockInv, EmailInv
  <2> QED BY <2>1, <2>2, <1>1, <1>3 DEF BlockInv, EmailInv
<1>6. \A j \in Keys : Cause(j) /\ (j # k \/ Writing(k)) => Cause(j)'
  BY <1>1 DEF Cause
<1>7. \A j : \A h \in Hands : Suspending(h, j)' => j \in Keys' /\ Cause(j)'
  BY <1>2, <1>3, <1>4, <1>6 DEF BlockInv, CauseInv
<1>8. ASSUME NEW s \in blocked'
      PROVE  \E m \in Months' : <<s, m>> \in Keys' /\ Cause(<<s, m>>)'
  <2>1. PICK m \in Months : <<s, m>> \in Keys /\ Cause(<<s, m>>)
    BY <1>1 DEF BlockInv, CauseInv
  <2>2. <<s, m>> # k
    BY <1>1, <1>8
  <2>3. Cause(<<s, m>>)'
    BY <2>1, <2>2, <1>6
  <2> QED BY <1>2, <2>1, <2>3
<1>9. \A j \in crossed' : j \in Keys' /\ invoice'[j].status # "none"
  BY <1>1, <1>2 DEF BlockInv, CauseInv
<1>10. CauseInv'
  BY <1>7, <1>8, <1>9 DEF CauseInv
<1> QED BY <1>5, <1>10 DEF BlockInv

\* A blocked SACCO has an invoice that is overdue or suspended beyond the grace, or was
\* paid while a task was about to write it (suspend_overdue_saccos, InvoiceMarkPaidView).
THEOREM BlockedOnlyForCause ==
  ASSUME IsFiniteSet(Saccos), MonthDays \in Nat \ {0}, LastDay \in Nat, DueIn \in Int,
         Grace \in Int
  PROVE  BillingSpec => []BlockedForCause
<1>1. BillingInit => BillingInv /\ BlockInv
  BY InitBilling, InitBlocked
<1>2. BillingInv /\ BlockInv /\ [BillingNext]_billingVars => (BillingInv /\ BlockInv)'
  <2> SUFFICES ASSUME BillingInv, BlockInv, [BillingNext]_billingVars
               PROVE  BillingInv' /\ BlockInv'
    OBVIOUS
  <2>1. BillingInv'
    BY QuietSteps, RecordStep, StartStep, CommitStep, ByHandStep DEF BillingNext
  <2>2. BlockInv'
    BY OtherKeepBlocked, SuspendKeepsBlocked, EmailKeepsBlocked, PaidKeepsBlocked
       DEF BillingNext
  <2> QED BY <2>1, <2>2
<1>3. BlockInv => BlockedForCause
  BY DEF BlockInv, CauseInv, Cause, BlockedForCause
<1> QED BY <1>1, <1>2, <1>3, PTL DEF BillingSpec

-----------------------------------------------------------------------------
(* Types *)

\* Days up to the last are of months up to the last.
LEMMA MonthsInRange ==
  ASSUME MonthDays \in Nat \ {0}, LastDay \in Nat, day \in 0..LastDay
  PROVE  Month \in Months /\ UtcMonth \in Months
<1> DEFINE q == day \div MonthDays
           last == LastDay \div MonthDays
<1>1. /\ q \in Nat /\ last \in Nat
      /\ day = MonthDays * q + (day % MonthDays) /\ day % MonthDays \in 0..(MonthDays - 1)
      /\ LastDay = MonthDays * last + (LastDay % MonthDays)
      /\ LastDay % MonthDays \in 0..(MonthDays - 1)
  OBVIOUS
<1>2. Month = q /\ Months = 0..last
  BY DEF Month, Months
<1> HIDE DEF q, last
<1>3. q <= last
  <2> SUFFICES ASSUME q >= last + 1 PROVE FALSE
    BY <1>1
  <2>1. MonthDays * (q - (last + 1)) >= 0
    BY <1>1
  <2>2. MonthDays * q >= MonthDays * last + MonthDays
    BY <1>1, <2>1
  <2> QED BY <1>1, <2>2
<1>4. UtcMonth # Month => q >= 1 /\ UtcMonth = q - 1
  <2> SUFFICES ASSUME day % MonthDays = 0, day > 0 PROVE q >= 1
    BY <1>1, <1>2 DEF UtcMonth
  <2>1. q # 0
    BY <1>1
  <2> QED BY <1>1, <2>1
<1> QED BY <1>1, <1>2, <1>3, <1>4

\* An item is of one of the months.
DatesInv == day \in 0..LastDay /\ \A t \in Payments : item[t].month \in Months

\* A step records an item in the month of the day, or moves none to another month.
LEMMA DatesStay ==
  ASSUME BillingInv, DatesInv, [BillingNext]_billingVars, MonthDays \in Nat \ {0}, LastDay \in Nat
  PROVE  DatesInv'
<1>1. Months' = Months /\ item \in [Payments -> [sacco : SUBSET Saccos, month : Int, invoiced : BOOLEAN]]
  BY DEF Months, BillingInv, RowsInv
<1>2. ASSUME NEW t \in Payments, NEW s \in Saccos, RecordItem(t, s) PROVE DatesInv'
  <2>1. UtcMonth \in Months
    BY MonthsInRange DEF DatesInv
  <2> QED BY <1>1, <1>2, <2>1 DEF RecordItem, DatesInv
<1>3. ASSUME NEW h \in Hands, CommitInvoice(h) PROVE DatesInv'
  <2>1. \A t \in Payments : item'[t].month = item[t].month
    BY <1>1, <1>3 DEF CommitInvoice
  <2> QED BY <1>1, <1>3, <2>1 DEF CommitInvoice, DatesInv
<1>4. ASSUME NextDay PROVE DatesInv'
  BY <1>1, <1>4 DEF NextDay, DatesInv
<1>5. ASSUME UNCHANGED <<item, day>> PROVE DatesInv'
  BY <1>1, <1>5 DEF DatesInv
<1>6. ASSUME NEW k \in Keys, MarkPaid(k) \/ GenerateByHand(k) PROVE UNCHANGED <<item, day>>
  BY <1>6 DEF MarkPaid, GenerateByHand
<1>7. UpdateOverdue => UNCHANGED <<item, day>>
  BY DEF UpdateOverdue
<1>8. ASSUME NEW h \in Hands, NEW k \in Keys,
             StartInvoice(h, k) \/ BlockSacco(h, k) \/ \E addressed \in BOOLEAN : StartEmail(h, k, addressed)
      PROVE  UNCHANGED <<item, day>>
  BY <1>8 DEF StartInvoice, BlockSacco, StartEmail
<1>9. ASSUME NEW h \in Hands,
             \/ \E ok \in BOOLEAN : MakePdf(h, ok) \/ FinishEmail(h, ok)
             \/ StartSuspend(h) \/ MarkSuspended(h)
      PROVE  UNCHANGED <<item, day>>
  BY <1>9 DEF MakePdf, FinishEmail, StartSuspend, MarkSuspended
<1>10. CASE UNCHANGED billingVars
  BY <1>5, <1>10 DEF billingVars
<1> QED BY <1>2, <1>3, <1>4, <1>5, <1>6, <1>7, <1>8, <1>9, <1>10 DEF BillingNext

\* Items, invoices, blocked SACCOs and emails are of their types.
THEOREM BillingTyped ==
  ASSUME IsFiniteSet(Saccos), MonthDays \in Nat \ {0}, LastDay \in Nat, DueIn \in Int,
         Grace \in Int
  PROVE  BillingSpec => []BillingTypeOK
<1>1. BillingInit => BillingInv /\ BlockInv /\ DatesInv
  <2>1. BillingInit => DatesInv
    <3>1. ASSUME MonthDays \in Nat \ {0}, LastDay \in Nat PROVE 0 \in Months
      <4>1. LastDay \div MonthDays \in Nat
        BY <3>1
      <4> QED BY <4>1 DEF Months
    <3> QED BY <3>1 DEF BillingInit, DatesInv, NoItem
  <2> QED BY <2>1, InitBilling, InitBlocked
<1>2. BillingInv /\ BlockInv /\ DatesInv /\ [BillingNext]_billingVars
        => (BillingInv /\ BlockInv /\ DatesInv)'
  <2> SUFFICES ASSUME BillingInv, BlockInv, DatesInv, [BillingNext]_billingVars
               PROVE  BillingInv' /\ BlockInv' /\ DatesInv'
    OBVIOUS
  <2>1. BillingInv'
    BY QuietSteps, RecordStep, StartStep, CommitStep, ByHandStep DEF BillingNext
  <2>2. BlockInv'
    BY OtherKeepBlocked, SuspendKeepsBlocked, EmailKeepsBlocked, PaidKeepsBlocked
       DEF BillingNext
  <2> QED BY <2>1, <2>2, DatesStay
<1>3. BillingInv /\ BlockInv /\ DatesInv => BillingTypeOK
  BY DEF BillingInv, RowsInv, BlockInv, EmailInv, CauseInv, DatesInv, BillingTypeOK, Keys
<1> QED BY <1>1, <1>2, <1>3, PTL DEF BillingSpec
=============================================================================

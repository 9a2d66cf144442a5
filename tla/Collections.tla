----------------------------- MODULE Collections -----------------------------
(***************************************************************************)
(* Money a member pays in or takes out, from the request to the ledger:    *)
(* M-Pesa STK pushes (saving deposits and loan repayments), PSP deposits   *)
(* and PSP withdrawals, their webhooks, the Callback table, reconciliation *)
(* and the Celery workers that book a result.  One member with one saving  *)
(* and one loan; every payment is of one unit, which is also what an       *)
(* instalment and a withdrawal amount to.                                  *)
(*                                                                         *)
(* The workers run database transactions under PostgreSQL's READ COMMITTED *)
(* isolation.  A transaction takes two or three steps: the read a row lock *)
(* may have to wait for, the reads under the locks, the commit.  A worker  *)
(* that is "writing" holds the row locks of its payment and account.       *)
(***************************************************************************)
EXTENDS Integers, Sequences, FiniteSets

CONSTANTS
    StkDeposits,     \* M-Pesa STK pushes for a saving
    StkRepayments,   \* M-Pesa STK pushes for a loan
    PspDeposits,     \* deposits through the configured PSP
    Withdrawals,     \* withdrawals through the configured PSP
    Workers,         \* Celery workers
    Owed,            \* unpaid instalments of the loan at the start
    MaxFaults        \* bound on crashes, lost tasks, outages and repeated deliveries

Stk == StkDeposits \cup StkRepayments
Psp == PspDeposits \cup Withdrawals
Payments == Stk \cup Psp

ASSUME KindsAssumption ==
    /\ StkDeposits \cap StkRepayments = {}
    /\ PspDeposits \cap Withdrawals = {}
    /\ Stk \cap Psp = {}
ASSUME BoundsAssumption == Owed \in Nat /\ MaxFaults \in Nat

VARIABLES
    request,                       \* per payment: the HTTP request that starts it
    gateway,                       \* per payment: what M-Pesa or the PSP did
    txStatus, received,            \* Transaction.status, MpesaTransaction.callback_received
    savings, owed,                 \* Saving.amount, open instalments of the loan
    ledger,                        \* LedgerEntry rows in commit order
    billed,                        \* payments with an InvoiceLineItem
    notices,                       \* results on the wire, until they are answered 200
    replay,                        \* STK replay markers in the cache
    open,                          \* Callback rows of the PSP, not marked processed
    queue, work,                   \* Celery: tasks, what each worker does
    faults

payVars  == <<request, gateway>>
txVars   == <<txStatus, received, billed>>
bookVars == <<savings, owed, ledger>>
wireVars == <<notices, replay>>
vars == <<payVars, txVars, bookVars, wireVars, open, queue, work, faults>>

Statuses == {"none", "PENDING", "SENT", "COMPLETED", "FAILED", "AMOUNT_MISMATCH"}
Settled  == {"COMPLETED", "FAILED", "AMOUNT_MISMATCH"}

\* A result reported for a payment.  Only a PSP reports "pending"; "short" is the
\* success of an STK push whose amount is not the gross amount of the payment.
Results == [p : Payments, result : {"success", "short", "failure", "pending"}]

\* A worker is idle; waits for a row with the Transaction.status its query saw;
\* or is about to commit, with the balance it computed.
Idle == [pc |-> "idle"]
Activities ==
    {Idle}
        \cup [pc : {"reading"}, task : Results, seen : Statuses]
        \cup [pc : {"writing"}, task : Results, balance : Int]

TypeOK ==
    /\ request \in [Payments -> {"new", "asked", "over"}]
    /\ gateway \in [Payments -> {"idle", "asked", "success", "short", "failure"}]
    /\ txStatus \in [Payments -> Statuses]
    /\ received \in [Stk -> BOOLEAN]
    /\ savings \in Nat
    /\ owed \in 0..Owed
    /\ ledger \in Seq([p : Payments, after : Int])
    /\ billed \subseteq Payments
    /\ notices \subseteq Results
    /\ replay \subseteq Stk
    /\ open \subseteq Results
    /\ queue \subseteq Results
    /\ work \in [Workers -> Activities]
    /\ faults \in 0..MaxFaults

Init ==
    /\ request = [p \in Payments |-> "new"]
    /\ gateway = [p \in Payments |-> "idle"]
    /\ txStatus = [p \in Payments |-> "none"]
    /\ received = [p \in Stk |-> FALSE]
    /\ savings = 0 /\ owed = Owed
    /\ ledger = <<>> /\ billed = {}
    /\ notices = {} /\ replay = {}
    /\ open = {} /\ queue = {}
    /\ work = [w \in Workers |-> Idle]
    /\ faults = 0

Fault == faults < MaxFaults /\ faults' = faults + 1

Booked == {ledger[i].p : i \in DOMAIN ledger}

\* The balance of a sequence of entries: credits less debits.
Balance(entries) ==
    LET debits == {i \in DOMAIN entries : entries[i].p \in Withdrawals}
    IN  Len(entries) - 2 * Cardinality(debits)

-----------------------------------------------------------------------------
(* STKPushView, DepositInitiateView, WithdrawalInitiateView                *)

\* WithdrawalRequestSerializer.validate_withdrawal_context looks at Saving.amount.
MayAsk(p) == request[p] = "new" /\ (p \in Withdrawals => savings >= 1)

\* Daraja or the PSP accepts the payment before its row can be seen: the STK view
\* calls first and writes then, the PSP views call inside their transaction.  (An
\* STK push that is refused leaves nothing behind, nor does a provider that raises:
\* no row, or a row that is rolled back.)
Asks(p) ==
    /\ MayAsk(p)
    /\ request' = [request EXCEPT ![p] = "asked"]
    /\ gateway' = [gateway EXCEPT ![p] = "asked"]
    /\ UNCHANGED <<txVars, bookVars, wireVars, open, queue, work, faults>>

Records(p) ==
    /\ request[p] = "asked"
    /\ request' = [request EXCEPT ![p] = "over"]
    /\ txStatus' = [txStatus EXCEPT ![p] = IF p \in Withdrawals THEN "SENT" ELSE "PENDING"]
    /\ UNCHANGED <<gateway, received, billed, bookVars, wireVars, open, queue, work, faults>>

\* A PSP that answers no: the withdrawal is committed as FAILED.  A deposit is
\* committed as PENDING, since result.success is not looked at (payments/views.py
\* 248-263).
Refuses(p) ==
    /\ p \in Psp /\ MayAsk(p)
    /\ request' = [request EXCEPT ![p] = "over"]
    /\ txStatus' = [txStatus EXCEPT ![p] = IF p \in Withdrawals THEN "FAILED" ELSE "PENDING"]
    /\ UNCHANGED <<gateway, received, billed, bookVars, wireVars, open, queue, work, faults>>

\* The process dies, or the answer of the provider is lost, before the commit.
RequestDies(p) ==
    /\ request[p] = "asked" /\ Fault
    /\ request' = [request EXCEPT ![p] = "over"]
    /\ UNCHANGED <<gateway, txVars, bookVars, wireVars, open, queue, work>>

-----------------------------------------------------------------------------
(* M-Pesa and the PSP                                                      *)

Reports(n) == notices' = notices \cup {n} /\ UNCHANGED replay

\* How a payment can end.  An STK push asks for int(gross), so that one whose gross
\* amount has cents is paid short.
Ends(p) == IF p \in Stk THEN {"success", "short", "failure"} ELSE {"success", "failure"}

Settles(p, end) ==
    /\ gateway[p] = "asked"
    /\ end \in Ends(p)
    /\ gateway' = [gateway EXCEPT ![p] = end]
    /\ Reports([p |-> p, result |-> end])
    /\ UNCHANGED <<request, txVars, bookVars, open, queue, work, faults>>

\* A PSP may report progress; the report may arrive after the final one.
ReportsPending(p) ==
    /\ p \in Psp /\ gateway[p] = "asked"
    /\ Reports([p |-> p, result |-> "pending"])
    /\ UNCHANGED <<payVars, txVars, bookVars, open, queue, work, faults>>

\* The final result is delivered again.
Redelivers(p) ==
    /\ gateway[p] \in Ends(p) /\ Fault
    /\ [p |-> p, result |-> gateway[p]] \notin notices
    /\ Reports([p |-> p, result |-> gateway[p]])
    /\ UNCHANGED <<payVars, txVars, bookVars, open, queue, work>>

-----------------------------------------------------------------------------
(* MPesaSTKCallbackView.post                                               *)

Acknowledges(n) == notices' = notices \ {n}

StkCallback(n) == n \in notices /\ n.p \in Stk

MarkerExpires(p) ==
    /\ p \in replay
    /\ replay' = replay \ {p}
    /\ UNCHANGED <<payVars, txVars, bookVars, notices, open, queue, work, faults>>

StkDropsReplay(n) ==
    /\ StkCallback(n) /\ n.p \in replay
    /\ Acknowledges(n)
    /\ UNCHANGED <<payVars, txVars, bookVars, replay, open, queue, work, faults>>

\* Mutant: a callback whose payment has no row is answered 200 and forgotten.
StkEnqueuesOrForgets(n) ==
    /\ StkCallback(n) /\ n.p \notin replay
    /\ Acknowledges(n)
    /\ replay' = replay \cup {n.p}
    /\ queue' = IF txStatus[n.p] = "none" THEN queue ELSE queue \cup {n}
    /\ UNCHANGED <<payVars, txVars, bookVars, open, work, faults>>

\* A callback whose payment has no row yet, or that finds the broker down, changes
\* nothing here: the marker is cleared again and 503 makes M-Pesa repeat it.  (The
\* Callback row that is written is never read; LoanDisbursement keeps it.)
StkEnqueues(n) ==
    /\ StkCallback(n) /\ n.p \notin replay /\ txStatus[n.p] # "none"
    /\ Acknowledges(n)
    /\ replay' = replay \cup {n.p}
    /\ queue' = queue \cup {n}
    /\ UNCHANGED <<payVars, txVars, bookVars, open, work, faults>>

\* The outer except: 503 with the marker left behind.
StkFails(n) ==
    /\ StkCallback(n) /\ n.p \notin replay /\ Fault
    /\ replay' = replay \cup {n.p}
    /\ UNCHANGED <<payVars, txVars, bookVars, notices, open, queue, work>>

-----------------------------------------------------------------------------
(* PaymentCallbackView.post, reconcile_pending_transactions                *)

\* Mutant: the Callback row is not written.
PspForgets(n) == UNCHANGED open

\* The payload is in the Callback table before it is answered 200.
PspKeeps(n) == open' = open \cup {n}

PspReceives(n) ==
    /\ n \in notices /\ n.p \in Psp
    /\ Acknowledges(n)
    /\ PspKeeps(n)
    /\ UNCHANGED <<payVars, txVars, bookVars, replay, work>>

PspEnqueues(n) == PspReceives(n) /\ queue' = queue \cup {n} /\ UNCHANGED faults

\* The broker is down: processing_error is noted, and the answer is 200 all the same.
PspBrokerDown(n) == PspReceives(n) /\ Fault /\ UNCHANGED queue

\* What query_status reports.
Status(p) == IF gateway[p] \in Ends(p) THEN gateway[p] ELSE "pending"

\* One iteration of the loop over PENDING transactions.  (An STK payment is skipped:
\* no provider class is registered for M-Pesa.)
Reconciles(p) ==
    /\ p \in Psp /\ txStatus[p] = "PENDING"
    /\ LET n == [p |-> p, result |-> Status(p)]
       IN  open' = open \cup {n} /\ queue' = queue \cup {n}
    /\ UNCHANGED <<payVars, txVars, bookVars, wireVars, work, faults>>

-----------------------------------------------------------------------------
(* Celery                                                                  *)

Is(w, pc) == work[w].pc = pc
Job(w) == work[w].task
Becomes(w, activity) == work' = [work EXCEPT ![w] = activity]
Takes(w, t) == Is(w, "idle") /\ t \in queue /\ queue' = queue \ {t}

\* Row locks: the payment's row, the Saving row, the Loan row.
RowFree(p) == \A w \in Workers : Is(w, "writing") => Job(w).p # p

\* Mutant: the Saving is read without select_for_update.
NoLock(p) == TRUE

AccountFree(p) ==
    \A w \in Workers, account \in {StkDeposits, StkRepayments} :
        p \in account /\ Is(w, "writing") => Job(w).p \notin account

Settle(p, status) == txStatus' = [txStatus EXCEPT ![p] = status]

(* process_stk_callback_task *)

\* The query starts: it joins the Transaction as committed now.  The lock it may
\* then wait for is on the MpesaTransaction only (of=('self',)), so that of the two
\* only callback_received is read again when the wait is over.
StkReads(w, t) ==
    /\ t.p \in Stk
    /\ Takes(w, t)
    /\ Becomes(w, [pc |-> "reading", task |-> t, seen |-> txStatus[t.p]])
    /\ UNCHANGED <<payVars, txVars, bookVars, wireVars, open, faults>>

AlreadyProcessed(w) == received[Job(w).p] /\ work[w].seen \in Settled
Locks(w) == Is(w, "reading") /\ RowFree(Job(w).p)

StkSkips(w) ==
    /\ Locks(w) /\ AlreadyProcessed(w)
    /\ Becomes(w, Idle)
    /\ UNCHANGED <<payVars, txVars, bookVars, wireVars, open, queue, faults>>

\* _process_failed_callback and _handle_amount_mismatch: only the status is saved.
StkRejects(w, status) ==
    /\ Locks(w) /\ ~AlreadyProcessed(w)
    /\ received' = [received EXCEPT ![Job(w).p] = TRUE]
    /\ Settle(Job(w).p, status)
    /\ Becomes(w, Idle)
    /\ UNCHANGED <<payVars, bookVars, wireVars, open, queue, faults>>

StkFailed(w) == Job(w).result = "failure" /\ StkRejects(w, "FAILED") /\ UNCHANGED billed

\* Mutant: the fee is recorded before the amounts are compared.
StkMismatchBilled(w) ==
    /\ Job(w).result = "short"
    /\ StkRejects(w, "AMOUNT_MISMATCH")
    /\ billed' = billed \cup {Job(w).p}

\* The amount paid and the gross amount differ by more than 0.01.
StkMismatch(w) ==
    /\ Job(w).result = "short"
    /\ StkRejects(w, "AMOUNT_MISMATCH")
    /\ UNCHANGED billed

\* Mutant: the saving is credited outside the transaction.
StkAppliesAndCredits(w) ==
    /\ Locks(w) /\ ~AlreadyProcessed(w)
    /\ Job(w).result = "success"
    /\ AccountFree(Job(w).p)
    /\ savings' = savings + 1
    /\ Becomes(w, [pc |-> "writing", task |-> Job(w), balance |-> Balance(ledger) + 1])
    /\ UNCHANGED <<payVars, txVars, owed, ledger, wireVars, open, queue, faults>>

\* Under the locks: a deposit sums the committed entries of the ledger, a repayment
\* notes what will be outstanding.
StkApplies(w) ==
    /\ Locks(w) /\ ~AlreadyProcessed(w)
    /\ Job(w).result = "success"
    /\ AccountFree(Job(w).p)
    /\ Becomes(w, [pc |-> "writing", task |-> Job(w),
                   balance |-> IF Job(w).p \in StkDeposits THEN Balance(ledger) + 1
                               ELSE owed - 1])
    /\ UNCHANGED <<payVars, txVars, bookVars, wireVars, open, queue, faults>>

\* _apply_amount_to_instalments finds nothing to pay: no ledger entry.
NothingOwed(p) == p \in StkRepayments /\ owed = 0

\* Mutant: the reference of the entry is generated, so that no two collide.
NeverClashes(p) == FALSE

\* LedgerEntry.reference is unique and names the payment.
Clashes(p) == p \in Booked /\ ~NothingOwed(p)

\* IntegrityError: everything is rolled back, and the task retried.
StkRetries(w) ==
    /\ Is(w, "writing") /\ Job(w).p \in Stk
    /\ Clashes(Job(w).p)
    /\ queue' = queue \cup {Job(w)}
    /\ Becomes(w, Idle)
    /\ UNCHANGED <<payVars, txVars, bookVars, wireVars, open, faults>>

Completes(w) ==
    /\ Is(w, "writing") /\ ~Clashes(Job(w).p)
    /\ Settle(Job(w).p, "COMPLETED")
    /\ billed' = billed \cup {Job(w).p}
    /\ Becomes(w, Idle)
    /\ UNCHANGED <<payVars, wireVars, queue, faults>>

Enters(w) == ledger' = Append(ledger, [p |-> Job(w).p, after |-> work[w].balance])

\* Mutant: the balance is not cut off at zero.
ReducedBelowZero(n) == n - 1

Reduced(n) == IF n > 0 THEN n - 1 ELSE 0

\* _apply_saving_deposit, _apply_loan_repayment
StkCommits(w) ==
    /\ Completes(w) /\ Job(w).p \in Stk
    /\ received' = [received EXCEPT ![Job(w).p] = TRUE]
    /\ savings' = IF Job(w).p \in StkDeposits THEN savings + 1 ELSE savings
    /\ IF NothingOwed(Job(w).p) THEN UNCHANGED ledger ELSE Enters(w)
    /\ owed' = IF Job(w).p \in StkRepayments THEN Reduced(owed) ELSE owed
    /\ UNCHANGED open

(* process_payment_callback *)

\* Mutant: a transaction that is COMPLETED already is not left alone.
FinishedNever(p) == FALSE

Finished(p) == txStatus[p] = "COMPLETED"

\* No such transaction (yet): the task ends and its Callback row stays unprocessed.
PspUnknown(w, t) ==
    /\ t.p \in Psp /\ txStatus[t.p] = "none"
    /\ Takes(w, t)
    /\ UNCHANGED <<payVars, txVars, bookVars, wireVars, open, work, faults>>

\* A result that books nothing is applied and its Callback row marked processed.
PspMarks(w, t) ==
    /\ t.p \in Psp /\ txStatus[t.p] # "none" /\ RowFree(t.p)
    /\ Takes(w, t)
    /\ open' = open \ {t}
    /\ UNCHANGED <<payVars, received, billed, bookVars, wireVars, work, faults>>

PspSkips(w, t) == Finished(t.p) /\ PspMarks(w, t) /\ UNCHANGED txStatus

PspUpdates(w, t) ==
    /\ ~Finished(t.p) /\ PspMarks(w, t)
    /\ \/ t.result = "failure" /\ Settle(t.p, "FAILED")
       \/ t.result = "pending" /\ Settle(t.p, "PENDING")

\* create_ledger_entry sums the entries that are committed when its query starts;
\* locking them does not keep other workers from adding entries.
PspApplies(w, t) ==
    /\ t.p \in Psp /\ txStatus[t.p] # "none" /\ RowFree(t.p)
    /\ ~Finished(t.p) /\ t.result = "success"
    /\ Takes(w, t)
    /\ Becomes(w, [pc |-> "writing", task |-> t,
                   balance |-> IF t.p \in Withdrawals THEN Balance(ledger) - 1
                               ELSE Balance(ledger) + 1])
    /\ UNCHANGED <<payVars, txVars, bookVars, wireVars, open, faults>>

\* Saving.amount is not touched.
PspCommits(w) ==
    /\ Completes(w) /\ Job(w).p \in Psp
    /\ Enters(w)
    /\ open' = open \ {Job(w)}
    /\ UNCHANGED <<received, savings, owed>>

\* The worker dies; its transaction is rolled back and its task is gone.
WorkerDies(w) ==
    /\ ~Is(w, "idle") /\ Fault
    /\ Becomes(w, Idle)
    /\ UNCHANGED <<payVars, txVars, bookVars, wireVars, open, queue>>

-----------------------------------------------------------------------------
Request(p) == Asks(p) \/ Records(p) \/ Refuses(p) \/ RequestDies(p)

Gateway ==
    \/ \E p \in Payments, end \in {"success", "short", "failure"} : Settles(p, end)
    \/ \E p \in Psp : ReportsPending(p)
    \/ \E p \in Payments : Redelivers(p)
    \/ \E p \in Stk : MarkerExpires(p)

Webhook(n) ==
    \/ StkDropsReplay(n)
    \/ StkEnqueues(n)
    \/ StkFails(n)
    \/ PspEnqueues(n)
    \/ PspBrokerDown(n)

Starts(w, t) ==
    \/ StkReads(w, t)
    \/ PspUnknown(w, t)
    \/ PspSkips(w, t)
    \/ PspUpdates(w, t)
    \/ PspApplies(w, t)

Continues(w) ==
    \/ StkSkips(w)
    \/ Is(w, "reading") /\ (StkFailed(w) \/ StkMismatch(w) \/ StkApplies(w))
    \/ StkRetries(w)
    \/ StkCommits(w)
    \/ PspCommits(w)

Next ==
    \/ \E p \in Payments : Request(p)
    \/ Gateway
    \/ \E n \in notices : Webhook(n)
    \/ \E p \in Psp : Reconciles(p)
    \/ \E w \in Workers : (\E t \in queue : Starts(w, t)) \/ Continues(w) \/ WorkerDies(w)

Spec == Init /\ [][Next]_vars

\* What keeps running by itself: an accepted payment gets its row and an end, an STK
\* result is repeated until it is taken, a worker finishes what it holds, and the
\* queue is first in first out, so that a task it offers again and again is taken.
\* Reconciliation is in no schedule, and no fault has to happen.
Fairness ==
    /\ \A p \in Stk :
          LET About == [p : {p}, result : Ends(p)]
          IN  /\ WF_vars(Records(p))
              /\ WF_vars(\E end \in Ends(p) : Settles(p, end))
              /\ WF_vars(\E n \in About : StkEnqueues(n))
              /\ SF_vars(\E n \in About, w \in Workers : StkReads(w, n))
    /\ \A w \in Workers : WF_vars(Continues(w))

FairSpec == Spec /\ Fairness

-----------------------------------------------------------------------------
(* Properties                                                              *)

Paid == {p \in Payments : gateway[p] \in {"success", "short"}}

\* Payments are booked as PaymentBook promises: the ledger entry, the credit of the
\* saving and the reduction of the loan happen together, once, and only for money
\* that moved, whatever is delivered twice, out of order, retried or lost.
Book == INSTANCE PaymentBook
          WITH paid <- Paid, booked <- Booked, Deposits <- StkDeposits,
               Repayments <- StkRepayments
BookedAsPromised == Book!Spec

\* SaccoSphere bills its fee for exactly the payments that are COMPLETED.
FeeMatchesCompletion == billed = {p \in Payments : txStatus[p] = "COMPLETED"}

\* COMPLETED is final: no late, repeated or reordered result and no reconciliation
\* takes a payment back that was booked.
CompletedIsFinal ==
    [][\A p \in Payments : txStatus[p] = "COMPLETED" => txStatus'[p] = "COMPLETED"]_vars

\* A success the PSP was answered 200 for is booked, or can still be found in an
\* unprocessed Callback row: neither an early callback nor a lost task hides it.
PspSuccessOnFile ==
    \A p \in Psp \cap Paid :
        LET n == [p |-> p, result |-> "success"]
        IN  txStatus[p] = "COMPLETED" \/ n \in notices \cup open

RunningSum(i) == ledger[i].after = Balance(SubSeq(ledger, 1, i))

\* While only STK deposits were booked, each entry's balance_after is the sum of
\* the entries up to it: the lock on the Saving row orders them.
DepositsKeepBalance ==
    \A i \in DOMAIN ledger :
        (\A j \in 1..i : ledger[j].p \in StkDeposits) => RunningSum(i)

\* Writes to one membership's ledger are serialized, so that balance_after is the
\* running balance (create_ledger_entry), for all that goes through it.
BalanceIsRunningSum ==
    (\A i \in DOMAIN ledger : ledger[i].p \notin StkRepayments)
        => \A i \in DOMAIN ledger : RunningSum(i)

\* An STK payment that was paid in full is booked in the end, and one that was not is
\* closed, unless a fault hit: the repetition after a 503, the unique reference and
\* the retry make up for early callbacks and for workers that get in each other's way.
StkPaymentSettles ==
    \A p \in Stk :
        gateway[p] \in Ends(p) ~>
            \/ txStatus[p] = CASE gateway[p] = "success" -> "COMPLETED"
                               [] gateway[p] = "short"   -> "AMOUNT_MISMATCH"
                               [] OTHER                  -> "FAILED"
            \/ faults > 0

\* Members cannot take out more than they have paid in.
WithdrawalsCovered ==
    Cardinality(Paid \cap Withdrawals) <= Cardinality(Paid \ Withdrawals)
=============================================================================

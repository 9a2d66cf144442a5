-------------------------- MODULE LoanDisbursement --------------------------
(***************************************************************************)
(* The life of one approved loan from the SACCO admin's decision to the    *)
(* member's answer "I received the money": admin requests, the two M-Pesa  *)
(* B2C disbursement endpoints, the payment provider, the B2C webhook with  *)
(* its replay marker, the Celery tasks that handle a callback, the         *)
(* confirmation link and the 24 hour auto-resolution.                      *)
(*                                                                         *)
(* One step is one database transaction, one message, or one read made     *)
(* outside a transaction.  Row-level locking is modelled by lock, the      *)
(* holder of the loan row between two steps; a step that writes the loan   *)
(* row needs it free.                                                      *)
(***************************************************************************)
EXTENDS Naturals, FiniteSets

CONSTANTS
    Attempts,        \* payment attempts (payments.Transaction rows) that can be created
    Admins,          \* concurrent requests of SACCO admins
    Endpoints,       \* the disbursement endpoints in use, see AllEndpoints
    InSession,       \* requests that carry a Django session beside their token
    LateGuarantors,  \* guarantors still PENDING when the loan is up for approval
    MaxFaults,       \* bound on crashes, lost tasks and outages
    NoTx,            \* loan.disbursement_transaction is NULL
    Nobody           \* the loan row is not locked

AllEndpoints == {"status", "b2c"}

ASSUME EndpointsAssumption == Endpoints \subseteq AllEndpoints
ASSUME InSessionAssumption == InSession \subseteq Admins
ASSUME NoTxAssumption == NoTx \notin Attempts
ASSUME NobodyAssumption == Nobody \notin Admins
ASSUME BoundsAssumption == LateGuarantors \in Nat /\ MaxFaults \in Nat

VARIABLES
    loanStatus, disbStatus, disbTx,     \* the loan row
    lock,                               \* request holding the loan row's lock
    pendingGuarantors,                  \* guarantor rows still PENDING
    path, txStatus, conv, received,     \* per attempt: the Transaction and MpesaTransaction rows
    ledger, invoice, audit,             \* LedgerEntry, InvoiceLineItem, DisbursementAuditLog
    payout,                             \* what the provider did with each attempt
    notices, accepted, enqueued,        \* callbacks: unanswered, answered 200, handed to a worker
    calls,                              \* callbacks the webhook is working on
    replay, parked,                     \* cache markers; Callback rows left for a retry
    queue, confirmReq,                  \* Celery tasks: callbacks, the confirmation request
    op, att,                            \* per admin request: where it is, the attempt it made
    link, auto,                         \* confirmation token; auto_resolve_disbursement task
    faults

loanVars   == <<loanStatus, disbStatus, disbTx>>
txVars     == <<path, txStatus, conv, received>>
bookVars   == <<ledger, invoice, audit>>
wireVars   == <<notices, accepted, enqueued, calls, replay, parked>>
taskVars   == <<queue, confirmReq>>
opVars     == <<op, att>>
answerVars == <<link, auto>>
vars == <<loanVars, lock, pendingGuarantors, txVars, bookVars, payout, wireVars,
          taskVars, opVars, answerVars, faults>>

LoanStatuses == {"PENDING", "PENDING_APPROVAL", "UNDER_REVIEW", "APPROVED",
                 "DISBURSEMENT_PENDING", "ACTIVE", "REJECTED"}
DisbStatuses == {"PENDING", "INITIATED", "DISBURSED", "MEMBER_CONFIRMED",
                 "AUTO_CONFIRMED", "DISPUTED", "FAILED", "UNDER_REVIEW"}
TxStatuses == {"none", "PENDING", "SENT", "COMPLETED", "FAILED"}
Events == {"LOAN_APPROVED", "B2C_INITIATED", "B2C_CALLBACK_RECEIVED",
           "DISBURSEMENT_FAILED", "MEMBER_NOTIFIED", "MEMBER_CONFIRMED",
           "MEMBER_DISPUTED", "AUTO_CONFIRMED", "ESCALATED_TO_SUPERADMIN"}

Confirmed == {"MEMBER_CONFIRMED", "AUTO_CONFIRMED"}
Answered  == Confirmed \cup {"DISPUTED"}

\* A B2C result for one attempt: ok stands for ResultCode 0.
Notices == [a : Attempts, ok : BOOLEAN]
\* A queued callback task: "disbursement" is on_disbursement_b2c_callback,
\* "b2c" is process_b2c_callback_task.
Tasks == [kind : {"disbursement", "b2c"}, a : Attempts, ok : BOOLEAN]

\* An admin request: idle; decided on a new status from an unlocked read;
\* inside DisbursementService.initiate after the provider accepted; or inside
\* initiate_b2c_loan_disbursement before, between and after its transactions.
Decisions == {"UNDER_REVIEW", "APPROVED", "REJECTED", "DISBURSED"}
Ops == {"idle"} \cup Decisions \cup {"initiated", "direct", "rows", "sent"}

TypeOK ==
    /\ loanStatus \in LoanStatuses
    /\ disbStatus \in DisbStatuses
    /\ disbTx \in Attempts \cup {NoTx}
    /\ lock \in Admins \cup {Nobody}
    /\ pendingGuarantors \in 0..LateGuarantors
    /\ path \in [Attempts -> {"none", "service", "direct"}]
    /\ txStatus \in [Attempts -> TxStatuses]
    /\ conv \in [Attempts -> BOOLEAN]
    /\ received \in [Attempts -> BOOLEAN]
    /\ ledger \subseteq Attempts
    /\ invoice \subseteq Attempts
    /\ audit \subseteq Events
    /\ payout \in [Attempts -> {"idle", "requested", "paid", "bounced"}]
    /\ notices \subseteq Notices
    /\ accepted \subseteq Notices
    /\ enqueued \subseteq Notices
    /\ calls \subseteq Notices
    /\ replay \subseteq Attempts
    /\ parked \subseteq Notices
    /\ queue \subseteq Tasks
    /\ confirmReq \in {"idle", "queued"}
    /\ op \in [Admins -> Ops]
    /\ att \in [Admins -> Attempts \cup {NoTx}]
    /\ link \in {"none", "live", "due", "expired"}
    /\ auto \in {"idle", "scheduled", "read"}
    /\ faults \in 0..MaxFaults

Init ==
    /\ loanStatus = "PENDING_APPROVAL" /\ disbStatus = "PENDING" /\ disbTx = NoTx
    /\ lock = Nobody
    /\ pendingGuarantors = LateGuarantors
    /\ path = [a \in Attempts |-> "none"]
    /\ txStatus = [a \in Attempts |-> "none"]
    /\ conv = [a \in Attempts |-> FALSE]
    /\ received = [a \in Attempts |-> FALSE]
    /\ ledger = {} /\ invoice = {} /\ audit = {}
    /\ payout = [a \in Attempts |-> "idle"]
    /\ notices = {} /\ accepted = {} /\ enqueued = {} /\ calls = {}
    /\ replay = {} /\ parked = {}
    /\ queue = {} /\ confirmReq = "idle"
    /\ op = [m \in Admins |-> "idle"]
    /\ att = [m \in Admins |-> NoTx]
    /\ link = "none" /\ auto = "idle"
    /\ faults = 0

Fault == faults < MaxFaults /\ faults' = faults + 1
Finish(m) == op' = [op EXCEPT ![m] = "idle"] /\ att' = [att EXCEPT ![m] = NoTx]
Goes(m, pc) == op' = [op EXCEPT ![m] = pc] /\ UNCHANGED att
Unused(a) == path[a] = "none" /\ payout[a] = "idle"

-----------------------------------------------------------------------------
(* PATCH /management/loans/<id>/ : AdminLoanApprovalView.partial_update    *)

\* _validate_transition, for the statuses a loan of this model can have.
MayMove(current, new) ==
    CASE new = "UNDER_REVIEW" -> current = "PENDING_APPROVAL"
      [] new = "APPROVED"     -> current = "UNDER_REVIEW"
      [] new = "REJECTED"     -> current \notin {"REJECTED", "ACTIVE"}
      [] new = "DISBURSED"    -> current = "APPROVED"

\* The loan is fetched without a lock and the transition validated on that read.
AdminReads(m, new) ==
    /\ op[m] = "idle"
    /\ new = "DISBURSED" => "status" \in Endpoints
    /\ MayMove(loanStatus, new)
    /\ Goes(m, new)
    /\ UNCHANGED <<loanVars, lock, pendingGuarantors, txVars, bookVars, payout,
                   wireVars, taskVars, answerVars, faults>>

\* The decided status is saved; the status it replaces is not looked at again.
AdminWrites(m) ==
    /\ op[m] \in Decisions \ {"DISBURSED"}
    /\ lock = Nobody
    /\ loanStatus' = op[m]
    /\ Finish(m)
    /\ UNCHANGED <<disbStatus, disbTx, lock, pendingGuarantors, txVars, bookVars,
                   payout, wireVars, taskVars, answerVars, faults>>

\* Mutant: the disbursement_status guard is dropped.
MayInitiateAgain == loanStatus = "APPROVED"

\* The guards of DisbursementService.initiate, under the row lock.
MayInitiate == loanStatus = "APPROVED" /\ disbStatus = "PENDING"

\* initiate raises ValueError, on a guard or because the provider refuses, and
\* everything its transaction wrote (the FAILED status too) is rolled back.
InitiateFails(m) ==
    /\ op[m] = "DISBURSED" /\ lock = Nobody
    /\ Finish(m)
    /\ UNCHANGED <<loanVars, lock, pendingGuarantors, txVars, bookVars, payout,
                   wireVars, taskVars, answerVars, faults>>

\* Mutant: the loan is read without select_for_update.
InitiateCallsUnlocked(m, a) ==
    /\ op[m] = "DISBURSED"
    /\ MayInitiate
    /\ Unused(a)
    /\ payout' = [payout EXCEPT ![a] = "requested"]
    /\ op' = [op EXCEPT ![m] = "initiated"]
    /\ att' = [att EXCEPT ![m] = a]
    /\ UNCHANGED <<loanVars, lock, pendingGuarantors, txVars, bookVars, wireVars,
                   taskVars, answerVars, faults>>

\* The provider accepts the payout while the transaction, and the lock, are open.
InitiateCalls(m, a) ==
    /\ op[m] = "DISBURSED" /\ lock = Nobody
    /\ MayInitiate
    /\ Unused(a)
    /\ lock' = m
    /\ payout' = [payout EXCEPT ![a] = "requested"]
    /\ op' = [op EXCEPT ![m] = "initiated"]
    /\ att' = [att EXCEPT ![m] = a]
    /\ UNCHANGED <<loanVars, pendingGuarantors, txVars, bookVars, wireVars, taskVars,
                   answerVars, faults>>

\* What the open transaction has written.
InitiateWrites(m) ==
    /\ op[m] = "initiated"
    /\ disbTx' = att[m]
    /\ disbStatus' = "INITIATED"
    /\ loanStatus' = "DISBURSEMENT_PENDING"
    /\ path' = [path EXCEPT ![att[m]] = "service"]
    /\ txStatus' = [txStatus EXCEPT ![att[m]] = "SENT"]
    /\ conv' = [conv EXCEPT ![att[m]] = TRUE]
    /\ audit' = audit \cup {"LOAN_APPROVED", "B2C_INITIATED"}
    /\ lock' = Nobody
    /\ Finish(m)
    /\ UNCHANGED <<pendingGuarantors, received, ledger, invoice, payout, wireVars,
                   queue, answerVars, faults>>

\* Mutant: the member is asked for a confirmation when the payout is initiated.
InitiateCommitsAndAsks(m) == InitiateWrites(m) /\ confirmReq' = "queued"

\* The transaction commits: only now do the attempt and its conversation id exist.
InitiateCommits(m) == InitiateWrites(m) /\ UNCHANGED confirmReq

\* The worker dies, or the provider's answer is lost, before the commit: the
\* payout was asked for and no row remembers it.
InitiateCrashes(m) ==
    /\ op[m] = "initiated" /\ Fault
    /\ lock' = Nobody
    /\ Finish(m)
    /\ UNCHANGED <<loanVars, pendingGuarantors, txVars, bookVars, payout, wireVars,
                   taskVars, answerVars>>

-----------------------------------------------------------------------------
(* POST /payments/b2c/ : B2CDisbursementView, initiate_b2c_loan_disbursement *)

\* request.current_sacco.  SaccoContextMiddleware runs before the token is looked at,
\* so it finds a SACCO only for a request that carries a Django session as well, of a
\* SACCO admin who is not staff.
HasSacco(m) == m \in InSession

\* Without a SACCO the view answers 400.  An unlocked read of loan.status;
\* loan.disbursement_status is not consulted.
DirectReads(m) ==
    /\ "b2c" \in Endpoints
    /\ HasSacco(m)
    /\ op[m] = "idle"
    /\ loanStatus = "APPROVED"
    /\ Goes(m, "direct")
    /\ UNCHANGED <<loanVars, lock, pendingGuarantors, txVars, bookVars, payout,
                   wireVars, taskVars, answerVars, faults>>

\* First transaction: the rows of the attempt, without a conversation id.
DirectCreates(m, a) ==
    /\ op[m] = "direct" /\ lock = Nobody
    /\ Unused(a)
    /\ path' = [path EXCEPT ![a] = "direct"]
    /\ txStatus' = [txStatus EXCEPT ![a] = "PENDING"]
    /\ loanStatus' = "DISBURSEMENT_PENDING"
    /\ op' = [op EXCEPT ![m] = "rows"]
    /\ att' = [att EXCEPT ![m] = a]
    /\ UNCHANGED <<disbStatus, disbTx, lock, pendingGuarantors, conv, received,
                   bookVars, payout, wireVars, taskVars, answerVars, faults>>

\* _mark_b2c_attempt_failed, on any DarajaError.
MarkAttemptFailed(m) ==
    /\ op[m] = "rows" /\ lock = Nobody
    /\ txStatus' = [txStatus EXCEPT ![att[m]] = "FAILED"]
    /\ loanStatus' = "APPROVED"
    /\ Finish(m)
    /\ UNCHANGED <<disbStatus, disbTx, lock, pendingGuarantors, path, conv, received,
                   bookVars, wireVars, taskVars, answerVars>>

DirectRefused(m) == MarkAttemptFailed(m) /\ UNCHANGED <<payout, faults>>

\* A timeout of the HTTP call is a DarajaError too, although Daraja accepted.
DirectTimesOut(m) ==
    /\ MarkAttemptFailed(m) /\ Fault
    /\ payout' = [payout EXCEPT ![att[m]] = "requested"]

DirectAccepted(m) ==
    /\ op[m] = "rows"
    /\ payout' = [payout EXCEPT ![att[m]] = "requested"]
    /\ Goes(m, "sent")
    /\ UNCHANGED <<loanVars, lock, pendingGuarantors, txVars, bookVars, wireVars,
                   taskVars, answerVars, faults>>

\* Mutant: the loan becomes ACTIVE when Daraja accepts the request.
DirectRecordsActive(m) ==
    /\ op[m] = "sent" /\ lock = Nobody
    /\ txStatus' = [txStatus EXCEPT ![att[m]] = "SENT"]
    /\ conv' = [conv EXCEPT ![att[m]] = TRUE]
    /\ loanStatus' = "ACTIVE"
    /\ Finish(m)
    /\ UNCHANGED <<disbStatus, disbTx, lock, pendingGuarantors, path, received,
                   bookVars, payout, wireVars, taskVars, answerVars, faults>>

\* Second transaction: the conversation id the webhook looks up.
DirectRecords(m) ==
    /\ op[m] = "sent"
    /\ txStatus' = [txStatus EXCEPT ![att[m]] = "SENT"]
    /\ conv' = [conv EXCEPT ![att[m]] = TRUE]
    /\ Finish(m)
    /\ UNCHANGED <<loanVars, lock, pendingGuarantors, path, received, bookVars, payout,
                   wireVars, taskVars, answerVars, faults>>

DirectCrashes(m) ==
    /\ op[m] \in {"rows", "sent"} /\ Fault
    /\ Finish(m)
    /\ UNCHANGED <<loanVars, lock, pendingGuarantors, txVars, bookVars, payout,
                   wireVars, taskVars, answerVars>>

-----------------------------------------------------------------------------
(* POST /loans/<id>/guarantors/<gid>/respond/ : GuarantorRespondView       *)

\* The answer of a guarantor whose request is still PENDING writes loan.status
\* whatever it is by now: PENDING_APPROVAL when enough have approved, PENDING on
\* a decline, and nothing while approvals are short of min_guarantors.
GuarantorResponds(new) ==
    /\ pendingGuarantors > 0
    /\ new = loanStatus \/ lock = Nobody
    /\ new \in {"PENDING_APPROVAL", "PENDING", loanStatus}
    /\ pendingGuarantors' = pendingGuarantors - 1
    /\ loanStatus' = new
    /\ UNCHANGED <<disbStatus, disbTx, lock, txVars, bookVars, payout, wireVars,
                   taskVars, opVars, answerVars, faults>>

-----------------------------------------------------------------------------
(* The provider, and the webhook it calls: B2CCallbackView.post            *)

\* The provider settles a payout and starts calling the webhook with the result.
ProviderSettles(a, ok) ==
    /\ payout[a] = "requested"
    /\ payout' = [payout EXCEPT ![a] = IF ok THEN "paid" ELSE "bounced"]
    /\ notices' = notices \cup {[a |-> a, ok |-> ok]}
    /\ UNCHANGED <<loanVars, lock, pendingGuarantors, txVars, bookVars, accepted,
                   enqueued, calls, replay, parked, taskVars, opVars, answerVars, faults>>

\* A result that was answered 200 is delivered a second time.
ProviderRedelivers(n) ==
    /\ n \in accepted
    /\ notices' = notices \cup {n}
    /\ UNCHANGED <<loanVars, lock, pendingGuarantors, txVars, bookVars, payout, accepted,
                   enqueued, calls, replay, parked, taskVars, opVars, answerVars, faults>>

\* The cache entry of is_replay_attack lives 24 hours (or is evicted).
ReplayMarkerExpires(a) ==
    /\ a \in replay
    /\ replay' = replay \ {a}
    /\ UNCHANGED <<loanVars, lock, pendingGuarantors, txVars, bookVars, payout, notices,
                   accepted, enqueued, calls, parked, taskVars, opVars, answerVars, faults>>

Acknowledges(n) == notices' = notices \ {n} /\ accepted' = accepted \cup {n}

\* Marker present: answered 200, nothing else happens.
DropsReplay(n) ==
    /\ n \in notices /\ n.a \in replay
    /\ Acknowledges(n)
    /\ UNCHANGED <<loanVars, lock, pendingGuarantors, txVars, bookVars, payout, enqueued,
                   calls, replay, parked, taskVars, opVars, answerVars>>

\* The provider calls again after its call was answered; or, a fault, it gives up a
\* call that the webhook is still working on.
WebhookDropsReplay(n) == n \notin calls /\ DropsReplay(n) /\ UNCHANGED faults
WebhookDropsSecondCall(n) == n \in calls /\ DropsReplay(n) /\ Fault

\* No marker: it is set, before anything is looked up.
WebhookEnters(n) ==
    /\ n \in notices \ calls /\ n.a \notin replay
    /\ calls' = calls \cup {n}
    /\ replay' = replay \cup {n.a}
    /\ UNCHANGED <<loanVars, lock, pendingGuarantors, txVars, bookVars, payout, notices,
                   accepted, enqueued, parked, taskVars, opVars, answerVars, faults>>

\* Mutant: an unknown conversation is answered 200 and forgotten.
WebhookForgets(n) ==
    /\ n \in calls /\ ~conv[n.a]
    /\ calls' = calls \ {n}
    /\ Acknowledges(n)
    /\ UNCHANGED <<loanVars, lock, pendingGuarantors, txVars, bookVars, payout, enqueued,
                   replay, parked, taskVars, opVars, answerVars, faults>>

\* No row has the conversation id (yet), or the broker is down: the payload is
\* kept in a Callback row and 503 asks for a retry.
Parks(n) ==
    /\ n \in calls
    /\ calls' = calls \ {n}
    /\ parked' = parked \cup {n}
    /\ UNCHANGED <<loanVars, lock, pendingGuarantors, txVars, bookVars, payout, notices,
                   accepted, enqueued, taskVars, opVars, answerVars>>

\* Mutant: the replay marker set on entry is not cleared.
WebhookParksMarked(n) == Parks(n) /\ UNCHANGED replay

\* The marker is cleared, so that the retry is let in.
WebhookParks(n) == Parks(n) /\ replay' = replay \ {n.a}

WebhookUnknown(n) == ~conv[n.a] /\ WebhookParks(n) /\ UNCHANGED faults
WebhookBrokerDown(n) == conv[n.a] /\ WebhookParks(n) /\ Fault

\* Row found: the task is chosen by loan.disbursement_transaction.
WebhookEnqueues(n) ==
    /\ n \in calls /\ conv[n.a]
    /\ calls' = calls \ {n}
    /\ Acknowledges(n)
    /\ enqueued' = enqueued \cup {n}
    /\ queue' = queue \cup
         {[kind |-> IF disbTx # NoTx THEN "disbursement" ELSE "b2c", a |-> n.a, ok |-> n.ok]}
    /\ UNCHANGED <<loanVars, lock, pendingGuarantors, txVars, bookVars, payout, replay,
                   parked, confirmReq, opVars, answerVars, faults>>

\* The outer except: 503 (or no answer) with the marker left behind.
WebhookFails(n) ==
    /\ n \in calls /\ Fault
    /\ calls' = calls \ {n}
    /\ UNCHANGED <<loanVars, lock, pendingGuarantors, txVars, bookVars, payout, notices,
                   accepted, enqueued, replay, parked, taskVars, opVars, answerVars>>

-----------------------------------------------------------------------------
(* Celery: services.on_disbursement_b2c_callback                           *)

Takes(t) == t \in queue /\ queue' = queue \ {t}

\* Already DISBURSED or confirmed: return.  A second LedgerEntry with the same
\* reference: IntegrityError, rollback, and the task is not retried.
CallbackHasNoEffect(t) ==
    /\ t.kind = "disbursement" /\ t.ok /\ lock = Nobody
    /\ disbStatus \in Confirmed \cup {"DISBURSED"} \/ disbTx \in ledger
    /\ Takes(t)
    /\ UNCHANGED <<loanVars, lock, pendingGuarantors, txVars, bookVars, payout,
                   wireVars, confirmReq, opVars, answerVars, faults>>

\* What a callback that counts writes.  The transaction credited is
\* loan.disbursement_transaction, not the one named by the callback.
Disburse(t, status) ==
    /\ t.kind = "disbursement" /\ lock = Nobody
    /\ disbStatus \notin Confirmed \cup {"DISBURSED"}
    /\ disbTx \notin ledger
    /\ Takes(t)
    /\ disbStatus' = "DISBURSED"
    /\ loanStatus' = status
    /\ txStatus' = [txStatus EXCEPT ![disbTx] = "COMPLETED"]
    /\ audit' = audit \cup {"B2C_CALLBACK_RECEIVED"}
    /\ ledger' = ledger \cup {disbTx}
    /\ confirmReq' = "queued"
    /\ UNCHANGED <<disbTx, lock, pendingGuarantors, path, conv, received, payout,
                   wireVars, opVars, answerVars, faults>>

\* Mutants: another status is written; the result code is not looked at; the fee
\* is recorded when the callback arrives.
CallbackDisbursesOther(t) == t.ok /\ Disburse(t, "DISBURSED") /\ UNCHANGED invoice
CallbackDisbursesAny(t) == Disburse(t, "ACTIVE") /\ UNCHANGED invoice
CallbackDisbursesWithFee(t) ==
    t.ok /\ Disburse(t, "ACTIVE") /\ invoice' = invoice \cup {disbTx}

CallbackDisburses(t) == t.ok /\ Disburse(t, "ACTIVE") /\ UNCHANGED invoice

\* What a failure result writes, whatever the loan's state is.
FailDisbursement(t) ==
    /\ t.kind = "disbursement" /\ lock = Nobody
    /\ Takes(t)
    /\ disbStatus' = "FAILED"
    /\ loanStatus' = "APPROVED"
    /\ txStatus' = [txStatus EXCEPT ![disbTx] = "FAILED"]
    /\ audit' = audit \cup {"DISBURSEMENT_FAILED"}
    /\ UNCHANGED <<disbTx, lock, pendingGuarantors, path, conv, received, ledger,
                   invoice, payout, wireVars, confirmReq, opVars, answerVars, faults>>

\* Mutant: the result code "0" is not normalised to 0.
CallbackFailsOnText(t) == FailDisbursement(t)

CallbackFails(t) == ~t.ok /\ FailDisbursement(t)

(* Celery: payments.tasks.process_b2c_callback                             *)

\* _callback_already_processed
AlreadyProcessed(a) == received[a] /\ txStatus[a] \in {"COMPLETED", "FAILED"}

B2CSkips(t) ==
    /\ t.kind = "b2c" /\ AlreadyProcessed(t.a)
    /\ Takes(t)
    /\ UNCHANGED <<loanVars, lock, pendingGuarantors, txVars, bookVars, payout,
                   wireVars, confirmReq, opVars, answerVars, faults>>

\* The loan follows the attempt; loan.disbursement_status is not touched.
ApplyResult(t, ok, entry) ==
    /\ t.kind = "b2c" /\ ~AlreadyProcessed(t.a) /\ lock = Nobody
    /\ Takes(t)
    /\ received' = [received EXCEPT ![t.a] = TRUE]
    /\ txStatus' = [txStatus EXCEPT ![t.a] = IF ok THEN "COMPLETED" ELSE "FAILED"]
    /\ loanStatus' = IF ok THEN "ACTIVE" ELSE "APPROVED"
    /\ ledger' = ledger \cup entry
    /\ UNCHANGED <<disbStatus, disbTx, lock, pendingGuarantors, path, conv, invoice,
                   audit, payout, wireVars, confirmReq, opVars, answerVars, faults>>

Entry(t) == IF t.ok THEN {t.a} ELSE {}

\* Mutants: the result code is not normalised; a loan that is ACTIVE already gets
\* no second ledger entry.
B2CProcessesText(t) == ApplyResult(t, FALSE, {})
B2CProcessesOnce(t) == ApplyResult(t, t.ok, IF loanStatus = "ACTIVE" THEN {} ELSE Entry(t))

B2CProcesses(t) == ApplyResult(t, t.ok, Entry(t))

\* Early acknowledgement: a worker that dies takes its task with it.
TaskLost ==
    /\ Fault
    /\ UNCHANGED <<loanVars, lock, pendingGuarantors, txVars, bookVars, payout,
                   wireVars, opVars, link>>

CallbackLost(t) == TaskLost /\ Takes(t) /\ UNCHANGED <<confirmReq, auto>>
ConfirmationLost == TaskLost /\ confirmReq = "queued" /\ confirmReq' = "idle" /\ UNCHANGED <<queue, auto>>
TimerLost == TaskLost /\ auto # "idle" /\ auto' = "idle" /\ UNCHANGED taskVars

-----------------------------------------------------------------------------
(* services.send_disbursement_confirmation_request and the member's answer *)

AskMember ==
    /\ confirmReq = "queued" /\ lock = Nobody
    /\ confirmReq' = "idle"
    /\ link' = "live"
    /\ audit' = audit \cup {"MEMBER_NOTIFIED"}
    /\ UNCHANGED <<loanVars, lock, pendingGuarantors, txVars, ledger, invoice, payout,
                   wireVars, queue, opVars, faults>>

\* Mutant: auto_resolve_disbursement is not scheduled.
SendConfirmationOnly == AskMember /\ UNCHANGED auto

SendConfirmation == AskMember /\ auto' = "scheduled"

\* 24 hours after the link was signed auto_resolve runs and the token expires;
\* while "due", a request whose token was checked in time may still be running.
DayPasses ==
    /\ \/ link = "live" /\ link' = "due"
       \/ link = "due" /\ link' = "expired"
    /\ UNCHANGED <<loanVars, lock, pendingGuarantors, txVars, bookVars, payout,
                   wireVars, taskVars, opVars, auto, faults>>

\* Saving status, audit row and invoice line is one transaction: a duplicate
\* InvoiceLineItem marks it for rollback although the IntegrityError is caught,
\* so nothing changes then.  The guard leaves that case out.
RecordInvoiceItem == disbTx \notin invoice /\ invoice' = invoice \cup {disbTx}

\* ConfirmDisbursementView.get
MemberConfirms ==
    /\ link \in {"live", "due"} /\ lock = Nobody
    /\ disbStatus \notin Answered
    /\ disbStatus' = "MEMBER_CONFIRMED"
    /\ audit' = audit \cup {"MEMBER_CONFIRMED"}
    /\ RecordInvoiceItem
    /\ UNCHANGED <<loanStatus, disbTx, lock, pendingGuarantors, txVars, ledger, payout,
                   wireVars, taskVars, opVars, answerVars, faults>>

\* DisputeDisbursementView.get
MemberDisputes ==
    /\ link \in {"live", "due"} /\ lock = Nobody
    /\ disbStatus \notin Answered
    /\ disbStatus' = "DISPUTED"
    /\ audit' = audit \cup {"MEMBER_DISPUTED", "ESCALATED_TO_SUPERADMIN"}
    /\ UNCHANGED <<loanStatus, disbTx, lock, pendingGuarantors, txVars, ledger, invoice,
                   payout, wireVars, taskVars, opVars, answerVars, faults>>

\* auto_resolve_disbursement reads the loan without a lock and asks the provider.
AutoReads ==
    /\ auto = "scheduled" /\ link \in {"due", "expired"}
    /\ auto' = IF disbStatus \in Answered THEN "idle" ELSE "read"
    /\ UNCHANGED <<loanVars, lock, pendingGuarantors, txVars, bookVars, payout,
                   wireVars, taskVars, opVars, link, faults>>

\* "Delivered", but the member answered in the meantime: return.  (Or the line item
\* exists already and the transaction is rolled back, as for RecordInvoiceItem.)
AutoYields ==
    /\ auto = "read" /\ payout[disbTx] = "paid" /\ lock = Nobody
    /\ disbStatus \in Answered \/ disbTx \in invoice
    /\ auto' = "idle"
    /\ UNCHANGED <<loanVars, lock, pendingGuarantors, txVars, bookVars, payout,
                   wireVars, taskVars, opVars, link, faults>>

AutoConfirm ==
    /\ auto = "read" /\ payout[disbTx] = "paid" /\ lock = Nobody
    /\ auto' = "idle"
    /\ disbStatus' = "AUTO_CONFIRMED"
    /\ audit' = audit \cup {"AUTO_CONFIRMED"}
    /\ RecordInvoiceItem
    /\ UNCHANGED <<loanStatus, disbTx, lock, pendingGuarantors, txVars, ledger, payout,
                   wireVars, taskVars, opVars, link, faults>>

\* Mutant: the status is not read again under the lock.
AutoConfirmsBlindly == AutoConfirm

AutoConfirms == disbStatus \notin Answered /\ AutoConfirm

\* The provider cannot confirm: escalated, without looking at the status again.
AutoEscalates ==
    /\ auto = "read" /\ lock = Nobody
    /\ auto' = "idle"
    /\ disbStatus' = "UNDER_REVIEW"
    /\ audit' = audit \cup {"ESCALATED_TO_SUPERADMIN"}
    /\ UNCHANGED <<loanStatus, disbTx, lock, pendingGuarantors, txVars, ledger, invoice,
                   payout, wireVars, taskVars, opVars, link, faults>>

-----------------------------------------------------------------------------
AdminRequest(m) ==
    \/ \E new \in Decisions : AdminReads(m, new)
    \/ AdminWrites(m)
    \/ InitiateFails(m)
    \/ \E a \in Attempts : InitiateCalls(m, a)
    \/ InitiateCommits(m)
    \/ InitiateCrashes(m)
    \/ DirectReads(m)
    \/ \E a \in Attempts : DirectCreates(m, a)
    \/ DirectRefused(m)
    \/ DirectTimesOut(m)
    \/ DirectAccepted(m)
    \/ DirectRecords(m)
    \/ DirectCrashes(m)

Webhook(n) ==
    \/ WebhookDropsReplay(n)
    \/ WebhookDropsSecondCall(n)
    \/ WebhookEnters(n)
    \/ WebhookUnknown(n)
    \/ WebhookBrokerDown(n)
    \/ WebhookEnqueues(n)
    \/ WebhookFails(n)

Worker(t) ==
    \/ CallbackHasNoEffect(t)
    \/ CallbackDisburses(t)
    \/ CallbackFails(t)
    \/ B2CSkips(t)
    \/ B2CProcesses(t)

Provider ==
    \/ \E a \in Attempts, ok \in BOOLEAN : ProviderSettles(a, ok)
    \/ \E n \in accepted : ProviderRedelivers(n)
    \/ \E a \in Attempts : ReplayMarkerExpires(a)

AutoResolve == AutoReads \/ AutoYields \/ AutoConfirms \/ AutoEscalates

Next ==
    \/ \E m \in Admins : AdminRequest(m)
    \/ \E new \in LoanStatuses : GuarantorResponds(new)
    \/ Provider
    \/ \E n \in notices \cup calls : Webhook(n)
    \/ \E t \in queue : Worker(t) \/ CallbackLost(t)
    \/ ConfirmationLost
    \/ TimerLost
    \/ SendConfirmation
    \/ DayPasses
    \/ MemberConfirms
    \/ MemberDisputes
    \/ AutoResolve

Spec == Init /\ [][Next]_vars

\* What keeps running by itself: open transactions commit, the provider settles
\* what it accepted and calls again until it is answered 200, workers take tasks
\* off the queue, timers fire.  Admins, guarantors and the member owe nothing, and
\* no fault has to happen.
Fairness ==
    /\ \A m \in Admins : WF_vars(InitiateCommits(m)) /\ WF_vars(DirectRecords(m))
    /\ \A a \in Attempts : WF_vars(\E ok \in BOOLEAN : ProviderSettles(a, ok))
    /\ \A n \in Notices : WF_vars(WebhookEnters(n)) /\ WF_vars(WebhookEnqueues(n))
    /\ \A t \in Tasks : WF_vars(Worker(t))
    /\ WF_vars(SendConfirmation)
    /\ WF_vars(DayPasses)
    /\ WF_vars(AutoResolve)

FairSpec == Spec /\ Fairness

-----------------------------------------------------------------------------
(* Properties                                                              *)

Paid == {a \in Attempts : payout[a] = "paid"}
ServiceAttempts == {a \in Attempts : path[a] = "service"}

\* A loan becomes ACTIVE (repayable, interest-bearing) only after the provider
\* really paid some attempt of it, whichever endpoint asked, however often
\* callbacks are redelivered and whatever an admin or a guarantor wrote meanwhile.
ActiveLoanWasPaid == loanStatus = "ACTIVE" => Paid # {}

\* DisbursementService commits at most one attempt for a loan: the row lock and
\* the disbursement_status guard leave no interleaving of admins that adds another.
ServiceInitiatesOnce ==
    \A a, b \in ServiceAttempts : a = b

\* Money leaves more than once only if a fault hit in between: each payout beyond
\* the first is paid for by a crash between the provider's yes and the commit.
PaidTwiceOnlyByFault == Cardinality(Paid) <= 1 + faults

\* SaccoSphere bills its fee only for a transaction that reached the member
\* (_record_disbursement_invoice_item, InvoiceLineItem).
FeeOnlyForDeliveredMoney == invoice \subseteq Paid

\* Fee and confirmation stand or fall together: a line item exists exactly when
\* the receipt was confirmed, by the member or by the timer, and there is one.
FeeMatchesConfirmation ==
    /\ invoice # {} <=> audit \cap Confirmed # {}
    /\ Cardinality(invoice) <= 1

\* The timer never answers for a member who answered: an automatic confirmation
\* excludes a confirmation and a dispute by the member, before and after.
AutoConfirmStandsAlone ==
    "AUTO_CONFIRMED" \in audit =>
        audit \cap {"MEMBER_CONFIRMED", "MEMBER_DISPUTED"} = {}

\* A transaction recorded as FAILED did not pay the member, unless a fault hid the
\* provider's answer: a result is never applied with the wrong sign, twice, or to
\* an attempt that had already been paid.
FailedWasNotPaid ==
    \A a \in Paid : txStatus[a] = "FAILED" => faults > 0

\* The ledger shows a disbursement exactly when its transaction is COMPLETED.
LedgerMatchesCompletion == ledger = {a \in Attempts : txStatus[a] = "COMPLETED"}

\* A result the provider was told to stop sending is with a worker, or kept in a
\* Callback row; each one that is neither was lost by a fault, the marker that an
\* unexpected error leaves behind or a second call that it turned away.
Lost == {a \in Attempts : \E n \in accepted : n.a = a /\ n \notin enqueued \cup parked}
LostOnlyByFault == Cardinality(Lost) <= faults

\* Every payout is booked in the end, unless a fault hit: the retry after a 503
\* and the cleared replay marker make up for a callback that comes too early.
PaymentSettles ==
    \A a \in Attempts :
        payout[a] = "paid" ~> txStatus[a] = "COMPLETED" \/ faults > 0

\* A disbursed loan does not wait for its answer for ever: the member, the timer
\* or an escalation ends it, unless a fault hit.
DisbursementGetsAnswer ==
    disbStatus = "DISBURSED" ~> disbStatus # "DISBURSED" \/ faults > 0

-----------------------------------------------------------------------------
(* The inductive invariant behind the theorems of LoanDisbursementProofs.   *)

\* Who is inside initiate holds the loan row.
LockInv == \A m \in Admins : op[m] = "initiated" => lock = m

\* The attempt of a request in flight: the first of the service and asked for while
\* initiate runs, its own and not asked for while the direct endpoint is to call.
AttemptInv ==
    \A m \in Admins :
        /\ op[m] \in {"initiated", "rows", "sent"} => att[m] \in Attempts
        /\ op[m] = "initiated" => disbStatus = "PENDING" /\ payout[att[m]] # "idle"
        /\ op[m] = "rows" => path[att[m]] = "direct" /\ payout[att[m]] = "idle"
        /\ \A k \in Admins :
              op[m] = "rows" /\ op[k] = "rows" /\ k # m => att[k] # att[m]

\* disbursement_status leaves PENDING with the first service attempt, for good.
ServiceInv ==
    /\ disbStatus = "PENDING" => disbTx = NoTx
    /\ \A a \in ServiceAttempts : a = disbTx

\* Whoever goes on to use loan.disbursement_transaction finds one.
TaskInv ==
    /\ \A t \in queue : t.kind = "disbursement" => disbTx # NoTx
    /\ confirmReq = "queued" \/ link # "none" \/ auto # "idle" => disbTx # NoTx

\* A success result, on the wire or in the queue, tells of money that was paid.
ResultInv ==
    /\ calls \subseteq notices \cup accepted
    /\ \A n \in notices \cup accepted : n.ok => payout[n.a] = "paid"
    /\ \A t \in queue : t.ok => payout[t.a] = "paid"

IInv == TypeOK /\ LockInv /\ AttemptInv /\ ServiceInv /\ TaskInv /\ ResultInv
             /\ ActiveLoanWasPaid

\* The direct endpoint is not in use, or serves no request for want of a session.
DirectUnused == "b2c" \notin Endpoints \/ InSession = {}

\* With the direct endpoint unused, every result is about the one transaction of
\* the loan, and whoever asks for or gives a confirmation does so after payment.
StatusInv ==
    /\ \A m \in Admins : op[m] \notin {"direct", "rows", "sent"}
    /\ \A a \in Attempts : conv[a] => path[a] = "service"
    /\ \A t \in queue : t.a = disbTx
    /\ confirmReq = "queued" \/ link # "none" \/ auto # "idle" => disbTx \in Paid
    /\ FeeOnlyForDeliveredMoney

\* The fee is for loan.disbursement_transaction, and comes with a confirmation.
FeeInv ==
    /\ invoice \subseteq {disbTx}
    /\ invoice # {} <=> audit \cap Confirmed # {}

\* The rest, like StatusInv, holds with the direct endpoint unused.  What the
\* books say of an attempt is what the provider said of it.
OutcomeInv ==
    /\ \A n \in notices \cup accepted : ~n.ok => payout[n.a] = "bounced"
    /\ \A t \in queue : ~t.ok => payout[t.a] = "bounced"
    /\ ledger \subseteq {disbTx} \cap Paid
    /\ \A a \in Attempts : txStatus[a] = "FAILED" => payout[a] = "bounced"
    /\ LedgerMatchesCompletion

\* With DisbursementService unused, no loan has a disbursement transaction.  What a
\* request of the direct endpoint has in flight is its own, not answered yet, and its
\* answer is found only by the conversation id that the second transaction wrote.
FlightInv ==
    \A m \in Admins : op[m] \in {"rows", "sent"} =>
        /\ att[m] \in Attempts
        /\ path[att[m]] = "direct" /\ ~conv[att[m]] /\ txStatus[att[m]] = "PENDING"
        /\ \A k \in Admins \ {m} : op[k] \in {"rows", "sent"} => att[k] # att[m]

\* A result reaches the books once, through its conversation id, with its own sign.
DirectInv ==
    /\ disbTx = NoTx
    /\ \A m \in Admins : op[m] \notin {"DISBURSED", "initiated"}
    /\ FlightInv
    /\ \A t \in queue : conv[t.a]
    /\ \A a \in Attempts : /\ conv[a] => path[a] # "none"
                           /\ received[a] => conv[a]
                           /\ txStatus[a] = "COMPLETED" => received[a]
                           /\ txStatus[a] = "FAILED" /\ faults = 0
                                => payout[a] \in {"idle", "bounced"}
    /\ \A n \in notices \cup accepted : ~n.ok => payout[n.a] = "bounced"
    /\ \A t \in queue : ~t.ok => payout[t.a] = "bounced"
    /\ LedgerMatchesCompletion

\* The member is asked once, after the payout was booked; the timer is not set
\* again after it has answered, nor after a dispute.
TimerInv ==
    /\ confirmReq = "queued" \/ link # "none" \/ auto # "idle" => disbTx \in ledger
    /\ confirmReq = "queued" => link = "none" /\ auto = "idle"
    /\ audit \cap {"AUTO_CONFIRMED", "MEMBER_DISPUTED"} # {}
         => disbTx \in ledger /\ confirmReq = "idle"
    /\ "AUTO_CONFIRMED" \in audit => disbStatus = "AUTO_CONFIRMED" /\ auto = "idle"
    /\ "MEMBER_DISPUTED" \in audit => disbStatus = "DISPUTED" \/ auto = "idle"
    /\ AutoConfirmStandsAlone

\* There is one result per attempt.  A marker that no open call has set, and an answer
\* 200, say that the result is kept, or else stand for a fault each.
Unkept ==
    {a \in Attempts :
        /\ \/ a \in replay /\ \A n \in calls : n.a # a
           \/ \E n \in accepted : n.a = a
        /\ \A n \in enqueued \cup parked : n.a # a}

NoticeInv ==
    /\ \A n \in notices \cup accepted \cup enqueued \cup calls \cup parked :
          payout[n.a] = IF n.ok THEN "paid" ELSE "bounced"
    /\ IsFiniteSet(Unkept)
    /\ Cardinality(Unkept) <= faults

\* Every attempt the provider was asked to pay, but the one of the loan or of the
\* request that holds its row, stands for a fault.
Asked == {a \in Attempts : payout[a] # "idle"}
AskedInv ==
    /\ IsFiniteSet(Asked)
    /\ Cardinality(Asked) <= faults + (IF disbTx # NoTx \/ lock # Nobody THEN 1 ELSE 0)
=============================================================================

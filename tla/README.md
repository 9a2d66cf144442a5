# SaccoSphere in TLA+

SaccoSphere (`src/saccosphere-project`) is a Django service for savings and
credit cooperatives (SACCOs): members save, borrow with guarantors and repay
through M-Pesa or a payment service provider (PSP); SACCO admins decide; Celery
workers handle provider callbacks; SaccoSphere bills each SACCO a fee. This
directory holds specifications of the parts where money and decisions depend on
the order of concurrent requests, messages and tasks, the configurations that
check them with TLC, and proofs checked by TLAPS. Paths below are relative to
`src/saccosphere-project`.

## 1. The system

### Parts, state, operations

| Part | State | Operations | What makes it correct |
|---|---|---|---|
| **Loan disbursement and confirmation** (`services/disbursement_service.py`, `payments/disbursements.py`, `payments/views.py`, `services/tasks.py`, `services/views.py`, `saccomanagement/admin_views.py`) | `Loan.status`, `disbursement_status`, `disbursement_transaction`; `Transaction`, `MpesaTransaction`; `DisbursementAuditLog`; replay markers in the cache; Celery queue | admin status endpoint, direct B2C endpoint, B2C webhook, two callback tasks, confirmation request, confirm and dispute links, 24 h auto-resolution | money leaves once; a loan is ACTIVE only if it was paid; the ledger, the transaction and the fee agree; the member's answer stands; each payout ends up booked |
| **Collections** (`payments/views.py`, `payments/tasks.py`, `payments/serializers.py`) | `Transaction`, `Callback`, `Saving.amount`, `RepaymentSchedule`, `LedgerEntry`, `InvoiceLineItem` | STK push, PSP deposit and withdrawal, their webhooks, two callback tasks, reconciliation | a payment is booked once, with all its effects, and only if the money moved |
| **Ledger** (`ledger/utils.py`) | `LedgerEntry` with a running `balance_after` | `create_ledger_entry`, and the entries the STK task writes itself (`payments/tasks.py:693`, `:775`) | the stored balance is the sum of the entries |
| **Guarantors** (`services/views.py`, `services/engines/guarantor_logic.py`, `services/signals.py`, `guarantor/`) | `Guarantor`, `GuaranteeCapacity`, `ExternalGuarantor`, `Loan.status` | search, request, answer; outsider named, SMS, link, review; cover check at approval | no loan is reviewed without its approvals or approved without cover; an answer closes its request |
| **Loan applications, memberships, limits** (`services/views.py`, `services/engines/loan_limits.py`, `saccomembership/`) | `Membership`, `SaccoApplication` and its files, `Loan` | apply for membership, review, leave; apply for a loan against the limit | a loan is within what its application's queries allowed |
| **Schedules and repayments** (`services/engines/amortization.py`, `payments/tasks.py`) | `RepaymentSchedule`, `Loan.outstanding_balance` | generate on approval or on first look, pay instalments | the schedule adds up to the loan; instalments, balance and ledger agree |
| **Credit checks** (`services/views.py`, `services/integrations/metropol_client.py`, `saccomanagement/admin_views.py`) | `CRBCheck` | ask the bureau, reuse a recent answer, approve on the latest | nobody listed is approved without a reason |
| **Billing** (`billing/`) | `InvoiceLineItem`, `Invoice`, `Sacco` suspension | record, generate, send, overdue, suspend, pay | each payment is billed once; blocked means overdue |
| **One-time codes** (`accounts/otp_utils.py`, `otp_backends.py`, `tasks.py`) | `OTPToken` | send, resend, verify, reset, clean up | a code is used once, while current, and guessed a bounded number of times |
| **Sign-in and profile** (`accounts/views.py`, `oauth_views.py`, `biometric_views.py`) | `User`, refresh tokens, devices | register, sign in, Google, change password or number | what was changed last stands |
| **KYC** (`accounts/views.py`, `accounts/integrations/iprs_client.py`) | `KYCVerification` | upload, IPRS check, admin decision | no approval against the register without a reason |
| **Roles** (`saccomanagement/role_views.py`, `mixins.py`, `accounts/permissions.py`) | `Role` | assign, revoke, work for a SACCO | a revoked role is gone; a super admin remains |
| **Dividends** (`services/engines/dividend_calculator.py`, `services/views.py`) | `DividendDeclaration`, `DividendPayout`, `Saving` | declare, edit, calculate, approve, disburse | each member is paid once, what was declared |
| **Monitors** (`services/engines/liquidity_monitor.py`, `npl_monitor.py`, `services/tasks.py`) | `LiquidityAlert`, `NPLFlag` | hourly and daily tasks | an alert is raised once, a stage announced once |
| **Reminders** (`services/reminder_utils.py`) | `ReminderLog` | a command | each reminder goes out once |
| **Notices and bulk SMS** (`notifications/`, `saccomanagement/bulk_sms_views.py`) | `Notification`, `DeviceToken`, `BulkSMSCampaign` and its recipients | notify, push, read; draft, send | to the right one, once, within the daily limit |
| **Member import** (`saccomanagement/tasks.py`, `data_imports/`, `import_utils.py`) | `ImportJob`, users, memberships, savings | upload, batch, abort, retry | an opening balance is credited once |

Not modelled: settings, audit log and request middleware; dashboards, reports and
SASRA returns; statements and PDF output; health checks, Django's admin site and
commands. Section 5 says why.

### How they interact

* Requests run in web workers, one database transaction per `atomic` block and
  autocommit otherwise; there is no `ATOMIC_REQUESTS`. PostgreSQL runs at READ
  COMMITTED: a query sees what was committed when it started, and after waiting
  for a row lock it sees the new version **of the locked row only**.
* A provider (Daraja, the PSP) is called over HTTP, sometimes before, sometimes
  inside, sometimes between transactions. It answers later through a webhook and
  repeats a call that was not answered 200.
* Webhooks mark a callback in the cache (`is_replay_attack`), look up its row,
  queue a Celery task and answer. The broker acknowledges a task when a worker
  takes it, so that a worker that dies takes the task with it. Most callback
  tasks are not retried by themselves.
* Loans tie the parts together through `Loan.status`: guarantors move it to
  PENDING_APPROVAL, admins to APPROVED, disbursement to ACTIVE, and the
  confirmation of a disbursement, like a completed payment, creates the line item
  that Billing invoices.
* The rest meets in single columns: KYC and codes in the user, reminders and
  arrears in the schedule, dividends, imports and deposits in `Saving.amount`.

### What is hard

Reads without a lock followed by writes (most handlers); a provider call inside a
transaction; results that are early, late, repeated or lost; a 24-hour timer that
races the member's answer; a replay marker set before the work it stands for;
joined rows that stay stale after waiting for a lock; row locks that do not keep
new rows out; two endpoints, and three writers, for one `Loan.status`; `save()`
without `update_fields`, which writes every column as it was read; tasks that start
over after they have had half of their effect. The list
`hazards` in `PROJECT.json` gives the ones that matter most, with their lines and
the properties that cover them; the tables at the end of section 5 have the others.

## 2. Modules

| Module | Content |
|---|---|
| `LoanDisbursement` | one loan from the admin's decision to the member's answer |
| `MCLoanDisbursement` | values and symmetry for its runs |
| `LoanDisbursementProofs` | the inductive invariants and the theorems that rest on them: payment, fees, outcomes, timer, payouts, callbacks |
| `PaymentBook` | abstract: what booking a payment promises |
| `Collections` | payments in and out, down to the steps of a transaction; refines `PaymentBook` |
| `MCCollections` | values and symmetry for its runs |
| `CollectionsProofs` | the inductive invariant of `Collections`, its safety theorems and the refinement |
| `Guarantees` | guarantors of loans, members and outsiders, up to the approval |
| `MCGuarantees` | symmetry for its runs |
| `GuaranteesProofs` | that no loan is reviewed without its approvals or approved without cover |
| `OneTimeCode`, `SignIn`, `Kyc`, `Roles` | a person's account: codes, the row and its sessions, the identity check, what roles open |
| `MCAccounts` | the four put side by side, with values |
| `AccountsProofs` | that codes, changes, revocations and approvals keep their promises, and every row its type |
| `LoanApplications`, `Instalments`, `CreditChecks` | lending around the loan: application against the limit, schedule and repayments, credit check |
| `Reminders`, `Campaigns`, `Notices` | messages: reminders, bulk SMS, notices with push |
| `Billing`, `Dividends`, `MemberImport`, `Monitors` | the back office |
| `MCOffice` | these ten put side by side, with values |
| `SumProofs` | facts about sums over finite sets and about recursion up to a number |
| `BillingProofs` | that a payment is billed once, and a SACCO blocked for an unpaid invoice |
| `OfficeMoneyProofs` | that limits, dividends, imports and instalments of `MCOffice` keep their promises |
| `OfficeProofs` | that its bills, blocks and messages do, and every part its types |

Apart from the two modules that put others side by side, modules share no
variables: each holds its own part of the state and takes what the others do to
it as given. `Guarantees` ends where `LoanDisbursement`
begins (its `PayOut` is all of the latter in one step), and `LoanDisbursement`
keeps the one thing of the former that reaches it, a guarantor who answers late.

### LoanDisbursement

One step is one transaction, one message, or one read made outside a transaction.
`lock` is the holder of the loan row between two steps, which matters because
`DisbursementService.initiate` calls the provider with the row locked.

| Actions | Code |
|---|---|
| `AdminReads`, `AdminWrites` | `AdminLoanApprovalView.partial_update`: `_validate_transition` on an unlocked read, then the save |
| `InitiateCalls`, `InitiateCommits`, `InitiateFails`, `InitiateCrashes` | `DisbursementService.initiate`; a failure raises inside the transaction, so that the FAILED it wrote is rolled back too |
| `DirectReads`, `DirectCreates`, `DirectAccepted`, `DirectRefused`, `DirectTimesOut`, `DirectRecords`, `DirectCrashes` | `B2CDisbursementView`, `initiate_b2c_loan_disbursement`: two transactions around the call |
| `GuarantorResponds` | what `GuarantorRespondView` does to `Loan.status` |
| `ProviderSettles`, `ProviderRedelivers`, `ReplayMarkerExpires` | external: Daraja, and the cache |
| `WebhookEnters`, `WebhookUnknown`, `WebhookBrokerDown`, `WebhookEnqueues`, `WebhookFails` | `B2CCallbackView.post`: the marker is set first, the row looked up later; one action per outcome |
| `WebhookDropsReplay`, `WebhookDropsSecondCall` | its answer 200 to a call that finds the marker, after the first call or, a fault, during it |
| `CallbackHasNoEffect`, `CallbackDisburses`, `CallbackFails` | `on_disbursement_b2c_callback` |
| `B2CSkips`, `B2CProcesses` | `process_b2c_callback_task` |
| `SendConfirmation`, `MemberConfirms`, `MemberDisputes`, `DayPasses` | `send_disbursement_confirmation_request`, the two link views, the age limit of the link |
| `AutoReads`, `AutoYields`, `AutoConfirms`, `AutoEscalates` | `auto_resolve_disbursement` |
| `CallbackLost`, `ConfirmationLost`, `TimerLost` | Celery's early acknowledgement |

Decisions a reader should know:

* `B2CDisbursementView` answers 400 unless `request.current_sacco` is set
  (`payments/views.py:899-905`). `SaccoContextMiddleware` sets it before the API
  looks at the token, so only a request that also carries a Django session, of a SACCO
  admin who is not staff, gets further (`HasSacco`). `InSession` is the set of these
  requests. With `InSession = {}` the endpoint is there and serves nobody, which is
  how a client with nothing but a token finds it.
* A duplicate `InvoiceLineItem` is caught as `IntegrityError` *inside* the atomic
  block. Django has marked the transaction for rollback by then, so the whole
  confirmation comes to nothing although the response is 200: `RecordInvoiceItem`
  is a guard.
* A Daraja timeout notice counts as a bounced payout, since `timeout_url` and
  `callback_url` are the same. The replay marker may expire at any time, which
  also covers `is_replay_attack`'s separate get and set. Duplicate tasks in the
  queue are one element of a set.
* The link's token and the timer both end after 24 hours; between them `link` is
  `"due"`: a request admitted in time may still be running.
* The guarantors' cover is taken as given when an admin approves (`Guarantees`
  checks it). `RESOLVED_BY_ADMIN` is never written by the code, and nothing sets
  `disbursement_status` back to PENDING. The repayment schedule is in
  `Instalments`, the credit check in `CreditChecks`; messages to members are left out.
* Admins who both pay, an ACTIVE loan overwritten by a stale REJECTED or by a late
  guarantor, a payout credited to another transaction when both endpoints are
  used: the model has them all, whether or not a property is about them.

### Collections and PaymentBook

`PaymentBook` is a page: a payment is paid, later booked, and booking changes the
saving, the loan and the ledger together. `Collections` maps `paid` to what the
gateway did and `booked` to the payments with a ledger entry; a repayment when
nothing is owed completes without an entry, which `Book` does not see.

A worker transaction is two or three steps: the query (`seen`, the joined
`Transaction.status`), the reads under the locks (`balance`), the commit. A worker
that is `"writing"` holds the rows of its payment and of its account. So the model
has what READ COMMITTED has: `select_for_update(of=('self',))` leaves the joined
status stale, two workers can go on to book one payment, and only the unique
`LedgerEntry.reference` (`Clashes`, `StkRetries`) stops the second. One retry is
enough, since it reads the committed status, so the code's limit of three is not
modelled.

| Actions | Code |
|---|---|
| `Asks`, `Records`, `Refuses`, `RequestDies` | `STKPushView`, `DepositInitiateView`, `WithdrawalInitiateView`: the provider accepts before the row is visible; a withdrawal the PSP refuses is committed as FAILED, a refused deposit as PENDING |
| `Settles`, `ReportsPending`, `Redelivers`, `MarkerExpires` | external: M-Pesa, the PSP, the cache |
| `StkDropsReplay`, `StkEnqueues`, `StkFails` | `MPesaSTKCallbackView.post` |
| `PspEnqueues`, `PspBrokerDown` | `PaymentCallbackView.post`: 200 in every case |
| `Reconciles` | `reconcile_pending_transactions`, which no schedule runs |
| `StkReads`, `StkSkips`, `StkFailed`, `StkMismatch`, `StkApplies`, `StkRetries`, `StkCommits` | `process_stk_callback_task` |
| `PspUnknown`, `PspSkips`, `PspUpdates`, `PspApplies`, `PspCommits` | `process_payment_callback` |
| `WorkerDies` | a crash between two steps |

An amount is one unit; `"short"` is an STK success whose amount differs from the
gross amount (the push asks for `int(gross)`). A PSP payment is not credited to
`Saving.amount`, its confirmed amount is never compared, and the flag `processed`
of a Callback row controls nothing, all as in the code. Only the mock PSP exists
in the repository. Redeliveries count as faults. The membership is APPROVED.

### Guarantees

No handler locks what it reads before deciding, so each is one reading step and
one or more writing steps of a `worker`. The `"commit"` state is a transaction that has
written and not committed; others do not see what it wrote but wait for its rows.
`AvailableCapacity` (half of the savings less approved guarantees of some
statuses) and `SearchCapacity` (all savings less open guarantees) are the two
formulas the code has for one thing.

| Actions | Code |
|---|---|
| `Search`, `SearchSave` | `GuarantorSearchView` |
| `Ask`, `CreateGuarantee` | `GuarantorRequestView` |
| `ReadAnswer`, `CheckCapacity`, `WriteApproval`, `CommitApproval`, `Decline` | `GuarantorCapacityCheck`, `GuarantorRespondView`, the signals on `Guarantor` |
| `NameExternal`, `SmsSent`, `SmsNotSent`, `MarkSent` | `ExternalGuarantorCreateView`, `send_guarantor_sms` |
| `LinkExpires`, `ReadLink`, `UseLink` | `ExternalGuarantorRespondView` |
| `ReadReview`, `Review` | `ExternalGuarantorAdminReviewView` |
| `ReadLoan`, `Decide` | the admin status endpoint with `check_loan_guarantors_complete` |
| `PayOut` | stands for `LoanDisbursement` |

The constant `Repeats` allows an answer to be sent again while the first is being
handled. The passing run and the theorems have `Repeats = FALSE`; with TRUE,
`ReviewedHasApprovals` fails, because a decline read before an approval overwrites it.
An outsider may answer at any moment from the SMS on, also before the request that
sent it has saved SMS_SENT. `answers`, the history of what an outsider answered, is
what the run `answer_reopened` compares the row with, and what cover counts: the
second save of SMS_SENT takes the answer out of the row. BOARD_REVIEW and
COMPLETED are written by no code and are not in the model.

### A person's account: MCAccounts and its four modules

Where two of the four write one column, the password and the phone number, each has
the other's write in it: `PasswordIsReset`, and `SendPhoneCode`, `SaveVerifiedPhone`,
`ForgetPhoneCode`, the check of a number, which stores the number it was asked about
even if the user has another by then. (`OneTimeCode` has the spelling that this
changes, `SignIn` the number.) So `MCAccounts` chooses one part at
the start of a behaviour and leaves the others still: their behaviours are explored
side by side, not multiplied. No handler here opens a transaction, and each query
or save is a step.

| Module: actions | Code |
|---|---|
| `OneTimeCode`: `StartSend`, `StartResend`, `StartReset`, `ExpireOlder`, `CreateToken`, `Deliver` | `OTPSendView`, `OTPResendView` with its cooldown, `PasswordResetRequestView`; `create_otp_token`; `otp_backends.py` with what each channel reports |
| `ReadToken`, `LoseToken`, `CountAttempt`, `MarkUsed`, `SavePhone` | `verify_otp` statement by statement, called by `OTPVerifyView` and `PasswordResetConfirmView`, and what the former stores |
| `CleanUp`, `Tick` | `cleanup_expired_otps`; time, in units longer than a code lives |
| `SignIn`: `StartRegister`, `CreateAccount`, `CreateKycRow` | `RegisterView` and its serializer: three steps, the e-mail is looked for before it is inserted |
| `GoogleSignIn`, `GoogleCreate`, `StartLink`, `SaveLink` | `oauth_views.py`; `save()` of the linking request writes the row as it was read |
| `StartPatch`, `SavePatch`, `StartPasswordChange`, `SavePasswordChange`, `PasswordIsReset` | `MeView`, `PasswordChangeView`, what a password reset stores |
| `SendPhoneCode`, `SaveVerifiedPhone`, `ForgetPhoneCode` | `OTPSendView` and `OTPVerifyView` as far as they concern `User.phone_number` |
| `Login`, `Logout`, `RegisterDevice`, `RevokeDevice` | `LoginView`, `LogoutView`, `biometric_views.py` |
| `Kyc`: `StartUpload`, `SaveUpload`, `StartSubmitId`, `ApplyIprs`, `StartReview`, `SaveReview` | `KYCUploadView`, `KYCSubmitIDView` around the call of `IPRSClient`, `AdminKYCReviewView` |
| `Roles`: `StartAssign`, `LookAssign`, `CreateRole`, `StartRevoke`, `LookRevoke`, `DeleteRole`, `Refused` | `RoleAssignView`, `RoleRevokeView`: the permission of the caller, the look at the role, the write; the unique constraint does not bind where the SACCO is null (`Clashes`) |
| `StartWork`, `WorkOn`, `Turned` | the permission of a request, `SaccoScopedMixin`, the write; `Turned` is any request that ends without effect |

Several properties have exceptions, and each is a history variable that says when
the exception applies: `met` (two requests had read one token at once), `twins` (tokens
created at the same time), `crossed` (a write met
a request that saves the whole row), `mixed` and `rejected`, `coincided` and
`mutual`. So a property says: this goes wrong only in this way. The exceptions are
real, and dropping one makes the run fail. Where the exception is the very case a
hazard is about, the hazard's note says that the property does not cover it.

### Lending and back office: MCOffice and its ten modules

`MCOffice` puts its parts together in the same manner.

| Module: actions | Code |
|---|---|
| `LoanApplications`: `Apply`, `UploadDocument`, `ReviewApplication`, `StartLeave`, `SaveLeave` | `MembershipApplyView`, document upload, `ApplicationReviewView`, `MembershipLeaveView` |
| `ShowLimit`, `ForgetLimit` | the cached eligibility of `LoanEligibilityView`, which nothing decides on |
| `StartApplication`, `ReadMember`, `ReadSavings`, `ReadBalances`, `Compare`, `CreateLoan`, `SetStatus` | `LoanEligibilityCreateMixin.create`, `calculate_loan_limit` query by query, `LoanApplyView.perform_create` |
| `DecideLoan`, `GuarantorsAnswer`, `PayOutLoan`, `RepayLoan`, `MoveSavings`, `Season` | what other modules and time do to a loan and to savings, one step each |
| `Instalments`: `ApproveLoan`, `StaffApprovesLoan`, `LoanIsActive` | approval with `persist_loan_repayment_schedule`, approval in the admin site without it |
| `LookAtSchedule`, `ReadLoan`, `ViewStores` | `RepaymentScheduleView`, the second writer of a schedule |
| `RepayInstalments` | `_apply_loan_repayment` and `_apply_amount_to_instalments`, one transaction under locks |
| `CreditChecks`: `StartCheck`, `AskBureau`, `BureauFails`, `FileCheck`, `ReadForApproval`, `SaveApproval` | `CRBCheckView`, `MetropolClient`, `AdminLoanApprovalView` |
| `BureauLearns`, `DatePasses` | external |
| `Reminders`: `StartCommand`, `StartOverdue`, `LookAtLog`, `Remind`, `WriteLog`, `EndCommand`, `CommandDies` | `send_repayment_reminders` and `reminder_utils.py` |
| `Pays`, `StaffMarksOverdue`, `Midnight` | payment, the admin site, the date |
| `Campaigns`: `CreateCampaign`, `ReadDraft`, `SendCampaign` | `BulkSMSCreateView`, `BulkSMSSendView` |
| `StartTask`, `SendText`, `TextRefused`, `RecordText`, `EndTask`, `TaskFails`, `NewDay` | `send_bulk_sms_campaign_task`; `StartTask` takes the reading of the limit and the marking of what is beyond it together |
| `Notices`: `Register`, `CreateNotification`, `QueueNotify`, `NotifyUser`, `MarkRead` | `DeviceTokenRegisterView`, `create_notification`, `notify_user_task`, the two read endpoints |
| `StartPush`, `PushSent`, `PushRefused`, `Deactivate`, `PushFails`, `PushEnds` | `send_push_notification_task` with `fcm_push.py` |
| `Billing`: `RecordItem`, `StartInvoice`, `CommitInvoice`, `MakePdf`, `GenerateByHand` | line items of completed payments, `InvoiceGenerator.generate`, the older `billing/services.py` |
| `StartEmail`, `FinishEmail`, `UpdateOverdue`, `StartSuspend`, `BlockSacco`, `MarkSuspended`, `MarkPaid`, `NextDay` | `billing/tasks.py`, `MonthlyInvoiceResendView`, `InvoiceMarkPaidView` |
| `Dividends`: `CreateDeclaration`, `StartEdit`, `SaveEdit`, `StartDelete`, `FinishDelete`, `Calculate`, `Approve`, `Disburse` | the dividend views and `dividend_calculator.py` |
| `MemberImport`: `UploadFile`, `StartUpload`, `ImportMember`, `FinishUpload`, `UploadError` | `import_views.py`, `import_utils.py` |
| `QueueJob`, `StartJob`, `ReadBalances`, `CommitRows`, `AbortRows`, `SaveResult`, `DatabaseError`, `Deposit` | `run_member_import_task` and `bulk_operations.py`; nothing in the repository queues this task, `QueueJob` stands for whoever does |
| `Monitors`: `StartCheck`, `CheckSacco`, `CreateAlert`, `EndSweep`, `MoneyMoves`, `HourPasses` | `check_all_sacco_liquidity` and what it watches |
| `StartFlagging`, `FlagLoan`, `SendNotice`, `FlaggingFails`, `GrowsLater`, `RepaymentComes` | `flag_npl_arrears` and what it watches |

What is abstracted:

* The amounts of an invoice are the set of payments it bills; a reminder is a pair
  of instalment and type; a CRB answer is whether the member is listed.
* Days and hours pass only while no task of `Campaigns`, `Billing` or `Monitors` is
  under way: each of these runs takes seconds and looks at the date once.
* UNDER_REVIEW is left out of `LoanApplications`: it is a label between PENDING and
  the decision. `Notices` leaves the SMS out, a task that keeps no record.
* Amortisation and dividends are computed on whole cents with the rounding of
  `Decimal.quantize`, with the calendar, leap years included.
* In `Dividends` the sampled day drifts as in the code (`SampleDay`): after a
  February the month ends are taken on the 28th.

## 3. Runs

Each run finishes in about three minutes with two workers.

| Run | Instance | Question and answer |
|---|---|---|
| `status_endpoint` | both endpoints, no request with a session; 2 admins, 2 attempts, 1 late guarantor, 1 fault (1,397,525 states) | safety of the endpoint that uses `DisbursementService`, beside a direct endpoint that refuses everybody: all nine invariants hold |
| `status_endpoint_live` | the same, no fault, no late guarantor, fair (92,650) | every payout is booked, every disbursed loan gets its answer |
| `direct_endpoint` | the direct endpoint, both admins with a session; 2 attempts, 1 fault (500,828) | where it does serve requests, its books agree with its transactions |
| `collections_deposits` | 2 STK deposits, 1 PSP deposit, 2 workers, 1 fault (647,869) | each payment is booked as `PaymentBook` promises; COMPLETED is final; the fee matches |
| `collections_live` | 1 deposit, 1 repayment, 1 withdrawal, 2 workers, 1 fault, fair (215,005) | the other kinds of payment keep the same promise; every STK payment settles unless a fault hit |
| `guarantees` | 1 loan, 3 members (2 required), 1 outsider, 2 workers (3,203,649) | no review without approvals, no approval without cover |
| `accounts` | the parts of `MCAccounts`, 2 requests at a time (1,079,792) | a code is accepted once, while current, and one works at a time; changes and revocations stand; no approval against the register without a reason |
| `office` | the parts of `MCOffice`, 2 requests or workers at a time (314,336) | limits, schedules, messages, invoices, suspensions, dividends and imports keep their promises, with the exceptions the modules name |
| `ledger_race` | 1 STK and 1 PSP deposit, 2 workers | **violated**: `balance_after` is not the running sum; locking the existing rows keeps no new row out |
| `overdraw` | 1 deposit, 2 withdrawals | **violated**: the same savings are withdrawn twice; nothing lowers or reserves them |
| `approvals_lost` | 1 loan, 2 members | **violated**: two approvals at once, neither counts the other, the loan never moves on |
| `answer_reopened` | 1 loan, 1 member, 1 outsider, 2 workers | **violated**: the outsider answers, then the request that sent the SMS saves SMS_SENT over the answer; the request is open again |

The violated properties state what a docstring, a comment or an error message of
the repository says; `findings` in `PROJECT.json` quotes it.

The parts of `office`, checked one by one, have: applications 53,518 states,
instalments 30,600, reminders 26,292, campaigns 40,754, billing 21,674, dividends
36,297, imports 11,288, liquidity 5,672, arrears 18,609, notices 13,002, credit
56,630. An invariant of `office` or `accounts` is the conjunction of the parts'
invariants on one subject; the modules state them one by one.

Some limits of the passing runs, set by the constants and not by the model:

* With both endpoints in use and requests that have a session,
  `FeeOnlyForDeliveredMoney`, `FailedWasNotPaid` and `LedgerMatchesCompletion` fail,
  since the callback task credits the loan's transaction with the result of another
  attempt; and two requests of the direct endpoint can pay a loan twice without a
  fault, since both read APPROVED before either writes. An ordinary API client meets
  neither, as it is refused before the loan is read.
* `LostOnlyByFault` counts a lost result against the faults. A marker left behind by
  an unexpected error (`WebhookFails`), and a second call answered 200 while the first
  comes to nothing (`WebhookDropsSecondCall`), do lose a result, one per fault.
* `FailedWasNotPaid` says nothing once there was a fault: a timeout notice is one.

### Bounds

| Bound | Value | Why it is enough |
|---|---|---|
| `Attempts`, `Admins` | 2 | what goes wrong takes one request that overtakes another; the theorems hold for any number |
| `InSession` | none, or both admins | a request is let in or refused; the theorems hold for any set, or say for which |
| `LateGuarantors` | 0 or 1 | each late answer only overwrites `Loan.status`, and one can do so at any moment |
| `MaxFaults` | 0 or 1 | a fault at every point of every run, one at a time; properties about faults count them |
| payments | 2 of the kind under scrutiny | two are needed to race for one account; notices about one payment already repeat and overtake each other |
| `Workers`, `Hands`, `Commands`, ... | 2 (1 in imports, notices and dividend edits) | locks and stale reads are between two; with 1, the other actor is a deposit, a registration or a locked step |
| `Owed` | 1 | the last instalment, and a repayment when nothing is owed |
| `Members`, `Required` | 3, 2 | one member more than needed, who can be asked when the loan has moved on |
| `LoanAmount`, `Amounts`, `Savings` | 3, {1}, 4 | two members do not cover the loan, three or two and the outsider do; half of the savings covers two units |
| `MaxTokens`, `MaxTime`, `MaxChecks`, `MaxAttempts` | 2, 1, 2, 1 | a code and the one that replaces it; before and after expiry; one guess more than allowed |
| `Emails`, `Phones`, `Spellings`, `Saccos` of accounts | 2 | the e-mail taken by another; a number and the one that replaces it; a number written in two ways; a role at another SACCO |
| `MaxRequests` (KYC), `MaxRows` (roles) | 4, 4 | upload, number, review and one more; two offices of two users |
| `MaxLoans`, `MaxSavings`, `Multiplier` | 2, 1, 2 | two applications that are each within the limit |
| loans of `Instalments` | 1 and 3 instalments; 100 and 1001 cents; 0, 1 % and 10 % a month; three dates | an amount the term does not divide, a zero rate, the turn of a year, a due day February lacks |
| `LastDay` of billing, `MonthDays` | 5, 2 | three months, with an item of the first hours of a month |
| `DailyLimit`, `Recipients` | 2, 2 | messages of an earlier campaign use part of the day's limit |
| `MaxRetries`, `MaxTries` | 1 or 2 | a retry after a half-done attempt; further ones repeat it |
| `Terms`, `Movements` of dividends | 2 each | a quarter with a February and half a month; movements before, within and after a sampled day |

Symmetry is used for attempts and admins, for workers and STK deposits, for
members and workers, and for workers, spellings, e-mail addresses, numbers,
payments, savings and devices in `accounts` and `office`, in runs without
liveness. Deadlock is not checked in `LoanDisbursement`, `Collections`, `accounts`
and `office`, where everything asked for may be done or a bound reached, and is
checked in `Guarantees`, where a search is always possible.

### Fairness

`LoanDisbursement`: weak fairness of the commit of an open transaction, the
provider's settlement, the webhook's entry and success branch (the provider repeats
until it is answered 200), each queued task, the confirmation request, the passing of a
day and the timer. None of the admins, guarantors or members has to act, and no
fault has to happen. `Collections`: the same for STK payments; strong
fairness only of a worker taking a given task, because the queue is first in,
first out while workers are busy now and then. PSP payments get no fairness:
reconciliation is in no schedule and an unprocessed Callback row is not looked at
again, so that there is nothing that would make them settle.

## 4. Proofs

All proofs are checked by TLAPS with Z3, Zenon and LS4. No assumption is made
beyond those on the constants and those the theorems state.

**`LoanDisbursementProofs`.** `Invariance` proves `Spec => []IInv`, with IInv
inductive and made of named parts, each proved preserved by a lemma with one step
per action:

* `LockInv`: whoever is inside `initiate` holds the row;
* `AttemptInv`: what a request in flight knows about its attempt, and that two
  requests never share one; it needs `LockInv`, since every writer of
  `disbursement_status` waits for the lock;
* `ServiceInv`: `disbursement_status` leaves PENDING with the first service
  attempt, which is the loan's transaction ever after;
* `TaskInv`: a task or link that dereferences `disbursement_transaction` exists
  only after it was set; type correctness needs it;
* `ResultInv`: a success on the wire or in the queue tells of money that was paid;
* `ActiveLoanWasPaid`, which `ResultInv` makes inductive.

From it follow `TypeCorrect`, `ActiveOnlyIfPaid` and `ServiceOnce` for every mix
of endpoints and any number of admins, attempts and faults.
`FeeOnlyIfDelivered` assumes `DirectUnused`, that is `"b2c" \notin Endpoints` or
`InSession = {}`, what clients with a token and no session find, and uses the further
invariant `StatusInv` (every result is about the loan's one transaction), which
holds only then.

The second half of the module goes on with the books. `FeeWithConfirmation` proves
`FeeMatchesConfirmation` for every mix of endpoints; `FeeInv` says that a line item
is of `disbursement_transaction` and exists exactly with a confirmation.
`LossNeedsFault` proves `LostOnlyByFault` for every mix of endpoints and any bound on
faults, from `NoticeInv`: an attempt has one result; and the attempts that are
answered, or marked with no call at work, while their result is neither with a worker
nor in a Callback row (`Unkept`) are at most as many as the faults. A step makes
`Unkept` smaller, or adds one attempt and counts a fault.
The other four theorems, under `DirectUnused`, rest on
`BooksInv`, the conjunction of `StatusInv`, `FeeInv` and

* `OutcomeInv`: what the books say of an attempt is what the provider said of it, on
  the wire, in the queue, in the ledger and in `Transaction.status`;
* `TimerInv`: the member is asked once, after the payout was booked, and the timer is
  not set again after it has answered nor after a dispute; needed because the
  timer decides on an unlocked read;
* `AskedInv`: every attempt the provider was asked to pay, but the one of the loan or
  of the request that holds its row, stands for a fault; the count is by the
  library's facts about finite sets.

From it follow `TimerYieldsToMember` and `SecondPayoutNeedsFault` with the status
endpoint alone, for any number of admins, attempts and faults. `FailureIsTrue` and
`LedgerShowsCompletion` hold for each endpoint on its own, and for both under
`DirectUnused`.
Where only the direct endpoint is used they follow from `DirectInv`: no loan has a
disbursement transaction; what a request has in flight is its own attempt, still
PENDING and without a conversation id (`FlightInv`), so no result can be found for it
before its second transaction; an attempt that is COMPLETED has received its result,
so `_callback_already_processed` keeps a second one out. With both endpoints
serving requests both are false: `on_disbursement_b2c_callback` then writes to
`loan.disbursement_transaction` the result of an attempt of the other endpoint.

**`SumProofs`.** The sums of the models are `SumFunction` of the community module
`Functions`, a recursive function on subsets. The library's induction theorems take an
operator as a parameter and cannot be used; induction here is over a *set* of subsets
or numbers (`SubsetInduction`, `CountingUp`), by the well-foundedness of strict inclusion
among finite sets. With it the recursion is shown to have a solution, and a sum to be a number, to
grow by one element's value, to be monotone and to split. `RecursionExists` does the same
for a recursion that counts up to a bound, which schedules and allocations are.

**`GuaranteesProofs`.** `ReviewedOnlyWithApprovals` proves
`Spec => []ReviewedHasApprovals` for finitely many members and
`Repeats = FALSE`. The invariant `ApprovalsInv` says besides that an answer being
handled is about a row that is still PENDING and is the only one about it
(`AnswerInv`), and that whoever counted enough approvals, or read a loan that had
enough, is still right (`CountInv`): approvals are only ever added, since a
decline of an approved row would need a second answer. The counts rest on the
library's facts about finite sets (`StillEnough`).

`GuaranteesTyped` proves `TypeOK` for finitely many loans; the capacity of a member is
a natural number because a sum over loans is one (`SumProofs`). `ApprovedLoansAreCovered`
proves `ApprovedIsCovered` for finitely many loans, members and outsiders, with
`Repeats = FALSE`, from the invariant above and `CoverInv`:
whoever the SACCO approved, or is about to, has accepted (`AcceptInv`); a loan read to be
complete and about to be approved is covered (`ReadInv`). Nothing takes back what
backs a loan (`BackingStays`), so that its sum only grows (`CoverStays`) between the
unlocked check and the write.

**`CollectionsProofs`.** `CollectionsInvariance` proves `Spec => []CollectionsInv` for
any number of payments of every kind, savings, workers and faults. Its parts are

* `TypeOK`, with which `CollectionsTypes` follows;
* `RowsInv`: a worker has only payments with a row in hand, and so has the queue of
  STK results;
* `ResultsInv`: what is on the wire, in a queue, in a Callback row or in a worker's
  hand is what the gateway settled, or a PSP's "pending"; a COMPLETED payment was
  a success;
* `LockInv`: one worker at a time writes a saving, and while only STK deposits are
  booked, the balance it has in hand is the one its entry will bring about;
* `FeeMatchesCompletion` and `PspSuccessOnFile`, which these make inductive.

From it follow `FeeWithCompletion`, `NoPspSuccessIsLost`, `CompletedStays` and
`DepositsAreSummed`. `BookIsKept` proves `Spec => BookedAsPromised`, the refinement of
`PaymentBook`: what the outside does, requests, the gateway, webhooks and
reconciliation, is `Book`'s payment or a stutter (`OutsideBook`), and of what workers do
only the one commit that enters the ledger is a booking (`WorkerBook`,
`EntersBooked`).

**`BillingProofs`.** `PaymentsAreBilledOnce` proves `BilledOnce` of `Billing` (which
the run `office` checks) for finitely many SACCOs and any number of payments, days
and workers. The invariant says besides that a worker that has summed an invoice
summed items of that SACCO and month (`SumInv`), and that an invoice bills items
of its own key and there is no item marked for a key without an invoice
(`BilledInv`); items of different keys are different (`ItemsApart`).
`BlockedOnlyForCause` proves `BlockedForCause` from `BlockInv` in addition: an invoice
that is to be emailed, or is being emailed by one worker, is still a draft or was
written by another task meanwhile (`EmailInv`), so that no late email takes the
overdue status from an invoice somebody is blocked for; and whoever is about to
suspend, and whoever is blocked, has an invoice that is a cause (`CauseInv`).
`BillingTyped` proves `BillingTypeOK`, with the dates of an invoice in the range of the
months (`DatesInv`).

**`OfficeMoneyProofs`.** Theorems of `MCOffice!Spec` for any number of workers, accounts and
people.

* `LimitsAreRespected` (finitely many workers) proves `LimitRespected`. A request keeps
  track of the most savings and the least owed while it asks its four queries; the
  limit it finds is none that these exclude (`SoundInv`), although payments and
  other requests come between. What is owed is a sum over loans that a new loan, not
  yet ACTIVE, does not change. Every request has room for its loan (`RoomInv`, a count),
  and a status that is saved twice is of one request only (`RowsInv`). For credit checks:
  while nobody overtakes, an approval has a check to go by (`GroundsInv`), and checks
  not insisted on are a window apart (`Spaced`).
* `DividendsArePaidOnce` (finitely many accounts) proves `DividendsOnce` from
  `ShareStages`: what each status of a declaration says of shares, payments and their
  total. It holds unless a draft was saved or deleted that was none any more.
* `BalancesAreImportedOnce` (finitely many people) proves `ImportedOnce`: the job waits,
  runs or has ended (`OneJob`); what may be booked at each stage (`StageInv`); and
  the rows left out when it ends are one in twenty at most (`ResultInv`).
* `SchedulesAddUp` proves `InstalmentsAddUp`. That a payment is spread over
  instalments without loss, none of them taking more than is due, is proved for every
  table and amount (`AllocationAddsUp`), by induction over the rows. That the stored
  schedule makes up the loan is worked out for each of the loans `MCOffice`
  declares: two amounts, three rates, two terms.

**`OfficeProofs`.** Theorems of `MCOffice!Spec` under the names of the properties of the
run `office`, for any number of workers, payments and devices.

* `BillsAreKept` and `BlocksHaveCause` carry the two theorems of `BillingProofs` over:
  every step of the model is one of `Billing` or leaves it alone (`BillingPart`).
* `MessagesGoOnce` proves `MessagesOnce` for finitely many campaigns, none both to come
  and past. Reminders: a run that works alone tells what is not in the log, and
  what was told is in the log or about to be (`RemindInv`). Campaigns: the one task
  at work on a campaign has pending recipients in hand, a pending recipient who
  got the message is the one about to be recorded (`CampaignInv`), and the messages of
  the day are those recorded and the one about to be, so that what the task may
  still send stays within the limit (`DayInv`, which counts sets with the library's
  facts). Alerts and flags: who is about to create an alert knows that there is
  none (`ChecksInv`), and a stage is told by the one worker that flagged it
  (`FlagsInv`). Notices: there is one task until it is tried again (`AloneInv`), and what it
  has read of a device is so, or the device was registered meanwhile (`ReadInv`).

* `OfficeIsTyped` proves `OfficeTypeOK`, the types of all ten parts, from the invariants
  of both modules and a few further bounds (`RemindValues` and the like).

The instances of `MCOffice` fix one SACCO, one loan, one instalment, two recipients and a limit
of two messages; the theorems are for these.

**`AccountsProofs`.** Theorems of `MCAccounts!Spec` under the names of the properties of
the run `accounts`, for any number of requests at a time, tokens, codes entered, changes,
roles and documents: only `AccountsAreTyped` uses the bounds on them. Each part has an invariant of
its own, which a step of another part leaves alone.

* `CodesInvariance` proves `Spec => []CodesInv`, assuming that `None` is no number and
  `MaxAttempts` is one. A code is on its way once and unread before it arrives
  (`DeliveryInv`); a request that compares a code has read a token that was current
  (`EnteringInv`); a token that no two requests had read at once was compared at most
  `attempts` times, and whoever is comparing with it has read its current attempts
  and finds it not yet accepted (`SpentInv`); and of the tokens not created at the same time
  one at most is usable for an account and purpose, and none when the next is created
  (`LatestInv`). That the newest of a set is one of it is by the library's
  well-foundedness of `<`. From it follow `CodeIsSpent`,
  `AcceptedIsCurrent` and `LatestCodeWorks`.
* `ApprovedOnlyWithCause` rests on `KycInv`: while requests have not been mixed, all at
  work are of one kind, and what each has in hand is what the row says of the register
  (`KindsInv`, `CauseInv`).
* `ChangesStand` rests on `SignInv`, which says that a request at work saves the whole
  row if a change of another is lost, and `RolesInv`: a revocation is of the role it
  has read, a row once deleted stays deleted (`OnceInv`), while no two
  revocations were under way at once a super admin is left whose role nobody is
  revoking: the one who was permitted to revoke is such, until the role to revoke was
  looked at (`RulerInv`), and no request worked for a
  SACCO that is not its user's. It assumes that the mark of a deleted row is no role.

* `AccountsAreTyped` proves `AccountsTypeOK`, which says besides types that a token is
  compared, and its attempts counted, no more often than codes were entered. Each
  request that still has to count stands for one code entered: `BoundsInv` bounds the
  comparisons of a token plus the requests in hand of it (`Counting`, a set whose
  size the library's facts follow). The rows that a request stores are rows
  because accounts are never deleted (`SignRows`).

Only model-checked: liveness, under the fairness of section 3, which is out of
the prover's reach. Every invariant of a passing run and every action property is
proved, some under the hypotheses named above. Not proved for arbitrary values are the
amounts of a schedule (`SchedulesAddUp` evaluates the declared loans): that a
rounded annuity leaves a last instalment within its bounds depends on the
numbers. What a recursive *data type* definition computes would need the library's
induction theorems and is nowhere relied on.

## 5. What is not modelled

* **Settings, audit log, middleware**: one request edits one settings row; the log
  is only appended to; the middleware looks at a request and keeps nothing.
* **Dashboards, reports, SASRA returns, statements, PDF files**: they read and lay
  out. The calculations of reports are aggregates of the database.
* **Health checks, configuration, Django's admin site, seed data and commands**:
  deployment. What the admin site can do to a row that a module has is in that
  module only where the module says so (`StaffApprovesLoan`, `StaffMarksOverdue`).
* **Remote services**: HTTP, signatures, token refresh. Their answers, errors and
  silences are inputs of the modules that call them.
* **Rate limits and permissions**: who may call an endpoint is taken as given,
  except where the permission is a row that changes (`Roles`, `HasCapacity`).
* **Wording and layout** of messages, and fee and penalty amounts.

### Divergences without a run

What reading the code for the models brought up, besides the four violated runs.

| Where | The code | What says otherwise |
|---|---|---|
| `services/tasks.py:771` | the escalation of an undelivered payout sets UNDER_REVIEW over an answer given after the unlocked read | docstring, line 716: "if the member has not responded" |
| `payments/views.py:248-263` | the result of `create_checkout` is not looked at: a deposit the PSP refuses stays PENDING and its response says it was initiated | `WithdrawalInitiateView`, lines 371-388, saves FAILED |
| `payments/views.py:899-905` | with `saccomanagement/middleware.py:34-40`: the SACCO is looked for before the token is, so that the direct endpoint answers 400 to every client without a session | the endpoint's purpose |
| `accounts/views.py:929-932` | a code asked for earlier and entered later puts back the number it was sent to | |
| `accounts/views.py:531` | a rejection or an approval of a PENDING verification needs no reason, though the register said mismatch before a new upload | the message at lines 543-544 |
| `services/engines/amortization.py:41` | at a zero rate every instalment but the last has amount 0 | `test_amortization.py`, `test_zero_interest_rate` |
| `services/engines/dividend_calculator.py:53` | month ends drift to the 28th after a February | docstring, line 23 |
| `services/tasks.py:249`, `:831` | `_notify_sacco_admins` is defined twice, so that a liquidity alert is never told | `test_liquidity_monitor.py`, `test_task_creates_one_recent_alert_and_notifies_admin` |
| `payments/tasks.py:987` | items of the first three hours of a month in Nairobi get the UTC month, are too late for its invoice and are never billed | `billing/models.py:148-151` |
| `billing/management/commands/reconcile_uncollected_fees.py:81` | the name `sacacco_name` does not exist | the command's purpose |
| `saccomanagement/tasks.py:72` | a malformed row that holds an amount cannot be written as JSON: the job is FAILED although its members were imported | the job's status |
| `accounts/views.py:1070-1078` | the module does not import `logging`: a failed delivery ends in a 500 | comment, line 1056: "Always return 200" |
| `accounts/views.py`, `accounts/otp_utils.py` | users are looked up by the number as it was typed, tokens by its canonical form | |
| `saccomanagement/middleware.py:103-157` | it runs before the API authenticates the caller, so that no API client is ever blocked | its docstring; `billing/tests.py:524` sets `request.user` itself |
| `notifications/models.py` | `Notification.push_sent` is never written | the field |
| `saccomanagement/admin_views.py:191` | a credit check of any age allows an approval | the 30-day window of `CRBCheckView` |

### Further hazards

What else is hard to test, by line, without a property of its own.

| Where | What can go wrong | Where it stands |
|---|---|---|
| `payments/tasks.py:138` | amount_confirmed of a PSP result is never compared with the transaction; a partial payment is booked in full. | The model has no partial PSP payment: nothing reads the amount, so it could only show the missing comparison. |
| `payments/tasks.py:175` | reconcile_pending_transactions is in no schedule and looks at PENDING only: a withdrawal (SENT) or an unprocessed Callback is never looked at again. | In Collections it runs or not; that PSP payments settle is promised nowhere. |
| `payments/tasks.py:693` | A repayment larger than what is owed, or one after the last instalment, must not take the balance below zero; a loan repaid in full stays ACTIVE, as nothing writes COMPLETED, so its guarantees keep counting and its member cannot leave. | The clamp is part of `RepaymentsBalance`; that the status stays is how `LoanApplications` has it (RepayLoan). |
| `services/tasks.py:607` | The confirmation request is queued after the commit and tasks are acknowledged early: a worker that dies leaves a DISBURSED loan nobody asks about. | ConfirmationLost and TimerLost in LoanDisbursement; `DisbursementGetsAnswer` excludes runs with a fault, since no sweep would find such a loan. |
| `services/views.py:217` | perform_create of the apply endpoint saves the status a second time; a decision made in between is undone and a rejected loan comes back. | SetStatus in LoanApplications; no text promises the contrary. |
| `services/views.py:275` | A loan created through LoanCollectionView, which has no perform_create of its own, stays PENDING; if its type needs no guarantors nothing ever moves it on. | In LoanApplications and Init of Guarantees. |
| `services/engines/loan_limits.py:85` | Only ACTIVE loans lower the limit; several applications, approved later, add up beyond it. | In LoanApplications; `LimitRespected` therefore speaks of each application and its own queries. |
| `services/engines/amortization.py:41` | A zero rate divides the principal for the instalments but leaves their amount 0. | In Instalments (rate <<0, 1>>); `ScheduleAddsUp` asks for amount = principal + interest above zero only. |
| `saccomembership/views.py:125` | A member with a loan in DISBURSEMENT_PENDING may leave the SACCO; the money arrives afterwards. | StartLeave and SaveLeave in LoanApplications. |
| `services/views.py:785` | The capacity of a guarantor is checked without a lock and the request created afterwards; requests for two loans both pass. | Ask and CreateGuarantee; the next row hides it. |
| `services/engines/guarantor_logic.py:29` | Guarantees for loans in GUARANTORS_PENDING or APPROVED do not count, pending ones never do, and the search stores all of the savings where the request uses half: legal requests one after the other pledge more than half of a member's savings. | All of it is in Guarantees; with two loans the sum does exceed half, and nothing claims otherwise. |
| `services/views.py:873` | The guarantor's status is read before the transaction that answers; two answers of one guarantor both pass and the later wins. | Guarantees with Repeats = TRUE, where `ReviewedHasApprovals` fails; no text in the repository promises the contrary. |
| `services/views.py:922` | A loan type that requires guarantors and has min_guarantors 0 can never leave GUARANTORS_PENDING by approvals. | A configuration no code refuses; Enough in Guarantees has the condition. |
| `services/permissions.py:34` | A guarantor without a capacity row above zero is refused by the permission class, for a decline too. | HasCapacity in Guarantees; nothing says when a guarantor must be able to answer. |
| `payments/tasks.py:987` | The billing month of a fee is the UTC month, the invoice run goes by Nairobi time: items of the first three hours of a month are filed under the month already billed. | UtcMonth in Billing; `BilledOnce` holds, but such an item is billed by nobody. |
| `billing/invoice_generator.py:59` | Invoice numbers come from a count; two generations take the same number. | NumberTaken in Billing: the unique constraint makes the second fail and the month go without an invoice until the task runs again. |
| `billing/tasks.py:80` | An invoice whose PDF or e-mail fails stays a draft, and drafts never become overdue. | MakePdf and FinishEmail with ok = FALSE in Billing. |
| `services/tasks.py:209` | _notify_sacco_admins is defined twice and the later definition, with other parameters, is the one called: the liquidity task fails after the first alert and is started over. | CreateAlert in Monitors has it; `AlertedOnce` covers that the restarts raise no second alert. |
| `services/engines/npl_monitor.py:8` | A PARTIAL instalment is not counted as unpaid, and a flag once resolved is found by get_or_create and never raised again. | In Monitors; nothing promises a second flag. |
| `services/reminder_utils.py:60` | A reminder is logged though the member has no phone number and nothing was sent. | WriteLog in Reminders does not ask. |
| `saccomanagement/middleware.py:147` | The suspension middleware looks at request.user before the API has authenticated the caller. | See the divergences above; who may write while suspended is not in Billing. |

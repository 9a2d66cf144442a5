------------------------------ MODULE MCOffice ------------------------------
(***************************************************************************)
(* Lending and back office, for the model checker.  Each run of the model  *)
(* follows one part, chosen at the start, while the others stay as they    *)
(* are: the parts meet in columns that each of them models on its own.     *)
(***************************************************************************)
EXTENDS Integers, Sequences, FiniteSets, TLC

CONSTANTS Parts, Workers, Nothing, Drafts, Past, Payments, Accounts, People,
          Phones, Member, Stranger

VARIABLES part,
          member, form, files, seasoned, savings, loans, shown, applying,
          loan, rows, balance, storing, booked, received,
          status, logs, reminded, command, today, crowded,
          campaign, recipient, sentOn, tasks, sender, date, texts, perDay, together, doubled, cutShort,
          item, invoice, blocked, mail, biller, day, late, crossed,
          declaration, payout, moved, clerk, paid, blind,
          upload, job, file, queued, importer, standing, saved, entered, deposits, again, outdated,
          money, alerts, arrears, flags, sweep, pending, hour, told, parallel, twice,
          device, notice, jobs, pusher, got, strayed, retried, registered, refused,
          blacklisted, checks, verdict, officer, calendar, overlapped, overtaken, grounds

applications == <<member, form, files, seasoned, savings, loans, shown, applying>>
instalments == <<loan, rows, balance, storing, booked, received>>
reminders == <<status, logs, reminded, command, today, crowded>>
campaigns == <<campaign, recipient, sentOn, tasks, sender, date, texts, perDay, together, doubled, cutShort>>
billing == <<item, invoice, blocked, mail, biller, day, late, crossed>>
dividends == <<declaration, payout, moved, clerk, paid, blind>>
imports == <<upload, job, file, queued, importer, standing, saved, entered, deposits, again, outdated>>
monitors == <<money, alerts, arrears, flags, sweep, pending, hour, told, parallel, twice>>
notices == <<device, notice, jobs, pusher, got, strayed, retried, registered, refused>>
credit == <<blacklisted, checks, verdict, officer, calendar, overlapped, overtaken, grounds>>

Day(y, m, d) == [year |-> y, month |-> m, day |-> d]

Apply == INSTANCE LoanApplications WITH
  Applicants <- Workers, Multiplier <- 2, Amounts <- {2}, MaxAmount <- 2,
  MaxSavings <- 1, MaxLoans <- 2, MaxFiles <- 1

\* An amount that the terms do not divide, a zero rate, and days of approval at
\* the ends of a month and of a year.
Instal == INSTANCE Instalments WITH
  Principals <- {100, 1001}, Rates <- {<<0, 1>>, <<1, 100>>, <<1, 10>>}, Terms <- {1, 3},
  Dates <- {Day(2024, 1, 30), Day(2023, 12, 25), Day(2023, 2, 10)}, DueDays <- {25, 31},
  Payments <- {40, 400}, Viewers <- Workers, MaxPayments <- 2

Remind == INSTANCE Reminders WITH
  Items <- {"i1"}, Commands <- Workers, DueOn <- [i \in {"i1"} |-> 3], DaysAhead <- {1, 3},
  LastDay <- 4, doubled <- crowded

Text == INSTANCE Campaigns WITH
  Recipients <- {1, 2}, DailyLimit <- 2, Hands <- Workers, LastDay <- 1, MaxTries <- 2,
  hand <- sender

Bill == INSTANCE Billing WITH
  Saccos <- {"sacco"}, MonthDays <- 2, LastDay <- 5, DueIn <- 0, Grace <- 1, Hands <- Workers,
  hand <- biller

\* A quarter with a February, and half a month.
Share == INSTANCE Dividends WITH
  Savings <- Accounts, Admins <- {"admin"}, MaxPaid <- 2,
  Terms <- {[first |-> 1, last |-> 3, endDay |-> 31, rate |-> 10],
            [first |-> 4, last |-> 4, endDay |-> 15, rate |-> 7]},
  Movements <- {[month |-> 1, day |-> 10, amount |-> 100050],
                [month |-> 3, day |-> 30, amount |-> 20001]}

Import == INSTANCE MemberImport WITH
  Hands <- {"worker"}, MaxRetries <- 1, MaxDeposits <- 1,
  hand <- importer, balance <- saved, booked <- entered

Watch == INSTANCE Monitors WITH
  Watched <- {"sacco"}, Amounts <- {0, 9}, Threshold <- 80, Window <- 2, LastHour <- 3,
  Borrowers <- {"loan"}, Sweepers <- Workers, MaxRetries <- 1

Tell == INSTANCE Notices WITH
  Devices <- Phones, Persons <- {Member, Stranger}, To <- Member, Nobody <- Nothing,
  Pushers <- {"worker"}, MaxTries <- 2, again <- retried, crossed <- registered

Credit == INSTANCE CreditChecks WITH
  Officers <- Workers, Window <- 1, LastDate <- 2, MaxChecks <- 2

Init ==
  /\ part \in Parts
  /\ Apply!MemberInit /\ Remind!ReminderInit /\ Bill!BillingInit /\ Watch!MonitorInit /\ Tell!NoticeInit
  /\ Credit!CreditInit /\ (part = "credit" \/ ~blacklisted)
  /\ Instal!InstalInit
  /\ part = "instalments" \/ loan = [amount |-> 100, rate |-> <<0, 1>>, term |-> 1,
                                     start |-> Day(2024, 1, 30), dueDay |-> 25,
                                     status |-> "UNDER_REVIEW"]
  /\ Text!CampaignInit /\ (part = "campaigns" \/ perDay = 0)
  /\ Share!DividendInit /\ (part = "dividends" \/ \A s \in Accounts : moved[s] = {})
  /\ Import!ImportInit
  /\ part = "imports" \/ \A p \in People : /\ file[p] = [valid |-> TRUE, amount |-> 1]
                                           /\ standing[p] = "NONE"

Next ==
  /\ UNCHANGED part
  /\ \/ /\ part = "applications" /\ Apply!MemberNext
        /\ UNCHANGED <<instalments, reminders, campaigns, billing, dividends, imports, monitors, notices, credit>>
     \/ /\ part = "instalments" /\ Instal!InstalNext
        /\ UNCHANGED <<applications, reminders, campaigns, billing, dividends, imports, monitors, notices, credit>>
     \/ /\ part = "reminders" /\ Remind!ReminderNext
        /\ UNCHANGED <<applications, instalments, campaigns, billing, dividends, imports, monitors, notices, credit>>
     \/ /\ part = "campaigns" /\ Text!CampaignNext
        /\ UNCHANGED <<applications, instalments, reminders, billing, dividends, imports, monitors, notices, credit>>
     \/ /\ part = "billing" /\ Bill!BillingNext
        /\ UNCHANGED <<applications, instalments, reminders, campaigns, dividends, imports, monitors, notices, credit>>
     \/ /\ part = "dividends" /\ Share!DividendNext
        /\ UNCHANGED <<applications, instalments, reminders, campaigns, billing, imports, monitors, notices, credit>>
     \/ /\ part = "imports" /\ Import!ImportNext
        /\ UNCHANGED <<applications, instalments, reminders, campaigns, billing, dividends, monitors, notices, credit>>
     \/ /\ \/ part = "liquidity" /\ Watch!LiquidityNext
           \/ part = "arrears" /\ Watch!ArrearsNext
        /\ UNCHANGED <<applications, instalments, reminders, campaigns, billing, dividends, imports, notices, credit>>
     \/ /\ part = "notices" /\ Tell!NoticeNext
        /\ UNCHANGED <<applications, instalments, reminders, campaigns, billing, dividends, imports,
                       monitors, credit>>
     \/ /\ part = "credit" /\ Credit!CreditNext
        /\ UNCHANGED <<applications, instalments, reminders, campaigns, billing, dividends, imports,
                       monitors, notices>>

Spec == Init /\ [][Next]_<<part, applications, instalments, reminders, campaigns, billing,
                         dividends, imports, monitors, notices, credit>>

Symmetric == Permutations(Workers) \cup Permutations(Payments) \cup Permutations(Accounts)
             \cup Permutations(Phones)

\* Every row and every step of a request or task is of its type.
OfficeTypeOK ==
  /\ Apply!MemberTypeOK /\ Instal!InstalTypeOK /\ Remind!ReminderTypeOK /\ Text!CampaignTypeOK
  /\ Bill!BillingTypeOK /\ Share!DividendTypeOK /\ Import!ImportTypeOK /\ Watch!MonitorTypeOK
  /\ Tell!NoticeTypeOK /\ Credit!CreditTypeOK

\* No loan is for more than its own application's queries could have allowed
\* (services/engines/loan_limits.py), and none is approved against its latest
\* credit check without a reason (saccomanagement/admin_views.py), with the
\* exceptions module CreditChecks names.
LimitRespected == Apply!LimitRespected /\ Credit!ApprovedOnCheck

\* A stored schedule has every instalment once and makes up the loan, and the
\* ledger has booked what the instalments took (services/engines/
\* amortization.py, payments/tasks.py _apply_loan_repayment).
InstalmentsAddUp == Instal!ScheduleAddsUp /\ Instal!RepaymentsBalance

\* A reminder, a message of a campaign, an alert and a notice go out once and to
\* the one they are for, and a SACCO's daily limit of messages holds, with the exceptions each module names
\* (services/reminder_utils.py, notifications/tasks.py, services/tasks.py).
MessagesOnce ==
  Remind!RemindedOnce /\ Text!CampaignsKeepLimit /\ Watch!AlertedOnce /\ Tell!NoticesArrive

\* A payment is billed once, by the invoice whose total it is part of
\* (billing/invoice_generator.py).
BilledOnce == Bill!BilledOnce

\* A SACCO is blocked for an unpaid, overdue invoice (billing/tasks.py,
\* billing/views.py).
BlockedForCause == Bill!BlockedForCause

\* A dividend is paid once and as declared (services/views.py DividendDisburseView).
DividendsOnce == Share!DividendsOnce

\* An opening balance is credited once and agrees with the ledger
\* (saccomanagement/tasks.py run_member_import_task).
ImportedOnce == Import!ImportedOnce
=============================================================================

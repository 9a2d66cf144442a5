---------------------------- MODULE OfficeProofs ----------------------------
(***************************************************************************)
(* What the other parts of MCOffice promise, however many workers,         *)
(* campaigns and devices there are: bills, and the messages that go out    *)
(* once; and that every part, those of OfficeMoneyProofs among them, keeps *)
(* its variables in their types.                                           *)
(***************************************************************************)
EXTENDS OfficeMoneyProofs, TLAPS

-----------------------------------------------------------------------------
(* Billing: the theorems of BillingProofs, for the values of MCOffice.     *)

Invoices == INSTANCE BillingProofs WITH
  Saccos <- {"sacco"}, MonthDays <- 2, LastDay <- 5, DueIn <- 0, Grace <- 1, Hands <- Workers,
  hand <- biller

\* The invoices of the part and of the component are the same.
LEMMA BillingRows ==
  /\ Bill!Keys = Invoices!Keys /\ Bill!Free = Invoices!Free
  /\ \A k : Bill!Uninvoiced(k) = Invoices!Uninvoiced(k)
BY DEF Bill!Keys, Invoices!Keys, Bill!Months, Invoices!Months, Bill!Free, Invoices!Free,
       Bill!Uninvoiced, Invoices!Uninvoiced, Bill!ItemsOf, Invoices!ItemsOf

\* A step of the part is one of the component.
LEMMA BillingSteps == Bill!BillingNext => Invoices!BillingNext
<1>1. ASSUME NEW t \in Payments, NEW s \in {"sacco"}, Bill!RecordItem(t, s)
      PROVE  Invoices!RecordItem(t, s)
  BY <1>1 DEF Bill!RecordItem, Invoices!RecordItem, Bill!NoItem, Invoices!NoItem,
         Bill!UtcMonth, Invoices!UtcMonth, Bill!Month, Invoices!Month
<1>2. ASSUME NEW k, Bill!MarkPaid(k) PROVE Invoices!MarkPaid(k)
  BY <1>2 DEF Bill!MarkPaid, Invoices!MarkPaid, Bill!Writing, Invoices!Writing
<1>3. ASSUME NEW k, Bill!GenerateByHand(k) PROVE Invoices!GenerateByHand(k)
  BY <1>3 DEF Bill!GenerateByHand, Invoices!GenerateByHand, Bill!ItemsOf, Invoices!ItemsOf
<1>4. ASSUME Bill!UpdateOverdue PROVE Invoices!UpdateOverdue
  BY <1>4 DEF Bill!UpdateOverdue, Invoices!UpdateOverdue, Bill!PastDue, Invoices!PastDue,
         Bill!Keys, Invoices!Keys, Bill!Months, Invoices!Months
<1>5. ASSUME Bill!NextDay PROVE Invoices!NextDay
  BY <1>5 DEF Bill!NextDay, Invoices!NextDay, Bill!Free, Invoices!Free
<1>6. ASSUME NEW h, NEW k, Bill!StartInvoice(h, k) PROVE Invoices!StartInvoice(h, k)
  BY <1>6 DEF Bill!StartInvoice, Invoices!StartInvoice, Bill!Turn, Invoices!Turn,
         Bill!Free, Invoices!Free, Bill!Month, Invoices!Month, Bill!NextNumber,
         Invoices!NextNumber, Bill!Cardinality, Invoices!Cardinality, Bill!Keys,
         Invoices!Keys, Bill!Months, Invoices!Months, Bill!Uninvoiced,
         Invoices!Uninvoiced, Bill!ItemsOf, Invoices!ItemsOf
<1>7. ASSUME NEW h, NEW k, Bill!BlockSacco(h, k) PROVE Invoices!BlockSacco(h, k)
  BY <1>7 DEF Bill!BlockSacco, Invoices!BlockSacco, Bill!Turn, Invoices!Turn
<1>8. ASSUME NEW h, NEW k, NEW addressed, Bill!StartEmail(h, k, addressed)
      PROVE  Invoices!StartEmail(h, k, addressed)
  BY <1>8 DEF Bill!StartEmail, Invoices!StartEmail, Bill!Turn, Invoices!Turn, Bill!Free,
         Invoices!Free
<1>9. ASSUME NEW h, NEW ok, Bill!MakePdf(h, ok) PROVE Invoices!MakePdf(h, ok)
  BY <1>9 DEF Bill!MakePdf, Invoices!MakePdf, Bill!Turn, Invoices!Turn, Bill!Free,
         Invoices!Free
<1>10. ASSUME NEW h, NEW ok, Bill!FinishEmail(h, ok) PROVE Invoices!FinishEmail(h, ok)
  BY <1>10 DEF Bill!FinishEmail, Invoices!FinishEmail, Bill!Turn, Invoices!Turn,
         Bill!Free, Invoices!Free
<1>11. ASSUME NEW h, Bill!CommitInvoice(h) PROVE Invoices!CommitInvoice(h)
  BY <1>11 DEF Bill!CommitInvoice, Invoices!CommitInvoice, Bill!NumberTaken,
         Invoices!NumberTaken, Bill!Turn, Invoices!Turn, Bill!Free, Invoices!Free,
         Bill!Keys, Invoices!Keys, Bill!Months, Invoices!Months, Bill!Uninvoiced,
         Invoices!Uninvoiced, Bill!ItemsOf, Invoices!ItemsOf
<1>12. ASSUME NEW h, Bill!StartSuspend(h) PROVE Invoices!StartSuspend(h)
  BY <1>12 DEF Bill!StartSuspend, Invoices!StartSuspend, Bill!Suspendable,
         Invoices!Suspendable, Bill!Turn, Invoices!Turn, Bill!Free, Invoices!Free,
         Bill!Keys, Invoices!Keys, Bill!Months, Invoices!Months
<1>13. ASSUME NEW h, Bill!MarkSuspended(h) PROVE Invoices!MarkSuspended(h)
  BY <1>13 DEF Bill!MarkSuspended, Invoices!MarkSuspended, Bill!Turn, Invoices!Turn,
         Bill!Free, Invoices!Free
<1> QED BY <1>1, <1>2, <1>3, <1>4, <1>5, <1>6, <1>7, <1>8, <1>9, <1>10, <1>11, <1>12, <1>13,
       BillingRows DEF Bill!BillingNext, Invoices!BillingNext

\* The model starts as the component does, and takes only steps of the component.
LEMMA BillingPart == Spec => Invoices!BillingSpec
<1>1. Init => Invoices!BillingInit
  BY BillingRows DEF Init, Bill!BillingInit, Invoices!BillingInit, Bill!NoItem,
         Invoices!NoItem,
         Bill!NoInvoice, Invoices!NoInvoice
<1>2. [Next]_<<part, applications, instalments, reminders, campaigns, billing,
              dividends, imports, monitors, notices, credit>>
        => [Invoices!BillingNext]_(Invoices!billingVars)
  BY BillingSteps DEF Next, billing, Invoices!billingVars
<1> QED BY <1>1, <1>2, PTL DEF Spec, Invoices!BillingSpec

\* SACCO, days and terms of MCOffice are what the theorems of BillingProofs ask for.
LEMMA BillingValues ==
  Invoices!IsFiniteSet({"sacco"}) /\ 2 \in Nat \ {0} /\ 5 \in Nat /\ 0 \in Int /\ 1 \in Int
<1>1. IsFiniteSet({"sacco"})
  BY FS_Singleton
<1>2. Invoices!IsFiniteSet({"sacco"})
  BY <1>1 DEF IsFiniteSet, Invoices!IsFiniteSet
<1> QED BY <1>2

\* A payment is billed once, by the invoice whose total it is part of, but for the
\* exceptions BilledOnce names (InvoiceGenerator.generate).
THEOREM BillsAreKept == Spec => []BilledOnce
<1>1. Invoices!BillingSpec => []Invoices!BilledOnce
  BY BillingValues, Invoices!PaymentsAreBilledOnce, PTL
<1>2. Invoices!BilledOnce => BilledOnce
  BY DEF BilledOnce, Bill!BilledOnce, Invoices!BilledOnce, Bill!Keys, Invoices!Keys,
         Bill!Months, Invoices!Months, Bill!ItemsOf, Invoices!ItemsOf
<1> QED BY <1>1, <1>2, BillingPart, PTL

\* A SACCO is blocked for an invoice that is overdue or suspended, or was paid while a
\* task was about to write it (suspend_overdue_saccos).
THEOREM BlocksHaveCause == Spec => []BlockedForCause
<1>1. Invoices!BillingSpec => []Invoices!BlockedForCause
  BY BillingValues, Invoices!BlockedOnlyForCause, PTL
<1>2. Invoices!BlockedForCause => BlockedForCause
  BY DEF BlockedForCause, Bill!BlockedForCause, Invoices!BlockedForCause,
         Bill!Months, Invoices!Months
<1> QED BY <1>1, <1>2, BillingPart, PTL
-----------------------------------------------------------------------------
(* Reminders *)

\* The run c of the command is between looking at the log for l and writing it.
Telling(c, l) == command[c].op \in {"send", "log"} /\ l = <<command[c].item, command[c].type>>

\* What a run of the command does.
Runs ==
  [op : {"rest"}] \cup [op : {"upcoming", "overdue"}, todo : SUBSET {"i1"}]
  \cup [op : {"send", "log"}, item : {"i1"}, type : Remind!ReminderTypes,
        next : {"upcoming", "overdue"}, todo : SUBSET {"i1"}]

RemindTypes == reminded \in [Remind!LogRows -> 0..2] /\ command \in [Workers -> Runs]

\* A run that works alone tells what is not in the log, and what was told is in the log
\* or about to be.
ToldInv ==
  /\ \A c, d \in Workers : command[c] # Remind!Resting /\ command[d] # Remind!Resting => c = d
  /\ \A l \in Remind!LogRows :
       /\ reminded[l] <= 1
       /\ \A c \in Workers : Telling(c, l) /\ command[c].op = "send" => reminded[l] = 0
       /\ reminded[l] > 0 => l \in logs \/ \E c \in Workers : Telling(c, l) /\ command[c].op = "log"

\* Of reminders while runs did not meet.
RemindInv == RemindTypes /\ (~crowded => ToldInv)

\* Nobody was told at first.
LEMMA InitRemind == ASSUME Remind!ReminderInit PROVE RemindInv
BY DEF Remind!ReminderInit, Remind!Resting, RemindInv, RemindTypes, Runs, ToldInv, Telling

\* A run of the command goes on to r, which tells nothing.
LEMMA QuietRemind ==
  ASSUME RemindInv, NEW c \in Workers, NEW r, command' = [command EXCEPT ![c] = r],
         UNCHANGED <<logs, reminded>>, r \in Runs, r.op \in {"rest", "upcoming", "overdue"},
         ~crowded' => ~crowded /\ command[c].op # "log",
         ~crowded' /\ r # Remind!Resting =>
           command[c] # Remind!Resting \/ \A d \in Workers : command[d] = Remind!Resting
  PROVE  RemindInv'
<1>1. RemindTypes'
  BY DEF RemindInv, RemindTypes
<1>2. ASSUME ~crowded' PROVE ToldInv'
  <2>1. /\ \A d \in Workers : d # c => command'[d] = command[d]
        /\ command'[c] = r
    BY DEF RemindInv, RemindTypes
  <2>2. \A l : /\ ~Telling(c, l)'
               /\ \A d \in Workers : d # c => (Telling(d, l)' <=> Telling(d, l))
    BY <2>1 DEF Telling
  <2>3. \A d, e \in Workers :
          command'[d] # Remind!Resting /\ command'[e] # Remind!Resting => d = e
    <3>1. command'[c] # Remind!Resting =>
            \A d \in Workers : d # c => command[d] = Remind!Resting
      BY <1>2, <2>1 DEF RemindInv, ToldInv
    <3> QED BY <1>2, <2>1, <3>1 DEF RemindInv, ToldInv
  <2> QED BY <1>2, <2>1, <2>2, <2>3 DEF RemindInv, ToldInv
<1> QED BY <1>1, <1>2 DEF RemindInv

\* A run starts, has looked at the log, ends a list or dies: it tells nothing.
LEMMA RunsRemind ==
  ASSUME RemindInv, NEW c \in Workers,
         \/ \E days \in {1, 3} : Remind!StartCommand(c, days)
         \/ Remind!StartOverdue(c) \/ Remind!EndCommand(c) \/ Remind!CommandDies(c)
  PROVE  RemindInv'
<1> USE DEF Remind!Do, Remind!Resting
<1>1. ASSUME NEW days \in {1, 3}, Remind!StartCommand(c, days) PROVE RemindInv'
  <2>1. PICK r : r = [op |-> "upcoming", todo |-> Remind!Upcoming(days)]
    OBVIOUS
  <2>2. /\ command' = [command EXCEPT ![c] = r] /\ UNCHANGED <<logs, reminded>>
        /\ ~crowded' => ~crowded /\ \A d \in Workers : command[d] = Remind!Resting
        /\ r \in Runs /\ r.op = "upcoming" /\ command[c] = Remind!Resting
    BY <1>1, <2>1 DEF Remind!StartCommand, Remind!Upcoming, Runs
  <2>3. command[c].op = "rest"
    BY <2>2
  <2> HIDE DEF Remind!Resting
  <2> QED BY <2>2, <2>3, QuietRemind
<1>2. ASSUME Remind!StartOverdue(c) PROVE RemindInv'
  <2>1. PICK r : r = [op |-> "overdue", todo |-> Remind!BecameOverdue]
    OBVIOUS
  <2>2. /\ command' = [command EXCEPT ![c] = r] /\ UNCHANGED <<logs, reminded, crowded>>
        /\ r \in Runs /\ r.op = "overdue" /\ command[c].op = "upcoming"
    BY <1>2, <2>1 DEF Remind!StartOverdue, Remind!BecameOverdue, Runs
  <2>3. command[c] # Remind!Resting
    BY <2>2
  <2> HIDE DEF Remind!Resting
  <2> QED BY <2>2, <2>3, QuietRemind
<1>3. ASSUME Remind!EndCommand(c) PROVE RemindInv'
  BY <1>3, QuietRemind DEF Remind!EndCommand, Runs
<1>4. ASSUME Remind!CommandDies(c) PROVE RemindInv'
  BY <1>4, QuietRemind DEF Remind!CommandDies, Runs
<1> QED BY <1>1, <1>2, <1>3, <1>4

\* Looking at the log.
LEMMA LookRemind ==
  ASSUME RemindInv, NEW c \in Workers, NEW i \in {"i1"}, Remind!LookAtLog(c, i)
  PROVE  RemindInv'
<1>1. PICK type \in Remind!ReminderTypes :
        type = IF command[c].op = "overdue" THEN "OVERDUE" ELSE Remind!UpcomingType(i)
  BY DEF Remind!ReminderTypes, Remind!UpcomingType
<1>2. /\ command[c].op \in {"upcoming", "overdue"} /\ UNCHANGED <<logs, reminded, crowded>>
      /\ command[c] # Remind!Resting
      /\ command[c] \in [op : {"upcoming", "overdue"}, todo : SUBSET {"i1"}]
  BY DEF Remind!LookAtLog, RemindInv, RemindTypes, Runs, Remind!Resting
<1>3. CASE Remind!ReminderExists(i, type)
  <2>1. PICK r : r = [command[c] EXCEPT !.todo = @ \ {i}]
    OBVIOUS
  <2>2. command' = [command EXCEPT ![c] = r]
    BY <1>1, <1>3, <2>1 DEF Remind!LookAtLog, Remind!Do
  <2>3. r.op = command[c].op /\ r \in Runs
    BY <1>2, <2>1 DEF Runs
  <2> QED BY <1>2, <2>2, <2>3, QuietRemind
<1>4. CASE ~Remind!ReminderExists(i, type)
  <2>1. PICK r : r = [op |-> "send", item |-> i, type |-> type, next |-> command[c].op,
                      todo |-> command[c].todo \ {i}]
    OBVIOUS
  <2>2. command' = [command EXCEPT ![c] = r]
    BY <1>1, <1>4, <2>1 DEF Remind!LookAtLog, Remind!Do
  <2>3. PICK l \in Remind!LogRows : l = <<i, type>> /\ l \notin logs
    BY <1>4 DEF Remind!ReminderExists, Remind!LogRows
  <2>4. /\ \A d \in Workers : d # c => command'[d] = command[d]
        /\ command'[c] = r
    BY <2>2 DEF RemindInv, RemindTypes
  <2>5. RemindTypes'
    <3>1. r \in Runs
      BY <1>2, <2>1 DEF Runs
    <3> QED BY <1>2, <2>2, <3>1 DEF RemindInv, RemindTypes
  <2>6. ASSUME ~crowded' PROVE ToldInv'
    <3>1. ToldInv
      BY <2>6, <1>2 DEF RemindInv
    <3>2. \A d \in Workers : d # c => command[d] = Remind!Resting
      BY <3>1, <1>2 DEF ToldInv
    <3>3. reminded[l] = 0
      <4>1. \A d \in Workers : command[d].op # "log"
        BY <1>2, <3>2 DEF Remind!Resting
      <4>2. reminded[l] \in 0..2
        BY DEF RemindInv, RemindTypes
      <4> QED BY <2>3, <3>1, <4>1, <4>2 DEF ToldInv
    <3>4. \A m : Telling(c, m)' => m = l
      BY <2>1, <2>3, <2>4 DEF Telling
    <3>5. \A d \in Workers : d # c => command'[d].op = "rest"
      BY <2>4, <3>2 DEF Remind!Resting
    <3>6. \A d, e \in Workers :
            command'[d] # Remind!Resting /\ command'[e] # Remind!Resting => d = e
      BY <2>4, <3>2
    <3>7. \A m \in Remind!LogRows :
            /\ reminded'[m] <= 1
            /\ reminded'[m] > 0 => m \in logs'
      BY <1>2, <3>1, <3>2 DEF ToldInv, Remind!Resting
    <3>8. \A m \in Remind!LogRows : \A d \in Workers :
            Telling(d, m)' /\ command'[d].op = "send" => reminded'[m] = 0
      BY <1>2, <3>3, <3>4, <3>5
    <3> QED BY <3>6, <3>7, <3>8 DEF ToldInv
  <2> QED BY <2>5, <2>6 DEF RemindInv
<1> QED BY <1>3, <1>4

\* The member is told.
LEMMA TellRemind ==
  ASSUME RemindInv, NEW c \in Workers, NEW sent \in BOOLEAN, Remind!Remind(c, sent)
  PROVE  RemindInv'
<1>1. PICK l \in Remind!LogRows : l = <<command[c].item, command[c].type>>
  BY DEF Remind!Remind, RemindInv, RemindTypes, Runs, Remind!LogRows
<1>2. /\ command[c].op = "send" /\ UNCHANGED <<logs, crowded>>
      /\ reminded' = [reminded EXCEPT ![l] = IF sent /\ @ < 2 THEN @ + 1 ELSE @]
      /\ command' = [command EXCEPT ![c] = [command[c] EXCEPT !.op = "log"]]
  BY <1>1 DEF Remind!Remind, Remind!Do
<1>3. PICK r \in Runs :
        /\ r = [command[c] EXCEPT !.op = "log"] /\ r.op = "log"
        /\ r.item = command[c].item /\ r.type = command[c].type
  BY <1>2 DEF RemindInv, RemindTypes, Runs
<1>4. /\ \A d \in Workers : d # c => command'[d] = command[d]
      /\ command'[c] = r
  BY <1>2, <1>3 DEF RemindInv, RemindTypes
<1>5. RemindTypes'
  BY <1>2, <1>3 DEF RemindInv, RemindTypes
<1>6. ASSUME ~crowded' PROVE ToldInv'
  <2>1. ToldInv
    BY <1>2, <1>6 DEF RemindInv
  <2>2. command[c] # Remind!Resting /\ r # Remind!Resting
    BY <1>2, <1>3 DEF Remind!Resting
  <2>3. \A d \in Workers : d # c => command[d] = Remind!Resting
    BY <2>1, <2>2 DEF ToldInv
  <2>4. reminded[l] = 0 /\ reminded'[l] <= 1
    <3>1. Telling(c, l)
      BY <1>1, <1>2 DEF Telling
    <3>2. reminded[l] = 0
      BY <3>1, <1>2, <2>1 DEF ToldInv
    <3> QED BY <3>2, <1>2 DEF RemindInv, RemindTypes
  <2>5. Telling(c, l)' /\ command'[c].op = "log"
    BY <1>1, <1>3, <1>4 DEF Telling
  <2>6. \A d \in Workers : command'[d].op # "send"
    <3>1. \A d \in Workers : d # c => command'[d].op = "rest"
      BY <1>4, <2>3 DEF Remind!Resting
    <3> QED BY <3>1, <1>3, <1>4
  <2>7. \A m \in Remind!LogRows : m # l =>
          /\ reminded'[m] = reminded[m]
          /\ reminded[m] > 0 => m \in logs'
    <3>1. \A m \in Remind!LogRows : m # l => reminded'[m] = reminded[m]
      BY <1>2 DEF RemindInv, RemindTypes
    <3>2. \A d \in Workers : command[d].op # "log"
      BY <1>2, <2>3 DEF Remind!Resting
    <3> QED BY <3>1, <3>2, <1>2, <2>1 DEF ToldInv
  <2>8. \A d, e \in Workers :
          command'[d] # Remind!Resting /\ command'[e] # Remind!Resting => d = e
    BY <1>4, <2>3
  <2>9. \A m \in Remind!LogRows :
          /\ reminded'[m] <= 1
          /\ reminded'[m] > 0 => m \in logs' \/ \E d \in Workers : Telling(d, m)' /\ command'[d].op = "log"
    <3>1. \A m \in Remind!LogRows : reminded[m] <= 1
      BY <2>1 DEF ToldInv
    <3> QED BY <3>1, <2>4, <2>5, <2>7
  <2> QED BY <2>6, <2>8, <2>9 DEF ToldInv
<1> QED BY <1>5, <1>6 DEF RemindInv

\* The log is written.
LEMMA LogRemind ==
  ASSUME RemindInv, NEW c \in Workers, Remind!WriteLog(c)
  PROVE  RemindInv'
<1>1. PICK l \in Remind!LogRows : l = <<command[c].item, command[c].type>>
  BY DEF Remind!WriteLog, RemindInv, RemindTypes, Runs, Remind!LogRows
<1>2. PICK r \in Runs : r = [op |-> command[c].next, todo |-> command[c].todo]
  BY DEF Remind!WriteLog, RemindInv, RemindTypes, Runs
<1>3. /\ command[c].op = "log" /\ UNCHANGED <<reminded, crowded>>
      /\ logs' = logs \cup {l} /\ command' = [command EXCEPT ![c] = r]
  BY <1>1, <1>2 DEF Remind!WriteLog, Remind!Do
<1>4. r.op \in {"upcoming", "overdue"}
  BY <1>2, <1>3 DEF RemindInv, RemindTypes, Runs
<1>5. /\ \A d \in Workers : d # c => command'[d] = command[d]
      /\ command'[c] = r
  BY <1>3 DEF RemindInv, RemindTypes
<1>6. RemindTypes'
  BY <1>2, <1>3 DEF RemindInv, RemindTypes
<1>7. ASSUME ~crowded' PROVE ToldInv'
  <2>1. ToldInv
    BY <1>3, <1>7 DEF RemindInv
  <2>2. command[c] # Remind!Resting
    BY <1>3 DEF Remind!Resting
  <2>3. \A d \in Workers : d # c => command[d] = Remind!Resting
    BY <2>1, <2>2 DEF ToldInv
  <2>4. \A d \in Workers : command'[d].op # "send"
    BY <1>4, <1>5, <2>3 DEF Remind!Resting
  <2>5. \A d, e \in Workers :
          command'[d] # Remind!Resting /\ command'[e] # Remind!Resting => d = e
    BY <1>5, <2>3
  <2>6. \A m \in Remind!LogRows : \A d \in Workers :
          Telling(d, m) /\ command[d].op = "log" => m = l
    BY <1>1, <2>3 DEF Telling, Remind!Resting
  <2>7. \A m \in Remind!LogRows :
          reminded'[m] <= 1 /\ (reminded'[m] > 0 => m \in logs')
    BY <1>3, <2>1, <2>6 DEF ToldInv
  <2> QED BY <2>4, <2>5, <2>7 DEF ToldInv
<1> QED BY <1>6, <1>7 DEF RemindInv

\* A step of the model, which is a step of one part.
LEMMA StepRemind ==
  ASSUME RemindInv, [Next]_<<part, applications, instalments, reminders, campaigns, billing,
                             dividends, imports, monitors, notices, credit>>
  PROVE  RemindInv'
<1>1. CASE Remind!ReminderNext
  <2>1. ASSUME UNCHANGED <<logs, reminded, command, crowded>> PROVE RemindInv'
    BY <2>1 DEF RemindInv, RemindTypes, ToldInv, Telling
  <2>2. CASE \/ \E i \in {"i1"} : Remind!Pays(i) \/ Remind!StaffMarksOverdue(i)
             \/ Remind!Midnight
    BY <2>1, <2>2 DEF Remind!Pays, Remind!StaffMarksOverdue, Remind!Midnight
  <2> QED BY <1>1, <2>2, RunsRemind, LookRemind, TellRemind, LogRemind DEF Remind!ReminderNext
<1>2. CASE UNCHANGED reminders
  BY <1>2 DEF reminders, RemindInv, RemindTypes, ToldInv, Telling
<1> QED BY <1>1, <1>2 DEF Next

\* A member is told once of each kind about an instalment, unless runs of the command
\* met or one died (send_repayment_reminder).
LEMMA RemindersOnce == Spec => []Remind!RemindedOnce
<1>1. Init => RemindInv
  BY InitRemind DEF Init
<1>2. RemindInv => Remind!RemindedOnce
  BY DEF RemindInv, ToldInv, RemindTypes, Remind!RemindedOnce
<1> QED BY <1>1, <1>2, StepRemind, PTL DEF Spec

-----------------------------------------------------------------------------
(* Notices *)

PushJobs == [op : {"push"}, tries : Int]

\* What the worker of the queue does.
Pushes ==
  [op : {"idle"}] \cup [op : {"push"}, job : PushJobs, todo : SUBSET Phones]
  \cup [op : {"refused"}, job : PushJobs, at : Phones, todo : SUBSET Phones]

\* What devices, tasks and the worker hold.
TellTypes ==
  /\ device \in [Phones -> [user : {Member, Stranger, Nothing}, active : BOOLEAN]]
  /\ jobs \subseteq [op : {"notify"}, inApp : BOOLEAN] \cup PushJobs
  /\ pusher \in [{"worker"} -> Pushes] /\ got \in [Phones -> 0..2]

\* The task at work has still to tell the device d.
Before(p, d) == pusher[p].op \in {"push", "refused"} /\ d \in pusher[p].todo

\* Until it is tried again there is one task, queued or at work, and a device it has
\* still to tell has got nothing.
AloneInv ==
  /\ \A i, j \in jobs : i = j
  /\ jobs # {} => /\ \A p \in {"worker"} : pusher[p].op = "idle"
                  /\ \A d \in Phones : got[d] = 0
  /\ \A d \in Phones : got[d] <= 1
  /\ \A p \in {"worker"}, d \in Phones : Before(p, d) => got[d] = 0

\* What a task has read of a device is so, or the device was registered meanwhile.
ReadInv ==
  /\ \A p \in {"worker"}, d \in Phones :
       /\ Before(p, d) => device[d].user = Member \/ d \in registered
       /\ pusher[p].op = "refused" /\ pusher[p].at = d => d \in refused \cup registered
  /\ strayed \subseteq registered
  /\ \A d \in Phones : device[d].user # Nothing /\ ~device[d].active => d \in refused \cup registered

\* Of one task until it is tried again, of devices always.
TellInv == TellTypes /\ (~retried => AloneInv) /\ ReadInv

\* No device is registered at first.
LEMMA InitTell == ASSUME Tell!NoticeInit PROVE TellInv
BY DEF Tell!NoticeInit, Tell!Still, TellInv, TellTypes, Pushes, AloneInv, ReadInv, Before

\* A device is registered.
LEMMA RegisterTell ==
  ASSUME TellInv, NEW d \in Phones, NEW u \in {Member, Stranger}, Tell!Register(d, u)
  PROVE  TellInv'
<1>1. /\ UNCHANGED <<jobs, pusher, got, strayed, retried>>
      /\ device' = [device EXCEPT ![d] = [user |-> u, active |-> TRUE]]
      /\ registered \subseteq registered' /\ (d \in Tell!Held => d \in registered')
      /\ refused' = refused \ {d}
  BY DEF Tell!Register
<1>2. TellTypes'
  BY <1>1 DEF TellInv, TellTypes
<1>3. AloneInv => AloneInv'
  BY <1>1 DEF AloneInv, Before
<1>4. /\ \A p \in {"worker"} : Before(p, d) => d \in registered'
      /\ \A p \in {"worker"} : pusher[p].op = "refused" /\ pusher[p].at = d => d \in registered'
  BY <1>1 DEF Tell!Held, Before
<1>5. /\ \A e \in Phones : e # d => device'[e] = device[e]
      /\ device'[d].active
  BY <1>1 DEF TellInv, TellTypes
<1>6. ReadInv'
  BY <1>1, <1>4, <1>5 DEF TellInv, ReadInv, Before
<1> QED BY <1>1, <1>2, <1>3, <1>6 DEF TellInv

\* A notice is created or its task queued or begun, before a device is told.
LEMMA QueueTell ==
  ASSUME TellInv,
         \/ \E dispatch \in BOOLEAN : Tell!CreateNotification(dispatch)
         \/ Tell!QueueNotify \/ Tell!MarkRead
         \/ \E j \in jobs, written, pushed \in BOOLEAN : Tell!NotifyUser(j, written, pushed)
  PROVE  TellInv'
<1>1. /\ UNCHANGED <<device, pusher, got, strayed, retried, registered, refused>>
      /\ jobs' \subseteq [op : {"notify"}, inApp : BOOLEAN] \cup PushJobs
      /\ ~retried => AloneInv'
  <2>1. CASE \/ \E dispatch \in BOOLEAN : Tell!CreateNotification(dispatch)
             \/ Tell!QueueNotify
    <3>1. /\ UNCHANGED <<device, pusher, got, strayed, retried, registered, refused>>
          /\ got = [d \in Phones |-> 0] /\ \A p \in {"worker"} : pusher[p] = Tell!Still
          /\ \E k \in [op : {"notify"}, inApp : BOOLEAN] : jobs' \in {{}, {k}}
      <4>1. \A b \in BOOLEAN : Tell!Notify(b) \in [op : {"notify"}, inApp : BOOLEAN]
        BY DEF Tell!Notify
      <4>2. ASSUME NEW dispatch \in BOOLEAN, Tell!CreateNotification(dispatch)
            PROVE  <3>1!:
        BY <4>1, <4>2 DEF Tell!CreateNotification
      <4>3. CASE Tell!QueueNotify
        BY <4>1, <4>3 DEF Tell!QueueNotify
      <4> QED BY <2>1, <4>2, <4>3
    <3>2. \A p \in {"worker"} : pusher[p].op = "idle"
      BY <3>1 DEF Tell!Still
    <3>3. \A d \in Phones : got[d] = 0
      BY <3>1
    <3> QED BY <3>1, <3>2, <3>3 DEF AloneInv, Before
  <2>2. CASE Tell!MarkRead
    BY <2>2 DEF Tell!MarkRead, TellInv, TellTypes, AloneInv, Before
  <2>3. ASSUME NEW j \in jobs, NEW written \in BOOLEAN, NEW pushed \in BOOLEAN,
               Tell!NotifyUser(j, written, pushed)
        PROVE  <1>1!:
    <3>1. PICK k : k = [op |-> "push", tries |-> 1]
      OBVIOUS
    <3>2. /\ UNCHANGED <<device, pusher, got, strayed, retried, registered, refused>>
          /\ jobs' \subseteq (jobs \ {j}) \cup {k} /\ k \in PushJobs
      BY <2>3, <3>1 DEF Tell!NotifyUser, PushJobs
    <3>3. ~retried => AloneInv'
      BY <3>2 DEF TellInv, AloneInv, Before
    <3> QED BY <3>2, <3>3 DEF TellInv, TellTypes
  <2> QED BY <2>1, <2>2, <2>3
<1>2. TellTypes' /\ ReadInv'
  BY <1>1 DEF TellInv, TellTypes, ReadInv, Before
<1> QED BY <1>1, <1>2 DEF TellInv

\* The task is begun: it works alone, on the devices of the member.
LEMMA BeginTell ==
  ASSUME TellInv, NEW p \in {"worker"}, NEW j \in jobs, Tell!StartPush(p, j)
  PROVE  TellInv'
<1>1. PICK todo \in SUBSET Phones : todo = Tell!Addressed
  BY DEF Tell!Addressed
<1>2. PICK r \in Pushes : r = [op |-> "push", job |-> j, todo |-> todo]
  BY DEF Tell!StartPush, TellInv, TellTypes, Pushes, PushJobs
<1>3. /\ UNCHANGED <<device, got, strayed, retried, registered, refused>>
      /\ jobs' = jobs \ {j} /\ pusher' = [pusher EXCEPT ![p] = r]
  BY <1>1, <1>2 DEF Tell!StartPush, Tell!Turn
<1>4. pusher'[p] = r
  BY <1>3 DEF TellInv, TellTypes
<1>5. TellTypes'
  BY <1>3 DEF TellInv, TellTypes
<1>6. \A q \in {"worker"}, d \in Phones : Before(q, d)' => d \in Tell!Addressed
  BY <1>1, <1>2, <1>4 DEF Before
<1>7. ~retried => AloneInv'
  <2>1. ASSUME ~retried PROVE jobs' = {} /\ \A d \in Phones : got'[d] = 0
    BY <2>1, <1>3 DEF TellInv, AloneInv
  <2> QED BY <2>1 DEF AloneInv
<1>8. ReadInv'
  BY <1>2, <1>3, <1>4, <1>6 DEF TellInv, ReadInv, Tell!Addressed
<1> QED BY <1>3, <1>5, <1>7, <1>8 DEF TellInv

\* A step of the task at one device, which is told at most, and after which the task
\* does r.
LEMMA WorkTell ==
  ASSUME TellInv, NEW p \in {"worker"}, NEW r \in Pushes,
         pusher[p].op \in {"push", "refused"},
         pusher' = [pusher EXCEPT ![p] = r],
         \/ UNCHANGED <<got, strayed>>
         \/ \E d \in Phones : /\ Tell!Delivered(p, d)
                              /\ r.op \in {"push", "refused"} => d \notin r.todo,
         UNCHANGED registered, refused \subseteq refused',
         device' \in [Phones -> [user : {Member, Stranger, Nothing}, active : BOOLEAN]],
         \A d \in Phones : /\ device'[d].user = device[d].user
                           /\ ~device'[d].active /\ device[d].active =>
                                pusher[p].op = "refused" /\ pusher[p].at = d,
         r.op \in {"push", "refused"} => r.todo \subseteq pusher[p].todo,
         r.op = "refused" => r.at \in refused',
         jobs' \subseteq [op : {"notify"}, inApp : BOOLEAN] \cup PushJobs,
         ~retried' => ~retried /\ jobs' = jobs
  PROVE  TellInv'
<1>1. PICK now \in SUBSET Phones :
        /\ \A d \in now : Before(p, d) /\ (r.op \in {"push", "refused"} => d \notin r.todo)
        /\ \A d \in Phones \ now : got'[d] = got[d]
        /\ \A d \in now : got'[d] \in {got[d], got[d] + 1}
        /\ got' \in [Phones -> 0..2]
        /\ \A d \in strayed' : d \in strayed \/ (d \in now /\ device[d].user # Member)
  <2>1. CASE UNCHANGED <<got, strayed>>
    <3> WITNESS {} \in SUBSET Phones
    <3> QED BY <2>1 DEF TellInv, TellTypes
  <2>2. CASE \E d \in Phones : /\ Tell!Delivered(p, d)
                               /\ r.op \in {"push", "refused"} => d \notin r.todo
    <3>1. PICK d \in Phones : /\ Tell!Delivered(p, d)
                              /\ r.op \in {"push", "refused"} => d \notin r.todo
      BY <2>2
    <3>2. /\ Before(p, d)
          /\ got' = [got EXCEPT ![d] = IF @ < 2 THEN @ + 1 ELSE @]
          /\ \A e \in strayed' : e \in strayed \/ (e = d /\ device[e].user # Member)
      BY <3>1 DEF Tell!Delivered, Tell!Count, Before
    <3>3. /\ \A e \in Phones \ {d} : got'[e] = got[e]
          /\ got'[d] \in {got[d], got[d] + 1} /\ got' \in [Phones -> 0..2]
      BY <3>2 DEF TellInv, TellTypes
    <3> WITNESS {d} \in SUBSET Phones
    <3> QED BY <3>1, <3>2, <3>3
  <2> QED BY <2>1, <2>2
<1>2. pusher'[p] = r /\ \A q \in {"worker"} : q = p
  BY DEF TellInv, TellTypes
<1>3. TellTypes'
  BY <1>1 DEF TellInv, TellTypes
<1>4. \A d \in Phones : Before(p, d)' => Before(p, d) /\ d \notin now
  BY <1>1, <1>2 DEF Before
<1>5. ASSUME ~retried' PROVE AloneInv'
  <2>1. AloneInv /\ UNCHANGED jobs /\ jobs = {}
    <3>1. AloneInv /\ UNCHANGED jobs
      BY <1>5 DEF TellInv
    <3>2. pusher[p].op # "idle"
      OBVIOUS
    <3> QED BY <3>1, <3>2 DEF AloneInv
  <2>2. \A d \in Phones : got'[d] <= 1
    BY <1>1, <1>2, <2>1 DEF AloneInv, TellInv, TellTypes
  <2>3. \A d \in Phones : Before(p, d)' => got'[d] = 0
    BY <1>1, <1>2, <1>4, <2>1 DEF AloneInv
  <2> QED BY <1>2, <2>1, <2>2, <2>3 DEF AloneInv
<1>6. ReadInv'
  <2>1. \A d \in Phones : Before(p, d)' => device'[d].user = Member \/ d \in registered'
    <3>1. \A d \in Phones : Before(p, d) => device[d].user = Member \/ d \in registered
      BY DEF TellInv, ReadInv
    <3> QED BY <3>1, <1>4
  <2>2. \A d \in Phones : pusher'[p].op = "refused" /\ pusher'[p].at = d =>
          d \in refused' \cup registered'
    BY <1>2
  <2>3. strayed' \subseteq registered'
    BY <1>1, <1>2 DEF TellInv, ReadInv
  <2>4. \A d \in Phones : device'[d].user # Nothing /\ ~device'[d].active =>
          d \in refused' \cup registered'
    <3>1. ASSUME NEW d \in Phones, device[d].user # Nothing, ~device[d].active
          PROVE  d \in refused \cup registered
      BY <3>1 DEF TellInv, ReadInv
    <3>2. ASSUME NEW d \in Phones, pusher[p].op = "refused", pusher[p].at = d
          PROVE  d \in refused \cup registered
      BY <3>2 DEF TellInv, ReadInv
    <3>3. ASSUME NEW d \in Phones, device'[d].user # Nothing, ~device'[d].active
          PROVE  d \in refused \cup registered
      <4>1. CASE device[d].active
        <5>1. pusher[p].op = "refused" /\ pusher[p].at = d
          BY <3>3, <4>1
        <5> QED BY <5>1, <3>2
      <4>2. CASE ~device[d].active
        <5>1. device[d].user # Nothing
          BY <3>3
        <5> QED BY <5>1, <4>2, <3>1
      <4> QED BY <4>1, <4>2
    <3> QED BY <3>3
  <2> QED BY <1>2, <2>1, <2>2, <2>3, <2>4 DEF ReadInv
<1> QED BY <1>3, <1>5, <1>6 DEF TellInv

\* A worker that does nothing.
LEMMA IdlePush == \E r \in Pushes : r = Tell!Still /\ r.op = "idle"
<1>1. Tell!Still \in [op : {"idle"}] /\ Tell!Still.op = "idle"
  BY DEF Tell!Still
<1> QED BY <1>1 DEF Pushes

\* The task at work sends to a device, is refused, switches a device off, fails or ends.
LEMMA PushesTell ==
  ASSUME TellInv, NEW p \in {"worker"},
         \/ \E d \in Phones : \/ Tell!PushSent(p, d) \/ Tell!PushRefused(p, d)
                              \/ Tell!PushFails(p, d)
         \/ Tell!Deactivate(p) \/ Tell!PushEnds(p)
  PROVE  TellInv'
<1>1. pusher[p] \in Pushes
  BY DEF TellInv, TellTypes
<1>2. /\ device \in [Phones -> [user : {Member, Stranger, Nothing}, active : BOOLEAN]]
      /\ jobs \subseteq [op : {"notify"}, inApp : BOOLEAN] \cup PushJobs
  BY DEF TellInv, TellTypes
<1>3. CASE \E d \in Phones : Tell!PushSent(p, d)
  <2>1. PICK d \in Phones : Tell!PushSent(p, d)
    BY <1>3
  <2>2. PICK r \in Pushes : /\ r = [pusher[p] EXCEPT !.todo = @ \ {d}]
                            /\ r.op = "push" /\ r.todo = pusher[p].todo \ {d}
    BY <1>1, <2>1 DEF Tell!PushSent, Tell!Delivered, Pushes
  <2>3. /\ Tell!Delivered(p, d) /\ pusher' = [pusher EXCEPT ![p] = r]
        /\ UNCHANGED <<device, jobs, retried, registered, refused>>
        /\ pusher[p].op = "push"
    BY <2>1, <2>2 DEF Tell!PushSent, Tell!Turn, Tell!Delivered
  <2> QED BY <1>2, <2>2, <2>3, WorkTell
<1>4. CASE \E d \in Phones : Tell!PushRefused(p, d)
  <2>1. PICK d \in Phones : Tell!PushRefused(p, d)
    BY <1>4
  <2>2. PICK r \in Pushes : /\ r = [op |-> "refused", job |-> pusher[p].job, at |-> d,
                                    todo |-> pusher[p].todo \ {d}]
                            /\ r.op = "refused" /\ r.at = d
                            /\ r.todo = pusher[p].todo \ {d}
    BY <1>1, <2>1 DEF Tell!PushRefused, Pushes
  <2>3. /\ pusher' = [pusher EXCEPT ![p] = r] /\ refused' = refused \cup {d}
        /\ UNCHANGED <<device, jobs, retried, registered, got, strayed>>
        /\ pusher[p].op = "push"
    BY <2>1, <2>2 DEF Tell!PushRefused, Tell!Turn
  <2> QED BY <1>2, <2>2, <2>3, WorkTell
<1>5. CASE Tell!Deactivate(p)
  <2>1. PICK r \in Pushes : /\ r = [op |-> "push", job |-> pusher[p].job,
                                    todo |-> pusher[p].todo]
                            /\ r.op = "push" /\ r.todo = pusher[p].todo
    BY <1>1, <1>5 DEF Tell!Deactivate, Pushes
  <2>2. PICK at \in Phones : at = pusher[p].at
    BY <1>1, <1>5 DEF Tell!Deactivate, Pushes
  <2>3. /\ pusher' = [pusher EXCEPT ![p] = r] /\ pusher[p].op = "refused"
        /\ UNCHANGED <<jobs, retried, registered, refused, got, strayed>>
        /\ device' = [device EXCEPT ![at].active = FALSE]
    BY <1>5, <2>1, <2>2 DEF Tell!Deactivate, Tell!Turn
  <2>4. /\ device' \in [Phones -> [user : {Member, Stranger, Nothing}, active : BOOLEAN]]
        /\ \A d \in Phones : device'[d].user = device[d].user
        /\ \A d \in Phones \ {at} : device'[d] = device[d]
    BY <1>2, <2>3
  <2> QED BY <1>2, <2>1, <2>2, <2>3, <2>4, WorkTell
<1>6. CASE \E d \in Phones : Tell!PushFails(p, d)
  <2>1. PICK d \in Phones : Tell!PushFails(p, d)
    BY <1>6
  <2>2. PICK more \in SUBSET PushJobs : more = Tell!Retried(pusher[p].job)
    <3>1. PICK j \in PushJobs : j = pusher[p].job
      BY <1>1, <2>1 DEF Tell!PushFails, Tell!Delivered, Pushes
    <3>2. [j EXCEPT !.tries = @ + 1] \in PushJobs
      BY <3>1 DEF PushJobs
    <3> QED BY <3>1, <3>2 DEF Tell!Retried
  <2>3. PICK r \in Pushes : r = Tell!Still /\ r.op = "idle"
    BY IdlePush
  <2>4. /\ pusher' = [pusher EXCEPT ![p] = r] /\ pusher[p].op = "push"
        /\ UNCHANGED <<device, registered, refused>>
        /\ Tell!Delivered(p, d) \/ UNCHANGED <<got, strayed>>
        /\ jobs' = jobs \cup more /\ retried' = (retried \/ more # {})
    BY <2>1, <2>2, <2>3 DEF Tell!PushFails, Tell!Turn, Tell!Delivered
  <2>5. \/ UNCHANGED <<got, strayed>>
        \/ \E e \in Phones : /\ Tell!Delivered(p, e)
                             /\ r.op \in {"push", "refused"} => e \notin r.todo
    <3>1. r.op \in {"push", "refused"} => d \notin r.todo
      BY <2>3
    <3>2. CASE Tell!Delivered(p, d)
      BY <3>1, <3>2, Zenon
    <3>3. CASE UNCHANGED <<got, strayed>>
      BY <3>3, Zenon
    <3> QED BY <2>4, <3>2, <3>3, Zenon
  <2>6. /\ jobs' \subseteq [op : {"notify"}, inApp : BOOLEAN] \cup PushJobs
        /\ ~retried' => ~retried /\ jobs' = jobs
    <3>1. jobs' \subseteq [op : {"notify"}, inApp : BOOLEAN] \cup PushJobs
      BY <1>2, <2>4
    <3>2. ASSUME ~retried' PROVE ~retried /\ more = {}
      BY <2>4, <3>2, Zenon
    <3>3. ~retried' => jobs' = jobs
      BY <2>4, <3>2
    <3> QED BY <3>1, <3>2, <3>3
  <2>7. /\ device' \in [Phones -> [user : {Member, Stranger, Nothing}, active : BOOLEAN]]
        /\ \A e \in Phones : device'[e] = device[e]
    BY <1>2, <2>4
  <2> QED BY <2>3, <2>4, <2>5, <2>6, <2>7, WorkTell
<1>7. CASE Tell!PushEnds(p)
  <2>1. PICK r \in Pushes : r = Tell!Still /\ r.op = "idle"
    BY IdlePush
  <2>2. /\ pusher' = [pusher EXCEPT ![p] = r] /\ pusher[p].op \in {"push", "refused"}
        /\ UNCHANGED <<device, jobs, retried, registered, refused, got, strayed>>
    BY <1>7, <2>1 DEF Tell!PushEnds, Tell!Turn
  <2> QED BY <1>2, <2>1, <2>2, WorkTell
<1> QED BY <1>3, <1>4, <1>5, <1>6, <1>7

\* A step of the model, which is a step of one part.
LEMMA StepTell ==
  ASSUME TellInv, [Next]_<<part, applications, instalments, reminders, campaigns, billing,
                           dividends, imports, monitors, notices, credit>>
  PROVE  TellInv'
<1>1. CASE Tell!NoticeNext
  BY <1>1, RegisterTell, QueueTell, BeginTell, PushesTell DEF Tell!NoticeNext
<1>2. CASE UNCHANGED notices
  BY <1>2 DEF notices, TellInv, TellTypes, AloneInv, ReadInv, Before
<1> QED BY <1>1, <1>2 DEF Next

\* A device gets the notice once unless the task was tried again, and it is its user's, or
\* was registered meanwhile (send_push_notification_task).
LEMMA NoticesOnce == Spec => []Tell!NoticesArrive
<1>1. Init => TellInv
  BY InitTell DEF Init
<1>2. TellInv => Tell!NoticesArrive
  BY DEF TellInv, TellTypes, AloneInv, ReadInv, Tell!NoticesArrive
<1> QED BY <1>1, <1>2, StepTell, PTL DEF Spec

-----------------------------------------------------------------------------
(* Alerts and flags *)

\* What a run of the monitors does.
Sweeps ==
  [op : {"rest"}]
  \cup [op : {"check"}, todo : SUBSET {"sacco"}, n : Int]
  \cup [op : {"check", "alert"}, of : {"sacco"}, todo : SUBSET {"sacco"}, n : Int]
  \cup [op : {"flag"}, todo : SUBSET {"loan"}, n : Int]
  \cup [op : {"flag"}, todo : SUBSET {"loan"}, n : Int, of : {"loan"} \X Int]
  \cup [op : {"notice"}, todo : SUBSET {"loan"}, n : Int, of : {"loan"} \X (1..3)]

\* What the runs, alerts and flags hold.
WatchTypes ==
  /\ sweep \in [Workers -> Sweeps] /\ hour \in Int /\ alerts \in [{"sacco"} -> SUBSET Int]
  /\ flags \in [{"loan"} -> [1..3 -> {"none", "open", "resolved"}]]
  /\ told \in [{"loan"} -> [1..3 -> Int]] /\ arrears \in [{"loan"} -> Int]

Checks(w) == sweep[w].op \in {"check", "alert"}

\* The run w has raised stage b and not announced it yet.
Noticing(w, b) == sweep[w].op = "notice" /\ sweep[w].of[2] = b

\* While checks have run one at a time, whoever is about to create an alert knows that
\* there is none within the window.
ChecksInv ==
  ~parallel =>
    /\ ~twice
    /\ \A v, w \in Workers : Checks(v) /\ Checks(w) => v = w
    /\ \A w \in Workers : sweep[w].op = "alert" => ~Watch!Recent("sacco")

\* A stage is announced by whoever flagged it, and nobody has announced it before.
FlagsInv ==
  \A b \in 1..3 :
    /\ told["loan"][b] <= 1
    /\ flags["loan"][b] = "none" => told["loan"][b] = 0
    /\ \A w \in Workers : Noticing(w, b) => told["loan"][b] = 0 /\ flags["loan"][b] # "none"
    /\ \A v, w \in Workers : Noticing(v, b) /\ Noticing(w, b) => v = w

\* The invariant of the monitors.
WatchInv == WatchTypes /\ ChecksInv /\ FlagsInv

\* A worker that rests.
LEMMA RestingSweep == Watch!Resting \in Sweeps /\ Watch!Resting.op = "rest"
<1>1. Watch!Resting \in [op : {"rest"}] /\ Watch!Resting.op = "rest"
  BY DEF Watch!Resting
<1> QED BY <1>1 DEF Sweeps

\* Nothing has been announced at first.
LEMMA InitWatch == ASSUME Watch!MonitorInit PROVE WatchInv
<1>1. PICK rest \in Sweeps : rest = Watch!Resting /\ rest.op = "rest"
  BY RestingSweep
<1>2. /\ sweep = [w \in Workers |-> rest] /\ hour = 0 /\ ~twice
      /\ alerts = [s \in {"sacco"} |-> {}] /\ arrears = [l \in {"loan"} |-> 0]
      /\ flags = [l \in {"loan"} |-> [b \in 1..3 |-> "none"]]
      /\ told = [l \in {"loan"} |-> [b \in 1..3 |-> 0]]
  BY <1>1 DEF Watch!MonitorInit, Watch!Stages
<1>3. WatchTypes
  BY <1>2 DEF WatchTypes
<1>4. \A w \in Workers : sweep[w].op = "rest"
  BY <1>1, <1>2
<1>5. ChecksInv
  BY <1>2, <1>4 DEF ChecksInv, Checks
<1>6. FlagsInv
  BY <1>2, <1>4 DEF FlagsInv, Noticing
<1> QED BY <1>3, <1>5, <1>6 DEF WatchInv

\* Reserves, loans and repayments change, or an hour passes.
LEMMA QuietWatch ==
  ASSUME WatchInv,
         \/ \E s \in {"sacco"}, reserves, out \in {0, 9} : Watch!MoneyMoves(s, reserves, out)
         \/ \E l \in {"loan"} : Watch!GrowsLater(l)
         \/ \E l \in {"loan"}, later \in {0, 1, Watch!Clear} : Watch!RepaymentComes(l, later)
         \/ Watch!HourPasses
  PROVE  WatchInv'
<1>1. /\ UNCHANGED <<alerts, flags, sweep, told, parallel, twice>>
      /\ arrears' \in [{"loan"} -> Int] /\ hour' \in Int
      /\ hour' = hour \/ \A w \in Workers : sweep[w] = Watch!Resting
  <2>1. CASE Watch!HourPasses
    BY <2>1 DEF Watch!HourPasses, WatchInv, WatchTypes
  <2>2. CASE \E s \in {"sacco"}, reserves, out \in {0, 9} : Watch!MoneyMoves(s, reserves, out)
    BY <2>2 DEF Watch!MoneyMoves, WatchInv, WatchTypes
  <2>3. CASE \E l \in {"loan"} : Watch!GrowsLater(l)
    BY <2>3 DEF Watch!GrowsLater, WatchInv, WatchTypes
  <2>4. CASE \E l \in {"loan"}, later \in {0, 1, Watch!Clear} : Watch!RepaymentComes(l, later)
    BY <2>4 DEF Watch!RepaymentComes, Watch!Clear, WatchInv, WatchTypes
  <2> QED BY <2>1, <2>2, <2>3, <2>4
<1>2. WatchTypes'
  BY <1>1 DEF WatchInv, WatchTypes
<1>3. FlagsInv'
  BY <1>1 DEF WatchInv, FlagsInv, Noticing
<1>4. ChecksInv'
  <2>1. CASE hour' = hour
    BY <1>1, <2>1 DEF WatchInv, ChecksInv, Checks, Watch!Recent
  <2>2. CASE \A w \in Workers : sweep[w] = Watch!Resting
    <3>1. \A w \in Workers : sweep[w].op = "rest"
      BY <2>2, RestingSweep
    <3> QED BY <1>1, <3>1 DEF WatchInv, ChecksInv, Checks
  <2> QED BY <1>1, <2>1, <2>2
<1> QED BY <1>2, <1>3, <1>4 DEF WatchInv

\* A step of a worker that leaves alerts and flags as they are, and creates or announces
\* none next.
LEMMA TurnWatch ==
  ASSUME WatchInv, NEW w \in Workers, NEW r \in Sweeps, r.op \notin {"alert", "notice"},
         sweep' = [sweep EXCEPT ![w] = r], UNCHANGED <<alerts, flags, hour, told, arrears, twice>>,
         ~parallel' => /\ ~parallel
                       /\ r.op = "check" => Checks(w) \/ \A v \in Workers : ~Checks(v)
  PROVE  WatchInv'
<1>1. /\ sweep \in [Workers -> Sweeps] /\ sweep'[w] = r
      /\ \A v \in Workers \ {w} : sweep'[v] = sweep[v]
  BY DEF WatchInv, WatchTypes
<1>2. WatchTypes'
  BY DEF WatchInv, WatchTypes
<1>3. FlagsInv'
  <2>1. \A v \in Workers, b \in 1..3 : Noticing(v, b)' => Noticing(v, b)
    BY <1>1 DEF Noticing
  <2>2. \A b \in 1..3 : /\ told'["loan"][b] = told["loan"][b]
                        /\ flags'["loan"][b] = flags["loan"][b]
    OBVIOUS
  <2> QED BY <2>1, <2>2 DEF WatchInv, FlagsInv
<1>4. ASSUME ~parallel' PROVE ChecksInv!2'
  <2>1. /\ ~twice' /\ \A u, v \in Workers : Checks(u) /\ Checks(v) => u = v
        /\ \A v \in Workers : sweep[v].op = "alert" => ~Watch!Recent("sacco")
    BY <1>4 DEF WatchInv, ChecksInv
  <2>2. \A u, v \in Workers : Checks(u)' /\ Checks(v)' => u = v
    BY <1>1, <1>4, <2>1 DEF Checks
  <2>3. \A v \in Workers : sweep'[v].op = "alert" => ~Watch!Recent("sacco")'
    BY <1>1, <2>1 DEF Watch!Recent
  <2> QED BY <2>1, <2>2, <2>3
<1> QED BY <1>2, <1>3, <1>4 DEF WatchInv, ChecksInv

\* A sweep is begun, fails or ends.
LEMMA SweepWatch ==
  ASSUME WatchInv, NEW w \in Workers,
         \/ \E n \in 0..1 : Watch!StartCheck(w, n) \/ Watch!StartFlagging(w, n)
         \/ Watch!FlaggingFails(w) \/ Watch!EndSweep(w)
  PROVE  WatchInv'
<1>1. CASE \E n \in 0..1 : Watch!StartCheck(w, n)
  <2>1. PICK n \in 0..1 : Watch!StartCheck(w, n)
    BY <1>1
  <2>2. PICK r \in Sweeps : r = [op |-> "check", todo |-> {"sacco"}, n |-> n] /\ r.op = "check"
    <3>1. [op |-> "check", todo |-> {"sacco"}, n |-> n] \in Sweeps
      BY DEF Sweeps
    <3> QED BY <3>1
  <2>3. /\ sweep' = [sweep EXCEPT ![w] = r]
        /\ UNCHANGED <<alerts, flags, hour, told, arrears, twice>>
    BY <2>1, <2>2 DEF Watch!StartCheck, Watch!Turn
  <2>4. ~parallel' => ~parallel /\ \A v \in Workers : ~Checks(v)
    BY <2>1, Zenon DEF Watch!StartCheck, Watch!Checking, Checks
  <2> QED BY <2>2, <2>3, <2>4, TurnWatch
<1>2. CASE \E n \in 0..1 : Watch!StartFlagging(w, n)
  <2>1. PICK n \in 0..1 : Watch!StartFlagging(w, n)
    BY <1>2
  <2>2. PICK r \in Sweeps : r = [op |-> "flag", todo |-> {"loan"}, n |-> n] /\ r.op = "flag"
    <3>1. [op |-> "flag", todo |-> {"loan"}, n |-> n] \in Sweeps
      BY DEF Sweeps
    <3> QED BY <3>1
  <2>3. /\ sweep' = [sweep EXCEPT ![w] = r]
        /\ UNCHANGED <<alerts, flags, hour, told, arrears, twice, parallel>>
    BY <2>1, <2>2 DEF Watch!StartFlagging, Watch!Turn
  <2> QED BY <2>2, <2>3, TurnWatch
<1>3. CASE Watch!FlaggingFails(w) \/ Watch!EndSweep(w)
  <2>1. PICK r \in Sweeps : r = Watch!Resting /\ r.op = "rest"
    BY RestingSweep
  <2>2. /\ sweep' = [sweep EXCEPT ![w] = r]
        /\ UNCHANGED <<alerts, flags, hour, told, arrears, twice, parallel>>
    BY <1>3, <2>1 DEF Watch!FlaggingFails, Watch!EndSweep, Watch!Turn
  <2> QED BY <2>1, <2>2, TurnWatch
<1> QED BY <1>1, <1>2, <1>3

\* A SACCO is checked: an alert is created next only if there is none within the window.
LEMMA CheckWatch ==
  ASSUME WatchInv, NEW w \in Workers, Watch!CheckSacco(w, "sacco")
  PROVE  WatchInv'
<1>1. sweep[w] \in Sweeps /\ sweep[w].op = "check"
  BY DEF WatchInv, WatchTypes, Watch!CheckSacco
<1>2. PICK r \in Sweeps : /\ r = [op |-> IF Watch!AtRisk("sacco") /\ ~Watch!Recent("sacco")
                                         THEN "alert" ELSE "check",
                                  of |-> "sacco", todo |-> sweep[w].todo \ {"sacco"}, n |-> sweep[w].n]
                          /\ r.op \in {"check", "alert"}
                          /\ r.op = "alert" => Watch!AtRisk("sacco") /\ ~Watch!Recent("sacco")
  <2>1. sweep[w].todo \in SUBSET {"sacco"} /\ sweep[w].n \in Int
    BY <1>1 DEF Sweeps
  <2>2. PICK new \in {"alert", "check"} :
          /\ new = IF Watch!AtRisk("sacco") /\ ~Watch!Recent("sacco") THEN "alert" ELSE "check"
          /\ new = "alert" => Watch!AtRisk("sacco") /\ ~Watch!Recent("sacco")
    OBVIOUS
  <2>3. [op |-> new, of |-> "sacco", todo |-> sweep[w].todo \ {"sacco"}, n |-> sweep[w].n] \in Sweeps
    BY <2>1 DEF Sweeps
  <2> QED BY <2>2, <2>3
<1>3. /\ sweep' = [sweep EXCEPT ![w] = r]
      /\ alerts' = IF Watch!AtRisk("sacco") THEN alerts ELSE [alerts EXCEPT !["sacco"] = {}]
      /\ UNCHANGED <<flags, hour, told, arrears, twice, parallel>>
  BY <1>2 DEF Watch!CheckSacco, Watch!Turn
<1>4. /\ sweep'[w] = r /\ \A v \in Workers \ {w} : sweep'[v] = sweep[v]
  BY <1>3 DEF WatchInv, WatchTypes
<1>5. WatchTypes'
  BY <1>3 DEF WatchInv, WatchTypes
<1>6. FlagsInv'
  <2>1. \A v \in Workers, b \in 1..3 : Noticing(v, b)' => Noticing(v, b)
    BY <1>2, <1>4 DEF Noticing
  <2>2. \A b \in 1..3 : /\ told'["loan"][b] = told["loan"][b]
                        /\ flags'["loan"][b] = flags["loan"][b]
    BY <1>3
  <2> QED BY <2>1, <2>2 DEF WatchInv, FlagsInv
<1>7. ASSUME ~parallel' PROVE ChecksInv!2'
  <2>1. /\ ~twice' /\ \A u, v \in Workers : Checks(u) /\ Checks(v) => u = v
    BY <1>3, <1>7 DEF WatchInv, ChecksInv
  <2>2. \A v \in Workers : Checks(v)' => v = w
    BY <1>1, <1>4, <2>1 DEF Checks
  <2>3. sweep'[w].op = "alert" => ~Watch!Recent("sacco")'
    BY <1>2, <1>3, <1>4 DEF Watch!Recent
  <2>4. \A v \in Workers : sweep'[v].op = "alert" => ~Watch!Recent("sacco")'
    BY <2>2, <2>3 DEF Checks
  <2> QED BY <2>1, <2>2, <2>4
<1> QED BY <1>5, <1>6, <1>7 DEF WatchInv, ChecksInv

\* An alert is created, which nobody else is about to do.
LEMMA AlertWatch ==
  ASSUME WatchInv, NEW w \in Workers, NEW administered \in BOOLEAN,
         Watch!CreateAlert(w, administered)
  PROVE  WatchInv'
<1>1. /\ sweep[w] \in Sweeps /\ sweep[w].op = "alert"
      /\ sweep[w].of = "sacco" /\ sweep[w].todo \in SUBSET {"sacco"} /\ sweep[w].n \in Int
  <2>1. sweep[w] \in Sweeps /\ sweep[w].op = "alert"
    BY DEF WatchInv, WatchTypes, Watch!CreateAlert
  <2> QED BY <2>1 DEF Sweeps
<1>2. PICK r \in Sweeps : r.op \in {"rest", "check"} /\ sweep' = [sweep EXCEPT ![w] = r]
  <2>1. CASE administered
    BY <2>1, RestingSweep DEF Watch!CreateAlert, Watch!Turn
  <2>2. CASE ~administered
    <3>1. PICK r \in Sweeps : r = [sweep[w] EXCEPT !.op = "check"] /\ r.op = "check"
      <4>1. /\ [sweep[w] EXCEPT !.op = "check"] \in Sweeps
            /\ [sweep[w] EXCEPT !.op = "check"].op = "check"
        BY <1>1 DEF Sweeps
      <4> QED BY <4>1
    <3> QED BY <2>2, <3>1 DEF Watch!CreateAlert, Watch!Turn
  <2> QED BY <2>1, <2>2
<1>3. /\ alerts' = [alerts EXCEPT !["sacco"] = @ \cup {hour}]
      /\ twice' = (twice \/ \E t \in alerts["sacco"] : hour - t < 2)
      /\ UNCHANGED <<flags, hour, told, arrears, parallel>>
  BY <1>1 DEF Watch!CreateAlert
<1>4. /\ sweep'[w] = r /\ \A v \in Workers \ {w} : sweep'[v] = sweep[v]
  BY <1>2 DEF WatchInv, WatchTypes
<1>5. WatchTypes'
  BY <1>2, <1>3 DEF WatchInv, WatchTypes
<1>6. FlagsInv'
  <2>1. \A v \in Workers, b \in 1..3 : Noticing(v, b)' => Noticing(v, b)
    BY <1>2, <1>4 DEF Noticing
  <2>2. \A b \in 1..3 : /\ told'["loan"][b] = told["loan"][b]
                        /\ flags'["loan"][b] = flags["loan"][b]
    BY <1>3
  <2> QED BY <2>1, <2>2 DEF WatchInv, FlagsInv
<1>7. ASSUME ~parallel' PROVE ChecksInv!2'
  <2>1. /\ ~twice /\ \A u, v \in Workers : Checks(u) /\ Checks(v) => u = v
        /\ ~Watch!Recent("sacco")
    BY <1>1, <1>3, <1>7 DEF WatchInv, ChecksInv
  <2>2. \A v \in Workers : Checks(v)' => v = w
    BY <1>1, <1>4, <2>1 DEF Checks
  <2>3. \A v \in Workers : sweep'[v].op # "alert"
    BY <1>2, <1>4, <2>2 DEF Checks
  <2>4. ~\E t \in alerts["sacco"] : hour - t < 2
    BY <2>1 DEF Watch!Recent, WatchInv, WatchTypes
  <2>5. ~twice'
    BY <1>3, <2>1, <2>4, Zenon
  <2> QED BY <2>2, <2>3, <2>5
<1> QED BY <1>5, <1>6, <1>7 DEF WatchInv, ChecksInv

\* A loan is flagged: the stage is announced next if it was not flagged before.
LEMMA FlagWatch ==
  ASSUME WatchInv, NEW w \in Workers, Watch!FlagLoan(w, "loan")
  PROVE  WatchInv'
<1>1. /\ sweep[w] \in Sweeps /\ sweep[w].op = "flag" /\ sweep[w].todo \in SUBSET {"loan"}
      /\ sweep[w].n \in Int
  <2>1. sweep[w] \in Sweeps /\ sweep[w].op = "flag"
    BY DEF WatchInv, WatchTypes, Watch!FlagLoan
  <2> QED BY <2>1 DEF Sweeps
<1>2. PICK a \in Int : a = arrears["loan"]
  BY DEF WatchInv, WatchTypes
<1>3. PICK old \in [1..3 -> {"none", "open", "resolved"}] : old = flags["loan"]
  BY DEF WatchInv, WatchTypes
<1>4. PICK new \in BOOLEAN : new <=> a \in 1..3 /\ old[a] = "none"
  OBVIOUS
<1>5. PICK row \in [1..3 -> {"none", "open", "resolved"}] :
        /\ row = IF a = Watch!Clear
                 THEN [b \in 1..3 |-> IF old[b] = "open" THEN "resolved" ELSE old[b]]
                 ELSE IF a \in 1..3 /\ old[a] = "none" THEN [old EXCEPT ![a] = "open"] ELSE old
        /\ \A b \in 1..3 : row[b] = "none" => old[b] = "none" /\ ~(new /\ b = a)
  <2>1. CASE a = Watch!Clear
    <3> DEFINE row == [b \in 1..3 |-> IF old[b] = "open" THEN "resolved" ELSE old[b]]
    <3>1. /\ row \in [1..3 -> {"none", "open", "resolved"}] /\ ~new
          /\ \A b \in 1..3 : row[b] = "none" => old[b] = "none"
      BY <1>4, <2>1 DEF Watch!Clear
    <3> HIDE DEF row
    <3>2. row = [b \in 1..3 |-> IF old[b] = "open" THEN "resolved" ELSE old[b]]
      BY DEF row
    <3> QED BY <2>1, <3>1, <3>2
  <2>2. CASE a # Watch!Clear /\ a \in 1..3 /\ old[a] = "none"
    <3> DEFINE row == [old EXCEPT ![a] = "open"]
    <3>1. /\ row \in [1..3 -> {"none", "open", "resolved"}]
          /\ \A b \in 1..3 : row[b] = "none" => old[b] = "none" /\ b # a
      BY <2>2
    <3> QED BY <2>2, <3>1
  <2>3. CASE a # Watch!Clear /\ ~(a \in 1..3 /\ old[a] = "none")
    BY <1>4, <2>3
  <2> QED BY <2>1, <2>2, <2>3
<1>6. PICK r \in Sweeps : /\ r = [op |-> IF a \in 1..3 /\ old[a] = "none" THEN "notice" ELSE "flag",
                                  todo |-> sweep[w].todo \ {"loan"}, n |-> sweep[w].n, of |-> <<"loan", a>>]
                          /\ r.op \in {"flag", "notice"} /\ (r.op = "notice" => new)
                          /\ r.of[2] = a
  <2>1. CASE new
    <3>1. [op |-> "notice", todo |-> sweep[w].todo \ {"loan"}, n |-> sweep[w].n,
           of |-> <<"loan", a>>] \in Sweeps
      BY <1>1, <1>4, <2>1 DEF Sweeps
    <3> QED BY <1>4, <2>1, <3>1
  <2>2. CASE ~new
    <3>1. [op |-> "flag", todo |-> sweep[w].todo \ {"loan"}, n |-> sweep[w].n,
           of |-> <<"loan", a>>] \in Sweeps
      BY <1>1 DEF Sweeps
    <3> QED BY <1>4, <2>2, <3>1
  <2> QED BY <2>1, <2>2
<1>7. /\ sweep' = [sweep EXCEPT ![w] = r]
      /\ flags' = [flags EXCEPT !["loan"] = row]
      /\ UNCHANGED <<alerts, hour, told, arrears, twice, parallel>>
  BY <1>2, <1>3, <1>5, <1>6 DEF Watch!FlagLoan, Watch!Turn, Watch!Stages
<1>8. /\ sweep'[w] = r /\ \A v \in Workers \ {w} : sweep'[v] = sweep[v]
      /\ flags'["loan"] = row
  BY <1>7 DEF WatchInv, WatchTypes
<1>9. WatchTypes'
  BY <1>7 DEF WatchInv, WatchTypes
<1>10. FlagsInv'
  <2>1. \A v \in Workers, b \in 1..3 : Noticing(v, b)' => Noticing(v, b) \/ (v = w /\ b = a /\ new)
    BY <1>6, <1>8 DEF Noticing
  <2>2. \A b \in 1..3 : told'["loan"][b] = told["loan"][b]
    BY <1>7
  <2>3. ASSUME new PROVE told["loan"][a] = 0 /\ \A v \in Workers : ~Noticing(v, a)
    BY <1>3, <1>4, <2>3 DEF WatchInv, FlagsInv
  <2>4. \A b \in 1..3 : row[b] = "none" => told["loan"][b] = 0
    BY <1>3, <1>5 DEF WatchInv, FlagsInv
  <2>5. \A v \in Workers, b \in 1..3 : Noticing(v, b)' => told["loan"][b] = 0 /\ row[b] # "none"
    BY <1>3, <1>5, <2>1, <2>3 DEF WatchInv, FlagsInv
  <2>6. \A u, v \in Workers, b \in 1..3 : Noticing(u, b)' /\ Noticing(v, b)' => u = v
    BY <2>1, <2>3 DEF WatchInv, FlagsInv
  <2>7. \A b \in 1..3 : told["loan"][b] <= 1
    BY DEF WatchInv, FlagsInv
  <2> QED BY <1>8, <2>2, <2>4, <2>5, <2>6, <2>7 DEF FlagsInv
<1>11. ASSUME ~parallel' PROVE ChecksInv!2'
  <2>1. /\ ~twice /\ \A u, v \in Workers : Checks(u) /\ Checks(v) => u = v
        /\ \A v \in Workers : sweep[v].op = "alert" => ~Watch!Recent("sacco")
    BY <1>7, <1>11 DEF WatchInv, ChecksInv
  <2>2. \A v \in Workers : /\ Checks(v)' => Checks(v)
                           /\ sweep'[v].op = "alert" => sweep[v].op = "alert"
    BY <1>6, <1>8 DEF Checks
  <2>3. Watch!Recent("sacco")' <=> Watch!Recent("sacco")
    BY <1>7 DEF Watch!Recent
  <2> QED BY <1>7, <2>1, <2>2, <2>3
<1> QED BY <1>9, <1>10, <1>11 DEF WatchInv, ChecksInv

\* A stage is announced, by the only worker that is about to.
LEMMA SendWatch ==
  ASSUME WatchInv, NEW w \in Workers, Watch!SendNotice(w)
  PROVE  WatchInv'
<1>1. PICK b \in 1..3 : /\ sweep[w].op = "notice" /\ sweep[w].of = <<"loan", b>>
                        /\ sweep[w].todo \in SUBSET {"loan"} /\ sweep[w].n \in Int
                        /\ sweep[w] \in [op : {"notice"}, todo : SUBSET {"loan"}, n : Int,
                                         of : {"loan"} \X (1..3)]
  <2>1. sweep[w] \in Sweeps /\ sweep[w].op = "notice"
    BY DEF WatchInv, WatchTypes, Watch!SendNotice
  <2>2. sweep[w] \in [op : {"notice"}, todo : SUBSET {"loan"}, n : Int, of : {"loan"} \X (1..3)]
    BY <2>1 DEF Sweeps
  <2> QED BY <2>1, <2>2
<1>2. PICK r \in Sweeps : r = [sweep[w] EXCEPT !.op = "flag"] /\ r.op = "flag"
  <2>1. /\ [sweep[w] EXCEPT !.op = "flag"] \in Sweeps
        /\ [sweep[w] EXCEPT !.op = "flag"].op = "flag"
    BY <1>1 DEF Sweeps
  <2> QED BY <2>1
<1>3. /\ sweep' = [sweep EXCEPT ![w] = r]
      /\ told' = [told EXCEPT !["loan"][b] = @ + 1]
      /\ UNCHANGED <<alerts, flags, hour, arrears, twice, parallel>>
  BY <1>1, <1>2 DEF Watch!SendNotice, Watch!Turn
<1>4. /\ sweep'[w] = r /\ \A v \in Workers \ {w} : sweep'[v] = sweep[v]
      /\ told' \in [{"loan"} -> [1..3 -> Int]]
      /\ told'["loan"][b] = told["loan"][b] + 1
      /\ \A c \in 1..3 : c # b => told'["loan"][c] = told["loan"][c]
  BY <1>3 DEF WatchInv, WatchTypes
<1>5. WatchTypes'
  BY <1>3, <1>4 DEF WatchInv, WatchTypes
<1>6. FlagsInv'
  <2>1. \A v \in Workers, c \in 1..3 : Noticing(v, c)' => Noticing(v, c) /\ v # w
    BY <1>2, <1>4 DEF Noticing
  <2>2. Noticing(w, b) /\ told["loan"][b] = 0 /\ flags["loan"][b] # "none"
    BY <1>1 DEF Noticing, WatchInv, FlagsInv
  <2>3. \A v \in Workers : ~Noticing(v, b)'
    BY <2>1, <2>2 DEF WatchInv, FlagsInv
  <2>4. told'["loan"][b] = 1
    BY <1>4, <2>2
  <2> QED BY <1>3, <1>4, <2>1, <2>2, <2>3, <2>4 DEF WatchInv, FlagsInv
<1>7. ASSUME ~parallel' PROVE ChecksInv!2'
  <2>1. /\ ~twice /\ \A u, v \in Workers : Checks(u) /\ Checks(v) => u = v
        /\ \A v \in Workers : sweep[v].op = "alert" => ~Watch!Recent("sacco")
    BY <1>3, <1>7 DEF WatchInv, ChecksInv
  <2>2. \A v \in Workers : /\ Checks(v)' => Checks(v)
                           /\ sweep'[v].op = "alert" => sweep[v].op = "alert"
    BY <1>2, <1>4 DEF Checks
  <2>3. Watch!Recent("sacco")' <=> Watch!Recent("sacco")
    BY <1>3 DEF Watch!Recent
  <2> QED BY <1>3, <2>1, <2>2, <2>3
<1> QED BY <1>5, <1>6, <1>7 DEF WatchInv, ChecksInv

\* A step of the model, which is a step of one part.
LEMMA StepWatch ==
  ASSUME WatchInv, [Next]_<<part, applications, instalments, reminders, campaigns, billing,
                            dividends, imports, monitors, notices, credit>>
  PROVE  WatchInv'
<1>1. CASE Watch!LiquidityNext
  BY <1>1, QuietWatch, SweepWatch, CheckWatch, AlertWatch DEF Watch!LiquidityNext
<1>2. CASE Watch!ArrearsNext
  BY <1>2, QuietWatch, SweepWatch, FlagWatch, SendWatch DEF Watch!ArrearsNext
<1>3. CASE UNCHANGED monitors
  BY <1>3 DEF monitors, WatchInv, WatchTypes, ChecksInv, Checks, FlagsInv, Noticing, Watch!Recent
<1> QED BY <1>1, <1>2, <1>3 DEF Next

\* Within the window a SACCO has a second alert only after the first was resolved, unless
\* checks ran at once, and a stage of a loan's delay is announced once
\* (check_all_sacco_liquidity, flag_npl_arrears).
LEMMA AlertsOnce == Spec => []Watch!AlertedOnce
<1>1. Init => WatchInv
  BY InitWatch DEF Init
<1>2. WatchInv => Watch!AlertedOnce
  BY DEF WatchInv, ChecksInv, FlagsInv, Watch!AlertedOnce, Watch!Stages
<1> QED BY <1>1, <1>2, StepWatch, PTL DEF Spec

-----------------------------------------------------------------------------
(* Campaigns *)

Campaigns == Drafts \cup Past

Members == {1, 2}

\* What a worker does for a campaign.
Senders ==
  [op : {"free"}] \cup [op : {"send"}, of : Drafts]
  \cup [op : {"text", "record"}, of : Drafts, todo : SUBSET Members, tries : Int, by : Workers]

\* What campaigns, their recipients, tasks and workers hold.
TextTypes ==
  /\ DOMAIN campaign = Campaigns
  /\ recipient \in [Campaigns -> [Members -> {"NONE", "PENDING", "SENT", "FAILED"}]]
  /\ sentOn \in [Campaigns -> [Members -> Int]] /\ texts \in [Campaigns -> [Members -> Int]]
  /\ sender \in [Workers -> Senders]
  /\ tasks \subseteq [of : Drafts, tries : Int, by : Workers]
  /\ date \in Int /\ perDay \in Int /\ doubled \subseteq Campaigns

Works(h) == sender[h].op \in {"text", "record"}

WorksOn(h, c) == Works(h) /\ sender[h].of = c

\* The message the worker has sent and not yet recorded.
Records(h, c, m) == sender[h].op = "record" /\ sender[h].of = c /\ m = Text!Next1(sender[h].todo)

\* Messages recorded as sent today.
Sent == {p \in Campaigns \X Members : recipient[p[1]][p[2]] = "SENT" /\ sentOn[p[1]][p[2]] = date}

\* How many of the two members a set has.
Size(todo) == (IF 1 \in todo THEN 1 ELSE 0) + (IF 2 \in todo THEN 1 ELSE 0)

\* A campaign that does not exist yet is nobody's work and has no messages, and no
\* message was recorded in the future.
DraftInv ==
  /\ \A c \in Campaigns : campaign[c] = "NONE" =>
       /\ \A t \in tasks : t.of # c
       /\ \A h \in Workers : sender[h].op # "free" => sender[h].of # c
       /\ \A m \in Members : recipient[c][m] = "NONE" /\ texts[c][m] = 0
  /\ \A c \in Campaigns, m \in Members : sentOn[c][m] <= date

\* The one task at work on a campaign has pending recipients to text, and a pending
\* recipient who got the message already is the one it is about to record.
CampaignInv ==
  \A c \in Campaigns \ doubled :
    /\ \A g, h \in Workers : WorksOn(g, c) /\ WorksOn(h, c) => g = h
    /\ \A h \in Workers : WorksOn(h, c) =>
         /\ \A m \in sender[h].todo : recipient[c][m] = "PENDING"
         /\ sender[h].op = "record" => sender[h].todo # {}
    /\ \A m \in Members :
         /\ texts[c][m] <= 1
         /\ recipient[c][m] = "PENDING" /\ texts[c][m] # 0 => \E h \in Workers : Records(h, c, m)

\* The messages of the day are those recorded and the one about to be, and what the one
\* task at work may still send is within the limit.
DayInv ==
  /\ doubled = {} /\ perDay <= 2
  /\ \A g, h \in Workers : Works(g) /\ Works(h) => g = h
  /\ (\A h \in Workers : ~Works(h)) => perDay = Cardinality(Sent)
  /\ \A h \in Workers :
       /\ sender[h].op = "text" =>
            perDay = Cardinality(Sent) /\ perDay + Size(sender[h].todo) <= 2
       /\ sender[h].op = "record" =>
            perDay = Cardinality(Sent) + 1 /\ perDay + Size(sender[h].todo) <= 3

\* Of campaigns while no task was cut short, of the day while no two ran together.
TextInv ==
  /\ TextTypes /\ DraftInv
  /\ ~cutShort => CampaignInv /\ (~together => DayInv)

\* Campaigns are finitely many, and those to come are not those of the past.
CampaignSets == IsFiniteSet(Drafts) /\ IsFiniteSet(Past) /\ Drafts \cap Past = {}

\* The least of a set of members.
LEMMA NextMember ==
  ASSUME NEW todo \in SUBSET Members, todo # {}
  PROVE  /\ Text!Next1(todo) \in todo /\ Text!Next1(todo) \in Members
         /\ Size(todo \ {Text!Next1(todo)}) = Size(todo) - 1
<1>1. \E m \in todo : \A n \in todo : m <= n
  <2>1. CASE 1 \in todo
    BY <2>1 DEF Members
  <2>2. CASE 1 \notin todo
    <3>1. \A n \in todo : n = 2
      BY <2>2 DEF Members
    <3> QED BY <3>1
  <2> QED BY <2>1, <2>2
<1>2. Text!Next1(todo) \in todo
  BY <1>1 DEF Text!Next1
<1>3. PICK m \in todo : m = Text!Next1(todo)
  BY <1>2
<1>4. m \in {1, 2}
  BY DEF Members
<1> QED BY <1>3, <1>4 DEF Size, Members

\* What is left of a set of members is not more.
LEMMA SizeMembers ==
  ASSUME NEW todo \in SUBSET Members, NEW rest \in SUBSET todo
  PROVE  Size(rest) \in 0..2 /\ Size(rest) <= Size(todo) /\ Size(todo) \in 0..2
BY DEF Size, Members

\* Sent is a finite set, and SentToday its size.
LEMMA SentFinite ==
  ASSUME CampaignSets
  PROVE  /\ IsFiniteSet(Members) /\ IsFiniteSet(Sent) /\ Cardinality(Sent) \in Nat
         /\ \A c : Text!SentToday(c) = Cardinality(Sent)
<1>1. IsFiniteSet(Campaigns)
  BY FS_Union DEF CampaignSets, Campaigns
<1>2. IsFiniteSet(Members)
  <2>1. IsFiniteSet({1}) /\ IsFiniteSet({2})
    BY FS_Singleton
  <2>2. IsFiniteSet({1} \cup {2})
    BY <2>1, FS_Union
  <2>3. Members = {1} \cup {2}
    BY DEF Members
  <2> QED BY <2>2, <2>3
<1>3. IsFiniteSet(Campaigns \X Members)
  BY <1>1, <1>2, FS_Product
<1>4. Sent \in SUBSET (Campaigns \X Members)
  BY DEF Sent
<1>5. IsFiniteSet(Sent) /\ Cardinality(Sent) \in Nat
  BY <1>3, <1>4, FS_Subset, FS_CardinalityType
<1>6. \A c : Text!SentToday(c) = Cardinality(Sent)
  BY DEF Text!SentToday, Text!Cardinality, Cardinality, Sent, Text!All, Campaigns, Members
<1> QED BY <1>2, <1>5, <1>6

\* A worker that is free.
LEMMA FreeSender == Text!Free \in Senders /\ Text!Free.op = "free"
<1>1. Text!Free \in [op : {"free"}] /\ Text!Free.op = "free"
  BY DEF Text!Free
<1> QED BY <1>1 DEF Senders

\* The messages of the past count, and nothing else is sent at first.
LEMMA InitText == ASSUME CampaignSets, Text!CampaignInit PROVE TextInv
<1>1. PICK members \in SUBSET Members :
        /\ Cardinality(Past) * Cardinality(members) <= 2
        /\ perDay = Cardinality(Past) * Cardinality(members)
        /\ campaign = [c \in Campaigns |-> IF c \in Drafts THEN "NONE" ELSE "COMPLETED"]
        /\ recipient = [c \in Campaigns |-> [m \in Members |->
                          IF c \in Past /\ m \in members THEN "SENT" ELSE "NONE"]]
        /\ texts = [c \in Campaigns |-> [m \in Members |-> IF c \in Past /\ m \in members THEN 1 ELSE 0]]
  BY DEF Text!CampaignInit, Text!Cardinality, Cardinality, Text!All, Campaigns, Members
<1>2. PICK free \in Senders : free = Text!Free /\ free.op = "free"
  BY FreeSender
<1>3. /\ tasks = {} /\ date = 0 /\ sender = [h \in Workers |-> free] /\ doubled = {}
      /\ sentOn = [c \in Campaigns |-> [m \in Members |-> 0]]
  BY <1>2 DEF Text!CampaignInit, Text!All, Campaigns, Members
<1>4. /\ IsFiniteSet(members) /\ IsFiniteSet(Past)
      /\ Cardinality(members) \in Nat /\ Cardinality(Past) \in Nat
  <2>1. IsFiniteSet(Members)
    BY SentFinite
  <2>2. IsFiniteSet(members) /\ IsFiniteSet(Past)
    BY <2>1, FS_Subset DEF CampaignSets
  <2> QED BY <2>2, FS_CardinalityType
<1>5. Sent = Past \X members
  <2>1. \A c \in Campaigns, m \in Members :
          recipient[c][m] = "SENT" /\ sentOn[c][m] = date <=> c \in Past /\ m \in members
    BY <1>1, <1>3
  <2>2. Past \in SUBSET Campaigns
    BY DEF Campaigns
  <2>3. \A p \in Campaigns \X Members : p \in Sent <=> p \in Past \X members
    <3> SUFFICES ASSUME NEW c \in Campaigns, NEW m \in Members
                 PROVE  <<c, m>> \in Sent <=> c \in Past /\ m \in members
      OBVIOUS
    <3> QED BY <2>1 DEF Sent
  <2>4. Sent \in SUBSET (Campaigns \X Members) /\ Past \X members \in SUBSET (Campaigns \X Members)
    BY <2>2 DEF Sent
  <2>5. \A p : p \in Sent <=> p \in Past \X members
    BY <2>3, <2>4, Zenon
  <2> QED BY <2>5
<1>6. Cardinality(Sent) = perDay /\ perDay <= 2 /\ perDay \in Int
  <2>1. Cardinality(Past \X members) = Cardinality(Past) * Cardinality(members)
    BY <1>4, FS_Product
  <2>2. Cardinality(Sent) = perDay
    BY <1>1, <1>5, <2>1
  <2>3. Cardinality(Sent) \in Nat
    BY SentFinite
  <2>4. perDay <= 2
    BY <1>1
  <2> QED BY <2>2, <2>3, <2>4
<1>7. \A h \in Workers : sender[h].op = "free"
  BY <1>2, <1>3
<1>8. TextTypes
  BY <1>1, <1>3, <1>6 DEF TextTypes
<1>9. DraftInv
  <2>1. \A c \in Campaigns : campaign[c] = "NONE" => c \notin Past
    BY <1>1 DEF CampaignSets, Campaigns
  <2>2. \A c \in Campaigns : c \notin Past => \A m \in Members : recipient[c][m] = "NONE" /\ texts[c][m] = 0
    BY <1>1
  <2> QED BY <1>3, <1>7, <2>1, <2>2 DEF DraftInv
<1>10. CampaignInv
  BY <1>1, <1>7 DEF CampaignInv, WorksOn, Works
<1>11. DayInv
  BY <1>3, <1>6, <1>7 DEF DayInv, Works
<1> QED BY <1>8, <1>9, <1>10, <1>11 DEF TextInv

\* A worker turns from h's work to r, which is none, or the rest of the same; of the
\* recipients only those the worker leaves out are changed.
LEMMA TurnText ==
  ASSUME CampaignSets, TextInv, NEW h \in Workers, NEW r \in Senders,
         sender' = [sender EXCEPT ![h] = r],
         UNCHANGED <<sentOn, date, texts, perDay, together, doubled>>,
         ~cutShort' => ~cutShort /\ sender[h].op # "record",
         r.op # "record",
         r.op = "text" => /\ sender[h].op = "text" /\ sender[h].of = r.of
                          /\ r.todo \subseteq sender[h].todo,
         r.op = "send" => campaign[r.of] # "NONE",
         recipient' \in [Campaigns -> [Members -> {"NONE", "PENDING", "SENT", "FAILED"}]],
         \A c \in Campaigns, m \in Members : recipient'[c][m] # recipient[c][m] =>
           /\ recipient'[c][m] = "FAILED" /\ sender[h].op = "text" /\ sender[h].of = c
           /\ m \in sender[h].todo /\ (r.op = "text" => m \notin r.todo),
         DOMAIN campaign' = Campaigns,
         \A c \in Campaigns : campaign'[c] = "NONE" => campaign[c] = "NONE",
         tasks' \subseteq [of : Drafts, tries : Int, by : Workers],
         \A t \in tasks' : t \in tasks \/ (sender[h].op # "free" /\ t.of = sender[h].of)
  PROVE  TextInv'
<1>1. /\ sender \in [Workers -> Senders] /\ sender'[h] = r
      /\ \A g \in Workers \ {h} : sender'[g] = sender[g]
  BY DEF TextInv, TextTypes
<1>2. TextTypes'
  BY DEF TextInv, TextTypes
<1>3. DraftInv'
  <2>1. ASSUME NEW c \in Campaigns, campaign'[c] = "NONE"
        PROVE  /\ \A t \in tasks' : t.of # c
               /\ \A g \in Workers : sender'[g].op # "free" => sender'[g].of # c
               /\ \A m \in Members : recipient'[c][m] = "NONE" /\ texts'[c][m] = 0
    <3>1. /\ campaign[c] = "NONE" /\ \A t \in tasks : t.of # c
          /\ \A g \in Workers : sender[g].op # "free" => sender[g].of # c
          /\ \A m \in Members : recipient[c][m] = "NONE" /\ texts[c][m] = 0
      BY <2>1 DEF TextInv, DraftInv
    <3>2. \A t \in tasks' : t.of # c
      BY <3>1
    <3>3. r.op # "free" => r.of # c
      <4>1. r.op \in {"free", "send", "text", "record"}
        BY DEF Senders
      <4> QED BY <3>1, <4>1
    <3>4. \A g \in Workers : sender'[g].op # "free" => sender'[g].of # c
      BY <1>1, <3>1, <3>3
    <3>5. \A m \in Members : recipient'[c][m] = "NONE"
      BY <3>1
    <3> QED BY <3>1, <3>2, <3>4, <3>5
  <2>2. \A c \in Campaigns, m \in Members : sentOn'[c][m] <= date'
    BY DEF TextInv, DraftInv
  <2> QED BY <2>1, <2>2 DEF DraftInv
<1>4. ASSUME ~cutShort' PROVE CampaignInv'
  <2> SUFFICES ASSUME NEW c \in Campaigns \ doubled
               PROVE  /\ \A f, g \in Workers : WorksOn(f, c)' /\ WorksOn(g, c)' => f = g
                      /\ \A g \in Workers : WorksOn(g, c)' =>
                           /\ \A m \in sender'[g].todo : recipient'[c][m] = "PENDING"
                           /\ sender'[g].op = "record" => sender'[g].todo # {}
                      /\ \A m \in Members :
                           /\ texts'[c][m] <= 1
                           /\ recipient'[c][m] = "PENDING" /\ texts'[c][m] # 0 =>
                                \E g \in Workers : Records(g, c, m)'
    BY DEF CampaignInv
  <2>1. /\ \A f, g \in Workers : WorksOn(f, c) /\ WorksOn(g, c) => f = g
        /\ \A g \in Workers : WorksOn(g, c) => \A m \in sender[g].todo : recipient[c][m] = "PENDING"
        /\ \A g \in Workers : WorksOn(g, c) => (sender[g].op = "record" => sender[g].todo # {})
        /\ \A m \in Members : texts[c][m] <= 1
        /\ \A m \in Members : recipient[c][m] = "PENDING" /\ texts[c][m] # 0 =>
             \E g \in Workers : Records(g, c, m)
    BY <1>4 DEF TextInv, CampaignInv
  <2>2. \A g \in Workers : WorksOn(g, c)' =>
          /\ WorksOn(g, c) /\ sender'[g].op = sender[g].op
          /\ sender'[g].todo \subseteq sender[g].todo
          /\ sender'[g].op = "record" => sender'[g] = sender[g]
    BY <1>1 DEF WorksOn, Works
  <2>3. \A g \in Workers, m \in Members : Records(g, c, m) => Records(g, c, m)'
    BY <1>1, <1>4 DEF Records
  <2>4. ASSUME NEW g \in Workers, WorksOn(g, c)', NEW m \in sender'[g].todo
        PROVE  recipient'[c][m] = "PENDING"
    <3>1. WorksOn(g, c) /\ m \in sender[g].todo /\ recipient[c][m] = "PENDING"
      BY <2>1, <2>2, <2>4
    <3>2. m \in Members
      <4>1. sender[g] \in Senders /\ sender[g].op \in {"text", "record"}
        BY <1>1, <3>1 DEF WorksOn, Works
      <4>2. sender[g].todo \in SUBSET Members
        BY <4>1 DEF Senders
      <4> QED BY <3>1, <4>2
    <3>3. ASSUME recipient'[c][m] # recipient[c][m] PROVE FALSE
      <4>1. sender[h].op = "text" /\ sender[h].of = c
        BY <3>2, <3>3
      <4>2. WorksOn(h, c)
        BY <4>1 DEF WorksOn, Works
      <4>3. g = h
        BY <2>1, <3>1, <4>2
      <4>4. r.op = "text"
        BY <1>1, <2>4, <4>3 DEF WorksOn, Works
      <4> QED BY <1>1, <2>4, <3>2, <3>3, <4>3, <4>4
    <3> QED BY <3>1, <3>3
  <2>5. \A m \in Members : recipient'[c][m] = "PENDING" => recipient[c][m] = "PENDING"
    OBVIOUS
  <2> QED BY <2>1, <2>2, <2>3, <2>4, <2>5
<1>5. ASSUME ~cutShort', ~together' PROVE DayInv'
  <2>1. /\ DayInv /\ CampaignInv /\ sender[h].op # "record"
    BY <1>5 DEF TextInv
  <2>2. Sent' = Sent
    <3>1. \A c \in Campaigns, m \in Members :
            recipient'[c][m] # recipient[c][m] => recipient[c][m] = "PENDING"
      BY <2>1 DEF DayInv, CampaignInv, WorksOn, Works
    <3>2. \A c \in Campaigns, m \in Members : recipient'[c][m] = "SENT" <=> recipient[c][m] = "SENT"
      BY <3>1
    <3> QED BY <3>2 DEF Sent
  <2>3. Cardinality(Sent)' = Cardinality(Sent)
    BY <2>2
  <2>4. \A g \in Workers : Works(g)' => Works(g)
    BY <1>1 DEF Works
  <2>5. (\A g \in Workers : ~Works(g)') => perDay = Cardinality(Sent)
    <3>1. ASSUME \A g \in Workers : ~Works(g)' PROVE \A g \in Workers \ {h} : ~Works(g)
      BY <1>1, <3>1 DEF Works
    <3>2. sender[h].op = "text" => perDay = Cardinality(Sent)
      BY <2>1 DEF DayInv
    <3>3. sender[h].op # "text" => ~Works(h)
      BY <2>1 DEF Works
    <3> QED BY <2>1, <3>1, <3>2, <3>3 DEF DayInv
  <2>6. ASSUME r.op = "text" PROVE perDay = Cardinality(Sent) /\ perDay + Size(r.todo) <= 2
    <3>1. sender[h] \in Senders /\ sender[h].op = "text" /\ r.todo \in SUBSET sender[h].todo
      BY <1>1, <2>6
    <3>2. sender[h].todo \in SUBSET Members
      BY <3>1 DEF Senders
    <3>3. Size(r.todo) <= Size(sender[h].todo) /\ Size(r.todo) \in Int /\ Size(sender[h].todo) \in Int
      BY <3>1, <3>2, SizeMembers
    <3>4. perDay = Cardinality(Sent) /\ perDay + Size(sender[h].todo) <= 2 /\ perDay \in Int
      BY <2>1, <3>1 DEF DayInv, TextInv, TextTypes
    <3> QED BY <3>3, <3>4
  <2>7. ASSUME NEW g \in Workers
        PROVE  /\ sender'[g].op = "text" =>
                    perDay = Cardinality(Sent) /\ perDay + Size(sender'[g].todo) <= 2
               /\ sender'[g].op = "record" =>
                    perDay = Cardinality(Sent) + 1 /\ perDay + Size(sender'[g].todo) <= 3
    <3>1. CASE g = h
      BY <1>1, <2>6, <3>1
    <3>2. CASE g # h
      BY <1>1, <2>1, <3>2 DEF DayInv
    <3> QED BY <3>1, <3>2
  <2>8. /\ doubled' = {} /\ perDay' <= 2
        /\ \A f, g \in Workers : Works(f)' /\ Works(g)' => f = g
    BY <2>1, <2>4 DEF DayInv
  <2>9. \A todo : Size(todo)' = Size(todo)
    BY DEF Size
  <2> QED BY <2>3, <2>5, <2>7, <2>8, <2>9 DEF DayInv
<1> QED BY <1>2, <1>3, <1>4, <1>5 DEF TextInv

\* A campaign is created, with recipients who have no message of it.
LEMMA CreateText ==
  ASSUME CampaignSets, TextInv, NEW c \in Drafts, NEW audience \in SUBSET Members,
         Text!CreateCampaign(c, audience)
  PROVE  TextInv'
<1>1. c \in Campaigns /\ campaign[c] = "NONE"
  BY DEF Campaigns, Text!CreateCampaign
<1>2. PICK row \in [Members -> {"NONE", "PENDING", "SENT", "FAILED"}] :
        /\ row = [m \in Members |-> IF m \in audience THEN "PENDING" ELSE "NONE"]
        /\ \A m \in Members : row[m] # "SENT"
  <2>1. /\ [m \in Members |-> IF m \in audience THEN "PENDING" ELSE "NONE"]
             \in [Members -> {"NONE", "PENDING", "SENT", "FAILED"}]
        /\ \A k \in Members :
             [m \in Members |-> IF m \in audience THEN "PENDING" ELSE "NONE"][k] # "SENT"
    OBVIOUS
  <2> QED BY <2>1
<1>3. /\ recipient' = [recipient EXCEPT ![c] = row]
      /\ campaign' = [campaign EXCEPT ![c] = "DRAFT"]
      /\ UNCHANGED <<sentOn, tasks, sender, date, texts, perDay, together, doubled, cutShort>>
  BY <1>2 DEF Text!CreateCampaign, Members
<1>4. /\ recipient' \in [Campaigns -> [Members -> {"NONE", "PENDING", "SENT", "FAILED"}]]
      /\ recipient'[c] = row /\ \A k \in Campaigns \ {c} : recipient'[k] = recipient[k]
  BY <1>1, <1>3 DEF TextInv, TextTypes
<1>5. /\ DOMAIN campaign' = Campaigns /\ campaign'[c] = "DRAFT"
      /\ \A k \in Campaigns \ {c} : campaign'[k] = campaign[k]
  BY <1>1, <1>3 DEF TextInv, TextTypes
<1>6. /\ \A h \in Workers : sender[h].op # "free" => sender[h].of # c
      /\ \A m \in Members : recipient[c][m] = "NONE" /\ texts[c][m] = 0
  BY <1>1 DEF TextInv, DraftInv
<1>7. TextTypes'
  BY <1>3, <1>4, <1>5 DEF TextInv, TextTypes
<1>8. DraftInv'
  BY <1>3, <1>4, <1>5 DEF TextInv, DraftInv
<1>9. ASSUME ~cutShort' PROVE CampaignInv'
  <2>1. CampaignInv
    BY <1>3, <1>9 DEF TextInv
  <2>2. ASSUME NEW k \in Campaigns \ doubled, k # c
        PROVE  /\ \A f, g \in Workers : WorksOn(f, k)' /\ WorksOn(g, k)' => f = g
               /\ \A g \in Workers : WorksOn(g, k)' =>
                    /\ \A m \in sender'[g].todo : recipient'[k][m] = "PENDING"
                    /\ sender'[g].op = "record" => sender'[g].todo # {}
               /\ \A m \in Members :
                    /\ texts'[k][m] <= 1
                    /\ recipient'[k][m] = "PENDING" /\ texts'[k][m] # 0 =>
                         \E g \in Workers : Records(g, k, m)'
    <3>1. \A g \in Workers, m \in Members : Records(g, k, m)' <=> Records(g, k, m)
      BY <1>3 DEF Records
    <3>2. \A g \in Workers : WorksOn(g, k)' <=> WorksOn(g, k)
      BY <1>3 DEF WorksOn, Works
    <3> QED BY <1>3, <1>4, <2>1, <2>2, <3>1, <3>2 DEF CampaignInv
  <2>3. /\ \A g \in Workers : ~WorksOn(g, c)'
        /\ \A m \in Members : texts'[c][m] = 0
    BY <1>3, <1>6 DEF WorksOn, Works
  <2> QED BY <1>3, <2>2, <2>3 DEF CampaignInv
<1>10. ASSUME ~cutShort', ~together' PROVE DayInv'
  <2>1. Sent' = Sent
    <3>1. \A k \in Campaigns, m \in Members : recipient'[k][m] = "SENT" <=> recipient[k][m] = "SENT"
      BY <1>2, <1>4, <1>6
    <3> QED BY <1>3, <3>1 DEF Sent
  <2>2. DayInv
    BY <1>3, <1>10 DEF TextInv
  <2> QED BY <1>3, <2>1, <2>2 DEF DayInv, Works, Size
<1> QED BY <1>7, <1>8, <1>9, <1>10 DEF TextInv

\* A request reads a draft or sends it; a task refuses a message, ends, or fails without
\* a message it has not recorded.
LEMMA OtherText ==
  ASSUME CampaignSets, TextInv, NEW h \in Workers,
         \/ \E c \in Drafts : Text!ReadDraft(h, c)
         \/ \E dispatch \in BOOLEAN : Text!SendCampaign(h, dispatch)
         \/ Text!TextRefused(h) \/ Text!EndTask(h) \/ Text!TaskFails(h)
  PROVE  TextInv'
<1>1. /\ sender[h] \in Senders /\ DOMAIN campaign = Campaigns
      /\ recipient \in [Campaigns -> [Members -> {"NONE", "PENDING", "SENT", "FAILED"}]]
      /\ tasks \subseteq [of : Drafts, tries : Int, by : Workers]
  BY DEF TextInv, TextTypes
<1>2. PICK free \in Senders : free = Text!Free /\ free.op = "free"
  BY FreeSender
<1>3. CASE \E c \in Drafts : Text!ReadDraft(h, c)
  <2>1. PICK c \in Drafts : Text!ReadDraft(h, c)
    BY <1>3
  <2>2. PICK r \in Senders : r = [op |-> "send", of |-> c] /\ r.op = "send" /\ r.of = c
    <3>1. [op |-> "send", of |-> c] \in Senders
      BY DEF Senders
    <3> QED BY <3>1
  <2>3. /\ sender' = [sender EXCEPT ![h] = r] /\ campaign[r.of] # "NONE"
        /\ sender[h].op = "free"
        /\ UNCHANGED <<campaign, recipient, tasks, sentOn, date, texts, perDay, together, doubled,
                       cutShort>>
    BY <1>2, <2>1, <2>2 DEF Text!ReadDraft, Text!Begin
  <2> QED BY <1>1, <2>2, <2>3, TurnText
<1>4. CASE \E dispatch \in BOOLEAN : Text!SendCampaign(h, dispatch)
  <2>1. PICK dispatch \in BOOLEAN : Text!SendCampaign(h, dispatch)
    BY <1>4
  <2>2. PICK c \in Drafts : sender[h].op = "send" /\ c = sender[h].of
    BY <1>1, <2>1 DEF Text!SendCampaign, Senders
  <2>3. /\ sender' = [sender EXCEPT ![h] = free]
        /\ campaign' = [campaign EXCEPT ![c] = "SENDING"]
        /\ tasks' \in {tasks, tasks \cup {[of |-> c, tries |-> 1, by |-> h]}}
        /\ UNCHANGED <<recipient, sentOn, date, texts, perDay, together, doubled, cutShort>>
    BY <1>2, <2>1, <2>2 DEF Text!SendCampaign, Text!Turn
  <2>4. /\ tasks' \subseteq [of : Drafts, tries : Int, by : Workers]
        /\ \A t \in tasks' : t \in tasks \/ t.of = c
    BY <1>1, <2>3
  <2>5. /\ DOMAIN campaign' = Campaigns
        /\ \A k \in Campaigns : campaign'[k] = "NONE" => campaign[k] = "NONE"
    BY <1>1, <2>3
  <2> QED BY <1>1, <1>2, <2>2, <2>3, <2>4, <2>5, TurnText
<1>5. CASE Text!TextRefused(h)
  <2>1. /\ sender[h] \in [op : {"text", "record"}, of : Drafts, todo : SUBSET Members,
                          tries : Int, by : Workers]
        /\ sender[h].op = "text" /\ sender[h].todo # {}
    BY <1>1, <1>5 DEF Text!TextRefused, Senders
  <2>2. PICK c \in Campaigns : c = sender[h].of /\ c \in Drafts
    BY <2>1 DEF Campaigns
  <2>3. PICK m \in Members : m = Text!Next1(sender[h].todo) /\ m \in sender[h].todo
    BY <2>1, NextMember
  <2>4. PICK r \in Senders : /\ r = [sender[h] EXCEPT !.todo = @ \ {m}] /\ r.op = "text"
                             /\ r.of = c /\ r.todo = sender[h].todo \ {m}
    <3>1. [sender[h] EXCEPT !.todo = @ \ {m}] \in
            [op : {"text", "record"}, of : Drafts, todo : SUBSET Members, tries : Int, by : Workers]
      BY <2>1
    <3>2. [sender[h] EXCEPT !.todo = @ \ {m}] \in Senders
      BY <3>1 DEF Senders
    <3> QED BY <2>1, <2>2, <3>2
  <2>5. /\ sender' = [sender EXCEPT ![h] = r]
        /\ recipient' = [recipient EXCEPT ![c][m] = "FAILED"]
        /\ UNCHANGED <<campaign, tasks, sentOn, date, texts, perDay, together, doubled, cutShort>>
    BY <1>5, <2>2, <2>3, <2>4 DEF Text!TextRefused, Text!Turn
  <2>6. /\ recipient' \in [Campaigns -> [Members -> {"NONE", "PENDING", "SENT", "FAILED"}]]
        /\ \A k \in Campaigns, n \in Members : recipient'[k][n] # recipient[k][n] =>
             k = c /\ n = m /\ recipient'[k][n] = "FAILED"
    BY <1>1, <2>5
  <2>7. \A k \in Campaigns, n \in Members : recipient'[k][n] # recipient[k][n] =>
          /\ recipient'[k][n] = "FAILED" /\ sender[h].op = "text" /\ sender[h].of = k
          /\ n \in sender[h].todo /\ (r.op = "text" => n \notin r.todo)
    BY <2>1, <2>2, <2>3, <2>4, <2>6
  <2>8. /\ r.op # "record"
        /\ r.op = "text" => /\ sender[h].op = "text" /\ sender[h].of = r.of
                            /\ r.todo \subseteq sender[h].todo
        /\ r.op = "send" => campaign[r.of] # "NONE"
    BY <2>1, <2>2, <2>4
  <2>9. ~cutShort' => ~cutShort /\ sender[h].op # "record"
    BY <2>1, <2>5
  <2>10. DOMAIN campaign' = Campaigns /\ \A k \in Campaigns : campaign'[k] = "NONE" => campaign[k] = "NONE"
    BY <1>1, <2>5
  <2>11. /\ tasks' \subseteq [of : Drafts, tries : Int, by : Workers]
         /\ \A t \in tasks' : t \in tasks \/ (sender[h].op # "free" /\ t.of = sender[h].of)
    BY <1>1, <2>5
  <2> QED BY <2>5, <2>6, <2>7, <2>8, <2>9, <2>10, <2>11, TurnText
<1>6. CASE Text!EndTask(h)
  <2>1. /\ sender' = [sender EXCEPT ![h] = free] /\ sender[h].op = "text"
        /\ UNCHANGED <<recipient, tasks, sentOn, date, texts, perDay, together, doubled, cutShort>>
    BY <1>2, <1>6 DEF Text!EndTask, Text!Turn
  <2>2. PICK new \in {"COMPLETED", "FAILED"} : campaign' = [campaign EXCEPT ![sender[h].of] = new]
    <3>1. PICK new \in {"COMPLETED", "FAILED"} :
            new = IF \E m \in {1, 2} : recipient[sender[h].of][m] = "SENT" THEN "COMPLETED" ELSE "FAILED"
      OBVIOUS
    <3> QED BY <1>6, <3>1 DEF Text!EndTask
  <2>3. /\ DOMAIN campaign' = Campaigns
        /\ \A k \in Campaigns : campaign'[k] = "NONE" => campaign[k] = "NONE"
    BY <1>1, <2>2
  <2> QED BY <1>1, <1>2, <2>1, <2>3, TurnText
<1>7. CASE Text!TaskFails(h)
  <2>1. sender[h].op \in {"text", "record"} /\ sender[h].of \in Drafts /\ sender[h].tries \in Int
        /\ sender[h].by \in Workers
    BY <1>1, <1>7 DEF Text!TaskFails, Senders
  <2>2. /\ sender' = [sender EXCEPT ![h] = free]
        /\ UNCHANGED <<campaign, recipient, sentOn, date, texts, perDay, together, doubled>>
        /\ tasks' \in {tasks, tasks \cup {[of |-> sender[h].of, tries |-> sender[h].tries + 1,
                                          by |-> sender[h].by]}}
    BY <1>2, <1>7 DEF Text!TaskFails, Text!Turn
  <2>3. /\ tasks' \subseteq [of : Drafts, tries : Int, by : Workers]
        /\ \A t \in tasks' : t \in tasks \/ t.of = sender[h].of
    BY <1>1, <2>1, <2>2
  <2>4. ~cutShort' => ~cutShort /\ sender[h].op # "record"
    BY <1>7, Zenon DEF Text!TaskFails
  <2> QED BY <1>1, <1>2, <2>1, <2>2, <2>3, <2>4, TurnText
<1> QED BY <1>3, <1>4, <1>5, <1>6, <1>7

\* As many recipients as are allowed.
LEMMA AllowedSize ==
  ASSUME CampaignSets, NEW c
  PROVE  /\ Text!Allowed(c) \subseteq Text!Pending(c) /\ Text!Pending(c) \subseteq Members
         /\ Size(Text!Allowed(c)) <= Text!Allowance(c)
         /\ Text!Allowance(c) # 0 => Text!Allowance(c) = 2 - Cardinality(Sent)
<1>1. PICK n \in Nat : n = Cardinality(Sent) /\ n = Text!SentToday(c)
  BY SentFinite
<1>2. PICK a \in Nat : a = Text!Allowance(c) /\ (a # 0 => a = 2 - n)
  BY <1>1 DEF Text!Allowance
<1>3. PICK P \in SUBSET Members : P = Text!Pending(c)
  BY DEF Text!Pending, Members
<1>4. \A S : Text!Cardinality(S) = Cardinality(S)
  BY DEF Text!Cardinality, Cardinality
<1>5. PICK A \in SUBSET P : A = Text!Allowed(c)
  BY <1>3 DEF Text!Allowed
<1>6. \A m \in A : Cardinality({k \in P : k <= m}) <= a
  BY <1>2, <1>3, <1>4, <1>5 DEF Text!Allowed
<1>7. Cardinality({1}) = 1 /\ Cardinality({2}) = 1 /\ IsFiniteSet({1})
  BY FS_Singleton
<1>8. Cardinality({1, 2}) = 2
  <2>1. Cardinality({1} \cup {2}) = 2
    BY <1>7, FS_AddElement
  <2>2. {1} \cup {2} = {1, 2}
    OBVIOUS
  <2> QED BY <2>1, <2>2
<1>9. ASSUME 1 \in A PROVE 1 <= a
  <2>1. {k \in P : k <= 1} = {1}
    <3>1. \A k \in P : k = 1 \/ k = 2
      BY DEF Members
    <3>2. \A k \in P : k <= 1 <=> k = 1
      BY <3>1
    <3>3. 1 \in P
      BY <1>9
    <3> QED BY <3>2, <3>3
  <2>2. Cardinality({k \in P : k <= 1}) <= a
    BY <1>6, <1>9
  <2> QED BY <1>7, <2>1, <2>2
<1>10. ASSUME 2 \in A PROVE 1 <= a /\ (1 \in P => 2 <= a)
  <2>1. {k \in P : k <= 2} = P
    <3>1. \A k \in P : k = 1 \/ k = 2
      BY DEF Members
    <3>2. \A k \in P : k <= 2
      BY <3>1
    <3> QED BY <3>2, Zenon
  <2>2. Cardinality({k \in P : k <= 2}) <= a
    BY <1>6, <1>10
  <2>3. Cardinality(P) <= a
    BY <2>1, <2>2
  <2>4. CASE 1 \in P
    <3>1. P = {1, 2}
      BY <1>10, <2>4 DEF Members
    <3> QED BY <1>8, <2>3, <3>1
  <2>5. CASE 1 \notin P
    <3>1. P = {2}
      BY <1>10, <2>5 DEF Members
    <3> QED BY <1>7, <2>3, <2>5, <3>1
  <2> QED BY <2>4, <2>5
<1>11. Size(A) <= a
  BY <1>9, <1>10 DEF Size
<1> QED BY <1>1, <1>2, <1>3, <1>5, <1>11

\* A task starts: it works alone on the campaign, or the campaign is doubled, and alone,
\* or tasks are together.
LEMMA StartText ==
  ASSUME CampaignSets, TextInv, NEW h \in Workers, NEW t \in tasks, Text!StartTask(h, t)
  PROVE  TextInv'
<1>1. /\ sender[h] = Text!Free /\ sender[h].op = "free"
      /\ t \in [of : Drafts, tries : Int, by : Workers]
      /\ sender \in [Workers -> Senders]
  BY FreeSender DEF Text!StartTask, Text!Begin, TextInv, TextTypes
<1>2. PICK c \in Campaigns : c = t.of /\ c \in Drafts
  BY <1>1 DEF Campaigns
<1>3. PICK todo \in SUBSET Members :
        /\ todo = Text!Allowed(c) /\ todo \subseteq Text!Pending(c)
        /\ Size(todo) <= Text!Allowance(c)
        /\ Text!Allowance(c) # 0 => Text!Allowance(c) = 2 - Cardinality(Sent)
  BY AllowedSize
<1>4. PICK r \in Senders :
        /\ r = IF Text!Allowance(c) = 0 THEN Text!Free
               ELSE [op |-> "text", of |-> c, todo |-> todo, tries |-> t.tries, by |-> t.by]
        /\ r.op \in {"free", "text"}
        /\ r.op = "text" => Text!Allowance(c) # 0 /\ r.of = c /\ r.todo = todo
  <2>1. CASE Text!Allowance(c) = 0
    BY <2>1, FreeSender
  <2>2. CASE Text!Allowance(c) # 0
    <3>1. [op |-> "text", of |-> c, todo |-> todo, tries |-> t.tries, by |-> t.by] \in Senders
      BY <1>1, <1>2 DEF Senders
    <3> QED BY <2>2, <3>1
  <2> QED BY <2>1, <2>2
<1>5. PICK row \in [Members -> {"NONE", "PENDING", "SENT", "FAILED"}] :
        /\ row = [m \in Members |-> IF m \in Text!Pending(c) \ todo THEN "FAILED" ELSE recipient[c][m]]
        /\ \A m \in Members : /\ row[m] = "SENT" <=> recipient[c][m] = "SENT"
                              /\ row[m] = "PENDING" => recipient[c][m] = "PENDING"
                              /\ m \in todo => row[m] = "PENDING"
                              /\ recipient[c][m] = "NONE" => row[m] = "NONE"
  <2> DEFINE row == [m \in Members |->
                       IF m \in Text!Pending(c) \ todo THEN "FAILED" ELSE recipient[c][m]]
  <2>1. \A m \in Members : m \in Text!Pending(c) <=> recipient[c][m] = "PENDING"
    BY DEF Text!Pending, Members
  <2>2. recipient[c] \in [Members -> {"NONE", "PENDING", "SENT", "FAILED"}]
    BY DEF TextInv, TextTypes
  <2>3. row \in [Members -> {"NONE", "PENDING", "SENT", "FAILED"}]
    BY <2>2
  <2>4. \A m \in Members : /\ row[m] = "SENT" <=> recipient[c][m] = "SENT"
                           /\ row[m] = "PENDING" => recipient[c][m] = "PENDING"
                           /\ m \in todo => row[m] = "PENDING"
                           /\ recipient[c][m] = "NONE" => row[m] = "NONE"
    BY <1>3, <2>1
  <2> QED BY <2>3, <2>4
<1>6. /\ sender' = [sender EXCEPT ![h] = r] /\ tasks' = tasks \ {t}
      /\ recipient' = [recipient EXCEPT ![c] = row]
      /\ campaign' = [campaign EXCEPT ![c] = IF Text!Allowance(c) = 0 THEN "FAILED" ELSE @]
      /\ UNCHANGED <<sentOn, date, texts, perDay, cutShort>>
  <2>1. recipient' = [recipient EXCEPT ![c] = [m \in Members |->
                        IF m \in Text!Pending(c) \ todo THEN "FAILED" ELSE recipient[c][m]]]
    BY <1>2, <1>3 DEF Text!StartTask, Members
  <2>2. sender' = [sender EXCEPT ![h] = r]
    BY <1>2, <1>3, <1>4 DEF Text!StartTask, Text!Begin
  <2> QED BY <1>2, <1>5, <2>1, <2>2 DEF Text!StartTask
<1>7. /\ ~together' => ~together /\ \A k \in Drafts : ~Text!AtWork(k)
      /\ doubled' = IF Text!AtWork(c) THEN doubled \cup {c} ELSE doubled
  <2>1. ~together' => ~together /\ \A k \in Drafts : ~Text!AtWork(k)
    BY Zenon DEF Text!StartTask
  <2> QED BY <1>2, <2>1 DEF Text!StartTask
<1>8. \A k : Text!AtWork(k) <=> \E g \in Workers : WorksOn(g, k)
  BY DEF Text!AtWork, WorksOn, Works
<1>9. /\ sender'[h] = r /\ \A g \in Workers \ {h} : sender'[g] = sender[g]
      /\ recipient' \in [Campaigns -> [Members -> {"NONE", "PENDING", "SENT", "FAILED"}]]
      /\ recipient'[c] = row /\ \A k \in Campaigns \ {c} : recipient'[k] = recipient[k]
      /\ DOMAIN campaign' = Campaigns
      /\ \A k \in Campaigns : campaign'[k] = "NONE" => campaign[k] = "NONE"
      /\ doubled \subseteq doubled' /\ doubled' \subseteq Campaigns
  BY <1>1, <1>6, <1>7 DEF TextInv, TextTypes
<1>10. TextTypes'
  BY <1>6, <1>9 DEF TextInv, TextTypes
<1>11. DraftInv'
  <2>1. campaign[c] # "NONE"
    BY <1>2 DEF TextInv, DraftInv
  <2>2. r.op # "free" => r.of = c
    BY <1>4
  <2>3. campaign'[c] # "NONE"
    BY <1>9, <2>1
  <2>4. ASSUME NEW k \in Campaigns, campaign'[k] = "NONE"
        PROVE  /\ \A s \in tasks' : s.of # k
               /\ \A g \in Workers : sender'[g].op # "free" => sender'[g].of # k
               /\ \A m \in Members : recipient'[k][m] = "NONE" /\ texts'[k][m] = 0
    <3>1. k # c /\ campaign[k] = "NONE"
      BY <1>9, <2>3, <2>4
    <3>2. /\ \A s \in tasks : s.of # k
          /\ \A g \in Workers : sender[g].op # "free" => sender[g].of # k
          /\ \A m \in Members : recipient[k][m] = "NONE" /\ texts[k][m] = 0
      BY <3>1 DEF TextInv, DraftInv
    <3>3. \A g \in Workers : sender'[g].op # "free" => sender'[g].of # k
      BY <1>9, <2>2, <3>1, <3>2
    <3> QED BY <1>6, <1>9, <3>1, <3>2, <3>3
  <2>5. \A k \in Campaigns, m \in Members : sentOn'[k][m] <= date'
    BY <1>6 DEF TextInv, DraftInv
  <2> QED BY <2>4, <2>5 DEF DraftInv
<1>12. ASSUME ~cutShort' PROVE CampaignInv'
  <2>1. CampaignInv
    BY <1>6, <1>12 DEF TextInv
  <2>2. ASSUME NEW k \in Campaigns \ doubled', k # c
        PROVE  /\ \A f, g \in Workers : WorksOn(f, k)' /\ WorksOn(g, k)' => f = g
               /\ \A g \in Workers : WorksOn(g, k)' =>
                    /\ \A m \in sender'[g].todo : recipient'[k][m] = "PENDING"
                    /\ sender'[g].op = "record" => sender'[g].todo # {}
               /\ \A m \in Members :
                    /\ texts'[k][m] <= 1
                    /\ recipient'[k][m] = "PENDING" /\ texts'[k][m] # 0 =>
                         \E g \in Workers : Records(g, k, m)'
    <3>1. k \in Campaigns \ doubled
      BY <1>9, <2>2
    <3>2. \A g \in Workers, m \in Members : Records(g, k, m) => Records(g, k, m)'
      BY <1>1, <1>9 DEF Records
    <3>3. \A g \in Workers : WorksOn(g, k)' => WorksOn(g, k) /\ sender'[g] = sender[g]
      BY <1>4, <1>9, <2>2 DEF WorksOn, Works
    <3>4. UNCHANGED texts /\ recipient'[k] = recipient[k]
      BY <1>6, <1>9, <2>2
    <3> QED BY <2>1, <3>1, <3>2, <3>3, <3>4 DEF CampaignInv
  <2>3. ASSUME c \in Campaigns \ doubled'
        PROVE  /\ \A f, g \in Workers : WorksOn(f, c)' /\ WorksOn(g, c)' => f = g
               /\ \A g \in Workers : WorksOn(g, c)' =>
                    /\ \A m \in sender'[g].todo : recipient'[c][m] = "PENDING"
                    /\ sender'[g].op = "record" => sender'[g].todo # {}
               /\ \A m \in Members :
                    /\ texts'[c][m] <= 1
                    /\ recipient'[c][m] = "PENDING" /\ texts'[c][m] # 0 =>
                         \E g \in Workers : Records(g, c, m)'
    <3>1. c \in Campaigns \ doubled /\ \A g \in Workers : ~WorksOn(g, c)
      BY <1>7, <1>8, <2>3
    <3>2. \A g \in Workers : WorksOn(g, c)' => g = h
      BY <1>9, <3>1 DEF WorksOn, Works
    <3>3. WorksOn(h, c)' => r.op = "text" /\ sender'[h].todo = todo
      BY <1>4, <1>9 DEF WorksOn, Works
    <3>4. \A m \in todo : recipient'[c][m] = "PENDING"
      BY <1>5, <1>9
    <3>5. \A m \in Members : texts[c][m] <= 1 /\ (recipient[c][m] = "PENDING" => texts[c][m] = 0)
      <4>1. \A g \in Workers, m \in Members : ~Records(g, c, m)
        BY <3>1 DEF Records, WorksOn, Works
      <4> QED BY <2>1, <3>1, <4>1 DEF CampaignInv
    <3>6. \A m \in Members : recipient'[c][m] = "PENDING" => recipient[c][m] = "PENDING"
      BY <1>5, <1>9
    <3> QED BY <1>6, <1>9, <3>2, <3>3, <3>4, <3>5, <3>6
  <2> QED BY <2>2, <2>3 DEF CampaignInv
<1>13. ASSUME ~cutShort', ~together' PROVE DayInv'
  <2>1. DayInv /\ \A g \in Workers : ~Works(g)
    <3>1. DayInv
      BY <1>6, <1>7, <1>13 DEF TextInv
    <3>2. ASSUME NEW g \in Workers, Works(g) PROVE FALSE
      <4>1. sender[g] \in Senders /\ sender[g].op \in {"text", "record"}
        BY <1>1, <3>2 DEF Works
      <4>2. sender[g].of \in Drafts
        BY <4>1 DEF Senders
      <4>3. WorksOn(g, sender[g].of)
        BY <3>2 DEF WorksOn
      <4> QED BY <1>7, <1>8, <1>13, <4>2, <4>3
    <3> QED BY <3>1, <3>2
  <2>2. Sent' = Sent
    <3>1. \A k \in Campaigns, m \in Members : recipient'[k][m] = "SENT" <=> recipient[k][m] = "SENT"
      BY <1>5, <1>9
    <3> QED BY <1>6, <3>1 DEF Sent
  <2>3. Cardinality(Sent)' = Cardinality(Sent) /\ perDay = Cardinality(Sent) /\ perDay \in Int
    BY <2>1, <2>2 DEF DayInv, TextInv, TextTypes
  <2>4. \A g \in Workers : Works(g)' => g = h
    BY <1>9, <2>1 DEF Works
  <2>5. doubled' = {}
    BY <1>2, <1>7, <1>13, <2>1 DEF DayInv
  <2>6. Size(todo) \in 0..2
    BY SizeMembers
  <2>7. sender'[h].op = "text" => perDay + Size(sender'[h].todo) <= 2
    BY <1>3, <1>4, <1>9, <2>3, <2>6
  <2>8. sender'[h].op # "record"
    BY <1>4, <1>9
  <2>9. \A g \in Workers : sender'[g].op \in {"text", "record"} => g = h
    BY <2>4 DEF Works
  <2>10. \A s : Size(s)' = Size(s)
    BY DEF Size
  <2>11. perDay' = perDay /\ perDay <= 2
    BY <1>6, <2>1 DEF DayInv
  <2> QED BY <2>3, <2>4, <2>5, <2>7, <2>8, <2>9, <2>10, <2>11 DEF DayInv
<1> QED BY <1>10, <1>11, <1>12, <1>13 DEF TextInv

\* A message is sent to the next recipient, who has none.
LEMMA SendText ==
  ASSUME CampaignSets, TextInv, NEW h \in Workers, Text!SendText(h)
  PROVE  TextInv'
<1>1. /\ sender[h] \in [op : {"text", "record"}, of : Drafts, todo : SUBSET Members,
                        tries : Int, by : Workers]
      /\ sender[h].op = "text" /\ sender[h].todo # {}
      /\ sender \in [Workers -> Senders]
  <2>1. sender[h] \in Senders /\ sender[h].op = "text" /\ sender \in [Workers -> Senders]
    BY DEF TextInv, TextTypes, Text!SendText
  <2> QED BY <2>1 DEF Senders, Text!SendText
<1>2. PICK c \in Campaigns : c = sender[h].of
  BY <1>1 DEF Campaigns
<1>3. PICK todo \in SUBSET Members : todo = sender[h].todo /\ todo # {}
  BY <1>1
<1>4. PICK m \in Members : m = Text!Next1(todo) /\ m \in todo
  BY <1>3, NextMember
<1>5. PICK r \in Senders : /\ r = [sender[h] EXCEPT !.op = "record"] /\ r.op = "record"
                           /\ r.of = c /\ r.todo = todo
  <2>1. [sender[h] EXCEPT !.op = "record"] \in
          [op : {"text", "record"}, of : Drafts, todo : SUBSET Members, tries : Int, by : Workers]
    BY <1>1
  <2>2. [sender[h] EXCEPT !.op = "record"] \in Senders
    BY <2>1 DEF Senders
  <2> QED BY <1>1, <1>2, <1>3, <2>2
<1>6. /\ sender' = [sender EXCEPT ![h] = r]
      /\ texts' = [texts EXCEPT ![c][m] = IF @ < 2 THEN @ + 1 ELSE @]
      /\ perDay' = IF perDay <= 2 THEN perDay + 1 ELSE perDay
      /\ UNCHANGED <<campaign, recipient, sentOn, tasks, date, together, doubled, cutShort>>
  BY <1>2, <1>3, <1>4, <1>5 DEF Text!SendText, Text!Turn
<1>7. /\ sender'[h] = r /\ \A g \in Workers \ {h} : sender'[g] = sender[g]
      /\ texts' \in [Campaigns -> [Members -> Int]]
      /\ \A k \in Campaigns, n \in Members : (k # c \/ n # m) => texts'[k][n] = texts[k][n]
      /\ texts[c][m] = 0 => texts'[c][m] = 1
  BY <1>1, <1>6 DEF TextInv, TextTypes
<1>8. TextTypes'
  <2>1. perDay' \in Int
    BY <1>6 DEF TextInv, TextTypes
  <2> QED BY <1>6, <1>7, <2>1 DEF TextInv, TextTypes
<1>9. DraftInv'
  <2>1. campaign[c] # "NONE"
    BY <1>1, <1>2 DEF TextInv, DraftInv
  <2>2. \A g \in Workers : sender'[g].op # "free" => sender[g].op # "free" /\ sender'[g].of = sender[g].of
    BY <1>1, <1>2, <1>5, <1>7
  <2> QED BY <1>6, <1>7, <2>1, <2>2 DEF TextInv, DraftInv
<1>10. ASSUME ~cutShort' PROVE CampaignInv'
  <2>1. CampaignInv
    BY <1>6, <1>10 DEF TextInv
  <2>2. ASSUME NEW k \in Campaigns \ doubled', k # c
        PROVE  /\ \A f, g \in Workers : WorksOn(f, k)' /\ WorksOn(g, k)' => f = g
               /\ \A g \in Workers : WorksOn(g, k)' =>
                    /\ \A n \in sender'[g].todo : recipient'[k][n] = "PENDING"
                    /\ sender'[g].op = "record" => sender'[g].todo # {}
               /\ \A n \in Members :
                    /\ texts'[k][n] <= 1
                    /\ recipient'[k][n] = "PENDING" /\ texts'[k][n] # 0 =>
                         \E g \in Workers : Records(g, k, n)'
    <3>1. \A g \in Workers, n \in Members : Records(g, k, n) => Records(g, k, n)'
      BY <1>1, <1>7 DEF Records
    <3>2. \A g \in Workers : WorksOn(g, k)' => WorksOn(g, k) /\ sender'[g] = sender[g]
      BY <1>5, <1>7, <2>2 DEF WorksOn, Works
    <3>3. \A n \in Members : texts'[k][n] = texts[k][n] /\ recipient'[k][n] = recipient[k][n]
      BY <1>6, <1>7, <2>2
    <3> QED BY <1>6, <2>1, <2>2, <3>1, <3>2, <3>3 DEF CampaignInv
  <2>3. ASSUME c \notin doubled
        PROVE  /\ \A f, g \in Workers : WorksOn(f, c)' /\ WorksOn(g, c)' => f = g
               /\ \A g \in Workers : WorksOn(g, c)' =>
                    /\ \A n \in sender'[g].todo : recipient'[c][n] = "PENDING"
                    /\ sender'[g].op = "record" => sender'[g].todo # {}
               /\ \A n \in Members :
                    /\ texts'[c][n] <= 1
                    /\ recipient'[c][n] = "PENDING" /\ texts'[c][n] # 0 =>
                         \E g \in Workers : Records(g, c, n)'
    <3>1. WorksOn(h, c) /\ \A g \in Workers : WorksOn(g, c) => g = h
      BY <1>1, <1>2, <2>1, <2>3 DEF CampaignInv, WorksOn, Works
    <3>2. \A g \in Workers, n \in Members : ~Records(g, c, n)
      BY <1>1, <3>1 DEF Records, WorksOn, Works
    <3>3. \A n \in todo : recipient[c][n] = "PENDING"
      BY <1>3, <2>1, <2>3, <3>1 DEF CampaignInv
    <3>4. \A n \in Members : texts[c][n] <= 1 /\ (recipient[c][n] = "PENDING" => texts[c][n] = 0)
      BY <2>1, <2>3, <3>2 DEF CampaignInv
    <3>5. texts'[c][m] = 1 /\ Records(h, c, m)'
      <4>1. texts'[c][m] = 1
        BY <1>4, <1>7, <3>3, <3>4
      <4>2. sender'[h].op = "record" /\ sender'[h].of = c /\ m = Text!Next1(sender'[h].todo)
        BY <1>4, <1>5, <1>7
      <4> QED BY <4>1, <4>2 DEF Records
    <3>6. \A g \in Workers : WorksOn(g, c)' => g = h
      BY <1>7, <3>1 DEF WorksOn, Works
    <3>7. sender'[h].todo = todo
      BY <1>5, <1>7
    <3>8. \A n \in Members \ {m} : texts'[c][n] = texts[c][n]
      BY <1>7
    <3> QED BY <1>3, <1>6, <3>3, <3>4, <3>5, <3>6, <3>7, <3>8
  <2> QED BY <1>6, <2>2, <2>3 DEF CampaignInv
<1>11. ASSUME ~cutShort', ~together' PROVE DayInv'
  <2>1. DayInv
    BY <1>6, <1>11 DEF TextInv
  <2>2. Sent' = Sent
    BY <1>6 DEF Sent
  <2>3. \A g \in Workers : Works(g)' => g = h
    BY <1>1, <1>7, <2>1 DEF DayInv, Works
  <2>4. Size(todo) \in 1..2
    BY <1>4, SizeMembers DEF Size, Members
  <2>5. perDay = Cardinality(Sent) /\ perDay + Size(todo) <= 2 /\ perDay \in Int
    BY <1>1, <1>3, <2>1 DEF DayInv, TextInv, TextTypes
  <2>6. perDay' = perDay + 1 /\ perDay' <= 2 /\ perDay' + Size(todo) <= 3
    BY <1>6, <2>4, <2>5
  <2>7. sender'[h].op = "record" /\ sender'[h].todo = todo /\ Works(h)'
    BY <1>5, <1>7 DEF Works
  <2>8. Cardinality(Sent)' = Cardinality(Sent) /\ \A s : Size(s)' = Size(s)
    BY <2>2 DEF Size
  <2>9. \A g \in Workers : sender'[g].op \in {"text", "record"} => g = h
    BY <2>3 DEF Works
  <2>10. doubled' = {}
    BY <1>6, <2>1 DEF DayInv
  <2> QED BY <2>3, <2>5, <2>6, <2>7, <2>8, <2>9, <2>10 DEF DayInv
<1> QED BY <1>8, <1>9, <1>10, <1>11 DEF TextInv

\* A message is recorded: one more of the day, and its recipient is no longer pending.
LEMMA RecordText ==
  ASSUME CampaignSets, TextInv, NEW h \in Workers, Text!RecordText(h)
  PROVE  TextInv'
<1>1. /\ sender[h] \in [op : {"text", "record"}, of : Drafts, todo : SUBSET Members,
                        tries : Int, by : Workers]
      /\ sender[h].op = "record" /\ sender \in [Workers -> Senders]
  <2>1. sender[h] \in Senders /\ sender[h].op = "record" /\ sender \in [Workers -> Senders]
    BY DEF TextInv, TextTypes, Text!RecordText
  <2> QED BY <2>1 DEF Senders
<1>2. PICK c \in Campaigns : c = sender[h].of
  BY <1>1 DEF Campaigns
<1>3. PICK todo \in SUBSET Members : todo = sender[h].todo
  BY <1>1
<1>4. PICK m : m = Text!Next1(todo)
  OBVIOUS
<1>5. PICK r \in Senders : /\ r = [sender[h] EXCEPT !.op = "text", !.todo = @ \ {m}]
                           /\ r.op = "text" /\ r.of = c /\ r.todo = todo \ {m}
  <2>1. [sender[h] EXCEPT !.op = "text", !.todo = @ \ {m}] \in
          [op : {"text", "record"}, of : Drafts, todo : SUBSET Members, tries : Int, by : Workers]
    BY <1>1
  <2>2. [sender[h] EXCEPT !.op = "text", !.todo = @ \ {m}] \in Senders
    BY <2>1 DEF Senders
  <2> QED BY <1>1, <1>2, <1>3, <2>2
<1>6. /\ sender' = [sender EXCEPT ![h] = r]
      /\ recipient' = [recipient EXCEPT ![c][m] = "SENT"]
      /\ sentOn' = [sentOn EXCEPT ![c][m] = date]
      /\ UNCHANGED <<campaign, tasks, date, texts, perDay, together, doubled, cutShort>>
  BY <1>2, <1>3, <1>4, <1>5 DEF Text!RecordText, Text!Turn
<1>7. /\ sender'[h] = r /\ \A g \in Workers \ {h} : sender'[g] = sender[g]
      /\ recipient' \in [Campaigns -> [Members -> {"NONE", "PENDING", "SENT", "FAILED"}]]
      /\ \A k \in Campaigns, n \in Members : (k # c \/ n # m) => recipient'[k][n] = recipient[k][n]
      /\ m \in Members => recipient'[c][m] = "SENT"
  BY <1>1, <1>6 DEF TextInv, TextTypes
<1>8. /\ sentOn' \in [Campaigns -> [Members -> Int]]
      /\ \A k \in Campaigns, n \in Members : (k # c \/ n # m) => sentOn'[k][n] = sentOn[k][n]
      /\ m \in Members => sentOn'[c][m] = date
  BY <1>6 DEF TextInv, TextTypes
<1>9. TextTypes'
  BY <1>6, <1>7, <1>8 DEF TextInv, TextTypes
<1>10. DraftInv'
  <2>1. campaign[c] # "NONE"
    BY <1>1, <1>2 DEF TextInv, DraftInv
  <2>2. \A g \in Workers : sender'[g].op # "free" => sender[g].op # "free" /\ sender'[g].of = sender[g].of
    BY <1>1, <1>2, <1>5, <1>7
  <2>3. \A k \in Campaigns, n \in Members : sentOn'[k][n] <= date
    <3>1. date \in Int /\ \A k \in Campaigns, n \in Members : sentOn[k][n] <= date
      BY DEF TextInv, TextTypes, DraftInv
    <3> QED BY <1>8, <3>1
  <2>4. ASSUME NEW k \in Campaigns, campaign'[k] = "NONE"
        PROVE  /\ \A s \in tasks' : s.of # k
               /\ \A g \in Workers : sender'[g].op # "free" => sender'[g].of # k
               /\ \A n \in Members : recipient'[k][n] = "NONE" /\ texts'[k][n] = 0
    <3>1. k # c /\ campaign[k] = "NONE"
      BY <1>6, <2>1, <2>4
    <3> QED BY <1>6, <1>7, <2>2, <3>1 DEF TextInv, DraftInv
  <2> QED BY <1>6, <2>3, <2>4 DEF DraftInv
<1>11. ASSUME ~cutShort', c \notin doubled
       PROVE  /\ WorksOn(h, c) /\ \A g \in Workers : WorksOn(g, c) => g = h
              /\ m \in todo /\ m \in Members /\ Size(todo \ {m}) = Size(todo) - 1
              /\ \A n \in todo : recipient[c][n] = "PENDING"
  <2>1. CampaignInv
    BY <1>6, <1>11 DEF TextInv
  <2>2. WorksOn(h, c)
    BY <1>1, <1>2 DEF WorksOn, Works
  <2>3. /\ \A g \in Workers : WorksOn(g, c) => g = h
        /\ todo # {} /\ \A n \in todo : recipient[c][n] = "PENDING"
    BY <1>1, <1>3, <1>11, <2>1, <2>2 DEF CampaignInv
  <2> QED BY <1>4, <2>2, <2>3, NextMember
<1>12. ASSUME ~cutShort' PROVE CampaignInv'
  <2>1. CampaignInv
    BY <1>6, <1>12 DEF TextInv
  <2>2. ASSUME NEW k \in Campaigns \ doubled', k # c
        PROVE  /\ \A f, g \in Workers : WorksOn(f, k)' /\ WorksOn(g, k)' => f = g
               /\ \A g \in Workers : WorksOn(g, k)' =>
                    /\ \A n \in sender'[g].todo : recipient'[k][n] = "PENDING"
                    /\ sender'[g].op = "record" => sender'[g].todo # {}
               /\ \A n \in Members :
                    /\ texts'[k][n] <= 1
                    /\ recipient'[k][n] = "PENDING" /\ texts'[k][n] # 0 =>
                         \E g \in Workers : Records(g, k, n)'
    <3>1. \A g \in Workers, n \in Members : Records(g, k, n) => Records(g, k, n)'
      BY <1>2, <1>7, <2>2 DEF Records
    <3>2. \A g \in Workers : WorksOn(g, k)' => WorksOn(g, k) /\ sender'[g] = sender[g]
      BY <1>5, <1>7, <2>2 DEF WorksOn, Works
    <3>3. /\ \A n \in Members : texts'[k][n] = texts[k][n] /\ recipient'[k][n] = recipient[k][n]
          /\ k \in Campaigns \ doubled
      BY <1>6, <1>7, <2>2
    <3>4. \A g \in Workers : WorksOn(g, k) => sender[g].todo \in SUBSET Members
      <4>1. ASSUME NEW g \in Workers, WorksOn(g, k) PROVE sender[g].todo \in SUBSET Members
        <5>1. sender[g] \in Senders /\ sender[g].op \in {"text", "record"}
          BY <1>1, <4>1 DEF WorksOn, Works
        <5> QED BY <5>1 DEF Senders
      <4> QED BY <4>1
    <3> QED BY <2>1, <3>1, <3>2, <3>3, <3>4 DEF CampaignInv
  <2>3. ASSUME c \notin doubled
        PROVE  /\ \A f, g \in Workers : WorksOn(f, c)' /\ WorksOn(g, c)' => f = g
               /\ \A g \in Workers : WorksOn(g, c)' =>
                    /\ \A n \in sender'[g].todo : recipient'[c][n] = "PENDING"
                    /\ sender'[g].op = "record" => sender'[g].todo # {}
               /\ \A n \in Members :
                    /\ texts'[c][n] <= 1
                    /\ recipient'[c][n] = "PENDING" /\ texts'[c][n] # 0 =>
                         \E g \in Workers : Records(g, c, n)'
    <3>1. \A g \in Workers : WorksOn(g, c)' => g = h
      BY <1>7, <1>11, <1>12, <2>3 DEF WorksOn, Works
    <3>2. \A n \in todo \ {m} : recipient'[c][n] = "PENDING"
      BY <1>7, <1>11, <1>12, <2>3
    <3>3. sender'[h].op = "text" /\ sender'[h].todo = todo \ {m}
      BY <1>5, <1>7
    <3>4. ASSUME NEW n \in Members, recipient'[c][n] = "PENDING" PROVE texts[c][n] = 0
      <4>1. n # m /\ recipient[c][n] = "PENDING"
        BY <1>7, <3>4
      <4>2. \A g \in Workers : ~Records(g, c, n)
        <5>1. ASSUME NEW g \in Workers, Records(g, c, n) PROVE FALSE
          <6>1. g = h
            BY <1>11, <1>12, <2>3, <5>1 DEF Records, WorksOn, Works
          <6> QED BY <1>3, <1>4, <4>1, <5>1, <6>1 DEF Records
        <5> QED BY <5>1
      <4> QED BY <2>1, <2>3, <4>1, <4>2 DEF CampaignInv
    <3>5. \A n \in Members : texts'[c][n] = texts[c][n] /\ texts[c][n] <= 1
      BY <1>6, <2>1, <2>3 DEF CampaignInv
    <3> QED BY <3>1, <3>2, <3>3, <3>4, <3>5
  <2> QED BY <1>6, <2>2, <2>3 DEF CampaignInv
<1>13. ASSUME ~cutShort', ~together' PROVE DayInv'
  <2>1. DayInv
    BY <1>6, <1>13 DEF TextInv
  <2>2. c \notin doubled /\ doubled' = {}
    BY <1>6, <2>1 DEF DayInv
  <2>3. /\ m \in todo /\ m \in Members /\ Size(todo \ {m}) = Size(todo) - 1
        /\ recipient[c][m] = "PENDING"
    BY <1>11, <1>13, <2>2
  <2>4. Sent' = Sent \cup {<<c, m>>} /\ <<c, m>> \notin Sent
    <3>1. \A k \in Campaigns, n \in Members :
            recipient'[k][n] = "SENT" /\ sentOn'[k][n] = date <=>
              (recipient[k][n] = "SENT" /\ sentOn[k][n] = date) \/ (k = c /\ n = m)
      BY <1>7, <1>8, <2>3
    <3>2. \A p \in Campaigns \X Members : p \in Sent' <=> p \in Sent \/ p = <<c, m>>
      <4> SUFFICES ASSUME NEW k \in Campaigns, NEW n \in Members
                   PROVE  <<k, n>> \in Sent' <=> <<k, n>> \in Sent \/ <<k, n>> = <<c, m>>
        OBVIOUS
      <4> QED BY <1>6, <3>1 DEF Sent
    <3>3. Sent' \subseteq Campaigns \X Members /\ Sent \subseteq Campaigns \X Members
      BY DEF Sent
    <3>4. <<c, m>> \in Campaigns \X Members
      BY <2>3
    <3>5. \A p : p \in Sent' <=> p \in Sent \cup {<<c, m>>}
      BY <3>2, <3>3, <3>4
    <3>6. <<c, m>> \notin Sent
      BY <2>3 DEF Sent
    <3> QED BY <3>5, <3>6
  <2>5. Cardinality(Sent)' = Cardinality(Sent) + 1 /\ Cardinality(Sent) \in Nat
    <3>1. IsFiniteSet(Sent) /\ Cardinality(Sent) \in Nat
      BY SentFinite
    <3>2. Cardinality(Sent \cup {<<c, m>>}) = Cardinality(Sent) + 1
      BY <2>4, <3>1, FS_AddElement
    <3> QED BY <2>4, <3>1, <3>2
  <2>6. /\ perDay = Cardinality(Sent) + 1 /\ perDay + Size(todo) <= 3 /\ perDay <= 2
        /\ Size(todo) \in 0..2
    <3>1. Size(todo) \in 0..2
      BY SizeMembers
    <3> QED BY <1>1, <1>3, <2>1, <3>1 DEF DayInv
  <2>7. \A g \in Workers : Works(g)' => g = h
    BY <1>1, <1>7, <2>1 DEF DayInv, Works
  <2>8. \A g \in Workers : sender'[g].op \in {"text", "record"} => g = h
    BY <2>7 DEF Works
  <2>9. /\ sender'[h].op = "text" /\ sender'[h].todo = todo \ {m} /\ Works(h)'
        /\ \A s : Size(s)' = Size(s)
    BY <1>5, <1>7 DEF Works, Size
  <2>10. perDay' = Cardinality(Sent)' /\ perDay' + Size(todo \ {m}) <= 2 /\ perDay' <= 2
    BY <1>6, <2>3, <2>5, <2>6
  <2> QED BY <2>2, <2>7, <2>8, <2>9, <2>10 DEF DayInv
<1> QED BY <1>9, <1>10, <1>12, <1>13 DEF TextInv

\* A day begins without messages.
LEMMA DayText ==
  ASSUME CampaignSets, TextInv, Text!NewDay
  PROVE  TextInv'
<1>1. /\ date' = date + 1 /\ perDay' = 0 /\ date \in Int
      /\ UNCHANGED <<campaign, recipient, sentOn, tasks, sender, texts, together, doubled, cutShort>>
  BY DEF Text!NewDay, TextInv, TextTypes
<1>2. \A h \in Workers : sender[h].op = "free"
  BY FreeSender DEF Text!NewDay
<1>3. TextTypes'
  BY <1>1 DEF TextInv, TextTypes
<1>4. DraftInv'
  <2>1. \A c \in Campaigns, m \in Members : sentOn[c][m] <= date /\ sentOn[c][m] \in Int
    BY DEF TextInv, TextTypes, DraftInv
  <2>2. \A c \in Campaigns, m \in Members : sentOn'[c][m] <= date'
    BY <1>1, <2>1
  <2> QED BY <1>1, <2>2 DEF TextInv, DraftInv
<1>5. ASSUME ~cutShort' PROVE CampaignInv'
  BY <1>1, <1>2, <1>5 DEF TextInv, CampaignInv, WorksOn, Works, Records
<1>6. ASSUME ~cutShort', ~together' PROVE DayInv'
  <2>1. Sent' = {}
    <3>1. \A c \in Campaigns, m \in Members : sentOn'[c][m] # date'
      <4>1. \A c \in Campaigns, m \in Members : sentOn[c][m] <= date /\ sentOn[c][m] \in Int
        BY DEF TextInv, TextTypes, DraftInv
      <4> QED BY <1>1, <4>1
    <3> QED BY <3>1 DEF Sent
  <2>2. Cardinality(Sent)' = 0
    BY <2>1, FS_EmptySet
  <2>3. doubled' = {}
    BY <1>1, <1>6 DEF TextInv, DayInv
  <2>4. \A h \in Workers : sender'[h].op = "free" /\ ~Works(h)'
    BY <1>1, <1>2 DEF Works
  <2> QED BY <1>1, <2>2, <2>3, <2>4 DEF DayInv
<1> QED BY <1>3, <1>4, <1>5, <1>6 DEF TextInv

\* A step of the model, which is a step of one part.
LEMMA StepText ==
  ASSUME CampaignSets, TextInv,
         [Next]_<<part, applications, instalments, reminders, campaigns, billing,
                  dividends, imports, monitors, notices, credit>>
  PROVE  TextInv'
<1>1. CASE Text!CampaignNext
  <2>1. ASSUME NEW c \in Drafts, NEW audience \in SUBSET {1, 2}, Text!CreateCampaign(c, audience)
        PROVE  TextInv'
    BY <2>1, CreateText DEF Members
  <2> QED BY <1>1, <2>1, OtherText, StartText, SendText, RecordText, DayText DEF Text!CampaignNext
<1>2. CASE UNCHANGED campaigns
  <2>1. /\ UNCHANGED <<campaign, recipient, sentOn, tasks, sender, date, texts>>
        /\ UNCHANGED <<perDay, together, doubled, cutShort>>
    BY <1>2 DEF campaigns
  <2>2. TextTypes' /\ DraftInv'
    BY <2>1 DEF TextInv, TextTypes, DraftInv
  <2>3. CampaignInv => CampaignInv'
    BY <2>1 DEF CampaignInv, WorksOn, Works, Records
  <2>4. Sent' = Sent
    BY <2>1 DEF Sent
  <2>5. DayInv => DayInv'
    BY <2>1, <2>4 DEF DayInv, Works, Size
  <2> QED BY <2>1, <2>2, <2>3, <2>5 DEF TextInv
<1> QED BY <1>1, <1>2 DEF Next

\* The daily limit holds and nobody gets a message of a campaign twice, unless tasks
\* worked at once or one stopped between a message and its record
\* (send_bulk_sms_campaign_task).
LEMMA LimitKept ==
  ASSUME CampaignSets
  PROVE  Spec => []Text!CampaignsKeepLimit
<1>1. Init => TextInv
  BY InitText DEF Init
<1>2. TextInv => Text!CampaignsKeepLimit
  BY DEF TextInv, CampaignInv, DayInv, Text!CampaignsKeepLimit, Text!All, Campaigns, Members
<1>3. TextInv /\ [Next]_<<part, applications, instalments, reminders, campaigns, billing,
                          dividends, imports, monitors, notices, credit>> => TextInv'
  BY StepText
<1> QED BY <1>1, <1>2, <1>3, PTL DEF Spec

-----------------------------------------------------------------------------
(* Messages *)

\* A reminder, a message of a campaign, an alert and a notice go out once and to the one
\* they are for, and a SACCO's daily limit holds, with the exceptions each module names
\* (services/reminder_utils.py, notifications/tasks.py, services/tasks.py).
THEOREM MessagesGoOnce ==
  ASSUME CampaignSets
  PROVE  Spec => []MessagesOnce
<1>1. /\ Remind!RemindedOnce /\ Text!CampaignsKeepLimit /\ Watch!AlertedOnce /\ Tell!NoticesArrive
      => MessagesOnce
  BY DEF MessagesOnce
<1> QED BY <1>1, RemindersOnce, LimitKept, AlertsOnce, NoticesOnce, PTL

-----------------------------------------------------------------------------
(* Types *)

\* What the reminders, campaigns, alerts and notices hold besides what their own
\* invariants say.
RemindValues ==
  /\ status \in [{"i1"} -> Remind!InstalmentStatuses] /\ logs \subseteq Remind!LogRows
  /\ today \in 0..4
TextValues == campaign \in [Campaigns -> Text!CampaignStatuses] /\ perDay \in Nat /\ date \in 0..1
WatchValues ==
  /\ hour \in 0..3 /\ alerts \in [{"sacco"} -> SUBSET (0..3)]
  /\ arrears \in [{"loan"} -> (0..3) \cup {-1}]
TellValues ==
  /\ notice \in {"none", "unread", "read"}
  /\ \A j \in jobs : j.op = "push" => j.tries \in 1..2
  /\ \A p \in {"worker"} : pusher[p].op # "idle" => pusher[p].job.tries \in 1..2

\* An instalment that a run logs is one of those there are.
LEMMA RemindKeepsValues ==
  ASSUME RemindInv, RemindValues,
         [Next]_<<part, applications, instalments, reminders, campaigns, billing,
                  dividends, imports, monitors, notices, credit>>
  PROVE  RemindValues'
<1>1. ASSUME UNCHANGED <<status, logs, today>> PROVE RemindValues'
  BY <1>1 DEF RemindValues
<1>2. ASSUME NEW c \in Workers, Remind!WriteLog(c) PROVE RemindValues'
  <2>1. command[c] \in Runs /\ command[c].op = "log"
    BY <1>2 DEF RemindInv, RemindTypes, Remind!WriteLog
  <2>2. command[c].item \in {"i1"} /\ command[c].type \in Remind!ReminderTypes
    BY <2>1 DEF Runs
  <2>3. /\ UNCHANGED <<status, today>>
        /\ logs' = logs \cup {<<command[c].item, command[c].type>>}
    BY <1>2 DEF Remind!WriteLog
  <2> QED BY <2>2, <2>3 DEF RemindValues, Remind!LogRows
<1>3. ASSUME NEW c \in Workers,
             \/ \E days \in {1, 3} : Remind!StartCommand(c, days)
             \/ Remind!StartOverdue(c) \/ Remind!EndCommand(c) \/ Remind!CommandDies(c)
             \/ \E i \in {"i1"} : Remind!LookAtLog(c, i)
             \/ \E sent \in BOOLEAN : Remind!Remind(c, sent)
      PROVE  UNCHANGED <<status, logs, today>>
  BY <1>3 DEF Remind!StartCommand, Remind!StartOverdue, Remind!EndCommand, Remind!CommandDies,
         Remind!LookAtLog, Remind!Remind
<1>4. ASSUME NEW i \in {"i1"}, Remind!Pays(i) \/ Remind!StaffMarksOverdue(i) PROVE RemindValues'
  BY <1>4 DEF Remind!Pays, Remind!StaffMarksOverdue, RemindValues, Remind!InstalmentStatuses
<1>5. ASSUME Remind!Midnight PROVE RemindValues'
  BY <1>5 DEF Remind!Midnight, RemindValues
<1>6. CASE Remind!ReminderNext
  BY <1>1, <1>2, <1>3, <1>4, <1>5, <1>6 DEF Remind!ReminderNext
<1>7. CASE UNCHANGED reminders
  BY <1>1, <1>7 DEF reminders
<1> QED BY <1>6, <1>7 DEF Next

\* Campaigns move between their statuses, and messages are counted.
LEMMA TextKeepsValues ==
  ASSUME TextTypes, TextValues,
         [Next]_<<part, applications, instalments, reminders, campaigns, billing,
                  dividends, imports, monitors, notices, credit>>
  PROVE  TextValues'
<1> DEFINE Moves(c) == \E s \in Text!CampaignStatuses : campaign' = [campaign EXCEPT ![c] = s]
<1>0. /\ Campaigns' = Campaigns /\ campaign \in [Campaigns -> Text!CampaignStatuses]
      /\ \A d \in Drafts : d \in Campaigns
  BY DEF Campaigns, TextValues
<1>1. ASSUME NEW c, UNCHANGED <<date, perDay>>, Moves(c) PROVE TextValues'
  BY <1>0, <1>1 DEF TextValues
<1>2. ASSUME UNCHANGED <<campaign, date, perDay>> PROVE TextValues'
  BY <1>2, <1>0 DEF TextValues
<1>3. ASSUME NEW c \in Drafts, NEW audience \in SUBSET {1, 2}, Text!CreateCampaign(c, audience)
      PROVE  TextValues'
  BY <1>1, <1>3 DEF Text!CreateCampaign, Text!CampaignStatuses
<1>4. ASSUME Text!NewDay PROVE TextValues'
  BY <1>0, <1>4 DEF Text!NewDay, TextValues
<1>5. ASSUME NEW h \in Workers, NEW c \in Drafts, Text!ReadDraft(h, c) PROVE TextValues'
  BY <1>2, <1>5 DEF Text!ReadDraft
<1>6. ASSUME NEW h \in Workers, NEW queuing \in BOOLEAN, Text!SendCampaign(h, queuing)
      PROVE  TextValues'
  BY <1>1, <1>6 DEF Text!SendCampaign, Text!CampaignStatuses
<1>7. ASSUME NEW h \in Workers, NEW t \in tasks, Text!StartTask(h, t) PROVE TextValues'
  <2>1. t.of \in Campaigns
    BY <1>0 DEF TextTypes
  <2>2. campaign[t.of] \in Text!CampaignStatuses
    BY <1>0, <2>1
  <2>3. campaign' = [campaign EXCEPT ![t.of] = IF Text!Allowance(t.of) = 0 THEN "FAILED" ELSE campaign[t.of]]
    BY <1>7 DEF Text!StartTask
  <2>4. (IF Text!Allowance(t.of) = 0 THEN "FAILED" ELSE campaign[t.of]) \in Text!CampaignStatuses
    BY <2>2 DEF Text!CampaignStatuses
  <2>5. Moves(t.of)
    BY <2>3, <2>4
  <2> QED BY <1>1, <1>7, <2>5 DEF Text!StartTask
<1>8. ASSUME NEW h \in Workers, Text!SendText(h) PROVE TextValues'
  BY <1>0, <1>8 DEF Text!SendText, TextValues
<1>9. ASSUME NEW h \in Workers, Text!TextRefused(h) \/ Text!RecordText(h) \/ Text!TaskFails(h)
      PROVE  TextValues'
  BY <1>2, <1>9 DEF Text!TextRefused, Text!RecordText, Text!TaskFails
<1>10. ASSUME NEW h \in Workers, Text!EndTask(h) PROVE TextValues'
  BY <1>1, <1>10 DEF Text!EndTask, Text!CampaignStatuses
<1>11. CASE Text!CampaignNext
  BY <1>3, <1>4, <1>5, <1>6, <1>7, <1>8, <1>9, <1>10, <1>11 DEF Text!CampaignNext
<1>12. CASE UNCHANGED campaigns
  BY <1>2, <1>12 DEF campaigns
<1> QED BY <1>11, <1>12 DEF Next

\* Hours and arrears stay within their bounds.
LEMMA WatchKeepsValues ==
  ASSUME WatchTypes, WatchValues,
         [Next]_<<part, applications, instalments, reminders, campaigns, billing,
                  dividends, imports, monitors, notices, credit>>
  PROVE  WatchValues'
<1>1. ASSUME UNCHANGED <<hour, alerts, arrears>> PROVE WatchValues'
  BY <1>1 DEF WatchValues
<1>2. ASSUME Watch!HourPasses PROVE WatchValues'
  BY <1>2 DEF Watch!HourPasses, WatchValues
<1>3. ASSUME NEW w \in Workers, NEW s \in {"sacco"}, Watch!CheckSacco(w, s) PROVE WatchValues'
  BY <1>3 DEF Watch!CheckSacco, WatchValues
<1>4. ASSUME NEW w \in Workers, NEW administered \in BOOLEAN, Watch!CreateAlert(w, administered)
      PROVE  WatchValues'
  <2>1. sweep[w].op = "alert" /\ sweep[w] \in Sweeps
    BY <1>4 DEF Watch!CreateAlert, WatchTypes
  <2>2. sweep[w].of = "sacco"
    BY <2>1 DEF Sweeps
  <2>3. /\ alerts' = [alerts EXCEPT !["sacco"] = alerts["sacco"] \cup {hour}]
        /\ UNCHANGED <<hour, arrears>>
    BY <1>4, <2>2 DEF Watch!CreateAlert
  <2> QED BY <2>3 DEF WatchValues
<1>5. ASSUME NEW l \in {"loan"},
             Watch!GrowsLater(l) \/ \E next \in {0, 1, Watch!Clear} : Watch!RepaymentComes(l, next)
      PROVE  WatchValues'
  BY <1>5 DEF Watch!GrowsLater, Watch!RepaymentComes, Watch!Clear, WatchValues
<1>6. ASSUME NEW s \in {"sacco"}, NEW reserves \in {0, 9}, NEW out \in {0, 9},
             Watch!MoneyMoves(s, reserves, out)
      PROVE  UNCHANGED <<hour, alerts, arrears>>
  BY <1>6 DEF Watch!MoneyMoves
<1>7. ASSUME NEW w \in Workers,
             \/ \E n \in 0..1 : Watch!StartCheck(w, n) \/ Watch!StartFlagging(w, n)
             \/ \E l \in {"loan"} : Watch!FlagLoan(w, l)
             \/ Watch!SendNotice(w) \/ Watch!FlaggingFails(w) \/ Watch!EndSweep(w)
      PROVE  UNCHANGED <<hour, alerts, arrears>>
  BY <1>7 DEF Watch!StartCheck, Watch!StartFlagging, Watch!FlagLoan, Watch!SendNotice,
         Watch!FlaggingFails, Watch!EndSweep
<1>8. CASE Watch!LiquidityNext
  BY <1>1, <1>2, <1>3, <1>4, <1>6, <1>7, <1>8 DEF Watch!LiquidityNext
<1>9. CASE Watch!ArrearsNext
  BY <1>1, <1>5, <1>7, <1>9 DEF Watch!ArrearsNext
<1>10. CASE UNCHANGED monitors
  BY <1>1, <1>10 DEF monitors
<1> QED BY <1>8, <1>9, <1>10 DEF Next

\* A push is tried at most twice.
LEMMA TellKeepsValues ==
  ASSUME TellTypes, TellValues,
         [Next]_<<part, applications, instalments, reminders, campaigns, billing,
                  dividends, imports, monitors, notices, credit>>
  PROVE  TellValues'
<1> DEFINE Tried(j) == j.op = "push" => j.tries \in 1..2
           Held(r) == r.op # "idle" => r.job.tries \in 1..2
           Turns(r) == pusher' = [pusher EXCEPT !["worker"] = r]
<1>0. /\ pusher \in [{"worker"} -> Pushes] /\ notice \in {"none", "unread", "read"}
      /\ \A j \in jobs : Tried(j)
      /\ Held(pusher["worker"])
  BY DEF TellTypes, TellValues
<1>1. ASSUME notice' \in {"none", "unread", "read"}, \A j \in jobs' : Tried(j),
             NEW r, Turns(r), Held(r)
      PROVE  TellValues'
  BY <1>0, <1>1 DEF TellValues
<1>2. ASSUME notice' \in {"none", "unread", "read"}, \A j \in jobs' : Tried(j), UNCHANGED pusher
      PROVE  TellValues'
  BY <1>0, <1>2 DEF TellValues
<1>3. ASSUME NEW d \in Phones, NEW u \in {Member, Stranger}, Tell!Register(d, u) PROVE TellValues'
  BY <1>0, <1>2, <1>3 DEF Tell!Register
<1>4. ASSUME NEW dispatch \in BOOLEAN, Tell!CreateNotification(dispatch) PROVE TellValues'
  <2>1. \A j \in jobs' : Tried(j)
    BY <1>4 DEF Tell!CreateNotification, Tell!Notify
  <2> QED BY <1>2, <1>4, <2>1 DEF Tell!CreateNotification
<1>5. ASSUME Tell!QueueNotify PROVE TellValues'
  <2>1. \A j \in jobs' : Tried(j)
    BY <1>5 DEF Tell!QueueNotify, Tell!Notify
  <2> QED BY <1>0, <1>2, <1>5, <2>1 DEF Tell!QueueNotify
<1>6. ASSUME Tell!MarkRead PROVE TellValues'
  BY <1>0, <1>2, <1>6 DEF Tell!MarkRead
<1>7. ASSUME NEW j \in jobs, NEW written \in BOOLEAN, NEW queuing \in BOOLEAN,
             Tell!NotifyUser(j, written, queuing)
      PROVE  TellValues'
  <2> DEFINE first == [op |-> "push", tries |-> 1]
  <2>1. Tried(first)
    OBVIOUS
  <2>2. jobs' \subseteq jobs \cup {first}
    BY <1>7 DEF Tell!NotifyUser
  <2>3. notice' \in {"none", "unread", "read"} /\ UNCHANGED pusher
    BY <1>0, <1>7 DEF Tell!NotifyUser
  <2> HIDE DEF first
  <2>4. \A k \in jobs' : Tried(k)
    BY <1>0, <2>1, <2>2
  <2> QED BY <1>2, <2>3, <2>4
<1>8. ASSUME NEW j \in jobs, Tell!StartPush("worker", j) PROVE TellValues'
  <2>1. PICK r : r = [op |-> "push", job |-> j, todo |-> Tell!Addressed]
    OBVIOUS
  <2>2. j.tries \in 1..2
    BY <1>0, <1>8 DEF Tell!StartPush
  <2>3. Turns(r) /\ Held(r)
    BY <1>8, <2>1, <2>2 DEF Tell!StartPush, Tell!Turn
  <2>4. UNCHANGED notice /\ \A k \in jobs' : Tried(k)
    BY <1>0, <1>8 DEF Tell!StartPush
  <2> QED BY <1>0, <1>1, <2>3, <2>4
<1>9. ASSUME pusher["worker"].op \in {"push", "refused"}, NEW r, Turns(r),
             r.op = "idle" \/ r.job = pusher["worker"].job,
             UNCHANGED <<notice, jobs>>
      PROVE  TellValues'
  <2>1. Held(r)
    BY <1>0, <1>9
  <2> QED BY <1>0, <1>1, <1>9, <2>1
<1>10. ASSUME NEW d \in Phones, Tell!PushSent("worker", d) PROVE TellValues'
  <2>1. PICK r : r = [pusher["worker"] EXCEPT !.todo = @ \ {d}]
    OBVIOUS
  <2>2. pusher["worker"] \in Pushes /\ pusher["worker"].op = "push"
    BY <1>0, <1>10 DEF Tell!PushSent, Tell!Delivered
  <2>3. r.job = pusher["worker"].job
    BY <2>1, <2>2 DEF Pushes
  <2>4. Turns(r) /\ UNCHANGED <<notice, jobs>>
    BY <1>10, <2>1 DEF Tell!PushSent, Tell!Turn
  <2> QED BY <1>9, <2>2, <2>3, <2>4
<1>11. ASSUME NEW d \in Phones, Tell!PushRefused("worker", d) PROVE TellValues'
  <2>1. PICK r : r = [op |-> "refused", job |-> pusher["worker"].job, at |-> d,
                      todo |-> pusher["worker"].todo \ {d}]
    OBVIOUS
  <2>2. Turns(r) /\ UNCHANGED <<notice, jobs>> /\ pusher["worker"].op = "push"
    BY <1>11, <2>1 DEF Tell!PushRefused, Tell!Turn
  <2>3. r.job = pusher["worker"].job
    BY <2>1
  <2> QED BY <1>9, <2>2, <2>3
<1>12. ASSUME Tell!Deactivate("worker") PROVE TellValues'
  <2>1. PICK r : r = [op |-> "push", job |-> pusher["worker"].job, todo |-> pusher["worker"].todo]
    OBVIOUS
  <2>2. Turns(r) /\ UNCHANGED <<notice, jobs>> /\ pusher["worker"].op = "refused"
    BY <1>12, <2>1 DEF Tell!Deactivate, Tell!Turn
  <2>3. r.job = pusher["worker"].job
    BY <2>1
  <2> QED BY <1>9, <2>2, <2>3
<1>13. ASSUME NEW d \in Phones, Tell!PushFails("worker", d) PROVE TellValues'
  <2>1. PICK r \in Pushes : r = Tell!Still /\ r.op = "idle"
    BY IdlePush
  <2>2. PICK work : work = pusher["worker"].job
    OBVIOUS
  <2>3. pusher["worker"].op = "push" /\ pusher["worker"] \in Pushes
    BY <1>0, <1>13 DEF Tell!PushFails, Tell!Delivered
  <2>4. work \in PushJobs /\ work.tries \in 1..2
    BY <1>0, <2>2, <2>3 DEF Pushes
  <2>5. \A k \in Tell!Retried(work) : Tried(k)
    BY <2>4 DEF Tell!Retried, PushJobs
  <2>6. Turns(r) /\ UNCHANGED notice /\ jobs' = jobs \cup Tell!Retried(work)
    BY <1>13, <2>1, <2>2 DEF Tell!PushFails, Tell!Turn
  <2>7. (\A k \in jobs' : Tried(k)) /\ Held(r)
    BY <1>0, <2>1, <2>5, <2>6
  <2> QED BY <1>0, <1>1, <2>6, <2>7
<1>14. ASSUME Tell!PushEnds("worker") PROVE TellValues'
  <2>1. PICK r \in Pushes : r = Tell!Still /\ r.op = "idle"
    BY IdlePush
  <2> QED BY <1>9, <1>14, <2>1 DEF Tell!PushEnds, Tell!Turn
<1>15. CASE Tell!NoticeNext
  BY <1>3, <1>4, <1>5, <1>6, <1>7, <1>8, <1>10, <1>11, <1>12, <1>13, <1>14, <1>15
  DEF Tell!NoticeNext
<1>16. CASE UNCHANGED notices
  BY <1>0, <1>2, <1>16 DEF notices
<1> QED BY <1>15, <1>16 DEF Next

\* Every part starts with values of its types.
LEMMA InitValues ==
  ASSUME Init, CampaignSets
  PROVE  RemindValues /\ TextValues /\ WatchValues /\ TellValues
<1>1. RemindValues
  BY DEF Init, Remind!ReminderInit, RemindValues, Remind!InstalmentStatuses
<1>2. TextValues
  <2>0. Text!CampaignInit
    BY DEF Init
  <2>1. PICK members \in SUBSET Members : perDay = Cardinality(Past) * Cardinality(members)
    BY <2>0 DEF Text!CampaignInit, Text!Cardinality, Cardinality, Members
  <2>2. Cardinality(members) \in Nat /\ Cardinality(Past) \in Nat
    <3>1. IsFiniteSet(Members)
      BY SentFinite
    <3>2. IsFiniteSet(members)
      BY <3>1, FS_Subset
    <3> QED BY <3>2, FS_CardinalityType DEF CampaignSets
  <2>3. perDay \in Nat
    BY <2>1, <2>2
  <2>4. date = 0 /\ campaign \in [Campaigns -> {"NONE", "COMPLETED"}]
    BY <2>0 DEF Text!CampaignInit, Text!All, Campaigns
  <2> QED BY <2>3, <2>4 DEF TextValues, Text!CampaignStatuses
<1>3. WatchValues
  BY DEF Init, Watch!MonitorInit, WatchValues
<1>4. TellValues
  BY DEF Init, Tell!NoticeInit, Tell!Still, TellValues
<1> QED BY <1>1, <1>2, <1>3, <1>4

\* The billing part is of its types.
LEMMA BillsAreTyped == Spec => []Bill!BillingTypeOK
<1>1. Invoices!BillingSpec => []Invoices!BillingTypeOK
  BY BillingValues, Invoices!BillingTyped, PTL
<1>2. Invoices!BillingTypeOK => Bill!BillingTypeOK
  BY DEF Bill!BillingTypeOK, Invoices!BillingTypeOK, Bill!Keys, Invoices!Keys, Bill!Months,
         Invoices!Months, Bill!InvoiceStatuses, Invoices!InvoiceStatuses
<1> QED BY <1>1, <1>2, BillingPart, PTL

\* The invariants of the parts hold the types of the parts.
LEMMA PartsAreTyped ==
  /\ RemindInv /\ RemindValues => Remind!ReminderTypeOK
  /\ TextTypes /\ TextValues => Text!CampaignTypeOK
  /\ WatchTypes /\ WatchValues => Watch!MonitorTypeOK
  /\ TellTypes /\ TellValues => Tell!NoticeTypeOK
  /\ ShareInv => Share!DividendTypeOK
  /\ ImportInv => Import!ImportTypeOK
  /\ CreditInv => Credit!CreditTypeOK
<1>1. RemindInv /\ RemindValues => Remind!ReminderTypeOK
  BY DEF RemindInv, RemindTypes, RemindValues, Remind!ReminderTypeOK
<1>2. TextTypes /\ TextValues => Text!CampaignTypeOK
  BY DEF TextTypes, TextValues, Text!CampaignTypeOK, Text!All, Campaigns, Members,
         Text!RecipientStatuses
<1>3. WatchTypes /\ WatchValues => Watch!MonitorTypeOK
  BY DEF WatchTypes, WatchValues, Watch!MonitorTypeOK, Watch!Stages, Watch!FlagStates, Watch!Clear
<1>4. TellTypes /\ TellValues => Tell!NoticeTypeOK
  BY DEF TellTypes, TellValues, Tell!NoticeTypeOK
<1>5. ShareInv => Share!DividendTypeOK
  <2> SUFFICES ASSUME ShareTypes PROVE Share!DividendTypeOK
    BY DEF ShareInv
  <2>1. declaration.status \in {"NONE", "DRAFT", "CALCULATED", "APPROVED", "DISBURSED"}
    BY DEF ShareTypes, Declarations, Share!NoDeclaration
  <2>2. \A s \in Accounts : payout[s] \in ShareRows \cup {Share!NoPayout}
    BY DEF ShareTypes
  <2>3. \A r \in ShareRows \cup {Share!NoPayout} : r.status \in {"NONE", "PENDING", "PAID"}
    BY DEF ShareRows, Share!NoPayout
  <2>4. \A s \in Accounts : paid[s].times \in 0..2
    BY DEF ShareTypes
  <2> QED BY <2>1, <2>2, <2>3, <2>4 DEF Share!DividendTypeOK
<1>6. ImportInv => Import!ImportTypeOK
  BY DEF ImportInv, ImportTypes, Import!ImportTypeOK
<1>7. CreditInv => Credit!CreditTypeOK
  <2> SUFFICES ASSUME CreditTypes PROVE Credit!CreditTypeOK
    BY DEF CreditInv
  <2>1. \A i \in DOMAIN checks : checks[i] \in CheckRows
    BY DEF CreditTypes
  <2>2. \A r \in CheckRows : r.negative \in BOOLEAN
    BY DEF CheckRows
  <2> QED BY <2>1, <2>2 DEF CreditTypes, Credit!CreditTypeOK
<1> QED BY <1>1, <1>2, <1>3, <1>4, <1>5, <1>6, <1>7

\* Every variable of every part is of its type: statuses, dates and counters are among
\* those the code has, and balances are never negative.
THEOREM OfficeIsTyped ==
  ASSUME CampaignSets, IsFiniteSet(Workers), IsFiniteSet(Accounts), IsFiniteSet(People)
  PROVE  Spec => []OfficeTypeOK
<1> DEFINE Messages == /\ RemindInv /\ TextInv /\ WatchInv /\ TellInv
                       /\ RemindValues /\ TextValues /\ WatchValues /\ TellValues
           Rest == ApplyInv /\ InstalInv /\ ShareInv /\ ImportInv /\ CreditInv
<1>1. Init => Messages /\ Rest
  BY InitRemind, InitText, InitWatch, InitTell, InitValues, InitApply, InitInstal, InitShare,
     InitImport, InitCredit DEF Init
<1>2. Messages /\ Rest
      /\ [Next]_<<part, applications, instalments, reminders, campaigns, billing,
                  dividends, imports, monitors, notices, credit>>
      => Messages' /\ Rest'
  <2> SUFFICES ASSUME Messages, Rest,
                      [Next]_<<part, applications, instalments, reminders, campaigns, billing,
                               dividends, imports, monitors, notices, credit>>
               PROVE  Messages' /\ Rest'
    OBVIOUS
  <2>1. RemindInv' /\ TextInv' /\ WatchInv' /\ TellInv'
    BY StepRemind, StepText, StepWatch, StepTell
  <2>2. RemindValues' /\ TextValues' /\ WatchValues' /\ TellValues'
    BY RemindKeepsValues, TextKeepsValues, WatchKeepsValues, TellKeepsValues
    DEF TextInv, WatchInv, TellInv
  <2>3. ApplyInv' /\ InstalInv' /\ ShareInv' /\ ImportInv' /\ CreditInv'
    BY StepApply, StepInstal, StepShare, StepImport, StepCredit
  <2> QED BY <2>1, <2>2, <2>3
<1>3. Messages /\ Rest /\ Bill!BillingTypeOK => OfficeTypeOK
  BY PartsAreTyped, InstalmentsAreRight
  DEF TextInv, WatchInv, TellInv, ApplyInv, ApplyTypes, OfficeTypeOK
<1> HIDE DEF Messages, Rest
<1> QED BY <1>1, <1>2, <1>3, BillsAreTyped, PTL DEF Spec
=============================================================================

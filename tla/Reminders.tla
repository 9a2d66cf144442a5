----------------------------- MODULE Reminders -----------------------------
(***************************************************************************)
(* The reminders about instalments of loans: the management command        *)
(* send_repayment_reminders, run by the operating system's scheduler, and  *)
(* services/reminder_utils.py.  For every instalment the command looks for *)
(* a log entry, writes the notice and queues the SMS, and writes the log   *)
(* entry, each on its own; days pass, members pay and other runs of the    *)
(* command work in between.                                                *)
(***************************************************************************)
EXTENDS Integers, FiniteSets

CONSTANTS
  Items,      \* instalments
  Commands,   \* runs of the command at the same time
  DueOn,      \* due_date of every instalment
  DaysAhead,  \* values of --days
  LastDay     \* bound on days

VARIABLES
  status,   \* status of every instalment
  logs,     \* the ReminderLog rows: pairs of instalment and type
  reminded, \* history: times told, by instalment and type, 2 for more
  command,  \* what every run is doing
  today,
  doubled   \* history: two runs worked at once, or one died on the way

reminderVars == <<status, logs, reminded, command, today, doubled>>

ReminderTypes == {"THREE_DAY", "ONE_DAY", "OVERDUE"}

InstalmentStatuses == {"PENDING", "PAID", "OVERDUE"}

LogRows == Items \X ReminderTypes

Resting == [op |-> "rest"]

ReminderInit ==
  /\ status = [i \in Items |-> "PENDING"] /\ logs = {} /\ today = 0 /\ doubled = FALSE
  /\ reminded = [l \in LogRows |-> 0]
  /\ command = [c \in Commands |-> Resting]

Upcoming(days) == {i \in Items : status[i] = "PENDING" /\ DueOn[i] = today + days}

\* Those that became overdue yesterday, and have been set OVERDUE by staff:
\* nothing in the code does.
BecameOverdue == {i \in Items : status[i] = "OVERDUE" /\ DueOn[i] = today - 1}

Do(c, r) == command' = [command EXCEPT ![c] = r]

StartCommand(c, days) ==
  /\ command[c] = Resting
  /\ Do(c, [op |-> "upcoming", todo |-> Upcoming(days)])
  /\ doubled' = (doubled \/ \E d \in Commands : command[d] # Resting)
  /\ UNCHANGED <<status, logs, reminded, today>>

\* The second query is made when the first list is done.
StartOverdue(c) ==
  /\ command[c].op = "upcoming" /\ command[c].todo = {}
  /\ Do(c, [op |-> "overdue", todo |-> BecameOverdue])
  /\ UNCHANGED <<status, logs, reminded, today, doubled>>

EndCommand(c) ==
  /\ command[c].op = "overdue" /\ command[c].todo = {} /\ Do(c, Resting)
  /\ UNCHANGED <<status, logs, reminded, today, doubled>>

\* Of the day on which the instalment's turn comes, which after midnight is not
\* the day of the query.
UpcomingType(i) == IF DueOn[i] - today = 1 THEN "ONE_DAY" ELSE "THREE_DAY"

\* Mutant: whatever the reminder, the entry looked for is the first one's.
ReminderExistsThreeDay(i, type) == <<i, "THREE_DAY">> \in logs

ReminderExists(i, type) == <<i, type>> \in logs

\* send_repayment_reminder and send_overdue_alert, up to the look at the log.
LookAtLog(c, i) ==
  LET r == command[c]
      type == IF r.op = "overdue" THEN "OVERDUE" ELSE UpcomingType(i)
  IN
  /\ r.op \in {"upcoming", "overdue"} /\ i \in r.todo
  /\ Do(c, IF ReminderExists(i, type)
           THEN [r EXCEPT !.todo = @ \ {i}]
           ELSE [op |-> "send", item |-> i, type |-> type, next |-> r.op, todo |-> r.todo \ {i}])
  /\ UNCHANGED <<status, logs, reminded, today, doubled>>

\* The notice and the SMS; either or both may fail, which ends nothing.
Remind(c, sent) ==
  LET r == command[c] IN
  /\ r.op = "send" /\ Do(c, [r EXCEPT !.op = "log"])
  /\ reminded' = [reminded EXCEPT ![<<r.item, r.type>>] = IF sent /\ @ < 2 THEN @ + 1 ELSE @]
  /\ UNCHANGED <<status, logs, today, doubled>>

\* The unique (schedule_item, reminder_type) lets a second entry pass by.
WriteLog(c) ==
  LET r == command[c] IN
  /\ r.op = "log" /\ logs' = logs \cup {<<r.item, r.type>>}
  /\ Do(c, [op |-> r.next, todo |-> r.todo])
  /\ UNCHANGED <<status, reminded, today, doubled>>

CommandDies(c) ==
  /\ command[c].op \in {"send", "log"} /\ Do(c, Resting) /\ doubled' = TRUE
  /\ UNCHANGED <<status, logs, reminded, today>>

Pays(i) ==
  /\ status[i] # "PAID" /\ status' = [status EXCEPT ![i] = "PAID"]
  /\ UNCHANGED <<logs, reminded, command, today, doubled>>

StaffMarksOverdue(i) ==
  /\ status[i] = "PENDING" /\ DueOn[i] < today
  /\ status' = [status EXCEPT ![i] = "OVERDUE"]
  /\ UNCHANGED <<logs, reminded, command, today, doubled>>

Midnight ==
  /\ today < LastDay /\ today' = today + 1
  /\ UNCHANGED <<status, logs, reminded, command, doubled>>

ReminderNext ==
  \/ \E c \in Commands :
       \/ \E days \in DaysAhead : StartCommand(c, days)
       \/ StartOverdue(c) \/ EndCommand(c) \/ WriteLog(c) \/ CommandDies(c)
       \/ \E i \in Items : LookAtLog(c, i)
       \/ \E sent \in BOOLEAN : Remind(c, sent)
  \/ \E i \in Items : Pays(i) \/ StaffMarksOverdue(i)
  \/ Midnight

-----------------------------------------------------------------------------
(* Properties *)

ReminderTypeOK ==
  /\ status \in [Items -> InstalmentStatuses] /\ logs \subseteq LogRows
  /\ reminded \in [LogRows -> 0..2] /\ today \in 0..LastDay

\* A member is told once of each kind about an instalment, however often the
\* command runs on one day or another, as its help text says, unless two runs
\* work at once or one dies before it has written the log
\* (services/reminder_utils.py).
RemindedOnce == \A l \in LogRows : reminded[l] > 1 => doubled
=============================================================================

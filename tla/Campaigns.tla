----------------------------- MODULE Campaigns -----------------------------
(***************************************************************************)
(* Bulk SMS of one SACCO: drafts and the request to send them              *)
(* (saccomanagement/bulk_sms_views.py) and the task that sends             *)
(* (notifications/tasks.py send_bulk_sms_campaign_task), within the        *)
(* SACCO's daily limit.  The status of a draft is looked at without a      *)
(* lock, and the limit is taken from the messages that are recorded as     *)
(* sent when the task starts.                                              *)
(***************************************************************************)
EXTENDS Integers, FiniteSets

CONSTANTS
  Drafts,     \* campaigns to come
  Past,       \* campaigns sent earlier on the first day
  Recipients, \* members with a phone number, in order of their rows: 1 .. n
  DailyLimit, \* SaccoSettings.sms_daily_limit
  Hands,      \* requests and Celery workers
  LastDay,    \* bound on days
  MaxTries    \* bound on attempts of a task

VARIABLES
  campaign,  \* status of every campaign
  recipient, \* status of every recipient of every campaign
  sentOn,    \* day of sent_at
  tasks,     \* queued: attempts made so far
  hand,      \* what every request and worker is doing
  date,
  texts,     \* history: messages every recipient got, 2 for more
  perDay,    \* history: messages sent on the day, DailyLimit + 1 for more
  together,  \* history: two tasks worked at once
  doubled,   \* history: campaigns two tasks worked on at once
  cutShort   \* history: a task stopped between a message and its record

campaignVars == <<campaign, recipient, sentOn, tasks, hand, date, texts, perDay, together, doubled, cutShort>>

CampaignStatuses == {"NONE", "DRAFT", "SENDING", "COMPLETED", "FAILED"}

RecipientStatuses == {"NONE", "PENDING", "SENT", "FAILED"}

Free == [op |-> "free"]

All == Drafts \cup Past

CampaignInit ==
  /\ tasks = {} /\ date = 0 /\ hand = [h \in Hands |-> Free]
  /\ together = FALSE /\ doubled = {} /\ cutShort = FALSE
  /\ \E got \in SUBSET Recipients :
       /\ Cardinality(Past) * Cardinality(got) <= DailyLimit
       /\ perDay = Cardinality(Past) * Cardinality(got)
       /\ campaign = [c \in All |-> IF c \in Drafts THEN "NONE" ELSE "COMPLETED"]
       /\ recipient = [c \in All |-> [m \in Recipients |->
                         IF c \in Past /\ m \in got THEN "SENT" ELSE "NONE"]]
       /\ texts = [c \in All |-> [m \in Recipients |-> IF c \in Past /\ m \in got THEN 1 ELSE 0]]
  /\ sentOn = [c \in All |-> [m \in Recipients |-> 0]]

Begin(h, r) ==
  hand[h] = Free /\ hand' = [hand EXCEPT ![h] = r]

Turn(h, r) == hand' = [hand EXCEPT ![h] = r]

AtWork(c) == \E g \in Hands : hand[g].op \in {"text", "record"} /\ hand[g].of = c

\* resolve_audience: some of the members; campaign and recipients in one transaction.
CreateCampaign(c, audience) ==
  /\ campaign[c] = "NONE" /\ campaign' = [campaign EXCEPT ![c] = "DRAFT"]
  /\ recipient' = [recipient EXCEPT ![c] = [m \in Recipients |->
                     IF m \in audience THEN "PENDING" ELSE "NONE"]]
  /\ UNCHANGED <<sentOn, tasks, hand, date, texts, perDay, together, doubled, cutShort>>

ReadDraft(h, c) ==
  /\ campaign[c] = "DRAFT" /\ Begin(h, [op |-> "send", of |-> c])
  /\ UNCHANGED <<campaign, recipient, sentOn, tasks, date, texts, perDay, together, doubled, cutShort>>

\* A broker that is down leaves the campaign SENDING, which no request accepts.
SendCampaign(h, queued) ==
  /\ hand[h].op = "send"
  /\ campaign' = [campaign EXCEPT ![hand[h].of] = "SENDING"]
  /\ tasks' = IF queued THEN tasks \cup {[of |-> hand[h].of, tries |-> 1, by |-> h]} ELSE tasks
  /\ Turn(h, Free)
  /\ UNCHANGED <<recipient, sentOn, date, texts, perDay, together, doubled, cutShort>>

-----------------------------------------------------------------------------
(* The task *)

\* Mutant: every campaign has the limit for itself.
SentTodayByOne(c) == Cardinality({m \in Recipients : recipient[c][m] = "SENT" /\ sentOn[c][m] = date})

\* Of all campaigns of the SACCO.
SentToday(c) ==
  Cardinality({p \in All \X Recipients :
                 recipient[p[1]][p[2]] = "SENT" /\ sentOn[p[1]][p[2]] = date})

Allowance(c) == IF SentToday(c) < DailyLimit THEN DailyLimit - SentToday(c) ELSE 0

Pending(c) == {m \in Recipients : recipient[c][m] = "PENDING"}

\* The first of them, as many as are allowed.
Allowed(c) == {m \in Pending(c) : Cardinality({n \in Pending(c) : n <= m}) <= Allowance(c)}

\* mark_daily_limit_failures, and the campaign's end when nothing is allowed.
StartTask(h, t) ==
  /\ t \in tasks /\ tasks' = tasks \ {t}
  /\ Begin(h, IF Allowance(t.of) = 0 THEN Free
              ELSE [op |-> "text", of |-> t.of, todo |-> Allowed(t.of), tries |-> t.tries, by |-> t.by])
  /\ recipient' = [recipient EXCEPT ![t.of] = [m \in Recipients |->
                     IF m \in Pending(t.of) \ Allowed(t.of) THEN "FAILED" ELSE @[m]]]
  /\ campaign' = [campaign EXCEPT ![t.of] = IF Allowance(t.of) = 0 THEN "FAILED" ELSE @]
  /\ together' = (together \/ \E c \in Drafts : AtWork(c))
  /\ doubled' = IF AtWork(t.of) THEN doubled \cup {t.of} ELSE doubled
  /\ UNCHANGED <<sentOn, date, texts, perDay, cutShort>>

Next1(todo) == CHOOSE m \in todo : \A n \in todo : m <= n

\* Africa's Talking takes the message.  Answers that are errors are recorded.
SendText(h) ==
  LET r == hand[h] IN
  /\ r.op = "text" /\ r.todo # {}
  /\ LET m == Next1(r.todo) IN
     /\ texts' = [texts EXCEPT ![r.of][m] = IF @ < 2 THEN @ + 1 ELSE @]
     /\ perDay' = IF perDay <= DailyLimit THEN perDay + 1 ELSE perDay
     /\ Turn(h, [r EXCEPT !.op = "record"])
  /\ UNCHANGED <<campaign, recipient, sentOn, tasks, date, together, doubled, cutShort>>

TextRefused(h) ==
  LET r == hand[h] IN
  /\ r.op = "text" /\ r.todo # {}
  /\ recipient' = [recipient EXCEPT ![r.of][Next1(r.todo)] = "FAILED"]
  /\ Turn(h, [r EXCEPT !.todo = @ \ {Next1(r.todo)}])
  /\ UNCHANGED <<campaign, sentOn, tasks, date, texts, perDay, together, doubled, cutShort>>

RecordText(h) ==
  LET r == hand[h]
      m == Next1(r.todo)
  IN
  /\ r.op = "record"
  /\ recipient' = [recipient EXCEPT ![r.of][m] = "SENT"]
  /\ sentOn' = [sentOn EXCEPT ![r.of][m] = date]
  /\ Turn(h, [r EXCEPT !.op = "text", !.todo = @ \ {m}])
  /\ UNCHANGED <<campaign, tasks, date, texts, perDay, together, doubled, cutShort>>

\* update_campaign_counts and the final status.
EndTask(h) ==
  LET r == hand[h] IN
  /\ r.op = "text" /\ r.todo = {}
  /\ campaign' = [campaign EXCEPT ![r.of] =
                    IF \E m \in Recipients : recipient[r.of][m] = "SENT" THEN "COMPLETED" ELSE "FAILED"]
  /\ Turn(h, Free)
  /\ UNCHANGED <<recipient, sentOn, tasks, date, texts, perDay, together, doubled, cutShort>>

\* Any other exception, of the database for one: the task is tried again.
TaskFails(h) ==
  LET r == hand[h] IN
  /\ r.op \in {"text", "record"}
  /\ tasks' = IF r.tries < MaxTries
              THEN tasks \cup {[of |-> r.of, tries |-> r.tries + 1, by |-> r.by]} ELSE tasks
  /\ cutShort' = (cutShort \/ r.op = "record")
  /\ Turn(h, Free)
  /\ UNCHANGED <<campaign, recipient, sentOn, date, texts, perDay, together, doubled>>

NewDay ==
  /\ date < LastDay /\ \A h \in Hands : hand[h] = Free
  /\ date' = date + 1 /\ perDay' = 0
  /\ UNCHANGED <<campaign, recipient, sentOn, tasks, hand, texts, together, doubled, cutShort>>

CampaignNext ==
  \/ \E c \in Drafts : \E audience \in SUBSET Recipients : CreateCampaign(c, audience)
  \/ NewDay
  \/ \E h \in Hands :
       \/ \E c \in Drafts : ReadDraft(h, c)
       \/ \E queued \in BOOLEAN : SendCampaign(h, queued)
       \/ \E t \in tasks : StartTask(h, t)
       \/ SendText(h) \/ TextRefused(h) \/ RecordText(h) \/ EndTask(h) \/ TaskFails(h)

-----------------------------------------------------------------------------
(* Properties *)

CampaignTypeOK ==
  /\ campaign \in [All -> CampaignStatuses]
  /\ recipient \in [All -> [Recipients -> RecipientStatuses]]
  /\ perDay \in Nat /\ date \in 0..LastDay

\* The daily limit holds over all campaigns and attempts unless two tasks worked
\* at once, and nobody gets a message of a campaign twice unless two tasks worked
\* on that campaign at once; a task that stops between a message and its record
\* breaks both (notifications/tasks.py send_bulk_sms_campaign_task).
CampaignsKeepLimit ==
  \/ cutShort
  \/ /\ together \/ perDay <= DailyLimit
     /\ \A c \in All \ doubled, m \in Recipients : texts[c][m] <= 1
=============================================================================

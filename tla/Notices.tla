------------------------------ MODULE Notices ------------------------------
(***************************************************************************)
(* One notice to one user: the row the app shows and the push message to   *)
(* the user's devices (notifications/utils.py, tasks.py, views.py).  A     *)
(* push task reads the devices once and works through them; devices are    *)
(* registered, again or by somebody else, meanwhile, and a failure at one  *)
(* device starts over with all.  The SMS, a task of its own, is left out.  *)
(***************************************************************************)
EXTENDS Integers, FiniteSets

CONSTANTS
  Devices,  \* DeviceToken.token
  Persons,  \* users
  To,       \* whom the notice is for
  Nobody,   \* the user of a token that is not registered
  Pushers,  \* Celery workers
  MaxTries  \* bound on attempts of a task: max_retries + 1

VARIABLES
  device,  \* user and is_active of every token
  notice,  \* the Notification row: "none", "unread" or "read"
  jobs,    \* queued tasks
  pusher,  \* what every worker is doing
  got,     \* history: messages every device got, 2 for more
  strayed, \* history: devices that got the message as somebody else's
  again,   \* history: the push task was tried again
  crossed, \* history: devices registered while a task held their row
  refused  \* history: devices FCM refused since their registration

noticeVars == <<device, notice, jobs, pusher, got, strayed, again, crossed, refused>>

Still == [op |-> "idle"]

NoticeInit ==
  /\ device = [d \in Devices |-> [user |-> Nobody, active |-> FALSE]]
  /\ notice = "none" /\ jobs = {} /\ pusher = [p \in Pushers |-> Still]
  /\ got = [d \in Devices |-> 0]
  /\ strayed = {} /\ again = FALSE /\ crossed = {} /\ refused = {}

Turn(p, r) == pusher' = [pusher EXCEPT ![p] = r]

\* Devices whose row a task has read and not yet finished with.
Held == {d \in Devices : \E p \in Pushers :
           \/ pusher[p].op = "push" /\ d \in pusher[p].todo
           \/ pusher[p].op = "refused" /\ (d = pusher[p].at \/ d \in pusher[p].todo)}

\* update_or_create by token: the device is the caller's from now on.
Register(d, u) ==
  /\ device' = [device EXCEPT ![d] = [user |-> u, active |-> TRUE]]
  /\ crossed' = IF d \in Held THEN crossed \cup {d} ELSE crossed
  /\ refused' = refused \ {d}
  /\ UNCHANGED <<notice, jobs, pusher, got, strayed, again>>

Notify(inApp) == [op |-> "notify", inApp |-> inApp]

\* create_notification for a loan or a payment: the row if it can be written,
\* and only then the task, if the broker takes it.
CreateNotification(dispatch) ==
  /\ notice = "none" /\ jobs = {} /\ got = [d \in Devices |-> 0]
  /\ \A p \in Pushers : pusher[p] = Still
  /\ notice' = "unread"
  /\ jobs' = IF dispatch THEN {Notify(FALSE)} ELSE {}
  /\ UNCHANGED <<device, pusher, got, strayed, again, crossed, refused>>

\* notify_user_task.delay from another task.
QueueNotify ==
  /\ notice = "none" /\ jobs = {} /\ got = [d \in Devices |-> 0]
  /\ \A p \in Pushers : pusher[p] = Still
  /\ jobs' = {Notify(TRUE)}
  /\ UNCHANGED <<device, notice, pusher, got, strayed, again, crossed, refused>>

\* notify_user_task: a row that cannot be written does not keep the push from
\* being queued; a broker that is down ends the task.
NotifyUser(j, written, queued) ==
  /\ j \in jobs /\ j.op = "notify"
  /\ written => j.inApp
  /\ notice' = IF written THEN "unread" ELSE notice
  /\ jobs' = IF queued THEN (jobs \ {j}) \cup {[op |-> "push", tries |-> 1]} ELSE jobs \ {j}
  /\ UNCHANGED <<device, pusher, got, strayed, again, crossed, refused>>

MarkRead ==
  /\ notice = "unread" /\ notice' = "read"
  /\ UNCHANGED <<device, jobs, pusher, got, strayed, again, crossed, refused>>

Count(d) == got' = [got EXCEPT ![d] = IF @ < 2 THEN @ + 1 ELSE @]

\* self.retry, until max_retries.
Retried(j) == IF j.tries < MaxTries THEN {[j EXCEPT !.tries = @ + 1]} ELSE {}

-----------------------------------------------------------------------------
(* The push task *)

\* Mutant: whoever's they are.
AddressedToAny == {d \in Devices : device[d].active}

Addressed == {d \in Devices : device[d].user = To /\ device[d].active}

StartPush(p, j) ==
  /\ pusher[p] = Still /\ j \in jobs /\ j.op = "push"
  /\ jobs' = jobs \ {j}
  /\ Turn(p, [op |-> "push", job |-> j, todo |-> Addressed])
  /\ UNCHANGED <<device, notice, got, strayed, again, crossed, refused>>

\* FCM has the message when it answers, and may have it when no answer comes.
Delivered(p, d) ==
  /\ pusher[p].op = "push" /\ d \in pusher[p].todo
  /\ Count(d)
  /\ strayed' = IF device[d].user = To THEN strayed ELSE strayed \cup {d}

PushSent(p, d) ==
  /\ Delivered(p, d) /\ Turn(p, [pusher[p] EXCEPT !.todo = @ \ {d}])
  /\ UNCHANGED <<device, notice, jobs, again, crossed, refused>>

\* InvalidRegistration or NotRegistered.
PushRefused(p, d) ==
  /\ pusher[p].op = "push" /\ d \in pusher[p].todo
  /\ Turn(p, [op |-> "refused", job |-> pusher[p].job, at |-> d, todo |-> pusher[p].todo \ {d}])
  /\ refused' = refused \cup {d}
  /\ UNCHANGED <<device, notice, jobs, got, strayed, again, crossed>>

\* Whoever has registered the token meanwhile.
Deactivate(p) ==
  LET r == pusher[p] IN
  /\ r.op = "refused" /\ device' = [device EXCEPT ![r.at].active = FALSE]
  /\ Turn(p, [op |-> "push", job |-> r.job, todo |-> r.todo])
  /\ UNCHANGED <<notice, jobs, got, strayed, again, crossed, refused>>

\* Any other FCMError: the task starts over with every active device.
PushFails(p, d) ==
  /\ \/ Delivered(p, d)
     \/ pusher[p].op = "push" /\ d \in pusher[p].todo /\ UNCHANGED <<got, strayed>>
  /\ jobs' = jobs \cup Retried(pusher[p].job)
  /\ again' = (again \/ Retried(pusher[p].job) # {})
  /\ Turn(p, Still)
  /\ UNCHANGED <<device, notice, crossed, refused>>

\* Done, or ended by an answer that is no JSON or by the database.
PushEnds(p) ==
  /\ pusher[p].op \in {"push", "refused"} /\ Turn(p, Still)
  /\ UNCHANGED <<device, notice, jobs, got, strayed, again, crossed, refused>>

NoticeNext ==
  \/ \E d \in Devices, u \in Persons : Register(d, u)
  \/ \E dispatch \in BOOLEAN : CreateNotification(dispatch)
  \/ QueueNotify \/ MarkRead
  \/ \E j \in jobs, written, queued \in BOOLEAN : NotifyUser(j, written, queued)
  \/ \E p \in Pushers :
       \/ \E j \in jobs : StartPush(p, j)
       \/ \E d \in Devices : PushSent(p, d) \/ PushRefused(p, d) \/ PushFails(p, d)
       \/ Deactivate(p) \/ PushEnds(p)

-----------------------------------------------------------------------------
(* Properties *)

NoticeTypeOK ==
  /\ device \in [Devices -> [user : Persons \cup {Nobody}, active : BOOLEAN]]
  /\ notice \in {"none", "unread", "read"} /\ got \in [Devices -> 0..2]
  /\ \A j \in jobs : j.op = "push" => j.tries \in 1..MaxTries

\* A device gets a notice once unless the task was tried again;
\* another user's device gets it, or a device is switched off that FCM did not
\* refuse, only if the device was registered while the task held its row
\* (notifications/tasks.py send_push_notification_task).
NoticesArrive ==
  /\ \A d \in Devices : got[d] > 1 => again
  /\ strayed \subseteq crossed
  /\ \A d \in Devices : device[d].user # Nobody /\ ~device[d].active => d \in refused \cup crossed
=============================================================================

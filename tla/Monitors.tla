------------------------------ MODULE Monitors ------------------------------
(***************************************************************************)
(* The scheduled watch over SACCOs and loans (services/tasks.py): liquidity *)
(* alerts when approved loans use up the reserves (services/engines/       *)
(* liquidity_monitor.py), and staged flags for loans in arrears (services/ *)
(* engines/npl_monitor.py).  Both tasks start over after an exception.     *)
(***************************************************************************)
EXTENDS Integers, FiniteSets

CONSTANTS
  Watched,     \* SACCOs
  Amounts,     \* reserves and pending disbursements a SACCO may have
  Threshold,   \* SaccoSettings.liquidity_threshold_percentage
  Window,      \* 24 hours
  LastHour,    \* bound on time
  Borrowers,   \* active loans
  Sweepers,    \* Celery workers
  MaxRetries   \* max_retries of both tasks

VARIABLES
  money,    \* reserves and pending disbursements of every SACCO
  alerts,   \* hours at which the unresolved alerts of every SACCO were created
  arrears,  \* every loan's earliest PENDING instalment: stage of its delay, or Clear
  flags,    \* NPLFlag of every loan and stage
  sweep,    \* what every worker is doing
  pending,  \* retries queued: task and attempt
  hour,
  told,     \* history: notices about every loan and stage
  parallel, \* history: two liquidity checks ran at once
  twice     \* history: an alert was created within the window of an open one

monitorVars == <<money, alerts, arrears, flags, sweep, pending, hour, told, parallel, twice>>

\* 30, 60 and 90 days.
Stages == 1..3

Clear == -1

FlagStates == {"none", "open", "resolved"}

Resting == [op |-> "rest"]

MonitorInit ==
  /\ money = [s \in Watched |-> [reserves |-> 0, pending |-> 0]]
  /\ alerts = [s \in Watched |-> {}] /\ arrears = [l \in Borrowers |-> 0]
  /\ flags = [l \in Borrowers |-> [b \in Stages |-> "none"]]
  /\ told = [l \in Borrowers |-> [b \in Stages |-> 0]]
  /\ sweep = [w \in Sweepers |-> Resting] /\ pending = {} /\ hour = 0
  /\ parallel = FALSE /\ twice = FALSE

Turn(w, r) == sweep' = [sweep EXCEPT ![w] = r]

-----------------------------------------------------------------------------
(* What is watched *)

MoneyMoves(s, reserves, out) ==
  /\ money' = [money EXCEPT ![s] = [reserves |-> reserves, pending |-> out]]
  /\ UNCHANGED <<alerts, arrears, flags, sweep, pending, hour, told, parallel, twice>>

\* In hundredths of a percent.
Utilisation(reserves, out) ==
  IF reserves <= 0 THEN IF out > 0 THEN 10000 ELSE 0
  ELSE (2 * out * 10000 + reserves) \div (2 * reserves)

AtRisk(s) == Utilisation(money[s].reserves, money[s].pending) >= Threshold * 100

GrowsLater(l) ==
  /\ arrears[l] # Clear /\ arrears[l] < 3 /\ arrears' = [arrears EXCEPT ![l] = @ + 1]
  /\ UNCHANGED <<money, alerts, flags, sweep, pending, hour, told, parallel, twice>>

\* The instalment is PAID, or PARTIAL, which does not count as unpaid: the next
\* one is the earliest, if there is one.
RepaymentComes(l, next) ==
  /\ arrears[l] # Clear
  /\ next = Clear \/ next < arrears[l]
  /\ arrears' = [arrears EXCEPT ![l] = next]
  /\ UNCHANGED <<money, alerts, flags, sweep, pending, hour, told, parallel, twice>>

HourPasses ==
  /\ hour < LastHour /\ hour' = hour + 1 /\ \A w \in Sweepers : sweep[w] = Resting
  /\ UNCHANGED <<money, alerts, arrears, flags, sweep, pending, told, parallel, twice>>

-----------------------------------------------------------------------------
(* Liquidity *)

Checking(w) == sweep[w].op \in {"check", "alert"}

StartCheck(w, n) ==
  /\ sweep[w] = Resting /\ Turn(w, [op |-> "check", todo |-> Watched, n |-> n])
  /\ parallel' = (parallel \/ \E v \in Sweepers : Checking(v))
  /\ \/ n = 0 /\ UNCHANGED pending
     \/ <<"check", n>> \in pending /\ pending' = pending \ {<<"check", n>>}
  /\ UNCHANGED <<money, alerts, arrears, flags, hour, told, twice>>

\* Mutant: only the alerts of this hour.
RecentThisHour(s) == hour \in alerts[s]

Recent(s) == \E t \in alerts[s] : t > hour - Window

\* A SACCO without risk has its alerts resolved.
CheckSacco(w, s) ==
  LET r == sweep[w] IN
  /\ r.op = "check" /\ s \in r.todo
  /\ Turn(w, [op |-> IF AtRisk(s) /\ ~Recent(s) THEN "alert" ELSE "check",
              of |-> s, todo |-> r.todo \ {s}, n |-> r.n])
  /\ alerts' = IF AtRisk(s) THEN alerts ELSE [alerts EXCEPT ![s] = {}]
  /\ UNCHANGED <<money, arrears, flags, pending, hour, told, parallel, twice>>

Again(task, n) == IF n < MaxRetries THEN pending \cup {<<task, n + 1>>} ELSE pending

\* The notice to an admin fails: the name _notify_sacco_admins is defined again
\* further down, for a text.  The check starts over, and finds this alert.
CreateAlert(w, administered) ==
  LET r == sweep[w] IN
  /\ r.op = "alert"
  /\ alerts' = [alerts EXCEPT ![r.of] = @ \cup {hour}]
  /\ twice' = (twice \/ \E t \in alerts[r.of] : hour - t < Window)
  /\ \/ /\ administered /\ Turn(w, Resting) /\ pending' = Again("check", r.n)
     \/ /\ ~administered /\ Turn(w, [r EXCEPT !.op = "check"]) /\ UNCHANGED pending
  /\ UNCHANGED <<money, arrears, flags, hour, told, parallel>>

-----------------------------------------------------------------------------
(* Arrears *)

StartFlagging(w, n) ==
  /\ sweep[w] = Resting /\ Turn(w, [op |-> "flag", todo |-> Borrowers, n |-> n])
  /\ \/ n = 0 /\ UNCHANGED pending
     \/ <<"flag", n>> \in pending /\ pending' = pending \ {<<"flag", n>>}
  /\ UNCHANGED <<money, alerts, arrears, flags, hour, told, parallel, twice>>

\* resolve_cleared_npl_flags, and the highest stage is flagged once, for good.
FlagLoan(w, l) ==
  LET r == sweep[w]
      new == arrears[l] \in Stages /\ flags[l][arrears[l]] = "none"
  IN
  /\ r.op = "flag" /\ l \in r.todo
  /\ flags' = [flags EXCEPT ![l] =
       IF arrears[l] = Clear THEN [b \in Stages |-> IF @[b] = "open" THEN "resolved" ELSE @[b]]
       ELSE IF new THEN [@ EXCEPT ![arrears[l]] = "open"] ELSE @]
  /\ Turn(w, [op |-> IF new THEN "notice" ELSE "flag", todo |-> r.todo \ {l}, n |-> r.n,
              of |-> <<l, arrears[l]>>])
  /\ UNCHANGED <<money, alerts, arrears, pending, hour, told, parallel, twice>>

\* To the admins and the member.
SendNotice(w) ==
  LET r == sweep[w] IN
  /\ r.op = "notice" /\ Turn(w, [r EXCEPT !.op = "flag"])
  /\ told' = [told EXCEPT ![r.of[1]][r.of[2]] = @ + 1]
  /\ UNCHANGED <<money, alerts, arrears, flags, pending, hour, parallel, twice>>

FlaggingFails(w) ==
  /\ sweep[w].op \in {"flag", "notice"} /\ Turn(w, Resting)
  /\ pending' = Again("flag", sweep[w].n)
  /\ UNCHANGED <<money, alerts, arrears, flags, hour, told, parallel, twice>>

EndSweep(w) ==
  /\ sweep[w].op \in {"check", "flag"} /\ sweep[w].todo = {} /\ Turn(w, Resting)
  /\ UNCHANGED <<money, alerts, arrears, flags, pending, hour, told, parallel, twice>>

LiquidityNext ==
  \/ HourPasses \/ \E s \in Watched, reserves, out \in Amounts : MoneyMoves(s, reserves, out)
  \/ \E w \in Sweepers :
       \/ \E n \in 0..MaxRetries : StartCheck(w, n)
       \/ \E s \in Watched : CheckSacco(w, s)
       \/ \E administered \in BOOLEAN : CreateAlert(w, administered)
       \/ EndSweep(w)

ArrearsNext ==
  \/ \E l \in Borrowers : GrowsLater(l) \/ \E next \in {0, 1, Clear} : RepaymentComes(l, next)
  \/ \E w \in Sweepers :
       \/ \E n \in 0..MaxRetries : StartFlagging(w, n)
       \/ \E l \in Borrowers : FlagLoan(w, l)
       \/ SendNotice(w) \/ FlaggingFails(w) \/ EndSweep(w)

-----------------------------------------------------------------------------
(* Properties *)

MonitorTypeOK ==
  /\ \A s \in Watched : alerts[s] \subseteq 0..LastHour
  /\ \A l \in Borrowers : /\ flags[l] \in [Stages -> FlagStates]
                          /\ arrears[l] \in (0..3) \cup {Clear}

\* Within the window a SACCO gets a second alert only after the first was
\* resolved, unless two checks run at once, and every stage of a loan's delay
\* is announced once, however often the tasks start over (services/tasks.py
\* check_all_sacco_liquidity, flag_npl_arrears).
AlertedOnce ==
  /\ parallel \/ ~twice
  /\ \A l \in Borrowers, b \in Stages : told[l][b] <= 1
=============================================================================

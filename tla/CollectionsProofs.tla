-------------------------- MODULE CollectionsProofs --------------------------
(***************************************************************************)
(* Collections is proved to do what PaymentBook promises, and to keep its  *)
(* other safety properties, for any payments, workers, instalments and     *)
(* faults.  The argument: a result is reported for a payment as M-Pesa or  *)
(* the PSP settled it (ResultsInv), only payments with a row are worked on *)
(* (RowsInv), and one worker at a time writes for the saving (LockInv).    *)
(***************************************************************************)
EXTENDS Collections, FiniteSetTheorems, SequenceTheorems, TLAPS

\* Nobody was asked for a new request's payment.  A request that is not over has no
\* row yet; what is queued for an STK payment, and what a worker has in hand, has one.
RowsInv ==
  /\ \A p \in Payments : request[p] = "new" => gateway[p] = "idle"
  /\ \A p \in Payments : request[p] # "over" => txStatus[p] = "none"
  /\ \A t \in queue : t.p \in Stk => txStatus[t.p] # "none"
  /\ \A w \in Workers : ~Is(w, "idle") => txStatus[Job(w).p] # "none"
  /\ \A w \in Workers : Is(w, "reading") => Job(w).p \in Stk

\* A result of a payment is the one way it ended, or a report of progress by a PSP.
TrueResult(n) ==
  \/ n.result = gateway[n.p] /\ n.result \in Ends(n.p)
  \/ n.p \in Psp /\ n.result = "pending"

\* No result is invented on the way from the gateway to the books.
ResultsInv ==
  /\ \A n \in notices \cup open \cup queue : TrueResult(n)
  /\ \A w \in Workers : ~Is(w, "idle") => TrueResult(Job(w))
  /\ \A w \in Workers : Is(w, "writing") => Job(w).result = "success"
  /\ \A p \in Psp : gateway[p] # "short"
  /\ \A p \in Payments : txStatus[p] = "COMPLETED" => gateway[p] = "success"

\* The worker that writes a deposit is alone in it, and has the balance that its
\* entry will bring about, if only such deposits were booked.
LockInv ==
  /\ \A v, w \in Workers :
       /\ Is(v, "writing") /\ Job(v).p \in StkDeposits
       /\ Is(w, "writing") /\ Job(w).p \in StkDeposits
       => v = w
  /\ \A w \in Workers :
       /\ Is(w, "writing") /\ Job(w).p \in StkDeposits
       /\ \A i \in DOMAIN ledger : ledger[i].p \in StkDeposits
       => work[w].balance = Len(ledger) + 1
  /\ \A i \in DOMAIN ledger :
       (\A j \in 1..i : ledger[j].p \in StkDeposits) => ledger[i].after = i

-----------------------------------------------------------------------------
(* Types                                                                   *)

\* The balance of a ledger is a number.
LEMMA BalanceType ==
  ASSUME NEW R, NEW s \in Seq(R) PROVE Balance(s) \in Int
<1> DEFINE D == {i \in DOMAIN s : s[i].p \in Withdrawals}
<1>1. DOMAIN s = 1..Len(s) /\ Len(s) \in Nat
  OBVIOUS
<1>2. IsFiniteSet(1..Len(s))
  BY <1>1, FS_Interval
<1>3. IsFiniteSet(D)
  BY <1>1, <1>2, FS_Subset
<1>4. Cardinality(D) \in Nat
  BY <1>3, FS_CardinalityType
<1> QED BY <1>1, <1>4 DEF Balance

\* What Becomes makes of the workers, and what the others keep.
LEMMA WorkStep ==
  ASSUME work \in [Workers -> Activities], NEW w \in Workers, NEW a \in Activities,
         Becomes(w, a)
  PROVE  /\ work' \in [Workers -> Activities]
         /\ work'[w] = a
         /\ \A v \in Workers : v # w => work'[v] = work[v]
BY DEF Becomes

\* What a worker that is not idle has in hand is a result.
LEMMA JobType ==
  ASSUME work \in [Workers -> Activities], NEW w \in Workers
  PROVE  /\ work[w].pc \in {"idle", "reading", "writing"}
         /\ ~Is(w, "idle") => Job(w) \in Results /\ Job(w).p \in Payments
         /\ Is(w, "writing") => work[w].balance \in Int
         /\ Is(w, "idle") <=> work[w] = Idle
BY DEF Activities, Idle, Is, Job, Results

\* The three things a worker can come to do.
LEMMA ActivityType ==
  ASSUME NEW t \in Results
  PROVE  /\ Idle \in Activities
         /\ \A s \in Statuses : [pc |-> "reading", task |-> t, seen |-> s] \in Activities
         /\ \A b \in Int : [pc |-> "writing", task |-> t, balance |-> b] \in Activities
BY DEF Activities

\* TypeOK holds at first.
LEMMA InitTypes == ASSUME Init PROVE TypeOK
BY BoundsAssumption DEF Init, TypeOK, Activities, Statuses

\* The steps of requests, of the gateways and of the webhooks keep it.
LEMMA OutsideTypes ==
  ASSUME TypeOK,
         \/ \E p \in Payments : Request(p)
         \/ Gateway
         \/ \E n \in notices : Webhook(n)
         \/ \E p \in Psp : Reconciles(p)
         \/ UNCHANGED vars
  PROVE  TypeOK'
<1> USE DEF TypeOK
<1> USE DEF txVars, bookVars, wireVars, payVars
<1>f. Fault => faults' \in 0..MaxFaults
  BY BoundsAssumption DEF Fault
<1>1. ASSUME NEW p \in Payments, Request(p) PROVE TypeOK'
  <2>1. CASE Asks(p)
    BY <2>1 DEF Asks
  <2>2. CASE Records(p)
    BY <2>2 DEF Records, Statuses
  <2>3. CASE RequestDies(p)
    BY <2>3, <1>f DEF RequestDies
  <2>4. CASE Refuses(p)
    BY <2>4 DEF Refuses, Statuses
  <2> QED BY <1>1, <2>1, <2>2, <2>3, <2>4 DEF Request
<1>2. CASE Gateway
  <2>1. ASSUME NEW p \in Payments, NEW end \in {"success", "short", "failure"}, Settles(p, end)
        PROVE  TypeOK'
    BY <2>1 DEF Settles, Reports, Results
  <2>2. ASSUME NEW p \in Psp, ReportsPending(p) PROVE TypeOK'
    BY <2>2 DEF ReportsPending, Reports, Results, Payments
  <2>3. ASSUME NEW p \in Payments, Redelivers(p) PROVE TypeOK'
    BY <2>3, <1>f DEF Redelivers, Reports, Results, Ends
  <2>4. ASSUME NEW p \in Stk, MarkerExpires(p) PROVE TypeOK'
    BY <2>4 DEF MarkerExpires
  <2> QED BY <1>2, <2>1, <2>2, <2>3, <2>4 DEF Gateway
<1>3. ASSUME NEW n \in notices, Webhook(n) PROVE TypeOK'
  <2>1. CASE StkDropsReplay(n)
    BY <2>1 DEF StkDropsReplay, Acknowledges
  <2>2. CASE StkEnqueues(n)
    BY <2>2 DEF StkEnqueues, StkCallback, Acknowledges
  <2>3. CASE StkFails(n)
    BY <2>3, <1>f DEF StkFails, StkCallback
  <2>4. CASE PspEnqueues(n)
    BY <2>4 DEF PspEnqueues, PspReceives, PspKeeps, Acknowledges
  <2>5. CASE PspBrokerDown(n)
    BY <2>5, <1>f DEF PspBrokerDown, PspReceives, PspKeeps, Acknowledges
  <2> QED BY <1>3, <2>1, <2>2, <2>3, <2>4, <2>5 DEF Webhook
<1>4. ASSUME NEW p \in Psp, Reconciles(p) PROVE TypeOK'
  BY <1>4 DEF Reconciles, Results, Status, Ends, Payments
<1>5. ASSUME UNCHANGED vars PROVE TypeOK'
  BY <1>5 DEF vars
<1> QED BY <1>1, <1>2, <1>3, <1>4, <1>5

\* The workers keep it.
LEMMA WorkerTypes ==
  ASSUME TypeOK, NEW w \in Workers,
         (\E t \in queue : Starts(w, t)) \/ Continues(w) \/ WorkerDies(w)
  PROVE  TypeOK'
<1> USE DEF TypeOK
<1> USE DEF txVars, bookVars, wireVars, payVars
<1>i. Idle \in Activities
  BY DEF Activities
<1>b. Balance(ledger) \in Int
  BY BalanceType
<1>1. ASSUME NEW t \in queue, Starts(w, t) PROVE TypeOK'
  <2>t. t \in Results /\ t.p \in Payments
    BY DEF Results
  <2>1. CASE StkReads(w, t)
    <3>1. txStatus[t.p] \in Statuses
      BY <2>t
    <3>2. [pc |-> "reading", task |-> t, seen |-> txStatus[t.p]] \in Activities
      BY <2>t, <3>1, ActivityType
    <3>3. work' \in [Workers -> Activities]
      BY <2>1, <3>2, WorkStep DEF StkReads
    <3> QED BY <2>1, <3>3 DEF StkReads, Takes
  <2>2. CASE PspUnknown(w, t)
    BY <2>2 DEF PspUnknown, Takes
  <2>3. CASE PspSkips(w, t)
    BY <2>3 DEF PspSkips, PspMarks, Takes
  <2>4. CASE PspUpdates(w, t)
    BY <2>4 DEF PspUpdates, PspMarks, Takes, Settle, Statuses
  <2>5. CASE PspApplies(w, t)
    <3>1. [pc |-> "writing", task |-> t,
           balance |-> IF t.p \in Withdrawals THEN Balance(ledger) - 1
                       ELSE Balance(ledger) + 1] \in Activities
      BY <2>t, <1>b, ActivityType
    <3>2. work' \in [Workers -> Activities]
      BY <2>5, <3>1, WorkStep DEF PspApplies
    <3> QED BY <2>5, <3>2 DEF PspApplies, Takes
  <2> QED BY <1>1, <2>1, <2>2, <2>3, <2>4, <2>5 DEF Starts
<1>2. CASE Continues(w)
  <2>1. CASE StkSkips(w)
    BY <2>1, <1>i, WorkStep DEF StkSkips
  <2>2. CASE \E status \in Settled : StkRejects(w, status) /\ UNCHANGED billed
    <3>1. work' \in [Workers -> Activities]
      BY <2>2, <1>i, WorkStep DEF StkRejects
    <3>2. /\ received' \in [Stk -> BOOLEAN]
          /\ txStatus' \in [Payments -> Statuses]
      BY <2>2, ZenonT(40) DEF StkRejects, Settle, Settled, Statuses
    <3> QED BY <2>2, <3>1, <3>2 DEF StkRejects
  <2>3. CASE StkApplies(w)
    <3>1. Job(w) \in Results
      BY <2>3, JobType DEF StkApplies, Locks, Is
    <3>2. owed - 1 \in Int
      OBVIOUS
    <3>3. [pc |-> "writing", task |-> Job(w),
           balance |-> IF Job(w).p \in StkDeposits THEN Balance(ledger) + 1
                       ELSE owed - 1] \in Activities
      BY <3>1, <3>2, <1>b, ActivityType
    <3>4. work' \in [Workers -> Activities]
      BY <2>3, <3>3, WorkStep DEF StkApplies
    <3> QED BY <2>3, <3>4 DEF StkApplies
  <2>4. CASE StkRetries(w)
    <3>1. work' \in [Workers -> Activities]
      BY <2>4, <1>i, WorkStep DEF StkRetries
    <3>2. queue' \subseteq Results
      BY <2>4, JobType DEF StkRetries, Is
    <3> QED BY <2>4, <3>1, <3>2 DEF StkRetries
  <2>5. CASE Completes(w) /\ (StkCommits(w) \/ PspCommits(w))
    <3>1. Job(w).p \in Payments /\ work[w].balance \in Int
      BY <2>5, JobType DEF Completes, Is
    <3>2. work' \in [Workers -> Activities]
      BY <2>5, <1>i, WorkStep DEF Completes
    <3>3. Enters(w) => ledger' \in Seq([p : Payments, after : Int])
      BY <3>1 DEF Enters
    <3>4. /\ txStatus' \in [Payments -> Statuses]
          /\ billed' \subseteq Payments
      BY <2>5, <3>1 DEF Completes, Settle, Statuses
    <3>5. Reduced(owed) \in 0..Owed
      BY BoundsAssumption DEF Reduced
    <3>6. /\ received' \in [Stk -> BOOLEAN]
          /\ savings' \in Nat /\ owed' \in 0..Owed
          /\ ledger' \in Seq([p : Payments, after : Int])
          /\ open' \subseteq Results
      <4>1. CASE PspCommits(w)
        BY <4>1, <3>3 DEF PspCommits
      <4>2. ASSUME StkCommits(w) PROVE ledger' \in Seq([p : Payments, after : Int])
        BY <4>2, <3>3 DEF StkCommits
      <4>3. CASE StkCommits(w)
        BY <4>2, <4>3, <3>5 DEF StkCommits
      <4> QED BY <2>5, <4>1, <4>3
    <3> QED BY <2>5, <3>2, <3>4, <3>6 DEF Completes
  <2> QED
    BY <1>2, <2>1, <2>2, <2>3, <2>4, <2>5
    DEF Continues, StkFailed, StkMismatch, StkCommits, PspCommits, Settled
<1>3. CASE WorkerDies(w)
  <2>1. work' \in [Workers -> Activities]
    BY <1>3, <1>i, WorkStep DEF WorkerDies
  <2> QED BY <1>3, <2>1, BoundsAssumption DEF WorkerDies, Fault
<1> QED BY <1>1, <1>2, <1>3

-----------------------------------------------------------------------------
(* Rows                                                                    *)

\* Nothing is asked, queued or worked on at first.
LEMMA InitRows == ASSUME Init PROVE RowsInv
BY DEF Init, RowsInv, Idle, Is

\* Requests, gateways and webhooks give rows to payments, and queue what has one.
LEMMA OutsideRows ==
  ASSUME TypeOK, RowsInv,
         \/ \E p \in Payments : Request(p)
         \/ Gateway
         \/ \E n \in notices : Webhook(n)
         \/ \E p \in Psp : Reconciles(p)
         \/ UNCHANGED vars
  PROVE  RowsInv'
<1> USE DEF RowsInv, txVars, bookVars, wireVars, payVars, Is, Job
<1>t. /\ request \in [Payments -> {"new", "asked", "over"}]
      /\ gateway \in [Payments -> {"idle", "asked", "success", "short", "failure"}]
      /\ txStatus \in [Payments -> Statuses]
      /\ queue \subseteq Results
      /\ work \in [Workers -> Activities]
      /\ \A t \in Results : t.p \in Payments
      /\ \A w \in Workers : ~Is(w, "idle") => Job(w).p \in Payments
  BY JobType DEF TypeOK, Results
<1>1. ASSUME NEW p \in Payments, Request(p) PROVE RowsInv'
  <2>1. CASE Asks(p)
    BY <2>1, <1>t DEF Asks, MayAsk
  <2>2. CASE Records(p)
    BY <2>2, <1>t DEF Records
  <2>3. CASE RequestDies(p)
    BY <2>3, <1>t DEF RequestDies
  <2>4. CASE Refuses(p)
    BY <2>4, <1>t DEF Refuses, MayAsk
  <2> QED BY <1>1, <2>1, <2>2, <2>3, <2>4 DEF Request
<1>2. CASE Gateway
  BY <1>2, <1>t DEF Gateway, Settles, ReportsPending, Redelivers, MarkerExpires
<1>3. ASSUME NEW n \in notices, Webhook(n) PROVE RowsInv'
  <2>1. CASE StkDropsReplay(n) \/ StkFails(n) \/ PspBrokerDown(n)
    BY <2>1, <1>t DEF StkDropsReplay, StkFails, PspBrokerDown, PspReceives
  <2>2. CASE StkEnqueues(n)
    BY <2>2, <1>t DEF StkEnqueues
  <2>3. CASE PspEnqueues(n)
    BY <2>3, <1>t, KindsAssumption DEF PspEnqueues, PspReceives
  <2> QED BY <1>3, <2>1, <2>2, <2>3 DEF Webhook
<1>4. ASSUME NEW p \in Psp, Reconciles(p) PROVE RowsInv'
  BY <1>4, <1>t, KindsAssumption DEF Reconciles
<1>5. ASSUME UNCHANGED vars PROVE RowsInv'
  BY <1>5, <1>t DEF vars
<1> QED BY <1>1, <1>2, <1>3, <1>4, <1>5

\* A worker takes up what has a row, and rows are not removed.
LEMMA WorkerRows ==
  ASSUME TypeOK, RowsInv, NEW w \in Workers,
         (\E t \in queue : Starts(w, t)) \/ Continues(w) \/ WorkerDies(w)
  PROVE  RowsInv'
<1> USE DEF RowsInv, txVars, bookVars, wireVars, payVars, Is, Job
<1>t. /\ request \in [Payments -> {"new", "asked", "over"}]
      /\ gateway \in [Payments -> {"idle", "asked", "success", "short", "failure"}]
      /\ txStatus \in [Payments -> Statuses]
      /\ queue \subseteq Results
      /\ work \in [Workers -> Activities]
      /\ \A t \in Results : t.p \in Payments
      /\ \A v \in Workers : ~Is(v, "idle") => Job(v).p \in Payments
  BY JobType DEF TypeOK, Results
<1>1. ASSUME NEW t \in queue, Starts(w, t) PROVE RowsInv'
  <2>1. CASE StkReads(w, t)
    BY <2>1, <1>t DEF StkReads, Takes, Becomes
  <2>2. CASE PspUnknown(w, t)
    BY <2>2, <1>t DEF PspUnknown, Takes
  <2>3. CASE PspSkips(w, t)
    BY <2>3, <1>t DEF PspSkips, PspMarks, Takes
  <2>4. CASE PspUpdates(w, t)
    BY <2>4, <1>t DEF PspUpdates, PspMarks, Takes, Settle
  <2>5. CASE PspApplies(w, t)
    BY <2>5, <1>t DEF PspApplies, Takes, Becomes
  <2> QED BY <1>1, <2>1, <2>2, <2>3, <2>4, <2>5 DEF Starts
<1>2. CASE Continues(w)
  <2>1. CASE StkSkips(w)
    BY <2>1, <1>t DEF StkSkips, Becomes, Idle
  <2>2. CASE \E status \in Settled : StkRejects(w, status)
    BY <2>2, <1>t DEF StkRejects, Becomes, Idle, Settle, Settled, Locks
  <2>3. CASE StkApplies(w)
    BY <2>3, <1>t DEF StkApplies, Becomes, Locks
  <2>4. CASE StkRetries(w)
    BY <2>4, <1>t DEF StkRetries, Becomes, Idle
  <2>5. CASE Completes(w)
    BY <2>5, <1>t DEF Completes, Becomes, Idle, Settle
  <2> QED
    BY <1>2, <2>1, <2>2, <2>3, <2>4, <2>5
    DEF Continues, StkFailed, StkMismatch, StkCommits, PspCommits, Settled
<1>3. CASE WorkerDies(w)
  BY <1>3, <1>t DEF WorkerDies, Becomes, Idle
<1> QED BY <1>1, <1>2, <1>3

-----------------------------------------------------------------------------
(* Results                                                                 *)

\* No result has been reported at first.
LEMMA InitResults == ASSUME Init PROVE ResultsInv
BY DEF Init, ResultsInv, Idle, Is, Ends, Payments

\* The gateway tells the truth, and the webhooks and the reconciliation pass it on.
LEMMA OutsideResults ==
  ASSUME TypeOK, RowsInv, ResultsInv,
         \/ \E p \in Payments : Request(p)
         \/ Gateway
         \/ \E n \in notices : Webhook(n)
         \/ \E p \in Psp : Reconciles(p)
         \/ UNCHANGED vars
  PROVE  ResultsInv'
<1> USE DEF ResultsInv, TrueResult, txVars, bookVars, wireVars, payVars, Is, Job
<1>t. /\ request \in [Payments -> {"new", "asked", "over"}]
      /\ gateway \in [Payments -> {"idle", "asked", "success", "short", "failure"}]
      /\ txStatus \in [Payments -> Statuses]
      /\ notices \subseteq Results /\ open \subseteq Results /\ queue \subseteq Results
      /\ \A t \in Results : t.p \in Payments
      /\ \A w \in Workers : ~Is(w, "idle") => Job(w) \in Results
  BY JobType DEF TypeOK, Results
<1>e. \A p \in Payments : "asked" \notin Ends(p) /\ "idle" \notin Ends(p)
  BY DEF Ends
<1>1. ASSUME NEW p \in Payments, Request(p) PROVE ResultsInv'
  <2>1. CASE Asks(p)
    <3>1. gateway[p] = "idle"
      BY <2>1 DEF Asks, MayAsk, RowsInv
    <3>2. \A n \in Results : TrueResult(n) => TrueResult(n)'
      BY <2>1, <3>1, <1>t, <1>e DEF Asks, Ends
    <3>3. UNCHANGED <<notices, open, queue, work, txStatus>>
      BY <2>1 DEF Asks
    <3>4. \A q \in Payments : gateway'[q] # gateway[q] => q = p /\ gateway'[q] = "asked"
      BY <2>1, <1>t DEF Asks
    <3>5. \A q \in Psp : gateway'[q] # "short"
      BY <3>4, <1>t DEF Payments
    <3>6. \A q \in Payments : txStatus'[q] = "COMPLETED" => gateway'[q] = "success"
      BY <3>1, <3>3, <3>4
    <3> QED BY <3>2, <3>3, <3>5, <3>6, <1>t
  <2>2. CASE Records(p)
    BY <2>2, <1>t DEF Records
  <2>3. CASE RequestDies(p)
    BY <2>3, <1>t DEF RequestDies
  <2>4. CASE Refuses(p)
    BY <2>4, <1>t DEF Refuses
  <2> QED BY <1>1, <2>1, <2>2, <2>3, <2>4 DEF Request
<1>2. CASE Gateway
  <2>1. ASSUME NEW p \in Payments, NEW end \in {"success", "short", "failure"}, Settles(p, end)
        PROVE  ResultsInv'
    BY <2>1, <1>t, <1>e, KindsAssumption DEF Settles, Reports, Ends
  <2>2. ASSUME NEW p \in Psp, ReportsPending(p) PROVE ResultsInv'
    BY <2>2, <1>t DEF ReportsPending, Reports
  <2>3. ASSUME NEW p \in Payments, Redelivers(p) PROVE ResultsInv'
    BY <2>3, <1>t DEF Redelivers, Reports
  <2>4. ASSUME NEW p \in Stk, MarkerExpires(p) PROVE ResultsInv'
    BY <2>4, <1>t DEF MarkerExpires
  <2> QED BY <1>2, <2>1, <2>2, <2>3, <2>4 DEF Gateway
<1>3. ASSUME NEW n \in notices, Webhook(n) PROVE ResultsInv'
  BY <1>3, <1>t DEF Webhook, StkDropsReplay, StkFails, PspBrokerDown, PspReceives, PspKeeps,
                    StkEnqueues, PspEnqueues, Acknowledges
<1>4. ASSUME NEW p \in Psp, Reconciles(p) PROVE ResultsInv'
  BY <1>4, <1>t DEF Reconciles, Status
<1>5. ASSUME UNCHANGED vars PROVE ResultsInv'
  BY <1>5, <1>t DEF vars
<1> QED BY <1>1, <1>2, <1>3, <1>4, <1>5

\* A worker passes on what it was given, and completes what was paid.
LEMMA WorkerResults ==
  ASSUME TypeOK, RowsInv, ResultsInv, NEW w \in Workers,
         (\E t \in queue : Starts(w, t)) \/ Continues(w) \/ WorkerDies(w)
  PROVE  ResultsInv'
<1> USE DEF ResultsInv, TrueResult, txVars, bookVars, wireVars, payVars, Is, Job
<1>t. /\ gateway \in [Payments -> {"idle", "asked", "success", "short", "failure"}]
      /\ txStatus \in [Payments -> Statuses]
      /\ notices \subseteq Results /\ open \subseteq Results /\ queue \subseteq Results
      /\ work \in [Workers -> Activities]
      /\ \A t \in Results : t.p \in Payments
      /\ \A v \in Workers : ~Is(v, "idle") => Job(v).p \in Payments
  BY JobType DEF TypeOK, Results
<1>1. ASSUME NEW t \in queue, Starts(w, t) PROVE ResultsInv'
  <2>1. CASE StkReads(w, t)
    BY <2>1, <1>t DEF StkReads, Takes, Becomes
  <2>2. CASE PspUnknown(w, t)
    BY <2>2, <1>t DEF PspUnknown, Takes
  <2>3. CASE PspSkips(w, t)
    BY <2>3, <1>t DEF PspSkips, PspMarks, Takes
  <2>4. CASE PspUpdates(w, t)
    BY <2>4, <1>t DEF PspUpdates, PspMarks, Takes, Settle
  <2>5. CASE PspApplies(w, t)
    BY <2>5, <1>t DEF PspApplies, Takes, Becomes
  <2> QED BY <1>1, <2>1, <2>2, <2>3, <2>4, <2>5 DEF Starts
<1>2. CASE Continues(w)
  <2>1. CASE StkSkips(w)
    BY <2>1, <1>t DEF StkSkips, Becomes, Idle
  <2>2. CASE \E status \in Settled \ {"COMPLETED"} : StkRejects(w, status)
    BY <2>2, <1>t DEF StkRejects, Becomes, Idle, Settle, Settled
  <2>3. CASE StkApplies(w)
    BY <2>3, <1>t DEF StkApplies, Becomes, Locks
  <2>4. CASE StkRetries(w)
    BY <2>4, <1>t DEF StkRetries, Becomes, Idle
  <2>5. CASE Completes(w) /\ (StkCommits(w) \/ PspCommits(w))
    BY <2>5, <1>t DEF Completes, Becomes, Idle, Settle, StkCommits, PspCommits
  <2> QED
    BY <1>2, <2>1, <2>2, <2>3, <2>4, <2>5
    DEF Continues, StkFailed, StkMismatch, StkCommits, PspCommits, Settled
<1>3. CASE WorkerDies(w)
  BY <1>3, <1>t DEF WorkerDies, Becomes, Idle
<1> QED BY <1>1, <1>2, <1>3

-----------------------------------------------------------------------------
(* What is COMPLETED, billed and on file                                   *)

\* Outside the workers, only a request that ends writes a status: that of a new row.
LEMMA OutsideStatus ==
  ASSUME TypeOK, RowsInv,
         \/ \E p \in Payments : Request(p)
         \/ Gateway
         \/ \E n \in notices : Webhook(n)
         \/ \E p \in Psp : Reconciles(p)
         \/ UNCHANGED vars
  PROVE  /\ UNCHANGED billed
         /\ txStatus' \in [Payments -> Statuses]
         /\ \A p \in Payments : \/ txStatus'[p] = txStatus[p]
                                \/ txStatus[p] = "none" /\ txStatus'[p] # "COMPLETED"
<1> USE DEF TypeOK, Statuses, txVars, payVars
<1>1. ASSUME NEW p \in Payments, Records(p)
      PROVE  /\ UNCHANGED billed
             /\ txStatus' = [txStatus EXCEPT ![p] = IF p \in Withdrawals THEN "SENT" ELSE "PENDING"]
             /\ txStatus[p] = "none"
  BY <1>1 DEF Records, RowsInv
<1>9. ASSUME NEW p \in Payments, Refuses(p)
      PROVE  /\ UNCHANGED billed
             /\ txStatus' = [txStatus EXCEPT ![p] = IF p \in Withdrawals THEN "FAILED" ELSE "PENDING"]
             /\ txStatus[p] = "none"
  BY <1>9 DEF Refuses, MayAsk, RowsInv
<1>2. CASE \E p \in Payments : Records(p) \/ Refuses(p)
  BY <1>1, <1>2, <1>9
<1>3. CASE UNCHANGED <<billed, txStatus>>
  BY <1>3
<1>4. ASSUME NEW p \in Payments, Request(p), ~Records(p), ~Refuses(p)
      PROVE  UNCHANGED <<billed, txStatus>>
  BY <1>4 DEF Request, Asks, RequestDies
<1>5. CASE Gateway
  BY <1>3, <1>5 DEF Gateway, Settles, ReportsPending, Redelivers, MarkerExpires
<1>6. ASSUME NEW n \in notices, Webhook(n) PROVE UNCHANGED <<billed, txStatus>>
  BY <1>6 DEF Webhook, StkDropsReplay, StkFails, PspBrokerDown, PspReceives, StkEnqueues, PspEnqueues
<1>7. ASSUME NEW p \in Psp, Reconciles(p) PROVE UNCHANGED <<billed, txStatus>>
  BY <1>7 DEF Reconciles
<1>8. CASE UNCHANGED vars
  BY <1>3, <1>8 DEF vars
<1> QED BY <1>2, <1>3, <1>4, <1>5, <1>6, <1>7, <1>8

\* A worker bills what it completes, and settles nothing else that is COMPLETED: the
\* failure of an STK push is no late result of one that succeeded, and a result of
\* the PSP finds that the payment is finished.
LEMMA WorkerStatus ==
  ASSUME TypeOK, RowsInv, ResultsInv, NEW w \in Workers,
         (\E t \in queue : Starts(w, t)) \/ Continues(w) \/ WorkerDies(w)
  PROVE  /\ txStatus' \in [Payments -> Statuses]
         /\ \/ /\ UNCHANGED billed
               /\ \A p \in Payments : \/ txStatus'[p] = txStatus[p]
                                      \/ /\ txStatus[p] # "COMPLETED"
                                         /\ txStatus'[p] # "COMPLETED"
            \/ \E p \in Payments : /\ billed' = billed \cup {p}
                                   /\ txStatus' = [txStatus EXCEPT ![p] = "COMPLETED"]
<1> USE DEF TypeOK, Statuses, txVars, Is
<1>t. TypeOK'
  BY WorkerTypes
<1>1. ASSUME NEW t \in queue, Starts(w, t)
      PROVE  \/ UNCHANGED <<billed, txStatus>>
             \/ /\ UNCHANGED billed
                /\ txStatus[t.p] # "COMPLETED" /\ t.p \in Payments
                /\ \/ txStatus' = [txStatus EXCEPT ![t.p] = "FAILED"]
                   \/ txStatus' = [txStatus EXCEPT ![t.p] = "PENDING"]
  BY <1>1 DEF Starts, StkReads, PspUnknown, PspSkips, PspUpdates, PspMarks, PspApplies,
              Finished, Settle, Results
<1>2. CASE Continues(w) /\ Completes(w)
  <2>1. Job(w).p \in Payments
    BY <1>2, JobType DEF Completes
  <2> QED BY <1>2, <2>1, <1>t DEF Completes, Settle
<1>3. ASSUME Is(w, "reading"), StkFailed(w) \/ StkMismatch(w)
      PROVE  /\ UNCHANGED billed
             /\ Job(w).p \in Payments /\ txStatus[Job(w).p] # "COMPLETED"
             /\ \/ txStatus' = [txStatus EXCEPT ![Job(w).p] = "FAILED"]
                \/ txStatus' = [txStatus EXCEPT ![Job(w).p] = "AMOUNT_MISMATCH"]
  <2>1. Job(w).p \in Stk /\ Job(w).p \in Payments
    BY <1>3, JobType DEF RowsInv
  <2>2. Job(w).result \in {"failure", "short"}
    BY <1>3 DEF StkFailed, StkMismatch
  <2>3. gateway[Job(w).p] # "success"
    BY <1>3, <2>1, <2>2, KindsAssumption DEF ResultsInv, TrueResult
  <2> QED BY <1>3, <2>1, <2>3 DEF StkFailed, StkMismatch, StkRejects, Settle, ResultsInv
<1>4. ASSUME StkSkips(w) \/ StkApplies(w) \/ StkRetries(w) \/ WorkerDies(w)
      PROVE  UNCHANGED <<billed, txStatus>>
  BY <1>4 DEF StkSkips, StkApplies, StkRetries, WorkerDies
<1>5. CASE \E t \in queue : Starts(w, t)
  BY <1>1, <1>5, <1>t
<1>6. CASE Is(w, "reading") /\ (StkFailed(w) \/ StkMismatch(w))
  BY <1>3, <1>6, <1>t
<1>7. CASE StkSkips(w) \/ StkApplies(w) \/ StkRetries(w) \/ WorkerDies(w)
  BY <1>4, <1>7, <1>t
<1> QED
  BY <1>2, <1>5, <1>6, <1>7
  DEF Continues, StkCommits, PspCommits

\* A COMPLETED payment stays so, and is the kind of payment that is billed.
LEMMA StepStatus ==
  ASSUME TypeOK, RowsInv, ResultsInv, FeeMatchesCompletion, [Next]_vars
  PROVE  /\ FeeMatchesCompletion'
         /\ \A p \in Payments : txStatus[p] = "COMPLETED" => txStatus'[p] = "COMPLETED"
<1>t. txStatus \in [Payments -> Statuses]
  BY DEF TypeOK
<1>1. CASE \E w \in Workers :
             (\E t \in queue : Starts(w, t)) \/ Continues(w) \/ WorkerDies(w)
  BY <1>1, <1>t, WorkerStatus DEF FeeMatchesCompletion
<1>2. CASE \/ \E p \in Payments : Request(p)
           \/ Gateway
           \/ \E n \in notices : Webhook(n)
           \/ \E p \in Psp : Reconciles(p)
           \/ UNCHANGED vars
  <2>1. /\ UNCHANGED billed
        /\ \A p \in Payments : txStatus'[p] = "COMPLETED" <=> txStatus[p] = "COMPLETED"
    BY <1>2, OutsideStatus
  <2> QED BY <2>1 DEF FeeMatchesCompletion
<1> QED BY <1>1, <1>2 DEF Next

\* A success of a PSP leaves the wire for the Callback table, and the table when the
\* payment is COMPLETED.
LEMMA StepOnFile ==
  ASSUME TypeOK, RowsInv, ResultsInv, FeeMatchesCompletion, PspSuccessOnFile, [Next]_vars
  PROVE  PspSuccessOnFile'
<1> SUFFICES ASSUME NEW p \in Psp, gateway'[p] = "success", txStatus'[p] # "COMPLETED"
             PROVE  [p |-> p, result |-> "success"] \in notices' \cup open'
  <2>1. \A p \in Psp : gateway'[p] # "short"
    BY OutsideResults, WorkerResults DEF ResultsInv, Next
  <2> QED BY <2>1 DEF PspSuccessOnFile, Paid
<1> DEFINE n == [p |-> p, result |-> "success"]
<1> USE DEF txVars, bookVars, wireVars, payVars
<1>t. /\ p \in Payments
      /\ gateway \in [Payments -> {"idle", "asked", "success", "short", "failure"}]
      /\ queue \subseteq Results
  BY DEF TypeOK, Payments
<1>c. txStatus[p] # "COMPLETED"
  BY <1>t, StepStatus
<1>f. gateway[p] = "success" => n \in notices \cup open
  BY <1>t, <1>c DEF PspSuccessOnFile, Paid
<1>1. ASSUME NEW q \in Payments, Request(q) PROVE n \in notices' \cup open'
  BY <1>1, <1>t, <1>f DEF Request, Asks, Records, Refuses, RequestDies
<1>2. CASE Gateway
  BY <1>2, <1>t, <1>f
  DEF Gateway, Settles, ReportsPending, Redelivers, MarkerExpires, Reports
<1>3. ASSUME NEW m \in notices, Webhook(m) PROVE n \in notices' \cup open'
  BY <1>3, <1>t, <1>f, KindsAssumption
  DEF Webhook, StkDropsReplay, StkFails, PspBrokerDown, PspReceives, PspKeeps,
      StkEnqueues, StkCallback, PspEnqueues, Acknowledges
<1>4. ASSUME NEW q \in Psp, Reconciles(q) PROVE n \in notices' \cup open'
  BY <1>4, <1>f DEF Reconciles
<1>5. CASE UNCHANGED vars
  BY <1>5, <1>f DEF vars
<1>6. ASSUME NEW w \in Workers, NEW t \in queue, Starts(w, t) PROVE n \in notices' \cup open'
  <2>1. t \in Results /\ t.p \in Payments
    BY <1>t DEF Results
  <2>2. CASE PspSkips(w, t)
    BY <2>2, <1>c, <1>f, <2>1 DEF PspSkips, PspMarks, Finished
  <2>3. CASE PspUpdates(w, t)
    BY <2>3, <1>f, <2>1 DEF PspUpdates, PspMarks
  <2>4. CASE StkReads(w, t) \/ PspUnknown(w, t) \/ PspApplies(w, t)
    BY <2>4, <1>f DEF StkReads, PspUnknown, PspApplies
  <2> QED BY <1>6, <2>2, <2>3, <2>4 DEF Starts
<1>7. ASSUME NEW w \in Workers, PspCommits(w) PROVE n \in notices' \cup open'
  <2>1. txStatus'[Job(w).p] = "COMPLETED"
    BY <1>7, JobType DEF PspCommits, Completes, Settle, TypeOK, Is
  <2>2. n # Job(w)
    BY <2>1
  <2> QED BY <1>7, <1>f, <2>2 DEF PspCommits, Completes
<1>8. ASSUME NEW w \in Workers,
             (Continues(w) /\ ~PspCommits(w)) \/ WorkerDies(w)
      PROVE  n \in notices' \cup open'
  BY <1>8, <1>f
  DEF Continues, StkSkips, StkFailed, StkMismatch, StkRejects, StkApplies, StkRetries,
      StkCommits, Completes, WorkerDies
<1> QED BY <1>1, <1>2, <1>3, <1>4, <1>5, <1>6, <1>7, <1>8 DEF Next

-----------------------------------------------------------------------------
(* The lock on the saving                                                  *)

\* The balance of a ledger of STK deposits is their number.
LEMMA DepositsBalance ==
  ASSUME NEW R, NEW s \in Seq(R), \A i \in DOMAIN s : s[i].p \in StkDeposits
  PROVE  Balance(s) = Len(s)
<1> DEFINE D == {i \in DOMAIN s : s[i].p \in Withdrawals}
<1>1. D = {}
  BY KindsAssumption DEF Stk, Psp
<1>2. Cardinality(D) = 0
  BY <1>1, FS_EmptySet
<1>3. Balance(s) = Len(s) - 2 * Cardinality(D)
  BY DEF Balance
<1>4. Len(s) \in Nat
  OBVIOUS
<1> HIDE DEF D
<1> QED BY <1>2, <1>3, <1>4

\* Nobody writes and nothing is booked at first.
LEMMA InitLock == ASSUME Init PROVE LockInv
BY DEF Init, LockInv, Idle, Is

\* A step that books nothing and lets no worker start to write a deposit.
LEMMA QuietLock ==
  ASSUME LockInv, UNCHANGED ledger,
         \A w \in Workers : \/ work'[w] = work[w]
                            \/ work'[w].pc # "writing"
                            \/ work'[w].task.p \notin StkDeposits
  PROVE  LockInv'
BY DEF LockInv, Is, Job

\* A worker enters its payment into the ledger and is idle then.
LEMMA EntersLock ==
  ASSUME TypeOK, LockInv, NEW w \in Workers,
         Is(w, "writing"), Enters(w), Becomes(w, Idle)
  PROVE  LockInv'
<1> USE DEF Is, Job
<1>1. /\ ledger \in Seq([p : Payments, after : Int])
      /\ Len(ledger) \in Nat /\ DOMAIN ledger = 1..Len(ledger)
  BY DEF TypeOK
<1>2. [p |-> Job(w).p, after |-> work[w].balance] \in [p : Payments, after : Int]
  BY JobType DEF TypeOK
<1>3. /\ Len(ledger') = Len(ledger) + 1
      /\ DOMAIN ledger' = 1..(Len(ledger) + 1)
      /\ \A i \in DOMAIN ledger : ledger'[i] = ledger[i]
      /\ ledger'[Len(ledger) + 1] = [p |-> Job(w).p, after |-> work[w].balance]
  BY <1>1, <1>2 DEF Enters
<1>4. /\ work'[w].pc = "idle"
      /\ \A v \in Workers : v # w => work'[v] = work[v]
  BY DEF Becomes, Idle, TypeOK
<1>5. ASSUME NEW v \in Workers, (Is(v, "writing") /\ Job(v).p \in StkDeposits)',
             \A i \in DOMAIN ledger' : ledger'[i].p \in StkDeposits
      PROVE  FALSE
  <2>1. v # w /\ work'[v] = work[v]
    BY <1>4, <1>5
  <2>2. Job(w).p \in StkDeposits
    BY <1>1, <1>3, <1>5
  <2> QED BY <1>5, <2>1, <2>2 DEF LockInv
<1>6. ASSUME NEW i \in DOMAIN ledger', \A j \in 1..i : ledger'[j].p \in StkDeposits
      PROVE  ledger'[i].after = i
  <2>1. CASE i \in DOMAIN ledger
    <3>1. \A j \in 1..i : j \in DOMAIN ledger
      BY <1>1, <2>1
    <3>2. \A j \in 1..i : ledger[j].p \in StkDeposits
      BY <1>3, <1>6, <3>1
    <3> QED BY <1>3, <2>1, <3>2 DEF LockInv
  <2>2. CASE i = Len(ledger) + 1
    <3>1. Job(w).p \in StkDeposits
      BY <1>1, <1>3, <1>6, <2>2
    <3>2. \A j \in DOMAIN ledger : ledger[j].p \in StkDeposits
      BY <1>1, <1>3, <1>6, <2>2
    <3>3. work[w].balance = Len(ledger) + 1
      BY <3>1, <3>2 DEF LockInv
    <3> QED BY <1>3, <2>2, <3>3
  <2> QED BY <1>1, <1>3, <2>1, <2>2
<1>7. \A u, v \in Workers :
        /\ (Is(u, "writing") /\ Job(u).p \in StkDeposits)'
        /\ (Is(v, "writing") /\ Job(v).p \in StkDeposits)'
        => u = v
  BY <1>4 DEF LockInv
<1> QED BY <1>5, <1>6, <1>7 DEF LockInv

\* The lock on the Saving row orders the deposits: no other is written between the
\* sum a worker takes and its commit.
LEMMA StepLock ==
  ASSUME TypeOK, RowsInv, LockInv, [Next]_vars
  PROVE  LockInv'
<1> USE DEF txVars, bookVars, wireVars, payVars
<1>w. work \in [Workers -> Activities]
  BY DEF TypeOK
<1>1. CASE \/ \E p \in Payments : Request(p)
           \/ Gateway
           \/ \E n \in notices : Webhook(n)
           \/ \E p \in Psp : Reconciles(p)
           \/ UNCHANGED vars
  <2>1. ASSUME NEW p \in Payments, Request(p) PROVE UNCHANGED <<ledger, work>>
    BY <2>1 DEF Request, Asks, Records, Refuses, RequestDies
  <2>2. CASE Gateway
    BY <2>2, QuietLock DEF Gateway, Settles, ReportsPending, Redelivers, MarkerExpires
  <2>3. ASSUME NEW n \in notices, Webhook(n) PROVE UNCHANGED <<ledger, work>>
    BY <2>3 DEF Webhook, StkDropsReplay, StkFails, PspBrokerDown, PspReceives, StkEnqueues, PspEnqueues
  <2>4. ASSUME NEW p \in Psp, Reconciles(p) PROVE UNCHANGED <<ledger, work>>
    BY <2>4 DEF Reconciles
  <2> QED BY <1>1, <2>1, <2>2, <2>3, <2>4, QuietLock DEF vars
<1>2. ASSUME NEW w \in Workers, NEW t \in queue, Starts(w, t) PROVE LockInv'
  <2>1. CASE StkReads(w, t)
    BY <1>w, <2>1, QuietLock DEF StkReads, Becomes
  <2>2. CASE PspApplies(w, t)
    <3>1. t.p \notin StkDeposits
      BY <2>2, KindsAssumption DEF PspApplies, Stk
    <3> QED BY <1>w, <2>2, <3>1, QuietLock DEF PspApplies, Becomes
  <2>3. CASE PspUnknown(w, t) \/ PspSkips(w, t) \/ PspUpdates(w, t)
    BY <2>3, QuietLock DEF PspUnknown, PspSkips, PspUpdates, PspMarks
  <2> QED BY <1>2, <2>1, <2>2, <2>3 DEF Starts
<1>3. ASSUME NEW w \in Workers, UNCHANGED ledger, Becomes(w, Idle) PROVE LockInv'
  BY <1>w, <1>3, QuietLock DEF Becomes, Idle
<1>4. ASSUME NEW w \in Workers, StkApplies(w) PROVE LockInv'
  <2>1. CASE Job(w).p \notin StkDeposits
    BY <1>w, <1>4, <2>1, QuietLock DEF StkApplies, Becomes
  <2>2. CASE Job(w).p \in StkDeposits
    <3>1. /\ UNCHANGED ledger
          /\ work'[w] = [pc |-> "writing", task |-> Job(w), balance |-> Balance(ledger) + 1]
          /\ \A v \in Workers : v # w => work'[v] = work[v]
      BY <1>w, <1>4, <2>2 DEF StkApplies, Becomes
    <3>2. \A v \in Workers : Is(v, "writing") => Job(v).p \notin StkDeposits
      BY <1>4, <2>2 DEF StkApplies, AccountFree
    <3>3. (\A i \in DOMAIN ledger : ledger[i].p \in StkDeposits)
            => Balance(ledger) = Len(ledger)
      BY DepositsBalance DEF TypeOK
    <3> QED BY <3>1, <3>2, <3>3 DEF LockInv, Is, Job
  <2> QED BY <2>1, <2>2
<1>5. ASSUME NEW w \in Workers, Continues(w) \/ WorkerDies(w), ~StkApplies(w) PROVE LockInv'
  <2>1. Becomes(w, Idle)
    BY <1>5
    DEF Continues, StkSkips, StkFailed, StkMismatch, StkRejects, StkRetries,
        StkCommits, PspCommits, Completes, WorkerDies
  <2>2. \/ UNCHANGED ledger
        \/ Is(w, "writing") /\ Enters(w)
    BY <1>5
    DEF Continues, StkSkips, StkFailed, StkMismatch, StkRejects, StkRetries,
        StkCommits, PspCommits, Completes, WorkerDies
  <2> QED BY <1>3, <2>1, <2>2, EntersLock
<1> QED BY <1>1, <1>2, <1>4, <1>5 DEF Next

-----------------------------------------------------------------------------
(* The book                                                                *)

\* An entry books its payment.
LEMMA EntersBooked ==
  ASSUME TypeOK, NEW w \in Workers, Is(w, "writing"), Enters(w)
  PROVE  Booked' = Booked \cup {Job(w).p}
<1>1. /\ ledger \in Seq([p : Payments, after : Int])
      /\ Len(ledger) \in Nat /\ DOMAIN ledger = 1..Len(ledger)
  BY DEF TypeOK
<1>2. [p |-> Job(w).p, after |-> work[w].balance] \in [p : Payments, after : Int]
  BY JobType DEF TypeOK, Is
<1>3. /\ DOMAIN ledger' = 1..(Len(ledger) + 1)
      /\ \A i \in DOMAIN ledger : ledger'[i] = ledger[i]
      /\ ledger'[Len(ledger) + 1].p = Job(w).p
  BY <1>1, <1>2 DEF Enters
<1>4. DOMAIN ledger' = DOMAIN ledger \cup {Len(ledger) + 1}
  BY <1>1, <1>3
<1> QED BY <1>3, <1>4 DEF Booked

\* Money moves when the gateway settles a payment, and the book is not touched.
LEMMA OutsideBook ==
  ASSUME TypeOK, RowsInv,
         \/ \E p \in Payments : Request(p)
         \/ Gateway
         \/ \E n \in notices : Webhook(n)
         \/ \E p \in Psp : Reconciles(p)
         \/ UNCHANGED vars
  PROVE  UNCHANGED <<Paid, Booked, savings, owed>> \/ \E p \in Payments : Book!Pay(p)
<1> USE DEF txVars, bookVars, wireVars, payVars
<1>g. gateway \in [Payments -> {"idle", "asked", "success", "short", "failure"}]
  BY DEF TypeOK
<1>b. UNCHANGED bookVars => UNCHANGED <<Booked, savings, owed>>
  BY DEF Booked
<1>s. ASSUME UNCHANGED bookVars, UNCHANGED gateway
      PROVE  UNCHANGED <<Paid, Booked, savings, owed>>
  BY <1>s, <1>b DEF Paid
<1>1. ASSUME NEW p \in Payments, Request(p) PROVE UNCHANGED <<Paid, Booked, savings, owed>>
  <2>1. CASE Asks(p)
    <3>1. gateway[p] = "idle" /\ gateway' = [gateway EXCEPT ![p] = "asked"]
      BY <2>1 DEF Asks, MayAsk, RowsInv
    <3>2. Paid' = Paid
      BY <1>g, <3>1 DEF Paid
    <3> QED BY <2>1, <3>2, <1>b DEF Asks
  <2>2. CASE Records(p) \/ Refuses(p) \/ RequestDies(p)
    BY <2>2, <1>s DEF Records, Refuses, RequestDies
  <2> QED BY <1>1, <2>1, <2>2 DEF Request
<1>2. ASSUME NEW p \in Payments, NEW end \in {"success", "short", "failure"}, Settles(p, end)
      PROVE  UNCHANGED <<Paid, Booked, savings, owed>> \/ Book!Pay(p)
  <2>1. /\ gateway[p] = "asked"
        /\ gateway' = [gateway EXCEPT ![p] = end]
        /\ UNCHANGED <<Booked, savings, owed>>
    BY <1>2, <1>b DEF Settles
  <2>2. CASE end = "failure"
    BY <1>g, <2>1, <2>2 DEF Paid
  <2>3. CASE end # "failure"
    <3>1. p \notin Paid /\ Paid' = Paid \cup {p}
      BY <1>g, <2>1, <2>3 DEF Paid
    <3> QED BY <2>1, <3>1 DEF Book!Pay
  <2> QED BY <2>2, <2>3
<1>3. ASSUME \/ \E p \in Psp : ReportsPending(p)
             \/ \E p \in Payments : Redelivers(p)
             \/ \E p \in Stk : MarkerExpires(p)
      PROVE  UNCHANGED <<Paid, Booked, savings, owed>>
  BY <1>3, <1>s DEF ReportsPending, Redelivers, MarkerExpires
<1>4. ASSUME NEW n \in notices, Webhook(n) PROVE UNCHANGED <<Paid, Booked, savings, owed>>
  BY <1>4, <1>s DEF Webhook, StkDropsReplay, StkFails, PspBrokerDown, PspReceives,
                    StkEnqueues, PspEnqueues
<1>5. ASSUME NEW p \in Psp, Reconciles(p) PROVE UNCHANGED <<Paid, Booked, savings, owed>>
  BY <1>5, <1>s DEF Reconciles
<1>6. ASSUME UNCHANGED vars PROVE UNCHANGED <<Paid, Booked, savings, owed>>
  BY <1>6, <1>s DEF vars
<1> QED BY <1>1, <1>2, <1>3, <1>4, <1>5, <1>6 DEF Gateway

\* A worker books what was paid, once: a second entry for a payment would clash.
LEMMA WorkerBook ==
  ASSUME TypeOK, RowsInv, ResultsInv, NEW w \in Workers,
         (\E t \in queue : Starts(w, t)) \/ Continues(w) \/ WorkerDies(w)
  PROVE  UNCHANGED <<Paid, Booked, savings, owed>> \/ \E p \in Payments : Book!Book(p)
<1> USE DEF txVars, bookVars, wireVars, payVars
<1>p. UNCHANGED gateway => UNCHANGED Paid
  BY DEF Paid
<1>b. UNCHANGED ledger => UNCHANGED Booked
  BY DEF Booked
<1>1. ASSUME NEW t \in queue, Starts(w, t) PROVE UNCHANGED <<gateway, ledger, savings, owed>>
  BY <1>1 DEF Starts, StkReads, PspUnknown, PspSkips, PspUpdates, PspMarks, PspApplies
<1>2. ASSUME \/ StkSkips(w) \/ StkFailed(w) \/ StkMismatch(w) \/ StkApplies(w)
             \/ StkRetries(w) \/ WorkerDies(w)
      PROVE  UNCHANGED <<gateway, ledger, savings, owed>>
  BY <1>2 DEF StkSkips, StkFailed, StkMismatch, StkRejects, StkApplies, StkRetries, WorkerDies
<1>3. ASSUME Completes(w)
      PROVE  /\ Is(w, "writing") /\ Job(w).p \in Payments /\ Job(w).p \in Paid
             /\ Job(w).p \notin Booked \/ NothingOwed(Job(w).p)
             /\ UNCHANGED Paid
  <2>1. Is(w, "writing") /\ Job(w) \in Results /\ Job(w).p \in Payments
    BY <1>3, JobType DEF Completes, TypeOK, Is
  <2>2. Job(w).result = "success" /\ TrueResult(Job(w))
    BY <2>1 DEF ResultsInv, Is
  <2>3. gateway[Job(w).p] = "success"
    BY <2>2 DEF TrueResult
  <2> QED BY <1>3, <1>p, <2>1, <2>3 DEF Completes, Clashes, Paid
<1>4. CASE PspCommits(w)
  <2>1. Completes(w) /\ Enters(w) /\ UNCHANGED <<savings, owed>>
    BY <1>4 DEF PspCommits
  <2>2. Job(w).p \notin Stk
    BY <1>4, KindsAssumption DEF PspCommits
  <2>3. ~NothingOwed(Job(w).p) /\ Job(w).p \notin StkDeposits /\ Job(w).p \notin StkRepayments
    BY <2>2 DEF NothingOwed, Stk
  <2> QED BY <1>3, <2>1, <2>3, EntersBooked DEF Book!Book
<1>5. CASE StkCommits(w)
  <2>1. /\ Completes(w)
        /\ savings' = IF Job(w).p \in StkDeposits THEN savings + 1 ELSE savings
        /\ owed' = IF Job(w).p \in StkRepayments THEN Reduced(owed) ELSE owed
    BY <1>5 DEF StkCommits
  <2>2. CASE NothingOwed(Job(w).p)
    <3>1. UNCHANGED ledger
      BY <1>5, <2>2 DEF StkCommits
    <3>2. UNCHANGED <<savings, owed>>
      BY <2>1, <2>2, KindsAssumption DEF NothingOwed, Reduced
    <3> QED BY <1>3, <1>b, <2>1, <3>1, <3>2
  <2>3. CASE ~NothingOwed(Job(w).p)
    <3>1. Enters(w)
      BY <1>5, <2>3 DEF StkCommits
    <3>2. Job(w).p \in StkRepayments => owed > 0 /\ owed' = owed - 1
      BY <2>1, <2>3, BoundsAssumption DEF NothingOwed, Reduced, TypeOK
    <3> QED BY <1>3, <2>1, <2>3, <3>1, <3>2, EntersBooked DEF Book!Book
  <2> QED BY <2>2, <2>3
<1> QED BY <1>1, <1>2, <1>4, <1>5, <1>p, <1>b DEF Continues

-----------------------------------------------------------------------------
(* Theorems                                                                *)

\* All of it is inductive together.
CollectionsInv ==
  /\ TypeOK
  /\ RowsInv
  /\ ResultsInv
  /\ LockInv
  /\ FeeMatchesCompletion
  /\ PspSuccessOnFile

\* The invariant holds at first.
LEMMA InitInv == ASSUME Init PROVE CollectionsInv
<1>1. FeeMatchesCompletion
  BY DEF Init, FeeMatchesCompletion
<1>2. PspSuccessOnFile
  BY DEF Init, PspSuccessOnFile, Paid
<1> QED BY <1>1, <1>2, InitTypes, InitRows, InitResults, InitLock DEF CollectionsInv

\* Every step keeps it.
LEMMA StepInv == ASSUME CollectionsInv, [Next]_vars PROVE CollectionsInv'
<1> USE DEF CollectionsInv
<1>1. TypeOK'
  BY OutsideTypes, WorkerTypes DEF Next
<1>2. RowsInv'
  BY OutsideRows, WorkerRows DEF Next
<1>3. ResultsInv'
  BY OutsideResults, WorkerResults DEF Next
<1> QED BY <1>1, <1>2, <1>3, StepLock, StepStatus, StepOnFile

\* The invariant holds of every reachable state.
THEOREM CollectionsInvariance == Spec => []CollectionsInv
BY InitInv, StepInv, PTL DEF Spec

\* The variables of the model have their types.
THEOREM CollectionsTypes == Spec => []TypeOK
<1>1. CollectionsInv => TypeOK
  BY DEF CollectionsInv
<1> QED BY CollectionsInvariance, <1>1, PTL

\* Exactly the COMPLETED payments are billed, however often and in whatever order their
\* results arrive (record_billing_item in the two tasks).
THEOREM FeeWithCompletion == Spec => []FeeMatchesCompletion
<1>1. CollectionsInv => FeeMatchesCompletion
  BY DEF CollectionsInv
<1> QED BY CollectionsInvariance, <1>1, PTL

\* A payment a PSP reported paid is COMPLETED, or its report is still to be delivered,
\* or in the Callback table (PaymentCallbackView.post, process_payment_callback).
THEOREM NoPspSuccessIsLost == Spec => []PspSuccessOnFile
<1>1. CollectionsInv => PspSuccessOnFile
  BY DEF CollectionsInv
<1> QED BY CollectionsInvariance, <1>1, PTL

\* Nothing undoes a COMPLETED payment (process_stk_callback_task,
\* process_payment_callback).
THEOREM CompletedStays == Spec => CompletedIsFinal
<1>1. CollectionsInv /\ [Next]_vars
        => [\A p \in Payments : txStatus[p] = "COMPLETED" => txStatus'[p] = "COMPLETED"]_vars
  BY StepStatus DEF CollectionsInv
<1> QED BY CollectionsInvariance, <1>1, PTL DEF Spec, CompletedIsFinal

\* The entries that are first in the ledger, if all are STK deposits, show the sum of
\* the entries up to them (_apply_saving_deposit).
THEOREM DepositsAreSummed == Spec => []DepositsKeepBalance
<1>1. CollectionsInv => DepositsKeepBalance
  <2> SUFFICES ASSUME CollectionsInv, NEW i \in DOMAIN ledger,
                      \A j \in 1..i : ledger[j].p \in StkDeposits
               PROVE  ledger[i].after = Balance(SubSeq(ledger, 1, i))
    BY DEF DepositsKeepBalance, RunningSum
  <2> DEFINE s == SubSeq(ledger, 1, i)
  <2>1. /\ ledger \in Seq([p : Payments, after : Int])
        /\ Len(ledger) \in Nat /\ DOMAIN ledger = 1..Len(ledger)
    BY DEF CollectionsInv, TypeOK
  <2>2. /\ s \in Seq([p : Payments, after : Int])
        /\ Len(s) = i
        /\ \A j \in 1..i : s[j] = ledger[j]
    <3>1. i \in Int /\ i >= 1 /\ 1 \in Int
      BY <2>1
    <3>2. \A j \in 1..i : ledger[j] \in [p : Payments, after : Int]
      <4>1. \A j \in 1..i : j \in 1..Len(ledger)
        BY <2>1
      <4> QED BY <2>1, <4>1, ElementOfSeq
    <3>3. /\ s \in Seq([p : Payments, after : Int])
          /\ Len(s) = IF 1 <= i THEN i - 1 + 1 ELSE 0
          /\ \A j \in 1..(i - 1 + 1) : s[j] = ledger[1 + j - 1]
      BY <3>1, <3>2, SubSeqProperties
    <3> HIDE DEF s
    <3>4. i - 1 + 1 = i /\ \A j \in 1..i : 1 + j - 1 = j
      BY <3>1
    <3> QED BY <3>1, <3>3, <3>4
  <2>3. \A j \in DOMAIN s : s[j].p \in StkDeposits
    BY <2>2
  <2>4. Balance(s) = i
    BY <2>2, <2>3, DepositsBalance
  <2> QED BY <2>4 DEF CollectionsInv, LockInv
<1> QED BY CollectionsInvariance, <1>1, PTL

\* Collections implements PaymentBook: money that moved is booked once, with its entry,
\* the credit of the saving and the reduction of the loan in one step.
THEOREM BookIsKept == Spec => BookedAsPromised
<1>1. Init => Book!Init
  BY DEF Init, Book!Init, Paid, Booked
<1>2. CollectionsInv /\ [Next]_vars => [Book!Next]_<<Paid, Booked, savings, owed>>
  <2> SUFFICES ASSUME CollectionsInv, [Next]_vars
               PROVE  [Book!Next]_<<Paid, Booked, savings, owed>>
    OBVIOUS
  <2>1. CASE \E w \in Workers :
               (\E t \in queue : Starts(w, t)) \/ Continues(w) \/ WorkerDies(w)
    BY <2>1, WorkerBook DEF CollectionsInv, Book!Next
  <2>2. CASE \/ \E p \in Payments : Request(p)
             \/ Gateway
             \/ \E n \in notices : Webhook(n)
             \/ \E p \in Psp : Reconciles(p)
             \/ UNCHANGED vars
    BY <2>2, OutsideBook DEF CollectionsInv, Book!Next
  <2> QED BY <2>1, <2>2 DEF Next
<1> QED BY CollectionsInvariance, <1>1, <1>2, PTL DEF Spec, BookedAsPromised, Book!Spec
=============================================================================

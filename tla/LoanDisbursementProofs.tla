----------------------- MODULE LoanDisbursementProofs -----------------------
(***************************************************************************)
(* Theorems about LoanDisbursement, for any set of attempts, admins and    *)
(* endpoints and any bound on faults.  Each lemma shows that one part of   *)
(* the inductive invariant IInv survives a step; a group of actions that   *)
(* does not touch the part is one step of the proof.                       *)
(***************************************************************************)
EXTENDS LoanDisbursement, FiniteSetTheorems, TLAPS

USE DEF loanVars, txVars, bookVars, wireVars, taskVars, opVars, answerVars

\* The initial state, in which nobody has asked for anything, satisfies IInv.
LEMMA InitIInv == Init => IInv
<1> SUFFICES ASSUME Init PROVE IInv
  OBVIOUS
<1>1. TypeOK
  BY BoundsAssumption DEF Init, TypeOK, LoanStatuses, DisbStatuses, TxStatuses, Ops
<1>2. LockInv /\ AttemptInv
  BY DEF Init, LockInv, AttemptInv
<1>3. ServiceInv /\ TaskInv /\ ResultInv /\ ActiveLoanWasPaid
  BY DEF Init, ServiceInv, ServiceAttempts, TaskInv, ResultInv, ActiveLoanWasPaid
<1> QED BY <1>1, <1>2, <1>3 DEF IInv

\* No step writes a value of the wrong type.  TaskInv and AttemptInv say why the
\* attempt that is read from the loan or from a request exists.
LEMMA TypeStep ==
    ASSUME IInv, Next PROVE TypeOK'
<1>1. ASSUME NEW m \in Admins, NEW new \in Decisions, AdminReads(m, new) PROVE
  TypeOK'
  BY <1>1 DEF AdminReads, Goes, IInv, TypeOK, Ops
<1>2. ASSUME NEW m \in Admins, AdminWrites(m) PROVE TypeOK'
  BY <1>2 DEF AdminWrites, Finish, IInv, TypeOK, Decisions, LoanStatuses, Ops
<1>3. ASSUME NEW m \in Admins, InitiateFails(m) PROVE TypeOK'
  BY <1>3 DEF InitiateFails, Finish, IInv, TypeOK, Ops
<1>4. ASSUME NEW m \in Admins, NEW a \in Attempts, InitiateCalls(m, a) PROVE TypeOK'
  BY <1>4 DEF InitiateCalls, Unused, IInv, TypeOK, Ops
<1>5. ASSUME NEW m \in Admins, InitiateCommits(m) PROVE TypeOK'
  BY <1>5 DEF InitiateCommits, InitiateWrites, Finish, IInv, TypeOK, LoanStatuses,
    DisbStatuses, TxStatuses, Events, Ops, AttemptInv
<1>6. ASSUME NEW m \in Admins, InitiateCrashes(m) PROVE TypeOK'
  BY <1>6, BoundsAssumption DEF InitiateCrashes, Finish, IInv, TypeOK, Fault, Ops
<1>7. ASSUME NEW m \in Admins, DirectReads(m) PROVE TypeOK'
  BY <1>7 DEF DirectReads, Goes, IInv, TypeOK, Ops
<1>8. ASSUME NEW m \in Admins, NEW a \in Attempts, DirectCreates(m, a) PROVE TypeOK'
  BY <1>8 DEF DirectCreates, Unused, IInv, TypeOK, Ops, LoanStatuses, TxStatuses
<1>9. ASSUME NEW m \in Admins, DirectRefused(m) PROVE TypeOK'
  BY <1>9 DEF DirectRefused, MarkAttemptFailed, Finish, IInv, TypeOK, Ops,
    LoanStatuses, TxStatuses
<1>10. ASSUME NEW m \in Admins, DirectTimesOut(m) PROVE TypeOK'
  BY <1>10, BoundsAssumption DEF DirectTimesOut, MarkAttemptFailed, Finish, IInv,
    TypeOK, Fault, Ops, LoanStatuses, TxStatuses, AttemptInv
<1>11. ASSUME NEW m \in Admins, DirectAccepted(m) PROVE TypeOK'
  BY <1>11 DEF DirectAccepted, Goes, IInv, TypeOK, Ops
<1>12. ASSUME NEW m \in Admins, DirectRecords(m) PROVE TypeOK'
  BY <1>12 DEF DirectRecords, Finish, IInv, TypeOK, Ops, TxStatuses
<1>13. ASSUME NEW m \in Admins, DirectCrashes(m) PROVE TypeOK'
  BY <1>13, BoundsAssumption DEF DirectCrashes, Finish, IInv, TypeOK, Fault, Ops
<1>14. ASSUME NEW new \in LoanStatuses, GuarantorResponds(new) PROVE TypeOK'
  BY <1>14, BoundsAssumption DEF GuarantorResponds, IInv, TypeOK
<1>15. ASSUME NEW a \in Attempts, NEW ok \in BOOLEAN, ProviderSettles(a, ok) PROVE
  TypeOK'
  BY <1>15 DEF ProviderSettles, IInv, TypeOK, Notices
<1>16. ASSUME NEW n \in accepted, ProviderRedelivers(n) PROVE TypeOK'
  BY <1>16 DEF ProviderRedelivers, IInv, TypeOK, Notices
<1>17. ASSUME NEW a \in Attempts, ReplayMarkerExpires(a) PROVE TypeOK'
  BY <1>17 DEF ReplayMarkerExpires, IInv, TypeOK
<1>18. ASSUME NEW n \in notices \cup calls, WebhookDropsReplay(n) PROVE TypeOK'
  BY <1>18 DEF WebhookDropsReplay, DropsReplay, Acknowledges, IInv, TypeOK
<1>18d. ASSUME NEW n \in notices \cup calls, WebhookDropsSecondCall(n) PROVE TypeOK'
  BY <1>18d, BoundsAssumption DEF WebhookDropsSecondCall, DropsReplay, Acknowledges,
    Fault, IInv, TypeOK
<1>18e. ASSUME NEW n \in notices \cup calls, WebhookEnters(n) PROVE TypeOK'
  BY <1>18e DEF WebhookEnters, IInv, TypeOK, Notices
<1>19. ASSUME NEW n \in notices \cup calls, WebhookUnknown(n) PROVE TypeOK'
  BY <1>19 DEF WebhookUnknown, WebhookParks, Parks, IInv, TypeOK, Notices
<1>20. ASSUME NEW n \in notices \cup calls, WebhookBrokerDown(n) PROVE TypeOK'
  BY <1>20, BoundsAssumption DEF WebhookBrokerDown, WebhookParks, Parks, IInv, TypeOK,
    Notices, Fault
<1>21. ASSUME NEW n \in notices \cup calls, WebhookEnqueues(n) PROVE TypeOK'
  BY <1>21 DEF WebhookEnqueues, Acknowledges, IInv, TypeOK, Notices, Tasks
<1>22. ASSUME NEW n \in notices \cup calls, WebhookFails(n) PROVE TypeOK'
  BY <1>22, BoundsAssumption DEF WebhookFails, IInv, TypeOK, Notices, Fault
<1>23. ASSUME NEW t \in queue, CallbackHasNoEffect(t) PROVE TypeOK'
  BY <1>23 DEF CallbackHasNoEffect, Takes, IInv, TypeOK
<1>24. ASSUME NEW t \in queue, CallbackDisburses(t) PROVE TypeOK'
  BY <1>24 DEF CallbackDisburses, Disburse, Takes, IInv, TypeOK, LoanStatuses,
    DisbStatuses, TxStatuses, Events, Tasks, TaskInv
<1>25. ASSUME NEW t \in queue, CallbackFails(t) PROVE TypeOK'
  BY <1>25 DEF CallbackFails, FailDisbursement, Takes, IInv, TypeOK, LoanStatuses,
    DisbStatuses, TxStatuses, Events
<1>26. ASSUME NEW t \in queue, B2CSkips(t) PROVE TypeOK'
  BY <1>26 DEF B2CSkips, Takes, IInv, TypeOK
<1>27. ASSUME NEW t \in queue, B2CProcesses(t) PROVE TypeOK'
  BY <1>27 DEF B2CProcesses, ApplyResult, Takes, IInv, TypeOK, Entry, LoanStatuses,
    TxStatuses, Tasks
<1>28. ASSUME NEW t \in queue, CallbackLost(t) PROVE TypeOK'
  BY <1>28, BoundsAssumption DEF CallbackLost, TaskLost, Takes, IInv, TypeOK, Fault
<1>29. ASSUME ConfirmationLost PROVE TypeOK'
  BY <1>29, BoundsAssumption DEF ConfirmationLost, TaskLost, IInv, TypeOK, Fault
<1>30. ASSUME TimerLost PROVE TypeOK'
  BY <1>30, BoundsAssumption DEF TimerLost, TaskLost, IInv, TypeOK, Fault
<1>31. ASSUME SendConfirmation PROVE TypeOK'
  BY <1>31 DEF SendConfirmation, AskMember, IInv, TypeOK, Events
<1>32. ASSUME DayPasses PROVE TypeOK'
  BY <1>32 DEF DayPasses, IInv, TypeOK
<1>33. ASSUME MemberConfirms PROVE TypeOK'
  BY <1>33 DEF MemberConfirms, IInv, TypeOK, RecordInvoiceItem, DisbStatuses,
    Events, TaskInv
<1>34. ASSUME MemberDisputes PROVE TypeOK'
  BY <1>34 DEF MemberDisputes, IInv, TypeOK, DisbStatuses, Events
<1>35. ASSUME AutoReads PROVE TypeOK'
  BY <1>35 DEF AutoReads, IInv, TypeOK
<1>36. ASSUME AutoYields PROVE TypeOK'
  BY <1>36 DEF AutoYields, IInv, TypeOK
<1>37. ASSUME AutoConfirms PROVE TypeOK'
  BY <1>37 DEF AutoConfirms, AutoConfirm, IInv, TypeOK, RecordInvoiceItem,
    DisbStatuses, Events, TaskInv
<1>38. ASSUME AutoEscalates PROVE TypeOK'
  BY <1>38 DEF AutoEscalates, IInv, TypeOK, DisbStatuses, Events
<1> QED BY <1>18d, <1>18e, <1>1, <1>2, <1>3, <1>4, <1>5, <1>6, <1>7, <1>8, <1>9, <1>10, <1>11,
  <1>12, <1>13, <1>14, <1>15, <1>16, <1>17, <1>18, <1>19, <1>20, <1>21, <1>22,
  <1>23, <1>24, <1>25, <1>26, <1>27, <1>28, <1>29, <1>30, <1>31, <1>32, <1>33,
  <1>34, <1>35, <1>36, <1>37, <1>38 DEF Next, AdminRequest, Provider, Webhook,
  Worker, AutoResolve

\* Only the request that took the lock is inside initiate.
LEMMA LockStep ==
    ASSUME IInv, Next PROVE LockInv'
<1>1. ASSUME NEW m \in Admins, NEW new \in Decisions, AdminReads(m, new) PROVE
  LockInv'
  BY <1>1, NobodyAssumption DEF AdminReads, Goes, Decisions, IInv, TypeOK, LockInv
<1>2. ASSUME NEW m \in Admins, AdminWrites(m) PROVE LockInv'
  BY <1>2, NobodyAssumption DEF AdminWrites, Finish, IInv, TypeOK, LockInv
<1>3. ASSUME NEW m \in Admins, InitiateFails(m) PROVE LockInv'
  BY <1>3, NobodyAssumption DEF InitiateFails, Finish, IInv, TypeOK, LockInv
<1>4. ASSUME NEW m \in Admins, NEW a \in Attempts, InitiateCalls(m, a) PROVE
  LockInv'
  BY <1>4, NobodyAssumption DEF InitiateCalls, Unused, IInv, TypeOK, LockInv
<1>5. ASSUME NEW m \in Admins, InitiateCommits(m) PROVE LockInv'
  BY <1>5, NobodyAssumption DEF InitiateCommits, InitiateWrites, Finish, IInv,
    TypeOK, LockInv
<1>6. ASSUME NEW m \in Admins, InitiateCrashes(m) PROVE LockInv'
  BY <1>6, NobodyAssumption DEF InitiateCrashes, Finish, IInv, TypeOK, LockInv
<1>7. ASSUME NEW m \in Admins, DirectReads(m) PROVE LockInv'
  BY <1>7, NobodyAssumption DEF DirectReads, Goes, IInv, TypeOK, LockInv
<1>8. ASSUME NEW m \in Admins, NEW a \in Attempts, DirectCreates(m, a) PROVE
  LockInv'
  BY <1>8, NobodyAssumption DEF DirectCreates, Unused, IInv, TypeOK, LockInv
<1>9. ASSUME NEW m \in Admins, DirectRefused(m) PROVE LockInv'
  BY <1>9, NobodyAssumption DEF DirectRefused, MarkAttemptFailed, Finish, IInv,
    TypeOK, LockInv
<1>10. ASSUME NEW m \in Admins, DirectTimesOut(m) PROVE LockInv'
  BY <1>10, NobodyAssumption DEF DirectTimesOut, MarkAttemptFailed, Finish, IInv,
    TypeOK, LockInv
<1>11. ASSUME NEW m \in Admins, DirectAccepted(m) PROVE LockInv'
  BY <1>11, NobodyAssumption DEF DirectAccepted, Goes, IInv, TypeOK, LockInv
<1>12. ASSUME NEW m \in Admins, DirectRecords(m) PROVE LockInv'
  BY <1>12, NobodyAssumption DEF DirectRecords, Finish, IInv, TypeOK, LockInv
<1>13. ASSUME NEW m \in Admins, DirectCrashes(m) PROVE LockInv'
  BY <1>13, NobodyAssumption DEF DirectCrashes, Finish, IInv, TypeOK, LockInv
<1>14. ASSUME NEW new \in LoanStatuses, GuarantorResponds(new) PROVE LockInv'
  BY <1>14 DEF GuarantorResponds, IInv, LockInv
<1>15. ASSUME Provider PROVE LockInv'
  BY <1>15 DEF Provider, ProviderSettles, ProviderRedelivers, ReplayMarkerExpires,
    IInv, LockInv
<1>16. ASSUME NEW n \in notices \cup calls, Webhook(n) PROVE LockInv'
  BY <1>16 DEF Webhook, WebhookDropsReplay, WebhookDropsSecondCall, DropsReplay,
    WebhookEnters, Acknowledges, WebhookUnknown, WebhookParks, Parks, WebhookBrokerDown,
    WebhookEnqueues, WebhookFails, IInv, LockInv
<1>17. ASSUME NEW t \in queue, Worker(t) PROVE LockInv'
  BY <1>17 DEF Worker, CallbackHasNoEffect, Takes, CallbackDisburses, Disburse,
    CallbackFails, FailDisbursement, B2CSkips, B2CProcesses, ApplyResult, IInv,
    LockInv
<1>18. ASSUME NEW t \in queue, CallbackLost(t) PROVE LockInv'
  BY <1>18 DEF CallbackLost, TaskLost, Takes, IInv, LockInv
<1>19. ASSUME ConfirmationLost PROVE LockInv'
  BY <1>19 DEF ConfirmationLost, TaskLost, IInv, LockInv
<1>20. ASSUME TimerLost PROVE LockInv'
  BY <1>20 DEF TimerLost, TaskLost, IInv, LockInv
<1>21. ASSUME SendConfirmation PROVE LockInv'
  BY <1>21 DEF SendConfirmation, AskMember, IInv, LockInv
<1>22. ASSUME DayPasses PROVE LockInv'
  BY <1>22 DEF DayPasses, IInv, LockInv
<1>23. ASSUME MemberConfirms PROVE LockInv'
  BY <1>23 DEF MemberConfirms, IInv, LockInv
<1>24. ASSUME MemberDisputes PROVE LockInv'
  BY <1>24 DEF MemberDisputes, IInv, LockInv
<1>25. ASSUME AutoResolve PROVE LockInv'
  BY <1>25 DEF AutoResolve, AutoReads, AutoYields, AutoConfirms, AutoConfirm,
    AutoEscalates, IInv, LockInv
<1> QED BY <1>1, <1>2, <1>3, <1>4, <1>5, <1>6, <1>7, <1>8, <1>9, <1>10, <1>11,
  <1>12, <1>13, <1>14, <1>15, <1>16, <1>17, <1>18, <1>19, <1>20, <1>21, <1>22,
  <1>23, <1>24, <1>25 DEF Next, AdminRequest

\* Two requests never share an attempt, and nobody changes the loan's disbursement
\* status under an open initiate: every writer waits for the lock.
LEMMA AttemptStep ==
    ASSUME IInv, Next PROVE AttemptInv'
<1>1. ASSUME NEW m \in Admins, NEW new \in Decisions, AdminReads(m, new) PROVE
  AttemptInv'
  BY <1>1, NobodyAssumption DEF AdminReads, Goes, Decisions, IInv, TypeOK, LockInv,
    AttemptInv
<1>2. ASSUME NEW m \in Admins, AdminWrites(m) PROVE AttemptInv'
  BY <1>2, NobodyAssumption DEF AdminWrites, Finish, IInv, TypeOK, LockInv,
    AttemptInv
<1>3. ASSUME NEW m \in Admins, InitiateFails(m) PROVE AttemptInv'
  BY <1>3, NobodyAssumption DEF InitiateFails, Finish, IInv, TypeOK, LockInv,
    AttemptInv
<1>4. ASSUME NEW m \in Admins, NEW a \in Attempts, InitiateCalls(m, a) PROVE
  AttemptInv'
  BY <1>4, NobodyAssumption DEF InitiateCalls, MayInitiate, Unused, IInv, TypeOK, LockInv,
    AttemptInv
<1>5. ASSUME NEW m \in Admins, InitiateCommits(m) PROVE AttemptInv'
  BY <1>5, NobodyAssumption DEF InitiateCommits, InitiateWrites, Finish, IInv,
    TypeOK, LockInv, AttemptInv
<1>6. ASSUME NEW m \in Admins, InitiateCrashes(m) PROVE AttemptInv'
  BY <1>6, NobodyAssumption DEF InitiateCrashes, Finish, IInv, TypeOK, LockInv,
    AttemptInv
<1>7. ASSUME NEW m \in Admins, DirectReads(m) PROVE AttemptInv'
  BY <1>7, NobodyAssumption DEF DirectReads, Goes, IInv, TypeOK, LockInv, AttemptInv
<1>8. ASSUME NEW m \in Admins, NEW a \in Attempts, DirectCreates(m, a) PROVE
  AttemptInv'
  BY <1>8, NobodyAssumption DEF DirectCreates, Unused, IInv, TypeOK, LockInv,
    AttemptInv
<1>9. ASSUME NEW m \in Admins, DirectRefused(m) PROVE AttemptInv'
  BY <1>9, NobodyAssumption DEF DirectRefused, MarkAttemptFailed, Finish, IInv,
    TypeOK, LockInv, AttemptInv
<1>10. ASSUME NEW m \in Admins, DirectTimesOut(m) PROVE AttemptInv'
  BY <1>10, NobodyAssumption DEF DirectTimesOut, MarkAttemptFailed, Finish, IInv,
    TypeOK, LockInv, AttemptInv
<1>11. ASSUME NEW m \in Admins, DirectAccepted(m) PROVE AttemptInv'
  BY <1>11, NobodyAssumption DEF DirectAccepted, Goes, IInv, TypeOK, LockInv,
    AttemptInv
<1>12. ASSUME NEW m \in Admins, DirectRecords(m) PROVE AttemptInv'
  BY <1>12, NobodyAssumption DEF DirectRecords, Finish, IInv, TypeOK, LockInv,
    AttemptInv
<1>13. ASSUME NEW m \in Admins, DirectCrashes(m) PROVE AttemptInv'
  BY <1>13, NobodyAssumption DEF DirectCrashes, Finish, IInv, TypeOK, LockInv,
    AttemptInv
<1>14. ASSUME NEW new \in LoanStatuses, GuarantorResponds(new) PROVE AttemptInv'
  BY <1>14 DEF GuarantorResponds, IInv, AttemptInv
<1>15. ASSUME NEW a \in Attempts, NEW ok \in BOOLEAN, ProviderSettles(a, ok) PROVE
  AttemptInv'
  BY <1>15, NobodyAssumption DEF ProviderSettles, IInv, TypeOK, LockInv, AttemptInv
<1>16. ASSUME NEW n \in accepted, ProviderRedelivers(n) PROVE AttemptInv'
  BY <1>16 DEF ProviderRedelivers, IInv, AttemptInv
<1>17. ASSUME NEW a \in Attempts, ReplayMarkerExpires(a) PROVE AttemptInv'
  BY <1>17 DEF ReplayMarkerExpires, IInv, AttemptInv
<1>18. ASSUME NEW n \in notices \cup calls, Webhook(n) PROVE AttemptInv'
  BY <1>18 DEF Webhook, WebhookDropsReplay, WebhookDropsSecondCall, DropsReplay,
    WebhookEnters, Acknowledges, WebhookUnknown, WebhookParks, Parks, WebhookBrokerDown,
    WebhookEnqueues, WebhookFails, IInv, AttemptInv
<1>19. ASSUME NEW t \in queue, CallbackHasNoEffect(t) PROVE AttemptInv'
  BY <1>19 DEF CallbackHasNoEffect, Takes, IInv, AttemptInv
<1>20. ASSUME NEW t \in queue, CallbackDisburses(t) PROVE AttemptInv'
  BY <1>20, NobodyAssumption DEF CallbackDisburses, Disburse, Takes, IInv, TypeOK,
    LockInv, AttemptInv
<1>21. ASSUME NEW t \in queue, CallbackFails(t) PROVE AttemptInv'
  BY <1>21, NobodyAssumption DEF CallbackFails, FailDisbursement, Takes, IInv,
    TypeOK, LockInv, AttemptInv
<1>22. ASSUME NEW t \in queue, B2CSkips(t) PROVE AttemptInv'
  BY <1>22 DEF B2CSkips, Takes, IInv, AttemptInv
<1>23. ASSUME NEW t \in queue, B2CProcesses(t) PROVE AttemptInv'
  BY <1>23 DEF B2CProcesses, ApplyResult, Takes, IInv, AttemptInv
<1>24. ASSUME NEW t \in queue, CallbackLost(t) PROVE AttemptInv'
  BY <1>24 DEF CallbackLost, TaskLost, Takes, IInv, AttemptInv
<1>25. ASSUME ConfirmationLost PROVE AttemptInv'
  BY <1>25 DEF ConfirmationLost, TaskLost, IInv, AttemptInv
<1>26. ASSUME TimerLost PROVE AttemptInv'
  BY <1>26 DEF TimerLost, TaskLost, IInv, AttemptInv
<1>27. ASSUME SendConfirmation PROVE AttemptInv'
  BY <1>27 DEF SendConfirmation, AskMember, IInv, AttemptInv
<1>28. ASSUME DayPasses PROVE AttemptInv'
  BY <1>28 DEF DayPasses, IInv, AttemptInv
<1>29. ASSUME MemberConfirms PROVE AttemptInv'
  BY <1>29, NobodyAssumption DEF MemberConfirms, IInv, TypeOK, LockInv, AttemptInv
<1>30. ASSUME MemberDisputes PROVE AttemptInv'
  BY <1>30, NobodyAssumption DEF MemberDisputes, IInv, TypeOK, LockInv, AttemptInv
<1>31. ASSUME AutoReads PROVE AttemptInv'
  BY <1>31 DEF AutoReads, IInv, AttemptInv
<1>32. ASSUME AutoYields PROVE AttemptInv'
  BY <1>32 DEF AutoYields, IInv, AttemptInv
<1>33. ASSUME AutoConfirms PROVE AttemptInv'
  BY <1>33, NobodyAssumption DEF AutoConfirms, AutoConfirm, IInv, TypeOK, LockInv,
    AttemptInv
<1>34. ASSUME AutoEscalates PROVE AttemptInv'
  BY <1>34, NobodyAssumption DEF AutoEscalates, IInv, TypeOK, LockInv, AttemptInv
<1> QED BY <1>1, <1>2, <1>3, <1>4, <1>5, <1>6, <1>7, <1>8, <1>9, <1>10, <1>11,
  <1>12, <1>13, <1>14, <1>15, <1>16, <1>17, <1>18, <1>19, <1>20, <1>21, <1>22,
  <1>23, <1>24, <1>25, <1>26, <1>27, <1>28, <1>29, <1>30, <1>31, <1>32, <1>33, <1>34
  DEF Next, AdminRequest, Provider, Worker, AutoResolve

\* disbursement_status never returns to PENDING, so initiate passes its guard once.
LEMMA ServiceStep ==
    ASSUME IInv, Next PROVE ServiceInv'
<1>1. ASSUME NEW m \in Admins, NEW new \in Decisions, AdminReads(m, new) PROVE
  ServiceInv'
  BY <1>1 DEF AdminReads, Goes, IInv, ServiceInv, ServiceAttempts
<1>2. ASSUME NEW m \in Admins, AdminWrites(m) PROVE ServiceInv'
  BY <1>2 DEF AdminWrites, Finish, IInv, ServiceInv, ServiceAttempts
<1>3. ASSUME NEW m \in Admins, InitiateFails(m) PROVE ServiceInv'
  BY <1>3 DEF InitiateFails, Finish, IInv, ServiceInv, ServiceAttempts
<1>4. ASSUME NEW m \in Admins, NEW a \in Attempts, InitiateCalls(m, a) PROVE
  ServiceInv'
  BY <1>4 DEF InitiateCalls, Unused, IInv, ServiceInv, ServiceAttempts
<1>5. ASSUME NEW m \in Admins, InitiateCommits(m) PROVE ServiceInv'
  BY <1>5, NoTxAssumption DEF InitiateCommits, InitiateWrites, Finish, IInv, TypeOK,
    AttemptInv, ServiceInv, ServiceAttempts
<1>6. ASSUME NEW m \in Admins, InitiateCrashes(m) PROVE ServiceInv'
  BY <1>6 DEF InitiateCrashes, Finish, IInv, ServiceInv, ServiceAttempts
<1>7. ASSUME NEW m \in Admins, DirectReads(m) PROVE ServiceInv'
  BY <1>7 DEF DirectReads, Goes, IInv, ServiceInv, ServiceAttempts
<1>8. ASSUME NEW m \in Admins, NEW a \in Attempts, DirectCreates(m, a) PROVE
  ServiceInv'
  BY <1>8 DEF DirectCreates, Unused, IInv, TypeOK, AttemptInv, ServiceInv,
    ServiceAttempts
<1>9. ASSUME NEW m \in Admins, DirectRefused(m) PROVE ServiceInv'
  BY <1>9 DEF DirectRefused, MarkAttemptFailed, Finish, IInv, ServiceInv,
    ServiceAttempts
<1>10. ASSUME NEW m \in Admins, DirectTimesOut(m) PROVE ServiceInv'
  BY <1>10 DEF DirectTimesOut, MarkAttemptFailed, Finish, IInv, ServiceInv,
    ServiceAttempts
<1>11. ASSUME NEW m \in Admins, DirectAccepted(m) PROVE ServiceInv'
  BY <1>11 DEF DirectAccepted, Goes, IInv, ServiceInv, ServiceAttempts
<1>12. ASSUME NEW m \in Admins, DirectRecords(m) PROVE ServiceInv'
  BY <1>12 DEF DirectRecords, Finish, IInv, ServiceInv, ServiceAttempts
<1>13. ASSUME NEW m \in Admins, DirectCrashes(m) PROVE ServiceInv'
  BY <1>13 DEF DirectCrashes, Finish, IInv, ServiceInv, ServiceAttempts
<1>14. ASSUME NEW new \in LoanStatuses, GuarantorResponds(new) PROVE ServiceInv'
  BY <1>14 DEF GuarantorResponds, IInv, ServiceInv, ServiceAttempts
<1>15. ASSUME Provider PROVE ServiceInv'
  BY <1>15 DEF Provider, ProviderSettles, ProviderRedelivers, ReplayMarkerExpires,
    IInv, ServiceInv, ServiceAttempts
<1>16. ASSUME NEW n \in notices \cup calls, Webhook(n) PROVE ServiceInv'
  BY <1>16 DEF Webhook, WebhookDropsReplay, WebhookDropsSecondCall, DropsReplay,
    WebhookEnters, Acknowledges, WebhookUnknown, WebhookParks, Parks, WebhookBrokerDown,
    WebhookEnqueues, WebhookFails, IInv, ServiceInv, ServiceAttempts
<1>17. ASSUME NEW t \in queue, CallbackHasNoEffect(t) PROVE ServiceInv'
  BY <1>17 DEF CallbackHasNoEffect, Takes, IInv, ServiceInv, ServiceAttempts
<1>18. ASSUME NEW t \in queue, CallbackDisburses(t) PROVE ServiceInv'
  BY <1>18 DEF CallbackDisburses, Disburse, Takes, IInv, TypeOK, AttemptInv,
    ServiceInv, ServiceAttempts
<1>19. ASSUME NEW t \in queue, CallbackFails(t) PROVE ServiceInv'
  BY <1>19 DEF CallbackFails, FailDisbursement, Takes, IInv, TypeOK, AttemptInv,
    ServiceInv, ServiceAttempts
<1>20. ASSUME NEW t \in queue, B2CSkips(t) PROVE ServiceInv'
  BY <1>20 DEF B2CSkips, Takes, IInv, ServiceInv, ServiceAttempts
<1>21. ASSUME NEW t \in queue, B2CProcesses(t) PROVE ServiceInv'
  BY <1>21 DEF B2CProcesses, ApplyResult, Takes, IInv, ServiceInv, ServiceAttempts
<1>22. ASSUME NEW t \in queue, CallbackLost(t) PROVE ServiceInv'
  BY <1>22 DEF CallbackLost, TaskLost, Takes, IInv, ServiceInv, ServiceAttempts
<1>23. ASSUME ConfirmationLost PROVE ServiceInv'
  BY <1>23 DEF ConfirmationLost, TaskLost, IInv, ServiceInv, ServiceAttempts
<1>24. ASSUME TimerLost PROVE ServiceInv'
  BY <1>24 DEF TimerLost, TaskLost, IInv, ServiceInv, ServiceAttempts
<1>25. ASSUME SendConfirmation PROVE ServiceInv'
  BY <1>25 DEF SendConfirmation, AskMember, IInv, ServiceInv, ServiceAttempts
<1>26. ASSUME DayPasses PROVE ServiceInv'
  BY <1>26 DEF DayPasses, IInv, ServiceInv, ServiceAttempts
<1>27. ASSUME MemberConfirms PROVE ServiceInv'
  BY <1>27 DEF MemberConfirms, IInv, TypeOK, AttemptInv, ServiceInv, ServiceAttempts
<1>28. ASSUME MemberDisputes PROVE ServiceInv'
  BY <1>28 DEF MemberDisputes, IInv, TypeOK, AttemptInv, ServiceInv, ServiceAttempts
<1>29. ASSUME AutoReads PROVE ServiceInv'
  BY <1>29 DEF AutoReads, IInv, ServiceInv, ServiceAttempts
<1>30. ASSUME AutoYields PROVE ServiceInv'
  BY <1>30 DEF AutoYields, IInv, ServiceInv, ServiceAttempts
<1>31. ASSUME AutoConfirms PROVE ServiceInv'
  BY <1>31 DEF AutoConfirms, AutoConfirm, IInv, TypeOK, AttemptInv, ServiceInv,
    ServiceAttempts
<1>32. ASSUME AutoEscalates PROVE ServiceInv'
  BY <1>32 DEF AutoEscalates, IInv, TypeOK, AttemptInv, ServiceInv, ServiceAttempts
<1> QED BY <1>1, <1>2, <1>3, <1>4, <1>5, <1>6, <1>7, <1>8, <1>9, <1>10, <1>11,
  <1>12, <1>13, <1>14, <1>15, <1>16, <1>17, <1>18, <1>19, <1>20, <1>21, <1>22,
  <1>23, <1>24, <1>25, <1>26, <1>27, <1>28, <1>29, <1>30, <1>31, <1>32 DEF Next,
  AdminRequest, Worker, AutoResolve

\* A task or a link that relies on loan.disbursement_transaction is made after it.
LEMMA TaskStep ==
    ASSUME IInv, Next PROVE TaskInv'
<1>1. ASSUME NEW m \in Admins, NEW new \in Decisions, AdminReads(m, new) PROVE
  TaskInv'
  BY <1>1 DEF AdminReads, Goes, IInv, TaskInv
<1>2. ASSUME NEW m \in Admins, AdminWrites(m) PROVE TaskInv'
  BY <1>2 DEF AdminWrites, Finish, IInv, TaskInv
<1>3. ASSUME NEW m \in Admins, InitiateFails(m) PROVE TaskInv'
  BY <1>3 DEF InitiateFails, Finish, IInv, TaskInv
<1>4. ASSUME NEW m \in Admins, NEW a \in Attempts, InitiateCalls(m, a) PROVE
  TaskInv'
  BY <1>4 DEF InitiateCalls, Unused, IInv, TaskInv
<1>5. ASSUME NEW m \in Admins, InitiateCommits(m) PROVE TaskInv'
  BY <1>5, NoTxAssumption DEF InitiateCommits, InitiateWrites, Finish, IInv, TypeOK,
    AttemptInv, TaskInv
<1>6. ASSUME NEW m \in Admins, InitiateCrashes(m) PROVE TaskInv'
  BY <1>6 DEF InitiateCrashes, Finish, IInv, TaskInv
<1>7. ASSUME NEW m \in Admins, DirectReads(m) PROVE TaskInv'
  BY <1>7 DEF DirectReads, Goes, IInv, TaskInv
<1>8. ASSUME NEW m \in Admins, NEW a \in Attempts, DirectCreates(m, a) PROVE
  TaskInv'
  BY <1>8 DEF DirectCreates, Unused, IInv, TaskInv
<1>9. ASSUME NEW m \in Admins, DirectRefused(m) PROVE TaskInv'
  BY <1>9 DEF DirectRefused, MarkAttemptFailed, Finish, IInv, TaskInv
<1>10. ASSUME NEW m \in Admins, DirectTimesOut(m) PROVE TaskInv'
  BY <1>10 DEF DirectTimesOut, MarkAttemptFailed, Finish, IInv, TaskInv
<1>11. ASSUME NEW m \in Admins, DirectAccepted(m) PROVE TaskInv'
  BY <1>11 DEF DirectAccepted, Goes, IInv, TaskInv
<1>12. ASSUME NEW m \in Admins, DirectRecords(m) PROVE TaskInv'
  BY <1>12 DEF DirectRecords, Finish, IInv, TaskInv
<1>13. ASSUME NEW m \in Admins, DirectCrashes(m) PROVE TaskInv'
  BY <1>13 DEF DirectCrashes, Finish, IInv, TaskInv
<1>14. ASSUME NEW new \in LoanStatuses, GuarantorResponds(new) PROVE TaskInv'
  BY <1>14 DEF GuarantorResponds, IInv, TaskInv
<1>15. ASSUME Provider PROVE TaskInv'
  BY <1>15 DEF Provider, ProviderSettles, ProviderRedelivers, ReplayMarkerExpires,
    IInv, TaskInv
<1>16. ASSUME NEW n \in notices \cup calls,
             WebhookDropsReplay(n) \/ WebhookDropsSecondCall(n)
      PROVE  TaskInv'
  BY <1>16, BoundsAssumption DEF WebhookDropsReplay, WebhookDropsSecondCall,
    DropsReplay, Fault, Acknowledges, IInv, TaskInv
<1>16e. ASSUME NEW n \in notices \cup calls, WebhookEnters(n) PROVE TaskInv'
  BY <1>16e DEF WebhookEnters, IInv, TaskInv
<1>17. ASSUME NEW n \in notices \cup calls, WebhookUnknown(n) PROVE TaskInv'
  BY <1>17 DEF WebhookUnknown, WebhookParks, Parks, IInv, TaskInv
<1>18. ASSUME NEW n \in notices \cup calls, WebhookBrokerDown(n) PROVE TaskInv'
  BY <1>18 DEF WebhookBrokerDown, WebhookParks, Parks, IInv, TaskInv
<1>19. ASSUME NEW n \in notices \cup calls, WebhookEnqueues(n) PROVE TaskInv'
  BY <1>19, NoTxAssumption DEF WebhookEnqueues, Acknowledges, IInv, TypeOK,
    AttemptInv, TaskInv
<1>20. ASSUME NEW n \in notices \cup calls, WebhookFails(n) PROVE TaskInv'
  BY <1>20 DEF WebhookFails, IInv, TaskInv
<1>21. ASSUME NEW t \in queue, CallbackHasNoEffect(t) PROVE TaskInv'
  BY <1>21 DEF CallbackHasNoEffect, Takes, IInv, TaskInv
<1>22. ASSUME NEW t \in queue, CallbackDisburses(t) PROVE TaskInv'
  BY <1>22, NoTxAssumption DEF CallbackDisburses, Disburse, Takes, IInv, TypeOK,
    AttemptInv, TaskInv
<1>23. ASSUME NEW t \in queue, CallbackFails(t) PROVE TaskInv'
  BY <1>23 DEF CallbackFails, FailDisbursement, Takes, IInv, TaskInv
<1>24. ASSUME NEW t \in queue, B2CSkips(t) PROVE TaskInv'
  BY <1>24 DEF B2CSkips, Takes, IInv, TaskInv
<1>25. ASSUME NEW t \in queue, B2CProcesses(t) PROVE TaskInv'
  BY <1>25 DEF B2CProcesses, ApplyResult, Takes, IInv, TaskInv
<1>26. ASSUME NEW t \in queue, CallbackLost(t) PROVE TaskInv'
  BY <1>26 DEF CallbackLost, TaskLost, Takes, IInv, TaskInv
<1>27. ASSUME ConfirmationLost PROVE TaskInv'
  BY <1>27 DEF ConfirmationLost, TaskLost, IInv, TaskInv
<1>28. ASSUME TimerLost PROVE TaskInv'
  BY <1>28 DEF TimerLost, TaskLost, IInv, TaskInv
<1>29. ASSUME SendConfirmation PROVE TaskInv'
  BY <1>29, NoTxAssumption DEF SendConfirmation, AskMember, IInv, TypeOK,
    AttemptInv, TaskInv
<1>30. ASSUME DayPasses PROVE TaskInv'
  BY <1>30, NoTxAssumption DEF DayPasses, IInv, TypeOK, AttemptInv, TaskInv
<1>31. ASSUME MemberConfirms PROVE TaskInv'
  BY <1>31 DEF MemberConfirms, IInv, TaskInv
<1>32. ASSUME MemberDisputes PROVE TaskInv'
  BY <1>32 DEF MemberDisputes, IInv, TaskInv
<1>33. ASSUME AutoReads PROVE TaskInv'
  BY <1>33, NoTxAssumption DEF AutoReads, IInv, TypeOK, AttemptInv, TaskInv
<1>34. ASSUME AutoYields PROVE TaskInv'
  BY <1>34 DEF AutoYields, IInv, TaskInv
<1>35. ASSUME AutoConfirms PROVE TaskInv'
  BY <1>35 DEF AutoConfirms, AutoConfirm, IInv, TaskInv
<1>36. ASSUME AutoEscalates PROVE TaskInv'
  BY <1>36 DEF AutoEscalates, IInv, TaskInv
<1> QED BY <1>16e, <1>1, <1>2, <1>3, <1>4, <1>5, <1>6, <1>7, <1>8, <1>9, <1>10, <1>11,
  <1>12, <1>13, <1>14, <1>15, <1>16, <1>17, <1>18, <1>19, <1>20, <1>21, <1>22,
  <1>23, <1>24, <1>25, <1>26, <1>27, <1>28, <1>29, <1>30, <1>31, <1>32, <1>33,
  <1>34, <1>35, <1>36 DEF Next, AdminRequest, Webhook, Worker, AutoResolve

\* Success is reported after the payout, which is never taken back.
LEMMA ResultStep ==
    ASSUME IInv, Next PROVE ResultInv'
<1>1. ASSUME NEW m \in Admins, NEW new \in Decisions, AdminReads(m, new) PROVE
  ResultInv'
  BY <1>1 DEF AdminReads, Goes, IInv, ResultInv
<1>2. ASSUME NEW m \in Admins, AdminWrites(m) PROVE ResultInv'
  BY <1>2 DEF AdminWrites, Finish, IInv, ResultInv
<1>3. ASSUME NEW m \in Admins, InitiateFails(m) PROVE ResultInv'
  BY <1>3 DEF InitiateFails, Finish, IInv, ResultInv
<1>4. ASSUME NEW m \in Admins, NEW a \in Attempts, InitiateCalls(m, a) PROVE
  ResultInv'
  BY <1>4 DEF InitiateCalls, Unused, IInv, TypeOK, Notices, Tasks, AttemptInv,
    ResultInv
<1>5. ASSUME NEW m \in Admins, InitiateCommits(m) PROVE ResultInv'
  BY <1>5 DEF InitiateCommits, InitiateWrites, Finish, IInv, ResultInv
<1>6. ASSUME NEW m \in Admins, InitiateCrashes(m) PROVE ResultInv'
  BY <1>6 DEF InitiateCrashes, Finish, IInv, ResultInv
<1>7. ASSUME NEW m \in Admins, DirectReads(m) PROVE ResultInv'
  BY <1>7 DEF DirectReads, Goes, IInv, ResultInv
<1>8. ASSUME NEW m \in Admins, NEW a \in Attempts, DirectCreates(m, a) PROVE
  ResultInv'
  BY <1>8 DEF DirectCreates, Unused, IInv, ResultInv
<1>9. ASSUME NEW m \in Admins, DirectRefused(m) PROVE ResultInv'
  BY <1>9 DEF DirectRefused, MarkAttemptFailed, Finish, IInv, ResultInv
<1>10. ASSUME NEW m \in Admins, DirectTimesOut(m) PROVE ResultInv'
  BY <1>10 DEF DirectTimesOut, MarkAttemptFailed, Finish, IInv, TypeOK, Notices,
    Tasks, AttemptInv, ResultInv
<1>11. ASSUME NEW m \in Admins, DirectAccepted(m) PROVE ResultInv'
  BY <1>11 DEF DirectAccepted, Goes, IInv, TypeOK, Notices, Tasks, AttemptInv,
    ResultInv
<1>12. ASSUME NEW m \in Admins, DirectRecords(m) PROVE ResultInv'
  BY <1>12 DEF DirectRecords, Finish, IInv, ResultInv
<1>13. ASSUME NEW m \in Admins, DirectCrashes(m) PROVE ResultInv'
  BY <1>13 DEF DirectCrashes, Finish, IInv, ResultInv
<1>14. ASSUME NEW new \in LoanStatuses, GuarantorResponds(new) PROVE ResultInv'
  BY <1>14 DEF GuarantorResponds, IInv, ResultInv
<1>15. ASSUME NEW a \in Attempts, NEW ok \in BOOLEAN, ProviderSettles(a, ok) PROVE
  ResultInv'
  BY <1>15 DEF ProviderSettles, IInv, TypeOK, Notices, Tasks, AttemptInv, ResultInv
<1>16. ASSUME NEW n \in accepted, ProviderRedelivers(n) PROVE ResultInv'
  BY <1>16 DEF ProviderRedelivers, IInv, ResultInv
<1>17. ASSUME NEW a \in Attempts, ReplayMarkerExpires(a) PROVE ResultInv'
  BY <1>17 DEF ReplayMarkerExpires, IInv, ResultInv
<1>18. ASSUME NEW n \in notices \cup calls,
             WebhookDropsReplay(n) \/ WebhookDropsSecondCall(n)
      PROVE  ResultInv'
  BY <1>18, BoundsAssumption DEF WebhookDropsReplay, WebhookDropsSecondCall,
    DropsReplay, Fault, Acknowledges, IInv, ResultInv
<1>18e. ASSUME NEW n \in notices \cup calls, WebhookEnters(n) PROVE ResultInv'
  BY <1>18e DEF WebhookEnters, IInv, ResultInv
<1>19. ASSUME NEW n \in notices \cup calls, WebhookUnknown(n) PROVE ResultInv'
  BY <1>19 DEF WebhookUnknown, WebhookParks, Parks, IInv, ResultInv
<1>20. ASSUME NEW n \in notices \cup calls, WebhookBrokerDown(n) PROVE ResultInv'
  BY <1>20 DEF WebhookBrokerDown, WebhookParks, Parks, IInv, ResultInv
<1>21. ASSUME NEW n \in notices \cup calls, WebhookEnqueues(n) PROVE ResultInv'
  BY <1>21 DEF WebhookEnqueues, Acknowledges, IInv, TypeOK, Notices, Tasks,
    AttemptInv, ResultInv
<1>22. ASSUME NEW n \in notices \cup calls, WebhookFails(n) PROVE ResultInv'
  BY <1>22 DEF WebhookFails, IInv, ResultInv
<1>23. ASSUME NEW t \in queue, Worker(t) PROVE ResultInv'
  BY <1>23 DEF Worker, CallbackHasNoEffect, Takes, CallbackDisburses, Disburse,
    CallbackFails, FailDisbursement, B2CSkips, B2CProcesses, ApplyResult, IInv,
    ResultInv
<1>24. ASSUME NEW t \in queue, CallbackLost(t) PROVE ResultInv'
  BY <1>24 DEF CallbackLost, TaskLost, Takes, IInv, ResultInv
<1>25. ASSUME ConfirmationLost PROVE ResultInv'
  BY <1>25 DEF ConfirmationLost, TaskLost, IInv, ResultInv
<1>26. ASSUME TimerLost PROVE ResultInv'
  BY <1>26 DEF TimerLost, TaskLost, IInv, ResultInv
<1>27. ASSUME SendConfirmation PROVE ResultInv'
  BY <1>27 DEF SendConfirmation, AskMember, IInv, ResultInv
<1>28. ASSUME DayPasses PROVE ResultInv'
  BY <1>28 DEF DayPasses, IInv, ResultInv
<1>29. ASSUME MemberConfirms PROVE ResultInv'
  BY <1>29 DEF MemberConfirms, IInv, ResultInv
<1>30. ASSUME MemberDisputes PROVE ResultInv'
  BY <1>30 DEF MemberDisputes, IInv, ResultInv
<1>31. ASSUME AutoResolve PROVE ResultInv'
  BY <1>31 DEF AutoResolve, AutoReads, AutoYields, AutoConfirms, AutoConfirm,
    AutoEscalates, IInv, ResultInv
<1> QED BY <1>18e, <1>1, <1>2, <1>3, <1>4, <1>5, <1>6, <1>7, <1>8, <1>9, <1>10, <1>11,
  <1>12, <1>13, <1>14, <1>15, <1>16, <1>17, <1>18, <1>19, <1>20, <1>21, <1>22,
  <1>23, <1>24, <1>25, <1>26, <1>27, <1>28, <1>29, <1>30, <1>31 DEF Next,
  AdminRequest, Provider, Webhook

\* Only a success result makes a loan ACTIVE.
LEMMA ActiveStep ==
    ASSUME IInv, Next PROVE ActiveLoanWasPaid'
<1>1. ASSUME NEW m \in Admins, NEW new \in Decisions, AdminReads(m, new) PROVE
  ActiveLoanWasPaid'
  BY <1>1 DEF AdminReads, Goes, IInv, TypeOK, Tasks, AttemptInv, ResultInv,
    ActiveLoanWasPaid, Paid
<1>2. ASSUME NEW m \in Admins, AdminWrites(m) PROVE ActiveLoanWasPaid'
  BY <1>2 DEF AdminWrites, Finish, IInv, TypeOK, Tasks, AttemptInv, ResultInv,
    ActiveLoanWasPaid, Paid, Decisions
<1>3. ASSUME NEW m \in Admins, InitiateFails(m) PROVE ActiveLoanWasPaid'
  BY <1>3 DEF InitiateFails, Finish, IInv, TypeOK, Tasks, AttemptInv, ResultInv,
    ActiveLoanWasPaid, Paid
<1>4. ASSUME NEW m \in Admins, NEW a \in Attempts, InitiateCalls(m, a) PROVE
  ActiveLoanWasPaid'
  BY <1>4 DEF InitiateCalls, Unused, IInv, TypeOK, Tasks, AttemptInv, ResultInv,
    ActiveLoanWasPaid, Paid
<1>5. ASSUME NEW m \in Admins, InitiateCommits(m) PROVE ActiveLoanWasPaid'
  BY <1>5 DEF InitiateCommits, InitiateWrites, Finish, IInv, TypeOK, Tasks,
    AttemptInv, ResultInv, ActiveLoanWasPaid, Paid
<1>6. ASSUME NEW m \in Admins, InitiateCrashes(m) PROVE ActiveLoanWasPaid'
  BY <1>6 DEF InitiateCrashes, Finish, IInv, TypeOK, Tasks, AttemptInv, ResultInv,
    ActiveLoanWasPaid, Paid
<1>7. ASSUME NEW m \in Admins, DirectReads(m) PROVE ActiveLoanWasPaid'
  BY <1>7 DEF DirectReads, Goes, IInv, TypeOK, Tasks, AttemptInv, ResultInv,
    ActiveLoanWasPaid, Paid
<1>8. ASSUME NEW m \in Admins, NEW a \in Attempts, DirectCreates(m, a) PROVE
  ActiveLoanWasPaid'
  BY <1>8 DEF DirectCreates, Unused, IInv, TypeOK, Tasks, AttemptInv, ResultInv,
    ActiveLoanWasPaid, Paid
<1>9. ASSUME NEW m \in Admins, DirectRefused(m) PROVE ActiveLoanWasPaid'
  BY <1>9 DEF DirectRefused, MarkAttemptFailed, Finish, IInv, TypeOK, Tasks,
    AttemptInv, ResultInv, ActiveLoanWasPaid, Paid
<1>10. ASSUME NEW m \in Admins, DirectTimesOut(m) PROVE ActiveLoanWasPaid'
  BY <1>10 DEF DirectTimesOut, MarkAttemptFailed, Finish, IInv, TypeOK, Tasks,
    AttemptInv, ResultInv, ActiveLoanWasPaid, Paid
<1>11. ASSUME NEW m \in Admins, DirectAccepted(m) PROVE ActiveLoanWasPaid'
  BY <1>11 DEF DirectAccepted, Goes, IInv, TypeOK, Tasks, AttemptInv, ResultInv,
    ActiveLoanWasPaid, Paid
<1>12. ASSUME NEW m \in Admins, DirectRecords(m) PROVE ActiveLoanWasPaid'
  BY <1>12 DEF DirectRecords, Finish, IInv, TypeOK, Tasks, AttemptInv, ResultInv,
    ActiveLoanWasPaid, Paid
<1>13. ASSUME NEW m \in Admins, DirectCrashes(m) PROVE ActiveLoanWasPaid'
  BY <1>13 DEF DirectCrashes, Finish, IInv, TypeOK, Tasks, AttemptInv, ResultInv,
    ActiveLoanWasPaid, Paid
<1>14. ASSUME NEW new \in LoanStatuses, GuarantorResponds(new) PROVE
  ActiveLoanWasPaid'
  BY <1>14 DEF GuarantorResponds, IInv, TypeOK, Tasks, AttemptInv, ResultInv,
    ActiveLoanWasPaid, Paid
<1>15. ASSUME NEW a \in Attempts, NEW ok \in BOOLEAN, ProviderSettles(a, ok) PROVE
  ActiveLoanWasPaid'
  BY <1>15 DEF ProviderSettles, IInv, TypeOK, Tasks, AttemptInv, ResultInv,
    ActiveLoanWasPaid, Paid
<1>16. ASSUME NEW n \in accepted, ProviderRedelivers(n) PROVE ActiveLoanWasPaid'
  BY <1>16 DEF ProviderRedelivers, IInv, ActiveLoanWasPaid, Paid
<1>17. ASSUME NEW a \in Attempts, ReplayMarkerExpires(a) PROVE ActiveLoanWasPaid'
  BY <1>17 DEF ReplayMarkerExpires, IInv, ActiveLoanWasPaid, Paid
<1>18. ASSUME NEW n \in notices \cup calls, Webhook(n) PROVE ActiveLoanWasPaid'
  BY <1>18 DEF Webhook, WebhookDropsReplay, WebhookDropsSecondCall, DropsReplay,
    WebhookEnters, Acknowledges, WebhookUnknown, WebhookParks, Parks, WebhookBrokerDown,
    WebhookEnqueues, WebhookFails, IInv, ActiveLoanWasPaid, Paid
<1>19. ASSUME NEW t \in queue, CallbackHasNoEffect(t) PROVE ActiveLoanWasPaid'
  BY <1>19 DEF CallbackHasNoEffect, Takes, IInv, ActiveLoanWasPaid, Paid
<1>20. ASSUME NEW t \in queue, CallbackDisburses(t) PROVE ActiveLoanWasPaid'
  BY <1>20 DEF CallbackDisburses, Disburse, Takes, IInv, TypeOK, Tasks, AttemptInv,
    ResultInv, ActiveLoanWasPaid, Paid
<1>21. ASSUME NEW t \in queue, CallbackFails(t) PROVE ActiveLoanWasPaid'
  BY <1>21 DEF CallbackFails, FailDisbursement, Takes, IInv, ActiveLoanWasPaid, Paid
<1>22. ASSUME NEW t \in queue, B2CSkips(t) PROVE ActiveLoanWasPaid'
  BY <1>22 DEF B2CSkips, Takes, IInv, ActiveLoanWasPaid, Paid
<1>23. ASSUME NEW t \in queue, B2CProcesses(t) PROVE ActiveLoanWasPaid'
  BY <1>23 DEF B2CProcesses, ApplyResult, Takes, IInv, TypeOK, Tasks, AttemptInv,
    ResultInv, ActiveLoanWasPaid, Paid
<1>24. ASSUME NEW t \in queue, CallbackLost(t) PROVE ActiveLoanWasPaid'
  BY <1>24 DEF CallbackLost, TaskLost, Takes, IInv, ActiveLoanWasPaid, Paid
<1>25. ASSUME ConfirmationLost PROVE ActiveLoanWasPaid'
  BY <1>25 DEF ConfirmationLost, TaskLost, IInv, ActiveLoanWasPaid, Paid
<1>26. ASSUME TimerLost PROVE ActiveLoanWasPaid'
  BY <1>26 DEF TimerLost, TaskLost, IInv, ActiveLoanWasPaid, Paid
<1>27. ASSUME SendConfirmation PROVE ActiveLoanWasPaid'
  BY <1>27 DEF SendConfirmation, AskMember, IInv, ActiveLoanWasPaid, Paid
<1>28. ASSUME DayPasses PROVE ActiveLoanWasPaid'
  BY <1>28 DEF DayPasses, IInv, ActiveLoanWasPaid, Paid
<1>29. ASSUME MemberConfirms PROVE ActiveLoanWasPaid'
  BY <1>29 DEF MemberConfirms, IInv, ActiveLoanWasPaid, Paid
<1>30. ASSUME MemberDisputes PROVE ActiveLoanWasPaid'
  BY <1>30 DEF MemberDisputes, IInv, ActiveLoanWasPaid, Paid
<1>31. ASSUME AutoResolve PROVE ActiveLoanWasPaid'
  BY <1>31 DEF AutoResolve, AutoReads, AutoYields, AutoConfirms, AutoConfirm,
    AutoEscalates, IInv, ActiveLoanWasPaid, Paid
<1> QED BY <1>1, <1>2, <1>3, <1>4, <1>5, <1>6, <1>7, <1>8, <1>9, <1>10, <1>11,
  <1>12, <1>13, <1>14, <1>15, <1>16, <1>17, <1>18, <1>19, <1>20, <1>21, <1>22,
  <1>23, <1>24, <1>25, <1>26, <1>27, <1>28, <1>29, <1>30, <1>31 DEF Next,
  AdminRequest, Provider, Worker

\* A step that changes no variable keeps IInv.
LEMMA StutterStep == ASSUME IInv, UNCHANGED vars PROVE IInv'
<1>1. TypeOK' /\ LockInv' /\ AttemptInv'
  BY DEF IInv, vars, TypeOK, LockInv, AttemptInv
<1>2. ServiceInv' /\ TaskInv' /\ ResultInv' /\ ActiveLoanWasPaid'
  BY DEF IInv, vars, ServiceInv, ServiceAttempts, TaskInv, ResultInv,
         ActiveLoanWasPaid, Paid
<1> QED BY <1>1, <1>2 DEF IInv

\* Every step keeps it.
LEMMA StepIInv == IInv /\ [Next]_vars => IInv'
<1>1. ASSUME IInv, Next PROVE IInv'
  BY <1>1, TypeStep, LockStep, AttemptStep, ServiceStep, TaskStep, ResultStep,
     ActiveStep DEF IInv
<1> QED BY <1>1, StutterStep

\* The inductive invariant holds in every reachable state.
THEOREM Invariance == Spec => []IInv
BY InitIInv, StepIInv, PTL DEF Spec

\* Type correctness of every row, message and task of the disbursement pipeline.
THEOREM TypeCorrect == Spec => []TypeOK
<1>1. IInv => TypeOK
  BY DEF IInv
<1> QED BY Invariance, <1>1, PTL

\* A loan is ACTIVE only if the provider paid some attempt of it: for every mix of
\* endpoints, any number of admins and attempts, redelivered callbacks and faults.
THEOREM ActiveOnlyIfPaid == Spec => []ActiveLoanWasPaid
<1>1. IInv => ActiveLoanWasPaid
  BY DEF IInv
<1> QED BY Invariance, <1>1, PTL

\* DisbursementService never commits a second attempt for a loan.
THEOREM ServiceOnce == Spec => []ServiceInitiatesOnce
<1>1. IInv => ServiceInitiatesOnce
  BY DEF IInv, ServiceInv, ServiceInitiatesOnce
<1> QED BY Invariance, <1>1, PTL

-----------------------------------------------------------------------------
(* With the status endpoint alone.                                         *)

\* Every result is about loan.disbursement_transaction, and money precedes the
\* request for a confirmation, the answer and the fee.
LEMMA StatusStep ==
    ASSUME DirectUnused, IInv, StatusInv, Next PROVE StatusInv'
<1>1. ASSUME NEW m \in Admins, NEW new \in Decisions, AdminReads(m, new) PROVE
  StatusInv'
  BY <1>1, NoTxAssumption DEF AdminReads, Goes, IInv, TypeOK, Notices, Tasks,
    AttemptInv, ServiceInv, ServiceAttempts, TaskInv, ResultInv, StatusInv,
    FeeOnlyForDeliveredMoney, Paid, Decisions
<1>2. ASSUME NEW m \in Admins, AdminWrites(m) PROVE StatusInv'
  BY <1>2, NoTxAssumption DEF AdminWrites, Finish, IInv, TypeOK, Notices, Tasks,
    AttemptInv, ServiceInv, ServiceAttempts, TaskInv, ResultInv, StatusInv,
    FeeOnlyForDeliveredMoney, Paid
<1>3. ASSUME NEW m \in Admins, InitiateFails(m) PROVE StatusInv'
  BY <1>3, NoTxAssumption DEF InitiateFails, Finish, IInv, TypeOK, Notices, Tasks,
    AttemptInv, ServiceInv, ServiceAttempts, TaskInv, ResultInv, StatusInv,
    FeeOnlyForDeliveredMoney, Paid
<1>4. ASSUME NEW m \in Admins, NEW a \in Attempts, InitiateCalls(m, a) PROVE
  StatusInv'
  BY <1>4, NoTxAssumption DEF InitiateCalls, Unused, IInv, TypeOK, Notices, Tasks,
    AttemptInv, ServiceInv, ServiceAttempts, TaskInv, ResultInv, StatusInv,
    FeeOnlyForDeliveredMoney, Paid
<1>5. ASSUME NEW m \in Admins, InitiateCommits(m) PROVE StatusInv'
  BY <1>5, NoTxAssumption DEF InitiateCommits, InitiateWrites, Finish, IInv, TypeOK,
    Notices, Tasks, AttemptInv, ServiceInv, ServiceAttempts, TaskInv, ResultInv,
    StatusInv, FeeOnlyForDeliveredMoney, Paid
<1>6. ASSUME NEW m \in Admins, InitiateCrashes(m) PROVE StatusInv'
  BY <1>6, NoTxAssumption DEF InitiateCrashes, Finish, IInv, TypeOK, Notices, Tasks,
    AttemptInv, ServiceInv, ServiceAttempts, TaskInv, ResultInv, StatusInv,
    FeeOnlyForDeliveredMoney, Paid
<1>7. ASSUME NEW m \in Admins, DirectReads(m) PROVE FALSE
  BY <1>7 DEF DirectReads, HasSacco, DirectUnused
<1>8. ASSUME NEW m \in Admins, NEW a \in Attempts, DirectCreates(m, a) PROVE
  StatusInv'
  BY <1>8, NoTxAssumption DEF DirectCreates, Unused, IInv, TypeOK, Notices, Tasks,
    AttemptInv, ServiceInv, ServiceAttempts, TaskInv, ResultInv, StatusInv,
    FeeOnlyForDeliveredMoney, Paid
<1>9. ASSUME NEW m \in Admins, DirectRefused(m) PROVE StatusInv'
  BY <1>9, NoTxAssumption DEF DirectRefused, MarkAttemptFailed, Finish, IInv,
    TypeOK, Notices, Tasks, AttemptInv, ServiceInv, ServiceAttempts, TaskInv,
    ResultInv, StatusInv, FeeOnlyForDeliveredMoney, Paid
<1>10. ASSUME NEW m \in Admins, DirectTimesOut(m) PROVE StatusInv'
  BY <1>10, NoTxAssumption DEF DirectTimesOut, MarkAttemptFailed, Finish, IInv,
    TypeOK, Notices, Tasks, AttemptInv, ServiceInv, ServiceAttempts, TaskInv,
    ResultInv, StatusInv, FeeOnlyForDeliveredMoney, Paid
<1>11. ASSUME NEW m \in Admins, DirectAccepted(m) PROVE StatusInv'
  BY <1>11, NoTxAssumption DEF DirectAccepted, Goes, IInv, TypeOK, Notices, Tasks,
    AttemptInv, ServiceInv, ServiceAttempts, TaskInv, ResultInv, StatusInv,
    FeeOnlyForDeliveredMoney, Paid
<1>12. ASSUME NEW m \in Admins, DirectRecords(m) PROVE StatusInv'
  BY <1>12, NoTxAssumption DEF DirectRecords, Finish, IInv, TypeOK, Notices, Tasks,
    AttemptInv, ServiceInv, ServiceAttempts, TaskInv, ResultInv, StatusInv,
    FeeOnlyForDeliveredMoney, Paid
<1>13. ASSUME NEW m \in Admins, DirectCrashes(m) PROVE StatusInv'
  BY <1>13, NoTxAssumption DEF DirectCrashes, Finish, IInv, TypeOK, Notices, Tasks,
    AttemptInv, ServiceInv, ServiceAttempts, TaskInv, ResultInv, StatusInv,
    FeeOnlyForDeliveredMoney, Paid
<1>14. ASSUME NEW new \in LoanStatuses, GuarantorResponds(new) PROVE StatusInv'
  BY <1>14 DEF GuarantorResponds, StatusInv, FeeOnlyForDeliveredMoney, Paid
<1>15. ASSUME NEW a \in Attempts, NEW ok \in BOOLEAN, ProviderSettles(a, ok) PROVE
  StatusInv'
  BY <1>15, NoTxAssumption DEF ProviderSettles, IInv, TypeOK, Notices, Tasks,
    AttemptInv, ServiceInv, ServiceAttempts, TaskInv, ResultInv, StatusInv,
    FeeOnlyForDeliveredMoney, Paid
<1>16. ASSUME NEW n \in accepted, ProviderRedelivers(n) PROVE StatusInv'
  BY <1>16 DEF ProviderRedelivers, StatusInv, FeeOnlyForDeliveredMoney, Paid
<1>17. ASSUME NEW a \in Attempts, ReplayMarkerExpires(a) PROVE StatusInv'
  BY <1>17 DEF ReplayMarkerExpires, StatusInv, FeeOnlyForDeliveredMoney, Paid
<1>18. ASSUME NEW n \in notices \cup calls,
             WebhookDropsReplay(n) \/ WebhookDropsSecondCall(n)
      PROVE  StatusInv'
  BY <1>18, BoundsAssumption DEF WebhookDropsReplay, WebhookDropsSecondCall,
    DropsReplay, Fault, Acknowledges, StatusInv, FeeOnlyForDeliveredMoney, Paid
<1>18e. ASSUME NEW n \in notices \cup calls, WebhookEnters(n) PROVE StatusInv'
  BY <1>18e DEF WebhookEnters, StatusInv,
    FeeOnlyForDeliveredMoney, Paid
<1>19. ASSUME NEW n \in notices \cup calls, WebhookUnknown(n) PROVE StatusInv'
  BY <1>19 DEF WebhookUnknown, WebhookParks, Parks, StatusInv, FeeOnlyForDeliveredMoney,
    Paid
<1>20. ASSUME NEW n \in notices \cup calls, WebhookBrokerDown(n) PROVE StatusInv'
  BY <1>20 DEF WebhookBrokerDown, WebhookParks, Parks, StatusInv, FeeOnlyForDeliveredMoney,
    Paid
<1>21. ASSUME NEW n \in notices \cup calls, WebhookEnqueues(n) PROVE StatusInv'
  BY <1>21, NoTxAssumption DEF WebhookEnqueues, Acknowledges, IInv, TypeOK, Notices,
    Tasks, AttemptInv, ServiceInv, ServiceAttempts, TaskInv, ResultInv, StatusInv,
    FeeOnlyForDeliveredMoney, Paid
<1>22. ASSUME NEW n \in notices \cup calls, WebhookFails(n) PROVE StatusInv'
  BY <1>22 DEF WebhookFails, StatusInv, FeeOnlyForDeliveredMoney, Paid
<1>23. ASSUME NEW t \in queue, CallbackHasNoEffect(t) PROVE StatusInv'
  BY <1>23 DEF CallbackHasNoEffect, Takes, StatusInv, FeeOnlyForDeliveredMoney, Paid
<1>24. ASSUME NEW t \in queue, CallbackDisburses(t) PROVE StatusInv'
  BY <1>24, NoTxAssumption DEF CallbackDisburses, Disburse, Takes, IInv, TypeOK,
    Notices, Tasks, AttemptInv, ServiceInv, ServiceAttempts, TaskInv, ResultInv,
    StatusInv, FeeOnlyForDeliveredMoney, Paid
<1>25. ASSUME NEW t \in queue, CallbackFails(t) PROVE StatusInv'
  BY <1>25 DEF CallbackFails, FailDisbursement, Takes, StatusInv,
    FeeOnlyForDeliveredMoney, Paid
<1>26. ASSUME NEW t \in queue, B2CSkips(t) PROVE StatusInv'
  BY <1>26 DEF B2CSkips, Takes, StatusInv, FeeOnlyForDeliveredMoney, Paid
<1>27. ASSUME NEW t \in queue, B2CProcesses(t) PROVE StatusInv'
  BY <1>27 DEF B2CProcesses, ApplyResult, Takes, StatusInv,
    FeeOnlyForDeliveredMoney, Paid
<1>28. ASSUME NEW t \in queue, CallbackLost(t) PROVE StatusInv'
  BY <1>28 DEF CallbackLost, TaskLost, Takes, StatusInv, FeeOnlyForDeliveredMoney, Paid
<1>29. ASSUME ConfirmationLost PROVE StatusInv'
  BY <1>29 DEF ConfirmationLost, TaskLost, StatusInv, FeeOnlyForDeliveredMoney, Paid
<1>30. ASSUME TimerLost PROVE StatusInv'
  BY <1>30 DEF TimerLost, TaskLost, StatusInv, FeeOnlyForDeliveredMoney, Paid
<1>31. ASSUME SendConfirmation PROVE StatusInv'
  BY <1>31, NoTxAssumption DEF SendConfirmation, AskMember, IInv, TypeOK, Notices,
    Tasks, AttemptInv, ServiceInv, ServiceAttempts, TaskInv, ResultInv, StatusInv,
    FeeOnlyForDeliveredMoney, Paid
<1>32. ASSUME DayPasses PROVE StatusInv'
  BY <1>32, NoTxAssumption DEF DayPasses, IInv, TypeOK, Notices, Tasks, AttemptInv,
    ServiceInv, ServiceAttempts, TaskInv, ResultInv, StatusInv,
    FeeOnlyForDeliveredMoney, Paid
<1>33. ASSUME MemberConfirms PROVE StatusInv'
  BY <1>33, NoTxAssumption DEF MemberConfirms, IInv, TypeOK, Notices, Tasks,
    AttemptInv, ServiceInv, ServiceAttempts, TaskInv, ResultInv, StatusInv,
    FeeOnlyForDeliveredMoney, Paid, RecordInvoiceItem
<1>34. ASSUME MemberDisputes PROVE StatusInv'
  BY <1>34 DEF MemberDisputes, StatusInv, FeeOnlyForDeliveredMoney, Paid
<1>35. ASSUME AutoReads PROVE StatusInv'
  BY <1>35, NoTxAssumption DEF AutoReads, IInv, TypeOK, Notices, Tasks, AttemptInv,
    ServiceInv, ServiceAttempts, TaskInv, ResultInv, StatusInv,
    FeeOnlyForDeliveredMoney, Paid
<1>36. ASSUME AutoYields PROVE StatusInv'
  BY <1>36 DEF AutoYields, StatusInv, FeeOnlyForDeliveredMoney, Paid
<1>37. ASSUME AutoConfirms PROVE StatusInv'
  BY <1>37, NoTxAssumption DEF AutoConfirms, AutoConfirm, IInv, TypeOK, Notices,
    Tasks, AttemptInv, ServiceInv, ServiceAttempts, TaskInv, ResultInv, StatusInv,
    FeeOnlyForDeliveredMoney, Paid, RecordInvoiceItem
<1>38. ASSUME AutoEscalates PROVE StatusInv'
  BY <1>38 DEF AutoEscalates, StatusInv, FeeOnlyForDeliveredMoney, Paid
<1> QED BY <1>18e, <1>1, <1>2, <1>3, <1>4, <1>5, <1>6, <1>7, <1>8, <1>9, <1>10, <1>11,
  <1>12, <1>13, <1>14, <1>15, <1>16, <1>17, <1>18, <1>19, <1>20, <1>21, <1>22,
  <1>23, <1>24, <1>25, <1>26, <1>27, <1>28, <1>29, <1>30, <1>31, <1>32, <1>33,
  <1>34, <1>35, <1>36, <1>37, <1>38 DEF Next, AdminRequest, Provider, Webhook,
  Worker, AutoResolve

\* While the direct endpoint serves no request, SaccoSphere never bills a fee for a
\* disbursement that did not reach the member, whatever crashes, whoever races.
THEOREM FeeOnlyIfDelivered ==
    ASSUME DirectUnused
    PROVE  Spec => []FeeOnlyForDeliveredMoney
<1>1. Init => StatusInv
  BY DEF Init, StatusInv, FeeOnlyForDeliveredMoney
<1>2. IInv /\ StatusInv /\ [Next]_vars => StatusInv'
  <2>1. ASSUME StatusInv, UNCHANGED vars PROVE StatusInv'
    BY <2>1 DEF StatusInv, FeeOnlyForDeliveredMoney, Paid, vars
  <2> QED BY StatusStep, <2>1
<1>3. StatusInv => FeeOnlyForDeliveredMoney
  BY DEF StatusInv
<1> QED BY Invariance, <1>1, <1>2, <1>3, PTL DEF Spec

-----------------------------------------------------------------------------
(***************************************************************************)
(* What is booked about a disbursement: fee, confirmation, ledger and the  *)
(* number of payouts.  The invariants extend IInv of LoanDisbursement;     *)
(* but for FeeInv they hold when the direct endpoint is not used, where    *)
(* every result is about the one transaction of the loan (StatusInv).      *)
(***************************************************************************)

\* A fee comes with a confirmation and is for the one transaction of the loan, which
\* the first service attempt sets before there can be a fee.
LEMMA FeeStep ==
    ASSUME IInv, FeeInv, Next PROVE FeeInv'
<1>1. ASSUME NEW m \in Admins, NEW new \in Decisions, AdminReads(m, new) PROVE FeeInv'
  BY <1>1 DEF AdminReads, Goes, FeeInv
<1>2. ASSUME NEW m \in Admins, AdminWrites(m) PROVE FeeInv'
  BY <1>2 DEF AdminWrites, Finish, FeeInv
<1>3. ASSUME NEW m \in Admins, InitiateFails(m) PROVE FeeInv'
  BY <1>3 DEF InitiateFails, Finish, FeeInv
<1>4. ASSUME NEW m \in Admins, NEW a \in Attempts, InitiateCalls(m, a) PROVE FeeInv'
  BY <1>4 DEF InitiateCalls, Unused, FeeInv
<1>5. ASSUME NEW m \in Admins, InitiateCommits(m) PROVE FeeInv'
  BY <1>5, NoTxAssumption DEF InitiateCommits, InitiateWrites, Finish, FeeInv, IInv,
    TypeOK, AttemptInv, ServiceInv, Confirmed
<1>6. ASSUME NEW m \in Admins, InitiateCrashes(m) PROVE FeeInv'
  BY <1>6 DEF InitiateCrashes, Finish, Fault, FeeInv
<1>7. ASSUME NEW m \in Admins, DirectReads(m) PROVE FeeInv'
  BY <1>7 DEF DirectReads, Goes, FeeInv
<1>8. ASSUME NEW m \in Admins, NEW a \in Attempts, DirectCreates(m, a) PROVE FeeInv'
  BY <1>8 DEF DirectCreates, Unused, FeeInv
<1>9. ASSUME NEW m \in Admins, DirectRefused(m) PROVE FeeInv'
  BY <1>9 DEF DirectRefused, MarkAttemptFailed, Finish, FeeInv
<1>10. ASSUME NEW m \in Admins, DirectTimesOut(m) PROVE FeeInv'
  BY <1>10 DEF DirectTimesOut, MarkAttemptFailed, Finish, Fault, FeeInv
<1>11. ASSUME NEW m \in Admins, DirectAccepted(m) PROVE FeeInv'
  BY <1>11 DEF DirectAccepted, Goes, FeeInv
<1>12. ASSUME NEW m \in Admins, DirectRecords(m) PROVE FeeInv'
  BY <1>12 DEF DirectRecords, Finish, FeeInv
<1>13. ASSUME NEW m \in Admins, DirectCrashes(m) PROVE FeeInv'
  BY <1>13 DEF DirectCrashes, Finish, Fault, FeeInv
<1>14. ASSUME NEW new \in LoanStatuses, GuarantorResponds(new) PROVE FeeInv'
  BY <1>14 DEF GuarantorResponds, FeeInv
<1>15. ASSUME NEW a \in Attempts, NEW ok \in BOOLEAN, ProviderSettles(a, ok) PROVE
  FeeInv'
  BY <1>15 DEF ProviderSettles, FeeInv
<1>16. ASSUME NEW n \in accepted, ProviderRedelivers(n) PROVE FeeInv'
  BY <1>16 DEF ProviderRedelivers, FeeInv
<1>17. ASSUME NEW a \in Attempts, ReplayMarkerExpires(a) PROVE FeeInv'
  BY <1>17 DEF ReplayMarkerExpires, FeeInv
<1>18. ASSUME NEW n \in notices \cup calls, Webhook(n) PROVE FeeInv'
  BY <1>18 DEF Webhook, WebhookDropsReplay, WebhookDropsSecondCall, DropsReplay,
    WebhookEnters, WebhookUnknown, WebhookBrokerDown, WebhookEnqueues, WebhookFails,
    WebhookParks, Parks, Acknowledges, Fault, FeeInv
<1>19. ASSUME NEW t \in queue, CallbackHasNoEffect(t) PROVE FeeInv'
  BY <1>19 DEF CallbackHasNoEffect, Takes, FeeInv
<1>20. ASSUME NEW t \in queue, CallbackDisburses(t) PROVE FeeInv'
  BY <1>20 DEF CallbackDisburses, Disburse, Takes, FeeInv, Confirmed
<1>21. ASSUME NEW t \in queue, CallbackFails(t) PROVE FeeInv'
  BY <1>21 DEF CallbackFails, FailDisbursement, Takes, FeeInv, Confirmed
<1>22. ASSUME NEW t \in queue, B2CSkips(t) PROVE FeeInv'
  BY <1>22 DEF B2CSkips, Takes, FeeInv
<1>23. ASSUME NEW t \in queue, B2CProcesses(t) PROVE FeeInv'
  BY <1>23 DEF B2CProcesses, ApplyResult, Entry, Takes, FeeInv
<1>24. ASSUME NEW t \in queue, CallbackLost(t) PROVE FeeInv'
  BY <1>24 DEF CallbackLost, TaskLost, Takes, Fault, FeeInv
<1>25. ASSUME ConfirmationLost PROVE FeeInv'
  BY <1>25 DEF ConfirmationLost, TaskLost, Fault, FeeInv
<1>26. ASSUME TimerLost PROVE FeeInv'
  BY <1>26 DEF TimerLost, TaskLost, Fault, FeeInv
<1>27. ASSUME SendConfirmation PROVE FeeInv'
  BY <1>27 DEF SendConfirmation, AskMember, FeeInv, Confirmed
<1>28. ASSUME DayPasses PROVE FeeInv'
  BY <1>28 DEF DayPasses, FeeInv
<1>29. ASSUME MemberConfirms PROVE FeeInv'
  BY <1>29 DEF MemberConfirms, RecordInvoiceItem, FeeInv, Confirmed
<1>30. ASSUME MemberDisputes PROVE FeeInv'
  BY <1>30 DEF MemberDisputes, FeeInv, Confirmed
<1>31. ASSUME AutoReads PROVE FeeInv'
  BY <1>31 DEF AutoReads, FeeInv
<1>32. ASSUME AutoYields PROVE FeeInv'
  BY <1>32 DEF AutoYields, FeeInv
<1>33. ASSUME AutoConfirms PROVE FeeInv'
  BY <1>33 DEF AutoConfirms, AutoConfirm, RecordInvoiceItem, FeeInv, Confirmed
<1>34. ASSUME AutoEscalates PROVE FeeInv'
  BY <1>34 DEF AutoEscalates, FeeInv, Confirmed
<1> QED BY <1>1, <1>2, <1>3, <1>4, <1>5, <1>6, <1>7, <1>8, <1>9, <1>10, <1>11, <1>12,
  <1>13, <1>14, <1>15, <1>16, <1>17, <1>18, <1>19, <1>20, <1>21, <1>22, <1>23, <1>24,
  <1>25, <1>26, <1>27, <1>28, <1>29, <1>30, <1>31, <1>32, <1>33, <1>34 DEF Next,
  AdminRequest, Provider, Worker, AutoResolve

\* What is booked for an attempt is what the provider reported of it.
LEMMA OutcomeStep ==
    ASSUME DirectUnused, IInv, StatusInv, OutcomeInv, Next PROVE OutcomeInv'
<1>1. ASSUME NEW m \in Admins, NEW new \in Decisions, AdminReads(m, new) PROVE
  OutcomeInv'
  BY <1>1 DEF AdminReads, Goes, OutcomeInv, LedgerMatchesCompletion, Paid
<1>2. ASSUME NEW m \in Admins, AdminWrites(m) PROVE OutcomeInv'
  BY <1>2 DEF AdminWrites, Finish, OutcomeInv, LedgerMatchesCompletion, Paid
<1>3. ASSUME NEW m \in Admins, InitiateFails(m) PROVE OutcomeInv'
  BY <1>3 DEF InitiateFails, Finish, OutcomeInv, LedgerMatchesCompletion, Paid
<1>4. ASSUME NEW m \in Admins, NEW a \in Attempts, InitiateCalls(m, a) PROVE
  OutcomeInv'
  BY <1>4, NoTxAssumption DEF InitiateCalls, Unused, OutcomeInv,
    LedgerMatchesCompletion, Paid, IInv, TypeOK, Notices, Tasks, AttemptInv,
    ServiceInv, TaskInv, ResultInv, StatusInv
<1>5. ASSUME NEW m \in Admins, InitiateCommits(m) PROVE OutcomeInv'
  BY <1>5, NoTxAssumption DEF InitiateCommits, InitiateWrites, Finish, OutcomeInv,
    LedgerMatchesCompletion, Paid, IInv, TypeOK, Notices, Tasks, AttemptInv,
    ServiceInv, TaskInv, ResultInv, StatusInv
<1>6. ASSUME NEW m \in Admins, InitiateCrashes(m) PROVE OutcomeInv'
  BY <1>6 DEF InitiateCrashes, Finish, Fault, OutcomeInv, LedgerMatchesCompletion,
    Paid
<1>7. ASSUME NEW new \in LoanStatuses, GuarantorResponds(new) PROVE OutcomeInv'
  BY <1>7 DEF GuarantorResponds, OutcomeInv, LedgerMatchesCompletion, Paid
<1>8. ASSUME NEW a \in Attempts, NEW ok \in BOOLEAN, ProviderSettles(a, ok) PROVE
  OutcomeInv'
  BY <1>8, NoTxAssumption DEF ProviderSettles, OutcomeInv, LedgerMatchesCompletion,
    Paid, IInv, TypeOK, Notices, Tasks, AttemptInv, ServiceInv, TaskInv, ResultInv,
    StatusInv
<1>9. ASSUME NEW n \in accepted, ProviderRedelivers(n) PROVE OutcomeInv'
  BY <1>9, NoTxAssumption DEF ProviderRedelivers, OutcomeInv, LedgerMatchesCompletion,
    Paid, IInv, TypeOK, Notices, Tasks, AttemptInv, ServiceInv, TaskInv, ResultInv,
    StatusInv
<1>10. ASSUME NEW a \in Attempts, ReplayMarkerExpires(a) PROVE OutcomeInv'
  BY <1>10 DEF ReplayMarkerExpires, OutcomeInv, LedgerMatchesCompletion, Paid
<1>11. ASSUME NEW n \in notices \cup calls, Webhook(n) PROVE OutcomeInv'
  BY <1>11, NoTxAssumption DEF Webhook, WebhookDropsReplay, WebhookDropsSecondCall,
    DropsReplay, WebhookEnters, WebhookUnknown, WebhookBrokerDown, WebhookEnqueues,
    WebhookFails, WebhookParks, Parks, Acknowledges, Fault, OutcomeInv,
    LedgerMatchesCompletion, Paid, IInv, TypeOK, Notices, Tasks, AttemptInv, ServiceInv,
    TaskInv, ResultInv, StatusInv
<1>12. ASSUME NEW t \in queue, CallbackHasNoEffect(t) PROVE OutcomeInv'
  BY <1>12 DEF CallbackHasNoEffect, Takes, OutcomeInv, LedgerMatchesCompletion, Paid
<1>13. ASSUME NEW t \in queue, CallbackDisburses(t) PROVE OutcomeInv'
  BY <1>13, NoTxAssumption DEF CallbackDisburses, Disburse, Takes, OutcomeInv,
    LedgerMatchesCompletion, Paid, IInv, TypeOK, Notices, Tasks, AttemptInv,
    ServiceInv, TaskInv, ResultInv, StatusInv
<1>14. ASSUME NEW t \in queue, CallbackFails(t) PROVE OutcomeInv'
  BY <1>14, NoTxAssumption DEF CallbackFails, FailDisbursement, Takes, OutcomeInv,
    LedgerMatchesCompletion, Paid, IInv, TypeOK, Notices, Tasks, AttemptInv,
    ServiceInv, TaskInv, ResultInv, StatusInv
<1>15. ASSUME NEW t \in queue, B2CSkips(t) PROVE OutcomeInv'
  BY <1>15 DEF B2CSkips, Takes, OutcomeInv, LedgerMatchesCompletion, Paid
<1>16. ASSUME NEW t \in queue, B2CProcesses(t) PROVE OutcomeInv'
  BY <1>16, NoTxAssumption DEF B2CProcesses, ApplyResult, Entry, Takes, OutcomeInv,
    LedgerMatchesCompletion, Paid, IInv, TypeOK, Notices, Tasks, AttemptInv,
    ServiceInv, TaskInv, ResultInv, StatusInv
<1>17. ASSUME NEW t \in queue, CallbackLost(t) PROVE OutcomeInv'
  BY <1>17 DEF CallbackLost, TaskLost, Takes, Fault, OutcomeInv, LedgerMatchesCompletion,
    Paid
<1>18. ASSUME ConfirmationLost PROVE OutcomeInv'
  BY <1>18 DEF ConfirmationLost, TaskLost, Fault, OutcomeInv, LedgerMatchesCompletion,
    Paid
<1>19. ASSUME TimerLost PROVE OutcomeInv'
  BY <1>19 DEF TimerLost, TaskLost, Fault, OutcomeInv, LedgerMatchesCompletion, Paid
<1>20. ASSUME SendConfirmation PROVE OutcomeInv'
  BY <1>20 DEF SendConfirmation, AskMember, OutcomeInv, LedgerMatchesCompletion, Paid
<1>21. ASSUME DayPasses PROVE OutcomeInv'
  BY <1>21 DEF DayPasses, OutcomeInv, LedgerMatchesCompletion, Paid
<1>22. ASSUME MemberConfirms PROVE OutcomeInv'
  BY <1>22 DEF MemberConfirms, RecordInvoiceItem, OutcomeInv, LedgerMatchesCompletion,
    Paid
<1>23. ASSUME MemberDisputes PROVE OutcomeInv'
  BY <1>23 DEF MemberDisputes, OutcomeInv, LedgerMatchesCompletion, Paid
<1>24. ASSUME AutoReads PROVE OutcomeInv'
  BY <1>24 DEF AutoReads, OutcomeInv, LedgerMatchesCompletion, Paid
<1>25. ASSUME AutoYields PROVE OutcomeInv'
  BY <1>25 DEF AutoYields, OutcomeInv, LedgerMatchesCompletion, Paid
<1>26. ASSUME AutoConfirms PROVE OutcomeInv'
  BY <1>26 DEF AutoConfirms, AutoConfirm, RecordInvoiceItem, OutcomeInv,
    LedgerMatchesCompletion, Paid
<1>27. ASSUME AutoEscalates PROVE OutcomeInv'
  BY <1>27 DEF AutoEscalates, OutcomeInv, LedgerMatchesCompletion, Paid
<1>28. ASSUME NEW m \in Admins,
                  \/ \E a \in Attempts : DirectCreates(m, a)
                  \/ DirectReads(m) \/ DirectRefused(m) \/ DirectTimesOut(m)
                  \/ DirectAccepted(m) \/ DirectRecords(m) \/ DirectCrashes(m)
           PROVE  FALSE
  BY <1>28 DEF DirectReads, DirectCreates, DirectRefused, DirectTimesOut,
    MarkAttemptFailed, DirectAccepted, DirectRecords, DirectCrashes, StatusInv,
    DirectUnused, HasSacco
<1> QED BY <1>1, <1>2, <1>3, <1>4, <1>5, <1>6, <1>7, <1>8, <1>9, <1>10, <1>11, <1>12,
  <1>13, <1>14, <1>15, <1>16, <1>17, <1>18, <1>19, <1>20, <1>21, <1>22, <1>23, <1>24,
  <1>25, <1>26, <1>27, <1>28 DEF Next, AdminRequest, Provider, Worker, AutoResolve

\* The timer runs once, after the payout was booked, and its answer excludes the
\* member's.
LEMMA TimerStep ==
    ASSUME DirectUnused, IInv, StatusInv, FeeInv, OutcomeInv, TimerInv, Next
      PROVE TimerInv'
<1>1. ASSUME NEW m \in Admins, NEW new \in Decisions, AdminReads(m, new) PROVE
  TimerInv'
  BY <1>1 DEF AdminReads, Goes, TimerInv, AutoConfirmStandsAlone
<1>2. ASSUME NEW m \in Admins, AdminWrites(m) PROVE TimerInv'
  BY <1>2 DEF AdminWrites, Finish, TimerInv, AutoConfirmStandsAlone
<1>3. ASSUME NEW m \in Admins, InitiateFails(m) PROVE TimerInv'
  BY <1>3 DEF InitiateFails, Finish, TimerInv, AutoConfirmStandsAlone
<1>4. ASSUME NEW m \in Admins, NEW a \in Attempts, InitiateCalls(m, a) PROVE TimerInv'
  BY <1>4 DEF InitiateCalls, Unused, TimerInv, AutoConfirmStandsAlone
<1>5. ASSUME NEW m \in Admins, InitiateCommits(m) PROVE TimerInv'
  BY <1>5, NoTxAssumption DEF InitiateCommits, InitiateWrites, Finish, TimerInv,
    AutoConfirmStandsAlone, IInv, TypeOK, AttemptInv, ServiceInv, TaskInv, StatusInv,
    FeeInv, OutcomeInv, Confirmed, Answered, Paid, Tasks
<1>6. ASSUME NEW m \in Admins, InitiateCrashes(m) PROVE TimerInv'
  BY <1>6 DEF InitiateCrashes, Finish, Fault, TimerInv, AutoConfirmStandsAlone
<1>7. ASSUME NEW new \in LoanStatuses, GuarantorResponds(new) PROVE TimerInv'
  BY <1>7 DEF GuarantorResponds, TimerInv, AutoConfirmStandsAlone
<1>8. ASSUME NEW a \in Attempts, NEW ok \in BOOLEAN, ProviderSettles(a, ok) PROVE
  TimerInv'
  BY <1>8 DEF ProviderSettles, TimerInv, AutoConfirmStandsAlone
<1>9. ASSUME NEW n \in accepted, ProviderRedelivers(n) PROVE TimerInv'
  BY <1>9 DEF ProviderRedelivers, TimerInv, AutoConfirmStandsAlone
<1>10. ASSUME NEW a \in Attempts, ReplayMarkerExpires(a) PROVE TimerInv'
  BY <1>10 DEF ReplayMarkerExpires, TimerInv, AutoConfirmStandsAlone
<1>11. ASSUME NEW n \in notices \cup calls, Webhook(n) PROVE TimerInv'
  BY <1>11 DEF Webhook, WebhookDropsReplay, WebhookDropsSecondCall, DropsReplay,
    WebhookEnters, WebhookUnknown, WebhookBrokerDown, WebhookEnqueues, WebhookFails,
    WebhookParks, Parks, Acknowledges, Fault, TimerInv, AutoConfirmStandsAlone
<1>12. ASSUME NEW t \in queue, CallbackHasNoEffect(t) PROVE TimerInv'
  BY <1>12 DEF CallbackHasNoEffect, Takes, TimerInv, AutoConfirmStandsAlone
<1>13. ASSUME NEW t \in queue, CallbackDisburses(t) PROVE TimerInv'
  BY <1>13, NoTxAssumption DEF CallbackDisburses, Disburse, Takes, TimerInv,
    AutoConfirmStandsAlone, IInv, TypeOK, AttemptInv, ServiceInv, TaskInv, StatusInv,
    FeeInv, OutcomeInv, Confirmed, Answered, Paid, Tasks
<1>14. ASSUME NEW t \in queue, CallbackFails(t) PROVE TimerInv'
  BY <1>14, NoTxAssumption DEF CallbackFails, FailDisbursement, Takes, TimerInv,
    AutoConfirmStandsAlone, IInv, TypeOK, AttemptInv, ServiceInv, TaskInv, StatusInv,
    FeeInv, OutcomeInv, Confirmed, Answered, Paid, Tasks
<1>15. ASSUME NEW t \in queue, B2CSkips(t) PROVE TimerInv'
  BY <1>15 DEF B2CSkips, Takes, TimerInv, AutoConfirmStandsAlone
<1>16. ASSUME NEW t \in queue, B2CProcesses(t) PROVE TimerInv'
  BY <1>16, NoTxAssumption DEF B2CProcesses, ApplyResult, Entry, Takes, TimerInv,
    AutoConfirmStandsAlone, IInv, TypeOK, AttemptInv, ServiceInv, TaskInv, StatusInv,
    FeeInv, OutcomeInv, Confirmed, Answered, Paid, Tasks
<1>17. ASSUME NEW t \in queue, CallbackLost(t) PROVE TimerInv'
  BY <1>17 DEF CallbackLost, TaskLost, Takes, Fault, TimerInv, AutoConfirmStandsAlone
<1>18. ASSUME ConfirmationLost PROVE TimerInv'
  BY <1>18, NoTxAssumption DEF ConfirmationLost, TaskLost, Fault, TimerInv,
    AutoConfirmStandsAlone, IInv, TypeOK, AttemptInv, ServiceInv, TaskInv, StatusInv,
    FeeInv, OutcomeInv, Confirmed, Answered, Paid, Tasks
<1>19. ASSUME TimerLost PROVE TimerInv'
  BY <1>19, NoTxAssumption DEF TimerLost, TaskLost, Fault, TimerInv,
    AutoConfirmStandsAlone, IInv, TypeOK, AttemptInv, ServiceInv, TaskInv, StatusInv,
    FeeInv, OutcomeInv, Confirmed, Answered, Paid, Tasks
<1>20. ASSUME SendConfirmation PROVE TimerInv'
  BY <1>20, NoTxAssumption DEF SendConfirmation, AskMember, TimerInv,
    AutoConfirmStandsAlone, IInv, TypeOK, AttemptInv, ServiceInv, TaskInv, StatusInv,
    FeeInv, OutcomeInv, Confirmed, Answered, Paid, Tasks
<1>21. ASSUME DayPasses PROVE TimerInv'
  BY <1>21 DEF DayPasses, TimerInv, AutoConfirmStandsAlone
<1>22. ASSUME MemberConfirms PROVE TimerInv'
  BY <1>22, NoTxAssumption DEF MemberConfirms, RecordInvoiceItem, TimerInv,
    AutoConfirmStandsAlone, IInv, TypeOK, AttemptInv, ServiceInv, TaskInv, StatusInv,
    FeeInv, OutcomeInv, Confirmed, Answered, Paid, Tasks
<1>23. ASSUME MemberDisputes PROVE TimerInv'
  BY <1>23, NoTxAssumption DEF MemberDisputes, TimerInv, AutoConfirmStandsAlone, IInv,
    TypeOK, AttemptInv, ServiceInv, TaskInv, StatusInv, FeeInv, OutcomeInv, Confirmed,
    Answered, Paid, Tasks
<1>24. ASSUME AutoReads PROVE TimerInv'
  BY <1>24, NoTxAssumption DEF AutoReads, TimerInv, AutoConfirmStandsAlone, IInv,
    TypeOK, AttemptInv, ServiceInv, TaskInv, StatusInv, FeeInv, OutcomeInv, Confirmed,
    Answered, Paid, Tasks
<1>25. ASSUME AutoYields PROVE TimerInv'
  BY <1>25 DEF AutoYields, TimerInv, AutoConfirmStandsAlone
<1>26. ASSUME AutoConfirms PROVE TimerInv'
  BY <1>26, NoTxAssumption DEF AutoConfirms, AutoConfirm, RecordInvoiceItem, TimerInv,
    AutoConfirmStandsAlone, IInv, TypeOK, AttemptInv, ServiceInv, TaskInv, StatusInv,
    FeeInv, OutcomeInv, Confirmed, Answered, Paid, Tasks
<1>27. ASSUME AutoEscalates PROVE TimerInv'
  BY <1>27, NoTxAssumption DEF AutoEscalates, TimerInv, AutoConfirmStandsAlone, IInv,
    TypeOK, AttemptInv, ServiceInv, TaskInv, StatusInv, FeeInv, OutcomeInv, Confirmed,
    Answered, Paid, Tasks
<1>28. ASSUME NEW m \in Admins,
                  \/ \E a \in Attempts : DirectCreates(m, a)
                  \/ DirectReads(m) \/ DirectRefused(m) \/ DirectTimesOut(m)
                  \/ DirectAccepted(m) \/ DirectRecords(m) \/ DirectCrashes(m)
           PROVE  FALSE
  BY <1>28 DEF DirectReads, DirectCreates, DirectRefused, DirectTimesOut,
    MarkAttemptFailed, DirectAccepted, DirectRecords, DirectCrashes, StatusInv,
    DirectUnused, HasSacco
<1> QED BY <1>1, <1>2, <1>3, <1>4, <1>5, <1>6, <1>7, <1>8, <1>9, <1>10, <1>11, <1>12,
  <1>13, <1>14, <1>15, <1>16, <1>17, <1>18, <1>19, <1>20, <1>21, <1>22, <1>23, <1>24,
  <1>25, <1>26, <1>27, <1>28 DEF Next, AdminRequest, Provider, Worker, AutoResolve

-----------------------------------------------------------------------------
(* How many payouts were asked for.                                        *)

\* Only initiate asks for a payout; every other step at most adds a fault.
LEMMA AskedOnlyByInitiate ==
    ASSUME DirectUnused, IInv, StatusInv, Next
    PROVE  \/ \E m \in Admins, a \in Attempts : InitiateCalls(m, a)
           \/ \E m \in Admins : InitiateCommits(m) \/ InitiateCrashes(m)
           \/ /\ Asked' = Asked
              /\ UNCHANGED <<disbTx, lock>>
              /\ faults' = faults \/ Fault
<1> DEFINE Keeps == /\ Asked' = Asked
                    /\ UNCHANGED <<disbTx, lock>>
                    /\ faults' = faults \/ Fault
<1>1. ASSUME NEW m \in Admins,
             \/ \E new \in Decisions : AdminReads(m, new)
             \/ AdminWrites(m)
             \/ InitiateFails(m)
      PROVE  Keeps
  BY <1>1 DEF AdminReads, Goes, AdminWrites, InitiateFails, Finish, Asked
<1>2. ASSUME NEW m \in Admins,
             \/ \E a \in Attempts : DirectCreates(m, a)
             \/ DirectReads(m)
             \/ DirectRefused(m)
             \/ DirectTimesOut(m)
             \/ DirectAccepted(m)
             \/ DirectRecords(m)
             \/ DirectCrashes(m)
      PROVE  FALSE
  BY <1>2 DEF DirectReads, DirectCreates, DirectRefused, DirectTimesOut,
    MarkAttemptFailed, DirectAccepted, DirectRecords, DirectCrashes, StatusInv,
    DirectUnused, HasSacco
<1>3. ASSUME NEW new \in LoanStatuses, GuarantorResponds(new) PROVE Keeps
  BY <1>3 DEF GuarantorResponds, Asked
<1>4. ASSUME NEW a \in Attempts, NEW ok \in BOOLEAN, ProviderSettles(a, ok) PROVE Keeps
  BY <1>4 DEF ProviderSettles, Asked, IInv, TypeOK
<1>5. ASSUME NEW n \in accepted, ProviderRedelivers(n) PROVE Keeps
  BY <1>5 DEF ProviderRedelivers, Asked
<1>6. ASSUME NEW a \in Attempts, ReplayMarkerExpires(a) PROVE Keeps
  BY <1>6 DEF ReplayMarkerExpires, Asked
<1>7. ASSUME NEW n \in notices \cup calls, Webhook(n) PROVE Keeps
  BY <1>7 DEF Webhook, WebhookDropsReplay, WebhookDropsSecondCall, DropsReplay,
    WebhookEnters, WebhookUnknown, WebhookBrokerDown, WebhookEnqueues, WebhookFails,
    WebhookParks, Parks, Acknowledges, Asked
<1>8. ASSUME NEW t \in queue, Worker(t) PROVE Keeps
  BY <1>8 DEF Worker, CallbackHasNoEffect, CallbackDisburses, Disburse, CallbackFails,
    FailDisbursement, B2CSkips, B2CProcesses, ApplyResult, Takes, Asked
<1>9. ASSUME (\E t \in queue : CallbackLost(t)) \/ ConfirmationLost \/ TimerLost
      PROVE  Keeps
  BY <1>9 DEF CallbackLost, ConfirmationLost, TimerLost, TaskLost, Asked
<1>10. ASSUME SendConfirmation \/ DayPasses \/ MemberConfirms \/ MemberDisputes
       PROVE  Keeps
  BY <1>10 DEF SendConfirmation, AskMember, DayPasses, MemberConfirms, MemberDisputes,
    Asked
<1>11. ASSUME AutoResolve PROVE Keeps
  BY <1>11 DEF AutoResolve, AutoReads, AutoYields, AutoConfirms, AutoConfirm,
    AutoEscalates, Asked
<1> QED BY <1>1, <1>2, <1>3, <1>4, <1>5, <1>6, <1>7, <1>8, <1>9, <1>10, <1>11
        DEF Next, AdminRequest, Provider

\* A payout asked for a second time needs a loan that is APPROVED and PENDING again
\* or still, which only a crash between the provider's yes and the commit leaves.
LEMMA AskedStep ==
    ASSUME DirectUnused, IInv, StatusInv, AskedInv, Next PROVE AskedInv'
<1>0. faults \in Nat /\ Cardinality(Asked) \in Nat
  BY BoundsAssumption, FS_CardinalityType DEF IInv, TypeOK, AskedInv
<1>1. ASSUME NEW m \in Admins, NEW a \in Attempts, InitiateCalls(m, a) PROVE AskedInv'
  <2>1. Asked' = Asked \cup {a}
    BY <1>1 DEF InitiateCalls, Asked, IInv, TypeOK
  <2>2. IsFiniteSet(Asked') /\ Cardinality(Asked') <= Cardinality(Asked) + 1
    <3>1. /\ IsFiniteSet(Asked \cup {a})
          /\ Cardinality(Asked \cup {a}) \in {Cardinality(Asked), Cardinality(Asked) + 1}
      BY FS_AddElement DEF AskedInv
    <3> QED BY <3>1, <2>1, <1>0
  <2>3. disbTx = NoTx /\ lock = Nobody /\ lock' # Nobody /\ faults' = faults
    BY <1>1, NobodyAssumption DEF InitiateCalls, MayInitiate, IInv, ServiceInv
  <2>4. Cardinality(Asked) <= faults
    BY <2>3, <1>0 DEF AskedInv
  <2>5. Cardinality(Asked') \in Nat
    BY <2>2, FS_CardinalityType
  <2> QED BY <2>2, <2>3, <2>4, <2>5, <1>0 DEF AskedInv
<1>2. ASSUME NEW m \in Admins, InitiateCommits(m) PROVE AskedInv'
  <2>1. Asked' = Asked /\ faults' = faults
    BY <1>2 DEF InitiateCommits, InitiateWrites, Asked
  <2>2. disbTx' # NoTx
    BY <1>2, NoTxAssumption DEF InitiateCommits, InitiateWrites, IInv, AttemptInv
  <2> QED BY <2>1, <2>2, <1>0 DEF AskedInv
<1>3. ASSUME NEW m \in Admins, InitiateCrashes(m) PROVE AskedInv'
  <2>1. Asked' = Asked /\ faults' = faults + 1
    BY <1>3 DEF InitiateCrashes, Fault, Asked
  <2> QED BY <2>1, <1>0 DEF AskedInv
<1>4. ASSUME Asked' = Asked, UNCHANGED <<disbTx, lock>>, faults' = faults \/ Fault
      PROVE  AskedInv'
  <2>1. faults' \in {faults, faults + 1}
    BY <1>4 DEF Fault
  <2> QED BY <1>4, <2>1, <1>0 DEF AskedInv
<1> QED BY <1>1, <1>2, <1>3, <1>4, AskedOnlyByInitiate

-----------------------------------------------------------------------------
(* Which results are kept.                                                 *)

\* Only the provider and the webhook touch results; a payout that has been settled
\* keeps its outcome, whoever acts.
LEMMA SettledStays ==
    ASSUME IInv, Next
    PROVE  /\ \A a \in Attempts : payout[a] \in {"paid", "bounced"} => payout'[a] = payout[a]
           /\ faults' = faults \/ Fault
<1> DEFINE Stays == /\ \A a \in Attempts : payout[a] \in {"paid", "bounced"}
                                             => payout'[a] = payout[a]
                    /\ faults' = faults \/ Fault
<1>1. ASSUME NEW m \in Admins, AdminRequest(m) PROVE Stays
  <2>1. ASSUME NEW a \in Attempts, InitiateCalls(m, a) PROVE Stays
    BY <2>1 DEF InitiateCalls, Unused, IInv, TypeOK
  <2>2. ASSUME DirectTimesOut(m) PROVE Stays
    BY <2>2 DEF DirectTimesOut, MarkAttemptFailed, Fault, IInv, TypeOK, AttemptInv
  <2>3. ASSUME DirectAccepted(m) PROVE Stays
    BY <2>3 DEF DirectAccepted, IInv, TypeOK, AttemptInv
  <2>4. ASSUME \/ \E new \in Decisions : AdminReads(m, new)
               \/ AdminWrites(m) \/ InitiateFails(m) \/ InitiateCommits(m)
               \/ InitiateCrashes(m) \/ DirectReads(m) \/ DirectRefused(m)
               \/ \E a \in Attempts : DirectCreates(m, a)
               \/ DirectRecords(m) \/ DirectCrashes(m)
        PROVE  Stays
    BY <2>4 DEF AdminReads, AdminWrites, InitiateFails, InitiateCommits, InitiateWrites,
      InitiateCrashes, DirectReads, DirectCreates, DirectRefused, MarkAttemptFailed,
      DirectRecords, DirectCrashes
  <2> QED BY <1>1, <2>1, <2>2, <2>3, <2>4 DEF AdminRequest
<1>2. ASSUME NEW a \in Attempts, NEW ok \in BOOLEAN, ProviderSettles(a, ok) PROVE Stays
  BY <1>2 DEF ProviderSettles, IInv, TypeOK
<1>3. ASSUME \/ \E n \in accepted : ProviderRedelivers(n)
             \/ \E a \in Attempts : ReplayMarkerExpires(a)
             \/ \E new \in LoanStatuses : GuarantorResponds(new)
      PROVE  Stays
  BY <1>3 DEF ProviderRedelivers, ReplayMarkerExpires, GuarantorResponds
<1>4. ASSUME NEW n \in notices \cup calls, Webhook(n) PROVE Stays
  BY <1>4 DEF Webhook, WebhookDropsReplay, WebhookDropsSecondCall, DropsReplay,
    WebhookEnters, WebhookUnknown, WebhookBrokerDown, WebhookParks, Parks,
    WebhookEnqueues, WebhookFails
<1>5. ASSUME NEW t \in queue, Worker(t) \/ CallbackLost(t) PROVE Stays
  BY <1>5 DEF Worker, CallbackHasNoEffect, CallbackDisburses, Disburse, CallbackFails,
    FailDisbursement, B2CSkips, B2CProcesses, ApplyResult, CallbackLost, TaskLost
<1>6. ASSUME ConfirmationLost \/ TimerLost PROVE Stays
  BY <1>6 DEF ConfirmationLost, TimerLost, TaskLost
<1>7. ASSUME SendConfirmation \/ DayPasses \/ MemberConfirms \/ MemberDisputes
      PROVE  Stays
  BY <1>7 DEF SendConfirmation, AskMember, DayPasses, MemberConfirms, MemberDisputes
<1>8. ASSUME AutoResolve PROVE Stays
  BY <1>8 DEF AutoResolve, AutoReads, AutoYields, AutoConfirms, AutoConfirm, AutoEscalates
<1> QED BY <1>1, <1>2, <1>3, <1>4, <1>5, <1>6, <1>7, <1>8 DEF Next, Provider

\* Nobody else touches a result.
LEMMA ResultsOnTheWire ==
    ASSUME IInv, Next
    PROVE  \/ Provider
           \/ \E n \in notices \cup calls : Webhook(n)
           \/ UNCHANGED wireVars
<1>1. ASSUME NEW m \in Admins, AdminRequest(m) PROVE UNCHANGED wireVars
  BY <1>1 DEF AdminRequest, AdminReads, AdminWrites, InitiateFails, InitiateCalls,
    InitiateCommits, InitiateWrites, InitiateCrashes, DirectReads, DirectCreates,
    DirectRefused, DirectTimesOut, MarkAttemptFailed, DirectAccepted, DirectRecords,
    DirectCrashes
<1>2. ASSUME NEW new \in LoanStatuses, GuarantorResponds(new) PROVE UNCHANGED wireVars
  BY <1>2 DEF GuarantorResponds
<1>3. ASSUME NEW t \in queue, Worker(t) \/ CallbackLost(t) PROVE UNCHANGED wireVars
  BY <1>3 DEF Worker, CallbackHasNoEffect, CallbackDisburses, Disburse, CallbackFails,
    FailDisbursement, B2CSkips, B2CProcesses, ApplyResult, CallbackLost, TaskLost
<1>4. ASSUME ConfirmationLost \/ TimerLost \/ AutoResolve PROVE UNCHANGED wireVars
  BY <1>4 DEF ConfirmationLost, TimerLost, TaskLost, AutoResolve, AutoReads, AutoYields,
    AutoConfirms, AutoConfirm, AutoEscalates
<1>5. ASSUME SendConfirmation \/ DayPasses \/ MemberConfirms \/ MemberDisputes
      PROVE  UNCHANGED wireVars
  BY <1>5 DEF SendConfirmation, AskMember, DayPasses, MemberConfirms, MemberDisputes
<1> QED BY <1>1, <1>2, <1>3, <1>4, <1>5 DEF Next

\* There is one result per attempt: the one its payout came to.
OneResult ==
    \A n \in notices \cup accepted \cup enqueued \cup calls \cup parked :
        payout[n.a] = IF n.ok THEN "paid" ELSE "bounced"

LEMMA OneResultStep ==
    ASSUME IInv, OneResult, Next PROVE OneResult'
<1> DEFINE Results == notices \cup accepted \cup enqueued \cup calls \cup parked
<1>1. \A n \in Results : /\ n.a \in Attempts
                         /\ payout'[n.a] = IF n.ok THEN "paid" ELSE "bounced"
  <2>1. \A n \in Results : n.a \in Attempts
    BY DEF IInv, TypeOK, Notices
  <2> QED BY <2>1, SettledStays DEF OneResult
<1>2. ASSUME NEW a \in Attempts, NEW ok \in BOOLEAN, ProviderSettles(a, ok) PROVE OneResult'
  <2>1. PICK n : n = [a |-> a, ok |-> ok]
    OBVIOUS
  <2>2. Results' = Results \cup {n} /\ n.a = a /\ n.ok = ok
    BY <1>2, <2>1 DEF ProviderSettles
  <2>3. payout'[a] = IF ok THEN "paid" ELSE "bounced"
    BY <1>2 DEF ProviderSettles, IInv, TypeOK
  <2> QED BY <1>1, <2>2, <2>3 DEF OneResult
<1>3. ASSUME Results' \subseteq Results PROVE OneResult'
  BY <1>1, <1>3 DEF OneResult
<1>4. ASSUME \/ \E n \in accepted : ProviderRedelivers(n)
             \/ \E a \in Attempts : ReplayMarkerExpires(a)
             \/ UNCHANGED wireVars
      PROVE  Results' \subseteq Results
  BY <1>4 DEF ProviderRedelivers, ReplayMarkerExpires
<1>5. ASSUME NEW n \in notices \cup calls, Webhook(n) PROVE Results' \subseteq Results
  BY <1>5 DEF Webhook, WebhookDropsReplay, WebhookDropsSecondCall, DropsReplay,
    WebhookEnters, WebhookUnknown, WebhookBrokerDown, WebhookParks, Parks,
    WebhookEnqueues, WebhookFails, Acknowledges
<1> HIDE DEF Results
<1> QED BY <1>2, <1>3, <1>4, <1>5, ResultsOnTheWire DEF Provider

\* A result stops being kept only in a step that costs a fault, and one at a time:
\* the unexpected error of an open call, or a second call that is turned away.
LEMMA UnkeptGrowsByFault ==
    ASSUME IInv, OneResult, Next
    PROVE  \/ Unkept' \subseteq Unkept
           \/ \E a \in Attempts : Unkept' \subseteq Unkept \cup {a} /\ Fault
<1> DEFINE NoMore == Unkept' \subseteq Unkept
<1>1. ASSUME UNCHANGED wireVars PROVE NoMore
  BY <1>1 DEF Unkept
<1>2. ASSUME Provider PROVE NoMore
  BY <1>2 DEF Provider, ProviderSettles, ProviderRedelivers, ReplayMarkerExpires, Unkept
<1>3. ASSUME NEW n \in notices \cup calls, WebhookDropsReplay(n) PROVE NoMore
  <2>1. n.a \in replay /\ (\A k \in calls : k.a # n.a)
    <3> SUFFICES ASSUME NEW k \in calls, k.a = n.a PROVE FALSE
      BY <1>3 DEF WebhookDropsReplay, DropsReplay
    <3>1. n \in notices /\ n \notin calls
      BY <1>3 DEF WebhookDropsReplay, DropsReplay
    <3>2. (n.ok <=> k.ok) /\ n \in Notices /\ k \in Notices
      BY <3>1 DEF OneResult, IInv, TypeOK, Notices
    <3>3. n = k
      BY <3>2 DEF Notices
    <3> QED BY <3>1, <3>3
  <2>2. /\ accepted' = accepted \cup {n}
        /\ UNCHANGED <<enqueued, calls, replay, parked>>
    BY <1>3 DEF WebhookDropsReplay, DropsReplay, Acknowledges
  <2> QED BY <2>1, <2>2 DEF Unkept
<1>4. ASSUME NEW n \in notices \cup calls, WebhookEnters(n) PROVE NoMore
  BY <1>4 DEF WebhookEnters, Unkept
<1>5. ASSUME NEW n \in notices \cup calls, WebhookUnknown(n) \/ WebhookBrokerDown(n)
      PROVE  NoMore
  <2>1. /\ calls' = calls \ {n} /\ parked' = parked \cup {n} /\ replay' = replay \ {n.a}
        /\ UNCHANGED <<accepted, enqueued>>
    BY <1>5 DEF WebhookUnknown, WebhookBrokerDown, WebhookParks, Parks
  <2> QED BY <2>1 DEF Unkept
<1>6. ASSUME NEW n \in notices \cup calls, WebhookEnqueues(n) PROVE NoMore
  <2>1. /\ calls' = calls \ {n} /\ enqueued' = enqueued \cup {n}
        /\ accepted' = accepted \cup {n}
        /\ UNCHANGED <<parked, replay>>
    BY <1>6 DEF WebhookEnqueues, Acknowledges
  <2> QED BY <2>1 DEF Unkept
<1>7. ASSUME NEW n \in notices \cup calls, WebhookDropsSecondCall(n) \/ WebhookFails(n)
      PROVE  n.a \in Attempts /\ Unkept' \subseteq Unkept \cup {n.a} /\ Fault
  <2>1. n.a \in Attempts
    BY DEF IInv, TypeOK, Notices
  <2>2. /\ calls' \in {calls, calls \ {n}} /\ accepted' \subseteq accepted \cup {n}
        /\ UNCHANGED <<enqueued, parked, replay>> /\ Fault
    BY <1>7 DEF WebhookDropsSecondCall, DropsReplay, Acknowledges, WebhookFails
  <2> QED BY <2>1, <2>2 DEF Unkept
<1> HIDE DEF NoMore
<1>8. NoMore \/ \E a \in Attempts : Unkept' \subseteq Unkept \cup {a} /\ Fault
  BY <1>1, <1>2, <1>3, <1>4, <1>5, <1>6, <1>7, ResultsOnTheWire DEF Webhook
<1> QED BY <1>8 DEF NoMore

LEMMA NoticeStep ==
    ASSUME IInv, NoticeInv, Next PROVE NoticeInv'
<1>1. OneResult'
  BY OneResultStep DEF NoticeInv, OneResult
<1>2. OneResult
  BY DEF NoticeInv, OneResult
<1>3. faults \in Nat /\ Cardinality(Unkept) \in Nat
  BY BoundsAssumption, FS_CardinalityType DEF IInv, TypeOK, NoticeInv
<1>4. IsFiniteSet(Unkept') /\ Cardinality(Unkept') <= faults'
  <2>1. CASE Unkept' \subseteq Unkept
    <3>1. IsFiniteSet(Unkept') /\ Cardinality(Unkept') <= Cardinality(Unkept)
      BY <2>1, FS_Subset DEF NoticeInv
    <3>2. faults' \in Nat /\ faults' >= faults /\ Cardinality(Unkept') \in Nat
      BY <1>3, <3>1, SettledStays, FS_CardinalityType DEF Fault
    <3> QED BY <1>3, <3>1, <3>2 DEF NoticeInv
  <2>2. CASE \E a \in Attempts : Unkept' \subseteq Unkept \cup {a} /\ Fault
    <3>1. PICK a \in Attempts : Unkept' \subseteq Unkept \cup {a} /\ Fault
      BY <2>2
    <3>2. /\ IsFiniteSet(Unkept \cup {a})
          /\ Cardinality(Unkept \cup {a}) \in {Cardinality(Unkept), Cardinality(Unkept) + 1}
      BY FS_AddElement DEF NoticeInv
    <3>3. IsFiniteSet(Unkept') /\ Cardinality(Unkept') <= Cardinality(Unkept \cup {a})
      BY <3>1, <3>2, FS_Subset
    <3>4. faults' = faults + 1 /\ Cardinality(Unkept') \in Nat
      BY <3>1, <3>3, FS_CardinalityType DEF Fault
    <3> QED BY <1>3, <3>2, <3>3, <3>4 DEF NoticeInv
  <2> QED BY <1>2, <2>1, <2>2, UnkeptGrowsByFault
<1> QED BY <1>1, <1>4 DEF NoticeInv, OneResult

-----------------------------------------------------------------------------
(* The theorems.                                                           *)

\* A fee is billed exactly when a confirmation was recorded, and never twice, for
\* every mix of endpoints.
THEOREM FeeWithConfirmation == Spec => []FeeMatchesConfirmation
<1>1. Init => FeeInv
  BY DEF Init, FeeInv
<1>2. IInv /\ FeeInv /\ [Next]_vars => FeeInv'
  <2>1. ASSUME FeeInv, UNCHANGED vars PROVE FeeInv'
    BY <2>1 DEF FeeInv, vars
  <2> QED BY FeeStep, <2>1
<1>3. FeeInv => FeeMatchesConfirmation
  <2> SUFFICES ASSUME FeeInv PROVE Cardinality(invoice) <= 1
    BY DEF FeeInv, FeeMatchesConfirmation
  <2>1. IsFiniteSet({disbTx}) /\ Cardinality({disbTx}) = 1
    BY FS_Singleton
  <2>2. Cardinality(invoice) <= Cardinality({disbTx})
    BY <2>1, FS_Subset DEF FeeInv
  <2> QED BY <2>1, <2>2
<1> QED BY Invariance, <1>1, <1>2, <1>3, PTL DEF Spec

\* With the status endpoint alone, the invariants about the one attempt of a loan,
\* its outcome, the timer and the number of payouts hold together.
BooksInv == StatusInv /\ FeeInv /\ OutcomeInv /\ TimerInv /\ AskedInv

LEMMA BooksInvariance ==
    ASSUME DirectUnused PROVE Spec => []BooksInv
<1>1. Init => BooksInv
  <2> SUFFICES ASSUME Init PROVE BooksInv
    OBVIOUS
  <2>1. StatusInv /\ FeeInv
    BY DEF Init, StatusInv, FeeOnlyForDeliveredMoney, FeeInv
  <2>2. OutcomeInv /\ TimerInv
    BY DEF Init, OutcomeInv, LedgerMatchesCompletion, TimerInv, AutoConfirmStandsAlone
  <2>3. AskedInv
    <3>1. Asked = {}
      BY DEF Init, Asked
    <3>2. IsFiniteSet({}) /\ Cardinality({}) = 0
      BY FS_EmptySet
    <3>3. disbTx = NoTx /\ lock = Nobody /\ faults = 0
      BY DEF Init
    <3> QED BY <3>1, <3>2, <3>3 DEF AskedInv
  <2> QED BY <2>1, <2>2, <2>3 DEF BooksInv
<1>2. IInv /\ BooksInv /\ [Next]_vars => BooksInv'
  <2>1. ASSUME IInv, BooksInv, Next PROVE BooksInv'
    BY <2>1, StatusStep, FeeStep, OutcomeStep, TimerStep, AskedStep DEF BooksInv
  <2>2. ASSUME BooksInv, UNCHANGED vars PROVE BooksInv'
    <3>1. StatusInv' /\ FeeInv'
      BY <2>2 DEF BooksInv, vars, StatusInv, FeeOnlyForDeliveredMoney, Paid, FeeInv
    <3>2. OutcomeInv' /\ TimerInv'
      BY <2>2 DEF BooksInv, vars, OutcomeInv, LedgerMatchesCompletion, Paid, TimerInv,
        AutoConfirmStandsAlone
    <3>3. AskedInv'
      BY <2>2 DEF BooksInv, vars, AskedInv, Asked
    <3> QED BY <3>1, <3>2, <3>3 DEF BooksInv
  <2> QED BY <2>1, <2>2
<1> QED BY Invariance, <1>1, <1>2, PTL DEF Spec

\* A step that writes neither an attempt's rows nor the ledger, and that brings no
\* request into flight, no new result and no new task, keeps DirectInv.
LEMMA DirectQuietStep ==
    ASSUME IInv, DirectInv,
           UNCHANGED <<disbTx, txVars, ledger, payout>>,
           \A m \in Admins : /\ op'[m] \notin {"DISBURSED", "initiated"}
                             /\ op'[m] \in {"rows", "sent"}
                                  => op[m] \in {"rows", "sent"} /\ att'[m] = att[m],
           notices' \cup accepted' \subseteq notices \cup accepted,
           queue' \subseteq queue,
           faults' = 0 => faults = 0
    PROVE  DirectInv'
<1>1. FlightInv'
  BY DEF DirectInv, FlightInv
<1>2. /\ \A n \in notices' \cup accepted' : ~n.ok => payout'[n.a] = "bounced"
      /\ \A t \in queue' : conv'[t.a]
      /\ \A t \in queue' : ~t.ok => payout'[t.a] = "bounced"
  BY DEF DirectInv
<1>3. \A a \in Attempts : /\ conv'[a] => path'[a] # "none"
                          /\ received'[a] => conv'[a]
                          /\ txStatus'[a] = "COMPLETED" => received'[a]
                          /\ txStatus'[a] = "FAILED" /\ faults' = 0
                               => payout'[a] \in {"idle", "bounced"}
  BY DEF DirectInv
<1>4. LedgerMatchesCompletion'
  BY DEF DirectInv, LedgerMatchesCompletion
<1> QED BY <1>1, <1>2, <1>3, <1>4 DEF DirectInv

\* The new rows are of an attempt that nobody used, so of nobody else in flight.
LEMMA DirectCreatesStep ==
    ASSUME IInv, DirectInv, NEW m \in Admins, NEW a \in Attempts, DirectCreates(m, a)
    PROVE  DirectInv'
<1>1. /\ path' = [path EXCEPT ![a] = "direct"]
      /\ txStatus' = [txStatus EXCEPT ![a] = "PENDING"]
      /\ op' = [op EXCEPT ![m] = "rows"] /\ att' = [att EXCEPT ![m] = a]
      /\ UNCHANGED <<disbTx, conv, received, ledger, payout, notices, accepted, queue, faults>>
  BY DEF DirectCreates
<1>2. path[a] = "none" /\ ~conv[a] /\ txStatus[a] # "COMPLETED"
  BY DEF DirectCreates, Unused, DirectInv
<1>t. TypeOK
  BY DEF IInv
<1>3. /\ path'[a] = "direct" /\ txStatus'[a] = "PENDING"
      /\ \A b \in Attempts \ {a} : path'[b] = path[b] /\ txStatus'[b] = txStatus[b]
      /\ op'[m] = "rows" /\ att'[m] = a
      /\ \A k \in Admins \ {m} : op'[k] = op[k] /\ att'[k] = att[k]
  BY <1>1, <1>t DEF TypeOK
<1>4. \A k \in Admins : op[k] \in {"rows", "sent"} => att[k] \in Attempts \ {a}
  BY <1>2 DEF DirectInv, FlightInv
<1>5. FlightInv'
  <2> SUFFICES ASSUME NEW k \in Admins, op'[k] \in {"rows", "sent"}
               PROVE  /\ att'[k] \in Attempts
                      /\ path'[att'[k]] = "direct" /\ ~conv'[att'[k]]
                      /\ txStatus'[att'[k]] = "PENDING"
                      /\ \A j \in Admins \ {k} : op'[j] \in {"rows", "sent"} => att'[j] # att'[k]
    BY DEF FlightInv
  <2>1. CASE k = m
    BY <1>1, <1>2, <1>3, <1>4, <2>1
  <2>2. CASE k # m
    <3>1. att'[k] = att[k] /\ att[k] \in Attempts \ {a} /\ op[k] \in {"rows", "sent"}
      BY <1>3, <1>4, <2>2
    <3>2. path[att[k]] = "direct" /\ ~conv[att[k]] /\ txStatus[att[k]] = "PENDING"
      BY <3>1 DEF DirectInv, FlightInv
    <3>3. \A j \in Admins \ {k} : op'[j] \in {"rows", "sent"} => att'[j] # att[k]
      BY <1>3, <3>1 DEF DirectInv, FlightInv
    <3> QED BY <1>1, <1>3, <3>1, <3>2, <3>3
  <2> QED BY <2>1, <2>2
<1>6. \A b \in Attempts : /\ conv'[b] => path'[b] # "none"
                          /\ received'[b] => conv'[b]
                          /\ txStatus'[b] = "COMPLETED" => received'[b]
                          /\ txStatus'[b] = "FAILED" /\ faults' = 0
                               => payout'[b] \in {"idle", "bounced"}
  BY <1>1, <1>3 DEF DirectInv
<1>7. LedgerMatchesCompletion'
  BY <1>1, <1>2, <1>3 DEF DirectInv, LedgerMatchesCompletion
<1>8. \A k \in Admins : op'[k] \notin {"DISBURSED", "initiated"}
  BY <1>3 DEF DirectInv
<1> QED BY <1>1, <1>5, <1>6, <1>7, <1>8 DEF DirectInv

\* A refused or timed out call: the attempt fails that was asked for by nobody
\* else, before the provider could have answered, or with a fault.
LEMMA DirectFailsStep ==
    ASSUME IInv, DirectInv, NEW m \in Admins, DirectRefused(m) \/ DirectTimesOut(m)
    PROVE  DirectInv'
<1>t. TypeOK /\ faults \in Nat
  BY BoundsAssumption DEF IInv, TypeOK
<1>1. /\ op[m] = "rows"
      /\ txStatus' = [txStatus EXCEPT ![att[m]] = "FAILED"]
      /\ op' = [op EXCEPT ![m] = "idle"] /\ att' = [att EXCEPT ![m] = NoTx]
      /\ UNCHANGED <<disbTx, path, conv, received, ledger, notices, accepted, queue>>
  BY DEF DirectRefused, DirectTimesOut, MarkAttemptFailed, Finish
<1>2. PICK a \in Attempts : a = att[m]
  BY <1>1 DEF DirectInv, FlightInv
<1>3. /\ ~conv[a] /\ txStatus[a] = "PENDING" /\ payout[a] = "idle"
      /\ \A k \in Admins \ {m} : op[k] \in {"rows", "sent"} => att[k] \in Attempts \ {a}
  BY <1>1, <1>2 DEF DirectInv, FlightInv, IInv, AttemptInv
<1>4. /\ \/ payout' = payout /\ faults' = faults
         \/ payout' = [payout EXCEPT ![a] = "requested"] /\ faults' # 0
      /\ \A b \in Attempts \ {a} : payout'[b] = payout[b]
      /\ faults' = 0 => faults = 0
  BY <1>t, <1>2 DEF DirectRefused, DirectTimesOut, Fault, TypeOK
<1>5. /\ txStatus'[a] = "FAILED"
      /\ \A b \in Attempts \ {a} : txStatus'[b] = txStatus[b]
      /\ op'[m] = "idle" /\ \A k \in Admins \ {m} : op'[k] = op[k] /\ att'[k] = att[k]
  BY <1>1, <1>2, <1>t DEF TypeOK
<1>6. FlightInv'
  <2> SUFFICES ASSUME NEW k \in Admins, op'[k] \in {"rows", "sent"}
               PROVE  /\ att'[k] \in Attempts
                      /\ path'[att'[k]] = "direct" /\ ~conv'[att'[k]]
                      /\ txStatus'[att'[k]] = "PENDING"
                      /\ \A j \in Admins \ {k} : op'[j] \in {"rows", "sent"} => att'[j] # att'[k]
    BY DEF FlightInv
  <2>1. k # m /\ att'[k] = att[k] /\ att[k] \in Attempts \ {a} /\ op[k] \in {"rows", "sent"}
    BY <1>3, <1>5
  <2>2. path[att[k]] = "direct" /\ ~conv[att[k]] /\ txStatus[att[k]] = "PENDING"
    BY <2>1 DEF DirectInv, FlightInv
  <2>3. \A j \in Admins \ {k} : op'[j] \in {"rows", "sent"} => att'[j] # att[k]
    BY <1>5, <2>1 DEF DirectInv, FlightInv
  <2> QED BY <1>1, <1>5, <2>1, <2>2, <2>3
<1>7. \A b \in Attempts : /\ conv'[b] => path'[b] # "none"
                          /\ received'[b] => conv'[b]
                          /\ txStatus'[b] = "COMPLETED" => received'[b]
                          /\ txStatus'[b] = "FAILED" /\ faults' = 0
                               => payout'[b] \in {"idle", "bounced"}
  BY <1>1, <1>3, <1>4, <1>5 DEF DirectInv
<1>8. \A b \in Attempts : payout[b] = "bounced" => payout'[b] = "bounced"
  BY <1>3, <1>4
<1>9. /\ \A n \in notices' \cup accepted' : ~n.ok => payout'[n.a] = "bounced"
      /\ \A t \in queue' : ~t.ok => payout'[t.a] = "bounced"
      /\ \A t \in queue' : conv'[t.a]
  <2>1. \A n \in notices \cup accepted : n.a \in Attempts
    BY <1>t DEF TypeOK, Notices
  <2>2. \A t \in queue : t.a \in Attempts
    BY <1>t DEF TypeOK, Tasks
  <2> QED BY <1>1, <1>8, <2>1, <2>2 DEF DirectInv
<1>10. LedgerMatchesCompletion'
  BY <1>1, <1>3, <1>5 DEF DirectInv, LedgerMatchesCompletion
<1>11. \A k \in Admins : op'[k] \notin {"DISBURSED", "initiated"}
  BY <1>5 DEF DirectInv
<1> QED BY <1>1, <1>6, <1>7, <1>9, <1>10, <1>11 DEF DirectInv

\* The provider takes the payout: its attempt is PENDING, its request still the same.
LEMMA DirectAcceptedStep ==
    ASSUME IInv, DirectInv, NEW m \in Admins, DirectAccepted(m)
    PROVE  DirectInv'
<1>t. TypeOK
  BY DEF IInv
<1>1. /\ op[m] = "rows" /\ op' = [op EXCEPT ![m] = "sent"]
      /\ payout' = [payout EXCEPT ![att[m]] = "requested"]
      /\ UNCHANGED <<att, disbTx, path, txStatus, conv, received, ledger, notices, accepted,
                     queue, faults>>
  BY DEF DirectAccepted, Goes
<1>2. PICK a \in Attempts : a = att[m]
  BY <1>1 DEF DirectInv, FlightInv
<1>3. txStatus[a] = "PENDING" /\ payout[a] = "idle"
  BY <1>1, <1>2 DEF DirectInv, FlightInv, IInv, AttemptInv
<1>4. /\ \A b \in Attempts \ {a} : payout'[b] = payout[b]
      /\ \A k \in Admins : /\ op'[k] \in {"rows", "sent"} <=> op[k] \in {"rows", "sent"}
                           /\ op'[k] \notin {"DISBURSED", "initiated"}
  BY <1>1, <1>2, <1>t DEF TypeOK, DirectInv
<1>5. FlightInv'
  BY <1>1, <1>4 DEF DirectInv, FlightInv
<1>6. \A b \in Attempts : txStatus'[b] = "FAILED" /\ faults' = 0
                            => payout'[b] \in {"idle", "bounced"}
  BY <1>1, <1>3, <1>4 DEF DirectInv
<1>7. \A b \in Attempts : payout[b] = "bounced" => payout'[b] = "bounced"
  BY <1>3, <1>4
<1>8. /\ \A n \in notices' \cup accepted' : ~n.ok => payout'[n.a] = "bounced"
      /\ \A t \in queue' : ~t.ok => payout'[t.a] = "bounced"
  <2>1. \A n \in notices \cup accepted : n.a \in Attempts
    BY <1>t DEF TypeOK, Notices
  <2>2. \A t \in queue : t.a \in Attempts
    BY <1>t DEF TypeOK, Tasks
  <2> QED BY <1>1, <1>7, <2>1, <2>2 DEF DirectInv
<1>9. LedgerMatchesCompletion'
  BY <1>1 DEF DirectInv, LedgerMatchesCompletion
<1> QED BY <1>1, <1>4, <1>5, <1>6, <1>8, <1>9 DEF DirectInv

\* The conversation id is written while no result of the attempt was found yet.
LEMMA DirectRecordsStep ==
    ASSUME IInv, DirectInv, NEW m \in Admins, DirectRecords(m)
    PROVE  DirectInv'
<1>t. TypeOK
  BY DEF IInv
<1>1. /\ op[m] = "sent"
      /\ txStatus' = [txStatus EXCEPT ![att[m]] = "SENT"]
      /\ conv' = [conv EXCEPT ![att[m]] = TRUE]
      /\ op' = [op EXCEPT ![m] = "idle"] /\ att' = [att EXCEPT ![m] = NoTx]
      /\ UNCHANGED <<disbTx, path, received, ledger, payout, notices, accepted, queue, faults>>
  BY DEF DirectRecords, Finish
<1>2. PICK a \in Attempts : a = att[m]
  BY <1>1 DEF DirectInv, FlightInv
<1>3. /\ path[a] = "direct" /\ txStatus[a] = "PENDING"
      /\ \A k \in Admins \ {m} : op[k] \in {"rows", "sent"} => att[k] \in Attempts \ {a}
  BY <1>1, <1>2 DEF DirectInv, FlightInv
<1>4. /\ txStatus'[a] = "SENT" /\ conv'[a]
      /\ \A b \in Attempts \ {a} : txStatus'[b] = txStatus[b] /\ conv'[b] = conv[b]
      /\ op'[m] = "idle" /\ \A k \in Admins \ {m} : op'[k] = op[k] /\ att'[k] = att[k]
  BY <1>1, <1>2, <1>t DEF TypeOK
<1>5. FlightInv'
  <2> SUFFICES ASSUME NEW k \in Admins, op'[k] \in {"rows", "sent"}
               PROVE  /\ att'[k] \in Attempts
                      /\ path'[att'[k]] = "direct" /\ ~conv'[att'[k]]
                      /\ txStatus'[att'[k]] = "PENDING"
                      /\ \A j \in Admins \ {k} : op'[j] \in {"rows", "sent"} => att'[j] # att'[k]
    BY DEF FlightInv
  <2>1. k # m /\ att'[k] = att[k] /\ att[k] \in Attempts \ {a} /\ op[k] \in {"rows", "sent"}
    BY <1>3, <1>4
  <2>2. path[att[k]] = "direct" /\ ~conv[att[k]] /\ txStatus[att[k]] = "PENDING"
    BY <2>1 DEF DirectInv, FlightInv
  <2>3. \A j \in Admins \ {k} : op'[j] \in {"rows", "sent"} => att'[j] # att[k]
    BY <1>4, <2>1 DEF DirectInv, FlightInv
  <2> QED BY <1>1, <1>4, <2>1, <2>2, <2>3
<1>6. \A b \in Attempts : /\ conv'[b] => path'[b] # "none"
                          /\ received'[b] => conv'[b]
                          /\ txStatus'[b] = "COMPLETED" => received'[b]
                          /\ txStatus'[b] = "FAILED" /\ faults' = 0
                               => payout'[b] \in {"idle", "bounced"}
  BY <1>1, <1>3, <1>4 DEF DirectInv
<1>7. \A t \in queue' : conv'[t.a]
  <2>1. \A t \in queue : t.a \in Attempts
    BY <1>t DEF TypeOK, Tasks
  <2> QED BY <1>1, <1>4, <2>1 DEF DirectInv
<1>8. LedgerMatchesCompletion'
  BY <1>1, <1>3, <1>4 DEF DirectInv, LedgerMatchesCompletion
<1>9. \A k \in Admins : op'[k] \notin {"DISBURSED", "initiated"}
  BY <1>4 DEF DirectInv
<1> QED BY <1>1, <1>5, <1>6, <1>7, <1>8, <1>9 DEF DirectInv

\* The provider settles an attempt once, so an earlier result stays true.
LEMMA DirectSettlesStep ==
    ASSUME IInv, DirectInv, NEW a \in Attempts, NEW ok \in BOOLEAN, ProviderSettles(a, ok)
    PROVE  DirectInv'
<1>t. TypeOK
  BY DEF IInv
<1>1. /\ payout[a] = "requested"
      /\ payout' = [payout EXCEPT ![a] = IF ok THEN "paid" ELSE "bounced"]
      /\ notices' = notices \cup {[a |-> a, ok |-> ok]}
      /\ UNCHANGED <<disbTx, op, att, path, txStatus, conv, received, ledger, accepted, queue,
                     faults>>
  BY DEF ProviderSettles
<1>2. /\ payout'[a] = IF ok THEN "paid" ELSE "bounced"
      /\ \A b \in Attempts \ {a} : payout'[b] = payout[b]
  BY <1>1, <1>t DEF TypeOK
<1>3. FlightInv'
  BY <1>1 DEF DirectInv, FlightInv
<1>4. \A b \in Attempts : txStatus'[b] = "FAILED" /\ faults' = 0
                            => payout'[b] \in {"idle", "bounced"}
  BY <1>1, <1>2 DEF DirectInv
<1>5. \A b \in Attempts : payout[b] = "bounced" => payout'[b] = "bounced"
  BY <1>1, <1>2
<1>6. /\ \A n \in notices \cup accepted : ~n.ok => payout'[n.a] = "bounced"
      /\ \A t \in queue' : ~t.ok => payout'[t.a] = "bounced"
  <2>1. \A n \in notices \cup accepted : n.a \in Attempts
    BY <1>t DEF TypeOK, Notices
  <2>2. \A t \in queue : t.a \in Attempts
    BY <1>t DEF TypeOK, Tasks
  <2> QED BY <1>1, <1>5, <2>1, <2>2 DEF DirectInv
<1>7. \A n \in notices' \cup accepted' : ~n.ok => payout'[n.a] = "bounced"
  BY <1>1, <1>2, <1>6
<1>8. LedgerMatchesCompletion'
  BY <1>1 DEF DirectInv, LedgerMatchesCompletion
<1> QED BY <1>1, <1>3, <1>4, <1>6, <1>7, <1>8 DEF DirectInv

\* The webhook finds the conversation id and hands the result on as it came.
LEMMA DirectEnqueuesStep ==
    ASSUME IInv, DirectInv, NEW n \in notices \cup calls, WebhookEnqueues(n)
    PROVE  DirectInv'
<1>1. PICK t : t = [kind |-> IF disbTx # NoTx THEN "disbursement" ELSE "b2c", a |-> n.a,
                    ok |-> n.ok]
  OBVIOUS
<1>2. /\ conv[n.a] /\ queue' = queue \cup {t}
      /\ notices' \cup accepted' = notices \cup accepted
      /\ n \in notices \cup accepted
      /\ UNCHANGED <<disbTx, op, att, path, txStatus, conv, received, ledger, payout, faults>>
  BY <1>1 DEF WebhookEnqueues, Acknowledges, IInv, ResultInv
<1>3. t.a = n.a /\ t.ok = n.ok
  BY <1>1
<1>4. /\ \A u \in queue' : conv'[u.a]
      /\ \A u \in queue' : ~u.ok => payout'[u.a] = "bounced"
  BY <1>2, <1>3 DEF DirectInv
<1>5. FlightInv' /\ LedgerMatchesCompletion'
  BY <1>2 DEF DirectInv, FlightInv, LedgerMatchesCompletion
<1> QED BY <1>2, <1>4, <1>5 DEF DirectInv

\* process_b2c_callback applies a result to an attempt that is not completed, so the
\* ledger and the transaction change together or not at all.
LEMMA DirectProcessesStep ==
    ASSUME IInv, DirectInv, NEW t \in queue, B2CProcesses(t)
    PROVE  DirectInv'
<1>t. TypeOK
  BY DEF IInv
<1>1. PICK a \in Attempts : a = t.a
  BY <1>t DEF TypeOK, Tasks
<1>2. /\ ~AlreadyProcessed(a)
      /\ received' = [received EXCEPT ![a] = TRUE]
      /\ txStatus' = [txStatus EXCEPT ![a] = IF t.ok THEN "COMPLETED" ELSE "FAILED"]
      /\ ledger' = ledger \cup (IF t.ok THEN {a} ELSE {})
      /\ queue' \subseteq queue
      /\ UNCHANGED <<disbTx, op, att, path, conv, payout, notices, accepted, faults>>
  BY <1>1 DEF B2CProcesses, ApplyResult, Takes, Entry
<1>3. /\ conv[a] /\ (~t.ok => payout[a] = "bounced")
      /\ txStatus[a] # "COMPLETED"
  BY <1>1, <1>2 DEF DirectInv, AlreadyProcessed
<1>4. /\ received'[a] /\ (txStatus'[a] = IF t.ok THEN "COMPLETED" ELSE "FAILED")
      /\ \A b \in Attempts \ {a} : txStatus'[b] = txStatus[b] /\ received'[b] = received[b]
  BY <1>2, <1>t DEF TypeOK
<1>5. FlightInv'
  <2> SUFFICES ASSUME NEW k \in Admins, op[k] \in {"rows", "sent"}
               PROVE  /\ att[k] \in Attempts
                      /\ path[att[k]] = "direct" /\ ~conv[att[k]]
                      /\ txStatus'[att[k]] = "PENDING"
                      /\ \A j \in Admins \ {k} : op[j] \in {"rows", "sent"} => att[j] # att[k]
    BY <1>2 DEF FlightInv
  <2>1. /\ att[k] \in Attempts
        /\ path[att[k]] = "direct" /\ ~conv[att[k]] /\ txStatus[att[k]] = "PENDING"
        /\ \A j \in Admins \ {k} : op[j] \in {"rows", "sent"} => att[j] # att[k]
    BY DEF DirectInv, FlightInv
  <2>2. att[k] # a
    BY <1>3, <2>1
  <2> QED BY <1>4, <2>1, <2>2
<1>6. \A b \in Attempts : /\ conv'[b] => path'[b] # "none"
                          /\ received'[b] => conv'[b]
                          /\ txStatus'[b] = "COMPLETED" => received'[b]
                          /\ txStatus'[b] = "FAILED" /\ faults' = 0
                               => payout'[b] \in {"idle", "bounced"}
  BY <1>2, <1>3, <1>4 DEF DirectInv
<1>7. LedgerMatchesCompletion'
  BY <1>2, <1>3, <1>4 DEF DirectInv, LedgerMatchesCompletion
<1>8. /\ \A u \in queue' : conv'[u.a]
      /\ \A u \in queue' : ~u.ok => payout'[u.a] = "bounced"
      /\ \A n \in notices' \cup accepted' : ~n.ok => payout'[n.a] = "bounced"
      /\ \A k \in Admins : op'[k] \notin {"DISBURSED", "initiated"}
  BY <1>2 DEF DirectInv
<1> QED BY <1>2, <1>5, <1>6, <1>7, <1>8 DEF DirectInv

\* Without the status endpoint nobody is inside initiate, and nobody has a
\* disbursement transaction to confirm, dispute or resolve.
LEMMA DirectStep ==
    ASSUME "status" \notin Endpoints, IInv, DirectInv, [Next]_vars
    PROVE  DirectInv'
<1>t. TypeOK /\ faults \in Nat
  BY BoundsAssumption DEF IInv, TypeOK
<1>n. /\ disbTx = NoTx /\ confirmReq = "idle" /\ link = "none" /\ auto = "idle"
      /\ \A t \in queue : t.kind # "disbursement"
  BY <1>t DEF DirectInv, IInv, TaskInv, TypeOK
<1>1. ASSUME NEW m \in Admins, AdminRequest(m) PROVE DirectInv'
  <2>1. ASSUME NEW new \in Decisions, AdminReads(m, new) PROVE DirectInv'
    <3>1. /\ op' = [op EXCEPT ![m] = new] /\ new \in Decisions \ {"DISBURSED"}
          /\ UNCHANGED <<att, disbTx, txVars, ledger, payout, notices, accepted, queue, faults>>
      BY <2>1 DEF AdminReads, Goes
    <3>2. \A k \in Admins : /\ op'[k] \notin {"DISBURSED", "initiated"}
                            /\ op'[k] \in {"rows", "sent"}
                                 => op[k] \in {"rows", "sent"} /\ att'[k] = att[k]
      BY <3>1, <1>t DEF TypeOK, DirectInv, Decisions
    <3> QED BY <3>1, <3>2, DirectQuietStep
  <2>2. ASSUME AdminWrites(m) \/ DirectCrashes(m) PROVE DirectInv'
    <3>1. /\ op' = [op EXCEPT ![m] = "idle"] /\ att' = [att EXCEPT ![m] = NoTx]
          /\ UNCHANGED <<disbTx, txVars, ledger, payout, notices, accepted, queue>>
          /\ faults' = 0 => faults = 0
      BY <2>2, <1>t DEF AdminWrites, DirectCrashes, Finish, Fault
    <3>2. \A k \in Admins : /\ op'[k] \notin {"DISBURSED", "initiated"}
                            /\ op'[k] \in {"rows", "sent"}
                                 => op[k] \in {"rows", "sent"} /\ att'[k] = att[k]
      BY <3>1, <1>t DEF TypeOK, DirectInv
    <3> QED BY <3>1, <3>2, DirectQuietStep
  <2>3. ASSUME DirectReads(m) PROVE DirectInv'
    <3>1. /\ op' = [op EXCEPT ![m] = "direct"]
          /\ UNCHANGED <<att, disbTx, txVars, ledger, payout, notices, accepted, queue, faults>>
      BY <2>3 DEF DirectReads, Goes
    <3>2. \A k \in Admins : /\ op'[k] \notin {"DISBURSED", "initiated"}
                            /\ op'[k] \in {"rows", "sent"}
                                 => op[k] \in {"rows", "sent"} /\ att'[k] = att[k]
      BY <3>1, <1>t DEF TypeOK, DirectInv
    <3> QED BY <3>1, <3>2, DirectQuietStep
  <2>4. ASSUME \/ InitiateFails(m) \/ InitiateCommits(m) \/ InitiateCrashes(m)
               \/ \E a \in Attempts : InitiateCalls(m, a)
        PROVE  FALSE
    BY <2>4 DEF InitiateFails, InitiateCommits, InitiateWrites, InitiateCrashes,
      InitiateCalls, DirectInv
  <2> QED BY <1>1, <2>1, <2>2, <2>3, <2>4, DirectCreatesStep, DirectFailsStep,
             DirectAcceptedStep, DirectRecordsStep DEF AdminRequest
<1>2. ASSUME \/ \E new \in LoanStatuses : GuarantorResponds(new)
             \/ \E a \in Attempts : ReplayMarkerExpires(a)
             \/ \E n \in accepted : ProviderRedelivers(n)
             \/ UNCHANGED vars
      PROVE  DirectInv'
  <2>1. /\ UNCHANGED <<op, att, disbTx, txVars, ledger, payout, queue, faults>>
        /\ notices' \cup accepted' \subseteq notices \cup accepted
    BY <1>2 DEF GuarantorResponds, ReplayMarkerExpires, ProviderRedelivers, vars
  <2> QED BY <2>1, DirectQuietStep DEF DirectInv
<1>3. ASSUME NEW n \in notices \cup calls, Webhook(n) PROVE DirectInv'
  <2>1. CASE WebhookEnqueues(n)
    BY <2>1, DirectEnqueuesStep
  <2>2. CASE ~WebhookEnqueues(n)
    <3>1. /\ UNCHANGED <<op, att, disbTx, txVars, ledger, payout, queue>>
          /\ notices' \cup accepted' \subseteq notices \cup accepted
          /\ faults' = 0 => faults = 0
      BY <1>3, <2>2, <1>t DEF Webhook, WebhookDropsReplay, WebhookDropsSecondCall,
        DropsReplay, WebhookEnters, WebhookUnknown, WebhookBrokerDown, WebhookFails,
        WebhookParks, Parks, Acknowledges, Fault
    <3> QED BY <3>1, DirectQuietStep DEF DirectInv
  <2> QED BY <2>1, <2>2
<1>4. ASSUME NEW t \in queue, Worker(t) \/ CallbackLost(t) PROVE DirectInv'
  <2>1. CASE B2CProcesses(t)
    BY <2>1, DirectProcessesStep
  <2>2. CASE B2CSkips(t) \/ CallbackLost(t)
    <3>1. /\ UNCHANGED <<op, att, disbTx, txVars, ledger, payout, notices, accepted>>
          /\ queue' \subseteq queue
          /\ faults' = 0 => faults = 0
      BY <2>2, <1>t DEF B2CSkips, CallbackLost, TaskLost, Takes, Fault
    <3> QED BY <3>1, DirectQuietStep DEF DirectInv
  <2>3. ~CallbackHasNoEffect(t) /\ ~CallbackDisburses(t) /\ ~CallbackFails(t)
    BY <1>n DEF CallbackHasNoEffect, CallbackDisburses, Disburse, CallbackFails,
      FailDisbursement
  <2> QED BY <1>4, <2>1, <2>2, <2>3 DEF Worker
<1>5. /\ ~ConfirmationLost /\ ~TimerLost /\ ~SendConfirmation /\ ~DayPasses
      /\ ~MemberConfirms /\ ~MemberDisputes /\ ~AutoResolve
  BY <1>n DEF ConfirmationLost, TimerLost, SendConfirmation, AskMember, DayPasses,
    MemberConfirms, MemberDisputes, AutoResolve, AutoReads, AutoYields, AutoConfirms,
    AutoConfirm, AutoEscalates
<1> QED BY <1>1, <1>2, <1>3, <1>4, <1>5, DirectSettlesStep DEF Next, Provider

\* DirectInv holds wherever only the direct endpoint is used.
LEMMA DirectInvariance ==
    ASSUME "status" \notin Endpoints PROVE Spec => [](IInv /\ DirectInv)
<1>1. Init => IInv /\ DirectInv
  BY InitIInv DEF Init, DirectInv, FlightInv, LedgerMatchesCompletion
<1>2. IInv /\ DirectInv /\ [Next]_vars => (IInv /\ DirectInv)'
  BY StepIInv, DirectStep
<1> QED BY <1>1, <1>2, PTL DEF Spec

\* An automatic confirmation excludes an answer of the member, before and after.
THEOREM TimerYieldsToMember ==
    ASSUME DirectUnused PROVE Spec => []AutoConfirmStandsAlone
<1>1. BooksInv => AutoConfirmStandsAlone
  BY DEF BooksInv, TimerInv
<1> QED BY BooksInvariance, <1>1, PTL

\* Each disbursement endpoint on its own, or both while no request has a session: a
\* transaction recorded as FAILED did not pay the member, unless a fault hid the
\* provider's answer.
THEOREM FailureIsTrue ==
    ASSUME DirectUnused \/ "status" \notin Endpoints PROVE Spec => []FailedWasNotPaid
<1>1. BooksInv => FailedWasNotPaid
  BY DEF BooksInv, OutcomeInv, FailedWasNotPaid, Paid
<1>2. IInv /\ DirectInv => FailedWasNotPaid
  <2>1. IInv => faults \in Nat
    BY BoundsAssumption DEF IInv, TypeOK
  <2> QED BY <2>1 DEF DirectInv, FailedWasNotPaid, Paid
<1>3. CASE DirectUnused
  BY <1>3, BooksInvariance, <1>1, PTL
<1>4. CASE "status" \notin Endpoints
  BY <1>4, DirectInvariance, <1>2, PTL
<1> QED BY <1>3, <1>4

\* Each disbursement endpoint on its own, or both while no request has a session: the
\* ledger shows a disbursement exactly when its transaction is COMPLETED.
THEOREM LedgerShowsCompletion ==
    ASSUME DirectUnused \/ "status" \notin Endpoints PROVE Spec => []LedgerMatchesCompletion
<1>1. BooksInv => LedgerMatchesCompletion
  BY DEF BooksInv, OutcomeInv
<1>2. DirectInv => LedgerMatchesCompletion
  BY DEF DirectInv
<1>3. CASE DirectUnused
  BY <1>3, BooksInvariance, <1>1, PTL
<1>4. CASE "status" \notin Endpoints
  BY <1>4, DirectInvariance, <1>2, PTL
<1> QED BY <1>3, <1>4

\* The provider pays a loan at most once more than there were faults, for any
\* number of admins, attempts and redelivered callbacks.
THEOREM SecondPayoutNeedsFault ==
    ASSUME DirectUnused PROVE Spec => []PaidTwiceOnlyByFault
<1>1. IInv /\ BooksInv => PaidTwiceOnlyByFault
  <2> SUFFICES ASSUME IInv, BooksInv PROVE PaidTwiceOnlyByFault
    OBVIOUS
  <2>1. IsFiniteSet(Asked) /\ Paid \subseteq Asked
    BY DEF BooksInv, AskedInv, Asked, Paid
  <2>2. Cardinality(Paid) <= Cardinality(Asked) /\ IsFiniteSet(Paid)
    BY <2>1, FS_Subset
  <2>3. Cardinality(Paid) \in Nat /\ Cardinality(Asked) \in Nat /\ faults \in Nat
    BY <2>1, <2>2, FS_CardinalityType, BoundsAssumption DEF IInv, TypeOK
  <2>4. Cardinality(Asked) <= faults + 1
    BY <2>3 DEF BooksInv, AskedInv
  <2> QED BY <2>2, <2>3, <2>4 DEF PaidTwiceOnlyByFault
<1> QED BY Invariance, BooksInvariance, <1>1, PTL

\* Results that the provider was told to stop sending, and that are neither with a
\* worker nor in a Callback row, are at most as many as there were faults: for every
\* mix of endpoints, any number of attempts and any bound on faults.
THEOREM LossNeedsFault == Spec => []LostOnlyByFault
<1>1. Init => NoticeInv
  <2> SUFFICES ASSUME Init PROVE NoticeInv
    OBVIOUS
  <2>1. Unkept = {} /\ faults = 0
    BY DEF Init, Unkept
  <2>2. IsFiniteSet({}) /\ Cardinality({}) = 0
    BY FS_EmptySet
  <2> QED BY <2>1, <2>2 DEF Init, NoticeInv
<1>2. IInv /\ NoticeInv /\ [Next]_vars => NoticeInv'
  <2>1. ASSUME NoticeInv, UNCHANGED vars PROVE NoticeInv'
    <3>1. Unkept' = Unkept /\ faults' = faults
      BY <2>1 DEF Unkept, vars
    <3> QED BY <2>1, <3>1 DEF NoticeInv, vars
  <2> QED BY NoticeStep, <2>1
<1>3. IInv /\ NoticeInv => LostOnlyByFault
  <2> SUFFICES ASSUME IInv, NoticeInv PROVE LostOnlyByFault
    OBVIOUS
  <2>1. Lost \subseteq Unkept
    <3> SUFFICES ASSUME NEW a \in Lost PROVE a \in Unkept
      OBVIOUS
    <3>1. PICK n \in accepted : n.a = a /\ n \notin enqueued \cup parked
      BY DEF Lost
    <3>2. ASSUME NEW k \in enqueued \cup parked, k.a = a PROVE FALSE
      <4>1. (n.ok <=> k.ok) /\ n \in Notices /\ k \in Notices
        BY <3>1, <3>2 DEF NoticeInv, IInv, TypeOK, Notices
      <4>2. n = k
        BY <3>1, <3>2, <4>1 DEF Notices
      <4> QED BY <3>1, <4>2
    <3> QED BY <3>1, <3>2 DEF Lost, Unkept
  <2>2. /\ IsFiniteSet(Lost) /\ Cardinality(Lost) <= Cardinality(Unkept)
        /\ Cardinality(Lost) \in Nat /\ Cardinality(Unkept) \in Nat
    BY <2>1, FS_Subset, FS_CardinalityType DEF NoticeInv
  <2>3. faults \in Nat
    BY BoundsAssumption DEF IInv, TypeOK
  <2> QED BY <2>2, <2>3 DEF LostOnlyByFault, NoticeInv
<1> QED BY Invariance, <1>1, <1>2, <1>3, PTL DEF Spec
=============================================================================

----------------------------- MODULE Guarantees -----------------------------
(***************************************************************************)
(* The guarantors of a loan, from the application to the admin's approval: *)
(* fellow members who are asked and answer (services/views.py 600-985,     *)
(* services/engines/guarantor_logic.py, services/signals.py), people from  *)
(* outside who answer by a link in an SMS and are reviewed by the SACCO    *)
(* (guarantor/external_views.py, guarantor/utils.py), and the admin's      *)
(* status endpoint, which asks check_loan_guarantors_complete.             *)
(*                                                                         *)
(* Requests are handled by Workers at the same time.  None of the handlers *)
(* locks what it reads first, so each is a step that reads and one or more *)
(* that write; a worker record holds what was read.  The database is READ  *)
(* COMMITTED: an approval is visible to the others when it commits.        *)
(*                                                                         *)
(* All loans are of one type that requires guarantors, and start where     *)
(* LoanApplyView (GUARANTORS_PENDING) or LoanCollectionView (PENDING)      *)
(* leaves them.  Money is counted in units.                                *)
(***************************************************************************)
EXTENDS Integers, FiniteSets, Functions

CONSTANTS
  Loans,         \* loan applications
  Members,       \* members who may be asked, none of them a borrower
  Externals,     \* people from outside who may be named
  Workers,       \* web workers
  Required,      \* loan_type.min_guarantors
  LoanAmount,    \* amount of every loan
  Amounts,       \* guarantee amounts that are asked for
  Savings,       \* active savings of every member
  Repeats,       \* whether a member's answer may be sent again while it is handled
  None           \* no GuaranteeCapacity row; no loan; no response

ASSUME GuaranteesAssumption ==
  /\ Required \in Nat /\ LoanAmount \in Nat /\ Savings \in Nat
  /\ Amounts \subseteq Nat \ {0}
  /\ Repeats \in BOOLEAN
  /\ None \notin Nat \cup Loans \cup {"ACCEPTED", "DECLINED"}

VARIABLES
  loanStatus,  \* Loan.status
  guarantee,   \* the Guarantor row of a loan and a member
  capacity,    \* GuaranteeCapacity.available_capacity of a member
  external,    \* the ExternalGuarantor rows
  worker       \* what every worker is doing

vars == <<loanStatus, guarantee, capacity, external, worker>>

LoanStatuses == {"PENDING", "GUARANTORS_PENDING", "PENDING_APPROVAL",
                 "UNDER_REVIEW", "APPROVED", "ACTIVE", "REJECTED"}

\* "NONE": there is no such row yet.
GuaranteeRows == [status : {"NONE", "PENDING", "APPROVED", "DECLINED"},
                  amount : Amounts \cup {0}]

\* "answers" is not in the row: it is the history of the answers given.
ExternalRows == [loan : Loans \cup {None},
                 status : {"NONE", "PENDING_SMS", "SMS_SENT", "ACCEPTED", "DECLINED",
                           "APPROVED_BY_ADMIN", "REJECTED_BY_ADMIN"},
                 response : {None, "ACCEPTED", "DECLINED"},
                 answers : SUBSET {"ACCEPTED", "DECLINED"},
                 amount : Amounts \cup {0},
                 linkLive : BOOLEAN]

Jobs == [at : {"idle"}]
   \cup [at : {"search"}, member : Members, found : Nat]
   \cup [at : {"ask"}, loan : Loans, member : Members, amount : Amounts,
         seen : LoanStatuses]
   \cup [at : {"answer", "approve"}, loan : Loans, member : Members,
         action : {"APPROVE", "DECLINE"}]
   \cup [at : {"commit"}, loan : Loans, member : Members, found : Nat,
         enough : BOOLEAN]
   \cup [at : {"decide"}, loan : Loans, target : LoanStatuses]
   \cup [at : {"sms", "mark"}, ext : Externals]
   \cup [at : {"link", "review"}, ext : Externals, action : {"ACCEPT", "DECLINE", "APPROVE", "REJECT"}]

TypeOK ==
  /\ loanStatus \in [Loans -> LoanStatuses]
  /\ guarantee \in [Loans -> [Members -> GuaranteeRows]]
  /\ capacity \in [Members -> Nat \cup {None}]
  /\ external \in [Externals -> ExternalRows]
  /\ worker \in [Workers -> Jobs]

Idle == [at |-> "idle"]

Init ==
  /\ loanStatus \in [Loans -> {"PENDING", "GUARANTORS_PENDING"}]
  /\ guarantee = [l \in Loans |-> [m \in Members |-> [status |-> "NONE", amount |-> 0]]]
  /\ capacity = [m \in Members |-> None]
  /\ external = [e \in Externals |-> [loan |-> None, status |-> "NONE", response |-> None,
                                      answers |-> {}, amount |-> 0, linkLive |-> FALSE]]
  /\ worker = [w \in Workers |-> Idle]

-----------------------------------------------------------------------------
(* What the code computes from the rows                                     *)

AtLeastZero(n) == IF n < 0 THEN 0 ELSE n

\* Loans whose approved guarantees count (guarantor_logic.py); the statuses
\* DISBURSEMENT_PENDING and BOARD_REVIEW of that list are not in this model.
CountedStatuses == {"ACTIVE", "PENDING_APPROVAL", "UNDER_REVIEW"}

\* calculate_guarantee_capacity over the rows g: half of the savings less the
\* approved guarantees of loans in a counted status.
AvailableCapacity(m, g) ==
  LET counted == {l \in Loans : g[l][m].status = "APPROVED" /\ loanStatus[l] \in CountedStatuses}
  IN  AtLeastZero((Savings \div 2) - SumFunctionOnSet([l \in Loans |-> g[l][m].amount], counted))

\* GuarantorSearchView's own computation: all of the savings less every
\* guarantee that is pending or approved.
SearchCapacity(m) ==
  LET open == {l \in Loans : guarantee[l][m].status \in {"PENDING", "APPROVED"}}
  IN  AtLeastZero(Savings - SumFunctionOnSet([l \in Loans |-> guarantee[l][m].amount], open))

Approved(l, g) == {m \in Members : g[l][m].status = "APPROVED"}

ExternalsOf(l, statuses) == {e \in Externals : external[e].loan = l /\ external[e].status \in statuses}

\* Mutant: guarantors who were asked count before they answer.
EnoughAsked(l, g) ==
  Required > 0 /\ Cardinality({m \in Members : g[l][m].status \in {"PENDING", "APPROVED"}}) >= Required

\* GuarantorRespondView: the type's minimum is reached by the approvals in g.
Enough(l, g) == Required > 0 /\ Cardinality(Approved(l, g)) >= Required

\* What the approved members, and some outsiders, give for a loan.
GivenByMembers(l) ==
  SumFunctionOnSet([m \in Members |-> guarantee[l][m].amount], Approved(l, guarantee))
GivenByOutsiders(S) == SumFunctionOnSet([e \in Externals |-> external[e].amount], S)

\* Mutant: only undecided outsiders are looked for.
NobodyUndecided(l) == ExternalsOf(l, {"PENDING_SMS", "SMS_SENT", "ACCEPTED"}) = {}

\* check_loan_guarantors_complete: nobody from outside is undecided, and the
\* approved guarantees cover the loan.
GuarantorsComplete(l) ==
  /\ ExternalsOf(l, {"PENDING_SMS", "SMS_SENT", "ACCEPTED"}) = {}
  /\ LoanAmount <= GivenByMembers(l) + GivenByOutsiders(ExternalsOf(l, {"APPROVED_BY_ADMIN"}))

\* A transaction that has written the Guarantor row of l and m, or the
\* capacity row of m, and has not committed.
HoldsGuarantee(l, m) == \E w \in Workers : worker[w].at = "commit" /\ worker[w].loan = l
                                           /\ worker[w].member = m
HoldsCapacity(m) == \E w \in Workers : worker[w].at = "commit" /\ worker[w].member = m

Starts(w, job) == worker[w] = Idle /\ worker' = [worker EXCEPT ![w] = job]
Continues(w, job) == worker' = [worker EXCEPT ![w] = job]
Ends(w) == worker' = [worker EXCEPT ![w] = Idle]

-----------------------------------------------------------------------------
(* GuarantorSearchView: refreshes the capacity row of whoever is found      *)

Search(w, m) ==
  /\ Starts(w, [at |-> "search", member |-> m, found |-> SearchCapacity(m)])
  /\ UNCHANGED <<loanStatus, guarantee, capacity, external>>

SearchSave(w) ==
  /\ worker[w].at = "search"
  /\ ~HoldsCapacity(worker[w].member)
  /\ capacity' = [capacity EXCEPT ![worker[w].member] = worker[w].found]
  /\ Ends(w)
  /\ UNCHANGED <<loanStatus, guarantee, external>>

(* GuarantorRequestView: checks on unlocked reads, then creates the row     *)

Ask(w, l, m, a) ==
  /\ loanStatus[l] \in {"PENDING", "GUARANTORS_PENDING"}
  /\ a <= LoanAmount
  /\ a <= AvailableCapacity(m, guarantee)
  /\ Starts(w, [at |-> "ask", loan |-> l, member |-> m, amount |-> a, seen |-> loanStatus[l]])
  /\ UNCHANGED <<loanStatus, guarantee, capacity, external>>

\* A request that exists already is answered 400.
CreateGuarantee(w) ==
  LET job == worker[w] IN
  /\ job.at = "ask"
  /\ Ends(w)
  /\ IF guarantee[job.loan][job.member].status = "NONE"
     THEN /\ guarantee' = [guarantee EXCEPT ![job.loan][job.member] =
                             [status |-> "PENDING", amount |-> job.amount]]
          /\ loanStatus' = IF job.seen = "GUARANTORS_PENDING" THEN loanStatus
                           ELSE [loanStatus EXCEPT ![job.loan] = "GUARANTORS_PENDING"]
     ELSE UNCHANGED <<guarantee, loanStatus>>
  /\ UNCHANGED <<capacity, external>>

(* GuarantorRespondView                                                     *)

\* GuarantorCapacityCheck: there is a capacity row above zero, for a decline
\* as well as for an approval.
HasCapacity(m) == capacity[m] # None /\ capacity[m] > 0

\* The row's status is read before the transaction.
ReadAnswer(w, l, m, action) ==
  /\ HasCapacity(m)
  /\ guarantee[l][m].status = "PENDING"
  /\ Repeats \/ \A u \in Workers : worker[u].at \in {"answer", "approve", "commit"}
                                   => <<worker[u].loan, worker[u].member>> # <<l, m>>
  /\ Starts(w, [at |-> "answer", loan |-> l, member |-> m, action |-> action])
  /\ UNCHANGED <<loanStatus, guarantee, capacity, external>>

CheckCapacity(w) ==
  LET job == worker[w] IN
  /\ job.at = "answer" /\ job.action = "APPROVE"
  /\ IF capacity[job.member] < guarantee[job.loan][job.member].amount
     THEN Ends(w)
     ELSE Continues(w, [at |-> "approve", loan |-> job.loan, member |-> job.member,
                        action |-> job.action])
  /\ UNCHANGED <<loanStatus, guarantee, capacity, external>>

\* Saves the row (the signal and the view both recompute the capacity row,
\* with this approval seen), then counts the approvals it can see: those
\* committed and its own.
WriteApproval(w) ==
  LET job == worker[w]
      mine == [guarantee EXCEPT ![job.loan][job.member].status = "APPROVED"]
  IN
  /\ job.at = "approve"
  /\ ~HoldsGuarantee(job.loan, job.member) /\ ~HoldsCapacity(job.member)
  /\ Continues(w, [at |-> "commit", loan |-> job.loan, member |-> job.member,
                   found |-> AvailableCapacity(job.member, mine),
                   enough |-> Enough(job.loan, mine)])
  /\ UNCHANGED <<loanStatus, guarantee, capacity, external>>

CommitApproval(w) ==
  LET job == worker[w] IN
  /\ job.at = "commit"
  /\ guarantee' = [guarantee EXCEPT ![job.loan][job.member].status = "APPROVED"]
  /\ capacity' = [capacity EXCEPT ![job.member] = job.found]
  /\ loanStatus' = IF job.enough THEN [loanStatus EXCEPT ![job.loan] = "PENDING_APPROVAL"]
                   ELSE loanStatus
  /\ Ends(w)
  /\ UNCHANGED external

\* The post_save signal: an answer that changes the row's status refreshes the
\* member's capacity.
SignalRefreshes(l, m, answer) == guarantee[l][m].status # answer

\* The decline sends the loan back to PENDING, whatever its status.
Decline(w) ==
  LET job == worker[w]
      mine == [guarantee EXCEPT ![job.loan][job.member].status = "DECLINED"]
  IN
  /\ job.at = "answer" /\ job.action = "DECLINE"
  /\ ~HoldsGuarantee(job.loan, job.member) /\ ~HoldsCapacity(job.member)
  /\ guarantee' = mine
  /\ capacity' = IF SignalRefreshes(job.loan, job.member, "DECLINED")
                 THEN [capacity EXCEPT ![job.member] = AvailableCapacity(job.member, mine)]
                 ELSE capacity
  /\ loanStatus' = [loanStatus EXCEPT ![job.loan] = "PENDING"]
  /\ Ends(w)
  /\ UNCHANGED external

-----------------------------------------------------------------------------
(* ExternalGuarantorCreateView: the row, the SMS, and the status twice      *)

\* ExternalGuarantorCreateSerializer; there is no condition on the loan's
\* status.
MayName(a) == a <= LoanAmount

NameExternal(w, e, l, a) ==
  /\ external[e].status = "NONE"
  /\ MayName(a)
  /\ external' = [external EXCEPT ![e] = [loan |-> l, status |-> "PENDING_SMS", response |-> None,
                                          answers |-> {}, amount |-> a, linkLive |-> TRUE]]
  /\ Starts(w, [at |-> "sms", ext |-> e])
  /\ UNCHANGED <<loanStatus, guarantee, capacity>>

\* send_guarantor_sms: the client failed or did not send.
SmsNotSent(w) ==
  /\ worker[w].at = "sms"
  /\ Ends(w)
  /\ UNCHANGED <<loanStatus, guarantee, capacity, external>>

\* send_guarantor_sms: sent, and saved.
SmsSent(w) ==
  /\ worker[w].at = "sms"
  /\ external' = [external EXCEPT ![worker[w].ext].status = "SMS_SENT"]
  /\ Continues(w, [at |-> "mark", ext |-> worker[w].ext])
  /\ UNCHANGED <<loanStatus, guarantee, capacity>>

\* The view saves SMS_SENT again, whatever the status is by now.
MarkSent(w) ==
  /\ worker[w].at = "mark"
  /\ external' = [external EXCEPT ![worker[w].ext].status = "SMS_SENT"]
  /\ Ends(w)
  /\ UNCHANGED <<loanStatus, guarantee, capacity>>

(* ExternalGuarantorRespondView                                             *)

\* The token stays valid for 48 hours.
LinkExpires(e) ==
  /\ external[e].linkLive
  /\ external' = [external EXCEPT ![e].linkLive = FALSE]
  /\ UNCHANGED <<loanStatus, guarantee, capacity, worker>>

\* _get_external_guarantor.
LinkOpen(e) == external[e].linkLive /\ external[e].status = "SMS_SENT"

ReadLink(w, e, action) ==
  /\ LinkOpen(e)
  /\ Starts(w, [at |-> "link", ext |-> e, action |-> action])
  /\ UNCHANGED <<loanStatus, guarantee, capacity, external>>

\* Mutant: the action of the request is stored as the status.
UseLinkStoresAction(w) ==
  /\ worker[w].at = "link"
  /\ external' = [external EXCEPT ![worker[w].ext].status = worker[w].action,
                                  ![worker[w].ext].response = worker[w].action]
  /\ Ends(w)
  /\ UNCHANGED <<loanStatus, guarantee, capacity>>

UseLink(w) ==
  LET answer == IF worker[w].action = "ACCEPT" THEN "ACCEPTED" ELSE "DECLINED" IN
  /\ worker[w].at = "link"
  /\ external' = [external EXCEPT ![worker[w].ext].status = answer,
                                  ![worker[w].ext].response = answer,
                                  ![worker[w].ext].answers = @ \cup {answer}]
  /\ Ends(w)
  /\ UNCHANGED <<loanStatus, guarantee, capacity>>

(* ExternalGuarantorAdminReviewView: a rejection is possible in any status  *)

ReadReview(w, e, action) ==
  /\ external[e].status # "NONE"
  /\ action = "APPROVE" => external[e].status = "ACCEPTED"
  /\ Starts(w, [at |-> "review", ext |-> e, action |-> action])
  /\ UNCHANGED <<loanStatus, guarantee, capacity, external>>

Review(w) ==
  /\ worker[w].at = "review"
  /\ external' = [external EXCEPT ![worker[w].ext].status =
                    IF worker[w].action = "APPROVE" THEN "APPROVED_BY_ADMIN"
                    ELSE "REJECTED_BY_ADMIN"]
  /\ Ends(w)
  /\ UNCHANGED <<loanStatus, guarantee, capacity>>

-----------------------------------------------------------------------------
(* The admin's status endpoint (admin_views.py): validated on an unlocked   *)
(* read, then written.  Paying out is the module LoanDisbursement.          *)

AllowedFrom(target) ==
  CASE target = "UNDER_REVIEW" -> {"PENDING_APPROVAL"}
    [] target = "APPROVED" -> {"UNDER_REVIEW"}
    [] target = "REJECTED" -> LoanStatuses \ {"REJECTED", "ACTIVE"}

ReadLoan(w, l, target) ==
  /\ loanStatus[l] \in AllowedFrom(target)
  /\ target = "APPROVED" => GuarantorsComplete(l)
  /\ Starts(w, [at |-> "decide", loan |-> l, target |-> target])
  /\ UNCHANGED <<loanStatus, guarantee, capacity, external>>

Decide(w) ==
  /\ worker[w].at = "decide"
  /\ loanStatus' = [loanStatus EXCEPT ![worker[w].loan] = worker[w].target]
  /\ Ends(w)
  /\ UNCHANGED <<guarantee, capacity, external>>

\* The whole disbursement of an approved loan, as one step.
PayOut(l) ==
  /\ loanStatus[l] = "APPROVED"
  /\ loanStatus' = [loanStatus EXCEPT ![l] = "ACTIVE"]
  /\ UNCHANGED <<guarantee, capacity, external, worker>>

-----------------------------------------------------------------------------
Next ==
  \/ \E l \in Loans : PayOut(l)
  \/ \E e \in Externals : LinkExpires(e)
  \/ \E w \in Workers :
       \/ SearchSave(w) \/ CreateGuarantee(w) \/ CheckCapacity(w) \/ WriteApproval(w)
       \/ CommitApproval(w) \/ Decline(w) \/ SmsNotSent(w) \/ SmsSent(w) \/ MarkSent(w)
       \/ UseLink(w) \/ Review(w) \/ Decide(w)
       \/ \E m \in Members : Search(w, m)
       \/ \E l \in Loans, m \in Members, a \in Amounts : Ask(w, l, m, a)
       \/ \E l \in Loans, m \in Members, action \in {"APPROVE", "DECLINE"} :
            ReadAnswer(w, l, m, action)
       \/ \E e \in Externals, l \in Loans, a \in Amounts : NameExternal(w, e, l, a)
       \/ \E e \in Externals, action \in {"ACCEPT", "DECLINE"} : ReadLink(w, e, action)
       \/ \E e \in Externals, action \in {"APPROVE", "REJECT"} : ReadReview(w, e, action)
       \/ \E l \in Loans, target \in {"UNDER_REVIEW", "APPROVED", "REJECTED"} :
            ReadLoan(w, l, target)

Spec == Init /\ [][Next]_vars

-----------------------------------------------------------------------------
(* Properties                                                               *)

\* No loan is reviewed, approved or paid out with fewer approved guarantors
\* than its type requires, whatever the order of the members' answers, of new
\* requests and of the admin's decisions (GuarantorRespondView,
\* partial_update).  A member's own answer is handled once at a time
\* (Repeats): an approval and a decline of one row that both pass the check of
\* its status (services/views.py:873) are left out, and could take an
\* approval back.
ReviewedHasApprovals ==
  \A l \in Loans : loanStatus[l] \in {"PENDING_APPROVAL", "UNDER_REVIEW", "APPROVED", "ACTIVE"}
                   => Cardinality(Approved(l, guarantee)) >= Required

\* The outsiders who accepted a loan at some time.
Accepted(l) == {e \in Externals : external[e].loan = l /\ "ACCEPTED" \in external[e].answers}

\* The approved members and those outsiders give at least the loan's amount.
Covered(l) == LoanAmount <= GivenByMembers(l) + GivenByOutsiders(Accepted(l))

\* What backs an approved loan covers it: the approved members and the
\* outsiders who themselves accepted at some time, although the coverage was
\* read before the status was written (partial_update).  The SACCO may have
\* rejected an outsider since, and a request that was opened again (see
\* AnsweredIsClosed) may have been declined since.
ApprovedIsCovered == \A l \in Loans : loanStatus[l] \in {"APPROVED", "ACTIVE"} => Covered(l)

\* A request that was answered is not open for another answer
\* (ExternalGuarantorRespondView, "This guarantor request has already been
\* responded to.").
AnsweredIsClosed ==
  \A e \in Externals : external[e].response # None => external[e].status # "SMS_SENT"

\* When all who were asked have approved, they are enough, and no answer is
\* being handled, the loan has left GUARANTORS_PENDING (GuarantorRespondView:
\* "check if all approved, transition loan to BOARD_REVIEW if yes").
EnoughMovesOn ==
  \A l \in Loans :
    (/\ \A w \in Workers : worker[w].at \notin {"answer", "approve", "commit"}
     /\ \A m \in Members : guarantee[l][m].status \in {"NONE", "APPROVED"}
     /\ Enough(l, guarantee))
    => loanStatus[l] # "GUARANTORS_PENDING"

-----------------------------------------------------------------------------
(* The inductive invariant behind ReviewedOnlyWithApprovals of              *)
(* GuaranteesProofs; the other theorems there add to it.                    *)

\* What the argument needs of the types.
RowsInv ==
  /\ loanStatus \in [Loans -> LoanStatuses]
  /\ guarantee \in [Loans -> [Members -> GuaranteeRows]]
  /\ worker = [w \in Workers |-> worker[w]]
  /\ \A w \in Workers : worker[w].at = "ask" =>
       /\ worker[w].loan \in Loans /\ worker[w].member \in Members
       /\ worker[w].amount \in Amounts

\* An answer that is being handled is about a row that is still PENDING, and
\* is the only one about it.
Answering == {w \in Workers : worker[w].at \in {"answer", "approve", "commit"}}
AnswerInv ==
  /\ \A w \in Answering : /\ worker[w].loan \in Loans /\ worker[w].member \in Members
                          /\ guarantee[worker[w].loan][worker[w].member].status = "PENDING"
  /\ \A u, w \in Answering : u # w => worker[u].loan # worker[w].loan
                                      \/ worker[u].member # worker[w].member

HasEnough(l) == Cardinality(Approved(l, guarantee)) >= Required

\* Approvals are never taken back, so whoever counted enough of them, the one
\* about to be committed included, or read a loan that had enough, is right.
CountInv ==
  \A w \in Workers :
    /\ worker[w].at = "commit" /\ worker[w].enough
         => Cardinality(Approved(worker[w].loan, guarantee) \cup {worker[w].member}) >= Required
    /\ worker[w].at = "decide"
         => /\ worker[w].loan \in Loans
            /\ worker[w].target \in {"UNDER_REVIEW", "APPROVED", "REJECTED"}
            /\ worker[w].target # "REJECTED" => HasEnough(worker[w].loan)

ApprovalsInv == RowsInv /\ AnswerInv /\ CountInv /\ ReviewedHasApprovals
=============================================================================

-------------------------- MODULE GuaranteesProofs --------------------------
(***************************************************************************)
(* About the guarantors of a loan, for any number of loans, members,       *)
(* outsiders and workers and any amounts:                                  *)
(* - no loan is reviewed without its approvals, provided that members are  *)
(*   finitely many and none of them answers twice at once;                 *)
(* - rows and jobs keep their types, for finitely many loans;              *)
(* - what backs an approved loan covers it, under both of these and for    *)
(*   finitely many outsiders, who may answer at any time.                  *)
(***************************************************************************)
EXTENDS Guarantees, SumProofs, TLAPS

\* A finite set with enough elements still has enough when it grows.
LEMMA StillEnough ==
  ASSUME IsFiniteSet(Members), NEW S, NEW T, S \subseteq T, T \subseteq Members,
         Cardinality(S) >= Required
  PROVE  Cardinality(T) >= Required
<1>1. IsFiniteSet(T)
  BY FS_Subset
<1>2. IsFiniteSet(S) /\ Cardinality(S) <= Cardinality(T)
  BY <1>1, FS_Subset
<1>3. Cardinality(S) \in Nat /\ Cardinality(T) \in Nat
  BY <1>1, <1>2, FS_CardinalityType
<1> QED BY <1>2, <1>3, GuaranteesAssumption

\* The initial state has no answers and no reviewed loan.
LEMMA InitApprovals == Init => ApprovalsInv
<1> SUFFICES ASSUME Init PROVE ApprovalsInv
  OBVIOUS
<1>1. \A w \in Workers : worker[w].at = "idle"
  BY DEF Init, Idle
<1>2. RowsInv
  BY <1>1 DEF Init, RowsInv, LoanStatuses, GuaranteeRows
<1>3. AnswerInv /\ CountInv
  BY <1>1 DEF AnswerInv, CountInv, Answering
<1>4. ReviewedHasApprovals
  BY DEF Init, ReviewedHasApprovals
<1> QED BY <1>2, <1>3, <1>4 DEF ApprovalsInv

\* The approvals of every loan when guarantees g differ in one row.
LEMMA OneRow ==
  ASSUME NEW l \in Loans, NEW m \in Members, NEW g,
         \A k \in Loans, n \in Members : k # l \/ n # m => g[k][n] = guarantee[k][n]
  PROVE  /\ \A k \in Loans \ {l} : Approved(k, g) = Approved(k, guarantee)
         /\ g[l][m].status = "APPROVED" => Approved(l, g) = Approved(l, guarantee) \cup {m}
         /\ g[l][m].status # "APPROVED" /\ guarantee[l][m].status # "APPROVED"
              => Approved(l, g) = Approved(l, guarantee)
BY DEF Approved

\* What a worker takes up, while no row of a loan or guarantee changes, keeps
\* the invariant if it is itself as the invariant says.
LEMMA WorkerStep ==
  ASSUME ApprovalsInv, NEW w \in Workers, NEW job,
         worker' = [worker EXCEPT ![w] = job],
         UNCHANGED <<loanStatus, guarantee>>,
         job.at = "ask" => /\ job.loan \in Loans /\ job.member \in Members
                           /\ job.amount \in Amounts,
         job.at \in {"answer", "approve", "commit"} =>
           /\ job.loan \in Loans /\ job.member \in Members
           /\ guarantee[job.loan][job.member].status = "PENDING"
           /\ \A u \in Answering \ {w} : worker[u].loan # job.loan
                                         \/ worker[u].member # job.member,
         job.at = "commit" /\ job.enough
           => Cardinality(Approved(job.loan, guarantee) \cup {job.member}) >= Required,
         job.at = "decide" =>
           /\ job.loan \in Loans
           /\ job.target \in {"UNDER_REVIEW", "APPROVED", "REJECTED"}
           /\ job.target # "REJECTED" => HasEnough(job.loan)
  PROVE  ApprovalsInv'
<1>1. worker'[w] = job /\ \A u \in Workers \ {w} : worker'[u] = worker[u]
  BY DEF ApprovalsInv, RowsInv
<1>2. RowsInv'
  BY <1>1 DEF ApprovalsInv, RowsInv
<1>3. AnswerInv'
  BY <1>1 DEF ApprovalsInv, AnswerInv, Answering
<1>4. CountInv'
  <2>1. guarantee' = guarantee
    OBVIOUS
  <2>2. ASSUME NEW u \in Workers, worker'[u].at = "commit", worker'[u].enough
        PROVE  Cardinality(Approved(worker'[u].loan, guarantee) \cup {worker'[u].member})
                 >= Required
    BY <1>1, <2>2 DEF ApprovalsInv, CountInv
  <2>3. ASSUME NEW u \in Workers, worker'[u].at = "decide"
        PROVE  /\ worker'[u].loan \in Loans
               /\ worker'[u].target \in {"UNDER_REVIEW", "APPROVED", "REJECTED"}
               /\ worker'[u].target # "REJECTED" => HasEnough(worker'[u].loan)
    BY <1>1, <2>3 DEF ApprovalsInv, CountInv
  <2> QED BY <2>1, <2>2, <2>3, ZenonT(40) DEF CountInv, HasEnough, Approved
<1>5. ReviewedHasApprovals'
  BY DEF ApprovalsInv, ReviewedHasApprovals, Approved
<1> QED BY <1>2, <1>3, <1>4, <1>5 DEF ApprovalsInv

\* A worker that takes up, or ends with, something the invariant does not speak
\* of leaves it true when no row of a loan or guarantee changes.
LEMMA QuietStep ==
  ASSUME ApprovalsInv, NEW w \in Workers, NEW job,
         job.at \notin {"ask", "answer", "approve", "commit", "decide"},
         worker' = [worker EXCEPT ![w] = job],
         UNCHANGED <<loanStatus, guarantee>>
  PROVE  ApprovalsInv'
BY WorkerStep

\* Every step that only reads, or only writes the capacity and the outsiders.
LEMMA QuietSteps ==
  ASSUME ApprovalsInv, NEW w \in Workers,
         \/ \E m \in Members : Search(w, m)
         \/ \E e \in Externals, l \in Loans, a \in Amounts : NameExternal(w, e, l, a)
         \/ \E e \in Externals, action \in {"ACCEPT", "DECLINE"} : ReadLink(w, e, action)
         \/ \E e \in Externals, action \in {"APPROVE", "REJECT"} : ReadReview(w, e, action)
         \/ SearchSave(w) \/ SmsNotSent(w) \/ SmsSent(w) \/ MarkSent(w) \/ UseLink(w)
         \/ Review(w)
  PROVE  ApprovalsInv'
<1> USE DEF Starts, Continues, Ends, Idle
<1>1. CASE \E m \in Members : Search(w, m)
  BY <1>1, QuietStep DEF Search
<1>2. CASE \E e \in Externals, l \in Loans, a \in Amounts : NameExternal(w, e, l, a)
  BY <1>2, QuietStep DEF NameExternal
<1>3. CASE \E e \in Externals, action \in {"ACCEPT", "DECLINE"} : ReadLink(w, e, action)
  BY <1>3, QuietStep DEF ReadLink
<1>4. CASE \E e \in Externals, action \in {"APPROVE", "REJECT"} : ReadReview(w, e, action)
  BY <1>4, QuietStep DEF ReadReview
<1>5. CASE SearchSave(w) \/ SmsNotSent(w) \/ MarkSent(w) \/ UseLink(w) \/ Review(w)
  BY <1>5, QuietStep DEF SearchSave, SmsNotSent, MarkSent, UseLink, Review
<1>6. CASE SmsSent(w)
  BY <1>6, QuietStep DEF SmsSent
<1> QED BY <1>1, <1>2, <1>3, <1>4, <1>5, <1>6

\* Ask and ReadLoan, whose worker remembers a loan and what it may become.
LEMMA ReadingSteps ==
  ASSUME ApprovalsInv, NEW w \in Workers,
         \/ \E l \in Loans, m \in Members, a \in Amounts : Ask(w, l, m, a)
         \/ \E l \in Loans, target \in {"UNDER_REVIEW", "APPROVED", "REJECTED"} :
              ReadLoan(w, l, target)
  PROVE  ApprovalsInv'
<1>1. CASE \E l \in Loans, m \in Members, a \in Amounts : Ask(w, l, m, a)
  BY <1>1, WorkerStep DEF Ask, Starts
<1>2. ASSUME NEW l \in Loans, NEW target \in {"UNDER_REVIEW", "APPROVED", "REJECTED"},
             ReadLoan(w, l, target)
      PROVE  ApprovalsInv'
  <2>1. target # "REJECTED" => loanStatus[l] \in {"PENDING_APPROVAL", "UNDER_REVIEW"}
    BY <1>2 DEF ReadLoan, AllowedFrom
  <2>2. target # "REJECTED" => HasEnough(l)
    BY <2>1 DEF ApprovalsInv, ReviewedHasApprovals, HasEnough
  <2> QED BY <1>2, <2>2, WorkerStep DEF ReadLoan, Starts
<1> QED BY <1>1, <1>2

\* Whoever answers a request holds a row that is still PENDING, and holds it alone.
LEMMA SoleAnswer ==
  ASSUME ApprovalsInv, NEW w \in Workers, worker[w].at \in {"answer", "approve", "commit"}
  PROVE  /\ worker[w].loan \in Loans /\ worker[w].member \in Members
         /\ guarantee[worker[w].loan][worker[w].member].status = "PENDING"
         /\ \A u \in Answering \ {w} : \/ worker[u].loan # worker[w].loan
                                      \/ worker[u].member # worker[w].member
<1>1. w \in Answering
  BY DEF Answering
<1>2. AnswerInv
  BY DEF ApprovalsInv
<1> QED BY <1>1, <1>2 DEF AnswerInv

\* GuarantorRespondView up to its last write.  Nobody answers about a row that
\* somebody is answering about.
LEMMA AnsweringSteps ==
  ASSUME ApprovalsInv, Repeats = FALSE, NEW w \in Workers,
         \/ \E l \in Loans, m \in Members, action \in {"APPROVE", "DECLINE"} :
              ReadAnswer(w, l, m, action)
         \/ CheckCapacity(w)
         \/ WriteApproval(w)
  PROVE  ApprovalsInv'
<1>1. CASE \E l \in Loans, m \in Members, action \in {"APPROVE", "DECLINE"} :
             ReadAnswer(w, l, m, action)
  BY <1>1, WorkerStep DEF ReadAnswer, Starts, Answering
<1>2. CASE CheckCapacity(w)
  <2>1. CASE Ends(w)
    BY <1>2, <2>1, QuietStep DEF CheckCapacity, Ends, Idle
  <2>2. CASE Continues(w, [at |-> "approve", loan |-> worker[w].loan,
                           member |-> worker[w].member, action |-> worker[w].action])
    BY <1>2, <2>2, WorkerStep
    DEF CheckCapacity, Continues, ApprovalsInv, AnswerInv, Answering
  <2> QED BY <1>2, <2>1, <2>2 DEF CheckCapacity
<1>3. CASE WriteApproval(w)
  <2>1. PICK l \in Loans, m \in Members :
          /\ l = worker[w].loan /\ m = worker[w].member
          /\ guarantee[l][m].status = "PENDING"
          /\ \A u \in Answering \ {w} : worker[u].loan # l \/ worker[u].member # m
    <3>1. worker[w].at = "approve"
      BY <1>3 DEF WriteApproval
    <3> QED BY <3>1, SoleAnswer
  <2> DEFINE mine == [guarantee EXCEPT ![l][m].status = "APPROVED"]
             found == AvailableCapacity(m, mine)
             enough == Enough(l, mine)
             job == [at |-> "commit", loan |-> l, member |-> m, found |-> found,
                     enough |-> enough]
  <2>2. worker' = [worker EXCEPT ![w] = job] /\ UNCHANGED <<loanStatus, guarantee>>
    BY <1>3, <2>1 DEF WriteApproval, Continues
  <2>3. /\ mine[l][m].status = "APPROVED"
        /\ \A k \in Loans, n \in Members : k # l \/ n # m => mine[k][n] = guarantee[k][n]
    BY DEF ApprovalsInv, RowsInv, GuaranteeRows
  <2> HIDE DEF mine
  <2>4. Approved(l, mine) = Approved(l, guarantee) \cup {m}
    BY <2>3, OneRow
  <2>5. enough => Cardinality(Approved(l, guarantee) \cup {m}) >= Required
    BY <2>4 DEF Enough
  <2>6. job.at = "commit" /\ job.loan = l /\ job.member = m /\ job.enough = enough
    OBVIOUS
  <2> HIDE DEF enough, job
  <2> QED BY <2>1, <2>2, <2>5, <2>6, WorkerStep
<1> QED BY <1>1, <1>2, <1>3

\* GuarantorRequestView creates a PENDING row, which changes no approvals.
LEMMA CreateStep ==
  ASSUME ApprovalsInv, NEW w \in Workers, CreateGuarantee(w)
  PROVE  ApprovalsInv'
<1>1. PICK l \in Loans, m \in Members, a \in Amounts :
        l = worker[w].loan /\ m = worker[w].member /\ a = worker[w].amount
  BY DEF CreateGuarantee, ApprovalsInv, RowsInv
<1>2. CASE guarantee[l][m].status # "NONE"
  BY <1>1, <1>2, QuietStep DEF CreateGuarantee, Ends, Idle
<1>3. CASE guarantee[l][m].status = "NONE"
  <2> DEFINE row == [status |-> "PENDING", amount |-> a]
  <2>1. /\ guarantee' = [guarantee EXCEPT ![l][m] = row]
        /\ loanStatus' \in {loanStatus, [loanStatus EXCEPT ![l] = "GUARANTORS_PENDING"]}
    BY <1>1, <1>3 DEF CreateGuarantee
  <2>2. row \in GuaranteeRows /\ row.status = "PENDING"
    BY DEF GuaranteeRows
  <2> HIDE DEF row
  <2>3. /\ guarantee' \in [Loans -> [Members -> GuaranteeRows]]
        /\ guarantee'[l][m] = row
        /\ \A k \in Loans, n \in Members : k # l \/ n # m
                                          => guarantee'[k][n] = guarantee[k][n]
    BY <2>1, <2>2 DEF ApprovalsInv, RowsInv
  <2>4. \A k \in Loans : Approved(k, guarantee') = Approved(k, guarantee)
    BY <1>3, <2>2, <2>3, OneRow
  <2>5. /\ \A u \in Workers \ {w} : worker'[u] = worker[u]
        /\ worker'[w].at = "idle" /\ worker' = [u \in Workers |-> worker'[u]]
    BY DEF CreateGuarantee, Ends, Idle, ApprovalsInv, RowsInv
  <2>6. RowsInv'
    BY <2>1, <2>3, <2>5 DEF ApprovalsInv, RowsInv, LoanStatuses
  <2>7. AnswerInv'
    BY <2>2, <2>3, <2>5 DEF ApprovalsInv, AnswerInv, Answering
  <2>8. CountInv'
    BY <2>5, <2>4, ZenonT(40) DEF ApprovalsInv, CountInv, HasEnough, AnswerInv, Answering
  <2>9. ReviewedHasApprovals'
    BY <2>1, <2>4 DEF ApprovalsInv, RowsInv, ReviewedHasApprovals
  <2> QED BY <2>6, <2>7, <2>8, <2>9 DEF ApprovalsInv
<1> QED BY <1>2, <1>3

\* A decline undoes no approval: its row is still PENDING.
LEMMA DeclineStep ==
  ASSUME ApprovalsInv, NEW w \in Workers, Decline(w)
  PROVE  ApprovalsInv'
<1>1. PICK l \in Loans, m \in Members :
        /\ l = worker[w].loan /\ m = worker[w].member
        /\ guarantee[l][m].status = "PENDING"
        /\ \A u \in Answering \ {w} : worker[u].loan # l \/ worker[u].member # m
  <2>1. worker[w].at = "answer"
    BY DEF Decline
  <2> QED BY <2>1, SoleAnswer
<1>2. /\ guarantee' = [guarantee EXCEPT ![l][m].status = "DECLINED"]
      /\ loanStatus' = [loanStatus EXCEPT ![l] = "PENDING"]
  BY <1>1 DEF Decline
<1>3. /\ guarantee' \in [Loans -> [Members -> GuaranteeRows]]
      /\ \A k \in Loans, n \in Members : k # l \/ n # m
                                        => guarantee'[k][n] = guarantee[k][n]
      /\ guarantee'[l][m].status = "DECLINED"
  <2>1. guarantee \in [Loans -> [Members -> GuaranteeRows]]
    BY DEF ApprovalsInv, RowsInv
  <2>2. guarantee' = [guarantee EXCEPT ![l][m].status = "DECLINED"]
    BY <1>2
  <2> QED BY <2>1, <2>2 DEF GuaranteeRows
<1>4. \A k \in Loans : Approved(k, guarantee') = Approved(k, guarantee)
  <2>1. \A k \in Loans \ {l} : Approved(k, guarantee') = Approved(k, guarantee)
    BY <1>3, OneRow
  <2>2. Approved(l, guarantee') = Approved(l, guarantee)
    BY <1>1, <1>3, OneRow
  <2> QED BY <2>1, <2>2
<1>5. /\ \A u \in Workers \ {w} : worker'[u] = worker[u]
      /\ worker'[w].at = "idle" /\ worker' = [u \in Workers |-> worker'[u]]
  BY DEF Decline, Ends, Idle, ApprovalsInv, RowsInv
<1>6. RowsInv'
  BY <1>2, <1>3, <1>5 DEF ApprovalsInv, RowsInv, LoanStatuses
<1>7. AnswerInv'
  <2>1. Answering' \subseteq Answering \ {w}
    BY <1>5 DEF Answering
  <2>2. \A u \in Answering' : /\ worker'[u] = worker[u]
                              /\ worker[u].loan \in Loans /\ worker[u].member \in Members
                              /\ worker[u].loan # l \/ worker[u].member # m
    BY <1>1, <1>5, <2>1 DEF ApprovalsInv, AnswerInv, Answering
  <2>3. \A u \in Answering' :
          guarantee'[worker[u].loan][worker[u].member].status = "PENDING"
    BY <1>3, <2>1, <2>2 DEF ApprovalsInv, AnswerInv
  <2>4. \A u, v \in Answering' : u # v => worker[u].loan # worker[v].loan
                                          \/ worker[u].member # worker[v].member
    BY <2>1 DEF ApprovalsInv, AnswerInv
  <2> QED BY <2>2, <2>3, <2>4 DEF AnswerInv
<1>8. CountInv'
  BY <1>5, <1>4, ZenonT(40) DEF ApprovalsInv, CountInv, HasEnough, AnswerInv, Answering
<1>9. ReviewedHasApprovals'
  BY <1>2, <1>4 DEF ApprovalsInv, RowsInv, ReviewedHasApprovals
<1> QED BY <1>6, <1>7, <1>8, <1>9 DEF ApprovalsInv

\* The commit of an approval adds it, and moves the loan on only if what was
\* counted before it is enough.
LEMMA CommitStep ==
  ASSUME ApprovalsInv, IsFiniteSet(Members), NEW w \in Workers, CommitApproval(w)
  PROVE  ApprovalsInv'
<1>1. PICK l \in Loans, m \in Members :
        /\ l = worker[w].loan /\ m = worker[w].member
        /\ guarantee[l][m].status = "PENDING"
        /\ \A u \in Answering \ {w} : worker[u].loan # l \/ worker[u].member # m
  BY DEF CommitApproval, ApprovalsInv, AnswerInv, Answering
<1>2. /\ guarantee' = [guarantee EXCEPT ![l][m].status = "APPROVED"]
      /\ loanStatus' = IF worker[w].enough THEN [loanStatus EXCEPT ![l] = "PENDING_APPROVAL"]
                       ELSE loanStatus
      /\ worker[w].at = "commit"
  BY <1>1 DEF CommitApproval
<1>3. /\ guarantee' \in [Loans -> [Members -> GuaranteeRows]]
      /\ \A k \in Loans, n \in Members : k # l \/ n # m
                                        => guarantee'[k][n] = guarantee[k][n]
      /\ guarantee'[l][m].status = "APPROVED"
  <2>1. guarantee \in [Loans -> [Members -> GuaranteeRows]]
    BY DEF ApprovalsInv, RowsInv
  <2>2. guarantee' = [guarantee EXCEPT ![l][m].status = "APPROVED"]
    BY <1>2
  <2> QED BY <2>1, <2>2 DEF GuaranteeRows
<1>4. /\ Approved(l, guarantee') = Approved(l, guarantee) \cup {m}
       /\ \A k \in Loans \ {l} : Approved(k, guarantee') = Approved(k, guarantee)
  BY <1>3, OneRow
<1>5. /\ \A u \in Workers \ {w} : worker'[u] = worker[u]
      /\ worker'[w].at = "idle" /\ worker' = [u \in Workers |-> worker'[u]]
  BY DEF CommitApproval, Ends, Idle, ApprovalsInv, RowsInv
<1>6. \A k \in Loans : /\ Approved(k, guarantee) \subseteq Approved(k, guarantee')
                       /\ Approved(k, guarantee') \subseteq Members
  <2>1. \A k \in Loans : Approved(k, guarantee') \subseteq Members
    BY DEF Approved
  <2> QED BY <1>4, <2>1
<1>7. RowsInv'
  BY <1>2, <1>3, <1>5 DEF ApprovalsInv, RowsInv, LoanStatuses
<1>8. AnswerInv'
  BY <1>1, <1>3, <1>5 DEF ApprovalsInv, AnswerInv, Answering
<1>9. \A k \in Loans : HasEnough(k) => Cardinality(Approved(k, guarantee')) >= Required
  BY <1>6, StillEnough DEF HasEnough
<1>10. CountInv'
  <2>1. ASSUME NEW u \in Workers, worker'[u].at = "commit", worker'[u].enough
        PROVE  Cardinality(Approved(worker'[u].loan, guarantee') \cup {worker'[u].member})
                 >= Required
    <3>1. worker'[u] = worker[u] /\ u \in Answering
      BY <1>5, <2>1 DEF Answering
    <3>2. worker[u].loan \in Loans /\ worker[u].member \in Members
      BY <3>1 DEF ApprovalsInv, AnswerInv
    <3>3. Cardinality(Approved(worker[u].loan, guarantee) \cup {worker[u].member}) >= Required
      BY <2>1, <3>1 DEF ApprovalsInv, CountInv
    <3>4. /\ Approved(worker[u].loan, guarantee) \cup {worker[u].member}
               \subseteq Approved(worker[u].loan, guarantee') \cup {worker[u].member}
          /\ Approved(worker[u].loan, guarantee') \cup {worker[u].member} \subseteq Members
      BY <1>6, <3>2
    <3> QED BY <3>1, <3>3, <3>4, StillEnough
  <2>2. ASSUME NEW u \in Workers, worker'[u].at = "decide"
        PROVE  /\ worker'[u].loan \in Loans
               /\ worker'[u].target \in {"UNDER_REVIEW", "APPROVED", "REJECTED"}
               /\ worker'[u].target # "REJECTED"
                    => Cardinality(Approved(worker'[u].loan, guarantee')) >= Required
    BY <1>5, <1>9, <2>2 DEF ApprovalsInv, CountInv
  <2> QED BY <2>1, <2>2 DEF CountInv, HasEnough
<1>11. ReviewedHasApprovals'
  <2>1. worker[w].enough => Cardinality(Approved(l, guarantee')) >= Required
    BY <1>1, <1>2, <1>4 DEF ApprovalsInv, CountInv
  <2>2. \A k \in Loans : loanStatus'[k] = loanStatus[k] \/ (worker[w].enough /\ k = l)
    BY <1>2 DEF ApprovalsInv, RowsInv
  <2> QED BY <1>9, <2>1, <2>2 DEF ApprovalsInv, ReviewedHasApprovals, HasEnough
<1> QED BY <1>7, <1>8, <1>10, <1>11 DEF ApprovalsInv

\* The admin's decision and the disbursement move a loan that has its approvals.
LEMMA DecideStep ==
  ASSUME ApprovalsInv, NEW w \in Workers, Decide(w)
  PROVE  ApprovalsInv'
<1>1. PICK l \in Loans, target \in {"UNDER_REVIEW", "APPROVED", "REJECTED"} :
        /\ l = worker[w].loan /\ target = worker[w].target
        /\ target # "REJECTED" => HasEnough(l)
  BY DEF Decide, ApprovalsInv, CountInv
<1>2. guarantee' = guarantee /\ loanStatus' = [loanStatus EXCEPT ![l] = target]
  BY <1>1 DEF Decide
<1>3. /\ \A u \in Workers \ {w} : worker'[u] = worker[u]
      /\ worker'[w].at = "idle" /\ worker' = [u \in Workers |-> worker'[u]]
  BY DEF Decide, Ends, Idle, ApprovalsInv, RowsInv
<1>4. RowsInv'
  BY <1>1, <1>2, <1>3 DEF ApprovalsInv, RowsInv, LoanStatuses
<1>5. AnswerInv'
  BY <1>2, <1>3 DEF ApprovalsInv, AnswerInv, Answering
<1>6. CountInv'
  BY <1>2, <1>3, ZenonT(40) DEF ApprovalsInv, CountInv, HasEnough, Approved
<1>7. ReviewedHasApprovals'
  BY <1>1, <1>2 DEF ApprovalsInv, RowsInv, ReviewedHasApprovals, HasEnough, Approved
<1> QED BY <1>4, <1>5, <1>6, <1>7 DEF ApprovalsInv

\* Steps of no worker.
LEMMA OtherSteps ==
  ASSUME ApprovalsInv,
         \/ \E l \in Loans : PayOut(l)
         \/ \E e \in Externals : LinkExpires(e)
         \/ UNCHANGED vars
  PROVE  ApprovalsInv'
<1>1. ASSUME NEW l \in Loans, PayOut(l) PROVE ApprovalsInv'
  <2>1. RowsInv' /\ ReviewedHasApprovals'
    BY <1>1 DEF PayOut, ApprovalsInv, RowsInv, LoanStatuses, ReviewedHasApprovals, Approved
  <2>2. AnswerInv' /\ CountInv'
    BY <1>1 DEF PayOut, ApprovalsInv, AnswerInv, CountInv, Answering, HasEnough, Approved
  <2> QED BY <2>1, <2>2 DEF ApprovalsInv
<1>2. ASSUME UNCHANGED <<loanStatus, guarantee, worker>> PROVE ApprovalsInv'
  BY <1>2 DEF ApprovalsInv, RowsInv, AnswerInv, CountInv, Answering, HasEnough, Approved,
              ReviewedHasApprovals
<1> QED BY <1>1, <1>2 DEF LinkExpires, vars

\* Every step keeps the approvals.
LEMMA ApprovalsStep ==
  ASSUME ApprovalsInv, [Next]_vars, IsFiniteSet(Members), Repeats = FALSE
  PROVE  ApprovalsInv'
<1>1. CASE \/ \E l \in Loans : PayOut(l)
           \/ \E e \in Externals : LinkExpires(e)
           \/ UNCHANGED vars
  BY <1>1, OtherSteps
<1>2. ASSUME NEW w \in Workers,
             \/ SearchSave(w) \/ SmsNotSent(w) \/ SmsSent(w) \/ MarkSent(w)
             \/ UseLink(w) \/ Review(w)
             \/ \E m \in Members : Search(w, m)
             \/ \E e \in Externals, l \in Loans, a \in Amounts : NameExternal(w, e, l, a)
             \/ \E e \in Externals, action \in {"ACCEPT", "DECLINE"} : ReadLink(w, e, action)
             \/ \E e \in Externals, action \in {"APPROVE", "REJECT"} : ReadReview(w, e, action)
      PROVE  ApprovalsInv'
  BY <1>2, QuietSteps
<1>3. ASSUME NEW w \in Workers,
             \/ \E l \in Loans, m \in Members, a \in Amounts : Ask(w, l, m, a)
             \/ \E l \in Loans, target \in {"UNDER_REVIEW", "APPROVED", "REJECTED"} :
                  ReadLoan(w, l, target)
      PROVE  ApprovalsInv'
  BY <1>3, ReadingSteps
<1>4. ASSUME NEW w \in Workers,
             \/ \E l \in Loans, m \in Members, action \in {"APPROVE", "DECLINE"} :
                  ReadAnswer(w, l, m, action)
             \/ CheckCapacity(w) \/ WriteApproval(w)
      PROVE  ApprovalsInv'
  BY <1>4, AnsweringSteps
<1>5. ASSUME NEW w \in Workers,
             CreateGuarantee(w) \/ Decline(w) \/ CommitApproval(w) \/ Decide(w)
      PROVE  ApprovalsInv'
  BY <1>5, CreateStep, DeclineStep, CommitStep, DecideStep
<1> QED BY <1>1, <1>2, <1>3, <1>4, <1>5 DEF Next

\* No loan is reviewed, approved or paid out with fewer approved guarantors
\* than its type requires (GuarantorRespondView, partial_update).
THEOREM ReviewedOnlyWithApprovals ==
  ASSUME IsFiniteSet(Members), Repeats = FALSE
  PROVE  Spec => []ReviewedHasApprovals
<1>1. ApprovalsInv /\ [Next]_vars => ApprovalsInv'
  BY ApprovalsStep
<1>2. ApprovalsInv => ReviewedHasApprovals
  BY DEF ApprovalsInv
<1> QED BY InitApprovals, <1>1, <1>2, PTL DEF Spec

-----------------------------------------------------------------------------
(* Types                                                                    *)

\* What a worker remembers is of the type of what it is doing.
LEMMA JobTypes ==
  ASSUME TypeOK, NEW w \in Workers
  PROVE  /\ worker[w].at = "search" => worker[w].member \in Members /\ worker[w].found \in Nat
         /\ worker[w].at = "ask" =>
              /\ worker[w].loan \in Loans /\ worker[w].member \in Members
              /\ worker[w].amount \in Amounts
         /\ worker[w].at \in {"answer", "approve"} =>
              /\ worker[w].loan \in Loans /\ worker[w].member \in Members
              /\ worker[w].action \in {"APPROVE", "DECLINE"}
         /\ worker[w].at = "commit" =>
              /\ worker[w].loan \in Loans /\ worker[w].member \in Members
              /\ worker[w].found \in Nat /\ worker[w].enough \in BOOLEAN
         /\ worker[w].at = "decide" =>
              worker[w].loan \in Loans /\ worker[w].target \in LoanStatuses
         /\ worker[w].at \in {"sms", "mark", "link", "review"} => worker[w].ext \in Externals
<1>1. worker[w] \in Jobs
  BY DEF TypeOK
<1> QED BY <1>1 DEF Jobs

\* What the code computes as a capacity is a natural number.
LEMMA CapacityIsNat ==
  ASSUME IsFiniteSet(Loans), NEW m \in Members, NEW g,
         \A l \in Loans : g[l][m].amount \in Int
  PROVE  AvailableCapacity(m, g) \in Nat
<1> DEFINE amount == [l \in Loans |-> g[l][m].amount]
           counted == {l \in Loans : g[l][m].status = "APPROVED" /\ loanStatus[l] \in CountedStatuses}
<1>1. IsFiniteSet(counted) /\ \A l \in counted : amount[l] \in Int
  BY FS_Subset
<1>2. SumFunctionOnSet(amount, counted) \in Int
  <2> HIDE DEF amount, counted
  <2> QED BY <1>1, SumInt
<1>3. Savings \div 2 \in Int
  BY GuaranteesAssumption
<1> QED BY <1>2, <1>3 DEF AvailableCapacity, AtLeastZero

\* So is the capacity that GuarantorSearchView computes.
LEMMA SearchIsNat ==
  ASSUME IsFiniteSet(Loans), TypeOK, NEW m \in Members
  PROVE  SearchCapacity(m) \in Nat
<1> DEFINE amount == [l \in Loans |-> guarantee[l][m].amount]
           open == {l \in Loans : guarantee[l][m].status \in {"PENDING", "APPROVED"}}
<1>1. \A l \in Loans : guarantee[l][m].amount \in Int
  <2>1. \A l \in Loans : guarantee[l][m] \in GuaranteeRows
    BY DEF TypeOK
  <2>2. \A l \in Loans : guarantee[l][m].amount \in Amounts \cup {0}
    BY <2>1 DEF GuaranteeRows
  <2>3. Amounts \cup {0} \subseteq Int
    BY GuaranteesAssumption
  <2> QED BY <2>2, <2>3
<1>2. IsFiniteSet(open) /\ \A l \in open : amount[l] \in Int
  BY <1>1, FS_Subset
<1>3. SumFunctionOnSet(amount, open) \in Int
  <2> HIDE DEF amount, open
  <2> QED BY <1>2, SumInt
<1>4. Savings \in Int
  BY GuaranteesAssumption
<1> QED BY <1>3, <1>4 DEF SearchCapacity, AtLeastZero

\* The rows when one of them is answered.
LEMMA AnsweredRow ==
  ASSUME NEW g \in [Loans -> [Members -> GuaranteeRows]], NEW l \in Loans, NEW m \in Members,
         NEW answer \in {"APPROVED", "DECLINED"}
  PROVE  [g EXCEPT ![l][m].status = answer] \in [Loans -> [Members -> GuaranteeRows]]
<1> DEFINE row == [g[l][m] EXCEPT !.status = answer]
<1>1. g[l][m] \in GuaranteeRows
  OBVIOUS
<1>2. row \in GuaranteeRows
  BY <1>1 DEF GuaranteeRows
<1>3. [g EXCEPT ![l][m].status = answer] = [g EXCEPT ![l][m] = row]
  OBVIOUS
<1> HIDE DEF row
<1> QED BY <1>2, <1>3

\* A worker takes up a job, or ends one, while every row keeps its type.
LEMMA TypedStep ==
  ASSUME TypeOK, NEW w \in Workers, NEW job \in Jobs, worker' = [worker EXCEPT ![w] = job],
         loanStatus' \in [Loans -> LoanStatuses],
         guarantee' \in [Loans -> [Members -> GuaranteeRows]],
         capacity' \in [Members -> Nat \cup {None}],
         external' \in [Externals -> ExternalRows]
  PROVE  TypeOK'
BY DEF TypeOK

\* Ending is always of the type.
LEMMA IdleIsJob == Idle \in Jobs
BY DEF Idle, Jobs

\* Every step that only reads: the rows stay, and the worker has a job.
LEMMA ReadingTypes ==
  ASSUME TypeOK, IsFiniteSet(Loans), NEW w \in Workers,
         \/ \E m \in Members : Search(w, m)
         \/ \E l \in Loans, m \in Members, a \in Amounts : Ask(w, l, m, a)
         \/ \E l \in Loans, m \in Members, action \in {"APPROVE", "DECLINE"} :
              ReadAnswer(w, l, m, action)
         \/ \E e \in Externals, action \in {"ACCEPT", "DECLINE"} : ReadLink(w, e, action)
         \/ \E e \in Externals, action \in {"APPROVE", "REJECT"} : ReadReview(w, e, action)
         \/ \E l \in Loans, target \in {"UNDER_REVIEW", "APPROVED", "REJECTED"} :
              ReadLoan(w, l, target)
         \/ CheckCapacity(w) \/ WriteApproval(w) \/ SmsNotSent(w)
  PROVE  TypeOK'
<1>0. UNCHANGED <<loanStatus, guarantee, capacity, external>>
  BY DEF Search, Ask, ReadAnswer, ReadLink, ReadReview, ReadLoan, CheckCapacity, WriteApproval,
         SmsNotSent
<1>1. ASSUME NEW job \in Jobs, worker' = [worker EXCEPT ![w] = job] PROVE TypeOK'
  <2>1. /\ loanStatus' \in [Loans -> LoanStatuses]
        /\ guarantee' \in [Loans -> [Members -> GuaranteeRows]]
        /\ capacity' \in [Members -> Nat \cup {None}]
        /\ external' \in [Externals -> ExternalRows]
    BY <1>0 DEF TypeOK
  <2> QED BY <1>1, <2>1, TypedStep
<1>2. ASSUME NEW m \in Members, Search(w, m) PROVE TypeOK'
  <2>1. [at |-> "search", member |-> m, found |-> SearchCapacity(m)] \in Jobs
    BY SearchIsNat DEF Jobs
  <2> QED BY <1>1, <1>2, <2>1 DEF Search, Starts
<1>3. ASSUME NEW l \in Loans, NEW m \in Members, NEW a \in Amounts, Ask(w, l, m, a)
      PROVE  TypeOK'
  <2>1. [at |-> "ask", loan |-> l, member |-> m, amount |-> a, seen |-> loanStatus[l]] \in Jobs
    BY DEF Jobs, TypeOK
  <2> QED BY <1>1, <1>3, <2>1 DEF Ask, Starts
<1>4. ASSUME NEW l \in Loans, NEW m \in Members, NEW action \in {"APPROVE", "DECLINE"},
             ReadAnswer(w, l, m, action)
      PROVE  TypeOK'
  <2>1. [at |-> "answer", loan |-> l, member |-> m, action |-> action] \in Jobs
    BY DEF Jobs
  <2> QED BY <1>1, <1>4, <2>1 DEF ReadAnswer, Starts
<1>5. ASSUME NEW e \in Externals, NEW action \in {"ACCEPT", "DECLINE"}, ReadLink(w, e, action)
      PROVE  TypeOK'
  <2>1. [at |-> "link", ext |-> e, action |-> action] \in Jobs
    BY DEF Jobs
  <2> QED BY <1>1, <1>5, <2>1 DEF ReadLink, Starts
<1>6. ASSUME NEW e \in Externals, NEW action \in {"APPROVE", "REJECT"}, ReadReview(w, e, action)
      PROVE  TypeOK'
  <2>1. [at |-> "review", ext |-> e, action |-> action] \in Jobs
    BY DEF Jobs
  <2> QED BY <1>1, <1>6, <2>1 DEF ReadReview, Starts
<1>7. ASSUME NEW l \in Loans, NEW target \in {"UNDER_REVIEW", "APPROVED", "REJECTED"},
             ReadLoan(w, l, target)
      PROVE  TypeOK'
  <2>1. [at |-> "decide", loan |-> l, target |-> target] \in Jobs
    BY DEF Jobs, LoanStatuses
  <2> QED BY <1>1, <1>7, <2>1 DEF ReadLoan, Starts
<1>8. ASSUME CheckCapacity(w) PROVE TypeOK'
  <2>1. worker[w].at = "answer"
    BY <1>8 DEF CheckCapacity
  <2>2. [at |-> "approve", loan |-> worker[w].loan, member |-> worker[w].member,
         action |-> worker[w].action] \in Jobs
    BY <2>1, JobTypes DEF Jobs
  <2> QED BY <1>1, <1>8, <2>2, IdleIsJob DEF CheckCapacity, Ends, Continues
<1>9. ASSUME WriteApproval(w) PROVE TypeOK'
  <2>1. PICK l \in Loans, m \in Members : l = worker[w].loan /\ m = worker[w].member
    BY <1>9, JobTypes DEF WriteApproval
  <2> DEFINE mine == [guarantee EXCEPT ![l][m].status = "APPROVED"]
  <2>2. \A k \in Loans : mine[k][m].amount \in Int
    BY GuaranteesAssumption DEF TypeOK, GuaranteeRows
  <2>3. AvailableCapacity(m, mine) \in Nat
    <3> HIDE DEF mine
    <3> QED BY <2>2, CapacityIsNat
  <2>4. Enough(l, mine) \in BOOLEAN
    BY DEF Enough
  <2>5. [at |-> "commit", loan |-> l, member |-> m, found |-> AvailableCapacity(m, mine),
         enough |-> Enough(l, mine)] \in Jobs
    <3> HIDE DEF mine
    <3> QED BY <2>3, <2>4 DEF Jobs
  <2>6. worker' = [worker EXCEPT ![w] =
          [at |-> "commit", loan |-> l, member |-> m, found |-> AvailableCapacity(m, mine),
           enough |-> Enough(l, mine)]]
    BY <1>9, <2>1 DEF WriteApproval, Continues
  <2> HIDE DEF mine
  <2> QED BY <1>1, <2>5, <2>6
<1>10. ASSUME SmsNotSent(w) PROVE TypeOK'
  BY <1>1, <1>10, IdleIsJob DEF SmsNotSent, Ends
<1> QED BY <1>2, <1>3, <1>4, <1>5, <1>6, <1>7, <1>8, <1>9, <1>10

\* Every step that writes a row of a loan, a guarantee or a capacity.
LEMMA WritingTypes ==
  ASSUME TypeOK, IsFiniteSet(Loans), NEW w \in Workers,
         \/ SearchSave(w) \/ CreateGuarantee(w) \/ CommitApproval(w) \/ Decline(w) \/ Decide(w)
  PROVE  TypeOK'
<1>0. worker' = [worker EXCEPT ![w] = Idle] /\ external' \in [Externals -> ExternalRows]
  BY DEF SearchSave, CreateGuarantee, CommitApproval, Decline, Decide, Ends, TypeOK
<1>1. SUFFICES /\ loanStatus' \in [Loans -> LoanStatuses]
               /\ guarantee' \in [Loans -> [Members -> GuaranteeRows]]
               /\ capacity' \in [Members -> Nat \cup {None}]
  BY <1>0, TypedStep, IdleIsJob
<1>2. CASE SearchSave(w)
  <2>1. worker[w].member \in Members /\ worker[w].found \in Nat
    BY <1>2, JobTypes DEF SearchSave
  <2> QED BY <1>2, <2>1 DEF SearchSave, TypeOK
<1>3. CASE CreateGuarantee(w)
  <2>1. PICK l \in Loans, m \in Members, a \in Amounts :
          l = worker[w].loan /\ m = worker[w].member /\ a = worker[w].amount
    BY <1>3, JobTypes DEF CreateGuarantee
  <2>2. [status |-> "PENDING", amount |-> a] \in GuaranteeRows
    BY DEF GuaranteeRows
  <2>3. /\ \/ guarantee' = [guarantee EXCEPT ![l][m] = [status |-> "PENDING", amount |-> a]]
           \/ guarantee' = guarantee
        /\ loanStatus' \in {loanStatus, [loanStatus EXCEPT ![l] = "GUARANTORS_PENDING"]}
        /\ capacity' = capacity
    BY <1>3, <2>1 DEF CreateGuarantee
  <2>4. guarantee' \in [Loans -> [Members -> GuaranteeRows]]
    <3>1. guarantee \in [Loans -> [Members -> GuaranteeRows]]
      BY DEF TypeOK
    <3> QED BY <2>2, <2>3, <3>1
  <2> QED BY <2>3, <2>4 DEF TypeOK, LoanStatuses
<1>4. CASE CommitApproval(w)
  <2>1. PICK l \in Loans, m \in Members :
          l = worker[w].loan /\ m = worker[w].member /\ worker[w].found \in Nat
    BY <1>4, JobTypes DEF CommitApproval
  <2>2. /\ guarantee' = [guarantee EXCEPT ![l][m].status = "APPROVED"]
        /\ capacity' = [capacity EXCEPT ![m] = worker[w].found]
        /\ loanStatus' \in {loanStatus, [loanStatus EXCEPT ![l] = "PENDING_APPROVAL"]}
    BY <1>4, <2>1 DEF CommitApproval
  <2>3. guarantee' \in [Loans -> [Members -> GuaranteeRows]]
    <3>1. guarantee \in [Loans -> [Members -> GuaranteeRows]]
      BY DEF TypeOK
    <3>2. guarantee' = [guarantee EXCEPT ![l][m].status = "APPROVED"]
      BY <2>2
    <3> QED BY <3>1, <3>2, AnsweredRow
  <2> QED BY <2>1, <2>2, <2>3 DEF TypeOK, LoanStatuses
<1>5. CASE Decline(w)
  <2>1. PICK l \in Loans, m \in Members : l = worker[w].loan /\ m = worker[w].member
    BY <1>5, JobTypes DEF Decline
  <2> DEFINE mine == [guarantee EXCEPT ![l][m].status = "DECLINED"]
  <2>2. /\ guarantee' = mine
        /\ capacity' \in {capacity, [capacity EXCEPT ![m] = AvailableCapacity(m, mine)]}
        /\ loanStatus' = [loanStatus EXCEPT ![l] = "PENDING"]
    BY <1>5, <2>1 DEF Decline
  <2>3. mine \in [Loans -> [Members -> GuaranteeRows]]
    <3>1. guarantee \in [Loans -> [Members -> GuaranteeRows]]
      BY DEF TypeOK
    <3> QED BY <3>1, AnsweredRow
  <2>4. \A k \in Loans : mine[k][m].amount \in Int
    BY <2>3, GuaranteesAssumption DEF GuaranteeRows
  <2> HIDE DEF mine
  <2>5. AvailableCapacity(m, mine) \in Nat
    BY <2>4, CapacityIsNat
  <2> QED BY <2>2, <2>3, <2>5 DEF TypeOK, LoanStatuses
<1>6. CASE Decide(w)
  <2>1. worker[w].loan \in Loans /\ worker[w].target \in LoanStatuses
    BY <1>6, JobTypes DEF Decide
  <2> QED BY <1>6, <2>1 DEF Decide, TypeOK
<1> QED BY <1>2, <1>3, <1>4, <1>5, <1>6

\* Every step that writes the row of an outsider.
LEMMA OutsideTypes ==
  ASSUME TypeOK, NEW w \in Workers,
         \/ \E e \in Externals, l \in Loans, a \in Amounts : NameExternal(w, e, l, a)
         \/ SmsSent(w) \/ MarkSent(w) \/ UseLink(w) \/ Review(w)
  PROVE  TypeOK'
<1>0. /\ loanStatus' \in [Loans -> LoanStatuses]
      /\ guarantee' \in [Loans -> [Members -> GuaranteeRows]]
      /\ capacity' \in [Members -> Nat \cup {None}]
  BY DEF NameExternal, SmsSent, MarkSent, UseLink, Review, TypeOK
<1>1. ASSUME NEW e \in Externals, NEW l \in Loans, NEW a \in Amounts, NameExternal(w, e, l, a)
      PROVE  TypeOK'
  <2>1. [loan |-> l, status |-> "PENDING_SMS", response |-> None, answers |-> {},
         amount |-> a, linkLive |-> TRUE] \in ExternalRows
    BY DEF ExternalRows
  <2>2. [at |-> "sms", ext |-> e] \in Jobs
    BY DEF Jobs
  <2>3. external' \in [Externals -> ExternalRows]
    BY <1>1, <2>1 DEF NameExternal, TypeOK
  <2> QED BY <1>0, <1>1, <2>2, <2>3, TypedStep DEF NameExternal, Starts
<1>2. CASE SmsSent(w)
  <2>1. PICK e \in Externals : e = worker[w].ext
    BY <1>2, JobTypes DEF SmsSent
  <2>2. external' = [external EXCEPT ![e].status = "SMS_SENT"]
    BY <1>2, <2>1 DEF SmsSent
  <2>3. external' \in [Externals -> ExternalRows]
    <3> DEFINE row == [external[e] EXCEPT !.status = "SMS_SENT"]
    <3>1. external \in [Externals -> ExternalRows] /\ external[e] \in ExternalRows
      BY DEF TypeOK
    <3>2. row \in ExternalRows
      BY <3>1 DEF ExternalRows
    <3>3. external' = [external EXCEPT ![e] = row]
      BY <2>2
    <3> HIDE DEF row
    <3> QED BY <3>1, <3>2, <3>3
  <2>4. [at |-> "mark", ext |-> e] \in Jobs
    BY DEF Jobs
  <2>5. worker' = [worker EXCEPT ![w] = [at |-> "mark", ext |-> e]]
    BY <1>2, <2>1 DEF SmsSent, Continues
  <2> QED BY <1>0, <2>3, <2>4, <2>5, TypedStep
<1>3. CASE MarkSent(w) \/ UseLink(w) \/ Review(w)
  <2>1. PICK e \in Externals : e = worker[w].ext
    BY <1>3, JobTypes DEF MarkSent, UseLink, Review
  <2>2. \/ \E s \in {"SMS_SENT", "APPROVED_BY_ADMIN", "REJECTED_BY_ADMIN"} :
             external' = [external EXCEPT ![e].status = s]
        \/ \E s \in {"ACCEPTED", "DECLINED"} :
             external' = [external EXCEPT ![e].status = s, ![e].response = s,
                                          ![e].answers = @ \cup {s}]
    BY <1>3, <2>1 DEF MarkSent, UseLink, Review
  <2>3. external' \in [Externals -> ExternalRows]
    <3>1. external \in [Externals -> ExternalRows]
      BY DEF TypeOK
    <3> QED BY <2>2, <3>1 DEF ExternalRows
  <2>4. worker' = [worker EXCEPT ![w] = Idle]
    BY <1>3 DEF MarkSent, UseLink, Review, Ends
  <2> QED BY <1>0, <2>3, <2>4, TypedStep, IdleIsJob
<1> QED BY <1>1, <1>2, <1>3

\* At first no row and no job is there.
LEMMA InitTypes == Init => TypeOK
<1> SUFFICES ASSUME Init PROVE TypeOK
  OBVIOUS
<1>1. [status |-> "NONE", amount |-> 0] \in GuaranteeRows
  BY DEF GuaranteeRows
<1>2. [loan |-> None, status |-> "NONE", response |-> None, answers |-> {},
       amount |-> 0, linkLive |-> FALSE] \in ExternalRows
  BY DEF ExternalRows
<1> QED BY <1>1, <1>2, IdleIsJob DEF Init, TypeOK, LoanStatuses

\* Every step keeps the types.
LEMMA TypesStep ==
  ASSUME TypeOK, [Next]_vars, IsFiniteSet(Loans)
  PROVE  TypeOK'
<1>1. ASSUME NEW l \in Loans, PayOut(l) PROVE TypeOK'
  BY <1>1 DEF PayOut, TypeOK, LoanStatuses
<1>2. ASSUME NEW e \in Externals, LinkExpires(e) PROVE TypeOK'
  <2> DEFINE row == [external[e] EXCEPT !.linkLive = FALSE]
  <2>1. external \in [Externals -> ExternalRows] /\ external[e] \in ExternalRows
    BY DEF TypeOK
  <2>2. row \in ExternalRows
    BY <2>1 DEF ExternalRows
  <2>3. external' = [external EXCEPT ![e] = row] /\ UNCHANGED <<loanStatus, guarantee, capacity, worker>>
    BY <1>2 DEF LinkExpires
  <2> HIDE DEF row
  <2>4. external' \in [Externals -> ExternalRows]
    BY <2>1, <2>2, <2>3
  <2> QED BY <2>3, <2>4 DEF TypeOK
<1>3. CASE UNCHANGED vars
  BY <1>3 DEF vars, TypeOK
<1> QED BY <1>1, <1>2, <1>3, ReadingTypes, WritingTypes, OutsideTypes DEF Next

\* Rows and jobs keep their types; a capacity is never below zero.
THEOREM GuaranteesTyped ==
  ASSUME IsFiniteSet(Loans)
  PROVE  Spec => []TypeOK
<1>1. TypeOK /\ [Next]_vars => TypeOK'
  BY TypesStep
<1> QED BY InitTypes, <1>1, PTL DEF Spec

-----------------------------------------------------------------------------
(* Cover                                                                    *)

\* Whoever the SACCO approved, or is about to approve, has accepted, and nobody
\* has who was not named.
AcceptInv ==
  /\ \A e \in Externals :
       /\ external[e].status \in {"ACCEPTED", "APPROVED_BY_ADMIN"}
            => "ACCEPTED" \in external[e].answers
       /\ "ACCEPTED" \in external[e].answers => external[e].status # "NONE"
  /\ \A w \in Workers : worker[w].at = "review" /\ worker[w].action = "APPROVE"
                        => "ACCEPTED" \in external[worker[w].ext].answers

\* An approval that was read to be covered and is not written yet.
ReadInv ==
  \A w \in Workers : worker[w].at = "decide" /\ worker[w].target = "APPROVED"
                     => Covered(worker[w].loan)

\* Both, and that what is approved is covered.
CoverInv == AcceptInv /\ ReadInv /\ ApprovedIsCovered

\* What the argument takes from the other invariants.
KnownInv == TypeOK /\ ApprovalsInv

\* What a step leaves of what backs the loans: who has approved or accepted still
\* has, for the same loan and with the same amount.
BackingStays ==
  /\ \A l \in Loans, m \in Members : guarantee[l][m].status = "APPROVED" =>
       guarantee'[l][m].status = "APPROVED" /\ guarantee'[l][m].amount = guarantee[l][m].amount
  /\ \A e \in Externals : "ACCEPTED" \in external[e].answers =>
       /\ "ACCEPTED" \in external'[e].answers /\ external'[e].status # "NONE"
       /\ external'[e].loan = external[e].loan /\ external'[e].amount = external[e].amount

\* Then a loan that is covered stays covered.
LEMMA CoverStays ==
  ASSUME KnownInv, TypeOK', BackingStays, IsFiniteSet(Members), IsFiniteSet(Externals),
         NEW l \in Loans, Covered(l)
  PROVE  Covered(l)'
<1>t. /\ \A m \in Members : guarantee[l][m].amount \in Nat /\ guarantee'[l][m].amount \in Nat
      /\ \A e \in Externals : external[e].amount \in Nat /\ external'[e].amount \in Nat
  <2>1. /\ \A m \in Members : guarantee[l][m] \in GuaranteeRows /\ guarantee'[l][m] \in GuaranteeRows
        /\ \A e \in Externals : external[e] \in ExternalRows /\ external'[e] \in ExternalRows
    BY DEF KnownInv, TypeOK
  <2>2. Amounts \cup {0} \subseteq Nat
    BY GuaranteesAssumption
  <2>3. /\ \A r \in GuaranteeRows : r.amount \in Amounts \cup {0}
        /\ \A r \in ExternalRows : r.amount \in Amounts \cup {0}
    BY DEF GuaranteeRows, ExternalRows
  <2> QED BY <2>1, <2>2, <2>3
<1>1. GivenByMembers(l) <= GivenByMembers(l)' /\ GivenByMembers(l) \in Int /\ GivenByMembers(l)' \in Int
  <2> DEFINE f == [m \in Members |-> guarantee[l][m].amount]
             g == [m \in Members |-> guarantee'[l][m].amount]
             S == Approved(l, guarantee)
             T == Approved(l, guarantee')
  <2>1. S \subseteq T /\ T \subseteq Members
    BY DEF Approved, BackingStays
  <2>2. IsFiniteSet(T) /\ IsFiniteSet(S)
    BY <2>1, FS_Subset
  <2>3. /\ \A m \in S : f[m] \in Int /\ f[m] <= g[m]
        /\ \A m \in T : g[m] \in Nat
    BY <1>t DEF Approved, BackingStays
  <2>4. GivenByMembers(l) = SumFunctionOnSet(f, S) /\ GivenByMembers(l)' = SumFunctionOnSet(g, T)
    BY DEF GivenByMembers
  <2> HIDE DEF f, g, S, T
  <2>5. SumFunctionOnSet(f, S) <= SumFunctionOnSet(g, T)
    BY <2>1, <2>2, <2>3, SumGrows
  <2>6. SumFunctionOnSet(f, S) \in Int /\ SumFunctionOnSet(g, T) \in Int
    BY <2>2, <2>3, SumInt
  <2> QED BY <2>4, <2>5, <2>6
<1>2. /\ GivenByOutsiders(Accepted(l)) <= GivenByOutsiders(Accepted(l))'
      /\ GivenByOutsiders(Accepted(l)) \in Int /\ GivenByOutsiders(Accepted(l))' \in Int
  <2> DEFINE f == [e \in Externals |-> external[e].amount]
             g == [e \in Externals |-> external'[e].amount]
             S == Accepted(l)
             T == Accepted(l)'
  <2>1. S \subseteq T /\ T \subseteq Externals
    BY DEF Accepted, BackingStays
  <2>2. IsFiniteSet(T) /\ IsFiniteSet(S)
    BY <2>1, FS_Subset
  <2>3. /\ \A e \in S : f[e] \in Int /\ f[e] <= g[e]
        /\ \A e \in T : g[e] \in Nat
    BY <1>t DEF Accepted, BackingStays
  <2>4. /\ GivenByOutsiders(Accepted(l)) = SumFunctionOnSet(f, S)
        /\ GivenByOutsiders(Accepted(l))' = SumFunctionOnSet(g, T)
    BY DEF GivenByOutsiders
  <2> HIDE DEF f, g, S, T
  <2>5. SumFunctionOnSet(f, S) <= SumFunctionOnSet(g, T)
    BY <2>1, <2>2, <2>3, SumGrows
  <2>6. SumFunctionOnSet(f, S) \in Int /\ SumFunctionOnSet(g, T) \in Int
    BY <2>2, <2>3, SumInt
  <2> QED BY <2>4, <2>5, <2>6
<1>3. LoanAmount \in Int
  BY GuaranteesAssumption
<1>4. \A a, b, x, y \in Int : LoanAmount <= a + b /\ a <= x /\ b <= y => LoanAmount <= x + y
  BY <1>3
<1> HIDE DEF GivenByMembers, GivenByOutsiders
<1> QED BY <1>1, <1>2, <1>4 DEF Covered

\* A loan that the status endpoint finds complete is covered.
LEMMA CompleteIsCovered ==
  ASSUME KnownInv, AcceptInv, IsFiniteSet(Members), IsFiniteSet(Externals),
         NEW l \in Loans, GuarantorsComplete(l)
  PROVE  Covered(l)
<1>t. \A e \in Externals : external[e].amount \in Nat
  <2>1. \A e \in Externals : external[e] \in ExternalRows
    BY DEF KnownInv, TypeOK
  <2>2. Amounts \cup {0} \subseteq Nat /\ \A r \in ExternalRows : r.amount \in Amounts \cup {0}
    BY GuaranteesAssumption DEF ExternalRows
  <2> QED BY <2>1, <2>2
<1>m. GivenByMembers(l) \in Int
  <2> DEFINE f == [m \in Members |-> guarantee[l][m].amount]
  <2>1. IsFiniteSet(Approved(l, guarantee)) /\ Approved(l, guarantee) \subseteq Members
    <3>1. Approved(l, guarantee) \subseteq Members
      BY DEF Approved
    <3> QED BY <3>1, FS_Subset
  <2>2. \A m \in Members : guarantee[l][m] \in GuaranteeRows
    BY DEF KnownInv, TypeOK
  <2>3. Amounts \cup {0} \subseteq Int /\ \A r \in GuaranteeRows : r.amount \in Amounts \cup {0}
    BY GuaranteesAssumption DEF GuaranteeRows
  <2>4. \A m \in Approved(l, guarantee) : f[m] \in Int
    BY <2>1, <2>2, <2>3
  <2> HIDE DEF f
  <2>5. SumFunctionOnSet(f, Approved(l, guarantee)) \in Int
    BY <2>1, <2>4, SumInt
  <2> QED BY <2>5 DEF GivenByMembers, f
<1> DEFINE f == [e \in Externals |-> external[e].amount]
           S == ExternalsOf(l, {"APPROVED_BY_ADMIN"})
           T == Accepted(l)
<1>1. S \subseteq T /\ T \subseteq Externals
  BY DEF ExternalsOf, Accepted, AcceptInv
<1>2. IsFiniteSet(T) /\ IsFiniteSet(S)
  BY <1>1, FS_Subset
<1>3. (\A e \in S : f[e] \in Int /\ f[e] <= f[e]) /\ \A e \in T : f[e] \in Nat
  BY <1>t, <1>1
<1>4. LoanAmount <= GivenByMembers(l) + SumFunctionOnSet(f, S)
  BY DEF GuarantorsComplete, GivenByOutsiders
<1>5. Covered(l) <=> LoanAmount <= GivenByMembers(l) + SumFunctionOnSet(f, T)
  BY DEF Covered, GivenByOutsiders
<1> HIDE DEF f, S, T
<1>6. SumFunctionOnSet(f, S) <= SumFunctionOnSet(f, T)
  BY <1>1, <1>2, <1>3, SumGrows
<1>7. SumFunctionOnSet(f, S) \in Int /\ SumFunctionOnSet(f, T) \in Int
  BY <1>2, <1>3, SumInt
<1>8. LoanAmount \in Int
  BY GuaranteesAssumption
<1> QED BY <1>m, <1>4, <1>5, <1>6, <1>7, <1>8

\* Nothing takes back what backs a loan.
LEMMA BackingStep ==
  ASSUME KnownInv, AcceptInv, [Next]_vars
  PROVE  BackingStays
<1> USE DEF KnownInv
<1>t. /\ guarantee \in [Loans -> [Members -> GuaranteeRows]]
      /\ external \in [Externals -> ExternalRows]
  BY DEF TypeOK
<1>1. \A l \in Loans, m \in Members : guarantee[l][m].status = "APPROVED" =>
        guarantee'[l][m].status = "APPROVED" /\ guarantee'[l][m].amount = guarantee[l][m].amount
  <2>1. ASSUME NEW l \in Loans, NEW m \in Members, NEW row,
               guarantee' = [guarantee EXCEPT ![l][m] = row], guarantee[l][m].status # "APPROVED",
               NEW k \in Loans, NEW n \in Members, guarantee[k][n].status = "APPROVED"
        PROVE  guarantee'[k][n] = guarantee[k][n]
    BY <2>1, <1>t
  <2>2. ASSUME NEW l \in Loans, NEW m \in Members, NEW answer,
               guarantee' = [guarantee EXCEPT ![l][m].status = answer],
               guarantee[l][m].status # "APPROVED",
               NEW k \in Loans, NEW n \in Members, guarantee[k][n].status = "APPROVED"
        PROVE  guarantee'[k][n] = guarantee[k][n]
    BY <2>2, <1>t
  <2>3. ASSUME NEW w \in Workers, CreateGuarantee(w),
               NEW k \in Loans, NEW n \in Members, guarantee[k][n].status = "APPROVED"
        PROVE  guarantee'[k][n] = guarantee[k][n]
    <3>1. PICK l \in Loans, m \in Members : l = worker[w].loan /\ m = worker[w].member
      BY <2>3, JobTypes DEF CreateGuarantee
    <3>2. \/ guarantee' = guarantee
          \/ /\ guarantee[l][m].status = "NONE"
             /\ \E row : guarantee' = [guarantee EXCEPT ![l][m] = row]
      BY <2>3, <3>1 DEF CreateGuarantee
    <3> QED BY <2>1, <2>3, <3>2
  <2>4. ASSUME NEW w \in Workers, CommitApproval(w) \/ Decline(w),
               NEW k \in Loans, NEW n \in Members, guarantee[k][n].status = "APPROVED"
        PROVE  guarantee'[k][n] = guarantee[k][n]
    <3>0. w \in Answering
      BY <2>4 DEF CommitApproval, Decline, Answering
    <3>1. PICK l \in Loans, m \in Members :
            l = worker[w].loan /\ m = worker[w].member /\ guarantee[l][m].status = "PENDING"
      BY <3>0 DEF ApprovalsInv, AnswerInv
    <3>2. CASE CommitApproval(w)
      <4>1. guarantee' = [guarantee EXCEPT ![l][m].status = "APPROVED"]
        BY <3>1, <3>2 DEF CommitApproval
      <4> QED BY <2>2, <2>4, <3>1, <4>1
    <3>3. CASE Decline(w)
      <4>1. guarantee' = [guarantee EXCEPT ![l][m].status = "DECLINED"]
        BY <3>1, <3>3 DEF Decline
      <4> QED BY <2>2, <2>4, <3>1, <4>1
    <3> QED BY <2>4, <3>2, <3>3
  <2>5. \/ UNCHANGED guarantee
        \/ \E w \in Workers : CreateGuarantee(w) \/ CommitApproval(w) \/ Decline(w)
    BY DEF Next, vars, PayOut, LinkExpires, SearchSave, CheckCapacity, WriteApproval, SmsNotSent,
           SmsSent, MarkSent, UseLink, Review, Decide, Search, Ask, ReadAnswer, NameExternal,
           ReadLink, ReadReview, ReadLoan
  <2> QED BY <2>3, <2>4, <2>5
<1>2. ASSUME NEW e \in Externals, "ACCEPTED" \in external[e].answers
      PROVE  /\ "ACCEPTED" \in external'[e].answers /\ external'[e].status # "NONE"
             /\ external'[e].loan = external[e].loan /\ external'[e].amount = external[e].amount
  <2>0. external[e] \in ExternalRows /\ external[e].status # "NONE"
    BY <1>t, <1>2 DEF AcceptInv
  <2>1. ASSUME NEW w \in Workers, NEW d \in Externals, NEW l \in Loans, NEW a \in Amounts,
               NameExternal(w, d, l, a)
        PROVE  external'[e] = external[e]
    BY <1>t, <2>0, <2>1 DEF NameExternal
  <2>2. ASSUME NEW d \in Externals, LinkExpires(d)
        PROVE  external'[e] = external[e] \/ external'[e] = [external[e] EXCEPT !.linkLive = FALSE]
    BY <1>t, <2>2 DEF LinkExpires
  <2>3. ASSUME NEW w \in Workers, SmsSent(w) \/ MarkSent(w) \/ UseLink(w) \/ Review(w)
        PROVE  \/ external'[e] = external[e]
               \/ \E s \in {"SMS_SENT", "APPROVED_BY_ADMIN", "REJECTED_BY_ADMIN"} :
                    external'[e] = [external[e] EXCEPT !.status = s]
               \/ \E s \in {"ACCEPTED", "DECLINED"} :
                    external'[e] = [external[e] EXCEPT !.status = s, !.response = s,
                                                       !.answers = @ \cup {s}]
    <3>1. PICK d \in Externals : d = worker[w].ext
      BY <2>3, JobTypes DEF SmsSent, MarkSent, UseLink, Review
    <3>2. \/ \E s \in {"SMS_SENT", "APPROVED_BY_ADMIN", "REJECTED_BY_ADMIN"} :
               external' = [external EXCEPT ![d].status = s]
          \/ \E s \in {"ACCEPTED", "DECLINED"} :
               external' = [external EXCEPT ![d].status = s, ![d].response = s,
                                            ![d].answers = @ \cup {s}]
      BY <2>3, <3>1 DEF SmsSent, MarkSent, UseLink, Review
    <3> QED BY <1>t, <3>2
  <2>4. \/ UNCHANGED external
        \/ \E d \in Externals : LinkExpires(d)
        \/ \E w \in Workers : \/ SmsSent(w) \/ MarkSent(w) \/ UseLink(w) \/ Review(w)
                              \/ \E d \in Externals, l \in Loans, a \in Amounts :
                                   NameExternal(w, d, l, a)
    BY DEF Next, vars, PayOut, SearchSave, CreateGuarantee, CheckCapacity, WriteApproval,
           CommitApproval, Decline, SmsNotSent, Decide, Search, Ask, ReadAnswer,
           ReadLink, ReadReview, ReadLoan
  <2>5. \A row \in ExternalRows, s \in {"SMS_SENT", "APPROVED_BY_ADMIN", "REJECTED_BY_ADMIN"} :
          LET new == [row EXCEPT !.status = s]
          IN  new.answers = row.answers /\ new.status # "NONE" /\ new.loan = row.loan
              /\ new.amount = row.amount
    BY DEF ExternalRows
  <2>6. \A row \in ExternalRows, s \in {"ACCEPTED", "DECLINED"} :
          LET new == [row EXCEPT !.status = s, !.response = s, !.answers = @ \cup {s}]
          IN  new.answers = row.answers \cup {s} /\ new.status # "NONE" /\ new.loan = row.loan
              /\ new.amount = row.amount
    BY DEF ExternalRows
  <2>7. \A row \in ExternalRows :
          LET new == [row EXCEPT !.linkLive = FALSE]
          IN  new.answers = row.answers /\ new.status = row.status /\ new.loan = row.loan
              /\ new.amount = row.amount
    BY DEF ExternalRows
  <2>8. ASSUME NEW w \in Workers, SmsSent(w) \/ MarkSent(w) \/ UseLink(w) \/ Review(w)
        PROVE  /\ "ACCEPTED" \in external'[e].answers /\ external'[e].status # "NONE"
               /\ external'[e].loan = external[e].loan /\ external'[e].amount = external[e].amount
    <3>1. CASE external'[e] = external[e]
      BY <1>2, <2>0, <3>1
    <3>2. ASSUME NEW s \in {"SMS_SENT", "APPROVED_BY_ADMIN", "REJECTED_BY_ADMIN"},
                 external'[e] = [external[e] EXCEPT !.status = s]
          PROVE  /\ external'[e].answers = external[e].answers /\ external'[e].status # "NONE"
                 /\ external'[e].loan = external[e].loan
                 /\ external'[e].amount = external[e].amount
      BY <2>0, <2>5, <3>2
    <3>3. ASSUME NEW s \in {"ACCEPTED", "DECLINED"},
                 external'[e] = [external[e] EXCEPT !.status = s, !.response = s,
                                                    !.answers = @ \cup {s}]
          PROVE  /\ external'[e].answers = external[e].answers \cup {s}
                 /\ external'[e].status # "NONE" /\ external'[e].loan = external[e].loan
                 /\ external'[e].amount = external[e].amount
      BY <2>0, <2>6, <3>3
    <3> QED BY <1>2, <2>3, <2>8, <3>1, <3>2, <3>3
  <2>9. ASSUME NEW d \in Externals, LinkExpires(d)
        PROVE  /\ "ACCEPTED" \in external'[e].answers /\ external'[e].status # "NONE"
               /\ external'[e].loan = external[e].loan /\ external'[e].amount = external[e].amount
    BY <1>2, <2>0, <2>2, <2>7, <2>9
  <2> QED BY <1>2, <2>0, <2>1, <2>4, <2>8, <2>9
<1> QED BY <1>1, <1>2 DEF BackingStays

\* Who takes up a review or a decision has read what it is about.
LEMMA ReadersHaveRead ==
  ASSUME TypeOK, [Next]_vars, NEW w \in Workers, worker'[w] # worker[w],
         worker'[w].at \in {"review", "decide"}
  PROVE  \/ \E e \in Externals, action \in {"APPROVE", "REJECT"} : ReadReview(w, e, action)
         \/ \E l \in Loans, target \in {"UNDER_REVIEW", "APPROVED", "REJECTED"} :
              ReadLoan(w, l, target)
<1> DEFINE Goal == \/ \E e \in Externals, action \in {"APPROVE", "REJECT"} : ReadReview(w, e, action)
                   \/ \E l \in Loans, target \in {"UNDER_REVIEW", "APPROVED", "REJECTED"} :
                        ReadLoan(w, l, target)
<1>t. worker = [u \in Workers |-> worker[u]]
  BY DEF TypeOK
<1>a. ASSUME NEW u \in Workers, NEW job, job.at \notin {"review", "decide"},
             worker' = [worker EXCEPT ![u] = job]
      PROVE  FALSE
  BY <1>t, <1>a
<1>b. ASSUME NEW u \in Workers, NEW job, worker' = [worker EXCEPT ![u] = job] PROVE u = w
  BY <1>t, <1>b
<1> USE DEF Starts, Continues, Ends, Idle
<1>1. ASSUME NEW u \in Workers,
             \/ SearchSave(u) \/ CreateGuarantee(u) \/ CheckCapacity(u)
             \/ CommitApproval(u) \/ Decline(u) \/ SmsNotSent(u) \/ SmsSent(u) \/ MarkSent(u)
             \/ UseLink(u) \/ Review(u) \/ Decide(u)
      PROVE  FALSE
  <2>1. \E job : job.at \notin {"review", "decide"} /\ worker' = [worker EXCEPT ![u] = job]
    BY <1>1 DEF SearchSave, CreateGuarantee, CheckCapacity, CommitApproval, Decline,
                SmsNotSent, SmsSent, MarkSent, UseLink, Review, Decide
  <2> QED BY <1>a, <2>1
<1>2. ASSUME NEW u \in Workers,
             \/ WriteApproval(u) \/ \E m \in Members : Search(u, m)
             \/ \E l \in Loans, m \in Members, a \in Amounts : Ask(u, l, m, a)
             \/ \E l \in Loans, m \in Members, action \in {"APPROVE", "DECLINE"} :
                  ReadAnswer(u, l, m, action)
             \/ \E e \in Externals, l \in Loans, a \in Amounts : NameExternal(u, e, l, a)
             \/ \E e \in Externals, action \in {"ACCEPT", "DECLINE"} : ReadLink(u, e, action)
      PROVE  FALSE
  <2>1. \E job : job.at \notin {"review", "decide"} /\ worker' = [worker EXCEPT ![u] = job]
    BY <1>2 DEF WriteApproval, Search, Ask, ReadAnswer, NameExternal, ReadLink
  <2> QED BY <1>a, <2>1
<1>3. ASSUME NEW u \in Workers, NEW e \in Externals, NEW action \in {"APPROVE", "REJECT"},
             ReadReview(u, e, action)
      PROVE  Goal
  BY <1>3, <1>b DEF ReadReview
<1>4. ASSUME NEW u \in Workers, NEW l \in Loans,
             NEW target \in {"UNDER_REVIEW", "APPROVED", "REJECTED"}, ReadLoan(u, l, target)
      PROVE  Goal
  BY <1>4, <1>b DEF ReadLoan
<1>5. (\E l \in Loans : PayOut(l)) \/ (\E e \in Externals : LinkExpires(e)) \/ UNCHANGED vars
      => FALSE
  BY DEF PayOut, LinkExpires, vars
<1> QED BY <1>1, <1>2, <1>3, <1>4, <1>5 DEF Next

\* Who accepted, and whom the SACCO approves, has accepted: the answer was read
\* before the approval and is part of the history.
LEMMA AcceptStep ==
  ASSUME KnownInv, AcceptInv, BackingStays, [Next]_vars
  PROVE  AcceptInv'
<1> USE DEF KnownInv
<1>t. external \in [Externals -> ExternalRows] /\ worker = [w \in Workers |-> worker[w]]
  BY DEF TypeOK
<1>s. \A e \in Externals : "ACCEPTED" \in external[e].answers => "ACCEPTED" \in external'[e].answers
  BY DEF BackingStays
<1>1. ASSUME NEW e \in Externals, external'[e].status \in {"ACCEPTED", "APPROVED_BY_ADMIN"}
      PROVE  "ACCEPTED" \in external'[e].answers
  <2>1. CASE external'[e].status = external[e].status
    BY <1>1, <1>s, <2>1 DEF AcceptInv
  <2>2. CASE external'[e].status # external[e].status
    <3>1. ASSUME NEW w \in Workers, NEW d \in Externals, NEW l \in Loans, NEW a \in Amounts,
                 NameExternal(w, d, l, a)
          PROVE  FALSE
      BY <1>1, <1>t, <2>2, <3>1 DEF NameExternal
    <3>2. ASSUME NEW d \in Externals, LinkExpires(d) PROVE FALSE
      <4>1. external[e] \in ExternalRows
        BY <1>t
      <4> QED BY <1>t, <2>2, <3>2, <4>1 DEF LinkExpires, ExternalRows
    <3>3. ASSUME NEW w \in Workers, SmsSent(w) \/ MarkSent(w) PROVE FALSE
      <4>1. PICK d \in Externals : d = worker[w].ext
        BY <3>3, JobTypes DEF SmsSent, MarkSent
      <4>2. external' = [external EXCEPT ![d].status = "SMS_SENT"]
        BY <3>3, <4>1 DEF SmsSent, MarkSent
      <4>3. external[d] \in ExternalRows
        BY <1>t
      <4> QED BY <1>1, <1>t, <2>2, <4>2, <4>3 DEF ExternalRows
    <3>4. ASSUME NEW w \in Workers, UseLink(w) PROVE "ACCEPTED" \in external'[e].answers
      <4>1. PICK d \in Externals : d = worker[w].ext
        BY <3>4, JobTypes DEF UseLink
      <4>2. PICK answer \in {"ACCEPTED", "DECLINED"} :
              external' = [external EXCEPT ![d].status = answer, ![d].response = answer,
                                           ![d].answers = @ \cup {answer}]
        BY <3>4, <4>1 DEF UseLink
      <4>3. external[d] \in ExternalRows
        BY <1>t
      <4> QED BY <1>1, <1>t, <2>2, <4>2, <4>3 DEF ExternalRows
    <3>5. ASSUME NEW w \in Workers, Review(w) PROVE "ACCEPTED" \in external'[e].answers
      <4>1. PICK d \in Externals : d = worker[w].ext
        BY <3>5, JobTypes DEF Review
      <4>2. external' = [external EXCEPT ![d].status =
                           IF worker[w].action = "APPROVE" THEN "APPROVED_BY_ADMIN"
                           ELSE "REJECTED_BY_ADMIN"]
        BY <3>5, <4>1 DEF Review
      <4>3. external[d] \in ExternalRows
        BY <1>t
      <4>4. e = d /\ worker[w].action = "APPROVE"
        BY <1>1, <1>t, <2>2, <4>2, <4>3 DEF ExternalRows
      <4>5. "ACCEPTED" \in external[e].answers
        BY <3>5, <4>1, <4>4 DEF Review, AcceptInv
      <4> QED BY <1>s, <4>5
    <3>6. \/ UNCHANGED external
          \/ \E d \in Externals : LinkExpires(d)
          \/ \E w \in Workers : \/ SmsSent(w) \/ MarkSent(w) \/ UseLink(w) \/ Review(w)
                                \/ \E d \in Externals, l \in Loans, a \in Amounts :
                                     NameExternal(w, d, l, a)
      BY DEF Next, vars, PayOut, SearchSave, CreateGuarantee, CheckCapacity, WriteApproval,
             CommitApproval, Decline, SmsNotSent, Decide, Search, Ask, ReadAnswer,
             ReadLink, ReadReview, ReadLoan
    <3> QED BY <2>2, <3>1, <3>2, <3>3, <3>4, <3>5, <3>6
  <2> QED BY <2>1, <2>2
<1>2. ASSUME NEW w \in Workers, worker'[w].at = "review", worker'[w].action = "APPROVE"
      PROVE  "ACCEPTED" \in external'[worker'[w].ext].answers
  <2>1. CASE worker'[w] = worker[w]
    <3>1. worker[w].ext \in Externals /\ "ACCEPTED" \in external[worker[w].ext].answers
      BY <1>2, <2>1, JobTypes DEF AcceptInv
    <3> QED BY <1>s, <2>1, <3>1
  <2>2. CASE worker'[w] # worker[w]
    <3>1. ASSUME NEW e \in Externals, NEW action \in {"APPROVE", "REJECT"},
                 ReadReview(w, e, action)
          PROVE  "ACCEPTED" \in external'[worker'[w].ext].answers
      <4>1. worker'[w] = [at |-> "review", ext |-> e, action |-> action] /\ external' = external
        BY <1>t, <3>1 DEF ReadReview, Starts
      <4>2. external[e].status = "ACCEPTED"
        BY <1>2, <3>1, <4>1 DEF ReadReview
      <4> QED BY <4>1, <4>2 DEF AcceptInv
    <3>2. ASSUME NEW l \in Loans, NEW target \in {"UNDER_REVIEW", "APPROVED", "REJECTED"},
                 ReadLoan(w, l, target)
          PROVE  FALSE
      BY <1>2, <1>t, <3>2 DEF ReadLoan, Starts
    <3> QED BY <1>2, <2>2, <3>1, <3>2, ReadersHaveRead
  <2> QED BY <2>1, <2>2
<1>3. ASSUME NEW e \in Externals, "ACCEPTED" \in external'[e].answers
      PROVE  external'[e].status # "NONE"
  <2>1. CASE "ACCEPTED" \in external[e].answers
    BY <2>1 DEF BackingStays
  <2>2. CASE "ACCEPTED" \notin external[e].answers
    <3>1. ASSUME NEW w \in Workers, NEW d \in Externals, NEW l \in Loans, NEW a \in Amounts,
                 NameExternal(w, d, l, a)
          PROVE  external'[e].status # "NONE"
      BY <1>3, <1>t, <2>2, <3>1 DEF NameExternal
    <3>2. ASSUME NEW d \in Externals, LinkExpires(d) PROVE FALSE
      <4>1. external[e] \in ExternalRows
        BY <1>t
      <4> QED BY <1>3, <1>t, <2>2, <3>2, <4>1 DEF LinkExpires, ExternalRows
    <3>3. ASSUME NEW w \in Workers, SmsSent(w) \/ MarkSent(w) \/ UseLink(w) \/ Review(w)
          PROVE  external'[e].status # "NONE"
      <4>1. PICK d \in Externals : d = worker[w].ext
        BY <3>3, JobTypes DEF SmsSent, MarkSent, UseLink, Review
      <4>2. external[d] \in ExternalRows
        BY <1>t
      <4>3. \/ \E s : external' = [external EXCEPT ![d].status = s]
            \/ \E s \in {"ACCEPTED", "DECLINED"} :
                 external' = [external EXCEPT ![d].status = s, ![d].response = s,
                                              ![d].answers = @ \cup {s}]
        BY <3>3, <4>1 DEF SmsSent, MarkSent, UseLink, Review
      <4> QED BY <1>3, <1>t, <2>2, <4>2, <4>3 DEF ExternalRows
    <3>4. \/ UNCHANGED external
          \/ \E d \in Externals : LinkExpires(d)
          \/ \E w \in Workers : \/ SmsSent(w) \/ MarkSent(w) \/ UseLink(w) \/ Review(w)
                                \/ \E d \in Externals, l \in Loans, a \in Amounts :
                                     NameExternal(w, d, l, a)
      BY DEF Next, vars, PayOut, SearchSave, CreateGuarantee, CheckCapacity, WriteApproval,
             CommitApproval, Decline, SmsNotSent, Decide, Search, Ask, ReadAnswer,
             ReadLink, ReadReview, ReadLoan
    <3> QED BY <1>3, <2>2, <3>1, <3>2, <3>3, <3>4
  <2> QED BY <2>1, <2>2
<1> QED BY <1>1, <1>2, <1>3 DEF AcceptInv

\* An approval is written only when it was read to be covered, and cover is never
\* lost in between.
LEMMA CoverStep ==
  ASSUME KnownInv, KnownInv', [Next]_vars, CoverInv,
         IsFiniteSet(Members), IsFiniteSet(Externals)
  PROVE  CoverInv'
<1>0. BackingStays
  BY BackingStep DEF CoverInv
<1>1. AcceptInv'
  BY <1>0, AcceptStep DEF CoverInv
<1>2. TypeOK /\ TypeOK' /\ worker = [w \in Workers |-> worker[w]]
  BY DEF KnownInv, TypeOK
<1>3. \A l \in Loans : Covered(l) => Covered(l)'
  BY <1>0, <1>2, CoverStays
<1>4. ASSUME NEW w \in Workers, worker'[w].at = "decide", worker'[w].target = "APPROVED",
             NEW l \in Loans, worker'[w].loan = l
      PROVE  Covered(l)'
  <2>1. CASE worker'[w] = worker[w]
    <3>1. Covered(l)
      BY <1>4, <2>1 DEF CoverInv, ReadInv
    <3> QED BY <1>3, <3>1
  <2>2. CASE worker'[w] # worker[w]
    <3>1. ASSUME NEW e \in Externals, NEW action \in {"APPROVE", "REJECT"},
                 ReadReview(w, e, action)
          PROVE  FALSE
      BY <1>2, <1>4, <3>1 DEF ReadReview, Starts
    <3>2. ASSUME NEW k \in Loans, NEW target \in {"UNDER_REVIEW", "APPROVED", "REJECTED"},
                 ReadLoan(w, k, target)
          PROVE  Covered(l)'
      <4>1. worker'[w] = [at |-> "decide", loan |-> k, target |-> target]
        BY <1>2, <3>2 DEF ReadLoan, Starts
      <4>2. l = k /\ target = "APPROVED"
        BY <1>4, <4>1
      <4>3. GuarantorsComplete(l)
        BY <3>2, <4>2 DEF ReadLoan
      <4>4. Covered(l)
        BY <4>3, CompleteIsCovered DEF CoverInv
      <4> QED BY <1>3, <4>4
    <3> QED BY <1>2, <1>4, <2>2, <3>1, <3>2, ReadersHaveRead
  <2> QED BY <2>1, <2>2
<1>5. ReadInv'
  <2> SUFFICES ASSUME NEW w \in Workers, worker'[w].at = "decide", worker'[w].target = "APPROVED"
               PROVE  Covered(worker[w].loan)'
    BY DEF ReadInv
  <2>1. PICK l \in Loans : l = worker'[w].loan
    <3>1. worker'[w] \in Jobs
      BY <1>2 DEF TypeOK
    <3> QED BY <3>1 DEF Jobs
  <2>2. Covered(l)'
    BY <1>4, <2>1
  <2> QED BY <2>1, <2>2 DEF Covered, GivenByMembers, GivenByOutsiders, Accepted, Approved
<1>6. ASSUME NEW l \in Loans, loanStatus'[l] \in {"APPROVED", "ACTIVE"} PROVE Covered(l)
  <2>1. CASE loanStatus[l] \in {"APPROVED", "ACTIVE"}
    BY <2>1 DEF CoverInv, ApprovedIsCovered
  <2>2. CASE loanStatus[l] \notin {"APPROVED", "ACTIVE"}
    <3>0. loanStatus \in [Loans -> LoanStatuses]
      BY <1>2 DEF TypeOK
    <3>1. ASSUME NEW k \in Loans, PayOut(k) PROVE FALSE
      BY <1>6, <2>2, <3>0, <3>1 DEF PayOut
    <3>2. ASSUME NEW w \in Workers, CreateGuarantee(w) \/ CommitApproval(w) \/ Decline(w)
          PROVE  FALSE
      <4>1. PICK k \in Loans : k = worker[w].loan
        BY <1>2, <3>2, JobTypes DEF CreateGuarantee, CommitApproval, Decline
      <4>2. \/ loanStatus' = loanStatus
            \/ \E s \in {"GUARANTORS_PENDING", "PENDING_APPROVAL", "PENDING"} :
                 loanStatus' = [loanStatus EXCEPT ![k] = s]
        BY <3>2, <4>1 DEF CreateGuarantee, CommitApproval, Decline
      <4> QED BY <1>6, <2>2, <3>0, <4>2
    <3>3. ASSUME NEW w \in Workers, Decide(w) PROVE Covered(l)
      <4>1. PICK k \in Loans : k = worker[w].loan
        BY <1>2, <3>3, JobTypes DEF Decide
      <4>2. /\ loanStatus' = [loanStatus EXCEPT ![k] = worker[w].target]
            /\ worker[w].at = "decide"
        BY <3>3, <4>1 DEF Decide
      <4>3. worker[w].target \in {"UNDER_REVIEW", "APPROVED", "REJECTED"}
        BY <4>2 DEF KnownInv, ApprovalsInv, CountInv
      <4>4. k = l /\ worker[w].target = "APPROVED"
        BY <1>6, <2>2, <3>0, <4>2, <4>3
      <4> QED BY <4>1, <4>2, <4>4 DEF CoverInv, ReadInv
    <3>4. \/ UNCHANGED loanStatus
          \/ \E k \in Loans : PayOut(k)
          \/ \E w \in Workers : CreateGuarantee(w) \/ CommitApproval(w) \/ Decline(w) \/ Decide(w)
      BY ZenonT(40) DEF Next, vars, LinkExpires, SearchSave, CheckCapacity, WriteApproval, SmsNotSent,
             SmsSent, MarkSent, UseLink, Review, Search, Ask, ReadAnswer, NameExternal,
             ReadLink, ReadReview, ReadLoan
    <3> QED BY <1>6, <2>2, <3>1, <3>2, <3>3, <3>4
  <2> QED BY <2>1, <2>2
<1>7. ApprovedIsCovered'
  <2> SUFFICES ASSUME NEW l \in Loans, loanStatus'[l] \in {"APPROVED", "ACTIVE"}
               PROVE  Covered(l)'
    BY DEF ApprovedIsCovered
  <2> QED BY <1>3, <1>6
<1> QED BY <1>1, <1>5, <1>7 DEF CoverInv

\* No loan is approved, or paid out, that what the members and the outsiders who
\* accepted give does not cover, however the reads and writes of the workers are
\* interleaved.
THEOREM ApprovedLoansAreCovered ==
  ASSUME IsFiniteSet(Loans), IsFiniteSet(Members), IsFiniteSet(Externals),
         Repeats = FALSE
  PROVE  Spec => []ApprovedIsCovered
<1>1. Init => KnownInv /\ CoverInv
  <2> SUFFICES ASSUME Init PROVE KnownInv /\ CoverInv
    OBVIOUS
  <2>1. AcceptInv
    BY DEF Init, AcceptInv, Idle
  <2>2. ReadInv
    BY DEF Init, ReadInv, Idle
  <2>3. ApprovedIsCovered
    BY DEF Init, ApprovedIsCovered
  <2> QED BY <2>1, <2>2, <2>3, InitTypes, InitApprovals DEF KnownInv, CoverInv
<1>2. KnownInv /\ CoverInv /\ [Next]_vars => KnownInv' /\ CoverInv'
  <2> SUFFICES ASSUME KnownInv, CoverInv, [Next]_vars PROVE KnownInv' /\ CoverInv'
    OBVIOUS
  <2>1. TypeOK'
    BY TypesStep DEF KnownInv
  <2>2. ApprovalsInv'
    BY ApprovalsStep DEF KnownInv
  <2>3. KnownInv'
    BY <2>1, <2>2 DEF KnownInv
  <2> QED BY <2>3, CoverStep
<1>3. CoverInv => ApprovedIsCovered
  BY DEF CoverInv
<1> QED BY <1>1, <1>2, <1>3, PTL DEF Spec
=============================================================================

-------------------------------- MODULE Kyc --------------------------------
(***************************************************************************)
(* The identity check of one member: documents and national ID number come *)
(* in (KYCUploadView, KYCSubmitIDView), the register IPRS is asked while   *)
(* the request waits (accounts/integrations/iprs_client.py), and an admin  *)
(* approves or rejects (AdminKYCReviewView).                               *)
(*                                                                         *)
(* Nothing is locked: a request works with the row it read first and saves *)
(* the columns it names.  All three kinds of request name the status.      *)
(***************************************************************************)
EXTENDS Integers, FiniteSets

CONSTANTS
  Documents,   \* id_front, id_back and others
  Clerks,      \* requests handled at the same time
  MaxRequests  \* bound on requests

VARIABLES
  kyc,       \* the KYCVerification row
  kycReq,    \* what every clerk is doing
  requests,  \* requests so far
  mixed,     \* history: requests of two kinds overlapped
  rejected   \* history: rejected since the last answer of the register

kycVars == <<kyc, kycReq, requests, mixed, rejected>>

KycStatuses == {"NOT_STARTED", "PENDING", "IPRS_MISMATCH", "PENDING_MANUAL",
                "APPROVED", "REJECTED"}

\* A row of accounts_kycverification.  idNumber: there is one; iprs: what the
\* register said last; reason: manual_verification_reason is filled in.
KycRows == [status : KycStatuses, files : SUBSET Documents, idNumber : BOOLEAN,
            iprs : {"none", "verified", "mismatch", "unavailable"}, reason : BOOLEAN]

Free == [op |-> "free"]

\* The row is created at registration, or by the first request that needs it.
KycInit ==
  /\ kyc = [status |-> "NOT_STARTED", files |-> {}, idNumber |-> FALSE,
            iprs |-> "none", reason |-> FALSE]
  /\ kycReq = [c \in Clerks |-> Free] /\ requests = 0 /\ mixed = FALSE /\ rejected = FALSE

BothSides(files) == {"id_front", "id_back"} \subseteq files

Finish(c) == kycReq' = [kycReq EXCEPT ![c] = Free]

\* mixed: a request of one kind starts while one of another kind is at work.
Start(c, r) ==
  /\ kycReq[c] = Free /\ requests < MaxRequests /\ requests' = requests + 1
  /\ kycReq' = [kycReq EXCEPT ![c] = r]
  /\ mixed' = (mixed \/ \E d \in Clerks \ {c} :
                          /\ kycReq[d] # Free
                          /\ kycReq[d].kind # r.kind)
  /\ UNCHANGED <<kyc, rejected>>

-----------------------------------------------------------------------------
(* Submissions *)

\* An accepted file: size, type and dimensions are in order.
StartUpload(c, doc) ==
  Start(c, [kind |-> "upload", op |-> "save", doc |-> doc,
            row |-> [kyc EXCEPT !.files = @ \cup {doc}]])

\* Mutant: a number the register has been asked about is not asked about again.
AutoVerifiesOnce(row) == row.status = "PENDING" /\ row.idNumber /\ row.iprs = "none"

\* The register is asked only when there is a number to ask for.
AutoVerifies(row) == row.status = "PENDING" /\ row.idNumber

\* With both sides of the card the check starts over, whatever its status.
SaveUpload(c) ==
  LET r == kycReq[c]
      row == IF BothSides(r.row.files) THEN [r.row EXCEPT !.status = "PENDING"] ELSE r.row
  IN
  /\ r.op = "save"
  /\ kyc' = [kyc EXCEPT !.files = @ \cup {r.doc},
                        !.status = IF BothSides(r.row.files) THEN "PENDING" ELSE @]
  /\ IF AutoVerifies(row)
     THEN kycReq' = [kycReq EXCEPT ![c] = [kind |-> "upload", op |-> "ask", row |-> row]]
     ELSE Finish(c)
  /\ UNCHANGED <<requests, mixed, rejected>>

StartSubmitId(c) == Start(c, [kind |-> "number", op |-> "ask", row |-> kyc])

\* What IPRS may answer: two retries on a network error, then "unavailable", as
\* for every answer that is not a success or not JSON.
IprsOutcomes == {"verified", "mismatch", "unavailable"}

\* A match needs the register's word and, where both sides have one, the same
\* name and date of birth.
Standardized(said, sameName, sameBirthday) ==
  IF said = "verified" /\ sameName /\ sameBirthday THEN "verified" ELSE "mismatch"

\* Mutant: the register's word is stored as the status.
IprsStatusAsSaid(row, outcome) == IF outcome = "verified" THEN row.status ELSE outcome

\* apply_iprs_result, on the row as it was read: the status is saved in any
\* case, changed or not.
IprsStatus(row, outcome) ==
  CASE outcome = "mismatch"    -> "IPRS_MISMATCH"
    [] outcome = "unavailable" -> "PENDING_MANUAL"
    [] outcome = "verified" /\ row.status \in {"IPRS_MISMATCH", "PENDING_MANUAL"}
         -> IF BothSides(row.files) THEN "PENDING" ELSE "NOT_STARTED"
    [] outcome = "verified" /\ row.status \notin {"IPRS_MISMATCH", "PENDING_MANUAL"}
         -> row.status

ApplyIprs(c) ==
  LET r == kycReq[c] IN
  /\ r.op = "ask"
  /\ \E said \in IprsOutcomes, name, birthday \in BOOLEAN :
       LET outcome == IF said = "unavailable" THEN said
                      ELSE Standardized(said, name, birthday)
       IN kyc' = [kyc EXCEPT !.idNumber = TRUE, !.iprs = outcome,
                             !.status = IprsStatus(r.row, outcome)]
  /\ Finish(c)
  /\ rejected' = FALSE /\ UNCHANGED <<requests, mixed>>

-----------------------------------------------------------------------------
(* Review *)

\* An admin may review a record of any status, though the queue shows only what
\* waits.  A rejection needs a reason, and so does an approval that IPRS did not clear.
MayDecide(status, decision, reason) ==
  /\ decision = "APPROVED" /\ status \in {"IPRS_MISMATCH", "PENDING_MANUAL"} => reason
  /\ decision = "REJECTED" => ~reason

StartReview(c, decision, reason) ==
  /\ MayDecide(kyc.status, decision, reason)
  /\ Start(c, [kind |-> "review", op |-> "review", decision |-> decision, reason |-> reason])

SaveReview(c) ==
  LET r == kycReq[c] IN
  /\ r.op = "review"
  /\ kyc' = [kyc EXCEPT !.status = r.decision, !.reason = @ \/ r.reason]
  /\ rejected' = (rejected \/ r.decision = "REJECTED")
  /\ Finish(c) /\ UNCHANGED <<requests, mixed>>

KycNext ==
  \E c \in Clerks :
    \/ \E doc \in Documents : StartUpload(c, doc)
    \/ SaveUpload(c) \/ StartSubmitId(c) \/ ApplyIprs(c)
    \/ \E decision \in {"APPROVED", "REJECTED"}, reason \in BOOLEAN :
         StartReview(c, decision, reason)
    \/ SaveReview(c)

-----------------------------------------------------------------------------
(* Properties *)

KycTypeOK == kyc \in KycRows /\ requests \in 0..MaxRequests

\* Nobody is approved against the register without a written reason, however
\* documents, numbers and reviews follow each other, unless requests of
\* two kinds overlapped (views.py 348 and 363: an upload resets the status before
\* the register has answered, and looks for a number in the row it read) or the
\* check had been rejected before.
ApprovedWithCause ==
  kyc.status = "APPROVED" /\ kyc.iprs \in {"mismatch", "unavailable"}
  => kyc.reason \/ mixed \/ rejected
=============================================================================

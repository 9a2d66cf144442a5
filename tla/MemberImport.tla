---------------------------- MODULE MemberImport ----------------------------
(***************************************************************************)
(* Members imported from a file: the upload that an endpoint queues        *)
(* (saccomanagement/import_views.py, import_utils.py) and the import job   *)
(* with opening balances (saccomanagement/tasks.py, data_imports/).  A job *)
(* imports its rows in one transaction and records the result in another;  *)
(* a database error after the first makes Celery run the job again.        *)
(***************************************************************************)
EXTENDS Integers, FiniteSets

CONSTANTS
  People,      \* email addresses in the file, one row each
  Hands,       \* Celery workers
  MaxRetries,  \* max_retries of both tasks
  MaxDeposits  \* bound on deposits meanwhile

VARIABLES
  upload,    \* status and counts of the MemberImportJob
  job,       \* status and counts of the ImportJob
  file,      \* what the rows of the file hold
  queued,    \* tasks in the queue: kind and retries
  hand,      \* what every worker is doing
  standing,  \* membership status of every person
  balance,   \* Saving.amount of every person
  booked,    \* ledger entries of every person, summed
  deposits,  \* deposits made so far
  again,     \* history: the rows were committed and the job ran again
  outdated   \* history: a deposit came between reading a balance and saving it

importVars == <<upload, job, file, queued, hand, standing, balance, booked, deposits, again, outdated>>

Standings == {"NONE", "PENDING", "APPROVED", "SUSPENDED", "LEFT"}

JobStatuses == {"NONE", "PENDING", "PROCESSING", "COMPLETED", "PARTIAL", "FAILED"}

NoJob == [status |-> "NONE", good |-> 0, bad |-> 0]

Free == [op |-> "free"]

\* A row that is well formed or not, with an opening balance of 0 or 1.
Rows == [valid : BOOLEAN, amount : 0..1]

ImportInit ==
  /\ upload = NoJob /\ job = NoJob /\ file \in [People -> Rows]
  /\ queued = {} /\ hand = [h \in Hands |-> Free]
  /\ standing \in [People -> {"NONE", "SUSPENDED"}]
  /\ balance = [p \in People |-> 0] /\ booked = [p \in People |-> 0]
  /\ deposits = 0 /\ again = FALSE /\ outdated = FALSE

Turn(h, r) == hand' = [hand EXCEPT ![h] = r]

-----------------------------------------------------------------------------
(* The upload *)

\* Parsed while the request waits; rows travel with the task.  Without a
\* broker the job stays PENDING.
UploadFile(sent) ==
  /\ upload = NoJob /\ upload' = [NoJob EXCEPT !.status = "PENDING"]
  /\ queued' = IF sent THEN queued \cup {[kind |-> "upload", retries |-> 0]} ELSE queued
  /\ UNCHANGED <<job, file, hand, standing, balance, booked, deposits, again, outdated>>

StartUpload(h, t) ==
  /\ hand[h] = Free /\ t \in queued /\ t.kind = "upload" /\ queued' = queued \ {t}
  /\ upload' = [status |-> "PROCESSING", good |-> 0, bad |-> 0]
  /\ Turn(h, [op |-> "rows", todo |-> People, good |-> 0, retries |-> t.retries])
  /\ UNCHANGED <<job, file, standing, balance, booked, deposits, again, outdated>>

Fetch(todo) == CHOOSE p \in todo : TRUE

\* Every row is a transaction; a row that fails is counted.
ImportMember(h) ==
  LET r == hand[h]
      p == Fetch(r.todo)
  IN
  /\ r.op = "rows" /\ r.todo # {}
  /\ standing' = IF file[p].valid THEN [standing EXCEPT ![p] = "APPROVED"] ELSE standing
  /\ Turn(h, [r EXCEPT !.todo = @ \ {p}, !.good = IF file[p].valid THEN @ + 1 ELSE @])
  /\ UNCHANGED <<upload, job, file, queued, balance, booked, deposits, again, outdated>>

FinishUpload(h) ==
  LET r == hand[h] IN
  /\ r.op = "rows" /\ r.todo = {} /\ Turn(h, Free)
  /\ upload' = [status |-> IF r.good = 0 THEN "FAILED" ELSE "COMPLETED",
                good |-> r.good, bad |-> Cardinality(People) - r.good]
  /\ UNCHANGED <<job, file, queued, standing, balance, booked, deposits, again, outdated>>

\* An error of the job's own rows: all is done again, or the job has failed.
UploadError(h) ==
  LET r == hand[h] IN
  /\ r.op = "rows" /\ Turn(h, Free)
  /\ \/ /\ r.retries < MaxRetries /\ UNCHANGED upload
        /\ queued' = queued \cup {[kind |-> "upload", retries |-> r.retries + 1]}
     \/ /\ r.retries = MaxRetries /\ UNCHANGED queued
        /\ upload' = [upload EXCEPT !.status = "FAILED"]
  /\ UNCHANGED <<job, file, standing, balance, booked, deposits, again, outdated>>

-----------------------------------------------------------------------------
(* The job *)

Valid == {p \in People : file[p].valid}

\* Queued by hand: nothing in the program queues it.
QueueJob ==
  /\ job = NoJob /\ job' = [NoJob EXCEPT !.status = "PENDING"]
  /\ queued' = queued \cup {[kind |-> "job", retries |-> 0]}
  /\ UNCHANGED <<upload, file, hand, standing, balance, booked, deposits, again, outdated>>

\* A file that cannot be parsed fails the job.
StartJob(h, t, readable) ==
  /\ hand[h] = Free /\ t \in queued /\ t.kind = "job" /\ queued' = queued \ {t}
  /\ job' = [job EXCEPT !.status = IF readable THEN "PROCESSING" ELSE "FAILED"]
  /\ Turn(h, IF readable THEN [op |-> "read", retries |-> t.retries] ELSE Free)
  /\ UNCHANGED <<upload, file, standing, balance, booked, deposits, again, outdated>>

\* The balances are read without a lock, inside the transaction.
ReadBalances(h) ==
  /\ hand[h].op = "read"
  /\ Turn(h, [op |-> "commit", retries |-> hand[h].retries, seen |-> balance])
  /\ UNCHANGED <<upload, job, file, queued, standing, balance, booked, deposits, again, outdated>>

\* Mutant: only when every row fails.
TooManyAll(failed) == failed = Valid /\ Valid # {}

\* More than five in a hundred.
TooMany(failed) == 20 * Cardinality(failed) > Cardinality(Valid)

Opened(failed) == {p \in Valid \ failed : file[p].amount > 0}

\* Members, balances and ledger entries of the rows that do not fail.
CommitRows(h, failed) ==
  LET r == hand[h] IN
  /\ r.op = "commit" /\ failed \subseteq Valid /\ ~TooMany(failed)
  /\ standing' = [p \in People |-> IF p \in Valid \ failed THEN "APPROVED" ELSE standing[p]]
  /\ balance' = [p \in People |-> IF p \in Opened(failed) THEN r.seen[p] + 1 ELSE balance[p]]
  /\ booked' = [p \in People |-> IF p \in Opened(failed) THEN booked[p] + 1 ELSE booked[p]]
  /\ outdated' = (outdated \/ \E p \in Opened(failed) : r.seen[p] # balance[p])
  /\ Turn(h, [op |-> "result", retries |-> r.retries, failed |-> failed])
  /\ UNCHANGED <<upload, job, file, queued, deposits, again>>

\* The import is rolled back and the job is not tried again.
AbortRows(h, failed) ==
  /\ hand[h].op = "commit" /\ failed \subseteq Valid /\ TooMany(failed) /\ Turn(h, Free)
  /\ job' = [job EXCEPT !.status = "FAILED"]
  /\ UNCHANGED <<upload, file, queued, standing, balance, booked, deposits, again, outdated>>

\* The summary of a malformed row holds its amount, which JSON has no form for.
Unprintable == \E p \in People \ Valid : file[p].amount > 0

SaveResult(h) ==
  LET good == Cardinality(Valid \ hand[h].failed)
      bad == Cardinality(People) - good
  IN
  /\ hand[h].op = "result" /\ Turn(h, Free)
  /\ job' = IF Unprintable THEN [job EXCEPT !.status = "FAILED"]
            ELSE [status |-> IF bad = 0 THEN "COMPLETED" ELSE IF good = 0 THEN "FAILED" ELSE "PARTIAL",
                  good |-> good, bad |-> bad]
  /\ UNCHANGED <<upload, file, queued, standing, balance, booked, deposits, again, outdated>>

\* A database error before or after the rows are committed.
DatabaseError(h) ==
  LET r == hand[h] IN
  /\ r.op \in {"read", "commit", "result"} /\ Turn(h, Free)
  /\ again' = (again \/ r.op = "result")
  /\ \/ /\ r.retries < MaxRetries /\ UNCHANGED job
        /\ queued' = queued \cup {[kind |-> "job", retries |-> r.retries + 1]}
     \/ /\ r.retries = MaxRetries /\ UNCHANGED queued
        /\ job' = [job EXCEPT !.status = "FAILED"]
  /\ UNCHANGED <<upload, file, standing, balance, booked, deposits, outdated>>

\* A deposit of an approved member completes.
Deposit(p) ==
  /\ deposits < MaxDeposits /\ standing[p] = "APPROVED" /\ deposits' = deposits + 1
  /\ balance' = [balance EXCEPT ![p] = @ + 1] /\ booked' = [booked EXCEPT ![p] = @ + 1]
  /\ UNCHANGED <<upload, job, file, queued, hand, standing, again, outdated>>

ImportNext ==
  \/ \E sent \in BOOLEAN : UploadFile(sent)
  \/ QueueJob \/ \E p \in People : Deposit(p)
  \/ \E h \in Hands :
       \/ \E t \in queued : StartUpload(h, t) \/ \E readable \in BOOLEAN : StartJob(h, t, readable)
       \/ ImportMember(h) \/ FinishUpload(h) \/ UploadError(h)
       \/ ReadBalances(h) \/ SaveResult(h) \/ DatabaseError(h)
       \/ \E failed \in SUBSET People : CommitRows(h, failed) \/ AbortRows(h, failed)

-----------------------------------------------------------------------------
(* Properties *)

ImportTypeOK ==
  /\ upload.status \in JobStatuses /\ job.status \in JobStatuses
  /\ \A p \in People : standing[p] \in Standings /\ balance[p] \in Nat /\ booked[p] \in Nat

\* An opening balance is credited once and the balance is what the ledger says,
\* unless the job ran again after its rows were committed or a deposit came
\* between reading the balance and saving it; a job that failed imported
\* nothing, unless a malformed row holds an amount; and a job that ended well
\* left out no more than five in a hundred of the well formed rows
\* (saccomanagement/tasks.py run_member_import_task).
ImportedOnce ==
  /\ outdated \/ \A p \in People : balance[p] = booked[p]
  /\ again \/ \A p \in People : booked[p] <= deposits + file[p].amount
  /\ job.status = "FAILED" /\ ~again /\ ~Unprintable =>
       \A p \in People : booked[p] <= deposits
  /\ job.status \in {"COMPLETED", "PARTIAL"} =>
       20 * Cardinality({p \in Valid : booked[p] < file[p].amount}) <= Cardinality(Valid)
=============================================================================

------------------------- MODULE OfficeMoneyProofs -------------------------
(***************************************************************************)
(* What the parts of MCOffice promise that lend, share out, import and     *)
(* collect money, for any number of workers, accounts and people: limits   *)
(* and credit checks, dividends, opening balances, instalments.  Sums over *)
(* accounts, rows and loans are those of SumProofs.                        *)
(***************************************************************************)
EXTENDS MCOffice, FiniteSetTheorems, SumProofs, TLAPS

-----------------------------------------------------------------------------
(* Credit checks *)

\* A credit check: what it found, when, and whether an officer insisted on it.
CheckRows == [negative : BOOLEAN, on : Int, forced : BOOLEAN]

\* What the checks and the requests of officers hold.
CreditTypes ==
  /\ blacklisted \in BOOLEAN /\ checks \in Seq(CheckRows)
  /\ verdict \in {"UNDER_REVIEW", "APPROVED"} /\ calendar \in 0..2
  /\ \A i \in DOMAIN checks : checks[i].on \in 0..calendar
  /\ officer \in [Workers ->
       {Credit!Away} \cup [op : {"ask"}, forced : BOOLEAN]
       \cup [op : {"file"}, forced : BOOLEAN, negative : BOOLEAN]
       \cup [op : {"approve"}, override : BOOLEAN]]
  /\ grounds \in [negative : BOOLEAN, override : BOOLEAN]
  /\ overlapped \in BOOLEAN /\ overtaken \in BOOLEAN

\* An approval on its way has a check to go by, and a reason where it needs one.
GroundsInv ==
  /\ \A o \in Workers : officer[o].op = "approve" =>
       checks # <<>> /\ (Credit!Latest.negative => officer[o].override)
  /\ grounds.negative => grounds.override

\* A request for a check is alone, and unless it is forced finds none in the window.
AloneAsking ==
  /\ \A o, p \in Workers : Credit!Checking(o) /\ Credit!Checking(p) => o = p
  /\ \A o \in Workers : Credit!Checking(o) /\ ~officer[o].forced =>
       \A i \in DOMAIN checks : calendar - checks[i].on > 1

\* Of two checks the later was insisted on or came after the window of the earlier.
Spaced ==
  \A i, j \in DOMAIN checks : i < j /\ ~checks[j].forced => checks[j].on - checks[i].on > 1

\* Of approvals while nobody overtook anybody, of spacing while no checks overlapped.
CreditInv ==
  /\ CreditTypes
  /\ \A o \in Workers : officer[o].op = "approve" => checks # <<>>
  /\ overtaken \/ GroundsInv
  /\ overlapped \/ (AloneAsking /\ Spaced)

\* At first there is no check.
LEMMA InitCredit == Credit!CreditInit => CreditInv
<1> SUFFICES ASSUME Credit!CreditInit PROVE CreditInv
  OBVIOUS
<1>1. /\ checks = <<>> /\ verdict = "UNDER_REVIEW" /\ calendar = 0
      /\ officer = [o \in Workers |-> Credit!Away] /\ grounds = Credit!NoGrounds
  BY DEF Credit!CreditInit
<1>2. blacklisted \in BOOLEAN /\ overlapped \in BOOLEAN /\ overtaken \in BOOLEAN
  BY Zenon DEF Credit!CreditInit
<1>3. grounds \in [negative : BOOLEAN, override : BOOLEAN] /\ grounds.negative = FALSE
  BY <1>1 DEF Credit!NoGrounds
<1>4. checks \in Seq(CheckRows) /\ DOMAIN checks = {}
  BY <1>1
<1>5. \A o \in Workers : officer[o].op = "none"
  BY <1>1 DEF Credit!Away
<1>6. CreditTypes
  BY <1>1, <1>2, <1>3, <1>4 DEF CreditTypes
<1>7. GroundsInv
  BY <1>3, <1>5 DEF GroundsInv
<1>8. AloneAsking /\ Spaced
  BY <1>4, <1>5 DEF AloneAsking, Spaced, Credit!Checking
<1> QED BY <1>5, <1>6, <1>7, <1>8 DEF CreditInv

\* The invariant is what the property says.
LEMMA CreditIsRight ==
  ASSUME CreditInv
  PROVE  Credit!ApprovedOnCheck
<1>1. grounds.negative => grounds.override \/ overtaken
  BY Zenon DEF CreditInv, GroundsInv
<1>2. overlapped \/ Spaced
  BY Zenon DEF CreditInv
<1> QED BY <1>1, <1>2 DEF Credit!ApprovedOnCheck, Spaced

\* The types of a request in each of its steps.
LEMMA OfficerTypes ==
  ASSUME CreditTypes, NEW o \in Workers
  PROVE  /\ officer[o].op \in {"ask", "file"} => officer[o].forced \in BOOLEAN
         /\ officer[o].op = "file" => officer[o].negative \in BOOLEAN
         /\ officer[o].op = "approve" => officer[o].override \in BOOLEAN
<1>1. officer[o] \in {Credit!Away} \cup [op : {"ask"}, forced : BOOLEAN]
                     \cup [op : {"file"}, forced : BOOLEAN, negative : BOOLEAN]
                     \cup [op : {"approve"}, override : BOOLEAN]
  BY DEF CreditTypes
<1> QED BY <1>1 DEF Credit!Away

\* Days pass and the bureau learns; nobody's step.
LEMMA OutsideCredit ==
  ASSUME CreditInv, Credit!BureauLearns \/ Credit!DatePasses \/ UNCHANGED credit
  PROVE  CreditInv'
<1>1. /\ UNCHANGED <<checks, verdict, officer, overlapped, overtaken, grounds>>
      /\ blacklisted' \in BOOLEAN /\ calendar' \in {calendar, calendar + 1}
      /\ calendar' \in 0..2
  <2>1. CASE Credit!BureauLearns
    <3>1. blacklisted' \in BOOLEAN
      BY <2>1, Zenon DEF Credit!BureauLearns
    <3> QED BY <2>1, <3>1 DEF Credit!BureauLearns, CreditInv, CreditTypes
  <2>2. CASE Credit!DatePasses
    BY <2>2 DEF Credit!DatePasses, CreditInv, CreditTypes
  <2>3. CASE UNCHANGED credit
    BY <2>3 DEF credit, CreditInv, CreditTypes
  <2> QED BY <2>1, <2>2, <2>3
<1>2. calendar \in 0..2 /\ \A i \in DOMAIN checks : checks[i].on \in 0..calendar
  BY DEF CreditInv, CreditTypes
<1>3. CreditTypes'
  <2>1. \A i \in DOMAIN checks : checks[i].on \in 0..calendar'
    BY <1>1, <1>2
  <2> QED BY <1>1, <2>1 DEF CreditInv, CreditTypes
<1>4. GroundsInv => GroundsInv'
  BY <1>1 DEF GroundsInv, Credit!Latest
<1>5. AloneAsking /\ Spaced => AloneAsking' /\ Spaced'
  <2>1. \A i \in DOMAIN checks : calendar - checks[i].on > 1 => calendar' - checks[i].on > 1
    BY <1>1, <1>2
  <2> QED BY <1>1, <2>1 DEF AloneAsking, Spaced, Credit!Checking
<1> QED BY <1>1, <1>3, <1>4, <1>5 DEF CreditInv

\* A request takes up the next step; no check is filed.
LEMMA OfficerTurns ==
  ASSUME CreditInv, NEW o \in Workers, NEW r, officer' = [officer EXCEPT ![o] = r],
         r \in {Credit!Away} \cup [op : {"ask"}, forced : BOOLEAN]
               \cup [op : {"file"}, forced : BOOLEAN, negative : BOOLEAN]
               \cup [op : {"approve"}, override : BOOLEAN],
         UNCHANGED <<blacklisted, checks, verdict, calendar, overtaken, grounds>>,
         overlapped' \in BOOLEAN, overlapped => overlapped',
         r.op = "approve" => checks # <<>> /\ (Credit!Latest.negative => r.override),
         r.op \in {"ask", "file"} =>
           \/ Credit!Checking(o) /\ r.forced = officer[o].forced
           \/ /\ overlapped' \/ \A p \in Workers : ~Credit!Checking(p)
              /\ ~r.forced => \A i \in DOMAIN checks : calendar - checks[i].on > 1
  PROVE  CreditInv'
<1>1. officer'[o] = r /\ \A p \in Workers \ {o} : officer'[p] = officer[p]
  BY DEF CreditInv, CreditTypes
<1>2. CreditTypes'
  BY DEF CreditInv, CreditTypes
<1>3. \A p \in Workers : officer'[p].op = "approve" => checks' # <<>>
  BY <1>1 DEF CreditInv
<1>4. GroundsInv => GroundsInv'
  BY <1>1 DEF GroundsInv, Credit!Latest
<1>5. ASSUME AloneAsking, ~overlapped' PROVE AloneAsking'
  <2>1. \A p \in Workers \ {o} : Credit!Checking(p)' <=> Credit!Checking(p)
    BY <1>1 DEF Credit!Checking
  <2>2. Credit!Checking(o)' <=> r.op \in {"ask", "file"}
    BY <1>1 DEF Credit!Checking
  <2>3. ASSUME NEW p \in Workers, NEW q \in Workers, Credit!Checking(p)', Credit!Checking(q)'
        PROVE  p = q
    BY <1>5, <2>1, <2>2, <2>3 DEF AloneAsking
  <2>4. ASSUME NEW p \in Workers, Credit!Checking(p)', ~officer'[p].forced
        PROVE  \A i \in DOMAIN checks : calendar - checks[i].on > 1
    BY <1>1, <1>5, <2>1, <2>2, <2>4 DEF AloneAsking
  <2> QED BY <2>3, <2>4 DEF AloneAsking
<1>6. Spaced => Spaced'
  BY DEF Spaced
<1>7. overlapped' \/ (AloneAsking' /\ Spaced')
  BY <1>5, <1>6, Zenon DEF CreditInv
<1> QED BY <1>2, <1>3, <1>4, <1>7 DEF CreditInv

\* Looking for a recent check, asking the bureau, and looking at the checks for an
\* approval.
LEMMA CreditReads ==
  ASSUME CreditInv, NEW o \in Workers,
         \/ \E yes \in BOOLEAN : Credit!StartCheck(o, yes) \/ Credit!ReadForApproval(o, yes)
         \/ Credit!AskBureau(o) \/ Credit!BureauFails(o)
  PROVE  CreditInv'
<1>0. CreditTypes
  BY DEF CreditInv
<1>1. ASSUME NEW yes \in BOOLEAN, Credit!StartCheck(o, yes) PROVE CreditInv'
  <2> DEFINE r == [op |-> "ask", forced |-> yes]
  <2>1. /\ officer' = [officer EXCEPT ![o] = r]
        /\ UNCHANGED <<blacklisted, checks, verdict, calendar, overtaken, grounds>>
    BY <1>1 DEF Credit!StartCheck, Credit!Begin
  <2>2. overlapped' \in BOOLEAN /\ (overlapped => overlapped')
        /\ (overlapped' \/ \A p \in Workers : ~Credit!Checking(p))
    BY <1>1, Zenon DEF Credit!StartCheck
  <2>3. ~yes => \A i \in DOMAIN checks : calendar - checks[i].on > 1
    <3>1. ~yes => \A i \in DOMAIN checks : ~(calendar - checks[i].on <= 1)
      BY <1>1 DEF Credit!StartCheck, Credit!Recent
    <3>2. \A i \in DOMAIN checks : calendar - checks[i].on \in Int
      BY <1>0 DEF CreditTypes
    <3> QED BY <3>1, <3>2
  <2>4. r \in [op : {"ask"}, forced : BOOLEAN] /\ r.op = "ask" /\ r.forced = yes
    OBVIOUS
  <2> HIDE DEF r
  <2> QED BY <2>1, <2>2, <2>3, <2>4, OfficerTurns
<1>2. ASSUME NEW yes \in BOOLEAN, Credit!ReadForApproval(o, yes) PROVE CreditInv'
  <2> DEFINE r == [op |-> "approve", override |-> yes]
  <2>1. /\ officer' = [officer EXCEPT ![o] = r] /\ checks # <<>>
        /\ UNCHANGED <<blacklisted, checks, verdict, calendar, overtaken, grounds, overlapped>>
        /\ Credit!Latest.negative => yes
    BY <1>2 DEF Credit!ReadForApproval, Credit!Begin, Credit!NeedsOverride
  <2>2. overlapped' \in BOOLEAN /\ (overlapped => overlapped')
    BY <1>0, <2>1 DEF CreditTypes
  <2>3. r \in [op : {"approve"}, override : BOOLEAN] /\ r.op = "approve" /\ r.override = yes
    OBVIOUS
  <2> HIDE DEF r
  <2> QED BY <2>1, <2>2, <2>3, OfficerTurns
<1>3. ASSUME Credit!AskBureau(o) PROVE CreditInv'
  <2> DEFINE r == [op |-> "file", forced |-> officer[o].forced, negative |-> blacklisted]
  <2>1. /\ officer' = [officer EXCEPT ![o] = r] /\ officer[o].op = "ask"
        /\ UNCHANGED <<blacklisted, checks, verdict, calendar, overtaken, grounds, overlapped>>
    BY <1>3 DEF Credit!AskBureau, Credit!Turn, Credit!ListedNegative
  <2>2. overlapped' \in BOOLEAN /\ (overlapped => overlapped') /\ blacklisted \in BOOLEAN
    BY <1>0, <2>1 DEF CreditTypes
  <2>3. /\ r \in [op : {"file"}, forced : BOOLEAN, negative : BOOLEAN] /\ r.op = "file"
        /\ r.forced = officer[o].forced
    BY <1>0, <2>1, <2>2, OfficerTypes
  <2> HIDE DEF r
  <2> QED BY <2>1, <2>2, <2>3, OfficerTurns DEF Credit!Checking
<1>4. ASSUME Credit!BureauFails(o) PROVE CreditInv'
  <2>1. /\ officer' = [officer EXCEPT ![o] = Credit!Away]
        /\ UNCHANGED <<blacklisted, checks, verdict, calendar, overtaken, grounds, overlapped>>
    BY <1>4 DEF Credit!BureauFails, Credit!Turn
  <2>2. overlapped' \in BOOLEAN /\ (overlapped => overlapped')
    BY <1>0, <2>1 DEF CreditTypes
  <2>3. Credit!Away.op = "none"
    BY DEF Credit!Away
  <2> QED BY <2>1, <2>2, <2>3, OfficerTurns
<1> QED BY <1>1, <1>2, <1>3, <1>4

\* A check is filed behind the others, after all of them by more than the window
\* unless it was forced.
LEMMA FileStep ==
  ASSUME CreditInv, NEW o \in Workers, Credit!FileCheck(o)
  PROVE  CreditInv'
<1>0. CreditTypes
  BY DEF CreditInv
<1> DEFINE c == [negative |-> officer[o].negative, on |-> calendar, forced |-> officer[o].forced]
           n == Len(checks)
<1>1. /\ officer[o].op = "file" /\ officer' = [officer EXCEPT ![o] = Credit!Away]
      /\ checks' = Append(checks, c)
      /\ UNCHANGED <<blacklisted, verdict, calendar, overlapped, grounds>>
  BY DEF Credit!FileCheck, Credit!Turn
<1>2. overtaken' \in BOOLEAN /\ (overtaken => overtaken')
      /\ (overtaken' \/ \A p \in Workers : officer[p].op # "approve")
  BY Zenon DEF Credit!FileCheck
<1>3. c \in CheckRows /\ c.on = calendar /\ c.forced = officer[o].forced
  BY <1>0, <1>1, OfficerTypes DEF CheckRows, CreditTypes
<1> HIDE DEF c
<1>4. /\ n \in Nat /\ checks' \in Seq(CheckRows) /\ DOMAIN checks' = 1..(n + 1)
      /\ DOMAIN checks = 1..n /\ checks'[n + 1] = c /\ checks' # <<>>
      /\ \A i \in 1..n : checks'[i] = checks[i]
  BY <1>0, <1>1, <1>3 DEF CreditTypes
<1>5. \A p \in Workers : officer'[p] = IF p = o THEN Credit!Away ELSE officer[p]
  BY <1>0, <1>1 DEF CreditTypes
<1>6. Credit!Away.op = "none"
  BY DEF Credit!Away
<1>7. calendar \in 0..2 /\ (\A i \in 1..n : checks[i].on \in 0..calendar)
  BY <1>0, <1>4 DEF CreditTypes
<1>8. CreditTypes'
  <2>1. \A i \in DOMAIN checks' : checks'[i].on \in 0..calendar'
    <3> SUFFICES ASSUME NEW i \in 1..(n + 1) PROVE checks'[i].on \in 0..calendar
      BY <1>1, <1>4
    <3>1. i \in 1..n \/ i = n + 1
      BY <1>4
    <3> QED BY <1>3, <1>4, <1>7, <3>1
  <2> QED BY <1>0, <1>1, <1>2, <1>4, <2>1 DEF CreditTypes
<1>9. \A p \in Workers : officer'[p].op = "approve" => checks' # <<>>
  BY <1>4
<1>10. ASSUME GroundsInv, \A p \in Workers : officer[p].op # "approve" PROVE GroundsInv'
  BY <1>1, <1>5, <1>6, <1>10 DEF GroundsInv
<1>11. ASSUME AloneAsking, Spaced PROVE AloneAsking' /\ Spaced'
  <2>1. \A p \in Workers : ~Credit!Checking(p)'
    BY <1>1, <1>5, <1>6, <1>11 DEF AloneAsking, Credit!Checking
  <2>2. ~c.forced => \A i \in 1..n : calendar - checks[i].on > 1
    BY <1>1, <1>3, <1>4, <1>11 DEF AloneAsking, Credit!Checking
  <2>3. ASSUME NEW i \in 1..(n + 1), NEW j \in 1..(n + 1), i < j, ~checks'[j].forced
        PROVE  checks'[j].on - checks'[i].on > 1
    <3>1. i \in 1..n /\ (j \in 1..n \/ j = n + 1)
      BY <1>4, <2>3
    <3>2. CASE j = n + 1
      BY <1>3, <1>4, <2>2, <2>3, <3>1, <3>2
    <3>3. CASE j \in 1..n
      BY <1>4, <1>11, <2>3, <3>1, <3>3 DEF Spaced
    <3> QED BY <3>1, <3>2, <3>3
  <2> QED BY <1>4, <2>1, <2>3 DEF AloneAsking, Spaced
<1>12. overtaken' \/ GroundsInv'
  BY <1>2, <1>10, Zenon DEF CreditInv
<1>13. overlapped' \/ (AloneAsking' /\ Spaced')
  BY <1>1, <1>11 DEF CreditInv
<1> QED BY <1>8, <1>9, <1>12, <1>13 DEF CreditInv

\* The approval is saved with the check that is the latest by now.
LEMMA ApprovalStep ==
  ASSUME CreditInv, NEW o \in Workers, Credit!SaveApproval(o)
  PROVE  CreditInv'
<1>0. CreditTypes
  BY DEF CreditInv
<1>1. /\ officer[o].op = "approve" /\ verdict' = "APPROVED"
      /\ officer' = [officer EXCEPT ![o] = Credit!Away]
      /\ grounds' = [negative |-> Credit!Latest.negative, override |-> officer[o].override]
      /\ UNCHANGED <<blacklisted, checks, calendar, overlapped, overtaken>>
  BY DEF Credit!SaveApproval, Credit!Turn
<1>2. checks # <<>>
  BY <1>1 DEF CreditInv
<1>3. Credit!Latest \in CheckRows
  BY <1>0, <1>2 DEF Credit!Latest, CreditTypes
<1>4. grounds' \in [negative : BOOLEAN, override : BOOLEAN]
  BY <1>0, <1>1, <1>3, OfficerTypes DEF CheckRows
<1>5. \A p \in Workers : officer'[p] = IF p = o THEN Credit!Away ELSE officer[p]
  BY <1>0, <1>1 DEF CreditTypes
<1>6. Credit!Away.op = "none"
  BY DEF Credit!Away
<1>7. CreditTypes'
  BY <1>0, <1>1, <1>4 DEF CreditTypes
<1>8. \A p \in Workers : officer'[p].op = "approve" => checks' # <<>>
  BY <1>1, <1>2
<1>9. GroundsInv => GroundsInv'
  BY <1>1, <1>5, <1>6 DEF GroundsInv, Credit!Latest
<1>10. AloneAsking /\ Spaced => AloneAsking' /\ Spaced'
  BY <1>1, <1>5, <1>6 DEF AloneAsking, Spaced, Credit!Checking
<1> QED BY <1>1, <1>7, <1>8, <1>9, <1>10 DEF CreditInv

\* The part keeps its invariant, while others step as well.
LEMMA StepCredit ==
  ASSUME CreditInv,
         [Next]_<<part, applications, instalments, reminders, campaigns, billing,
                  dividends, imports, monitors, notices, credit>>
  PROVE  CreditInv'
<1>1. CASE Credit!CreditNext
  BY <1>1, CreditReads, FileStep, ApprovalStep, OutsideCredit DEF Credit!CreditNext
<1>2. CASE UNCHANGED credit
  BY <1>2, OutsideCredit
<1> QED BY <1>1, <1>2 DEF Next

-----------------------------------------------------------------------------
(* Applications *)

\* The larger and the smaller of two numbers.
LEMMA LargerAndSmaller ==
  ASSUME NEW a \in Int, NEW b \in Int
  PROVE  /\ Apply!Max({a, b}) = IF a >= b THEN a ELSE b
         /\ Apply!Min({a, b}) = IF a <= b THEN a ELSE b
<1>1. \E x \in {a, b} : \A y \in {a, b} : x >= y
  OBVIOUS
<1>2. \E x \in {a, b} : \A y \in {a, b} : x <= y
  OBVIOUS
<1>3. Apply!Max({a, b}) \in {a, b} /\ \A y \in {a, b} : Apply!Max({a, b}) >= y
  BY <1>1, Zenon DEF Apply!Max
<1>4. Apply!Min({a, b}) \in {a, b} /\ \A y \in {a, b} : Apply!Min({a, b}) <= y
  BY <1>2, Zenon DEF Apply!Min
<1> QED BY <1>3, <1>4

\* More savings and less owed raise the limit.
LEMMA LimitGrows ==
  ASSUME NEW s \in Nat, NEW t \in Nat, NEW o \in Nat, NEW p \in Nat, s <= t, p <= o
  PROVE  /\ Apply!NetLimit(s, o) \in Nat /\ Apply!NetLimit(t, p) \in Nat
         /\ Apply!NetLimit(s, o) <= Apply!NetLimit(t, p)
<1>1. \A x, y \in Nat : Apply!NetLimit(x, y) = IF 2 * x - y >= 0 THEN 2 * x - y ELSE 0
  BY LargerAndSmaller DEF Apply!NetLimit
<1>2. /\ Apply!NetLimit(s, o) = IF 2 * s - o >= 0 THEN 2 * s - o ELSE 0
      /\ Apply!NetLimit(t, p) = IF 2 * t - p >= 0 THEN 2 * t - p ELSE 0
  BY <1>1
<1>3. 2 * s - o \in Int /\ 2 * t - p \in Int /\ 2 * s - o <= 2 * t - p
  OBVIOUS
<1> QED BY <1>2, <1>3

\* What every loan adds to what is owed.
Debts(ls) == [k \in DOMAIN ls |-> IF ls[k].status = "ACTIVE" THEN ls[k].balance ELSE 0]

\* The sums of the part are those of SumProofs.
LEMMA LoanSums ==
  /\ \A f : Apply!SumFunction(f) = SumFunctionOnSet(f, DOMAIN f)
  /\ \A S : Apply!Cardinality(S) = Cardinality(S)
<1>1. \A f, S : Apply!SumFunctionOnSet(f, S) = SumFunctionOnSet(f, S)
  BY DEF Apply!SumFunctionOnSet, SumFunctionOnSet, Apply!FoldFunctionOnSet, FoldFunctionOnSet,
         Apply!MapThenFoldSet, MapThenFoldSet
<1>2. \A S : Apply!Cardinality(S) = Cardinality(S)
  BY DEF Apply!Cardinality, Cardinality
<1> QED BY <1>1, <1>2 DEF Apply!SumFunction

\* What is owed is a sum of whole amounts over finitely many loans.
LEMMA OwedIsSum ==
  ASSUME NEW ls \in Seq(Apply!LoanRows)
  PROVE  /\ IsFiniteSet(DOMAIN ls) /\ DOMAIN Debts(ls) = DOMAIN ls
         /\ Apply!Owed(ls) = SumFunctionOnSet(Debts(ls), DOMAIN ls)
         /\ \A k \in DOMAIN ls : ls[k].balance \in 0..2 /\ Debts(ls)[k] \in Nat
         /\ Apply!Owed(ls) \in Nat
<1>1. IsFiniteSet(DOMAIN ls)
  BY FS_Interval
<1>2. DOMAIN Debts(ls) = DOMAIN ls
  BY DEF Debts
<1>3. Apply!Owed(ls) = SumFunctionOnSet(Debts(ls), DOMAIN ls)
  <2>1. Apply!Owed(ls) = Apply!SumFunction(Debts(ls))
    BY DEF Apply!Owed, Debts
  <2> QED BY <1>2, <2>1, LoanSums
<1>4. \A k \in DOMAIN ls : ls[k].balance \in 0..2
  <2>1. Apply!Max({2}) = 2
    <3>1. {2, 2} = {2} /\ Apply!Max({2, 2}) = 2
      BY LargerAndSmaller
    <3> QED BY <3>1, Zenon
  <2>2. \A r \in Apply!LoanRows : r.balance \in 0..Apply!Max({2})
    BY DEF Apply!LoanRows
  <2>3. \A r \in Apply!LoanRows : r.balance \in 0..2
    BY <2>1, <2>2, Zenon
  <2> QED BY <2>3
<1>5. \A k \in DOMAIN ls : Debts(ls)[k] \in Nat
  BY <1>4 DEF Debts
<1>6. Apply!Owed(ls) \in Nat
  BY <1>1, <1>3, <1>5, SumNat
<1> QED BY <1>1, <1>2, <1>3, <1>4, <1>5, <1>6

\* The sum the code asks for is what is owed.
LEMMA ActiveIsOwed ==
  ASSUME NEW ls \in Seq(Apply!LoanRows)
  PROVE  Apply!ActiveBalance(ls) = Apply!Owed(ls)
<1> DEFINE some == {k \in DOMAIN ls : ls[k].status = "ACTIVE"}
           f == [k \in some |-> ls[k].balance]
<1>1. Apply!ActiveBalance(ls) = Apply!SumFunction(f)
  BY DEF Apply!ActiveBalance, Apply!BalanceIn
<1>2. Apply!SumFunction(f) = SumFunctionOnSet(f, some)
  BY LoanSums
<1>3. some \subseteq DOMAIN ls /\ IsFiniteSet(some)
  BY OwedIsSum, FS_Subset
<1>4. \A k \in some : f[k] = Debts(ls)[k]
  BY DEF Debts
<1>5. \A k \in DOMAIN ls \ some : Debts(ls)[k] = 0
  BY DEF Debts
<1>6. \A k \in DOMAIN ls : Debts(ls)[k] \in Int
  BY OwedIsSum
<1> HIDE DEF some, f
<1>7. SumFunctionOnSet(f, some) = SumFunctionOnSet(Debts(ls), some)
  BY <1>3, <1>4, SumSame
<1>8. SumFunctionOnSet(Debts(ls), some) = SumFunctionOnSet(Debts(ls), DOMAIN ls)
  BY <1>3, <1>5, <1>6, OwedIsSum, SumSkipsZeros
<1> QED BY <1>1, <1>2, <1>7, <1>8, OwedIsSum

\* Loans that add the same owe the same.
LEMMA OwedSame ==
  ASSUME NEW ls \in Seq(Apply!LoanRows), NEW ms \in Seq(Apply!LoanRows),
         DOMAIN ms = DOMAIN ls, \A k \in DOMAIN ls : Debts(ms)[k] = Debts(ls)[k]
  PROVE  Apply!Owed(ms) = Apply!Owed(ls)
<1>1. SumFunctionOnSet(Debts(ms), DOMAIN ls) = SumFunctionOnSet(Debts(ls), DOMAIN ls)
  BY OwedIsSum, SumSame
<1> QED BY <1>1, OwedIsSum

\* A loan that is not paid out owes nothing.
LEMMA OwedAppend ==
  ASSUME NEW ls \in Seq(Apply!LoanRows), NEW r \in Apply!LoanRows, r.status # "ACTIVE"
  PROVE  Apply!Owed(Append(ls, r)) = Apply!Owed(ls)
<1> DEFINE ms == Append(ls, r)
           n == Len(ls) + 1
<1>1. /\ ms \in Seq(Apply!LoanRows) /\ n \notin DOMAIN ls /\ ms[n] = r
      /\ DOMAIN ms = DOMAIN ls \cup {n} /\ \A k \in DOMAIN ls : ms[k] = ls[k]
  OBVIOUS
<1>2. Debts(ms)[n] = 0 /\ \A k \in DOMAIN ls : Debts(ms)[k] = Debts(ls)[k]
  BY <1>1 DEF Debts
<1> HIDE DEF ms, n
<1>3. \A k \in DOMAIN ls \cup {n} : Debts(ms)[k] \in Int
  BY <1>1, OwedIsSum
<1>4. SumFunctionOnSet(Debts(ms), DOMAIN ls \cup {n})
      = Debts(ms)[n] + SumFunctionOnSet(Debts(ms), DOMAIN ls)
  BY <1>1, <1>3, OwedIsSum, SumAdd
<1>5. SumFunctionOnSet(Debts(ms), DOMAIN ls) = SumFunctionOnSet(Debts(ls), DOMAIN ls)
  BY <1>2, OwedIsSum, SumSame
<1>6. Apply!Owed(ms) = SumFunctionOnSet(Debts(ms), DOMAIN ls \cup {n})
  BY <1>1, OwedIsSum
<1>7. Apply!Owed(ms) = Apply!Owed(ls)
  BY <1>2, <1>4, <1>5, <1>6, OwedIsSum
<1> QED BY <1>7 DEF ms

\* The steps of a request before it creates its loan, and what a request knows.
Asked == {"member", "savings", "loans", "compare", "create"}
Requests == [op : Asked \cup {"status"}, amount : {2}, saved : Nat, limit : Nat, row : Nat,
             most : Nat, least : Nat]
\* What a worker does for the member.
Occupied == {Apply!Idle} \cup [op : {"leave"}] \cup Requests

\* What the rows of the member and the requests hold.
ApplyTypes == Apply!MemberTypeOK /\ applying \in [Workers -> Occupied]

\* Every request that runs has room for its loan.
Asking == {a \in Workers : applying[a].op \in Asked}
\* There is no more than MCOffice lets the member have.
RoomInv == Len(loans) + Cardinality(Asking) <= 2

\* A request has kept track of the most savings and the least owed in its time; the limit
\* it found is none that these exclude.
Sound(r) ==
  /\ r.saved <= r.most /\ savings <= r.most /\ r.least <= Apply!Owed(loans)
  /\ r.op \in {"compare", "create"} => r.limit <= Apply!NetLimit(r.most, r.least)
  /\ r.op = "create" => r.amount <= r.limit

\* So it is for every request that has read something.
SoundInv == \A a \in Workers : Apply!Applies(a) => Sound(applying[a])

\* A row whose status is to be named a second time is of one request only, and nobody
\* but a decision against it has touched it.
RowsInv ==
  /\ \A a \in Workers : applying[a].op = "status" =>
       /\ applying[a].row \in DOMAIN loans
       /\ loans[applying[a].row].status \in {"PENDING", "REJECTED"}
  /\ \A a, b \in Workers :
       applying[a].op = "status" /\ applying[b].op = "status"
       /\ applying[a].row = applying[b].row => a = b

\* The invariant of applications.
ApplyInv == ApplyTypes /\ RoomInv /\ SoundInv /\ RowsInv /\ Apply!LimitRespected

\* At first nobody asks and there are no loans.
LEMMA InitApply == Apply!MemberInit => ApplyInv
<1> SUFFICES ASSUME Apply!MemberInit PROVE ApplyInv
  OBVIOUS
<1>1. /\ member = Nothing /\ form = Nothing /\ files = 0 /\ savings = 0 /\ loans = <<>>
      /\ applying = [a \in Workers |-> Apply!Idle]
  BY DEF Apply!MemberInit
<1>2. seasoned \in BOOLEAN
  BY Zenon DEF Apply!MemberInit
<1>3. loans \in Seq(Apply!LoanRows) /\ Len(loans) = 0 /\ DOMAIN loans = {}
  BY <1>1
<1>4. \A a \in Workers : applying[a].op = "idle"
  BY <1>1 DEF Apply!Idle
<1>5. ApplyTypes
  BY <1>1, <1>2, <1>3 DEF ApplyTypes, Apply!MemberTypeOK, Occupied
<1>6. RoomInv
  <2>1. Asking = {}
    BY <1>4 DEF Asking, Asked
  <2> QED BY <1>3, <2>1, FS_EmptySet DEF RoomInv
<1>7. SoundInv /\ RowsInv /\ Apply!LimitRespected
  BY <1>3, <1>4 DEF SoundInv, RowsInv, Apply!LimitRespected, Apply!Applies
<1> QED BY <1>5, <1>6, <1>7 DEF ApplyInv

\* What a request carries.
LEMMA RequestTypes ==
  ASSUME ApplyTypes, NEW a \in Workers
  PROVE  /\ applying[a] \in Occupied
         /\ Apply!Applies(a) <=> applying[a].op \in Asked \cup {"status"}
         /\ Apply!Applies(a) => applying[a] \in Requests
         /\ applying[a].op \in Asked \cup {"status"} => applying[a] \in Requests
<1>1. applying[a] \in Occupied
  BY DEF ApplyTypes
<1>2. Apply!Idle.op = "idle"
  BY DEF Apply!Idle
<1> QED BY <1>1, <1>2 DEF Occupied, Requests, Asked, Apply!Applies

\* The loans and what is owed are of their types.
LEMMA LoanTypes ==
  ASSUME ApplyTypes
  PROVE  /\ loans \in Seq(Apply!LoanRows) /\ Len(loans) \in Nat /\ DOMAIN loans = 1..Len(loans)
         /\ savings \in 0..1 /\ Apply!Owed(loans) \in Nat
<1>1. loans \in Seq(Apply!LoanRows) /\ savings \in 0..1
  BY DEF ApplyTypes, Apply!MemberTypeOK
<1> QED BY <1>1, OwedIsSum

\* Requests that no longer ask leave room.
LEMMA FewerAsk ==
  ASSUME IsFiniteSet(Workers), ApplyTypes, RoomInv, Asking' \subseteq Asking, Len(loans') = Len(loans)
  PROVE  RoomInv'
<1>1. IsFiniteSet(Asking)
  BY FS_Subset DEF Asking
<1>2. /\ Cardinality(Asking') <= Cardinality(Asking)
      /\ Cardinality(Asking) \in Nat /\ Cardinality(Asking') \in Nat
  BY <1>1, FS_Subset, FS_CardinalityType
<1>3. Len(loans) + Cardinality(Asking) <= 2
  BY DEF RoomInv
<1>4. Len(loans') + Cardinality(Asking') <= 2
  BY <1>2, <1>3, LoanTypes
<1> QED BY <1>4 DEF RoomInv

\* One request takes its next step, short of creating a loan.
LEMMA RequestTurns ==
  ASSUME IsFiniteSet(Workers), ApplyInv, NEW a \in Workers, NEW r \in Occupied,
         applying' = [applying EXCEPT ![a] = r], UNCHANGED <<savings, loans>>,
         Apply!MemberTypeOK', r.op # "status",
         r.op \in Asked => Sound(r),
         \/ r.op \in Asked => applying[a].op \in Asked
         \/ Len(loans) + Cardinality({b \in Workers : Apply!Applies(b)}) < 2
  PROVE  ApplyInv'
<1>0. ApplyTypes
  BY DEF ApplyInv
<1>1. UNCHANGED <<savings, loans>>
  OBVIOUS
<1>2. applying'[a] = r /\ \A b \in Workers \ {a} : applying'[b] = applying[b]
  BY <1>0 DEF ApplyTypes
<1>3. ApplyTypes'
  BY <1>0 DEF ApplyTypes
<1>4. RoomInv'
  <2>1. CASE r.op \in Asked => applying[a].op \in Asked
    <3>1. Asking' \subseteq Asking
      BY <1>2, <2>1 DEF Asking
    <3> QED BY <1>0, <1>1, <3>1, FewerAsk DEF ApplyInv
  <2>2. CASE Len(loans) + Cardinality({b \in Workers : Apply!Applies(b)}) < 2
    <3> DEFINE S == {b \in Workers : Apply!Applies(b)}
    <3>1. Asking' \subseteq S \cup {a}
      <4>1. \A b \in Workers \ {a} : applying[b].op \in Asked => Apply!Applies(b)
        BY DEF Asked, Apply!Applies
      <4> QED BY <1>2, <4>1 DEF Asking
    <3>2. IsFiniteSet(S) /\ IsFiniteSet(S \cup {a}) /\ Cardinality(S) \in Nat
      BY FS_Subset, FS_AddElement, FS_CardinalityType
    <3>3. Cardinality(S \cup {a}) <= Cardinality(S) + 1
      <4> HIDE DEF S
      <4>1. Cardinality(S \cup {a}) = IF a \in S THEN Cardinality(S) ELSE Cardinality(S) + 1
        BY <3>2, FS_AddElement
      <4> QED BY <3>2, <4>1
    <3>4. /\ Cardinality(Asking') <= Cardinality(S \cup {a})
          /\ Cardinality(Asking') \in Nat /\ Cardinality(S \cup {a}) \in Nat
      BY <3>1, <3>2, FS_Subset, FS_CardinalityType
    <3>5. Len(loans) + Cardinality(S) < 2
      BY <2>2
    <3> HIDE DEF S
    <3>6. Len(loans') + Cardinality(Asking') <= 2
      BY <1>0, <1>1, <3>2, <3>3, <3>4, <3>5, LoanTypes
    <3> QED BY <3>6 DEF RoomInv
  <2> QED BY <2>1, <2>2
<1>5. SoundInv'
  <2> SUFFICES ASSUME NEW b \in Workers, Apply!Applies(b)' PROVE Sound(applying[b])'
    BY DEF SoundInv
  <2>1. CASE b = a
    <3>1. r.op \in Asked
      BY <1>2, <1>3, <2>1, RequestTypes DEF Apply!Applies, Occupied, Requests, Apply!Idle
    <3> QED BY <1>1, <1>2, <2>1, <3>1 DEF Sound
  <2>2. CASE b # a
    <3>1. Apply!Applies(b)
      BY <1>2, <2>2 DEF Apply!Applies
    <3>2. Sound(applying[b])
      BY <3>1 DEF ApplyInv, SoundInv
    <3> QED BY <1>1, <1>2, <2>2, <3>2 DEF Sound
  <2> QED BY <2>1, <2>2
<1>6. RowsInv'
  BY <1>1, <1>2 DEF ApplyInv, RowsInv
<1>7. Apply!LimitRespected'
  BY <1>1 DEF ApplyInv, Apply!LimitRespected
<1> QED BY <1>3, <1>4, <1>5, <1>6, <1>7 DEF ApplyInv

\* A row of a loan that changes its status, or comes down, is still one.
LEMMA LoanMoved ==
  ASSUME ApplyTypes, NEW k \in DOMAIN loans, NEW to \in Apply!LoanStatuses,
         loans' = [loans EXCEPT ![k].status = to]
  PROVE  /\ loans' \in Seq(Apply!LoanRows) /\ DOMAIN loans' = DOMAIN loans
         /\ Len(loans') = Len(loans) /\ loans'[k].status = to
         /\ \A j \in DOMAIN loans \ {k} : loans'[j] = loans[j]
         /\ \A j \in DOMAIN loans : /\ loans'[j].amount = loans[j].amount
                                    /\ loans'[j].within = loans[j].within
<1>1. loans \in Seq(Apply!LoanRows) /\ loans[k] \in Apply!LoanRows
  BY LoanTypes
<1> DEFINE r == [loans[k] EXCEPT !.status = to]
<1>2. /\ r \in Apply!LoanRows /\ r.status = to
      /\ r.amount = loans[k].amount /\ r.within = loans[k].within
  BY <1>1 DEF Apply!LoanRows
<1>3. loans' = [loans EXCEPT ![k] = r]
  OBVIOUS
<1> HIDE DEF r
<1>4. /\ loans' \in Seq(Apply!LoanRows) /\ DOMAIN loans' = DOMAIN loans
      /\ Len(loans') = Len(loans) /\ loans'[k] = r
      /\ \A j \in DOMAIN loans \ {k} : loans'[j] = loans[j]
  BY <1>1, <1>2, <1>3
<1> QED BY <1>2, <1>4

\* The row is written, within the limit of its request.
LEMMA CreateStep ==
  ASSUME IsFiniteSet(Workers), ApplyInv, NEW a \in Workers, Apply!CreateLoan(a)
  PROVE  ApplyInv'
<1>0. ApplyTypes
  BY DEF ApplyInv
<1> DEFINE q == applying[a]
           n == Len(loans)
           c == [status |-> "PENDING", amount |-> q.amount, balance |-> q.amount,
                 within |-> Apply!NetLimit(q.most, q.least)]
<1>1. /\ q.op = "create" /\ loans' = Append(loans, c)
      /\ applying' \in {[applying EXCEPT ![a] = Apply!Idle],
                        [applying EXCEPT ![a] = [q EXCEPT !.op = "status", !.row = Len(loans')]]}
      /\ UNCHANGED <<member, form, files, seasoned, savings>>
  BY DEF Apply!CreateLoan
<1>2. q \in Requests /\ Apply!Applies(a) /\ a \in Asking
  BY <1>0, <1>1, RequestTypes DEF Asked, Asking
<1>3. Sound(q)
  BY <1>2 DEF ApplyInv, SoundInv
<1>4. /\ c \in Apply!LoanRows /\ c.status = "PENDING" /\ c.amount <= c.within
  <2>1. q.amount = 2 /\ q.most \in Nat /\ q.least \in Nat /\ q.limit \in Nat
    BY <1>2 DEF Requests
  <2>2. Apply!NetLimit(q.most, q.least) \in Nat
    <3>1. q.most <= q.most /\ q.least <= q.least
      BY <2>1
    <3> QED BY <2>1, <3>1, LimitGrows
  <2>3. 2 \in 0..Apply!Max({2})
    <3>1. {2, 2} = {2} /\ Apply!Max({2, 2}) = 2
      BY LargerAndSmaller
    <3>2. Apply!Max({2}) = 2
      BY <3>1, Zenon
    <3> QED BY <3>2
  <2>4. c \in Apply!LoanRows
    BY <2>1, <2>2, <2>3 DEF Apply!LoanRows, Apply!LoanStatuses
  <2> QED BY <1>1, <1>3, <2>1, <2>2, <2>4 DEF Sound
<1>5. /\ n \in Nat /\ loans' \in Seq(Apply!LoanRows) /\ Len(loans') = n + 1
      /\ DOMAIN loans = 1..n /\ DOMAIN loans' = 1..(n + 1) /\ loans'[n + 1] = c
      /\ \A k \in 1..n : loans'[k] = loans[k]
  <2> HIDE DEF c
  <2> QED BY <1>0, <1>1, <1>4, LoanTypes
<1>6. Apply!Owed(loans') = Apply!Owed(loans)
  <2> HIDE DEF c
  <2>1. c.status # "ACTIVE"
    BY <1>4
  <2> QED BY <1>0, <1>1, <1>4, <2>1, LoanTypes, OwedAppend
<1>7. PICK r \in Occupied : /\ applying' = [applying EXCEPT ![a] = r] /\ r.op \in {"idle", "status"}
                            /\ r.op = "status" => r = [q EXCEPT !.op = "status", !.row = n + 1]
  <2> HIDE DEF c
  <2>1. Apply!Idle \in Occupied /\ Apply!Idle.op = "idle"
    BY DEF Occupied, Apply!Idle
  <2>2. CASE applying' = [applying EXCEPT ![a] = Apply!Idle]
    BY <2>1, <2>2
  <2>3. CASE applying' = [applying EXCEPT ![a] = [q EXCEPT !.op = "status", !.row = Len(loans')]]
    <3> DEFINE r == [q EXCEPT !.op = "status", !.row = n + 1]
    <3>1. r \in Requests /\ r.op = "status"
      <4>1. \A x \in Requests : \A m \in Nat :
              /\ [x EXCEPT !.op = "status", !.row = m] \in Requests
              /\ [x EXCEPT !.op = "status", !.row = m].op = "status"
        BY DEF Requests
      <4>2. n + 1 \in Nat
        BY <1>5
      <4> HIDE DEF q, n
      <4> QED BY <1>2, <4>1, <4>2
    <3>2. applying' = [applying EXCEPT ![a] = r]
      BY <1>5, <2>3
    <3> HIDE DEF q
    <3> QED BY <3>1, <3>2 DEF Occupied
  <2> QED BY <1>1, <2>2, <2>3
<1> HIDE DEF c
<1>8. applying'[a] = r /\ \A b \in Workers \ {a} : applying'[b] = applying[b]
  BY <1>0, <1>7 DEF ApplyTypes
<1>9. Len(loans') + Cardinality(Asking') <= 2 /\ Cardinality(Asking') \in Nat
  <2>1. Asking' = Asking \ {a}
    BY <1>7, <1>8 DEF Asking, Asked
  <2>2. IsFiniteSet(Asking)
    BY FS_Subset DEF Asking
  <2>3. /\ Cardinality(Asking \ {a}) = Cardinality(Asking) - 1
        /\ Cardinality(Asking) \in Nat /\ Cardinality(Asking \ {a}) \in Nat
    BY <1>2, <2>2, FS_RemoveElement, FS_CardinalityType
  <2>4. n + Cardinality(Asking) <= 2
    BY DEF ApplyInv, RoomInv
  <2> QED BY <1>5, <2>1, <2>3, <2>4
<1>10. ApplyTypes'
  <2>1. Len(loans') <= 2
    BY <1>5, <1>9
  <2> QED BY <1>0, <1>1, <1>5, <1>7, <2>1 DEF ApplyTypes, Apply!MemberTypeOK
<1>11. SoundInv'
  <2> SUFFICES ASSUME NEW b \in Workers, Apply!Applies(b)' PROVE Sound(applying[b])'
    BY DEF SoundInv
  <2>1. CASE b = a
    <3>1. r.op = "status"
      BY <1>7, <1>8, <2>1 DEF Apply!Applies
    <3>2. r.op = "status" /\ r.saved = q.saved /\ r.most = q.most /\ r.least = q.least
      BY <1>2, <1>7, <3>1 DEF Requests
    <3> QED BY <1>1, <1>3, <1>6, <1>8, <2>1, <3>2 DEF Sound
  <2>2. CASE b # a
    <3>1. Apply!Applies(b)
      BY <1>8, <2>2 DEF Apply!Applies
    <3>2. Sound(applying[b])
      BY <3>1 DEF ApplyInv, SoundInv
    <3> QED BY <1>1, <1>6, <1>8, <2>2, <3>2 DEF Sound
  <2> QED BY <2>1, <2>2
<1>12. RowsInv'
  <2>1. applying'[a].op = "status" => applying'[a].row = n + 1
    BY <1>2, <1>7, <1>8 DEF Requests
  <2>2. \A b \in Workers \ {a} : applying'[b].op = "status" =>
          /\ applying'[b].row \in 1..n
          /\ loans'[applying'[b].row].status \in {"PENDING", "REJECTED"}
    BY <1>5, <1>8 DEF ApplyInv, RowsInv
  <2>3. loans'[n + 1].status = "PENDING"
    BY <1>4, <1>5
  <2>4. \A b, d \in Workers \ {a} :
          applying'[b].op = "status" /\ applying'[d].op = "status"
          /\ applying'[b].row = applying'[d].row => b = d
    BY <1>8 DEF ApplyInv, RowsInv
  <2>5. n + 1 \notin 1..n /\ n + 1 \in DOMAIN loans' /\ 1..n \subseteq DOMAIN loans'
    BY <1>5
  <2>6. \A b \in Workers : applying'[b].op = "status" =>
          /\ applying'[b].row \in DOMAIN loans'
          /\ loans'[applying'[b].row].status \in {"PENDING", "REJECTED"}
    BY <2>1, <2>2, <2>3, <2>5
  <2>7. \A b, d \in Workers :
          applying'[b].op = "status" /\ applying'[d].op = "status"
          /\ applying'[b].row = applying'[d].row => b = d
    BY <2>1, <2>2, <2>4, <2>5
  <2> QED BY <2>6, <2>7 DEF RowsInv
<1>13. Apply!LimitRespected'
  <2>1. \A k \in 1..n : loans'[k].amount <= loans'[k].within
    BY <1>5 DEF ApplyInv, Apply!LimitRespected
  <2>2. \A k \in 1..(n + 1) : k \in 1..n \/ k = n + 1
    BY <1>5
  <2> QED BY <1>4, <1>5, <2>1, <2>2 DEF Apply!LimitRespected
<1>14. RoomInv'
  BY <1>9 DEF RoomInv
<1> QED BY <1>10, <1>11, <1>12, <1>13, <1>14 DEF ApplyInv

\* LoanApplyView names the status again: of a row that is not paid out, and of no other.
LEMMA StatusStep ==
  ASSUME IsFiniteSet(Workers), ApplyInv, NEW a \in Workers, NEW yes \in BOOLEAN, Apply!SetStatus(a, yes)
  PROVE  ApplyInv'
<1>0. ApplyTypes
  BY DEF ApplyInv
<1> DEFINE k == applying[a].row
           to == IF yes THEN "GUARANTORS_PENDING" ELSE "PENDING_APPROVAL"
<1>1. /\ applying[a].op = "status" /\ loans' = [loans EXCEPT ![k].status = to]
      /\ applying' = [applying EXCEPT ![a] = Apply!Idle]
      /\ UNCHANGED <<member, form, files, seasoned, savings>>
  BY DEF Apply!SetStatus
<1>2. k \in DOMAIN loans /\ loans[k].status \in {"PENDING", "REJECTED"}
  BY <1>1 DEF ApplyInv, RowsInv
<1>3. to \in Apply!LoanStatuses /\ to # "ACTIVE"
  BY DEF Apply!LoanStatuses
<1>4. \A b \in Workers \ {a} : applying[b].op = "status" => applying[b].row # k
  BY <1>1 DEF ApplyInv, RowsInv
<1> HIDE DEF k, to
<1>5. /\ loans' \in Seq(Apply!LoanRows) /\ DOMAIN loans' = DOMAIN loans
      /\ Len(loans') = Len(loans) /\ loans'[k].status = to
      /\ \A j \in DOMAIN loans \ {k} : loans'[j] = loans[j]
      /\ \A j \in DOMAIN loans : /\ loans'[j].amount = loans[j].amount
                                 /\ loans'[j].within = loans[j].within
  BY <1>0, <1>1, <1>2, <1>3, LoanMoved
<1>6. Apply!Owed(loans') = Apply!Owed(loans)
  <2>1. \A j \in DOMAIN loans : Debts(loans')[j] = Debts(loans)[j]
    <3> SUFFICES ASSUME NEW j \in DOMAIN loans PROVE Debts(loans')[j] = Debts(loans)[j]
      OBVIOUS
    <3>1. CASE j = k
      BY <1>2, <1>3, <1>5, <3>1 DEF Debts
    <3>2. CASE j # k
      BY <1>5, <3>2 DEF Debts
    <3> QED BY <3>1, <3>2
  <2> QED BY <1>0, <1>5, <2>1, LoanTypes, OwedSame
<1>7. /\ applying'[a] = Apply!Idle /\ Apply!Idle.op = "idle" /\ Apply!Idle \in Occupied
      /\ \A b \in Workers \ {a} : applying'[b] = applying[b]
  BY <1>0, <1>1 DEF ApplyTypes, Apply!Idle, Occupied
<1>8. ApplyTypes'
  BY <1>0, <1>1, <1>5, <1>7 DEF ApplyTypes, Apply!MemberTypeOK
<1>9. RoomInv'
  <2>1. Asking' \subseteq Asking
    BY <1>7 DEF Asking, Asked
  <2> QED BY <1>0, <1>5, <2>1, FewerAsk DEF ApplyInv
<1>10. SoundInv'
  <2> SUFFICES ASSUME NEW b \in Workers, Apply!Applies(b)' PROVE Sound(applying[b])'
    BY DEF SoundInv
  <2>1. b # a /\ Apply!Applies(b)
    BY <1>7 DEF Apply!Applies
  <2>2. Sound(applying[b])
    BY <2>1 DEF ApplyInv, SoundInv
  <2> QED BY <1>1, <1>6, <1>7, <2>1, <2>2 DEF Sound
<1>11. RowsInv'
  BY <1>4, <1>5, <1>7 DEF ApplyInv, RowsInv
<1>12. Apply!LimitRespected'
  BY <1>5 DEF ApplyInv, Apply!LimitRespected
<1> QED BY <1>8, <1>9, <1>10, <1>11, <1>12 DEF ApplyInv

\* What moves meanwhile, and every running request keeps track of it.
LEMMA Watching ==
  ASSUME IsFiniteSet(Workers), ApplyInv,
         applying' = Apply!Watched(savings', loans'), savings' \in 0..1,
         UNCHANGED <<member, form, files, seasoned>>,
         loans' \in Seq(Apply!LoanRows), DOMAIN loans' = DOMAIN loans, Len(loans') = Len(loans),
         \A k \in DOMAIN loans : loans'[k].amount = loans[k].amount,
         \A k \in DOMAIN loans : loans'[k].within = loans[k].within,
         \A k \in DOMAIN loans : loans[k].status \in {"PENDING", "REJECTED"}
                                 => loans'[k].status \in {"PENDING", "REJECTED"}
  PROVE  ApplyInv'
<1>0. ApplyTypes
  BY DEF ApplyInv
<1> DEFINE o == Apply!Owed(loans')
           More(q) == Apply!Max({q.most, savings'})
           Less(q) == Apply!Min({q.least, o})
<1>1. o \in Nat /\ Apply!Owed(loans) \in Nat /\ savings' \in Nat
  BY <1>0, OwedIsSum, LoanTypes
<1> HIDE DEF o
<1>2. ASSUME NEW q \in Requests
      PROVE  /\ More(q) \in Nat /\ More(q) >= q.most /\ More(q) >= savings'
             /\ Less(q) \in Nat /\ Less(q) <= q.least /\ Less(q) <= o
  <2>1. q.most \in Nat /\ q.least \in Nat
    BY DEF Requests
  <2>2. More(q) = IF q.most >= savings' THEN q.most ELSE savings'
    BY <1>1, <2>1, LargerAndSmaller
  <2>3. Less(q) = IF q.least <= o THEN q.least ELSE o
    <3>1. \A x, y \in Int : Apply!Min({x, y}) = IF x <= y THEN x ELSE y
      BY LargerAndSmaller
    <3>2. q.least \in Int /\ o \in Int
      BY <1>1, <2>1
    <3> QED BY <3>1, <3>2
  <2> QED BY <1>1, <2>1, <2>2, <2>3
<1>3. \A a \in Workers : applying'[a] =
        IF Apply!Applies(a)
        THEN [applying[a] EXCEPT !.most = More(applying[a]), !.least = Less(applying[a])]
        ELSE applying[a]
  BY DEF Apply!Watched, o
<1> HIDE DEF More, Less
<1>4. ASSUME NEW a \in Workers, Apply!Applies(a)
      PROVE  /\ applying[a] \in Requests /\ applying'[a] \in Requests
             /\ applying'[a].op = applying[a].op /\ applying'[a].amount = applying[a].amount
             /\ applying'[a].saved = applying[a].saved /\ applying'[a].limit = applying[a].limit
             /\ applying'[a].row = applying[a].row
             /\ applying'[a].most = More(applying[a]) /\ applying'[a].least = Less(applying[a])
  <2>1. applying[a] \in Requests
    BY <1>0, <1>4, RequestTypes
  <2>2. More(applying[a]) \in Nat /\ Less(applying[a]) \in Nat
    BY <1>2, <2>1
  <2> DEFINE q == applying[a]
             r == applying'[a]
             m == More(q)
             l == Less(q)
  <2>3. r = [q EXCEPT !.most = m, !.least = l]
    BY <1>3, <1>4
  <2> HIDE DEF q, r, m, l
  <2>4. q \in Requests /\ m \in Nat /\ l \in Nat
    BY <2>1, <2>2 DEF q, m, l
  <2>5. /\ r \in Requests /\ r.op = q.op /\ r.amount = q.amount /\ r.saved = q.saved
        /\ r.limit = q.limit /\ r.row = q.row /\ r.most = m /\ r.least = l
    BY <2>3, <2>4 DEF Requests
  <2> QED BY <2>4, <2>5 DEF q, r, m, l
<1>5. \A a \in Workers : ~Apply!Applies(a) => applying'[a] = applying[a]
  BY <1>3
<1>6. \A a \in Workers : applying'[a].op = applying[a].op
  BY <1>4, <1>5
<1>7. ApplyTypes'
  <2>1. \A a \in Workers : applying'[a] \in Occupied
    BY <1>0, <1>4, <1>5, RequestTypes DEF Occupied
  <2>2. applying' \in [Workers -> Occupied]
    BY <2>1 DEF Apply!Watched
  <2> QED BY <1>0, <2>2 DEF ApplyTypes, Apply!MemberTypeOK
<1>8. RoomInv'
  <2>1. Asking' \subseteq Asking
    BY <1>6 DEF Asking
  <2> QED BY <1>0, <2>1, FewerAsk DEF ApplyInv
<1>9. SoundInv'
  <2> SUFFICES ASSUME NEW a \in Workers, Apply!Applies(a)' PROVE Sound(applying[a])'
    BY DEF SoundInv
  <2>1. Apply!Applies(a)
    BY <1>6 DEF Apply!Applies
  <2> DEFINE q == applying[a]
             r == applying'[a]
  <2>2. /\ q \in Requests /\ r \in Requests
        /\ r.op = q.op /\ r.amount = q.amount /\ r.saved = q.saved /\ r.limit = q.limit
        /\ r.most = More(q) /\ r.least = Less(q)
    BY <1>4, <2>1
  <2>3. Sound(q)
    BY <2>1 DEF ApplyInv, SoundInv
  <2> HIDE DEF q, r
  <2>4. /\ r.most \in Nat /\ r.most >= q.most /\ r.most >= savings'
        /\ r.least \in Nat /\ r.least <= q.least /\ r.least <= o
    BY <1>2, <2>2
  <2>5. /\ q.most \in Nat /\ q.least \in Nat /\ q.saved \in Nat /\ q.limit \in Nat
    BY <2>2 DEF Requests
  <2>6. /\ Apply!NetLimit(q.most, q.least) <= Apply!NetLimit(r.most, r.least)
        /\ Apply!NetLimit(q.most, q.least) \in Nat /\ Apply!NetLimit(r.most, r.least) \in Nat
    BY <2>4, <2>5, LimitGrows
  <2>7. r.saved <= r.most
    BY <2>2, <2>3, <2>4, <2>5 DEF Sound
  <2>8. r.op \in {"compare", "create"} => r.limit <= Apply!NetLimit(r.most, r.least)
    <3>1. q.op \in {"compare", "create"} => q.limit <= Apply!NetLimit(q.most, q.least)
      BY <2>3 DEF Sound
    <3> QED BY <2>2, <2>5, <2>6, <3>1
  <2>9. r.op = "create" => r.amount <= r.limit
    BY <2>2, <2>3 DEF Sound
  <2>10. savings' <= r.most /\ r.least <= o
    BY <1>1, <2>4
  <2>11. /\ r.saved <= r.most /\ savings' <= r.most /\ r.least <= Apply!Owed(loans')
         /\ r.op \in {"compare", "create"} => r.limit <= Apply!NetLimit(r.most, r.least)
         /\ r.op = "create" => r.amount <= r.limit
    BY <2>7, <2>8, <2>9, <2>10 DEF o
  <2> QED BY <2>11 DEF Sound, r
<1>10. RowsInv'
  <2>1. \A a \in Workers : applying'[a].op = "status" =>
          applying[a].op = "status" /\ applying'[a].row = applying[a].row
    BY <1>4, <1>5, <1>6 DEF Apply!Applies
  <2> QED BY <2>1 DEF ApplyInv, RowsInv
<1>11. Apply!LimitRespected'
  BY DEF ApplyInv, Apply!LimitRespected
<1> QED BY <1>7, <1>8, <1>9, <1>10, <1>11 DEF ApplyInv

\* A loan is decided, paid out or paid back, or savings move.
LEMMA OthersMove ==
  ASSUME IsFiniteSet(Workers), ApplyInv,
         \/ Apply!MoveSavings
         \/ \E k \in DOMAIN loans : \/ \E d \in {"APPROVED", "REJECTED"} : Apply!DecideLoan(k, d)
                                    \/ Apply!GuarantorsAnswer(k) \/ Apply!PayOutLoan(k)
                                    \/ Apply!RepayLoan(k)
  PROVE  ApplyInv'
<1>0. ApplyTypes
  BY DEF ApplyInv
<1>1. CASE Apply!MoveSavings
  <2>1. /\ savings' \in 0..1 /\ loans' = loans /\ UNCHANGED <<member, form, files, seasoned>>
        /\ applying' = Apply!Watched(savings', loans')
    BY <1>1 DEF Apply!MoveSavings, Apply!Watched
  <2> QED BY <1>0, <2>1, LoanTypes, Watching
<1>2. ASSUME NEW k \in DOMAIN loans, NEW to \in Apply!LoanStatuses, Apply!MoveLoan(k, to),
             loans[k].status \in {"PENDING", "REJECTED"} => to = "REJECTED"
      PROVE  ApplyInv'
  <2>1. /\ loans' = [loans EXCEPT ![k].status = to] /\ savings' = savings
        /\ applying' = Apply!Watched(savings, loans')
        /\ UNCHANGED <<member, form, files, seasoned>>
    BY <1>2 DEF Apply!MoveLoan
  <2>2. /\ loans' \in Seq(Apply!LoanRows) /\ DOMAIN loans' = DOMAIN loans
        /\ Len(loans') = Len(loans) /\ loans'[k].status = to
        /\ \A j \in DOMAIN loans \ {k} : loans'[j] = loans[j]
        /\ \A j \in DOMAIN loans : /\ loans'[j].amount = loans[j].amount
                                   /\ loans'[j].within = loans[j].within
    BY <1>0, <1>2, <2>1, LoanMoved
  <2>3. applying' = Apply!Watched(savings', loans')
    BY <2>1 DEF Apply!Watched
  <2>4. \A j \in DOMAIN loans : loans[j].status \in {"PENDING", "REJECTED"}
                                => loans'[j].status \in {"PENDING", "REJECTED"}
    BY <1>2, <2>2
  <2> QED BY <1>0, <2>1, <2>2, <2>3, <2>4, LoanTypes, Watching
<1>3. ASSUME NEW k \in DOMAIN loans,
             \/ \E d \in {"APPROVED", "REJECTED"} : Apply!DecideLoan(k, d)
             \/ Apply!GuarantorsAnswer(k) \/ Apply!PayOutLoan(k)
      PROVE  ApplyInv'
  <2>1. ASSUME NEW d \in {"APPROVED", "REJECTED"}, Apply!DecideLoan(k, d) PROVE ApplyInv'
    <3>1. Apply!MoveLoan(k, d) /\ d \in Apply!LoanStatuses
          /\ (loans[k].status \in {"PENDING", "REJECTED"} => d = "REJECTED")
      BY <2>1 DEF Apply!DecideLoan, Apply!LoanStatuses
    <3> QED BY <1>2, <3>1
  <2>2. CASE Apply!GuarantorsAnswer(k)
    BY <1>2, <2>2 DEF Apply!GuarantorsAnswer, Apply!LoanStatuses
  <2>3. CASE Apply!PayOutLoan(k)
    BY <1>2, <2>3 DEF Apply!PayOutLoan, Apply!LoanStatuses
  <2> QED BY <1>3, <2>1, <2>2, <2>3
<1>4. ASSUME NEW k \in DOMAIN loans, Apply!RepayLoan(k) PROVE ApplyInv'
  <2>1. /\ loans' = [loans EXCEPT ![k].balance = @ - 1] /\ savings' = savings
        /\ loans[k].balance > 0 /\ applying' = Apply!Watched(savings, loans')
        /\ UNCHANGED <<member, form, files, seasoned>>
    BY <1>4 DEF Apply!RepayLoan
  <2> DEFINE r == [loans[k] EXCEPT !.balance = @ - 1]
  <2>2. loans \in Seq(Apply!LoanRows) /\ loans[k] \in Apply!LoanRows /\ loans[k].balance \in 0..2
    BY <1>0, LoanTypes, OwedIsSum
  <2>3. /\ r \in Apply!LoanRows /\ r.status = loans[k].status
        /\ r.amount = loans[k].amount /\ r.within = loans[k].within
    <3>1. loans[k].balance - 1 \in 0..Apply!Max({2})
      <4>1. {2, 2} = {2} /\ Apply!Max({2, 2}) = 2
        BY LargerAndSmaller
      <4>2. Apply!Max({2}) = 2
        BY <4>1, Zenon
      <4> QED BY <2>1, <2>2, <4>2
    <3> QED BY <2>2, <3>1 DEF Apply!LoanRows
  <2>4. loans' = [loans EXCEPT ![k] = r]
    BY <2>1
  <2> HIDE DEF r
  <2>5. /\ loans' \in Seq(Apply!LoanRows) /\ DOMAIN loans' = DOMAIN loans
        /\ Len(loans') = Len(loans) /\ loans'[k] = r
        /\ \A j \in DOMAIN loans \ {k} : loans'[j] = loans[j]
    BY <2>2, <2>3, <2>4
  <2>6. \A j \in DOMAIN loans : /\ loans'[j].amount = loans[j].amount
                                /\ loans'[j].within = loans[j].within
                                /\ loans'[j].status = loans[j].status
    BY <2>3, <2>5
  <2>7. applying' = Apply!Watched(savings', loans')
    BY <2>1 DEF Apply!Watched
  <2> QED BY <1>0, <2>1, <2>5, <2>6, <2>7, LoanTypes, Watching
<1> QED BY <1>1, <1>3, <1>4

\* A request of a member's that only reads, compares or gives up.
LEMMA RequestSteps ==
  ASSUME IsFiniteSet(Workers), ApplyInv, NEW a \in Workers,
         \/ \E amount \in {2} : Apply!StartApplication(a, amount)
         \/ Apply!ReadMember(a) \/ Apply!ReadSavings(a) \/ Apply!ReadBalances(a) \/ Apply!Compare(a)
  PROVE  ApplyInv'
<1>0. ApplyTypes
  BY DEF ApplyInv
<1> DEFINE q == applying[a]
<1>1. Apply!Idle \in Occupied /\ Apply!Idle.op = "idle"
  BY DEF Apply!Idle, Occupied
<1>2. ASSUME NEW r \in Occupied, Apply!Step(a, r), r.op # "status", r.op \in Asked => Sound(r),
             \/ r.op \in Asked => q.op \in Asked
             \/ Len(loans) + Cardinality({b \in Workers : Apply!Applies(b)}) < 2
      PROVE  ApplyInv'
  <2>1. /\ applying' = [applying EXCEPT ![a] = r]
        /\ UNCHANGED <<member, form, files, seasoned, savings, loans>>
    BY <1>2 DEF Apply!Step
  <2>2. Apply!MemberTypeOK'
    BY <1>0, <2>1 DEF ApplyTypes, Apply!MemberTypeOK
  <2> QED BY <1>2, <2>1, <2>2, RequestTurns
<1>3. ASSUME Apply!Step(a, Apply!Idle) PROVE ApplyInv'
  BY <1>1, <1>2, <1>3 DEF Asked
<1>4. ASSUME q.op \in Asked PROVE q \in Requests /\ Sound(q)
  <2>1. q \in Requests /\ Apply!Applies(a)
    BY <1>0, <1>4, RequestTypes
  <2> QED BY <2>1 DEF ApplyInv, SoundInv
<1>5. ASSUME NEW amount \in {2}, Apply!StartApplication(a, amount) PROVE ApplyInv'
  <2> DEFINE r == [op |-> "member", amount |-> amount, saved |-> 0, limit |-> 0, row |-> 0,
                   most |-> savings, least |-> Apply!Owed(loans)]
  <2>1. Apply!Step(a, r)
    BY <1>5 DEF Apply!StartApplication
  <2>2. Len(loans) + Cardinality({b \in Workers : Apply!Applies(b)}) < 2
    BY <1>5, LoanSums DEF Apply!StartApplication
  <2>3. savings \in Nat /\ Apply!Owed(loans) \in Nat
    BY <1>0, LoanTypes
  <2>4. /\ r \in Requests /\ r.op = "member" /\ r.saved = 0 /\ r.most = savings
        /\ r.least = Apply!Owed(loans)
    BY <2>3 DEF Requests, Asked
  <2> HIDE DEF r
  <2>5. Sound(r)
    BY <2>3, <2>4 DEF Sound
  <2> QED BY <1>2, <2>1, <2>2, <2>4, <2>5 DEF Occupied
<1>6. CASE Apply!ReadMember(a)
  <2>1. q.op = "member" /\ (Apply!Step(a, Apply!Idle) \/ Apply!Step(a, [q EXCEPT !.op = "savings"]))
    BY <1>6 DEF Apply!ReadMember
  <2>2. ASSUME Apply!Step(a, [q EXCEPT !.op = "savings"]) PROVE ApplyInv'
    <3> DEFINE r == [q EXCEPT !.op = "savings"]
    <3>1. q \in Requests /\ Sound(q) /\ Apply!Step(a, r)
      BY <1>4, <2>1, <2>2 DEF Asked
    <3>2. /\ r \in Requests /\ r.op = "savings" /\ r.saved = q.saved /\ r.most = q.most
          /\ r.least = q.least
      BY <3>1 DEF Requests, Asked
    <3> HIDE DEF r
    <3>3. Sound(r)
      BY <3>1, <3>2 DEF Sound
    <3> QED BY <1>2, <2>1, <3>1, <3>2, <3>3 DEF Occupied, Asked
  <2> QED BY <1>3, <2>1, <2>2
<1>7. CASE Apply!ReadSavings(a)
  <2>1. /\ q.op = "savings"
        /\ \/ Apply!Step(a, Apply!Idle)
           \/ Apply!Step(a, [q EXCEPT !.op = "loans", !.saved = savings])
    BY <1>7 DEF Apply!ReadSavings
  <2>2. ASSUME Apply!Step(a, [q EXCEPT !.op = "loans", !.saved = savings]) PROVE ApplyInv'
    <3> DEFINE r == [q EXCEPT !.op = "loans", !.saved = savings]
    <3>1. q \in Requests /\ Sound(q) /\ Apply!Step(a, r) /\ savings \in Nat
      BY <1>0, <1>4, <2>1, <2>2, LoanTypes DEF Asked
    <3>2. /\ r \in Requests /\ r.op = "loans" /\ r.saved = savings /\ r.most = q.most
          /\ r.least = q.least
      BY <3>1 DEF Requests, Asked
    <3> HIDE DEF r
    <3>3. Sound(r)
      BY <3>1, <3>2 DEF Sound
    <3> QED BY <1>2, <2>1, <3>1, <3>2, <3>3 DEF Occupied, Asked
  <2> QED BY <1>3, <2>1, <2>2
<1>8. CASE Apply!ReadBalances(a)
  <2> DEFINE l == Apply!NetLimit(q.saved, Apply!ActiveBalance(loans))
             r == [q EXCEPT !.op = "compare", !.limit = l]
  <2>1. q.op = "loans" /\ Apply!Step(a, r)
    BY <1>8 DEF Apply!ReadBalances
  <2>2. q \in Requests /\ Sound(q)
    BY <1>4, <2>1 DEF Asked
  <2>3. l = Apply!NetLimit(q.saved, Apply!Owed(loans)) /\ Apply!Owed(loans) \in Nat
    BY <1>0, LoanTypes, ActiveIsOwed
  <2>4. q.saved \in Nat /\ q.most \in Nat /\ q.least \in Nat
    BY <2>2 DEF Requests
  <2>5. l \in Nat /\ l <= Apply!NetLimit(q.most, q.least)
    <3>1. q.saved <= q.most /\ q.least <= Apply!Owed(loans)
      BY <2>2 DEF Sound
    <3> HIDE DEF l
    <3> QED BY <2>3, <2>4, <3>1, LimitGrows
  <2> HIDE DEF l
  <2>6. /\ r \in Requests /\ r.op = "compare" /\ r.saved = q.saved /\ r.most = q.most
        /\ r.least = q.least /\ r.limit = l
    BY <2>2, <2>5 DEF Requests, Asked
  <2> HIDE DEF r
  <2>7. Sound(r)
    BY <2>2, <2>5, <2>6 DEF Sound
  <2> QED BY <1>2, <2>1, <2>6, <2>7 DEF Occupied, Asked
<1>9. CASE Apply!Compare(a)
  <2> DEFINE r == [q EXCEPT !.op = "create"]
  <2>1. /\ q.op = "compare"
        /\ \/ Apply!Step(a, Apply!Idle)
           \/ q.amount <= q.limit /\ Apply!Step(a, r)
    BY <1>9 DEF Apply!Compare, Apply!Admitted
  <2>2. ASSUME q.amount <= q.limit, Apply!Step(a, r) PROVE ApplyInv'
    <3>1. q \in Requests /\ Sound(q)
      BY <1>4, <2>1 DEF Asked
    <3>2. /\ r \in Requests /\ r.op = "create" /\ r.saved = q.saved /\ r.most = q.most
          /\ r.least = q.least /\ r.limit = q.limit /\ r.amount = q.amount
      BY <3>1 DEF Requests, Asked
    <3> HIDE DEF r
    <3>3. Sound(r)
      BY <2>1, <2>2, <3>1, <3>2 DEF Sound
    <3> QED BY <1>2, <2>1, <2>2, <3>2, <3>3 DEF Occupied, Asked
  <2> QED BY <1>3, <2>1, <2>2
<1> QED BY <1>5, <1>6, <1>7, <1>8, <1>9

\* Leaving, and the steps that concern membership alone.
LEMMA MemberSteps ==
  ASSUME IsFiniteSet(Workers), ApplyInv,
         \/ Apply!Apply \/ Apply!UploadDocument \/ Apply!Season \/ Apply!ShowLimit \/ Apply!ForgetLimit
         \/ \E d \in {"APPROVED", "REJECTED"} : Apply!ReviewApplication(d)
         \/ \E a \in Workers : Apply!StartLeave(a) \/ Apply!SaveLeave(a)
         \/ UNCHANGED applications
  PROVE  ApplyInv'
<1>0. ApplyTypes
  BY DEF ApplyInv
<1>1. ASSUME UNCHANGED <<savings, loans, applying>>, Apply!MemberTypeOK' PROVE ApplyInv'
  <2>1. Asking' = Asking
    BY <1>1 DEF Asking
  <2>2. ApplyTypes' /\ RoomInv'
    BY <1>0, <1>1, <2>1 DEF ApplyTypes, ApplyInv, RoomInv
  <2>3. SoundInv'
    BY <1>1 DEF ApplyInv, SoundInv, Sound, Apply!Applies
  <2>4. RowsInv' /\ Apply!LimitRespected'
    BY <1>1 DEF ApplyInv, RowsInv, Apply!LimitRespected
  <2> QED BY <2>2, <2>3, <2>4 DEF ApplyInv
<1>2. CASE Apply!Apply \/ Apply!UploadDocument \/ Apply!ShowLimit \/ Apply!ForgetLimit
           \/ UNCHANGED applications
  <2>1. UNCHANGED <<seasoned, savings, loans, applying>>
    BY <1>2 DEF Apply!Apply, Apply!UploadDocument, Apply!ShowLimit, Apply!ForgetLimit, applications
  <2>2. /\ member' \in Apply!MemberStatuses \cup {Nothing}
        /\ form' \in Apply!FormStatuses \cup {Nothing} /\ files' \in 0..1
    BY <1>0, <1>2 DEF Apply!Apply, Apply!UploadDocument, Apply!ShowLimit, Apply!ForgetLimit,
                      applications, ApplyTypes, Apply!MemberTypeOK, Apply!MemberStatuses,
                      Apply!FormStatuses
  <2>3. Apply!MemberTypeOK'
    BY <1>0, <2>1, <2>2 DEF ApplyTypes, Apply!MemberTypeOK
  <2> QED BY <1>1, <2>1, <2>3
<1>3. CASE Apply!Season
  <2>1. seasoned' \in BOOLEAN /\ UNCHANGED <<member, form, files, savings, loans, applying>>
    BY <1>3 DEF Apply!Season
  <2>2. Apply!MemberTypeOK'
    BY <1>0, <2>1 DEF ApplyTypes, Apply!MemberTypeOK
  <2> QED BY <1>1, <2>1, <2>2
<1>4. ASSUME NEW d \in {"APPROVED", "REJECTED"}, Apply!ReviewApplication(d) PROVE ApplyInv'
  <2>1. seasoned' \in BOOLEAN
    BY <1>4, Zenon DEF Apply!ReviewApplication
  <2>2. /\ form' \in Apply!FormStatuses /\ member' \in Apply!MemberStatuses \cup {Nothing}
        /\ UNCHANGED <<files, savings, loans, applying>>
    BY <1>0, <1>4 DEF Apply!ReviewApplication, Apply!ApprovedMember, ApplyTypes, Apply!MemberTypeOK,
                      Apply!MemberStatuses, Apply!FormStatuses
  <2>3. Apply!MemberTypeOK'
    BY <1>0, <2>1, <2>2 DEF ApplyTypes, Apply!MemberTypeOK
  <2> QED BY <1>1, <2>2, <2>3
<1>5. ASSUME NEW a \in Workers, Apply!StartLeave(a) \/ Apply!SaveLeave(a) PROVE ApplyInv'
  <2>1. PICK r \in Occupied : applying' = [applying EXCEPT ![a] = r] /\ r.op \in {"leave", "idle"}
    <3>1. Apply!Idle \in Occupied /\ Apply!Idle.op = "idle"
      BY DEF Apply!Idle, Occupied
    <3>2. [op |-> "leave"] \in Occupied /\ [op |-> "leave"].op = "leave"
      BY DEF Occupied
    <3> QED BY <1>5, <3>1, <3>2, Zenon DEF Apply!StartLeave, Apply!SaveLeave
  <2>2. /\ UNCHANGED <<form, files, seasoned, savings, loans>>
        /\ member' \in Apply!MemberStatuses \cup {Nothing}
    BY <1>0, <1>5 DEF Apply!StartLeave, Apply!SaveLeave, ApplyTypes, Apply!MemberTypeOK,
                      Apply!MemberStatuses
  <2>3. Apply!MemberTypeOK'
    BY <1>0, <2>2 DEF ApplyTypes, Apply!MemberTypeOK
  <2> QED BY <2>1, <2>2, <2>3, RequestTurns DEF Asked
<1> QED BY <1>2, <1>3, <1>4, <1>5

\* The part keeps its invariant, while others step as well.
LEMMA StepApply ==
  ASSUME IsFiniteSet(Workers), ApplyInv,
         [Next]_<<part, applications, instalments, reminders, campaigns, billing,
                  dividends, imports, monitors, notices, credit>>
  PROVE  ApplyInv'
<1>1. ASSUME Apply!MemberNext PROVE ApplyInv'
  <2>1. ASSUME NEW a \in Workers,
               \/ Apply!StartLeave(a) \/ Apply!SaveLeave(a)
               \/ \E amount \in {2} : Apply!StartApplication(a, amount)
               \/ Apply!ReadMember(a) \/ Apply!ReadSavings(a) \/ Apply!ReadBalances(a)
               \/ Apply!Compare(a) \/ Apply!CreateLoan(a)
               \/ \E yes \in BOOLEAN : Apply!SetStatus(a, yes)
        PROVE  ApplyInv'
    BY <2>1, MemberSteps, RequestSteps, CreateStep, StatusStep
  <2> QED BY <1>1, <2>1, MemberSteps, OthersMove DEF Apply!MemberNext
<1>2. CASE UNCHANGED applications
  BY <1>2, MemberSteps
<1> QED BY <1>1, <1>2 DEF Next

\* No loan is for more than its own application's queries could have allowed
\* (services/engines/loan_limits.py), and none is approved against its latest credit
\* check without a reason (saccomanagement/admin_views.py).
THEOREM LimitsAreRespected ==
  ASSUME IsFiniteSet(Workers)
  PROVE  Spec => []LimitRespected
<1>1. Init => ApplyInv /\ CreditInv
  BY InitApply, InitCredit DEF Init
<1>2. /\ ApplyInv /\ CreditInv
      /\ [Next]_<<part, applications, instalments, reminders, campaigns, billing,
                  dividends, imports, monitors, notices, credit>>
      => ApplyInv' /\ CreditInv'
  BY StepApply, StepCredit
<1>3. ApplyInv /\ CreditInv => LimitRespected
  BY CreditIsRight DEF LimitRespected, ApplyInv
<1> QED BY <1>1, <1>2, <1>3, PTL DEF Spec

-----------------------------------------------------------------------------
(* Dividends *)

\* The sums of the part are those of SumProofs.
LEMMA ShareSums ==
  /\ \A f : Share!SumFunction(f) = SumFunctionOnSet(f, DOMAIN f)
  /\ \A S : Share!Cardinality(S) = Cardinality(S)
<1>1. \A f, S : Share!SumFunctionOnSet(f, S) = SumFunctionOnSet(f, S)
  BY DEF Share!SumFunctionOnSet, SumFunctionOnSet, Share!FoldFunctionOnSet, FoldFunctionOnSet,
         Share!MapThenFoldSet, MapThenFoldSet
<1>2. \A S : Share!Cardinality(S) = Cardinality(S)
  BY DEF Share!Cardinality, Cardinality
<1> QED BY <1>1, <1>2 DEF Share!SumFunction

\* A whole number for every element of a finite set has a sum.
LEMMA SharesAddUp ==
  ASSUME NEW f, IsFiniteSet(DOMAIN f), \A x \in DOMAIN f : f[x] \in Int
  PROVE  Share!SumFunction(f) \in Int
<1>1. SumFunctionOnSet(f, DOMAIN f) \in Int
  BY SumInt
<1> QED BY <1>1, ShareSums

\* The periods that MCOffice declares, and the movements it knows.
Periods == {[first |-> 1, last |-> 3, endDay |-> 31, rate |-> 10],
            [first |-> 4, last |-> 4, endDay |-> 15, rate |-> 7]}
Entries == {[month |-> 1, day |-> 10, amount |-> 100050],
            [month |-> 3, day |-> 30, amount |-> 20001]}

\* Two things are finitely many.
LEMMA PairIsFinite ==
  ASSUME NEW a, NEW b
  PROVE  IsFiniteSet({a, b})
<1>1. IsFiniteSet({a}) /\ IsFiniteSet({b})
  BY FS_Singleton
<1>2. {a, b} = {a} \cup {b}
  OBVIOUS
<1> QED BY <1>1, <1>2, FS_Union

\* What a division rounds to is a whole number.
LEMMA RoundedIsInt ==
  ASSUME NEW x \in Int, NEW d \in Nat, d # 0
  PROVE  Share!RoundHalfUp(x, d) \in Int
<1>1. 2 * x + d \in Int /\ 2 * d \in Nat /\ 2 * d # 0
  OBVIOUS
<1>2. \A y \in Int, z \in Nat : z # 0 => y \div z \in Int
  OBVIOUS
<1> QED BY <1>1, <1>2 DEF Share!RoundHalfUp

\* The share of an account is a whole number of cents.
LEMMA ShareIsInt ==
  ASSUME moved \in [Accounts -> SUBSET Entries], NEW s \in Accounts, NEW t \in Periods
  PROVE  Share!AverageBalance(s, t) \in Int /\ Share!DividendOf(s, t) \in Int
<1>1. \A m, on : Share!BalanceOn(s, m, on) \in Int
  <2> SUFFICES ASSUME NEW m, NEW on PROVE Share!BalanceOn(s, m, on) \in Int
    OBVIOUS
  <2> DEFINE some == {e \in moved[s] : \/ e.month < m
                                       \/ e.month = m /\ (e.day <= on \/ on = Share!DaysIn[m])}
             f == [e \in some |-> e.amount]
  <2>1. some \subseteq Entries
    OBVIOUS
  <2>2. IsFiniteSet(Entries)
    <3> DEFINE early == [month |-> 1, day |-> 10, amount |-> 100050]
               later == [month |-> 3, day |-> 30, amount |-> 20001]
    <3>1. Entries = {early, later}
      BY DEF Entries
    <3> HIDE DEF early, later
    <3>2. IsFiniteSet({early, later})
      BY PairIsFinite
    <3> QED BY <3>1, <3>2, Zenon
  <2>3. IsFiniteSet(some)
    BY <2>1, <2>2, FS_Subset
  <2>4. \A e \in Entries : e.amount \in Int
    BY DEF Entries
  <2>5. DOMAIN f = some /\ \A e \in some : f[e] \in Int
    BY <2>1, <2>4
  <2>6. Share!BalanceOn(s, m, on) = Share!SumFunction(f)
    BY DEF Share!BalanceOn
  <2> HIDE DEF some, f
  <2> QED BY <2>3, <2>5, <2>6, SharesAddUp
<1>2. Share!AverageBalance(s, t) \in Int
  <2> DEFINE months == Share!SampledMonths(t)
             f == [m \in months |-> Share!BalanceOn(s, m, Share!SampleDay(t.first, m))]
  <2>1. months \subseteq 1..4
    BY DEF Share!SampledMonths, Periods
  <2>2. IsFiniteSet(1..4)
    <3>1. IsFiniteSet({1, 2}) /\ IsFiniteSet({3, 4})
      BY PairIsFinite
    <3>2. 1..4 = {1, 2} \cup {3, 4}
      OBVIOUS
    <3>3. IsFiniteSet({1, 2} \cup {3, 4})
      BY <3>1, FS_Union
    <3> QED BY <3>2, <3>3, Zenon
  <2>3. IsFiniteSet(months)
    BY <2>1, <2>2, FS_Subset
  <2>4. DOMAIN f = months /\ \A m \in months : f[m] \in Int
    BY <1>1
  <2>5. Share!AverageBalance(s, t) =
          IF months = {} THEN Share!BalanceOn(s, t.last, t.endDay)
          ELSE Share!RoundHalfUp(Share!SumFunction(f), Cardinality(months))
    BY ShareSums DEF Share!AverageBalance
  <2> HIDE DEF months, f
  <2>6. Share!SumFunction(f) \in Int
    BY <2>3, <2>4, SharesAddUp
  <2>7. months # {} => Cardinality(months) \in Nat /\ Cardinality(months) # 0
    BY <2>3, FS_CardinalityType, FS_EmptySet
  <2> QED BY <1>1, <2>5, <2>6, <2>7, RoundedIsInt
<1>3. Share!DividendOf(s, t) \in Int
  <2>1. t.rate \in Int /\ t.last - t.first + 1 \in Int
    BY DEF Periods
  <2>2. \A a, b, c \in Int : a * b * c \in Int
    OBVIOUS
  <2>3. Share!AverageBalance(s, t) * t.rate * (t.last - t.first + 1) \in Int
    BY <1>2, <2>1, <2>2
  <2> QED BY <2>3, RoundedIsInt DEF Share!DividendOf
<1> QED BY <1>2, <1>3

\* What an admin holds, the declaration and the rows of the accounts.
DraftRows == [status : {"DRAFT"}, terms : Periods, total : Int]
Declarations == [status : {"DRAFT", "CALCULATED", "APPROVED", "DISBURSED"}, terms : Periods,
                 total : Int]
ShareRows == [status : {"PENDING", "PAID"}, average : Int, amount : Int]
NothingPaid == [times |-> 0, sum |-> 0]

\* What the declaration, its rows and the books of what was paid hold.
ShareTypes ==
  /\ declaration \in Declarations \cup {Share!NoDeclaration}
  /\ payout \in [Accounts -> ShareRows \cup {Share!NoPayout}]
  /\ moved \in [Accounts -> SUBSET Entries]
  /\ clerk \in [{"admin"} -> {Share!Idle} \cup [op : {"delete"}]
                             \cup [op : {"edit"}, row : DraftRows]]
  /\ paid \in [Accounts -> [times : 0..2, sum : Int]]
  /\ blind \in BOOLEAN

\* The share of an account follows from the declared terms.
ShareIs(s, row) == row.amount = Share!DividendOf(s, declaration.terms)

\* Before the payment nobody was paid; a calculation gives shares, the payment pays
\* every one of them; and the total is theirs.
ShareStages ==
  /\ declaration.status # "DISBURSED" => \A s \in Accounts : paid[s] = NothingPaid
  /\ declaration.status \in {"CALCULATED", "APPROVED"} =>
       \A s \in Share!Shared : payout[s].status = "PENDING" /\ ShareIs(s, payout[s])
  /\ declaration.status = "DISBURSED" =>
       \A s \in Accounts :
         \/ s \notin Share!Shared /\ paid[s] = NothingPaid
         \/ /\ s \in Share!Shared
            /\ paid[s] = [times |-> 1, sum |-> Share!DividendOf(s, declaration.terms)]
  /\ declaration.status \in {"CALCULATED", "APPROVED", "DISBURSED"} =>
       declaration.total = Share!SumFunction([s \in Share!Shared |->
                                                Share!DividendOf(s, declaration.terms)])

\* Of shares as long as the declaration was not edited behind a calculation.
ShareInv == ShareTypes /\ (blind \/ ShareStages)

\* At first nothing is declared.
LEMMA InitShare == Share!DividendInit => ShareInv
<1> SUFFICES ASSUME Share!DividendInit PROVE ShareInv
  OBVIOUS
<1>0. /\ declaration = Share!NoDeclaration /\ payout = [s \in Accounts |-> Share!NoPayout]
      /\ blind = FALSE /\ clerk = [a \in {"admin"} |-> Share!Idle]
      /\ paid = [s \in Accounts |-> NothingPaid]
  BY DEF Share!DividendInit, NothingPaid
<1>1. paid \in [Accounts -> [times : 0..2, sum : Int]]
  BY <1>0 DEF NothingPaid
<1>2. /\ clerk \in [{"admin"} -> {Share!Idle} \cup [op : {"delete"}]
                                \cup [op : {"edit"}, row : DraftRows]]
      /\ payout \in [Accounts -> ShareRows \cup {Share!NoPayout}]
      /\ declaration \in Declarations \cup {Share!NoDeclaration}
  BY <1>0
<1>3. moved \in [Accounts -> SUBSET Entries]
  BY DEF Share!DividendInit, Entries
<1>4. blind \in BOOLEAN
  BY <1>0, Zenon
<1>5. ShareStages
  <2>1. declaration.status = "NONE"
    BY <1>0 DEF Share!NoDeclaration
  <2>2. \A s \in Accounts : paid[s] = NothingPaid
    BY <1>0
  <2> QED BY <2>1, <2>2 DEF ShareStages
<1> QED BY <1>1, <1>2, <1>3, <1>4, <1>5 DEF ShareInv, ShareTypes

\* What the stages promise.
LEMMA SharesPaidOnce ==
  ASSUME ShareInv, IsFiniteSet(Accounts)
  PROVE  Share!DividendsOnce
<1> SUFFICES ASSUME blind # TRUE PROVE Share!DividendsOnce
  BY DEF ShareInv, Share!DividendsOnce
<1>0. ShareTypes /\ ShareStages
  BY DEF ShareInv
<1>d. ASSUME declaration.status = "DISBURSED", NEW s \in Accounts
      PROVE  \/ s \notin Share!Shared /\ paid[s] = NothingPaid
             \/ /\ s \in Share!Shared
                /\ paid[s] = [times |-> 1, sum |-> Share!DividendOf(s, declaration.terms)]
  BY <1>0, <1>d DEF ShareStages
<1>e. ASSUME declaration.status # "DISBURSED", NEW s \in Accounts
      PROVE  paid[s] = NothingPaid
  BY <1>0, <1>e DEF ShareStages
<1>z. NothingPaid.times = 0 /\ NothingPaid.sum = 0
  BY DEF NothingPaid
<1>1. ASSUME NEW s \in Accounts PROVE paid[s].times <= 1
  <2>1. paid[s] \in {NothingPaid, [times |-> 1, sum |-> Share!DividendOf(s, declaration.terms)]}
    BY <1>d, <1>e
  <2>2. paid[s].times \in {0, 1}
    BY <1>z, <2>1
  <2> QED BY <2>2
<1> DEFINE f == [s \in Accounts |-> paid[s].sum]
           g == [s \in Share!Shared |-> Share!DividendOf(s, declaration.terms)]
<1>2. IsFiniteSet(Share!Shared) /\ Share!Shared \subseteq Accounts
  <2>1. Share!Shared \subseteq Accounts
    BY DEF Share!Shared
  <2> QED BY <2>1, FS_Subset
<1>3. \A s \in Accounts : f[s] \in Int
  BY <1>0 DEF ShareTypes
<1>4. ASSUME declaration.status = "DISBURSED"
      PROVE  Share!SumFunction(f) = Share!SumFunction(g)
  <2>1. /\ \A s \in Share!Shared : f[s] = g[s]
        /\ \A s \in Accounts \ Share!Shared : f[s] = 0
    <3>1. ASSUME NEW s \in Share!Shared PROVE f[s] = g[s]
      <4>1. s \in Accounts /\ f[s] = paid[s].sum /\ g[s] = Share!DividendOf(s, declaration.terms)
        BY <1>2
      <4>2. paid[s] = [times |-> 1, sum |-> Share!DividendOf(s, declaration.terms)]
        BY <1>4, <1>d, <4>1
      <4> QED BY <4>1, <4>2
    <3>2. ASSUME NEW s \in Accounts \ Share!Shared PROVE f[s] = 0
      <4>1. paid[s] = NothingPaid
        BY <1>4, <1>d, <3>2
      <4> QED BY <1>z, <4>1
    <3> QED BY <3>1, <3>2
  <2>2. DOMAIN f = Accounts /\ DOMAIN g = Share!Shared
    OBVIOUS
  <2> HIDE DEF f, g
  <2>3. SumFunctionOnSet(f, Share!Shared) = SumFunctionOnSet(f, Accounts)
    BY <1>2, <1>3, <2>1, SumSkipsZeros
  <2>4. SumFunctionOnSet(f, Share!Shared) = SumFunctionOnSet(g, Share!Shared)
    BY <1>2, <2>1, SumSame
  <2> QED BY <2>2, <2>3, <2>4, ShareSums
<1>5. ASSUME declaration.status # "DISBURSED"
      PROVE  Share!SumFunction(f) = 0
  <2>1. \A s \in Accounts : f[s] = 0
    BY <1>5, <1>e, <1>z
  <2>2. DOMAIN f = Accounts /\ {} \subseteq Accounts
    OBVIOUS
  <2> HIDE DEF f
  <2>3. SumFunctionOnSet(f, {}) = SumFunctionOnSet(f, Accounts)
    BY <1>3, <2>1, <2>2, SumSkipsZeros
  <2> QED BY <2>2, <2>3, SumEmpty, ShareSums
<1>6. declaration.status \in {"CALCULATED", "APPROVED", "DISBURSED"} =>
        declaration.total = Share!SumFunction(g)
  BY <1>0 DEF ShareStages
<1> HIDE DEF f, g
<1>7. declaration.status \in {"CALCULATED", "APPROVED", "DISBURSED"} =>
        /\ declaration.total = Share!SumFunction(g)
        /\ Share!SumFunction(f) = IF declaration.status = "DISBURSED" THEN declaration.total ELSE 0
  BY <1>4, <1>5, <1>6
<1> QED BY <1>1, <1>7 DEF Share!DividendsOnce, f, g

\* The stages depend on the declaration, the shares and the payments alone.
LEMMA StagesStay ==
  ASSUME ShareStages, UNCHANGED <<declaration, payout, moved, paid>>
  PROVE  ShareStages'
<1>1. \A s, t : /\ (Share!DividendOf(s, t))' = Share!DividendOf(s, t)
  BY DEF Share!DividendOf, Share!AverageBalance, Share!BalanceOn
<1> QED
  BY <1>1 DEF ShareStages, ShareIs, Share!Shared

\* The steps that write neither a share nor a payment: a draft is created, edited,
\* and looked at by an admin.
LEMMA DraftSteps ==
  ASSUME ShareInv,
         \/ \E t \in Periods : Share!CreateDeclaration(t)
         \/ \E t \in Periods, a \in {"admin"} : Share!StartEdit(a, t)
         \/ \E a \in {"admin"} : Share!SaveEdit(a) \/ Share!StartDelete(a)
  PROVE  ShareInv'
<1>0. ShareTypes
  BY DEF ShareInv
<1>1. ASSUME NEW t \in Periods, Share!CreateDeclaration(t) PROVE ShareInv'
  <2>1. declaration' = [status |-> "DRAFT", terms |-> t, total |-> 0]
        /\ UNCHANGED <<payout, moved, clerk, paid, blind>>
    BY <1>1 DEF Share!CreateDeclaration
  <2>2. declaration' \in Declarations /\ declaration'.status = "DRAFT"
    BY <2>1 DEF Declarations
  <2>3. ShareTypes'
    BY <1>0, <2>1, <2>2 DEF ShareTypes
  <2>4. declaration.status = "NONE"
    BY <1>1 DEF Share!CreateDeclaration, Share!NoDeclaration
  <2>5. ASSUME ShareStages PROVE ShareStages'
    <3>1. \A s \in Accounts : paid'[s] = NothingPaid
      BY <2>1, <2>4, <2>5 DEF ShareStages
    <3> QED BY <2>2, <3>1 DEF ShareStages
  <2> QED BY <2>1, <2>3, <2>5 DEF ShareInv
<1>2. ASSUME NEW t \in Periods, NEW a \in {"admin"}, Share!StartEdit(a, t) PROVE ShareInv'
  <2>1. /\ UNCHANGED <<declaration, payout, moved, paid, blind>>
        /\ declaration.status = "DRAFT"
        /\ clerk' = [clerk EXCEPT ![a] = [op |-> "edit", row |-> [declaration EXCEPT !.terms = t]]]
    BY <1>2 DEF Share!StartEdit
  <2>2. declaration \in Declarations
    BY <1>0, <2>1 DEF ShareTypes, Share!NoDeclaration
  <2>3. [declaration EXCEPT !.terms = t] \in DraftRows
    BY <2>1, <2>2 DEF Declarations, DraftRows
  <2>4. ShareTypes'
    BY <1>0, <2>1, <2>3 DEF ShareTypes
  <2>5. ASSUME ShareStages PROVE ShareStages'
    BY <2>1, <2>5, StagesStay
  <2> QED BY <2>1, <2>4, <2>5 DEF ShareInv
<1>3. ASSUME NEW a \in {"admin"}, Share!SaveEdit(a) PROVE ShareInv'
  <2>1. /\ UNCHANGED <<payout, moved, paid>> /\ clerk' = [clerk EXCEPT ![a] = Share!Idle]
        /\ declaration' = clerk[a].row /\ clerk[a].op = "edit"
    BY <1>3 DEF Share!SaveEdit
  <2>2. blind' \in BOOLEAN /\ (blind \/ declaration.status # "DRAFT" => blind')
    BY <1>3, Zenon DEF Share!SaveEdit
  <2>3. clerk[a].row \in DraftRows
    BY <1>0, <2>1 DEF ShareTypes, Share!Idle
  <2>4. declaration' \in Declarations /\ declaration'.status = "DRAFT"
    BY <2>1, <2>3 DEF Declarations, DraftRows
  <2>5. ShareTypes'
    BY <1>0, <2>1, <2>2, <2>4 DEF ShareTypes
  <2>6. ASSUME ShareStages, declaration.status = "DRAFT" PROVE ShareStages'
    <3>1. \A s \in Accounts : paid'[s] = NothingPaid
      BY <2>1, <2>6 DEF ShareStages
    <3> QED BY <2>4, <3>1 DEF ShareStages
  <2>7. blind' \/ ShareStages'
    BY <2>2, <2>6 DEF ShareInv
  <2> QED BY <2>5, <2>7 DEF ShareInv
<1>4. ASSUME NEW a \in {"admin"}, Share!StartDelete(a) PROVE ShareInv'
  <2>1. /\ UNCHANGED <<declaration, payout, moved, paid, blind>>
        /\ clerk' = [clerk EXCEPT ![a] = [op |-> "delete"]]
    BY <1>4 DEF Share!StartDelete
  <2>2. ShareTypes'
    BY <1>0, <2>1 DEF ShareTypes
  <2>3. ASSUME ShareStages PROVE ShareStages'
    BY <2>1, <2>3, StagesStay
  <2> QED BY <2>1, <2>2, <2>3 DEF ShareInv
<1> QED BY <1>1, <1>2, <1>3, <1>4

\* A deletion leaves nobody with a share; nobody was paid, or it crossed another step.
LEMMA DeleteStep ==
  ASSUME ShareInv, NEW a \in {"admin"}, Share!FinishDelete(a)
  PROVE  ShareInv'
<1>0. ShareTypes
  BY DEF ShareInv
<1>1. /\ UNCHANGED <<moved, paid>> /\ clerk' = [clerk EXCEPT ![a] = Share!Idle]
      /\ declaration' = Share!NoDeclaration /\ payout' = [s \in Accounts |-> Share!NoPayout]
  BY DEF Share!FinishDelete
<1>2. blind' \in BOOLEAN /\ (blind \/ declaration.status \notin {"DRAFT", "NONE"} => blind')
  BY Zenon DEF Share!FinishDelete
<1>3. ShareTypes'
  BY <1>0, <1>1, <1>2 DEF ShareTypes
<1>4. ASSUME ShareStages, declaration.status \in {"DRAFT", "NONE"} PROVE ShareStages'
  <2>1. \A s \in Accounts : paid'[s] = NothingPaid
    BY <1>1, <1>4 DEF ShareStages
  <2>2. declaration'.status = "NONE"
    BY <1>1 DEF Share!NoDeclaration
  <2> QED BY <2>1, <2>2 DEF ShareStages
<1>5. blind' \/ ShareStages'
  BY <1>2, <1>4 DEF ShareInv
<1> QED BY <1>3, <1>5 DEF ShareInv

\* A calculation gives its shares and their total, whatever was there before.
LEMMA CalculateStep ==
  ASSUME ShareInv, IsFiniteSet(Accounts), NEW eligible \in SUBSET Accounts,
         Share!Calculate(eligible)
  PROVE  ShareInv'
<1>0. ShareTypes
  BY DEF ShareInv
<1>1. declaration.status \in {"DRAFT", "CALCULATED"} /\ UNCHANGED <<moved, clerk, paid, blind>>
  BY DEF Share!Calculate, Share!Recalculable
<1>2. declaration \in Declarations
  BY <1>0, <1>1 DEF ShareTypes, Share!NoDeclaration
<1>3. PICK t \in Periods : t = declaration.terms
  BY <1>2 DEF Declarations
<1> DEFINE f == [s \in eligible |-> Share!DividendOf(s, t)]
           share(s) == [status |-> "PENDING", average |-> Share!AverageBalance(s, t),
                        amount |-> Share!DividendOf(s, t)]
<1>4. /\ payout' = [s \in Accounts |-> IF s \in eligible THEN share(s) ELSE Share!NoPayout]
      /\ declaration' = [declaration EXCEPT !.status = "CALCULATED", !.total = Share!SumFunction(f)]
  BY <1>3 DEF Share!Calculate
<1>5. \A s \in Accounts : Share!AverageBalance(s, t) \in Int /\ Share!DividendOf(s, t) \in Int
  BY <1>0, ShareIsInt DEF ShareTypes
<1>6. Share!SumFunction(f) \in Int
  <2>1. IsFiniteSet(eligible)
    BY FS_Subset
  <2>2. DOMAIN f = eligible /\ \A s \in eligible : f[s] \in Int
    BY <1>5
  <2> HIDE DEF f
  <2> QED BY <2>1, <2>2, SharesAddUp
<1>7. /\ declaration' \in Declarations
      /\ declaration'.status = "CALCULATED" /\ declaration'.terms = t
      /\ declaration'.total = Share!SumFunction(f)
  <2> HIDE DEF f
  <2> QED BY <1>2, <1>3, <1>4, <1>6 DEF Declarations
<1>8. payout' \in [Accounts -> ShareRows \cup {Share!NoPayout}]
  <2>1. \A s \in Accounts : share(s) \in ShareRows
    BY <1>5 DEF ShareRows
  <2> HIDE DEF share
  <2> QED BY <1>4, <2>1
<1>9. ShareTypes'
  BY <1>0, <1>1, <1>7, <1>8 DEF ShareTypes
<1>10. (Share!Shared)' = eligible
  <2>1. \A s \in Accounts : s \in eligible => payout'[s] = share(s) /\ share(s).status = "PENDING"
    BY <1>4
  <2>2. Share!NoPayout.status = "NONE"
    BY DEF Share!NoPayout
  <2>3. \A s \in Accounts : s \notin eligible => payout'[s] = Share!NoPayout
    BY <1>4
  <2>4. \A s \in Accounts : payout'[s] # Share!NoPayout <=> s \in eligible
    BY <2>1, <2>2, <2>3
  <2> QED BY <2>4 DEF Share!Shared, Share!NoPayout
<1>11. \A s : (Share!DividendOf(s, t))' = Share!DividendOf(s, t)
  BY <1>1 DEF Share!DividendOf, Share!AverageBalance, Share!BalanceOn
<1>12. ASSUME ShareStages PROVE ShareStages'
  <2>1. \A s \in Accounts : paid'[s] = NothingPaid
    BY <1>1, <1>12 DEF ShareStages
  <2>2. \A s \in eligible : payout'[s].status = "PENDING"
                           /\ payout'[s].amount = Share!DividendOf(s, t)
    BY <1>4
  <2>3. declaration'.total = Share!SumFunction([s \in (Share!Shared)' |-> Share!DividendOf(s, t)])
    BY <1>7, <1>10
  <2> QED BY <1>7, <1>10, <1>11, <2>1, <2>2, <2>3 DEF ShareStages, ShareIs
<1>13. blind' \/ ShareStages'
  BY <1>1, <1>12 DEF ShareInv
<1> QED BY <1>9, <1>13 DEF ShareInv

\* An approval changes no share.
LEMMA ApproveStep ==
  ASSUME ShareInv, Share!Approve
  PROVE  ShareInv'
<1>0. ShareTypes
  BY DEF ShareInv
<1>1. /\ declaration.status = "CALCULATED" /\ UNCHANGED <<payout, moved, clerk, paid, blind>>
      /\ declaration' = [declaration EXCEPT !.status = "APPROVED"]
  BY DEF Share!Approve
<1>2. declaration \in Declarations
  BY <1>0, <1>1 DEF ShareTypes, Share!NoDeclaration
<1>3. /\ declaration' \in Declarations /\ declaration'.status = "APPROVED"
      /\ declaration'.terms = declaration.terms /\ declaration'.total = declaration.total
  BY <1>1, <1>2 DEF Declarations
<1>4. ShareTypes'
  BY <1>0, <1>1, <1>3 DEF ShareTypes
<1>5. \A s, t : (Share!DividendOf(s, t))' = Share!DividendOf(s, t)
  <2>1. \A s, t : (Share!AverageBalance(s, t))' = Share!AverageBalance(s, t)
    BY <1>1 DEF Share!AverageBalance, Share!BalanceOn
  <2> QED BY <2>1 DEF Share!DividendOf
<1>6. \A s, t \in {declaration.terms} :
        Share!DividendOf(s, declaration'.terms) = Share!DividendOf(s, declaration.terms)
  BY <1>3
<1>7. (Share!Shared)' = Share!Shared
  BY <1>1 DEF Share!Shared
<1>8. ASSUME ShareStages PROVE ShareStages'
  <2>1. \A s \in Accounts : paid'[s] = NothingPaid
    BY <1>1, <1>8 DEF ShareStages
  <2>2. \A s \in Share!Shared : payout[s].status = "PENDING"
                               /\ payout[s].amount = Share!DividendOf(s, declaration.terms)
    BY <1>1, <1>8 DEF ShareStages, ShareIs
  <2>3. declaration.total = Share!SumFunction([s \in Share!Shared |->
                                                 Share!DividendOf(s, declaration.terms)])
    BY <1>1, <1>8 DEF ShareStages
  <2> QED BY <1>1, <1>3, <1>5, <1>7, <2>1, <2>2, <2>3 DEF ShareStages, ShareIs
<1>9. blind' \/ ShareStages'
  BY <1>1, <1>8 DEF ShareInv
<1> QED BY <1>4, <1>9 DEF ShareInv

\* The payment pays every share that waits, and so every share there is.
LEMMA DisburseStep ==
  ASSUME ShareInv, Share!Disburse
  PROVE  ShareInv'
<1>0. ShareTypes
  BY DEF ShareInv
<1> DEFINE waiting == Share!PendingPayouts
           pay(s) == [times |-> paid[s].times + 1, sum |-> paid[s].sum + payout[s].amount]
           given(s) == [payout[s] EXCEPT !.status = "PAID"]
<1>1. /\ declaration.status = "APPROVED" /\ UNCHANGED <<moved, clerk, blind>>
      /\ \A s \in waiting : paid[s].times < 2
      /\ declaration' = [declaration EXCEPT !.status = "DISBURSED"]
      /\ payout' = [s \in Accounts |-> IF s \in waiting THEN given(s) ELSE payout[s]]
      /\ paid' = [s \in Accounts |-> IF s \in waiting THEN pay(s) ELSE paid[s]]
  BY DEF Share!Disburse
<1>2. waiting \subseteq Accounts /\ \A s \in Accounts : s \in waiting <=> payout[s].status = "PENDING"
  BY DEF Share!PendingPayouts
<1>3. \A s \in waiting : payout[s] \in ShareRows
  BY <1>0, <1>2 DEF ShareTypes, Share!NoPayout
<1>4. declaration \in Declarations
  BY <1>0, <1>1 DEF ShareTypes, Share!NoDeclaration
<1>5. /\ declaration' \in Declarations /\ declaration'.status = "DISBURSED"
      /\ declaration'.terms = declaration.terms /\ declaration'.total = declaration.total
  BY <1>1, <1>4 DEF Declarations
<1>6. \A s \in Accounts : paid[s] \in [times : 0..2, sum : Int]
  BY <1>0 DEF ShareTypes
<1>7. \A s \in waiting : pay(s) \in [times : 0..2, sum : Int]
  <2> SUFFICES ASSUME NEW s \in waiting PROVE pay(s) \in [times : 0..2, sum : Int]
    OBVIOUS
  <2>1. paid[s].times + 1 \in 0..2 /\ paid[s].sum \in Int
    BY <1>1, <1>2, <1>6
  <2>2. payout[s].amount \in Int
    BY <1>3 DEF ShareRows
  <2>3. paid[s].sum + payout[s].amount \in Int
    BY <2>1, <2>2
  <2> QED BY <2>1, <2>3
<1>8. \A s \in waiting : given(s) \in ShareRows
  BY <1>3 DEF ShareRows
<1>9. ShareTypes'
  <2>1. paid' \in [Accounts -> [times : 0..2, sum : Int]]
    <3> HIDE DEF pay, waiting
    <3> QED BY <1>1, <1>6, <1>7
  <2>2. payout' \in [Accounts -> ShareRows \cup {Share!NoPayout}]
    <3>1. \A s \in Accounts : payout[s] \in ShareRows \cup {Share!NoPayout}
      BY <1>0 DEF ShareTypes
    <3> HIDE DEF given, waiting
    <3> QED BY <1>1, <1>8, <3>1
  <2> QED BY <1>0, <1>1, <1>5, <2>1, <2>2 DEF ShareTypes
<1>10. \A s, t : (Share!DividendOf(s, t))' = Share!DividendOf(s, t)
  <2>1. \A s, t : (Share!AverageBalance(s, t))' = Share!AverageBalance(s, t)
    BY <1>1 DEF Share!AverageBalance, Share!BalanceOn
  <2> QED BY <2>1 DEF Share!DividendOf
<1>11. (Share!Shared)' = Share!Shared
  <2>1. Share!NoPayout.status = "NONE"
    BY DEF Share!NoPayout
  <2>2. \A s \in waiting : given(s) # Share!NoPayout /\ payout[s] # Share!NoPayout
    BY <1>2, <1>3, <1>8, <2>1 DEF ShareRows
  <2>3. \A s \in Accounts : payout'[s] # Share!NoPayout <=> payout[s] # Share!NoPayout
    <3> HIDE DEF given, waiting
    <3> QED BY <1>1, <2>2
  <2> QED BY <2>3 DEF Share!Shared, Share!NoPayout
<1>12. ASSUME ShareStages PROVE ShareStages'
  <2>1. \A s \in Accounts : paid[s] = NothingPaid
    BY <1>1, <1>12 DEF ShareStages
  <2>2. \A s \in Share!Shared : /\ payout[s].status = "PENDING"
                                /\ payout[s].amount = Share!DividendOf(s, declaration.terms)
    BY <1>1, <1>12 DEF ShareStages, ShareIs
  <2>3. waiting = Share!Shared
    <3>1. \A s \in Accounts : s \in waiting => s \in Share!Shared
      BY <1>3 DEF Share!Shared, ShareRows, Share!NoPayout
    <3>2. Share!Shared \subseteq Accounts
      BY DEF Share!Shared
    <3> QED BY <1>2, <2>2, <3>1, <3>2
  <2>4. ASSUME NEW s \in Share!Shared
        PROVE  paid'[s] = [times |-> 1, sum |-> Share!DividendOf(s, declaration.terms)]
    <3>1. s \in Accounts /\ s \in waiting /\ paid'[s] = pay(s)
      BY <1>1, <1>2, <2>3
    <3>2. paid[s].times = 0 /\ paid[s].sum = 0
      BY <2>1, <3>1 DEF NothingPaid
    <3>3. payout[s].amount = Share!DividendOf(s, declaration.terms) /\ payout[s].amount \in Int
      BY <1>3, <2>2, <3>1 DEF ShareRows
    <3>4. paid[s].times + 1 = 1
          /\ paid[s].sum + payout[s].amount = Share!DividendOf(s, declaration.terms)
      BY <3>2, <3>3
    <3> QED BY <3>1, <3>4
  <2>5. ASSUME NEW s \in Accounts, s \notin Share!Shared PROVE paid'[s] = NothingPaid
    BY <1>1, <2>1, <2>3, <2>5
  <2>6. declaration.total = Share!SumFunction([s \in Share!Shared |->
                                                 Share!DividendOf(s, declaration.terms)])
    BY <1>1, <1>12 DEF ShareStages
  <2> QED BY <1>5, <1>10, <1>11, <2>4, <2>5, <2>6 DEF ShareStages
<1>13. blind' \/ ShareStages'
  BY <1>1, <1>12 DEF ShareInv
<1> QED BY <1>9, <1>13 DEF ShareInv

\* The part keeps its invariant, while others step as well.
LEMMA StepShare ==
  ASSUME ShareInv, IsFiniteSet(Accounts),
         [Next]_<<part, applications, instalments, reminders, campaigns, billing,
                  dividends, imports, monitors, notices, credit>>
  PROVE  ShareInv'
<1>1. CASE Share!DividendNext
  BY <1>1, DraftSteps, DeleteStep, CalculateStep, ApproveStep, DisburseStep
  DEF Share!DividendNext, Periods
<1>2. CASE UNCHANGED dividends
  <2>1. UNCHANGED <<declaration, payout, moved, paid, clerk, blind>>
    BY <1>2 DEF dividends
  <2>2. ShareTypes => ShareTypes'
    BY <2>1 DEF ShareTypes
  <2>3. ShareStages => ShareStages'
    BY <2>1, StagesStay
  <2> QED BY <2>1, <2>2, <2>3 DEF ShareInv
<1> QED BY <1>1, <1>2 DEF Next

\* A dividend is paid once and as declared, and the total is that of the shares.
THEOREM DividendsArePaidOnce ==
  ASSUME IsFiniteSet(Accounts)
  PROVE  Spec => []DividendsOnce
<1>1. Init => ShareInv
  BY InitShare DEF Init
<1>2. ShareInv => DividendsOnce
  BY SharesPaidOnce DEF DividendsOnce
<1>3. ShareInv /\ [Next]_<<part, applications, instalments, reminders, campaigns, billing,
                           dividends, imports, monitors, notices, credit>> => ShareInv'
  BY StepShare
<1> QED BY <1>1, <1>2, <1>3, PTL DEF Spec

-----------------------------------------------------------------------------
(* Import *)

\* What the one worker is doing, and the import jobs that wait for it.
Importing == importer["worker"]
JobOps == {"read", "commit", "result"}
JobTasks == {t \in queued : t.kind = "job"}

\* What the two jobs, the worker and the imported members hold.
ImportTypes ==
  /\ importer \in [{"worker"} ->
       [op : {"free"}] \cup [op : {"rows"}, todo : SUBSET People, good : Int, retries : Int]
       \cup [op : {"read"}, retries : Int]
       \cup [op : {"commit"}, retries : Int, seen : [People -> Nat]]
       \cup [op : {"result"}, retries : Int, failed : SUBSET People]]
  /\ queued \subseteq [kind : {"upload", "job"}, retries : Int]
  /\ upload \in [status : Import!JobStatuses, good : Int, bad : Int]
  /\ job \in [status : Import!JobStatuses, good : Int, bad : Int]
  /\ file \in [People -> Import!Rows]
  /\ standing \in [People -> Import!Standings]
  /\ saved \in [People -> Nat] /\ entered \in [People -> Nat] /\ deposits \in Nat
  /\ again \in BOOLEAN /\ outdated \in BOOLEAN

\* The job waits, is run, or has ended: one of them, and once.
OneJob ==
  /\ job.status \in {"NONE", "COMPLETED", "PARTIAL", "FAILED"}
       => JobTasks = {} /\ Importing.op \notin JobOps
  /\ Importing.op \in JobOps => JobTasks = {}
  /\ \A t, u \in JobTasks : t = u

\* Whose opening balance is not booked.
LeftOut == {p \in Import!Valid : entered[p] < file[p].amount}

\* What the committed rows booked is there when the result is saved, and stays.
ResultInv ==
  /\ Importing.op = "result" =>
       /\ Importing.failed \subseteq Import!Valid
       /\ 20 * Cardinality(Importing.failed) <= Cardinality(Import!Valid)
       /\ \A p \in Import!Opened(Importing.failed) : entered[p] >= 1
  /\ job.status \in {"COMPLETED", "PARTIAL"}
       => 20 * Cardinality(LeftOut) <= Cardinality(Import!Valid)

\* How much may be booked at each stage of a job that was committed at most once.
StageInv ==
  /\ job.status \in {"NONE", "PENDING", "PROCESSING"} /\ Importing.op # "result"
       => \A p \in People : entered[p] <= deposits
  /\ Importing.op = "result" =>
       \A p \in People : /\ entered[p] <= deposits + file[p].amount
                         /\ p \notin Import!Opened(Importing.failed) => entered[p] <= deposits
  /\ job.status \in {"COMPLETED", "PARTIAL", "FAILED"} =>
       \A p \in People : entered[p] <= deposits + file[p].amount
  /\ job.status = "FAILED" /\ ~Import!Unprintable => \A p \in People : entered[p] <= deposits

\* The balance of every account is what was booked into it.
Agree == \A p \in People : saved[p] = entered[p]

\* Of stages while no job was committed again, of balances while none was outdated.
ImportInv ==
  ImportTypes /\ OneJob /\ ResultInv /\ (again \/ StageInv) /\ (outdated \/ Agree)

\* At first nothing is queued or booked.
LEMMA InitImport == Import!ImportInit => ImportInv
<1> SUFFICES ASSUME Import!ImportInit PROVE ImportInv
  OBVIOUS
<1>0. /\ upload = Import!NoJob /\ job = Import!NoJob /\ queued = {}
      /\ importer = [h \in {"worker"} |-> Import!Free]
      /\ saved = [p \in People |-> 0] /\ entered = [p \in People |-> 0] /\ deposits = 0
  BY DEF Import!ImportInit
<1>1. job.status = "NONE" /\ Importing.op = "free" /\ JobTasks = {}
  BY <1>0 DEF Import!NoJob, Import!Free, Importing, JobTasks
<1>2. job \in [status : Import!JobStatuses, good : Int, bad : Int]
      /\ upload \in [status : Import!JobStatuses, good : Int, bad : Int]
  BY <1>0 DEF Import!NoJob, Import!JobStatuses
<1>3. file \in [People -> Import!Rows] /\ standing \in [People -> Import!Standings]
  BY DEF Import!ImportInit, Import!Standings
<1>4. again \in BOOLEAN /\ outdated \in BOOLEAN
  BY Zenon DEF Import!ImportInit
<1>5. importer["worker"] \in [op : {"free"}] /\ importer = [h \in {"worker"} |-> importer[h]]
  BY <1>0 DEF Import!Free
<1>6. ImportTypes
  BY <1>0, <1>2, <1>3, <1>4, <1>5 DEF ImportTypes
<1>7. OneJob /\ ResultInv
  BY <1>1 DEF OneJob, ResultInv, JobOps
<1>8. StageInv
  BY <1>0, <1>1 DEF StageInv
<1>9. Agree
  BY <1>0 DEF Agree
<1> QED BY <1>6, <1>7, <1>8, <1>9 DEF ImportInv

\* The sums of rows are those of the sets.
LEMMA ImportCounts == \A S : Import!Cardinality(S) = Cardinality(S)
BY DEF Import!Cardinality, Cardinality

\* The invariant is what the property says.
LEMMA ImportsAreRight ==
  ASSUME ImportInv
  PROVE  Import!ImportedOnce
<1>0. \A p \in People : file[p].amount \in Nat /\ entered[p] \in Nat /\ deposits \in Nat
  BY DEF ImportInv, ImportTypes, Import!Rows
<1>1. outdated \/ \A p \in People : saved[p] = entered[p]
  BY DEF ImportInv, Agree
<1>2. job.status \in Import!JobStatuses
  BY DEF ImportInv, ImportTypes
<1>3. ASSUME StageInv, NEW p \in People PROVE entered[p] <= deposits + file[p].amount
  <2>1. CASE job.status \in {"COMPLETED", "PARTIAL", "FAILED"}
    BY <1>3, <2>1 DEF StageInv
  <2>2. CASE Importing.op = "result"
    BY <1>3, <2>2 DEF StageInv
  <2>3. CASE job.status \in {"NONE", "PENDING", "PROCESSING"} /\ Importing.op # "result"
    <3>1. entered[p] <= deposits
      BY <1>3, <2>3 DEF StageInv
    <3> QED BY <1>0, <3>1
  <2> QED BY <1>2, <2>1, <2>2, <2>3 DEF Import!JobStatuses
<1>4. again \/ \A p \in People : entered[p] <= deposits + file[p].amount
  BY <1>3 DEF ImportInv
<1>5. job.status = "FAILED" /\ ~again /\ ~Import!Unprintable
        => \A p \in People : entered[p] <= deposits
  BY DEF ImportInv, StageInv
<1>6. job.status \in {"COMPLETED", "PARTIAL"} =>
        20 * Cardinality({p \in Import!Valid : entered[p] < file[p].amount}) <= Cardinality(Import!Valid)
  BY DEF ImportInv, ResultInv, LeftOut
<1> QED BY <1>1, <1>4, <1>5, <1>6, ImportCounts DEF Import!ImportedOnce

\* A step that neither books, ends nor takes up a job keeps the invariant.
LEMMA QuietImport ==
  ASSUME ImportInv, ImportTypes', UNCHANGED <<file, saved, entered, deposits, outdated>>,
         job'.status = job.status, UNCHANGED again, JobTasks' = JobTasks,
         importer' = importer \/ (Importing.op \notin JobOps /\ Importing'.op \notin JobOps)
  PROVE  ImportInv'
<1>1. (Import!Valid)' = Import!Valid /\ (Import!Unprintable)' = Import!Unprintable /\ LeftOut' = LeftOut
      /\ \A F : (Import!Opened(F))' = Import!Opened(F)
  BY DEF Import!Valid, Import!Unprintable, LeftOut, Import!Opened
<1>2. Importing' = Importing \/ (Importing.op \notin JobOps /\ Importing'.op \notin JobOps)
  BY DEF Importing
<1>3. OneJob'
  BY <1>2 DEF ImportInv, OneJob
<1>4. ResultInv'
  BY <1>1, <1>2 DEF ImportInv, ResultInv, JobOps
<1>5. StageInv => StageInv'
  BY <1>1, <1>2 DEF StageInv, JobOps
<1>6. Agree => Agree'
  BY DEF Agree
<1> QED BY <1>3, <1>4, <1>5, <1>6 DEF ImportInv

\* The types of what the one worker does.
ImportHands ==
  [op : {"free"}] \cup [op : {"rows"}, todo : SUBSET People, good : Int, retries : Int]
  \cup [op : {"read"}, retries : Int]
  \cup [op : {"commit"}, retries : Int, seen : [People -> Nat]]
  \cup [op : {"result"}, retries : Int, failed : SUBSET People]

\* What the worker holds at each of its steps.
LEMMA HandTypes ==
  ASSUME ImportTypes
  PROVE  /\ Importing \in ImportHands
         /\ Importing.op = "rows" => Importing.todo \subseteq People /\ Importing.good \in Int
                                     /\ Importing.retries \in Int
         /\ Importing.op \in JobOps => Importing.retries \in Int
         /\ Importing.op = "commit" => Importing.seen \in [People -> Nat]
         /\ Importing.op = "result" => Importing.failed \subseteq People
<1>1. Importing \in ImportHands
  BY DEF ImportTypes, Importing, ImportHands
<1> QED BY <1>1 DEF ImportHands, JobOps

\* A worker that turns to something of its type.
LEMMA TurnType ==
  ASSUME ImportTypes, NEW h \in {"worker"}, NEW r \in ImportHands, Import!Turn(h, r)
  PROVE  /\ importer' \in [{"worker"} -> ImportHands] /\ Importing' = r
BY DEF ImportTypes, Import!Turn, Importing, ImportHands

\* The upload, which books nothing.
LEMMA UploadSteps ==
  ASSUME ImportInv, IsFiniteSet(People),
         \/ \E sent \in BOOLEAN : Import!UploadFile(sent)
         \/ \E h \in {"worker"} :
              \/ \E t \in queued : Import!StartUpload(h, t)
              \/ Import!ImportMember(h) \/ Import!FinishUpload(h) \/ Import!UploadError(h)
  PROVE  ImportInv'
<1>0. ImportTypes
  BY DEF ImportInv
<1>f. Import!Free \in ImportHands /\ Import!Free.op = "free"
  BY DEF Import!Free, ImportHands
<1>s. \A s \in Import!JobStatuses : [upload EXCEPT !.status = s]
                                     \in [status : Import!JobStatuses, good : Int, bad : Int]
  BY <1>0 DEF ImportTypes
<1>q. \A t \in [kind : {"upload"}, retries : Int] :
        /\ queued \cup {t} \subseteq [kind : {"upload", "job"}, retries : Int]
        /\ {u \in queued \cup {t} : u.kind = "job"} = JobTasks
        /\ queued \ {t} \subseteq [kind : {"upload", "job"}, retries : Int]
        /\ {u \in queued \ {t} : u.kind = "job"} = JobTasks
  BY <1>0 DEF ImportTypes, JobTasks
<1>1. ASSUME NEW sent \in BOOLEAN, Import!UploadFile(sent) PROVE ImportInv'
  <2>1. /\ queued' \in {queued, queued \cup {[kind |-> "upload", retries |-> 0]}}
        /\ upload' = [Import!NoJob EXCEPT !.status = "PENDING"]
        /\ UNCHANGED <<job, file, importer, standing, saved, entered, deposits, again, outdated>>
    BY <1>1 DEF Import!UploadFile
  <2>2. upload' \in [status : Import!JobStatuses, good : Int, bad : Int]
    BY <2>1 DEF Import!NoJob, Import!JobStatuses
  <2>3. [kind |-> "upload", retries |-> 0] \in [kind : {"upload"}, retries : Int]
    OBVIOUS
  <2>4. queued' \subseteq [kind : {"upload", "job"}, retries : Int] /\ JobTasks' = JobTasks
    BY <1>0, <1>q, <2>1, <2>3 DEF JobTasks, ImportTypes
  <2>5. ImportTypes'
    BY <1>0, <2>1, <2>2, <2>4 DEF ImportTypes
  <2> QED BY <2>1, <2>4, <2>5, QuietImport
<1>2. ASSUME NEW h \in {"worker"}, NEW t \in queued, Import!StartUpload(h, t) PROVE ImportInv'
  <2>1. /\ importer[h] = Import!Free /\ t.kind = "upload" /\ queued' = queued \ {t}
        /\ upload' = [status |-> "PROCESSING", good |-> 0, bad |-> 0]
        /\ Import!Turn(h, [op |-> "rows", todo |-> People, good |-> 0, retries |-> t.retries])
        /\ UNCHANGED <<job, file, standing, saved, entered, deposits, again, outdated>>
    BY <1>2 DEF Import!StartUpload
  <2>2. t \in [kind : {"upload"}, retries : Int]
    BY <1>0, <2>1 DEF ImportTypes
  <2>3. queued' \subseteq [kind : {"upload", "job"}, retries : Int] /\ JobTasks' = JobTasks
    BY <1>q, <2>1, <2>2 DEF JobTasks
  <2>4. [op |-> "rows", todo |-> People, good |-> 0, retries |-> t.retries] \in ImportHands
    BY <2>2 DEF ImportHands
  <2>5. importer' \in [{"worker"} -> ImportHands] /\ Importing'.op = "rows"
    BY <1>0, <2>1, <2>4, TurnType
  <2>6. upload' \in [status : Import!JobStatuses, good : Int, bad : Int]
    BY <2>1 DEF Import!JobStatuses
  <2>7. ImportTypes'
    BY <1>0, <2>1, <2>3, <2>5, <2>6 DEF ImportTypes, ImportHands
  <2>8. Importing.op = "free"
    BY <1>f, <2>1 DEF Importing
  <2> QED BY <2>1, <2>3, <2>5, <2>7, <2>8, QuietImport DEF JobOps
<1>3. ASSUME NEW h \in {"worker"}, Import!ImportMember(h) PROVE ImportInv'
  <2> DEFINE p == Import!Fetch(Importing.todo)
             r == [Importing EXCEPT !.todo = @ \ {p},
                                    !.good = IF file[p].valid THEN @ + 1 ELSE @]
  <2>1. /\ Importing.op = "rows" /\ Importing.todo # {}
        /\ standing' = IF file[p].valid THEN [standing EXCEPT ![p] = "APPROVED"] ELSE standing
        /\ Import!Turn(h, r)
        /\ UNCHANGED <<upload, job, file, queued, saved, entered, deposits, again, outdated>>
    BY <1>3 DEF Import!ImportMember, Importing
  <2>2. p \in People
    BY <1>0, <2>1, HandTypes DEF Import!Fetch
  <2>3. Importing \in [op : {"rows"}, todo : SUBSET People, good : Int, retries : Int]
    BY <1>0, <2>1, HandTypes DEF ImportHands
  <2>4. r \in [op : {"rows"}, todo : SUBSET People, good : Int, retries : Int]
    <3> DEFINE g == IF file[p].valid THEN Importing.good + 1 ELSE Importing.good
               d == Importing.todo \ {p}
    <3>1. g \in Int /\ d \in SUBSET People
      BY <2>3
    <3>2. r = [Importing EXCEPT !.todo = d, !.good = g]
      OBVIOUS
    <3> HIDE DEF p, g, d, r
    <3> QED BY <2>3, <3>1, <3>2
  <2>5. r \in ImportHands /\ r.op = "rows"
    BY <2>4 DEF ImportHands
  <2>6. standing' \in [People -> Import!Standings]
    <3> HIDE DEF p
    <3> QED BY <1>0, <2>1, <2>2 DEF ImportTypes, Import!Standings
  <2> HIDE DEF p, r
  <2>7. importer' \in [{"worker"} -> ImportHands] /\ Importing'.op = "rows"
    BY <1>0, <2>1, <2>5, TurnType
  <2>8. ImportTypes' /\ JobTasks' = JobTasks
    BY <1>0, <2>1, <2>6, <2>7 DEF ImportTypes, ImportHands, JobTasks
  <2> QED BY <2>1, <2>7, <2>8, QuietImport DEF JobOps
<1>4. ASSUME NEW h \in {"worker"}, Import!FinishUpload(h) PROVE ImportInv'
  <2>1. /\ Importing.op = "rows" /\ Import!Turn(h, Import!Free)
        /\ upload' = [status |-> IF Importing.good = 0 THEN "FAILED" ELSE "COMPLETED",
                      good |-> Importing.good, bad |-> Cardinality(People) - Importing.good]
        /\ UNCHANGED <<job, file, queued, standing, saved, entered, deposits, again, outdated>>
    BY <1>4, ImportCounts DEF Import!FinishUpload, Importing
  <2>2. Importing.good \in Int /\ Cardinality(People) \in Int
    BY <1>0, <2>1, HandTypes, FS_CardinalityType
  <2>3. upload' \in [status : Import!JobStatuses, good : Int, bad : Int]
    BY <2>1, <2>2 DEF Import!JobStatuses
  <2>4. importer' \in [{"worker"} -> ImportHands] /\ Importing'.op = "free"
    BY <1>0, <1>f, <2>1, TurnType
  <2>5. ImportTypes' /\ JobTasks' = JobTasks
    BY <1>0, <2>1, <2>3, <2>4 DEF ImportTypes, ImportHands, JobTasks
  <2> QED BY <2>1, <2>4, <2>5, QuietImport DEF JobOps
<1>5. ASSUME NEW h \in {"worker"}, Import!UploadError(h) PROVE ImportInv'
  <2> DEFINE t == [kind |-> "upload", retries |-> Importing.retries + 1]
  <2>1. /\ Importing.op = "rows" /\ Import!Turn(h, Import!Free)
        /\ queued' \in {queued, queued \cup {t}}
        /\ upload' \in {upload, [upload EXCEPT !.status = "FAILED"]}
        /\ UNCHANGED <<job, file, standing, saved, entered, deposits, again, outdated>>
    BY <1>5 DEF Import!UploadError, Importing
  <2>2. t \in [kind : {"upload"}, retries : Int]
    BY <1>0, <2>1, HandTypes
  <2>3. queued' \subseteq [kind : {"upload", "job"}, retries : Int] /\ JobTasks' = JobTasks
    <3> HIDE DEF t
    <3> QED BY <1>0, <1>q, <2>1, <2>2 DEF JobTasks, ImportTypes
  <2>4. upload' \in [status : Import!JobStatuses, good : Int, bad : Int]
    BY <1>0, <1>s, <2>1 DEF ImportTypes, Import!JobStatuses
  <2>5. importer' \in [{"worker"} -> ImportHands] /\ Importing'.op = "free"
    BY <1>0, <1>f, <2>1, TurnType
  <2>6. ImportTypes'
    BY <1>0, <2>1, <2>3, <2>4, <2>5 DEF ImportTypes, ImportHands
  <2> QED BY <2>1, <2>3, <2>5, <2>6, QuietImport DEF JobOps
<1> QED BY <1>1, <1>2, <1>3, <1>4, <1>5

\* Queueing the job, its start, its reads, and what stops it before it is committed.
LEMMA BeforeCommit ==
  ASSUME ImportInv,
         \/ Import!QueueJob
         \/ \E h \in {"worker"} :
              \/ \E t \in queued, readable \in BOOLEAN : Import!StartJob(h, t, readable)
              \/ Import!ReadBalances(h)
              \/ \E failed \in SUBSET People : Import!AbortRows(h, failed)
  PROVE  ImportInv'
<1>0. ImportTypes
  BY DEF ImportInv
<1>f. Import!Free \in ImportHands /\ Import!Free.op = "free"
  BY DEF Import!Free, ImportHands
<1>b. ASSUME ImportTypes', UNCHANGED <<file, saved, entered, deposits, outdated, again>>,
             Importing.op # "result", Importing'.op # "result",
             job.status \in {"NONE", "PENDING", "PROCESSING"},
             job'.status \in {"PENDING", "PROCESSING", "FAILED"}, OneJob'
      PROVE  ImportInv'
  <2>1. ResultInv'
    BY <1>b DEF ResultInv
  <2>2. ASSUME StageInv PROVE StageInv'
    <3>1. \A p \in People : entered[p] <= deposits
      BY <1>b, <2>2 DEF StageInv
    <3>2. \A p \in People : entered[p] <= deposits + file[p].amount
      <4>1. \A p \in People : entered[p] \in Nat /\ deposits \in Nat /\ file[p].amount \in Nat
        BY <1>0 DEF ImportTypes, Import!Rows
      <4> QED BY <3>1, <4>1
    <3> QED BY <1>b, <3>1, <3>2 DEF StageInv
  <2>3. Agree => Agree'
    BY <1>b DEF Agree
  <2> QED BY <1>b, <2>1, <2>2, <2>3 DEF ImportInv
<1>1. ASSUME Import!QueueJob PROVE ImportInv'
  <2> DEFINE t == [kind |-> "job", retries |-> 0]
  <2>1. /\ job = Import!NoJob /\ job' = [Import!NoJob EXCEPT !.status = "PENDING"]
        /\ queued' = queued \cup {t}
        /\ UNCHANGED <<upload, file, importer, standing, saved, entered, deposits, again, outdated>>
    BY <1>1 DEF Import!QueueJob
  <2>2. job.status = "NONE" /\ job'.status = "PENDING"
        /\ job' \in [status : Import!JobStatuses, good : Int, bad : Int]
    BY <2>1 DEF Import!NoJob, Import!JobStatuses
  <2>3. JobTasks = {} /\ Importing.op \notin JobOps /\ Importing' = Importing
    BY <2>1, <2>2 DEF ImportInv, OneJob, Importing
  <2>4. t \in [kind : {"upload", "job"}, retries : Int] /\ t.kind = "job"
    OBVIOUS
  <2> HIDE DEF t
  <2>5. JobTasks' = {t} /\ queued' \subseteq [kind : {"upload", "job"}, retries : Int]
    BY <1>0, <2>1, <2>3, <2>4 DEF JobTasks, ImportTypes
  <2>6. OneJob'
    BY <2>2, <2>3, <2>5 DEF OneJob
  <2>7. ImportTypes'
    BY <1>0, <2>1, <2>2, <2>5 DEF ImportTypes
  <2> QED BY <1>b, <2>1, <2>2, <2>3, <2>6, <2>7 DEF JobOps
<1>2. ASSUME NEW h \in {"worker"}, NEW t \in queued, NEW readable \in BOOLEAN,
             Import!StartJob(h, t, readable)
      PROVE  ImportInv'
  <2> DEFINE r == IF readable THEN [op |-> "read", retries |-> t.retries] ELSE Import!Free
             s == IF readable THEN "PROCESSING" ELSE "FAILED"
  <2>1. /\ importer[h] = Import!Free /\ t.kind = "job" /\ queued' = queued \ {t}
        /\ job' = [job EXCEPT !.status = s] /\ Import!Turn(h, r)
        /\ UNCHANGED <<upload, file, standing, saved, entered, deposits, again, outdated>>
    BY <1>2 DEF Import!StartJob
  <2>2. t \in JobTasks /\ t.retries \in Int
    BY <1>0, <2>1 DEF JobTasks, ImportTypes
  <2>3. JobTasks' = {}
    BY <2>1, <2>2 DEF JobTasks, ImportInv, OneJob
  <2>4. r \in ImportHands /\ (r.op \in JobOps => readable) /\ r.op # "result"
    BY <1>f, <2>2 DEF ImportHands, JobOps
  <2>5. /\ job'.status = s /\ s \in {"PROCESSING", "FAILED"} /\ (readable => s = "PROCESSING")
        /\ job' \in [status : Import!JobStatuses, good : Int, bad : Int]
    BY <1>0, <2>1 DEF ImportTypes, Import!JobStatuses
  <2>6. job.status \in {"PENDING", "PROCESSING"}
    BY <1>0, <2>2 DEF ImportInv, OneJob, ImportTypes, Import!JobStatuses
  <2>7. Importing.op = "free"
    BY <1>f, <2>1 DEF Importing
  <2> HIDE DEF r, s
  <2>8. importer' \in [{"worker"} -> ImportHands] /\ Importing' = r
    BY <1>0, <2>1, <2>4, TurnType
  <2>9. ImportTypes'
    <3>1. queued' \subseteq [kind : {"upload", "job"}, retries : Int]
      BY <1>0, <2>1 DEF ImportTypes
    <3> QED BY <1>0, <2>1, <2>5, <2>8, <3>1 DEF ImportTypes, ImportHands
  <2>10. OneJob'
    BY <2>3, <2>4, <2>5, <2>8 DEF OneJob
  <2> QED BY <1>b, <2>1, <2>4, <2>5, <2>6, <2>7, <2>8, <2>9, <2>10
<1>3. ASSUME NEW h \in {"worker"}, Import!ReadBalances(h) PROVE ImportInv'
  <2> DEFINE r == [op |-> "commit", retries |-> Importing.retries, seen |-> saved]
  <2>1. /\ Importing.op = "read" /\ Import!Turn(h, r)
        /\ UNCHANGED <<upload, job, file, queued, standing, saved, entered, deposits, again, outdated>>
    BY <1>3 DEF Import!ReadBalances, Importing
  <2>2. r \in ImportHands /\ r.op = "commit"
    BY <1>0, <2>1, HandTypes DEF ImportHands, ImportTypes, JobOps
  <2>3. importer' \in [{"worker"} -> ImportHands] /\ Importing' = r
    BY <1>0, <2>1, <2>2, TurnType
  <2>4. ImportTypes'
    BY <1>0, <2>1, <2>3 DEF ImportTypes, ImportHands
  <2>5. JobTasks = {} /\ job.status \in {"PENDING", "PROCESSING"}
    BY <1>0, <2>1 DEF ImportInv, OneJob, JobOps, ImportTypes, Import!JobStatuses
  <2>6. OneJob' /\ job'.status = job.status
    BY <2>1, <2>2, <2>3, <2>5 DEF OneJob, JobTasks
  <2> QED BY <1>b, <2>1, <2>2, <2>3, <2>4, <2>5, <2>6
<1>4. ASSUME NEW h \in {"worker"}, NEW failed \in SUBSET People, Import!AbortRows(h, failed)
      PROVE  ImportInv'
  <2>1. /\ Importing.op = "commit" /\ Import!Turn(h, Import!Free)
        /\ job' = [job EXCEPT !.status = "FAILED"]
        /\ UNCHANGED <<upload, file, queued, standing, saved, entered, deposits, again, outdated>>
    BY <1>4 DEF Import!AbortRows, Importing
  <2>2. importer' \in [{"worker"} -> ImportHands] /\ Importing' = Import!Free
    BY <1>0, <1>f, <2>1, TurnType
  <2>3. job' \in [status : Import!JobStatuses, good : Int, bad : Int] /\ job'.status = "FAILED"
    BY <1>0, <2>1 DEF ImportTypes, Import!JobStatuses
  <2>4. ImportTypes'
    BY <1>0, <2>1, <2>2, <2>3 DEF ImportTypes, ImportHands
  <2>5. JobTasks = {} /\ job.status \in {"PENDING", "PROCESSING"}
    BY <1>0, <2>1 DEF ImportInv, OneJob, JobOps, ImportTypes, Import!JobStatuses
  <2>6. OneJob'
    BY <1>f, <2>1, <2>2, <2>5 DEF OneJob, JobTasks, JobOps
  <2> QED BY <1>b, <1>f, <2>1, <2>2, <2>3, <2>4, <2>5, <2>6
<1> QED BY <1>1, <1>2, <1>3, <1>4

\* A database error runs the job again, or has failed it; after the commit it is
\* remembered.
LEMMA ErrorStep ==
  ASSUME ImportInv, NEW h \in {"worker"}, Import!DatabaseError(h)
  PROVE  ImportInv'
<1>0. ImportTypes
  BY DEF ImportInv
<1>f. Import!Free \in ImportHands /\ Import!Free.op = "free"
  BY DEF Import!Free, ImportHands
<1> DEFINE t == [kind |-> "job", retries |-> Importing.retries + 1]
<1>1. /\ Importing.op \in JobOps /\ Import!Turn(h, Import!Free)
      /\ UNCHANGED <<upload, file, standing, saved, entered, deposits, outdated>>
      /\ \/ job' = job /\ queued' = queued \cup {t}
         \/ queued' = queued /\ job' = [job EXCEPT !.status = "FAILED"]
  BY DEF Import!DatabaseError, Importing, JobOps
<1>2. again' \in BOOLEAN /\ (again \/ Importing.op = "result" => again')
  BY Zenon DEF Import!DatabaseError, Importing
<1>3. JobTasks = {} /\ job.status \in {"PENDING", "PROCESSING"}
  BY <1>0, <1>1 DEF ImportInv, OneJob, JobOps, ImportTypes, Import!JobStatuses
<1>4. importer' \in [{"worker"} -> ImportHands] /\ Importing'.op = "free"
  BY <1>0, <1>f, <1>1, TurnType
<1>5. t \in [kind : {"upload", "job"}, retries : Int] /\ t.kind = "job"
  BY <1>0, <1>1, HandTypes
<1> HIDE DEF t
<1>6. /\ job' \in [status : Import!JobStatuses, good : Int, bad : Int]
      /\ \/ job' = job /\ JobTasks' = {t}
         \/ job'.status = "FAILED" /\ JobTasks' = {}
      /\ queued' \subseteq [kind : {"upload", "job"}, retries : Int]
  BY <1>0, <1>1, <1>3, <1>5 DEF ImportTypes, Import!JobStatuses, JobTasks
<1>7. ImportTypes'
  BY <1>0, <1>1, <1>2, <1>4, <1>6 DEF ImportTypes, ImportHands
<1>8. OneJob'
  BY <1>3, <1>4, <1>6 DEF OneJob, JobOps
<1>9. ResultInv'
  BY <1>3, <1>4, <1>6 DEF ResultInv
<1>10. ASSUME StageInv, Importing.op # "result" PROVE StageInv'
  <2>1. \A p \in People : entered[p] <= deposits
    BY <1>3, <1>10 DEF StageInv
  <2>2. \A p \in People : entered[p] <= deposits + file[p].amount
    <3>1. \A p \in People : entered[p] \in Nat /\ deposits \in Nat /\ file[p].amount \in Nat
      BY <1>0 DEF ImportTypes, Import!Rows
    <3> QED BY <2>1, <3>1
  <2> QED BY <1>1, <1>4, <2>1, <2>2 DEF StageInv
<1>11. again' \/ StageInv'
  BY <1>2, <1>10 DEF ImportInv
<1>12. outdated' \/ Agree'
  BY <1>1 DEF ImportInv, Agree
<1> QED BY <1>7, <1>8, <1>9, <1>11, <1>12 DEF ImportInv

\* Fewer rows are left out when more is booked.
LEMMA LeftOutShrinks ==
  ASSUME IsFiniteSet(People), ImportTypes, NEW S, LeftOut' \subseteq S, S \subseteq People,
         20 * Cardinality(S) <= Cardinality(Import!Valid), UNCHANGED file
  PROVE  20 * Cardinality(LeftOut') <= Cardinality((Import!Valid)')
<1>1. IsFiniteSet(S)
  BY FS_Subset
<1>2. IsFiniteSet(LeftOut') /\ Cardinality(LeftOut') <= Cardinality(S)
  BY <1>1, FS_Subset
<1>3. Cardinality(S) \in Nat /\ Cardinality(LeftOut') \in Nat
  BY <1>1, <1>2, FS_CardinalityType
<1>4. (Import!Valid)' = Import!Valid
  BY DEF Import!Valid
<1>5. IsFiniteSet(Import!Valid) /\ Cardinality(Import!Valid) \in Nat
  <2>1. Import!Valid \subseteq People
    BY DEF Import!Valid
  <2> QED BY <2>1, FS_Subset, FS_CardinalityType
<1> DEFINE a == Cardinality(LeftOut')
           b == Cardinality(S)
           c == Cardinality(Import!Valid)
<1>6. a \in Nat /\ b \in Nat /\ c \in Nat /\ a <= b /\ 20 * b <= c
  BY <1>2, <1>3, <1>5
<1> HIDE DEF a, b, c
<1>7. 20 * a <= c
  BY <1>6
<1> QED BY <1>4, <1>7 DEF a, c

\* A deposit is booked with the balance.
LEMMA DepositStep ==
  ASSUME ImportInv, IsFiniteSet(People), NEW p \in People, Import!Deposit(p)
  PROVE  ImportInv'
<1>0. ImportTypes
  BY DEF ImportInv
<1>1. /\ deposits' = deposits + 1
      /\ saved' = [saved EXCEPT ![p] = @ + 1] /\ entered' = [entered EXCEPT ![p] = @ + 1]
      /\ UNCHANGED <<upload, job, file, queued, importer, standing, again, outdated>>
  BY DEF Import!Deposit
<1>2. /\ \A q \in People : entered[q] \in Nat /\ saved[q] \in Nat /\ file[q].amount \in Nat
      /\ deposits \in Nat
  BY <1>0 DEF ImportTypes, Import!Rows
<1>3. ImportTypes'
  BY <1>0, <1>1 DEF ImportTypes
<1>4. \A q \in People : /\ entered'[q] = IF q = p THEN entered[q] + 1 ELSE entered[q]
                        /\ saved'[q] = IF q = p THEN saved[q] + 1 ELSE saved[q]
  BY <1>0, <1>1 DEF ImportTypes
<1>5. OneJob' /\ Importing' = Importing
  BY <1>1 DEF ImportInv, OneJob, JobTasks, Importing
<1>6. /\ (Import!Valid)' = Import!Valid /\ (Import!Unprintable)' = Import!Unprintable
      /\ \A F : (Import!Opened(F))' = Import!Opened(F)
  BY <1>1 DEF Import!Valid, Import!Unprintable, Import!Opened
<1>7. ResultInv'
  <2>1. LeftOut' \subseteq LeftOut /\ LeftOut \subseteq People /\ Import!Valid \subseteq People
    BY <1>1, <1>2, <1>4, <1>6 DEF LeftOut, Import!Valid
  <2>2. job'.status \in {"COMPLETED", "PARTIAL"}
          => 20 * Cardinality(LeftOut') <= Cardinality((Import!Valid)')
    BY <1>0, <1>1, <2>1, LeftOutShrinks DEF ImportInv, ResultInv
  <2>3. \A F : \A q \in Import!Opened(F) : entered[q] >= 1 => entered'[q] >= 1
    BY <1>2, <1>4, <2>1 DEF Import!Opened
  <2> QED BY <1>5, <1>6, <2>2, <2>3 DEF ImportInv, ResultInv
<1>8. ASSUME StageInv PROVE StageInv'
  <2>1. \A q \in People : /\ entered[q] <= deposits => entered'[q] <= deposits'
                          /\ entered[q] <= deposits + file[q].amount
                               => entered'[q] <= deposits' + file'[q].amount
    BY <1>1, <1>2, <1>4
  <2> QED BY <1>1, <1>5, <1>6, <1>8, <2>1 DEF StageInv
<1>9. Agree => Agree'
  BY <1>2, <1>4 DEF Agree
<1>10. again' = again /\ outdated' = outdated
  BY <1>1
<1>11. again' \/ StageInv'
  BY <1>8, <1>10 DEF ImportInv
<1>12. outdated' \/ Agree'
  BY <1>9, <1>10 DEF ImportInv
<1> QED BY <1>3, <1>5, <1>7, <1>11, <1>12 DEF ImportInv

\* The rows are committed: what is opened is booked once and saved on what was read.
LEMMA CommitRowsStep ==
  ASSUME ImportInv, IsFiniteSet(People), NEW h \in {"worker"}, NEW failed \in SUBSET People,
         Import!CommitRows(h, failed)
  PROVE  ImportInv'
<1>0. ImportTypes
  BY DEF ImportInv
<1> DEFINE r == [op |-> "result", retries |-> Importing.retries, failed |-> failed]
           O == Import!Opened(failed)
<1>1. /\ Importing.op = "commit" /\ failed \subseteq Import!Valid /\ ~Import!TooMany(failed)
      /\ standing' = [p \in People |-> IF p \in Import!Valid \ failed THEN "APPROVED" ELSE standing[p]]
      /\ saved' = [p \in People |-> IF p \in O THEN Importing.seen[p] + 1 ELSE saved[p]]
      /\ entered' = [p \in People |-> IF p \in O THEN entered[p] + 1 ELSE entered[p]]
      /\ Import!Turn(h, r)
      /\ UNCHANGED <<upload, job, file, queued, deposits, again>>
  BY DEF Import!CommitRows, Importing
<1>2. outdated' \in BOOLEAN /\ (outdated \/ (\E p \in O : Importing.seen[p] # saved[p]) => outdated')
  BY Zenon DEF Import!CommitRows, Importing
<1>3. /\ \A q \in People : entered[q] \in Nat /\ saved[q] \in Nat /\ file[q].amount \in 0..1
      /\ deposits \in Nat /\ Importing.seen \in [People -> Nat]
  BY <1>0, <1>1, HandTypes DEF ImportTypes, Import!Rows
<1>4. r \in ImportHands /\ r.op = "result" /\ r.failed = failed
  BY <1>0, <1>1, HandTypes DEF ImportHands, JobOps
<1>5. importer' \in [{"worker"} -> ImportHands] /\ Importing' = r
  BY <1>0, <1>1, <1>4, TurnType
<1>6. O \subseteq Import!Valid /\ O \cap failed = {} /\ Import!Valid \subseteq People
      /\ \A p \in O : file[p].amount = 1
  BY <1>3 DEF Import!Opened, Import!Valid
<1>7. ImportTypes'
  <2>1. standing' \in [People -> Import!Standings]
    BY <1>0, <1>1 DEF ImportTypes, Import!Standings
  <2>2. saved' \in [People -> Nat] /\ entered' \in [People -> Nat]
    <3> HIDE DEF O
    <3> QED BY <1>1, <1>3, <1>6
  <2> QED BY <1>0, <1>1, <1>2, <1>5, <2>1, <2>2 DEF ImportTypes, ImportHands
<1>8. JobTasks = {} /\ job.status \in {"PENDING", "PROCESSING"}
  BY <1>0, <1>1 DEF ImportInv, OneJob, JobOps, ImportTypes, Import!JobStatuses
<1>9. OneJob'
  BY <1>1, <1>4, <1>5, <1>8 DEF OneJob, JobTasks
<1>10. (Import!Valid)' = Import!Valid /\ (Import!Opened(failed))' = O
       /\ (Import!Unprintable)' = Import!Unprintable
  BY <1>1 DEF Import!Valid, Import!Opened, Import!Unprintable
<1> HIDE DEF O, r
<1>11. ResultInv'
  <2>1. \A p \in O : entered'[p] >= 1
    BY <1>1, <1>3, <1>6
  <2>2. 20 * Cardinality(failed) <= Cardinality(Import!Valid)
    <3>1. ~(20 * Cardinality(failed) > Cardinality(Import!Valid))
      BY <1>1, ImportCounts DEF Import!TooMany
    <3>2. Cardinality(failed) \in Nat /\ Cardinality(Import!Valid) \in Nat
      BY <1>6, FS_Subset, FS_CardinalityType
    <3>3. \A a, b \in Nat : ~(20 * a > b) => 20 * a <= b
      OBVIOUS
    <3> QED BY <3>1, <3>2, <3>3
  <2> QED BY <1>1, <1>4, <1>5, <1>8, <1>10, <2>1, <2>2 DEF ResultInv
<1>12. ASSUME StageInv PROVE StageInv'
  <2>1. \A p \in People : entered[p] <= deposits
    BY <1>1, <1>8, <1>12 DEF StageInv
  <2>2. \A p \in People : /\ entered'[p] <= deposits + file[p].amount
                          /\ p \notin O => entered'[p] <= deposits
    BY <1>1, <1>3, <1>6, <2>1
  <2> QED BY <1>1, <1>4, <1>5, <1>8, <1>10, <2>2 DEF StageInv
<1>13. ASSUME Agree, \A p \in O : Importing.seen[p] = saved[p] PROVE Agree'
  BY <1>1, <1>13 DEF Agree
<1>14. again' \/ StageInv'
  BY <1>1, <1>12 DEF ImportInv
<1>15. outdated' \/ Agree'
  BY <1>2, <1>13 DEF ImportInv
<1> QED BY <1>7, <1>9, <1>11, <1>14, <1>15 DEF ImportInv

\* The result: a job whose rows all failed had none, and opened no balance.
LEMMA SaveStep ==
  ASSUME ImportInv, IsFiniteSet(People), NEW h \in {"worker"}, Import!SaveResult(h)
  PROVE  ImportInv'
<1>0. ImportTypes
  BY DEF ImportInv
<1>f. Import!Free \in ImportHands /\ Import!Free.op = "free"
  BY DEF Import!Free, ImportHands
<1> DEFINE failed == Importing.failed
           kept == Import!Valid \ failed
           good == Cardinality(kept)
           bad == Cardinality(People) - good
<1>1. /\ Importing.op = "result" /\ Import!Turn(h, Import!Free)
      /\ job' = IF Import!Unprintable THEN [job EXCEPT !.status = "FAILED"]
                ELSE [status |-> IF bad = 0 THEN "COMPLETED"
                                 ELSE IF good = 0 THEN "FAILED" ELSE "PARTIAL",
                      good |-> good, bad |-> bad]
      /\ UNCHANGED <<upload, file, queued, standing, saved, entered, deposits, again, outdated>>
  BY ImportCounts DEF Import!SaveResult, Importing
<1>2. Import!Valid \subseteq People /\ failed \subseteq Import!Valid /\ failed \subseteq People
  BY <1>1 DEF Import!Valid, ImportInv, ResultInv
<1>3. IsFiniteSet(kept) /\ good \in Nat /\ Cardinality(People) \in Nat /\ (good = 0 => kept = {})
  <2>1. kept \subseteq People
    BY <1>2
  <2>2. IsFiniteSet(kept)
    BY <2>1, FS_Subset
  <2> QED BY <2>2, FS_CardinalityType, FS_EmptySet
<1>4. /\ job'.status \in {"COMPLETED", "FAILED", "PARTIAL"}
      /\ job' \in [status : Import!JobStatuses, good : Int, bad : Int]
      /\ job'.status = "FAILED" /\ ~Import!Unprintable => good = 0
  <2>1. bad \in Int /\ good \in Int
    BY <1>3
  <2> HIDE DEF good, bad
  <2> QED BY <1>0, <1>1, <2>1 DEF ImportTypes, Import!JobStatuses
<1>5. importer' \in [{"worker"} -> ImportHands] /\ Importing'.op = "free"
  BY <1>0, <1>f, <1>1, TurnType
<1>6. ImportTypes'
  BY <1>0, <1>1, <1>4, <1>5 DEF ImportTypes, ImportHands
<1>7. OneJob'
  BY <1>1, <1>4, <1>5 DEF ImportInv, OneJob, JobOps, JobTasks
<1>8. /\ (Import!Valid)' = Import!Valid /\ (Import!Unprintable)' = Import!Unprintable
      /\ LeftOut' = LeftOut
  BY <1>1 DEF Import!Valid, Import!Unprintable, LeftOut
<1>9. ResultInv'
  <2>1. LeftOut \subseteq failed
    <3> SUFFICES ASSUME NEW p \in LeftOut, p \notin failed PROVE FALSE
      OBVIOUS
    <3>1. /\ p \in People /\ p \in Import!Valid /\ entered[p] < file[p].amount
          /\ file[p].amount \in 0..1 /\ entered[p] \in Nat
      BY <1>0, <1>2 DEF LeftOut, ImportTypes, Import!Rows
    <3>2. p \in Import!Opened(failed)
      BY <3>1 DEF Import!Opened
    <3>3. entered[p] >= 1
      BY <1>1, <3>2 DEF ImportInv, ResultInv
    <3> QED BY <3>1, <3>3
  <2>2. 20 * Cardinality(failed) <= Cardinality(Import!Valid)
    BY <1>1 DEF ImportInv, ResultInv
  <2>3. 20 * Cardinality(LeftOut') <= Cardinality((Import!Valid)')
    <3>1. LeftOut' \subseteq failed
      BY <1>8, <2>1
    <3> HIDE DEF failed
    <3> QED BY <1>0, <1>1, <1>2, <2>2, <3>1, LeftOutShrinks
  <2> QED BY <1>5, <2>3 DEF ResultInv
<1>10. ASSUME StageInv PROVE StageInv'
  <2>1. \A p \in People : entered[p] <= deposits + file[p].amount
    BY <1>1, <1>10 DEF StageInv
  <2>2. ASSUME good = 0, NEW p \in People PROVE entered[p] <= deposits
    <3>1. p \notin Import!Opened(failed)
      BY <1>3, <2>2 DEF Import!Opened
    <3> QED BY <1>1, <1>10, <3>1 DEF StageInv
  <2> QED BY <1>1, <1>4, <1>5, <1>8, <2>1, <2>2 DEF StageInv
<1>11. Agree => Agree'
  BY <1>1 DEF Agree
<1>12. again' \/ StageInv'
  BY <1>1, <1>10 DEF ImportInv
<1>13. outdated' \/ Agree'
  BY <1>1, <1>11 DEF ImportInv
<1> QED BY <1>6, <1>7, <1>9, <1>12, <1>13 DEF ImportInv

\* The part keeps its invariant, while others step as well.
LEMMA StepImport ==
  ASSUME ImportInv, IsFiniteSet(People),
         [Next]_<<part, applications, instalments, reminders, campaigns, billing,
                  dividends, imports, monitors, notices, credit>>
  PROVE  ImportInv'
<1>1. CASE Import!ImportNext
  BY <1>1, UploadSteps, BeforeCommit, ErrorStep, DepositStep, CommitRowsStep, SaveStep
  DEF Import!ImportNext
<1>2. CASE UNCHANGED imports
  <2>1. /\ UNCHANGED <<upload, job, file, queued, importer, standing, saved, entered, deposits>>
        /\ UNCHANGED <<again, outdated>>
    BY <1>2 DEF imports
  <2>2. ImportTypes' /\ JobTasks' = JobTasks
    BY <2>1 DEF ImportInv, ImportTypes, JobTasks
  <2> QED BY <2>1, <2>2, QuietImport
<1> QED BY <1>1, <1>2 DEF Next

\* An opening balance is credited once and agrees with the ledger, a job that failed
\* imported nothing, and one that ended well left out at most one row in twenty.
THEOREM BalancesAreImportedOnce ==
  ASSUME IsFiniteSet(People)
  PROVE  Spec => []ImportedOnce
<1>1. Init => ImportInv
  BY InitImport DEF Init
<1>2. ImportInv => ImportedOnce
  BY ImportsAreRight DEF ImportedOnce
<1>3. ImportInv /\ [Next]_<<part, applications, instalments, reminders, campaigns, billing,
                            dividends, imports, monitors, notices, credit>> => ImportInv'
  BY StepImport
<1> QED BY <1>1, <1>2, <1>3, PTL DEF Spec

-----------------------------------------------------------------------------
(* Instalments *)

\* The sums of the part are those of SumProofs.
LEMMA InstalmentSums == \A f : Instal!SumFunction(f) = SumFunctionOnSet(f, DOMAIN f)
<1>1. \A f, S : Instal!SumFunctionOnSet(f, S) = SumFunctionOnSet(f, S)
  BY DEF Instal!SumFunctionOnSet, SumFunctionOnSet, Instal!FoldFunctionOnSet, FoldFunctionOnSet,
         Instal!MapThenFoldSet, MapThenFoldSet
<1> QED BY <1>1 DEF Instal!SumFunction

\* A payment leaves an instalment what it is, but for what is paid of it.
SameRow(r, s) ==
  /\ r.number = s.number /\ r.due = s.due /\ r.principal = s.principal
  /\ r.interest = s.interest /\ r.amount = s.amount /\ r.after = s.after

\* What is paid of every instalment.
Paids(table) == [k \in DOMAIN table |-> table[k].paid]

\* The rows that an allocation has seen to, and the money it has left.
Allocations == [rows : Seq(Instal!InstalmentRows), left : Nat]

\* An instalment takes what the money has less of afterwards, and never more than is due.
LEMMA AllocationTurn ==
  ASSUME NEW row \in Instal!InstalmentRows, row.paid <= row.amount,
         NEW from, NEW prev \in Allocations
  PROVE  \E new \in Instal!InstalmentRows, taken \in Nat :
           /\ Instal!AllocatedTo(row, from, prev)
              = [rows |-> Append(prev.rows, new), left |-> prev.left - taken]
           /\ taken <= prev.left /\ SameRow(new, row)
           /\ new.paid = row.paid + taken /\ new.paid <= new.amount
<1>1. row.paid \in Nat /\ row.amount \in Nat /\ prev.left \in Nat
  BY DEF Instal!InstalmentRows, Allocations
<1>2. CASE ~Instal!Takes(row, from, prev.left)
  <2>1. prev.left - 0 = prev.left /\ row.paid + 0 = row.paid /\ 0 <= prev.left /\ 0 \in Nat
    BY <1>1
  <2>2. Instal!AllocatedTo(row, from, prev) = [rows |-> Append(prev.rows, row), left |-> prev.left - 0]
    BY <1>2, <2>1 DEF Instal!AllocatedTo
  <2>3. SameRow(row, row)
    BY DEF SameRow
  <2> QED BY <2>1, <2>2, <2>3, Zenon
<1>3. CASE Instal!Takes(row, from, prev.left)
  <2> DEFINE due == row.amount - row.paid
             taken == IF prev.left < due THEN prev.left ELSE due
             st == IF row.paid + taken < row.amount THEN "PARTIAL" ELSE "PAID"
             new == [row EXCEPT !.paid = @ + taken, !.status = st]
  <2>1. due \in Nat /\ Instal!Due(row) = due
    BY <1>1 DEF Instal!Due, Instal!LargerOf
  <2>2. taken \in Nat /\ taken <= prev.left /\ taken <= due
        /\ Instal!SmallerOf(prev.left, Instal!Due(row)) = taken
    BY <1>1, <2>1 DEF Instal!SmallerOf
  <2> HIDE DEF taken
  <2>3. st \in Instal!InstalmentStatuses
    BY DEF Instal!InstalmentStatuses
  <2>4. Instal!PayInto(row, prev.left) = new
    BY <2>2 DEF Instal!PayInto
  <2> HIDE DEF st
  <2>5. new \in Instal!InstalmentRows /\ SameRow(new, row) /\ new.paid = row.paid + taken
    <3> DEFINE p == row.paid + taken
    <3>1. p \in Nat /\ new = [row EXCEPT !.paid = p, !.status = st]
      BY <1>1, <2>2
    <3> HIDE DEF p, new
    <3>2. new \in Instal!InstalmentRows /\ SameRow(new, row) /\ new.paid = p
      BY <2>3, <3>1 DEF Instal!InstalmentRows, SameRow
    <3> QED BY <3>2 DEF p
  <2>6. new.paid <= new.amount
    BY <1>1, <2>2, <2>5 DEF SameRow
  <2>7. Instal!AllocatedTo(row, from, prev)
        = [rows |-> Append(prev.rows, new), left |-> prev.left - taken]
    BY <1>3, <2>2, <2>4 DEF Instal!AllocatedTo
  <2> HIDE DEF new
  <2> QED BY <2>2, <2>5, <2>6, <2>7
<1> QED BY <1>2, <1>3

\* A run over the table: the recursion that Allocated is the last value of.
IsRun(g, table, from, cash) ==
  g = [k \in 0..Len(table) |-> IF k = 0 THEN [rows |-> <<>>, left |-> cash]
                               ELSE Instal!AllocatedTo(table[k], from, g[k - 1])]

\* The run exists.
LEMMA RunExists ==
  ASSUME NEW table \in Seq(Instal!InstalmentRows), NEW from, NEW cash \in Nat,
         \A k \in DOMAIN table : table[k].paid <= table[k].amount
  PROVE  \E g : IsRun(g, table, from, cash) /\ Instal!Allocated(table, from, cash) = g[Len(table)]
<1> DEFINE n == Len(table)
           s == [rows |-> <<>>, left |-> cash]
           F == [k \in 1..n |-> [v \in Allocations |-> Instal!AllocatedTo(table[k], from, v)]]
<1>1. n \in Nat /\ s \in Allocations
  BY DEF Allocations
<1>2. ASSUME NEW k \in 1..n, NEW v \in Allocations
      PROVE  F[k][v] = Instal!AllocatedTo(table[k], from, v) /\ F[k][v] \in Allocations
  <2>1. F[k][v] = Instal!AllocatedTo(table[k], from, v)
    OBVIOUS
  <2>2. table[k] \in Instal!InstalmentRows /\ table[k].paid <= table[k].amount
    OBVIOUS
  <2>3. PICK new \in Instal!InstalmentRows, taken \in Nat :
          /\ Instal!AllocatedTo(table[k], from, v)
             = [rows |-> Append(v.rows, new), left |-> v.left - taken]
          /\ taken <= v.left
    BY <2>2, AllocationTurn
  <2>4. v.rows \in Seq(Instal!InstalmentRows) /\ v.left \in Nat
    BY DEF Allocations
  <2>5. Append(v.rows, new) \in Seq(Instal!InstalmentRows) /\ v.left - taken \in Nat
    BY <2>3, <2>4
  <2> HIDE DEF F
  <2> QED BY <2>1, <2>3, <2>5 DEF Allocations
<1> HIDE DEF n, s, F
<1>3. PICK g : IsRecursion(g, n, Allocations, s, F)
  <2>1. F \in [1..n -> [Allocations -> Allocations]]
    <3>1. \A k \in 1..n : F[k] = [v \in Allocations |-> F[k][v]]
      BY DEF F
    <3>2. \A k \in 1..n : F[k] \in [Allocations -> Allocations]
      BY <1>2, <3>1
    <3>3. F = [k \in 1..n |-> F[k]]
      BY DEF F
    <3> QED BY <3>2, <3>3
  <2> QED BY <1>1, <2>1, RecursionExists
<1>4. \A k \in 1..n : g[k] = Instal!AllocatedTo(table[k], from, g[k - 1])
  <2>1. \A k \in 1..n : k - 1 \in 0..n
    BY <1>1
  <2> QED BY <1>2, <1>3, <2>1 DEF IsRecursion
<1>5. g = [k \in 0..n |-> IF k = 0 THEN s ELSE Instal!AllocatedTo(table[k], from, g[k - 1])]
  <2>1. \A k \in 0..n : k = 0 \/ k \in 1..n
    BY <1>1
  <2> QED BY <1>3, <1>4, <2>1 DEF IsRecursion
<1>6. IsRun(g, table, from, cash)
  BY <1>5 DEF IsRun, n, s
<1>7. Instal!Allocated(table, from, cash)
      = (CHOOSE h : IsRun(h, table, from, cash))[Len(table)]
  BY DEF Instal!Allocated, IsRun
<1>8. IsRun(CHOOSE h : IsRun(h, table, from, cash), table, from, cash)
  BY <1>6
<1> QED BY <1>7, <1>8

\* What a run has seen to, up to a row: the same rows, with what the money came down by.
Seen(g, table, cash, k) ==
  /\ g[k] \in Allocations /\ Len(g[k].rows) = k /\ g[k].left <= cash
  /\ \A j \in 1..k : SameRow(g[k].rows[j], table[j]) /\ g[k].rows[j].paid <= g[k].rows[j].amount
  /\ SumFunctionOnSet(Paids(g[k].rows), 1..k)
     = SumFunctionOnSet(Paids(table), 1..k) + (cash - g[k].left)

\* One row more.
LEMMA SeenOneMore ==
  ASSUME NEW table \in Seq(Instal!InstalmentRows), NEW from, NEW cash \in Nat, NEW g,
         \A j \in DOMAIN table : table[j].paid <= table[j].amount,
         IsRun(g, table, from, cash), NEW k \in Nat, k + 1 <= Len(table), Seen(g, table, cash, k)
  PROVE  Seen(g, table, cash, k + 1)
<1> DEFINE now == g[k]
           old == table[k + 1]
<1>1. /\ k + 1 \in 1..Len(table) /\ k \in 0..Len(table) /\ k + 1 \in 0..Len(table)
      /\ (k + 1) - 1 = k /\ k + 1 # 0 /\ DOMAIN table = 1..Len(table)
  OBVIOUS
<1>2. g[k + 1] = Instal!AllocatedTo(old, from, now)
  BY <1>1 DEF IsRun
<1>3. old \in Instal!InstalmentRows /\ old.paid <= old.amount
  BY <1>1
<1>4. now \in Allocations /\ Len(now.rows) = k /\ now.left <= cash
  BY DEF Seen
<1>5. PICK new \in Instal!InstalmentRows, taken \in Nat :
        /\ Instal!AllocatedTo(old, from, now)
           = [rows |-> Append(now.rows, new), left |-> now.left - taken]
        /\ taken <= now.left /\ SameRow(new, old)
        /\ new.paid = old.paid + taken /\ new.paid <= new.amount
  BY <1>3, <1>4, AllocationTurn
<1> DEFINE t == Append(now.rows, new)
<1>6. now.rows \in Seq(Instal!InstalmentRows) /\ now.left \in Nat
  BY <1>4 DEF Allocations
<1>7. g[k + 1].rows = t /\ g[k + 1].left = now.left - taken
      /\ g[k + 1] = [rows |-> t, left |-> now.left - taken]
  BY <1>2, <1>5
<1>8. /\ t \in Seq(Instal!InstalmentRows) /\ Len(t) = k + 1 /\ DOMAIN t = 1..(k + 1)
      /\ DOMAIN now.rows = 1..k /\ t[k + 1] = new /\ \A j \in 1..k : t[j] = now.rows[j]
  BY <1>4, <1>6
<1>9. now.left - taken \in Nat /\ now.left - taken <= cash
  BY <1>4, <1>5, <1>6
<1> HIDE DEF t, now, old
<1>10. g[k + 1] \in Allocations
  BY <1>7, <1>8, <1>9 DEF Allocations
<1>11. \A j \in 1..(k + 1) : SameRow(t[j], table[j]) /\ t[j].paid <= t[j].amount
  <2>1. \A j \in 1..k : SameRow(t[j], table[j]) /\ t[j].paid <= t[j].amount
    BY <1>8 DEF Seen, now
  <2>2. SameRow(t[k + 1], table[k + 1]) /\ t[k + 1].paid <= t[k + 1].amount
    BY <1>5, <1>8 DEF old
  <2>3. \A j \in 1..(k + 1) : j \in 1..k \/ j = k + 1
    OBVIOUS
  <2> QED BY <2>1, <2>2, <2>3
<1>12. SumFunctionOnSet(Paids(t), 1..(k + 1))
       = SumFunctionOnSet(Paids(table), 1..(k + 1)) + (cash - (now.left - taken))
  <2>1. /\ \A r \in Instal!InstalmentRows : r.paid \in Int
        /\ IsFiniteSet(1..k) /\ k + 1 \notin 1..k /\ 1..(k + 1) = (1..k) \cup {k + 1}
    <3>1. IsFiniteSet(1..k)
      BY FS_Interval
    <3>2. k + 1 \notin 1..k /\ 1..(k + 1) = (1..k) \cup {k + 1}
      OBVIOUS
    <3>3. \A r \in Instal!InstalmentRows : r.paid \in Int
      BY DEF Instal!InstalmentRows
    <3> QED BY <3>1, <3>2, <3>3
  <2>2. \A j \in 1..(k + 1) : /\ Paids(t)[j] = t[j].paid /\ Paids(t)[j] \in Int
                              /\ Paids(table)[j] = table[j].paid /\ Paids(table)[j] \in Int
    <3>1. \A j \in 1..(k + 1) : j \in DOMAIN table
      BY <1>1
    <3> QED BY <1>8, <2>1, <3>1 DEF Paids
  <2>3. SumFunctionOnSet(Paids(t), (1..k) \cup {k + 1})
        = Paids(t)[k + 1] + SumFunctionOnSet(Paids(t), 1..k)
    BY <2>1, <2>2, SumAdd
  <2>4. SumFunctionOnSet(Paids(table), (1..k) \cup {k + 1})
        = Paids(table)[k + 1] + SumFunctionOnSet(Paids(table), 1..k)
    BY <2>1, <2>2, SumAdd
  <2>5. SumFunctionOnSet(Paids(t), 1..k) = SumFunctionOnSet(Paids(now.rows), 1..k)
    <3>1. \A j \in 1..k : Paids(t)[j] = Paids(now.rows)[j]
      BY <1>8 DEF Paids
    <3> QED BY <2>1, <3>1, SumSame
  <2>6. SumFunctionOnSet(Paids(now.rows), 1..k)
        = SumFunctionOnSet(Paids(table), 1..k) + (cash - now.left)
    BY DEF Seen, now
  <2>7. Paids(t)[k + 1] = Paids(table)[k + 1] + taken /\ Paids(table)[k + 1] \in Int
    BY <1>5, <1>8, <2>2 DEF old
  <2>8. SumFunctionOnSet(Paids(table), 1..k) \in Int
    BY <2>1, <2>2, SumInt
  <2>9. /\ SumFunctionOnSet(Paids(t), 1..(k + 1))
           = Paids(t)[k + 1] + SumFunctionOnSet(Paids(t), 1..k)
        /\ SumFunctionOnSet(Paids(table), 1..(k + 1))
           = Paids(table)[k + 1] + SumFunctionOnSet(Paids(table), 1..k)
    BY <2>1, <2>3, <2>4, Zenon
  <2> DEFINE o == SumFunctionOnSet(Paids(table), 1..k)
             p == Paids(table)[k + 1]
             m == now.left
  <2>10. /\ SumFunctionOnSet(Paids(t), 1..(k + 1)) = (p + taken) + (o + (cash - m))
         /\ SumFunctionOnSet(Paids(table), 1..(k + 1)) = p + o
    BY <2>5, <2>6, <2>7, <2>9
  <2>11. m \in Int /\ taken \in Int /\ o \in Int /\ p \in Int
    BY <1>6, <2>7, <2>8
  <2> HIDE DEF o, p, m
  <2>12. SumFunctionOnSet(Paids(t), 1..(k + 1))
         = SumFunctionOnSet(Paids(table), 1..(k + 1)) + (cash - (m - taken))
    BY <2>10, <2>11
  <2> QED BY <2>12 DEF m
<1> QED BY <1>7, <1>8, <1>9, <1>10, <1>11, <1>12 DEF Seen

\* Whatever is paid in, the instalments take what it comes down by, none of them more
\* than it is for, and nothing else about them changes (_apply_amount_to_instalments).
LEMMA AllocationAddsUp ==
  ASSUME NEW table \in Seq(Instal!InstalmentRows), NEW from, NEW cash \in Nat,
         \A j \in DOMAIN table : table[j].paid <= table[j].amount
  PROVE  LET t == Instal!Allocated(table, from, cash) IN
         /\ t.rows \in Seq(Instal!InstalmentRows) /\ Len(t.rows) = Len(table)
         /\ t.left \in 0..cash
         /\ \A j \in DOMAIN table : SameRow(t.rows[j], table[j]) /\ t.rows[j].paid <= t.rows[j].amount
         /\ Instal!SumFunction(Paids(t.rows)) = Instal!SumFunction(Paids(table)) + (cash - t.left)
<1> DEFINE n == Len(table)
<1>1. PICK g : IsRun(g, table, from, cash) /\ Instal!Allocated(table, from, cash) = g[n]
  BY RunExists
<1> DEFINE H == {k \in Nat : k <= n => Seen(g, table, cash, k)}
<1>2. 0 \in H
  <2>1. n \in Nat /\ 0 \in 0..n
    OBVIOUS
  <2>2. g[0] = [rows |-> <<>>, left |-> cash]
    BY <1>1, <2>1 DEF IsRun
  <2>3. g[0] \in Allocations /\ Len(g[0].rows) = 0 /\ g[0].left = cash /\ 1..0 = {}
    BY <2>2 DEF Allocations
  <2>4. SumFunctionOnSet(Paids(g[0].rows), {}) = 0 /\ SumFunctionOnSet(Paids(table), {}) = 0
    BY SumEmpty
  <2>5. Seen(g, table, cash, 0)
    BY <2>3, <2>4 DEF Seen
  <2> QED BY <2>5
<1>3. ASSUME NEW k \in Nat, k \in H PROVE k + 1 \in H
  <2> SUFFICES ASSUME k + 1 <= n PROVE Seen(g, table, cash, k + 1)
    OBVIOUS
  <2>1. Seen(g, table, cash, k)
    BY <1>3
  <2> QED BY <1>1, <2>1, SeenOneMore
<1>4. n \in H
  <2> HIDE DEF H
  <2>1. n \in Nat
    OBVIOUS
  <2> QED BY <1>2, <1>3, <2>1, CountingUp
<1>5. Seen(g, table, cash, n) /\ n \in Nat /\ DOMAIN table = 1..n
  BY <1>4
<1> HIDE DEF n
<1>6. /\ g[n].rows \in Seq(Instal!InstalmentRows) /\ Len(g[n].rows) = n /\ g[n].left \in 0..cash
  BY <1>5 DEF Seen, Allocations
<1>7. DOMAIN Paids(g[n].rows) = 1..n /\ DOMAIN Paids(table) = 1..n
  BY <1>5, <1>6 DEF Paids
<1>8. Instal!SumFunction(Paids(g[n].rows)) = Instal!SumFunction(Paids(table)) + (cash - g[n].left)
  BY <1>5, <1>7, InstalmentSums DEF Seen
<1>9. \A j \in DOMAIN table : SameRow(g[n].rows[j], table[j]) /\ g[n].rows[j].paid <= g[n].rows[j].amount
  BY <1>5 DEF Seen
<1> QED BY <1>1, <1>6, <1>8, <1>9 DEF n

\* A loan that MCOffice looks at, in any status.
Loans ==
  [amount : {100, 1001}, rate : {<<0, 1>>, <<1, 100>>, <<1, 10>>}, term : {1, 3},
   start : {Day(2024, 1, 30), Day(2023, 12, 25), Day(2023, 2, 10)}, dueDay : {25, 31},
   status : Instal!LoanStatuses]
\* When an instalment may be due.
DueDates == [year : Nat, month : 1..12, day : 1..31]

\* The month that a due date is counted in is its own.
LEMMA DayInMonth ==
  ASSUME NEW m \in Nat, NEW d \in {25, 31}
  PROVE  /\ Instal!DayIn(m, d) \in DueDates /\ Instal!MonthOf(Instal!DayIn(m, d)) = m
         /\ Instal!DayIn(m, d).day
            = Instal!SmallerOf(d, Instal!MonthLength(m \div 12, (m % 12) + 1))
<1>1. m \div 12 \in Nat /\ (m % 12) + 1 \in 1..12 /\ 12 * (m \div 12) + (m % 12) = m
  OBVIOUS
<1>2. \A y, k : Instal!MonthLength(y, k) \in 28..31
  BY DEF Instal!MonthLength
<1>3. Instal!SmallerOf(d, Instal!MonthLength(m \div 12, (m % 12) + 1)) \in 1..31
  BY <1>2 DEF Instal!SmallerOf
<1> QED BY <1>1, <1>3 DEF Instal!DayIn, Instal!MonthOf, DueDates

\* The due dates are a month apart, and the first is after the start.
LEMMA DueInOrder ==
  ASSUME NEW l \in Loans
  PROVE  /\ \A k \in {1, 2, 3} : Instal!DueDate(l.start, k, l.dueDay) \in DueDates
         /\ \A k \in {2, 3} : Instal!MonthOf(Instal!DueDate(l.start, k, l.dueDay))
                              = Instal!MonthOf(Instal!DueDate(l.start, k - 1, l.dueDay)) + 1
         /\ Instal!MonthOf(Instal!DueDate(l.start, 1, l.dueDay)) * 31
            + Instal!DueDate(l.start, 1, l.dueDay).day
            > Instal!MonthOf(l.start) * 31 + l.start.day
<1> DEFINE s == l.start
           d == l.dueDay
           f == Instal!FirstMonth(s, d)
<1>1. d \in {25, 31} /\ s.year \in Nat /\ s.month \in 1..12 /\ s.day \in 1..31
  BY DEF Loans, Day
<1> HIDE DEF s, d
<1>2. Instal!MonthOf(s) = 12 * s.year + s.month - 1 /\ Instal!MonthOf(s) \in Nat
  BY <1>1 DEF Instal!MonthOf
<1>3. /\ f \in {Instal!MonthOf(s), Instal!MonthOf(s) + 1}
      /\ f = Instal!MonthOf(s) => s.day < d /\ d <= Instal!MonthLength(s.year, s.month)
  BY <1>2 DEF Instal!FirstMonth
<1> HIDE DEF f
<1>4. f \in Nat
  BY <1>2, <1>3
<1>5. \A k \in {1, 2, 3} : /\ Instal!DueDate(s, k, d) = Instal!DayIn(f + k - 1, d)
                           /\ f + k - 1 \in Nat
  BY <1>4 DEF Instal!DueDate, f
<1>6. \A k \in {1, 2, 3} : /\ Instal!DueDate(s, k, d) \in DueDates
                           /\ Instal!MonthOf(Instal!DueDate(s, k, d)) = f + k - 1
  BY <1>1, <1>5, DayInMonth
<1>7. \A k \in {2, 3} : Instal!MonthOf(Instal!DueDate(s, k, d))
                        = Instal!MonthOf(Instal!DueDate(s, k - 1, d)) + 1
  BY <1>4, <1>6
<1>8. f * 31 + Instal!DueDate(s, 1, d).day > Instal!MonthOf(s) * 31 + s.day
  <2> DEFINE t == Instal!DueDate(s, 1, d).day
  <2> SUFFICES f * 31 + t > Instal!MonthOf(s) * 31 + s.day
    OBVIOUS
  <2>1. t \in 1..31
    BY <1>6 DEF DueDates
  <2>2. CASE f = Instal!MonthOf(s)
    <3>1. f \div 12 = s.year /\ (f % 12) + 1 = s.month
      <4> DEFINE y == s.year
                 m == s.month
      <4>1. y \in Nat /\ m \in 1..12 /\ f = 12 * y + m - 1
        BY <1>1, <1>2, <2>2
      <4> HIDE DEF y, m
      <4>2. f \div 12 = y /\ (f % 12) + 1 = m
        BY <4>1
      <4> QED BY <4>2 DEF y, m
    <3>2. f + 1 - 1 = f
      BY <1>4
    <3>3. t = Instal!SmallerOf(d, Instal!MonthLength(s.year, s.month))
      BY <1>1, <1>4, <1>5, <3>1, <3>2, DayInMonth
    <3>4. Instal!MonthLength(s.year, s.month) \in 28..31
      BY DEF Instal!MonthLength
    <3>5. t = d
      BY <1>1, <1>3, <2>2, <3>3, <3>4 DEF Instal!SmallerOf
    <3> HIDE DEF t
    <3> QED BY <1>1, <1>2, <1>3, <2>2, <3>5
  <2>3. CASE f # Instal!MonthOf(s)
    <3> HIDE DEF t
    <3> QED BY <1>1, <1>2, <1>3, <2>1, <2>3
  <2> QED BY <2>2, <2>3
<1>9. Instal!MonthOf(Instal!DueDate(s, 1, d)) = f
  <2>1. f + 1 - 1 = f
    BY <1>4
  <2> QED BY <1>6, <2>1
<1> QED BY <1>6, <1>7, <1>8, <1>9 DEF s, d

\* What the formula comes to for these loans.
LEMMA PaymentTable ==
  /\ Instal!MonthlyPayment(100, <<0, 1>>, 1) = 0
  /\ Instal!MonthlyPayment(100, <<0, 1>>, 3) = 0
  /\ Instal!MonthlyPayment(100, <<1, 100>>, 1) = 101
  /\ Instal!MonthlyPayment(100, <<1, 100>>, 3) = 34
  /\ Instal!MonthlyPayment(100, <<1, 10>>, 1) = 110
  /\ Instal!MonthlyPayment(100, <<1, 10>>, 3) = 40
  /\ Instal!MonthlyPayment(1001, <<0, 1>>, 1) = 0
  /\ Instal!MonthlyPayment(1001, <<0, 1>>, 3) = 0
  /\ Instal!MonthlyPayment(1001, <<1, 100>>, 1) = 1011
  /\ Instal!MonthlyPayment(1001, <<1, 100>>, 3) = 340
  /\ Instal!MonthlyPayment(1001, <<1, 10>>, 1) = 1101
  /\ Instal!MonthlyPayment(1001, <<1, 10>>, 3) = 403
<1>1. Instal!MonthlyPayment(100, <<0, 1>>, 1) = 0
  BY DEF Instal!MonthlyPayment, Instal!Rounded
<1>2. Instal!MonthlyPayment(100, <<0, 1>>, 3) = 0
  BY DEF Instal!MonthlyPayment, Instal!Rounded
<1>3. Instal!MonthlyPayment(100, <<1, 100>>, 1) = 101
  BY DEF Instal!MonthlyPayment, Instal!Rounded
<1>4. Instal!MonthlyPayment(100, <<1, 100>>, 3) = 34
  BY DEF Instal!MonthlyPayment, Instal!Rounded
<1>5. Instal!MonthlyPayment(100, <<1, 10>>, 1) = 110
  BY DEF Instal!MonthlyPayment, Instal!Rounded
<1>6. Instal!MonthlyPayment(100, <<1, 10>>, 3) = 40
  BY DEF Instal!MonthlyPayment, Instal!Rounded
<1>7. Instal!MonthlyPayment(1001, <<0, 1>>, 1) = 0
  BY DEF Instal!MonthlyPayment, Instal!Rounded
<1>8. Instal!MonthlyPayment(1001, <<0, 1>>, 3) = 0
  BY DEF Instal!MonthlyPayment, Instal!Rounded
<1>9. Instal!MonthlyPayment(1001, <<1, 100>>, 1) = 1011
  BY DEF Instal!MonthlyPayment, Instal!Rounded
<1>10. Instal!MonthlyPayment(1001, <<1, 100>>, 3) = 340
  BY DEF Instal!MonthlyPayment, Instal!Rounded
<1>11. Instal!MonthlyPayment(1001, <<1, 10>>, 1) = 1101
  BY DEF Instal!MonthlyPayment, Instal!Rounded
<1>12. Instal!MonthlyPayment(1001, <<1, 10>>, 3) = 403
  BY DEF Instal!MonthlyPayment, Instal!Rounded
<1> QED BY <1>1, <1>2, <1>3, <1>4, <1>5, <1>6, <1>7, <1>8, <1>9, <1>10, <1>11, <1>12

\* The principals of the first two of three instalments are no more than what is left.
PrincipalOf(l, left) ==
  IF l.rate[1] = 0 THEN Instal!Rounded(l.amount, l.term)
  ELSE Instal!MonthlyPayment(l.amount, l.rate, l.term) - Instal!InterestOf(left, l.rate)

\* The monthly payment covers the interest, and the principals in it do not exceed the
\* loan: figured out for each amount, rate and term that MCOffice declares.
LEMMA PaymentFits ==
  ASSUME NEW l \in Loans
  PROVE  /\ Instal!MonthlyPayment(l.amount, l.rate, l.term) \in Nat
         /\ l.term = 3 =>
              \E a, b \in Nat : /\ PrincipalOf(l, l.amount) = a /\ a <= l.amount
                                /\ PrincipalOf(l, l.amount - a) = b /\ b <= l.amount - a
<1>1. /\ l.amount \in {100, 1001} /\ l.rate \in {<<0, 1>>, <<1, 100>>, <<1, 10>>} /\ l.term \in {1, 3}
  BY DEF Loans
<1>2. Instal!MonthlyPayment(l.amount, l.rate, l.term) \in Nat
  BY <1>1, PaymentTable
<1>3. ASSUME l.term = 3
      PROVE  \E a, b \in Nat : /\ PrincipalOf(l, l.amount) = a /\ a <= l.amount
                               /\ PrincipalOf(l, l.amount - a) = b /\ b <= l.amount - a
  <2>1. CASE l.amount = 100 /\ l.rate = <<0, 1>>
    <3>1. PrincipalOf(l, 100) = 33 /\ PrincipalOf(l, 67) = 33
      BY <1>3, <2>1, PaymentTable DEF PrincipalOf, Instal!Rounded, Instal!InterestOf
    <3> QED BY <2>1, <3>1
  <2>2. CASE l.amount = 100 /\ l.rate = <<1, 100>>
    <3>1. PrincipalOf(l, 100) = 33 /\ PrincipalOf(l, 67) = 33
      BY <1>3, <2>2, PaymentTable DEF PrincipalOf, Instal!Rounded, Instal!InterestOf
    <3> QED BY <2>2, <3>1
  <2>3. CASE l.amount = 100 /\ l.rate = <<1, 10>>
    <3>1. PrincipalOf(l, 100) = 30 /\ PrincipalOf(l, 70) = 33
      BY <1>3, <2>3, PaymentTable DEF PrincipalOf, Instal!Rounded, Instal!InterestOf
    <3> QED BY <2>3, <3>1
  <2>4. CASE l.amount = 1001 /\ l.rate = <<0, 1>>
    <3>1. PrincipalOf(l, 1001) = 334 /\ PrincipalOf(l, 667) = 334
      BY <1>3, <2>4, PaymentTable DEF PrincipalOf, Instal!Rounded, Instal!InterestOf
    <3> QED BY <2>4, <3>1
  <2>5. CASE l.amount = 1001 /\ l.rate = <<1, 100>>
    <3>1. PrincipalOf(l, 1001) = 330 /\ PrincipalOf(l, 671) = 333
      BY <1>3, <2>5, PaymentTable DEF PrincipalOf, Instal!Rounded, Instal!InterestOf
    <3> QED BY <2>5, <3>1
  <2>6. CASE l.amount = 1001 /\ l.rate = <<1, 10>>
    <3>1. PrincipalOf(l, 1001) = 303 /\ PrincipalOf(l, 698) = 333
      BY <1>3, <2>6, PaymentTable DEF PrincipalOf, Instal!Rounded, Instal!InterestOf
    <3> QED BY <2>6, <3>1
  <2> QED BY <1>1, <2>1, <2>2, <2>3, <2>4, <2>5, <2>6
<1> QED BY <1>2, <1>3

\* A row as generate_repayment_schedule returns it.
PlainRows ==
  [number : Nat, due : DueDates, principal : Int, interest : Nat, amount : Nat, after : Nat]

\* The row of instalment k when left is still owed.
RowOf(l, k, left) ==
  Instal!Instalment(l.amount, l.rate, l.term, k, left, Instal!DueDate(l.start, k, l.dueDay))

\* What every row is made of.
LEMMA RowIs ==
  ASSUME NEW l \in Loans, NEW k \in {1, 2, 3}, NEW left \in Nat
  PROVE  LET r == RowOf(l, k, left)
             p == IF k = l.term THEN left ELSE PrincipalOf(l, left)
         IN /\ r \in PlainRows /\ r.number = k /\ r.due = Instal!DueDate(l.start, k, l.dueDay)
            /\ r.principal = p /\ r.after = IF left > p THEN left - p ELSE 0
            /\ l.rate[1] > 0 => r.amount = r.principal + r.interest
<1> DEFINE i == Instal!InterestOf(left, l.rate)
           m == Instal!MonthlyPayment(l.amount, l.rate, l.term)
           p == IF k = l.term THEN left ELSE PrincipalOf(l, left)
           c == IF k = l.term THEN p + i ELSE m
           f == IF left - p > 0 THEN left - p ELSE 0
           d == Instal!DueDate(l.start, k, l.dueDay)
<1>1. /\ l.amount \in {100, 1001} /\ l.rate \in {<<0, 1>>, <<1, 100>>, <<1, 10>>} /\ l.term \in {1, 3}
  BY DEF Loans
<1>2. i \in Nat
  BY <1>1 DEF Instal!InterestOf, Instal!Rounded
<1>3. m \in Nat /\ d \in DueDates
  BY PaymentFits, DueInOrder
<1>4. PrincipalOf(l, left) = (IF l.rate[1] = 0 THEN Instal!Rounded(l.amount, l.term) ELSE m - i)
  BY DEF PrincipalOf
<1>5. PrincipalOf(l, left) \in Int
  <2>1. Instal!Rounded(l.amount, l.term) \in Int
    BY <1>1 DEF Instal!Rounded
  <2> HIDE DEF m, i
  <2> QED BY <1>2, <1>3, <1>4, <2>1
<1>6. RowOf(l, k, left) = [number |-> k, due |-> d, principal |-> p, interest |-> i,
                           amount |-> c, after |-> f]
  BY <1>4 DEF RowOf, Instal!Instalment, Instal!LargerOf
<1> HIDE DEF m, i, d
<1>7. p \in Int /\ f \in Nat /\ f = (IF left > p THEN left - p ELSE 0)
  BY <1>5
<1>8. c \in Nat
  BY <1>2, <1>3
<1>9. l.rate[1] > 0 => c = p + i
  <2>1. l.rate[1] > 0 => l.rate[1] # 0
    BY <1>1
  <2> QED BY <1>2, <1>3, <1>4, <2>1
<1> DEFINE q == p
<1>10. RowOf(l, k, left) = [number |-> k, due |-> d, principal |-> q, interest |-> i,
                            amount |-> c, after |-> f]
       /\ q \in Int /\ f = (IF left > q THEN left - q ELSE 0) /\ (l.rate[1] > 0 => c = q + i)
  BY <1>6, <1>7, <1>9
<1>11. q = (IF k = l.term THEN left ELSE PrincipalOf(l, left))
  OBVIOUS
<1> HIDE DEF p, c, f, q
<1>12. RowOf(l, k, left) \in PlainRows
  BY <1>2, <1>3, <1>7, <1>8, <1>10 DEF PlainRows
<1> QED BY <1>10, <1>11, <1>12 DEF d

\* The schedule has one row, or three that follow one another.
LEMMA ScheduleRows ==
  ASSUME NEW l \in Loans
  PROVE  LET r1 == RowOf(l, 1, l.amount)
             r2 == RowOf(l, 2, r1.after)
             r3 == RowOf(l, 3, r2.after)
         IN Instal!ScheduleOf(l) = IF l.term = 1 THEN <<r1>> ELSE <<r1, r2, r3>>
<1> DEFINE r1 == RowOf(l, 1, l.amount)
           r2 == RowOf(l, 2, r1.after)
           r3 == RowOf(l, 3, r2.after)
           Is(g) == g = [k \in 0..l.term |-> IF k = 0 THEN <<>> ELSE Instal!Continued(l, g[k - 1], k)]
<1>1. l.amount \in {100, 1001} /\ l.term \in {1, 3}
  BY DEF Loans
<1>2. Instal!ScheduleOf(l) = (CHOOSE g : Is(g))[l.term]
  BY <1>1 DEF Instal!ScheduleOf
<1>3. /\ Instal!Continued(l, <<>>, 1) = <<r1>>
      /\ Instal!Continued(l, <<r1>>, 2) = <<r1, r2>>
      /\ Instal!Continued(l, <<r1, r2>>, 3) = <<r1, r2, r3>>
  <2>1. Instal!Continued(l, <<>>, 1) = Append(<<>>, r1)
    BY DEF Instal!Continued, RowOf
  <2>2. Instal!Continued(l, <<r1>>, 2) = Append(<<r1>>, r2)
    <3>1. Instal!Last(<<r1>>) = r1
      <4> HIDE DEF r1
      <4> QED BY DEF Instal!Last
    <3> QED BY <3>1 DEF Instal!Continued, RowOf
  <2>3. Instal!Continued(l, <<r1, r2>>, 3) = Append(<<r1, r2>>, r3)
    <3>1. Instal!Last(<<r1, r2>>) = r2
      <4> HIDE DEF r1, r2
      <4> QED BY DEF Instal!Last
    <3> QED BY <3>1 DEF Instal!Continued, RowOf
  <2> HIDE DEF r1, r2, r3
  <2> QED BY <2>1, <2>2, <2>3
<1> HIDE DEF r1, r2, r3
<1>4. \E g : Is(g)
  <2> DEFINE h == [k \in 0..l.term |-> IF k = 0 THEN <<>> ELSE IF k = 1 THEN <<r1>>
                                       ELSE IF k = 2 THEN <<r1, r2>> ELSE <<r1, r2, r3>>]
  <2>1. ASSUME NEW k \in 0..l.term
        PROVE  h[k] = IF k = 0 THEN <<>> ELSE Instal!Continued(l, h[k - 1], k)
    <3>1. k \in {0, 1, 2, 3}
      BY <1>1
    <3>2. CASE k = 0
      BY <3>2
    <3>3. CASE k = 1
      <4>1. h[k] = <<r1>> /\ h[k - 1] = <<>>
        BY <1>1, <3>3
      <4> QED BY <1>3, <3>3, <4>1
    <3>4. CASE k = 2
      <4>1. h[k] = <<r1, r2>> /\ h[k - 1] = <<r1>>
        BY <1>1, <3>4
      <4> QED BY <1>3, <3>4, <4>1
    <3>5. CASE k = 3
      <4>1. h[k] = <<r1, r2, r3>> /\ h[k - 1] = <<r1, r2>>
        BY <1>1, <3>5
      <4> QED BY <1>3, <3>5, <4>1
    <3> QED BY <3>1, <3>2, <3>3, <3>4, <3>5
  <2>2. h = [k \in 0..l.term |-> h[k]]
    OBVIOUS
  <2> HIDE DEF h
  <2>3. Is(h)
    BY <2>1, <2>2
  <2> QED BY <2>3
<1>5. PICK g : Is(g) /\ Instal!ScheduleOf(l) = g[l.term]
  <2> HIDE DEF Is
  <2> QED BY <1>2, <1>4
<1>6. g[0] = <<>>
  BY <1>1, <1>5
<1>7. \A k \in 1..l.term : g[k] = Instal!Continued(l, g[k - 1], k)
  BY <1>1, <1>5
<1>8. g[1] = <<r1>>
  <2>1. g[1] = Instal!Continued(l, g[0], 1)
    BY <1>1, <1>7
  <2> QED BY <1>3, <1>6, <2>1
<1>9. CASE l.term = 1
  BY <1>5, <1>8, <1>9 DEF r1, r2, r3
<1>10. CASE l.term = 3
  <2>1. g[2] = Instal!Continued(l, g[1], 2) /\ g[3] = Instal!Continued(l, g[2], 3)
    BY <1>7, <1>10
  <2>2. g[3] = <<r1, r2, r3>>
    BY <1>3, <1>8, <2>1
  <2> QED BY <1>5, <1>10, <2>2 DEF r1, r2, r3
<1> QED BY <1>1, <1>9, <1>10

\* What ScheduleAddsUp says, of any table and loan.
Principals(table) == [k \in DOMAIN table |-> table[k].principal]
Scheduled(table, l) ==
  /\ Len(table) = l.term
  /\ \A k \in DOMAIN table : table[k].number = k
  /\ \A k \in DOMAIN table : l.rate[1] > 0 => table[k].amount = table[k].principal + table[k].interest
  /\ \A k \in DOMAIN table :
       k > 1 => Instal!MonthOf(table[k].due) = Instal!MonthOf(table[k - 1].due) + 1
  /\ Instal!MonthOf(table[1].due) * 31 + table[1].due.day > Instal!MonthOf(l.start) * 31 + l.start.day
  /\ Instal!SumFunction(Principals(table)) = l.amount
  /\ table[Len(table)].after = 0

\* The property is that of the rows.
LEMMA ScheduleIsRight == Instal!ScheduleAddsUp <=> (rows # <<>> => Scheduled(rows, loan))
<1>1. Instal!SumOf("principal") = Instal!SumFunction(Principals(rows))
  BY DEF Instal!SumOf, Principals
<1>2. Instal!Last(rows) = rows[Len(rows)]
  BY DEF Instal!Last
<1> QED BY <1>1, <1>2 DEF Instal!ScheduleAddsUp, Scheduled

\* Sums of one and of three.
LEMMA FewAddUp ==
  ASSUME NEW f, \A k \in DOMAIN f : f[k] \in Int
  PROVE  /\ DOMAIN f = {1} => Instal!SumFunction(f) = f[1]
         /\ DOMAIN f = {1, 2, 3} => Instal!SumFunction(f) = f[1] + f[2] + f[3]
<1>1. ASSUME DOMAIN f = {1} PROVE SumFunctionOnSet(f, {1}) = f[1]
  <2>1. {1} = {} \cup {1} /\ IsFiniteSet({}) /\ 1 \notin {}
    BY FS_EmptySet
  <2>2. SumFunctionOnSet(f, {} \cup {1}) = f[1] + SumFunctionOnSet(f, {})
    BY <1>1, <2>1, SumAdd
  <2>3. f[1] \in Int /\ SumFunctionOnSet(f, {}) = 0
    BY <1>1, SumEmpty
  <2>4. SumFunctionOnSet(f, {} \cup {1}) = f[1]
    BY <2>2, <2>3
  <2> QED BY <2>1, <2>4, Zenon
<1>2. ASSUME DOMAIN f = {1, 2, 3} PROVE SumFunctionOnSet(f, {1, 2, 3}) = f[1] + f[2] + f[3]
  <2>1. /\ IsFiniteSet({1}) /\ IsFiniteSet({1, 2}) /\ 2 \notin {1} /\ 3 \notin {1, 2}
        /\ {1, 2} = {1} \cup {2} /\ {1, 2, 3} = {1, 2} \cup {3}
    <3>1. IsFiniteSet({1}) /\ IsFiniteSet({1, 2})
      BY FS_Singleton, PairIsFinite
    <3>2. 2 \notin {1} /\ 3 \notin {1, 2}
      OBVIOUS
    <3>3. {1, 2} = {1} \cup {2} /\ {1, 2, 3} = {1, 2} \cup {3}
      OBVIOUS
    <3> QED BY <3>1, <3>2, <3>3
  <2>2. f[1] \in Int /\ f[2] \in Int /\ f[3] \in Int
    BY <1>2
  <2>3. SumFunctionOnSet(f, {1}) = f[1]
    <3>1. {1} = {} \cup {1} /\ IsFiniteSet({}) /\ 1 \notin {}
      BY FS_EmptySet
    <3>2. SumFunctionOnSet(f, {} \cup {1}) = f[1] + SumFunctionOnSet(f, {})
      BY <2>2, <3>1, SumAdd
    <3>3. SumFunctionOnSet(f, {} \cup {1}) = f[1]
      BY <2>2, <3>2, SumEmpty
    <3> QED BY <3>1, <3>3, Zenon
  <2>4. SumFunctionOnSet(f, {1} \cup {2}) = f[2] + SumFunctionOnSet(f, {1})
    BY <2>1, <2>2, SumAdd
  <2>5. SumFunctionOnSet(f, {1, 2}) = f[2] + SumFunctionOnSet(f, {1})
    BY <2>1, <2>4, Zenon
  <2>6. SumFunctionOnSet(f, {1, 2} \cup {3}) = f[3] + SumFunctionOnSet(f, {1, 2})
    BY <2>1, <2>2, SumAdd
  <2>7. SumFunctionOnSet(f, {1, 2, 3}) = f[3] + SumFunctionOnSet(f, {1, 2})
    BY <2>1, <2>6, Zenon
  <2> QED BY <2>2, <2>3, <2>5, <2>7
<1> QED BY <1>1, <1>2, InstalmentSums

\* What is stored for a loan adds up, and nothing is paid of it.
LEMMA StoredAddsUp ==
  ASSUME NEW l \in Loans
  PROVE  /\ Instal!Stored(l) \in Seq(Instal!InstalmentRows) /\ Instal!Stored(l) # <<>>
         /\ Scheduled(Instal!Stored(l), l)
         /\ \A k \in DOMAIN Instal!Stored(l) : Instal!Stored(l)[k].paid = 0
<1> DEFINE r1 == RowOf(l, 1, l.amount)
           r2 == RowOf(l, 2, r1.after)
           r3 == RowOf(l, 3, r2.after)
           S == Instal!ScheduleOf(l)
           T == Instal!Stored(l)
<1>1. l.amount \in Nat /\ l.term \in {1, 3}
  BY DEF Loans
<1>2. S = IF l.term = 1 THEN <<r1>> ELSE <<r1, r2, r3>>
  BY ScheduleRows
<1>3. /\ r1 \in PlainRows /\ r1.number = 1 /\ r1.due = Instal!DueDate(l.start, 1, l.dueDay)
      /\ r1.principal = (IF 1 = l.term THEN l.amount ELSE PrincipalOf(l, l.amount))
      /\ r1.after = IF l.amount > r1.principal THEN l.amount - r1.principal ELSE 0
      /\ l.rate[1] > 0 => r1.amount = r1.principal + r1.interest
  BY <1>1, RowIs
<1> HIDE DEF r1
<1>4. r1.after \in Nat
  BY <1>3 DEF PlainRows
<1>5. /\ r2 \in PlainRows /\ r2.number = 2 /\ r2.due = Instal!DueDate(l.start, 2, l.dueDay)
      /\ r2.principal = (IF 2 = l.term THEN r1.after ELSE PrincipalOf(l, r1.after))
      /\ r2.after = IF r1.after > r2.principal THEN r1.after - r2.principal ELSE 0
      /\ l.rate[1] > 0 => r2.amount = r2.principal + r2.interest
  BY <1>4, RowIs
<1> HIDE DEF r2
<1>6. r2.after \in Nat
  BY <1>5 DEF PlainRows
<1>7. /\ r3 \in PlainRows /\ r3.number = 3 /\ r3.due = Instal!DueDate(l.start, 3, l.dueDay)
      /\ r3.principal = (IF 3 = l.term THEN r2.after ELSE PrincipalOf(l, r2.after))
      /\ r3.after = IF r2.after > r3.principal THEN r2.after - r3.principal ELSE 0
      /\ l.rate[1] > 0 => r3.amount = r3.principal + r3.interest
  BY <1>6, RowIs
<1> HIDE DEF r3, S, T
<1>8. /\ T = [k \in DOMAIN S |-> Instal!Unpaid(S[k])]
  BY DEF S, T, Instal!Stored
<1>9. /\ S \in Seq(PlainRows) /\ Len(S) = l.term /\ DOMAIN S = 1..l.term /\ S[1] = r1
      /\ l.term = 3 => S[2] = r2 /\ S[3] = r3
  <2>1. CASE l.term = 1
    <3>1. S = <<r1>>
      BY <1>2, <2>1
    <3> QED BY <1>3, <2>1, <3>1
  <2>2. CASE l.term = 3
    <3>1. S = <<r1, r2, r3>>
      BY <1>2, <2>2
    <3> QED BY <1>3, <1>5, <1>7, <2>2, <3>1
  <2> QED BY <1>1, <2>1, <2>2
<1>10. \A r \in PlainRows : /\ Instal!Unpaid(r) \in Instal!InstalmentRows
                            /\ SameRow(Instal!Unpaid(r), r) /\ Instal!Unpaid(r).paid = 0
  BY DEF Instal!Unpaid, Instal!InstalmentRows, PlainRows, SameRow, Instal!InstalmentStatuses, DueDates
<1>11. /\ T \in Seq(Instal!InstalmentRows) /\ Len(T) = l.term /\ DOMAIN T = 1..l.term
       /\ \A k \in 1..l.term : SameRow(T[k], S[k]) /\ T[k].paid = 0
  <2>1. \A k \in 1..l.term : S[k] \in PlainRows /\ T[k] = Instal!Unpaid(S[k])
    BY <1>8, <1>9
  <2>2. T = [k \in 1..l.term |-> Instal!Unpaid(S[k])]
    BY <1>8, <1>9
  <2>3. T \in Seq(Instal!InstalmentRows) /\ Len(T) = l.term /\ DOMAIN T = 1..l.term
    <3>1. T \in [1..l.term -> Instal!InstalmentRows] /\ l.term \in Nat
      BY <1>1, <1>10, <2>1, <2>2
    <3> QED BY <3>1
  <2> QED BY <1>10, <2>1, <2>3
<1>12. CASE l.term = 1
  <2>1. DOMAIN T = {1} /\ SameRow(T[1], r1) /\ Len(T) = 1
    BY <1>9, <1>11, <1>12
  <2>2. Instal!SumFunction(Principals(T)) = l.amount
    <3>1. DOMAIN Principals(T) = {1} /\ Principals(T)[1] = r1.principal
      BY <2>1 DEF Principals, SameRow
    <3>2. r1.principal = l.amount
      BY <1>3, <1>12
    <3>3. \A k \in DOMAIN Principals(T) : Principals(T)[k] \in Int
      BY <1>1, <3>1, <3>2
    <3> QED BY <3>1, <3>2, <3>3, FewAddUp
  <2>3. T[1].after = 0
    BY <1>1, <1>3, <1>12, <2>1 DEF SameRow
  <2>4. T[1].number = 1 /\ (l.rate[1] > 0 => T[1].amount = T[1].principal + T[1].interest)
        /\ T[1].due = Instal!DueDate(l.start, 1, l.dueDay)
    BY <1>3, <2>1 DEF SameRow
  <2>5. Instal!MonthOf(T[1].due) * 31 + T[1].due.day > Instal!MonthOf(l.start) * 31 + l.start.day
    BY <2>4, DueInOrder
  <2>6. Scheduled(T, l)
    BY <1>12, <2>1, <2>2, <2>3, <2>4, <2>5 DEF Scheduled
  <2>7. T # <<>>
    BY <2>1
  <2> QED BY <1>11, <2>6, <2>7 DEF T
<1>13. CASE l.term = 3
  <2>1. /\ DOMAIN T = {1, 2, 3} /\ Len(T) = 3
        /\ SameRow(T[1], r1) /\ SameRow(T[2], r2) /\ SameRow(T[3], r3)
    BY <1>9, <1>11, <1>13
  <2>2. PICK a \in Nat, b \in Nat :
          /\ PrincipalOf(l, l.amount) = a /\ a <= l.amount
          /\ PrincipalOf(l, l.amount - a) = b /\ b <= l.amount - a
    BY <1>13, PaymentFits
  <2>3. r1.principal = a /\ r1.after = l.amount - a
    BY <1>1, <1>3, <1>13, <2>2
  <2>4. r2.principal = b /\ r2.after = l.amount - a - b
    BY <1>1, <1>5, <1>13, <2>2, <2>3
  <2>5. r3.principal = l.amount - a - b /\ r3.after = 0
    BY <1>1, <1>7, <1>13, <2>2, <2>4
  <2>6. Instal!SumFunction(Principals(T)) = l.amount
    <3>1. /\ DOMAIN Principals(T) = {1, 2, 3} /\ Principals(T)[1] = a /\ Principals(T)[2] = b
          /\ Principals(T)[3] = l.amount - a - b
      BY <2>1, <2>3, <2>4, <2>5 DEF Principals, SameRow
    <3>2. \A k \in DOMAIN Principals(T) : Principals(T)[k] \in Int
      BY <1>1, <3>1
    <3>3. a + b + (l.amount - a - b) = l.amount
      BY <1>1
    <3> QED BY <3>1, <3>2, <3>3, FewAddUp
  <2>7. /\ T[1].number = 1 /\ T[2].number = 2 /\ T[3].number = 3 /\ T[3].after = 0
        /\ \A k \in {1, 2, 3} : T[k].due = Instal!DueDate(l.start, k, l.dueDay)
        /\ \A k \in {1, 2, 3} : l.rate[1] > 0 => T[k].amount = T[k].principal + T[k].interest
    BY <1>3, <1>5, <1>7, <2>1, <2>5, SMTT(30) DEF SameRow
  <2>8. Instal!MonthOf(T[1].due) * 31 + T[1].due.day > Instal!MonthOf(l.start) * 31 + l.start.day
    BY <2>7, DueInOrder
  <2>9. \A k \in {2, 3} : Instal!MonthOf(T[k].due) = Instal!MonthOf(T[k - 1].due) + 1
    <3>1. \A k \in {2, 3} : k \in {1, 2, 3} /\ k - 1 \in {1, 2, 3}
      OBVIOUS
    <3> QED BY <2>7, <3>1, DueInOrder
  <2>10. Scheduled(T, l)
    <3>1. \A k \in {1, 2, 3} : T[k].number = k /\ (k > 1 => k \in {2, 3})
      BY <2>7
    <3> QED BY <1>13, <2>1, <2>6, <2>7, <2>8, <2>9, <3>1 DEF Scheduled
  <2>11. T # <<>>
    BY <2>1
  <2> QED BY <1>11, <2>10, <2>11 DEF T
<1> QED BY <1>1, <1>12, <1>13

\* What was paid in, and the two sums of RepaymentsBalance.
Paid == [from : Nat, money : Nat]
Amounts(list) == [i \in DOMAIN list |-> list[i].money]

\* What the loan, its rows and what was received hold.
InstalTypes ==
  /\ loan \in Loans /\ rows \in Seq(Instal!InstalmentRows) /\ booked \in Nat
  /\ storing \in [Workers -> {"idle", "read", "store"}] /\ received \in Seq(Paid)

\* What was booked on the rows is no more than was received, and the rest is owed.
Books ==
  /\ Instal!SumFunction(Paids(rows)) = booked
  /\ booked <= Instal!SumFunction(Amounts(received))
  /\ balance = (IF loan.amount - booked > 0 THEN loan.amount - booked ELSE 0)
  /\ \A k \in DOMAIN rows : rows[k].paid <= rows[k].amount

\* The rows are a schedule of the loan, and its books are right.
InstalInv == InstalTypes /\ (rows # <<>> => Scheduled(rows, loan)) /\ Books

\* The invariant is what the properties say.
LEMMA InstalmentsAreRight ==
  ASSUME InstalInv
  PROVE  Instal!ScheduleAddsUp /\ Instal!RepaymentsBalance /\ Instal!InstalTypeOK
<1>1. Instal!ScheduleAddsUp
  BY ScheduleIsRight DEF InstalInv
<1>2. Instal!SumOf("paid") = Instal!SumFunction(Paids(rows))
  BY DEF Instal!SumOf, Paids
<1>3. Instal!RepaymentsBalance
  BY <1>2 DEF InstalInv, Books, Amounts, Instal!RepaymentsBalance, Instal!LargerOf
<1>4. loan.amount \in Nat /\ loan.status \in Instal!LoanStatuses
  BY DEF InstalInv, InstalTypes, Loans
<1>5. balance \in 0..loan.amount
  BY <1>4 DEF InstalInv, InstalTypes, Books
<1> QED BY <1>1, <1>3, <1>4, <1>5 DEF InstalInv, InstalTypes, Instal!InstalTypeOK

\* Nothing is paid of no rows.
LEMMA NothingAddsUp ==
  ASSUME NEW table, \A k \in DOMAIN table : table[k].paid = 0, IsFiniteSet(DOMAIN table)
  PROVE  Instal!SumFunction(Paids(table)) = 0
<1>1. DOMAIN Paids(table) = DOMAIN table /\ \A k \in DOMAIN table : Paids(table)[k] = 0
  BY DEF Paids
<1>2. SumFunctionOnSet(Paids(table), {}) = SumFunctionOnSet(Paids(table), DOMAIN table)
  BY <1>1, SumSkipsZeros
<1> QED BY <1>1, <1>2, SumEmpty, InstalmentSums

\* At first there are neither rows nor payments.
LEMMA InitInstal == Instal!InstalInit => InstalInv
<1> SUFFICES ASSUME Instal!InstalInit PROVE InstalInv
  OBVIOUS
<1>1. /\ rows = <<>> /\ balance = loan.amount /\ booked = 0 /\ received = <<>>
      /\ storing = [v \in Workers |-> "idle"]
  BY DEF Instal!InstalInit
<1>2. loan \in Loans
  BY DEF Instal!InstalInit, Loans, Instal!LoanStatuses
<1>3. loan.amount \in Nat /\ loan.amount > 0
  BY <1>2 DEF Loans
<1>4. rows \in Seq(Instal!InstalmentRows) /\ received \in Seq(Paid) /\ DOMAIN rows = {} /\ DOMAIN received = {}
  BY <1>1
<1>5. Instal!SumFunction(Paids(rows)) = 0
  BY <1>4, FS_EmptySet, NothingAddsUp
<1>6. Instal!SumFunction(Amounts(received)) = 0
  <2>1. DOMAIN Amounts(received) = {}
    BY <1>4 DEF Amounts
  <2> QED BY <2>1, SumEmpty, InstalmentSums
<1>7. Books
  BY <1>1, <1>3, <1>4, <1>5, <1>6 DEF Books
<1> QED BY <1>1, <1>2, <1>4, <1>7 DEF InstalInv, InstalTypes

\* A loan that only changes its status has the same schedule.
LEMMA LoanKeepsSchedule ==
  ASSUME loan \in Loans, NEW st \in Instal!LoanStatuses, loan' = [loan EXCEPT !.status = st]
  PROVE  /\ loan' \in Loans /\ loan'.amount = loan.amount
         /\ \A t : Scheduled(t, loan) <=> Scheduled(t, loan')
<1>1. /\ loan' \in Loans /\ loan'.amount = loan.amount /\ loan'.rate = loan.rate
      /\ loan'.term = loan.term /\ loan'.start = loan.start
  BY DEF Loans
<1> QED BY <1>1 DEF Scheduled

\* The schedule is stored where there is none.
LEMMA StoreRows ==
  ASSUME InstalInv, rows = <<>>, rows' = Instal!Stored(loan), UNCHANGED <<booked, received>>,
         loan' \in Loans, loan'.amount = loan.amount, \A t : Scheduled(t, loan) <=> Scheduled(t, loan'),
         balance' \in {balance, loan.amount}, storing' \in [Workers -> {"idle", "read", "store"}]
  PROVE  InstalInv'
<1>1. loan \in Loans /\ loan.amount \in Nat /\ loan.amount > 0
  BY DEF InstalInv, InstalTypes, Loans
<1>2. /\ rows' \in Seq(Instal!InstalmentRows) /\ Scheduled(rows', loan)
      /\ \A k \in DOMAIN rows' : rows'[k].paid = 0
  BY <1>1, StoredAddsUp
<1>3. IsFiniteSet(DOMAIN rows')
  BY <1>2, FS_Interval
<1>4. Instal!SumFunction(Paids(rows')) = 0
  BY <1>2, <1>3, NothingAddsUp
<1>5. booked = 0
  <2>1. DOMAIN rows = {}
    OBVIOUS
  <2>2. Instal!SumFunction(Paids(rows)) = 0
    BY <2>1, FS_EmptySet, NothingAddsUp
  <2> QED BY <2>2 DEF InstalInv, Books
<1>6. balance = loan.amount
  BY <1>1, <1>5 DEF InstalInv, Books
<1>7. \A k \in DOMAIN rows' : rows'[k].paid <= rows'[k].amount
  <2>1. \A k \in DOMAIN rows' : rows'[k] \in Instal!InstalmentRows
    BY <1>2
  <2> QED BY <1>2, <2>1 DEF Instal!InstalmentRows
<1>8. Books'
  <2>1. /\ Instal!SumFunction(Paids(rows')) = booked'
        /\ booked' <= Instal!SumFunction(Amounts(received'))
    BY <1>4, <1>5 DEF InstalInv, Books
  <2>2. balance' = (IF loan'.amount - booked' > 0 THEN loan'.amount - booked' ELSE 0)
    BY <1>1, <1>5, <1>6
  <2> QED BY <1>7, <2>1, <2>2 DEF Books
<1> QED BY <1>2, <1>8 DEF InstalInv, InstalTypes

\* The approval, in the code or by staff, the pay-out, and the requests for the schedule.
LEMMA ScheduleSteps ==
  ASSUME InstalInv,
         \/ Instal!ApproveLoan \/ Instal!StaffApprovesLoan \/ Instal!LoanIsActive
         \/ \E v \in Workers : Instal!LookAtSchedule(v) \/ Instal!ReadLoan(v) \/ Instal!ViewStores(v)
         \/ UNCHANGED instalments
  PROVE  InstalInv'
<1>0. InstalTypes
  BY DEF InstalInv
<1>1. ASSUME loan' \in Loans, loan'.amount = loan.amount,
             \A t : Scheduled(t, loan) <=> Scheduled(t, loan'),
             UNCHANGED <<rows, balance, booked, received>>,
             storing' \in [Workers -> {"idle", "read", "store"}]
      PROVE  InstalInv'
  BY <1>0, <1>1 DEF InstalInv, InstalTypes, Books
<1>2. ASSUME NEW st \in Instal!LoanStatuses, loan' = [loan EXCEPT !.status = st],
             UNCHANGED <<storing, booked, received>>,
             \/ UNCHANGED <<rows, balance>>
             \/ rows = <<>> /\ rows' = Instal!Stored(loan) /\ balance' = loan.amount
      PROVE  InstalInv'
  <2>1. /\ loan' \in Loans /\ loan'.amount = loan.amount
        /\ \A t : Scheduled(t, loan) <=> Scheduled(t, loan')
    BY <1>0, <1>2, LoanKeepsSchedule DEF InstalTypes
  <2>2. storing' \in [Workers -> {"idle", "read", "store"}]
    BY <1>0, <1>2 DEF InstalTypes
  <2> QED BY <1>1, <1>2, <2>1, <2>2, StoreRows
<1>3. CASE Instal!ApproveLoan \/ Instal!StaffApprovesLoan \/ Instal!LoanIsActive
  <2>1. "APPROVED" \in Instal!LoanStatuses /\ "ACTIVE" \in Instal!LoanStatuses
    BY DEF Instal!LoanStatuses
  <2> QED BY <1>2, <1>3, <2>1 DEF Instal!ApproveLoan, Instal!StaffApprovesLoan, Instal!LoanIsActive
<1>4. CASE UNCHANGED instalments
  BY <1>0, <1>1, <1>4 DEF instalments, InstalTypes
<1>5. ASSUME NEW v \in Workers, Instal!LookAtSchedule(v) \/ Instal!ReadLoan(v) PROVE InstalInv'
  <2>1. /\ UNCHANGED <<loan, rows, balance, booked, received>>
        /\ storing' \in [Workers -> {"idle", "read", "store"}]
    BY <1>0, <1>5 DEF Instal!LookAtSchedule, Instal!ReadLoan, InstalTypes
  <2> QED BY <1>0, <1>1, <2>1 DEF InstalTypes
<1>6. ASSUME NEW v \in Workers, Instal!ViewStores(v) PROVE InstalInv'
  <2>1. /\ UNCHANGED <<loan, balance, booked, received>>
        /\ storing' \in [Workers -> {"idle", "read", "store"}]
        /\ rows' = (IF rows = <<>> THEN Instal!Stored(loan) ELSE rows)
    BY <1>0, <1>6 DEF Instal!ViewStores, Instal!StoredOver, InstalTypes
  <2>2. CASE rows = <<>>
    BY <1>0, <2>1, <2>2, StoreRows DEF InstalTypes
  <2>3. CASE rows # <<>>
    BY <1>0, <1>1, <2>1, <2>3 DEF InstalTypes
  <2> QED BY <2>2, <2>3
<1> QED BY <1>3, <1>4, <1>5, <1>6

\* A table whose rows are the same but for what is paid has the same schedule.
LEMMA PaidKeepsSchedule ==
  ASSUME NEW s, NEW t, NEW l, Len(s) = Len(t), DOMAIN s = DOMAIN t, DOMAIN t = 1..Len(t),
         Len(t) \in Nat, t # <<>>, Len(t) # 0, \A k \in DOMAIN t : SameRow(s[k], t[k]), Scheduled(t, l)
  PROVE  Scheduled(s, l)
<1>1. Principals(s) = Principals(t)
  BY DEF Principals, SameRow
<1>2. 1 \in DOMAIN t /\ Len(t) \in DOMAIN t
  OBVIOUS
<1>3. \A k \in DOMAIN t : k > 1 => k - 1 \in DOMAIN t
  OBVIOUS
<1>4. \A k \in DOMAIN t : k > 1 => Instal!MonthOf(s[k].due) = Instal!MonthOf(s[k - 1].due) + 1
  BY <1>3 DEF SameRow, Scheduled
<1> QED BY <1>1, <1>2, <1>4 DEF SameRow, Scheduled

\* A payment goes into the instalments, the balance and the ledger alike.
LEMMA RepayStep ==
  ASSUME InstalInv, NEW from \in 1..loan.term, NEW cash \in {40, 400},
         Instal!RepayInstalments(from, cash)
  PROVE  InstalInv'
<1> DEFINE t == Instal!Allocated(rows, from, cash)
           applied == cash - t.left
<1>1. /\ received' = Append(received, [from |-> from, money |-> cash]) /\ rows' = t.rows
      /\ balance' = (IF applied > 0 THEN Instal!Lowered(balance, applied) ELSE balance)
      /\ booked' = booked + applied /\ UNCHANGED <<loan, storing>>
  BY DEF Instal!RepayInstalments
<1>2. InstalTypes /\ Books /\ loan.amount \in Nat /\ from \in Nat
  BY DEF InstalInv, InstalTypes, Loans
<1>3. /\ rows' \in Seq(Instal!InstalmentRows) /\ Len(rows') = Len(rows) /\ t.left \in 0..cash
      /\ \A j \in DOMAIN rows : SameRow(rows'[j], rows[j]) /\ rows'[j].paid <= rows'[j].amount
      /\ Instal!SumFunction(Paids(rows')) = Instal!SumFunction(Paids(rows)) + applied
  <2>1. rows \in Seq(Instal!InstalmentRows) /\ cash \in Nat
        /\ \A j \in DOMAIN rows : rows[j].paid <= rows[j].amount
    BY <1>2 DEF InstalTypes, Books
  <2> QED BY <1>1, <2>1, AllocationAddsUp
<1>4. applied \in Nat /\ applied <= cash
  BY <1>3
<1> HIDE DEF t, applied
<1>5. /\ DOMAIN rows' = DOMAIN rows /\ DOMAIN rows = 1..Len(rows) /\ Len(rows) \in Nat
      /\ rows' # <<>> => rows # <<>> /\ Len(rows) # 0
  BY <1>2, <1>3 DEF InstalTypes
<1>6. rows' # <<>> => Scheduled(rows', loan')
  BY <1>1, <1>3, <1>5, PaidKeepsSchedule DEF InstalInv
<1>7. /\ received' \in Seq(Paid)
      /\ Instal!SumFunction(Amounts(received')) = Instal!SumFunction(Amounts(received)) + cash
      /\ Instal!SumFunction(Amounts(received)) \in Int
  <2> DEFINE p == [from |-> from, money |-> cash]
             n == Len(received) + 1
  <2>1. p \in Paid /\ p.money = cash
    BY <1>2 DEF Paid
  <2> HIDE DEF p
  <2>2. /\ received \in Seq(Paid) /\ received' \in Seq(Paid) /\ received' = Append(received, p)
    BY <1>1, <1>2, <2>1 DEF InstalTypes, p
  <2>3. /\ n \notin DOMAIN received /\ received'[n] = p /\ DOMAIN received' = DOMAIN received \cup {n}
        /\ \A k \in DOMAIN received : received'[k] = received[k]
    BY <2>1, <2>2
  <2>4. IsFiniteSet(DOMAIN received)
    BY <2>2, FS_Interval
  <2> HIDE DEF n
  <2>5. /\ DOMAIN Amounts(received) = DOMAIN received
        /\ DOMAIN Amounts(received') = DOMAIN received \cup {n}
        /\ Amounts(received')[n] = cash
        /\ \A k \in DOMAIN received : Amounts(received')[k] = Amounts(received)[k]
    BY <2>1, <2>3 DEF Amounts
  <2>6. \A k \in DOMAIN received : Amounts(received)[k] \in Int
    <3>1. \A k \in DOMAIN received : received[k] \in Paid
      BY <2>2
    <3>2. \A r \in Paid : r.money \in Int
      BY DEF Paid
    <3>3. \A k \in DOMAIN received : received[k].money \in Int
      BY <3>1, <3>2
    <3>4. \A k \in DOMAIN received : Amounts(received)[k] = received[k].money
      BY DEF Amounts
    <3> QED  BY <3>3, <3>4
  <2>7. \A k \in DOMAIN received \cup {n} : Amounts(received')[k] \in Int
    BY <2>5, <2>6
  <2>8. SumFunctionOnSet(Amounts(received'), DOMAIN received \cup {n})
        = Amounts(received')[n] + SumFunctionOnSet(Amounts(received'), DOMAIN received)
    BY <2>3, <2>4, <2>7, SumAdd
  <2>9. SumFunctionOnSet(Amounts(received'), DOMAIN received)
        = SumFunctionOnSet(Amounts(received), DOMAIN received)
    BY <2>4, <2>5, SumSame
  <2>10. SumFunctionOnSet(Amounts(received), DOMAIN received) \in Int
    BY <2>4, <2>6, SumInt
  <2>11. Instal!SumFunction(Amounts(received')) = cash + Instal!SumFunction(Amounts(received))
         /\ Instal!SumFunction(Amounts(received)) \in Int
    BY <2>5, <2>8, <2>9, <2>10, InstalmentSums
  <2> QED BY <2>2, <2>11
<1>8. Books'
  <2>1. Instal!SumFunction(Paids(rows')) = booked'
    BY <1>1, <1>2, <1>3 DEF Books
  <2>2. booked \in Nat /\ booked' \in Nat
    BY <1>1, <1>2, <1>4 DEF InstalTypes
  <2>3. booked' <= Instal!SumFunction(Amounts(received'))
    BY <1>1, <1>2, <1>4, <1>7, <2>2 DEF Books
  <2>4. balance' = (IF loan'.amount - booked' > 0 THEN loan'.amount - booked' ELSE 0)
    BY <1>1, <1>2, <1>4, <2>2, SMTT(30) DEF Books, Instal!Lowered, Instal!LargerOf
  <2>5. \A k \in DOMAIN rows' : rows'[k].paid <= rows'[k].amount
    BY <1>3, <1>5
  <2> QED BY <2>1, <2>3, <2>4, <2>5 DEF Books
<1>9. InstalTypes'
  BY <1>1, <1>2, <1>3, <1>4, <1>7 DEF InstalTypes
<1> QED BY <1>6, <1>8, <1>9 DEF InstalInv

\* The part keeps its invariant, while others step as well.
LEMMA StepInstal ==
  ASSUME InstalInv,
         [Next]_<<part, applications, instalments, reminders, campaigns, billing,
                  dividends, imports, monitors, notices, credit>>
  PROVE  InstalInv'
<1>1. CASE Instal!InstalNext
  BY <1>1, ScheduleSteps, RepayStep DEF Instal!InstalNext
<1>2. CASE UNCHANGED instalments
  BY <1>2, ScheduleSteps
<1> QED BY <1>1, <1>2 DEF Next

\* A stored schedule has every instalment once and makes up the loan, and the ledger has
\* booked what the instalments took (services/engines/amortization.py, payments/tasks.py
\* _apply_loan_repayment).
THEOREM SchedulesAddUp == Spec => []InstalmentsAddUp
<1>1. Init => InstalInv
  BY InitInstal DEF Init
<1>2. InstalInv
      /\ [Next]_<<part, applications, instalments, reminders, campaigns, billing,
                  dividends, imports, monitors, notices, credit>> => InstalInv'
  BY StepInstal
<1>3. InstalInv => InstalmentsAddUp
  BY InstalmentsAreRight DEF InstalmentsAddUp
<1> QED BY <1>1, <1>2, <1>3, PTL DEF Spec
=============================================================================

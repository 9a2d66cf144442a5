---------------------------- MODULE CreditChecks ----------------------------
(***************************************************************************)
(* The credit reference check of one loan application (services/views.py   *)
(* CRBCheckView, services/integrations/metropol_client.py) and the         *)
(* approval that looks at the latest check (saccomanagement/admin_views.py *)
(* AdminLoanApprovalView).  A check is looked for, asked of the bureau and *)
(* filed in separate steps, and the approval reads the checks before the   *)
(* transaction that saves it.                                              *)
(***************************************************************************)
EXTENDS Integers, Sequences

CONSTANTS
  Officers,   \* requests of SACCO admins at the same time
  Window,     \* days an answer is used again
  LastDate,   \* bound on days
  MaxChecks   \* bound on checks

VARIABLES
  blacklisted, \* what the bureau says of the member now
  checks,      \* the CRBCheck rows of the loan, by checked_at
  verdict,     \* status of the loan
  officer,     \* what every request is doing
  calendar,    \* days
  overlapped,  \* history: two checks were made at the same time
  overtaken,   \* history: a check was filed while an approval was on its way
  grounds      \* history: what the approval went by

creditVars == <<blacklisted, checks, verdict, officer, calendar, overlapped, overtaken, grounds>>

Away == [op |-> "none"]

NoGrounds == [negative |-> FALSE, override |-> FALSE]

CreditInit ==
  /\ blacklisted \in BOOLEAN /\ checks = <<>> /\ verdict = "UNDER_REVIEW"
  /\ officer = [o \in Officers |-> Away] /\ calendar = 0
  /\ overlapped = FALSE /\ overtaken = FALSE /\ grounds = NoGrounds

Begin(o, r) == officer[o] = Away /\ officer' = [officer EXCEPT ![o] = r]

Turn(o, r) == officer' = [officer EXCEPT ![o] = r]

Checking(o) == officer[o].op \in {"ask", "file"}

\* Mutant: only what was filed today is recent.
RecentFromToday == \E i \in DOMAIN checks : checks[i].on = calendar

Recent == \E i \in DOMAIN checks : calendar - checks[i].on <= Window

Latest == checks[Len(checks)]

\* A request that finds a recent check answers with it and changes nothing.
StartCheck(o, refresh) ==
  /\ Begin(o, [op |-> "ask", forced |-> refresh])
  /\ refresh \/ ~Recent
  /\ overlapped' = (overlapped \/ \E p \in Officers : Checking(p))
  /\ UNCHANGED <<blacklisted, checks, verdict, calendar, overtaken, grounds>>

\* Under whatever name the bureau sends it.
ListedNegative == blacklisted

AskBureau(o) ==
  /\ officer[o].op = "ask"
  /\ Turn(o, [op |-> "file", forced |-> officer[o].forced, negative |-> ListedNegative])
  /\ UNCHANGED <<blacklisted, checks, verdict, calendar, overlapped, overtaken, grounds>>

\* 503, and no row.
BureauFails(o) ==
  /\ officer[o].op = "ask" /\ Turn(o, Away)
  /\ UNCHANGED <<blacklisted, checks, verdict, calendar, overlapped, overtaken, grounds>>

FileCheck(o) ==
  LET r == officer[o] IN
  /\ r.op = "file" /\ Len(checks) < MaxChecks
  /\ checks' = Append(checks, [negative |-> r.negative, on |-> calendar, forced |-> r.forced])
  /\ overtaken' = (overtaken \/ \E p \in Officers : officer[p].op = "approve")
  /\ Turn(o, Away)
  /\ UNCHANGED <<blacklisted, verdict, calendar, overlapped, grounds>>

\* Mutant: any clean check will do.
NeedsOverrideAtFirst == checks[1].negative

NeedsOverride == Latest.negative

\* A check there must be, however old; a negative one needs a reason.
ReadForApproval(o, reason) ==
  /\ verdict = "UNDER_REVIEW" /\ checks # <<>>
  /\ NeedsOverride => reason
  /\ Begin(o, [op |-> "approve", override |-> reason])
  /\ UNCHANGED <<blacklisted, checks, verdict, calendar, overlapped, overtaken, grounds>>

SaveApproval(o) ==
  /\ officer[o].op = "approve" /\ verdict' = "APPROVED"
  /\ grounds' = [negative |-> Latest.negative, override |-> officer[o].override]
  /\ Turn(o, Away)
  /\ UNCHANGED <<blacklisted, checks, calendar, overlapped, overtaken>>

BureauLearns ==
  /\ blacklisted' = ~blacklisted
  /\ UNCHANGED <<checks, verdict, officer, calendar, overlapped, overtaken, grounds>>

DatePasses ==
  /\ calendar < LastDate /\ calendar' = calendar + 1
  /\ UNCHANGED <<blacklisted, checks, verdict, officer, overlapped, overtaken, grounds>>

CreditNext ==
  \/ \E o \in Officers :
       \/ \E yes \in BOOLEAN : StartCheck(o, yes) \/ ReadForApproval(o, yes)
       \/ AskBureau(o) \/ BureauFails(o) \/ FileCheck(o) \/ SaveApproval(o)
  \/ BureauLearns \/ DatePasses

-----------------------------------------------------------------------------
(* Properties *)

CreditTypeOK ==
  /\ \A i \in DOMAIN checks : checks[i].negative \in BOOLEAN /\ checks[i].on \in 0..calendar
  /\ verdict \in {"UNDER_REVIEW", "APPROVED"} /\ calendar \in 0..LastDate
  /\ grounds \in [negative : BOOLEAN, override : BOOLEAN]

\* A member whose latest check is negative is approved only with a reason,
\* unless that check was filed while the approval was on its way; and without
\* force_refresh the bureau is not asked again within the window, unless two
\* requests asked at the same time (services/views.py CRBCheckView,
\* saccomanagement/admin_views.py partial_update).
ApprovedOnCheck ==
  /\ grounds.negative => grounds.override \/ overtaken
  /\ \/ overlapped
     \/ \A i, j \in DOMAIN checks :
          i < j /\ ~checks[j].forced => checks[j].on - checks[i].on > Window
=============================================================================

----------------------------- MODULE PaymentBook -----------------------------
(***************************************************************************)
(* What the collection of member payments promises: a payment is booked    *)
(* only after the money moved, once, and with all its effects together:    *)
(* the ledger entry, the credit of the saving it was for, the reduction of *)
(* the loan it was for.  Amounts are counted in units of one payment.      *)
(***************************************************************************)
EXTENDS Naturals

CONSTANTS
    Payments,     \* everything that can be paid
    Deposits,     \* the payments that credit the saving
    Repayments,   \* the payments that reduce the loan
    Owed          \* instalments owed at the start

VARIABLES paid, booked, savings, owed

Init == paid = {} /\ booked = {} /\ savings = 0 /\ owed = Owed

Pay(p) ==
    /\ p \notin paid
    /\ paid' = paid \cup {p}
    /\ UNCHANGED <<booked, savings, owed>>

\* A repayment is booked only while an instalment is open.
Book(p) ==
    /\ p \in paid \ booked
    /\ p \in Repayments => owed > 0
    /\ booked' = booked \cup {p}
    /\ savings' = IF p \in Deposits THEN savings + 1 ELSE savings
    /\ owed' = IF p \in Repayments THEN owed - 1 ELSE owed
    /\ UNCHANGED paid

Next == \E p \in Payments : Pay(p) \/ Book(p)

Spec == Init /\ [][Next]_<<paid, booked, savings, owed>>
=============================================================================

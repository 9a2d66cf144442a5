----------------------------- MODULE OneTimeCode -----------------------------
(***************************************************************************)
(* One-time codes by SMS and e-mail: the send, resend and verify endpoints *)
(* and the password reset (accounts/views.py 837-1111), the tokens behind  *)
(* them (accounts/otp_utils.py), their delivery (accounts/otp_backends.py) *)
(* and the clean-up task (accounts/tasks.py).                              *)
(*                                                                         *)
(* One phone number and one account that may be registered with it.  No    *)
(* handler opens a transaction, so each of its writes is a step of its     *)
(* own; a request record holds what the handler has read.  Codes are as    *)
(* good as unique: a code is named by the position of its token.  Time     *)
(* counts in units of twelve minutes: a code lives shorter than one        *)
(* unit (OTP_EXPIRY_MINUTES = 5), the resend cooldown is one unit, and a   *)
(* day is MaxTime.                                                         *)
(***************************************************************************)
EXTENDS Integers, Sequences, FiniteSets

CONSTANTS
  Workers,      \* web workers
  Purposes,     \* OTPToken.Purpose
  Channels,     \* OTPToken.Channel, EMAIL only with OTP_EMAIL_ENABLED
  Spellings,    \* ways to write the number that the serializer lets through
  MaxAttempts,  \* OTP_MAX_ATTEMPTS
  MaxTokens,    \* bound on tokens
  MaxTime,      \* bound on the clock
  MaxChecks,    \* bound on codes entered
  None          \* no user, no token, nothing delivered

VARIABLES
  tokens,    \* the OTPToken rows in the order of their creation
  phone,     \* the spelling of User.phone_number
  otpClock,  \* time
  otpReq,    \* what every worker is doing
  checks,    \* codes entered so far
  accepted,  \* history: what verify_otp accepted, one entry each time
  met,       \* history: tokens that two requests had read at once
  twins      \* history: tokens created while another of the purpose was

otpVars == <<tokens, phone, otpClock, otpReq, checks, accepted, met, twins>>

Idle == [op |-> "idle"]

\* A row of accounts_otptoken, without the channel, which is stored and never read.
\* sent (whether it reached the phone or the mailbox) and entered (comparisons with
\* this code) are history.
TokenRows == [user : {"member", None}, purpose : Purposes, used : BOOLEAN,
              attempts : 0..MaxChecks, created : 0..MaxTime, deleted : BOOLEAN,
              sent : BOOLEAN, entered : 0..MaxChecks]

OtpInit ==
  /\ tokens = <<>> /\ phone \in Spellings
  /\ otpClock = 0 /\ otpReq = [w \in Workers |-> Idle]
  /\ checks = 0 /\ accepted = {} /\ met = {} /\ twins = {}

Expired(t) == otpClock > tokens[t].created

\* Every spelling is stored as one canonical number, so all tokens are about
\* the same number; the account is looked up by the spelling as it came.
AccountOf(spelling) == IF spelling = phone THEN "member" ELSE None

\* Mutant: only tokens without an account are used up.
ReplacedAnonymous(user, purpose) ==
  {t \in DOMAIN tokens : /\ ~tokens[t].used /\ ~tokens[t].deleted
                         /\ tokens[t].purpose = purpose /\ tokens[t].user = None}

\* Unused tokens of the purpose; with an account only those of the account.
Replaced(user, purpose) ==
  {t \in DOMAIN tokens : /\ ~tokens[t].used /\ ~tokens[t].deleted
                         /\ tokens[t].purpose = purpose
                         /\ user # None => tokens[t].user = user}

UseUp(gone) == [t \in DOMAIN tokens |->
                  IF t \in gone THEN [tokens[t] EXCEPT !.used = TRUE] ELSE tokens[t]]

-----------------------------------------------------------------------------
(* Sending a code *)

StartSend(w, purpose, channel, spelling) ==
  /\ otpReq[w] = Idle /\ Len(tokens) < MaxTokens
  /\ AccountOf(spelling) # None \/ purpose = "PHONE_VERIFY"
  /\ otpReq' = [otpReq EXCEPT ![w] =
       [op |-> "expire", purpose |-> purpose, channel |-> channel,
        user |-> AccountOf(spelling)]]
  /\ UNCHANGED <<tokens, phone, otpClock, checks, accepted, met, twins>>

\* Refused until the cooldown after the latest token of any purpose is over.
CooledDown == \A t \in DOMAIN tokens :
                ~tokens[t].deleted => otpClock > tokens[t].created

\* The resend endpoint uses up every unused token of the purpose first, whoever
\* asked for it.
StartResend(w, purpose, channel, spelling) ==
  /\ otpReq[w] = Idle /\ Len(tokens) < MaxTokens
  /\ CooledDown /\ AccountOf(spelling) # None
  /\ tokens' = UseUp(Replaced(None, purpose))
  /\ otpReq' = [otpReq EXCEPT ![w] =
       [op |-> "expire", purpose |-> purpose, channel |-> channel, user |-> "member"]]
  /\ UNCHANGED <<phone, otpClock, checks, accepted, met, twins>>

\* Always by SMS, and no answer tells whether there is an account.
StartReset(w, spelling) ==
  /\ otpReq[w] = Idle /\ Len(tokens) < MaxTokens
  /\ AccountOf(spelling) # None
  /\ otpReq' = [otpReq EXCEPT ![w] =
       [op |-> "expire", purpose |-> "PASSWORD_RESET", channel |-> "PHONE",
        user |-> "member"]]
  /\ UNCHANGED <<tokens, phone, otpClock, checks, accepted, met, twins>>

\* create_otp_token: the update that uses up the older tokens ...
ExpireOlder(w) ==
  LET r == otpReq[w] IN
  /\ r.op = "expire"
  /\ tokens' = UseUp(Replaced(r.user, r.purpose))
  /\ otpReq' = [otpReq EXCEPT ![w].op = "create"]
  /\ UNCHANGED <<phone, otpClock, checks, accepted, met, twins>>

\* ... and the new row, a statement of its own.
CreateToken(w) ==
  LET r == otpReq[w]
      racing == {v \in Workers \ {w} : /\ otpReq[v].op = "create"
                                       /\ otpReq[v].purpose = r.purpose}
  IN
  /\ r.op = "create" /\ Len(tokens) < MaxTokens
  /\ tokens' = Append(tokens,
       [user |-> r.user, purpose |-> r.purpose, used |-> FALSE, attempts |-> 0,
        created |-> otpClock, deleted |-> FALSE, sent |-> FALSE, entered |-> 0])
  /\ twins' = IF racing # {} THEN twins \cup {Len(tokens) + 1} ELSE twins
  /\ otpReq' = [otpReq EXCEPT ![w] = [op |-> "deliver", token |-> Len(tokens) + 1,
                                       channel |-> r.channel]]
  /\ UNCHANGED <<phone, otpClock, checks, accepted, met>>

\* Whether the code arrives.  An SMS is tried twice unless the gateway refuses
\* it, and a try that fails on the network may have been delivered.
SmsResults == BOOLEAN

\* An e-mail is tried once, and needs an account.
EmailResults(user) == IF user = None THEN {FALSE} ELSE BOOLEAN

Backend(channel, user) == IF channel = "PHONE" THEN SmsResults ELSE EmailResults(user)

\* The answer is 200 or 502.  A reset means to answer 200 in both cases, but ends
\* in a 500 when the sending fails, because `logging` is not imported there
\* (accounts/views.py 1072).  No state depends on the answer.
Deliver(w) ==
  LET t == otpReq[w].token IN
  /\ otpReq[w].op = "deliver"
  /\ \E result \in Backend(otpReq[w].channel, tokens[t].user) :
       tokens' = [tokens EXCEPT ![t].sent = result]
  /\ otpReq' = [otpReq EXCEPT ![w] = Idle]
  /\ UNCHANGED <<phone, otpClock, checks, accepted, met, twins>>

-----------------------------------------------------------------------------
(* Entering a code *)

\* Mutant: the expiry of a token is not looked at.
LiveForEver(purpose) == {t \in DOMAIN tokens : /\ ~tokens[t].used /\ ~tokens[t].deleted
                                               /\ tokens[t].purpose = purpose}

\* .first() of the live tokens, which are ordered by -created_at.
Live(purpose) == {t \in DOMAIN tokens : /\ ~tokens[t].used /\ ~tokens[t].deleted
                                        /\ tokens[t].purpose = purpose
                                        /\ ~Expired(t)}

Newest(ts) == CHOOSE t \in ts : \A u \in ts : u <= t

\* What can be typed in: a code that was delivered, or something else.
Codes == {t \in DOMAIN tokens : tokens[t].sent} \cup {None}

\* verify_otp, from the phone endpoint or the reset's confirmation: the read.
\* Without a live token the answer is 400 and nothing changes.
ReadToken(w, purpose, spelling) ==
  /\ otpReq[w] = Idle /\ checks < MaxChecks /\ Live(purpose) # {}
  /\ LET t == Newest(Live(purpose)) IN
       /\ \E code \in Codes :
            otpReq' = [otpReq EXCEPT ![w] =
              [op |-> "count", token |-> t, attempts |-> tokens[t].attempts,
               code |-> code, purpose |-> purpose, spelling |-> spelling,
               at |-> otpClock]]
       /\ met' = IF \E v \in Workers \ {w} :
                      /\ otpReq[v].op \in {"count", "mark"} /\ otpReq[v].token = t
                 THEN met \cup {t} ELSE met
  /\ checks' = checks + 1
  /\ UNCHANGED <<tokens, phone, otpClock, accepted, twins>>

\* Saving a row that the clean-up has deleted fails, and the answer is 500.
LoseToken(w) ==
  /\ otpReq[w].op \in {"count", "mark"} /\ tokens[otpReq[w].token].deleted
  /\ otpReq' = [otpReq EXCEPT ![w] = Idle]
  /\ UNCHANGED <<tokens, phone, otpClock, checks, accepted, met, twins>>

\* Mutant: the limit is checked before the attempt is counted.
WithinLimitBefore(attempts) == attempts - 1 <= MaxAttempts

WithinLimit(attempts) == attempts <= MaxAttempts

\* The attempt read is counted up and saved; then limit and code are checked.
CountAttempt(w) ==
  LET r == otpReq[w] IN
  /\ r.op = "count" /\ ~tokens[r.token].deleted
  /\ IF WithinLimit(r.attempts + 1)
     THEN /\ tokens' = [tokens EXCEPT ![r.token].attempts = r.attempts + 1,
                                      ![r.token].entered = @ + 1]
          /\ otpReq' = [otpReq EXCEPT ![w] = IF r.code = r.token
                                             THEN [r EXCEPT !.op = "mark"] ELSE Idle]
     ELSE /\ tokens' = [tokens EXCEPT ![r.token].attempts = r.attempts + 1]
          /\ otpReq' = [otpReq EXCEPT ![w] = Idle]
  /\ UNCHANGED <<phone, otpClock, checks, accepted, met, twins>>

\* is_used is saved whatever the row says by now.  A reset then stores the new
\* password of the token's account, which is a matter of module SignIn.
MarkUsed(w) ==
  LET r == otpReq[w] IN
  /\ r.op = "mark" /\ ~tokens[r.token].deleted
  /\ tokens' = UseUp({r.token})
  /\ accepted' = accepted \cup
       {[token |-> r.token, for |-> r.purpose, at |-> r.at,
         nth |-> Cardinality({a \in accepted : a.token = r.token})]}
  /\ otpReq' = [otpReq EXCEPT ![w] =
       IF r.purpose = "PHONE_VERIFY" /\ tokens[r.token].user # None
       THEN [op |-> "save", spelling |-> r.spelling] ELSE Idle]
  /\ UNCHANGED <<phone, otpClock, checks, met, twins>>

\* The phone endpoint stores the number as it was spelled in this request.
SavePhone(w) ==
  /\ otpReq[w].op = "save"
  /\ phone' = otpReq[w].spelling
  /\ otpReq' = [otpReq EXCEPT ![w] = Idle]
  /\ UNCHANGED <<tokens, otpClock, checks, accepted, met, twins>>

-----------------------------------------------------------------------------
(* Clean-up and time *)

Removable(t) == ~tokens[t].deleted /\ IF tokens[t].used THEN Expired(t)
                                      ELSE otpClock - tokens[t].created >= MaxTime

CleanUp ==
  LET gone == {t \in DOMAIN tokens : Removable(t)} IN
  /\ gone # {}
  /\ tokens' = [t \in DOMAIN tokens |->
                  IF t \in gone THEN [tokens[t] EXCEPT !.deleted = TRUE] ELSE tokens[t]]
  /\ UNCHANGED <<phone, otpClock, otpReq, checks, accepted, met, twins>>

Tick == /\ otpClock < MaxTime /\ otpClock' = otpClock + 1
        /\ UNCHANGED <<tokens, phone, otpReq, checks, accepted, met, twins>>

OtpNext ==
  \/ \E w \in Workers :
       \/ \E p \in Purposes, c \in Channels, s \in Spellings :
            StartSend(w, p, c, s) \/ StartResend(w, p, c, s)
       \/ \E s \in Spellings : StartReset(w, s)
       \/ ExpireOlder(w) \/ CreateToken(w) \/ Deliver(w)
       \/ \E p \in Purposes \ {"LOGIN"}, s \in Spellings : ReadToken(w, p, s)
       \/ LoseToken(w) \/ CountAttempt(w) \/ MarkUsed(w) \/ SavePhone(w)
  \/ CleanUp \/ Tick

-----------------------------------------------------------------------------
(* Properties *)

OtpTypeOK ==
  /\ \A t \in DOMAIN tokens : tokens[t] \in TokenRows
  /\ phone \in Spellings /\ otpClock \in 0..MaxTime /\ checks \in 0..MaxChecks
  /\ met \cup twins \subseteq DOMAIN tokens

\* A code is accepted once, and it is compared MaxAttempts times at most, unless
\* two requests had read its token at once (otp_utils.py 196-219 reads, counts,
\* compares and marks without a lock).
CodeIsSpentOnce ==
  \A t \in DOMAIN tokens \ met :
    /\ \A a \in accepted : a.token = t => a.nth = 0
    /\ tokens[t].entered <= MaxAttempts

\* What is accepted was asked for this purpose, reached its receiver, was not
\* expired when the request arrived, even if the code was swapped, replaced or
\* deleted while the request was handled.
AcceptedWasCurrent ==
  \A a \in accepted :
    /\ tokens[a.token].purpose = a.for /\ tokens[a.token].sent
    /\ tokens[a.token].created = a.at

\* Of the codes an account asked for, for one purpose, the latest is the only
\* one that still works, unless two requests created theirs at once
\* (otp_utils.py 122-130 and 139 are separate statements).
OneCodeWorks ==
  \A t, u \in DOMAIN tokens \ twins :
    /\ t # u /\ {tokens[t].user, tokens[u].user} = {"member"}
    /\ tokens[t].purpose = tokens[u].purpose
    => ~({t, u} \subseteq Live(tokens[t].purpose))
=============================================================================

--------------------------- MODULE AccountsProofs ---------------------------
(***************************************************************************)
(* What the parts of MCAccounts promise, for any number of requests at a   *)
(* time, tokens, codes entered, accounts, roles and documents.             *)
(***************************************************************************)
EXTENDS MCAccounts, FiniteSetTheorems, SequenceTheorems, WellFoundedInduction, TLAPS

-----------------------------------------------------------------------------
(* One-time codes                                                          *)

\* Token rows and requests, without the bounds.
CodeRows ==
  [user : {"member", None}, purpose : Purposes \cup {"PASSWORD_RESET"},
   used : BOOLEAN, attempts : Nat, created : Nat, deleted : BOOLEAN,
   sent : BOOLEAN, entered : Nat]

CodeRequests ==
  [op : {"idle"}]
  \cup [op : {"expire", "create"}, purpose : Purposes \cup {"PASSWORD_RESET"},
        channel : Channels \cup {"PHONE"}, user : {"member", None}]
  \cup [op : {"deliver"}, token : Nat, channel : Channels \cup {"PHONE"}]
  \cup [op : {"count", "mark"}, token : Nat, attempts : Nat, code : Nat \cup {None},
        purpose : Purposes, spelling : Spellings, at : Nat]
  \cup [op : {"save"}, spelling : Spellings]

\* verify_otp is at work, with the token it has read.
Entering(w, t) == otpReq[w].op \in {"count", "mark"} /\ otpReq[w].token = t

Delivering(w, t) == otpReq[w].op = "deliver" /\ otpReq[w].token = t

CodeTypes ==
  /\ tokens \in Seq(CodeRows) /\ otpReq \in [Workers -> CodeRequests]
  /\ otpClock \in Nat /\ checks \in Nat

\* Requests and history are about tokens that exist, none of them from the future.
TokensInv ==
  /\ \A t \in DOMAIN tokens : tokens[t].created <= otpClock
  /\ \A w \in Workers : otpReq[w].op \in {"deliver", "count", "mark"} =>
       otpReq[w].token \in DOMAIN tokens
  /\ met \subseteq DOMAIN tokens /\ twins \subseteq DOMAIN tokens
  /\ \A a \in accepted : a.token \in DOMAIN tokens

\* A code is on its way once, and has not arrived before.
DeliveryInv ==
  \A w \in Workers, t \in DOMAIN tokens : Delivering(w, t) =>
    /\ ~tokens[t].sent
    /\ \A v \in Workers : Delivering(v, t) => v = w

\* A code entered is compared with a token of its purpose that was current, and was
\* delivered if it is a code at all.
EnteringInv ==
  \A w \in Workers, t \in DOMAIN tokens : Entering(w, t) =>
    /\ tokens[t].purpose = otpReq[w].purpose /\ tokens[t].created = otpReq[w].at
    /\ otpReq[w].code # None =>
         otpReq[w].code \in DOMAIN tokens /\ tokens[otpReq[w].code].sent
    /\ otpReq[w].op = "mark" => otpReq[w].code = t

\* A token that no two requests had read at once has one request at work at most, which
\* knows its attempts and finds it not accepted yet.
SpentInv ==
  \A t \in DOMAIN tokens \ met :
    /\ tokens[t].entered <= tokens[t].attempts /\ tokens[t].entered <= MaxAttempts
    /\ \A w \in Workers : Entering(w, t) =>
         /\ \A v \in Workers : Entering(v, t) => v = w
         /\ \A a \in accepted : a.token # t
         /\ otpReq[w].op = "count" => otpReq[w].attempts = tokens[t].attempts
    /\ \A a \in accepted : a.token = t => a.nth = 0 /\ tokens[t].used

Usable(t, p) == /\ tokens[t].user = "member" /\ tokens[t].purpose = p
                /\ ~tokens[t].used /\ ~tokens[t].deleted

\* One token of the account is usable for a purpose, and none when the next is created,
\* but for those created at the same time.
LatestInv ==
  /\ \A p : \A t, u \in DOMAIN tokens \ twins : Usable(t, p) /\ Usable(u, p) => t = u
  /\ \A w \in Workers : otpReq[w].op = "create" /\ otpReq[w].user = "member" =>
       \A t \in DOMAIN tokens \ twins : ~Usable(t, otpReq[w].purpose)

CodesInv ==
  /\ CodeTypes /\ TokensInv /\ DeliveryInv /\ EnteringInv /\ SpentInv /\ LatestInv
  /\ AcceptedWasCurrent

CodeAssumptions == None \notin Nat /\ MaxAttempts \in Nat

\* A token list that is changed row by row is a token list.
LEMMA TokenList ==
  ASSUME tokens \in Seq(CodeRows), NEW s, s = [t \in DOMAIN tokens |-> s[t]],
         \A t \in DOMAIN tokens : s[t] \in CodeRows
  PROVE  s \in Seq(CodeRows) /\ DOMAIN s = DOMAIN tokens
<1>1. Len(tokens) \in Nat /\ DOMAIN tokens = 1..Len(tokens)
  BY LenProperties
<1>2. s \in [1..Len(tokens) -> CodeRows]
  BY <1>1
<1> QED BY <1>1, <1>2, SeqDef

\* There are no tokens at first.
LEMMA InitCodes == ASSUME CodeAssumptions, Otp!OtpInit PROVE CodesInv
<1>1. tokens \in Seq(CodeRows) /\ DOMAIN tokens = {}
  BY EmptySeq DEF Otp!OtpInit
<1>2. CodeTypes
  BY <1>1 DEF Otp!OtpInit, CodeTypes, CodeRequests, Otp!Idle
<1> QED BY <1>1, <1>2 DEF Otp!OtpInit, CodesInv, TokensInv, DeliveryInv, EnteringInv,
              SpentInv, LatestInv, AcceptedWasCurrent, Otp!AcceptedWasCurrent, Otp!Idle,
              Entering, Delivering

\* The rows of a token list.
LEMMA RowTypes == \A t : \A s \in Seq(CodeRows) : t \in DOMAIN s => s[t] \in CodeRows
BY ElementOfSeq, LenProperties

\* A row that is at most used up or deleted by a step.
Kept(t) ==
  /\ tokens'[t].user = tokens[t].user /\ tokens'[t].purpose = tokens[t].purpose
  /\ tokens'[t].created = tokens[t].created /\ tokens'[t].sent = tokens[t].sent
  /\ tokens'[t].attempts = tokens[t].attempts /\ tokens'[t].entered = tokens[t].entered
  /\ (tokens[t].used => tokens'[t].used) /\ (tokens[t].deleted => tokens'[t].deleted)

\* Rows are at most used up or deleted, and requests begin or end, or create a token
\* where none is usable any more.
LEMMA QuietRows ==
  ASSUME CodesInv, UNCHANGED <<accepted, met, twins>>, checks' \in Nat,
         otpClock' \in Nat, otpClock' >= otpClock,
         tokens' \in Seq(CodeRows), DOMAIN tokens' = DOMAIN tokens,
         \A t \in DOMAIN tokens : Kept(t),
         otpReq' \in [Workers -> CodeRequests],
         \A v \in Workers :
           \/ otpReq'[v] = otpReq[v]
           \/ otpReq'[v].op \in {"idle", "expire", "save"}
           \/ /\ otpReq'[v].op = "create"
              /\ otpReq'[v].user = "member" =>
                   \A t \in DOMAIN tokens : ~Usable(t, otpReq[v].purpose)'
  PROVE  CodesInv'
<1>1. CodeTypes'
  BY DEF CodesInv, CodeTypes
<1>2. \A t \in DOMAIN tokens : tokens[t].created \in Nat
  BY RowTypes DEF CodesInv, CodeTypes, CodeRows
<1> USE DEF Kept
<1>3. TokensInv'
  BY <1>2 DEF CodesInv, TokensInv, CodeTypes
<1>4. \A t : \A v \in Workers : /\ Entering(v, t)' => Entering(v, t) /\ otpReq'[v] = otpReq[v]
                                /\ Delivering(v, t)' => Delivering(v, t)
  BY DEF Entering, Delivering
<1>5. DeliveryInv'
  BY <1>2, <1>4 DEF CodesInv, DeliveryInv
<1>6. EnteringInv'
  BY <1>2, <1>4 DEF CodesInv, EnteringInv
<1>7. SpentInv'
  BY <1>2, <1>4 DEF CodesInv, SpentInv
<1>8. LatestInv'
  <2>1. \A p : \A t \in DOMAIN tokens : Usable(t, p)' => Usable(t, p)
    BY <1>2 DEF Usable
  <2>2. \A p : \A t, u \in DOMAIN tokens \ twins : Usable(t, p)' /\ Usable(u, p)' => t = u
    BY <2>1 DEF CodesInv, LatestInv
  <2>3. ASSUME NEW v \in Workers, otpReq'[v].op = "create", otpReq'[v].user = "member",
               NEW t \in DOMAIN tokens \ twins
        PROVE  ~Usable(t, otpReq[v].purpose)'
    <3>1. CASE otpReq'[v] = otpReq[v]
      BY <2>1, <2>3, <3>1 DEF CodesInv, LatestInv
    <3>2. CASE otpReq'[v] # otpReq[v]
      BY <2>3, <3>2
    <3> QED BY <3>1, <3>2
  <2> QED BY <2>2, <2>3 DEF LatestInv
<1>9. AcceptedWasCurrent'
  BY <1>2 DEF CodesInv, TokensInv, AcceptedWasCurrent, Otp!AcceptedWasCurrent
<1> QED BY <1>1, <1>3, <1>5, <1>6, <1>7, <1>8, <1>9 DEF CodesInv

\* What UseUp does to the rows.
LEMMA UsedUp ==
  ASSUME tokens \in Seq(CodeRows), NEW g
  PROVE  /\ Otp!UseUp(g) \in Seq(CodeRows) /\ DOMAIN Otp!UseUp(g) = DOMAIN tokens
         /\ \A t \in DOMAIN tokens :
              Otp!UseUp(g)[t] = [tokens[t] EXCEPT !.used = t \in g \/ tokens[t].used]
         /\ tokens' = Otp!UseUp(g) => \A t \in DOMAIN tokens : Kept(t)
<1>1. \A t \in DOMAIN tokens : tokens[t] \in CodeRows
  BY RowTypes
<1>2. \A t \in DOMAIN tokens :
        /\ Otp!UseUp(g)[t] \in CodeRows
        /\ Otp!UseUp(g)[t] = [tokens[t] EXCEPT !.used = t \in g \/ tokens[t].used]
  BY <1>1, ZenonT(40) DEF Otp!UseUp, CodeRows
<1>3. Otp!UseUp(g) = [t \in DOMAIN tokens |-> Otp!UseUp(g)[t]]
  BY DEF Otp!UseUp
<1>4. ASSUME tokens' = Otp!UseUp(g), NEW t \in DOMAIN tokens PROVE Kept(t)
  <2>1. tokens'[t] = [tokens[t] EXCEPT !.used = t \in g \/ tokens[t].used]
    BY <1>2, <1>4
  <2>2. tokens[t] \in CodeRows
    BY <1>1, <1>4
  <2> QED BY <2>1, <2>2 DEF Kept, CodeRows
<1> QED BY <1>2, <1>3, <1>4, TokenList

\* A code is asked for, the phone number is stored, a row is missing, time passes.
LEMMA BeginningsKeepCodes ==
  ASSUME CodesInv,
         \/ \E w \in Workers :
              \/ \E p \in Purposes, c \in Channels, s \in Spellings :
                   Otp!StartSend(w, p, c, s) \/ Otp!StartResend(w, p, c, s)
              \/ \E s \in Spellings : Otp!StartReset(w, s)
              \/ Otp!LoseToken(w) \/ Otp!SavePhone(w)
         \/ Otp!Tick
         \/ UNCHANGED codes
  PROVE  CodesInv'
<1> USE DEF CodesInv, CodeTypes
<1>r. tokens' = tokens => \A t \in DOMAIN tokens : Kept(t)
  BY DEF Kept
<1>1. ASSUME NEW w \in Workers, NEW p \in Purposes, NEW c \in Channels, NEW s \in Spellings,
             Otp!StartSend(w, p, c, s)
      PROVE  CodesInv'
  <2>1. /\ otpReq' \in [Workers -> CodeRequests]
        /\ \A v \in Workers : otpReq'[v] = otpReq[v] \/ otpReq'[v].op = "expire"
    BY <1>1 DEF Otp!StartSend, Otp!AccountOf, CodeRequests
  <2> QED BY <1>1, <1>r, <2>1, QuietRows DEF Otp!StartSend
<1>2. ASSUME NEW w \in Workers, NEW p \in Purposes, NEW c \in Channels, NEW s \in Spellings,
             Otp!StartResend(w, p, c, s)
      PROVE  CodesInv'
  <2>1. /\ otpReq' \in [Workers -> CodeRequests]
        /\ \A v \in Workers : otpReq'[v] = otpReq[v] \/ otpReq'[v].op = "expire"
    BY <1>2 DEF Otp!StartResend, CodeRequests
  <2>2. tokens' = Otp!UseUp(Otp!Replaced(None, p)) /\ UNCHANGED <<otpClock, checks, accepted, met, twins>>
    BY <1>2 DEF Otp!StartResend
  <2> QED BY <1>r, <2>1, <2>2, UsedUp, QuietRows
<1>3. ASSUME NEW w \in Workers, NEW s \in Spellings, Otp!StartReset(w, s)
      PROVE  CodesInv'
  <2>1. /\ otpReq' \in [Workers -> CodeRequests]
        /\ \A v \in Workers : otpReq'[v] = otpReq[v] \/ otpReq'[v].op = "expire"
    BY <1>3 DEF Otp!StartReset, CodeRequests
  <2> QED BY <1>3, <1>r, <2>1, QuietRows DEF Otp!StartReset
<1>4. ASSUME NEW w \in Workers, Otp!LoseToken(w) \/ Otp!SavePhone(w)
      PROVE  CodesInv'
  <2>1. /\ otpReq' \in [Workers -> CodeRequests]
        /\ \A v \in Workers : otpReq'[v] = otpReq[v] \/ otpReq'[v].op = "idle"
    BY <1>4, SMTT(30) DEF Otp!LoseToken, Otp!SavePhone, Otp!Idle, CodeRequests
  <2> QED BY <1>4, <1>r, <2>1, QuietRows DEF Otp!LoseToken, Otp!SavePhone
<1>5. ASSUME Otp!Tick \/ UNCHANGED codes PROVE CodesInv'
  <2>1. /\ UNCHANGED <<tokens, otpReq, checks, accepted, met, twins>>
        /\ otpClock' \in Nat /\ otpClock' >= otpClock
    BY <1>5 DEF Otp!Tick, codes
  <2> QED BY <1>r, <2>1, QuietRows
<1> QED BY <1>1, <1>2, <1>3, <1>4, <1>5

\* The older tokens are used up before the next is created; the clean-up deletes.
LEMMA UsingUpKeepsCodes ==
  ASSUME CodesInv, (\E w \in Workers : Otp!ExpireOlder(w)) \/ Otp!CleanUp
  PROVE  CodesInv'
<1> USE DEF CodesInv, CodeTypes
<1>r. \A t \in DOMAIN tokens : tokens[t] \in CodeRows
  BY RowTypes
<1>1. ASSUME NEW w \in Workers, Otp!ExpireOlder(w) PROVE CodesInv'
  <2>1. /\ otpReq[w] \in CodeRequests /\ otpReq[w].op = "expire"
        /\ otpReq' = [otpReq EXCEPT ![w] = [otpReq[w] EXCEPT !.op = "create"]]
    BY <1>1 DEF Otp!ExpireOlder
  <2>2. otpReq[w] \in [op : {"expire", "create"}, purpose : Purposes \cup {"PASSWORD_RESET"},
                       channel : Channels \cup {"PHONE"}, user : {"member", None}]
    BY <2>1 DEF CodeRequests
  <2>3. /\ otpReq' \in [Workers -> CodeRequests]
        /\ \A v \in Workers : v # w => otpReq'[v] = otpReq[v]
        /\ otpReq'[w].op = "create" /\ otpReq'[w].user = otpReq[w].user
        /\ otpReq'[w].purpose = otpReq[w].purpose
    BY <2>1, <2>2 DEF CodeRequests
  <2> DEFINE g == Otp!Replaced(otpReq[w].user, otpReq[w].purpose)
  <2>4. tokens' = Otp!UseUp(g) /\ UNCHANGED <<otpClock, checks, accepted, met, twins>>
    BY <1>1 DEF Otp!ExpireOlder
  <2>5. ASSUME otpReq[w].user = "member", NEW t \in DOMAIN tokens,
               Usable(t, otpReq[w].purpose)'
        PROVE  FALSE
    <3>1. tokens'[t] = [tokens[t] EXCEPT !.used = t \in g \/ tokens[t].used]
      BY <2>4, UsedUp
    <3>2. ~tokens[t].used /\ ~tokens[t].deleted /\ t \notin g /\ tokens[t].user = "member"
          /\ tokens[t].purpose = otpReq[w].purpose
      BY <3>1, <2>3, <2>5, <1>r DEF Usable, CodeRows
    <3> QED BY <3>2, <2>5 DEF Otp!Replaced
  <2> HIDE DEF g
  <2>6. \A v \in Workers :
          \/ otpReq'[v] = otpReq[v]
          \/ /\ otpReq'[v].op = "create"
             /\ otpReq'[v].user = "member" =>
                  \A t \in DOMAIN tokens : ~Usable(t, otpReq[v].purpose)'
    BY <2>3, <2>5
  <2>7. /\ tokens' \in Seq(CodeRows) /\ DOMAIN tokens' = DOMAIN tokens
        /\ \A t \in DOMAIN tokens :
             tokens'[t] = [tokens[t] EXCEPT !.used = t \in g \/ tokens[t].used]
    BY <2>4, UsedUp
  <2>8. \A t \in DOMAIN tokens : Kept(t)
    BY <2>4, UsedUp
  <2> QED BY <2>3, <2>4, <2>6, <2>7, <2>8, QuietRows
<1>2. ASSUME Otp!CleanUp PROVE CodesInv'
  <2>1. PICK expired : tokens' = [t \in DOMAIN tokens |->
                      IF t \in expired THEN [tokens[t] EXCEPT !.deleted = TRUE] ELSE tokens[t]]
    BY <1>2 DEF Otp!CleanUp
  <2>2. \A t \in DOMAIN tokens :
           tokens'[t] \in CodeRows /\ Kept(t)
    BY <2>1, <1>r, ZenonT(40) DEF CodeRows, Kept
  <2>3. tokens' = [t \in DOMAIN tokens |-> tokens'[t]]
    BY <2>1
  <2>4. tokens' \in Seq(CodeRows) /\ DOMAIN tokens' = DOMAIN tokens
    BY <2>2, <2>3, TokenList
  <2>5. UNCHANGED <<otpClock, otpReq, checks, accepted, met, twins>>
    BY <1>2 DEF Otp!CleanUp
  <2> QED BY <2>2, <2>4, <2>5, QuietRows
<1> QED BY <1>1, <1>2

\* A request of another kind than w's new one is as it was.
LEMMA OneRequest ==
  ASSUME CodeTypes, NEW w \in Workers, NEW r \in CodeRequests,
         otpReq' = [otpReq EXCEPT ![w] = r]
  PROVE  /\ otpReq' \in [Workers -> CodeRequests] /\ otpReq'[w] = r
         /\ \A v \in Workers : v # w => otpReq'[v] = otpReq[v]
         /\ \A t : \A v \in Workers : v # w => /\ Entering(v, t)' <=> Entering(v, t)
                                               /\ Delivering(v, t)' <=> Delivering(v, t)
BY DEF CodeTypes, Entering, Delivering

\* The new token is usable, and the only one, unless another is created at once.
LEMMA CreateKeepsCodes ==
  ASSUME CodeAssumptions, CodesInv, NEW w \in Workers, Otp!CreateToken(w) PROVE CodesInv'
<1>n. PICK n : n = Len(tokens) + 1
  OBVIOUS
<1>t. PICK to : to = [op |-> "deliver", token |-> n, channel |-> otpReq[w].channel]
  OBVIOUS
<1>r. PICK row : row =
                  [user |-> otpReq[w].user, purpose |-> otpReq[w].purpose,
                   used |-> FALSE, attempts |-> 0, created |-> otpClock,
                   deleted |-> FALSE, sent |-> FALSE, entered |-> 0]
  OBVIOUS
<1> USE DEF CodesInv, CodeTypes
<1>1. /\ otpReq[w].op = "create" /\ tokens' = Append(tokens, row)
      /\ otpReq' = [otpReq EXCEPT ![w] = to]
      /\ twins' = IF {v \in Workers \ {w} : /\ otpReq[v].op = "create"
                                            /\ otpReq[v].purpose = otpReq[w].purpose} # {}
                  THEN twins \cup {n} ELSE twins
      /\ UNCHANGED <<otpClock, checks, accepted, met>>
  BY <1>n, <1>t, <1>r DEF Otp!CreateToken
<1>2. otpReq[w] \in [op : {"expire", "create"}, purpose : Purposes \cup {"PASSWORD_RESET"},
                     channel : Channels \cup {"PHONE"}, user : {"member", None}]
  BY <1>1 DEF CodeRequests
<1>3. row \in CodeRows
  BY <1>2, <1>r DEF CodeRows
<1>4. Len(tokens) \in Nat /\ DOMAIN tokens = 1..Len(tokens) /\ n \in Nat /\ n \notin DOMAIN tokens
  BY <1>n, LenProperties
<1>5. /\ tokens' \in Seq(CodeRows) /\ DOMAIN tokens' = DOMAIN tokens \cup {n}
      /\ tokens'[n] = row /\ \A t \in DOMAIN tokens : tokens'[t] = tokens[t]
  BY <1>n, <1>1, <1>3, <1>4
<1>6. /\ row.user = otpReq[w].user /\ row.purpose = otpReq[w].purpose
      /\ ~row.used /\ ~row.deleted /\ ~row.sent /\ row.created = otpClock
      /\ row.attempts = 0 /\ row.entered = 0
  BY <1>r
<1>7. to \in CodeRequests
  BY <1>2, <1>4, <1>t DEF CodeRequests
<1>8. /\ otpReq' \in [Workers -> CodeRequests] /\ otpReq'[w] = to
      /\ \A v \in Workers : v # w => otpReq'[v] = otpReq[v]
      /\ \A t : \A v \in Workers : v # w => /\ Entering(v, t)' <=> Entering(v, t)
                                            /\ Delivering(v, t)' <=> Delivering(v, t)
  BY <1>1, <1>7, OneRequest
<1>9. /\ \A t : ~Entering(w, t)'
      /\ \A t : Delivering(w, t)' <=> t = n
  BY <1>8, <1>t DEF Entering, Delivering
<1>10. \A t : \A v \in Workers : Entering(v, t) \/ Delivering(v, t) => t \in DOMAIN tokens
  BY DEF TokensInv, Entering, Delivering
<1>11. CodeTypes'
  BY <1>1, <1>5, <1>8
<1>12. TokensInv'
  BY <1>1, <1>5, <1>6, <1>8, <1>t DEF TokensInv
<1>13. DeliveryInv'
  BY <1>4, <1>5, <1>6, <1>8, <1>9, <1>10 DEF DeliveryInv
<1>14. EnteringInv'
  BY <1>4, <1>5, <1>8, <1>9, <1>10 DEF EnteringInv
<1>15. SpentInv'
  <2>1. met \subseteq met'
    BY <1>1
  <2>2. ASSUME NEW t \in DOMAIN tokens \ met
        PROVE  /\ tokens'[t] = tokens[t]
               /\ \A v \in Workers : Entering(v, t)' => Entering(v, t) /\ otpReq'[v] = otpReq[v]
    BY <1>5, <1>8, <1>9
  <2>3. /\ \A v \in Workers : ~Entering(v, n)'
        /\ \A a \in accepted : a.token # n
    BY <1>4, <1>8, <1>9, <1>10 DEF TokensInv
  <2> QED BY <1>1, <1>5, <1>6, <2>1, <2>2, <2>3 DEF SpentInv, CodeAssumptions
<1>16. LatestInv'
  <2>1. \A p : \A t \in DOMAIN tokens : Usable(t, p)' <=> Usable(t, p)
    BY <1>5 DEF Usable
  <2>2. \A p : Usable(n, p)' <=> otpReq[w].user = "member" /\ otpReq[w].purpose = p
    BY <1>5, <1>6 DEF Usable
  <2>3. /\ twins \subseteq twins' /\ twins' \subseteq twins \cup {n}
        /\ n \notin twins' => \A v \in Workers \ {w} : otpReq[v].op = "create" =>
                              otpReq[v].purpose # otpReq[w].purpose
    BY <1>1, <1>4 DEF TokensInv
  <2>4. ASSUME NEW t \in DOMAIN tokens \ twins, NEW p, Usable(t, p)', Usable(n, p)'
        PROVE  FALSE
    BY <1>1, <2>1, <2>2, <2>4 DEF LatestInv
  <2>5. ASSUME NEW t \in DOMAIN tokens' \ twins', NEW u \in DOMAIN tokens' \ twins', NEW p,
               Usable(t, p)', Usable(u, p)'
        PROVE  t = u
    BY <1>5, <2>1, <2>3, <2>4, <2>5 DEF LatestInv
  <2>6. ASSUME NEW v \in Workers, otpReq'[v].op = "create", otpReq'[v].user = "member",
               NEW t \in DOMAIN tokens' \ twins'
        PROVE  ~Usable(t, otpReq[v].purpose)'
    <3>1. v # w /\ otpReq'[v] = otpReq[v]
      BY <1>8, <1>t, <2>6
    <3>2. CASE t = n
      BY <2>2, <2>3, <2>6, <3>1, <3>2
    <3>3. CASE t # n
      BY <1>5, <2>1, <2>3, <2>6, <3>1, <3>3 DEF LatestInv
    <3> QED BY <3>2, <3>3
  <2> QED BY <2>5, <2>6 DEF LatestInv
<1>17. AcceptedWasCurrent'
  BY <1>1, <1>5 DEF TokensInv, AcceptedWasCurrent, Otp!AcceptedWasCurrent
<1> QED BY <1>11, <1>12, <1>13, <1>14, <1>15, <1>16, <1>17

\* The code arrives or does not.
LEMMA DeliverKeepsCodes ==
  ASSUME CodesInv, NEW w \in Workers, Otp!Deliver(w) PROVE CodesInv'
<1> USE DEF CodesInv, CodeTypes
<1> DEFINE d == otpReq[w].token
<1>1. /\ Delivering(w, d) /\ d \in DOMAIN tokens
      /\ UNCHANGED <<otpClock, checks, accepted, met, twins>>
  BY DEF Otp!Deliver, Delivering, TokensInv
<1>2. tokens[d] \in CodeRows
  BY <1>1, RowTypes
<1>3. PICK result \in BOOLEAN : tokens' = [tokens EXCEPT ![d] = [tokens[d] EXCEPT !.sent = result]]
  BY DEF Otp!Deliver, Otp!Backend, Otp!SmsResults, Otp!EmailResults
<1>4. /\ tokens' \in Seq(CodeRows) /\ DOMAIN tokens' = DOMAIN tokens
      /\ \A t \in DOMAIN tokens : t # d => tokens'[t] = tokens[t]
      /\ tokens'[d] = [tokens[d] EXCEPT !.sent = result]
  <2>1. [tokens[d] EXCEPT !.sent = result] \in CodeRows
    BY <1>2 DEF CodeRows
  <2>2. DOMAIN tokens = 1..Len(tokens) /\ tokens \in Seq(CodeRows)
    BY LenProperties
  <2> QED BY <1>1, <1>3, <2>1, <2>2
<1>5. \A t \in DOMAIN tokens : Kept(t) \/ t = d
  BY <1>4 DEF Kept
<1>6. /\ tokens'[d].user = tokens[d].user /\ tokens'[d].purpose = tokens[d].purpose
      /\ tokens'[d].created = tokens[d].created /\ tokens'[d].used = tokens[d].used
      /\ tokens'[d].attempts = tokens[d].attempts /\ tokens'[d].entered = tokens[d].entered
      /\ tokens'[d].deleted = tokens[d].deleted
  BY <1>2, <1>4 DEF CodeRows
<1>7. ~tokens[d].sent /\ \A v \in Workers : Delivering(v, d) => v = w
  BY <1>1 DEF DeliveryInv
<1>8. Otp!Idle \in CodeRequests /\ otpReq' = [otpReq EXCEPT ![w] = Otp!Idle]
  BY DEF Otp!Deliver, Otp!Idle, CodeRequests
<1>9. /\ otpReq' \in [Workers -> CodeRequests] /\ otpReq'[w].op = "idle"
      /\ \A v \in Workers : v # w => otpReq'[v] = otpReq[v]
      /\ \A t : \A v \in Workers : v # w => /\ Entering(v, t)' <=> Entering(v, t)
                                            /\ Delivering(v, t)' <=> Delivering(v, t)
  BY <1>8, OneRequest DEF Otp!Idle
<1>10. \A t : ~Entering(w, t)' /\ ~Delivering(w, t)'
  BY <1>9 DEF Entering, Delivering
<1> HIDE DEF d
<1>11. CodeTypes'
  BY <1>1, <1>4, <1>9
<1>12. TokensInv'
  BY <1>1, <1>4, <1>6, <1>9 DEF TokensInv
<1>13. DeliveryInv'
  BY <1>4, <1>7, <1>9, <1>10 DEF DeliveryInv
<1>14. EnteringInv'
  <2>1. ASSUME NEW v \in Workers, NEW t \in DOMAIN tokens, Entering(v, t)'
        PROVE  /\ v # w /\ Entering(v, t) /\ otpReq'[v] = otpReq[v]
               /\ tokens'[t].purpose = tokens[t].purpose /\ tokens'[t].created = tokens[t].created
    BY <1>4, <1>6, <1>9, <1>10, <2>1
  <2>2. \A t \in DOMAIN tokens : tokens[t].sent => tokens'[t].sent
    BY <1>4, <1>7
  <2> QED BY <1>4, <2>1, <2>2 DEF EnteringInv
<1>15. SpentInv'
  <2>1. ASSUME NEW v \in Workers, NEW t \in DOMAIN tokens, Entering(v, t)'
        PROVE  v # w /\ Entering(v, t) /\ otpReq'[v] = otpReq[v]
    BY <1>9, <1>10, <2>1
  <2>2. \A t \in DOMAIN tokens : /\ tokens'[t].used = tokens[t].used
                                 /\ tokens'[t].attempts = tokens[t].attempts
                                 /\ tokens'[t].entered = tokens[t].entered
    BY <1>4, <1>6
  <2> QED BY <1>1, <1>4, <2>1, <2>2 DEF SpentInv
<1>16. LatestInv'
  <2>1. \A p : \A t \in DOMAIN tokens : Usable(t, p)' <=> Usable(t, p)
    BY <1>4, <1>6 DEF Usable
  <2> QED BY <1>1, <1>4, <1>9, <2>1 DEF LatestInv
<1>17. AcceptedWasCurrent'
  BY <1>1, <1>4, <1>6, <1>7 DEF TokensInv, AcceptedWasCurrent, Otp!AcceptedWasCurrent
<1> QED BY <1>11, <1>12, <1>13, <1>14, <1>15, <1>16, <1>17

\* The newest of some tokens is one of them.
LEMMA NewestIsOne ==
  ASSUME CodeTypes, NEW ts, ts \subseteq DOMAIN tokens, ts # {}
  PROVE  Otp!Newest(ts) \in ts
<1> DEFINE n == Len(tokens)
           behind == {n - t : t \in ts}
<1>1. n \in Nat /\ DOMAIN tokens = 1..n
  BY LenProperties DEF CodeTypes
<1> HIDE DEF n
<1>2. behind \in SUBSET Nat /\ behind # {}
  BY <1>1
<1>3. PICK m \in behind : \A k \in behind : m <= k
  <2> DEFINE less == {p \in Nat \X Nat : p[1] < p[2]}
  <2>1. IsWellFoundedOn(less, Nat)
    BY NatLessThanWellFounded DEF OpToRel
  <2> HIDE DEF less
  <2>2. PICK m \in behind : \A k \in behind : ~(<<k, m>> \in less)
    BY <1>2, <2>1, WFMin
  <2>3. \A a, b \in Nat : <<a, b>> \notin less => b <= a
    BY DEF less
  <2> HIDE DEF behind
  <2>4. \A k \in behind : m <= k
    BY <1>2, <2>2, <2>3
  <2> QED BY <2>4
<1>4. PICK t \in ts : m = n - t
  OBVIOUS
<1>5. \A u \in ts : u <= t
  <2>1. SUFFICES ASSUME NEW u \in ts PROVE u <= t
    OBVIOUS
  <2>2. n - t <= n - u
    BY <1>3, <1>4
  <2>3. t \in Int /\ u \in Int
    BY <1>1
  <2> QED BY <1>1, <2>2, <2>3
<1> QED BY <1>5 DEF Otp!Newest

\* A code is entered: the token is neither expired nor used.
LEMMA ReadKeepsCodes ==
  ASSUME CodesInv, NEW w \in Workers, NEW p \in Purposes, NEW s \in Spellings,
         Otp!ReadToken(w, p, s)
  PROVE  CodesInv'
<1> USE DEF CodesInv, CodeTypes
<1>1. PICK n : n = Otp!Newest(Otp!Live(p))
  OBVIOUS
<1>2. PICK code \in Otp!Codes :
        otpReq' = [otpReq EXCEPT ![w] =
          [op |-> "count", token |-> n, attempts |-> tokens[n].attempts,
           code |-> code, purpose |-> p, spelling |-> s, at |-> otpClock]]
  BY <1>1 DEF Otp!ReadToken
<1>3. /\ met' = IF \E v \in Workers \ {w} : otpReq[v].op \in {"count", "mark"} /\ otpReq[v].token = n
                THEN met \cup {n} ELSE met
      /\ checks' = checks + 1 /\ UNCHANGED <<tokens, otpClock, accepted, twins>>
  BY <1>1 DEF Otp!ReadToken
<1>4. /\ n \in DOMAIN tokens /\ ~tokens[n].used /\ tokens[n].purpose = p
      /\ ~(otpClock > tokens[n].created)
  <2>1. n \in Otp!Live(p)
    BY <1>1, NewestIsOne DEF Otp!ReadToken, Otp!Live
  <2> QED BY <2>1 DEF Otp!Live, Otp!Expired
<1>5. /\ tokens[n] \in CodeRows /\ DOMAIN tokens \subseteq Nat
      /\ tokens[n].created = otpClock
  <2>1. tokens[n] \in CodeRows /\ DOMAIN tokens \subseteq Nat
    BY <1>4, RowTypes, LenProperties
  <2>2. tokens[n].created \in Nat /\ tokens[n].created <= otpClock
    BY <1>4, <2>1 DEF CodeRows, TokensInv
  <2> QED BY <1>4, <2>1, <2>2
<1>6. code = None \/ (code \in DOMAIN tokens /\ tokens[code].sent)
  BY DEF Otp!Codes
<1>7. PICK r : r = [op |-> "count", token |-> n, attempts |-> tokens[n].attempts,
                    code |-> code, purpose |-> p, spelling |-> s, at |-> otpClock]
  OBVIOUS
<1>8. r \in CodeRequests /\ otpReq' = [otpReq EXCEPT ![w] = r]
  BY <1>2, <1>4, <1>5, <1>6, <1>7 DEF CodeRows, CodeRequests
<1>9. /\ otpReq' \in [Workers -> CodeRequests] /\ otpReq'[w] = r
      /\ \A v \in Workers : v # w => otpReq'[v] = otpReq[v]
      /\ \A t : \A v \in Workers : v # w => /\ Entering(v, t)' <=> Entering(v, t)
                                            /\ Delivering(v, t)' <=> Delivering(v, t)
  BY <1>8, OneRequest
<1>10. \A t : ~Delivering(w, t)' /\ (Entering(w, t)' <=> t = n)
  BY <1>7, <1>9 DEF Entering, Delivering
<1>11. CodeTypes'
  BY <1>3, <1>9
<1>12. TokensInv'
  BY <1>3, <1>4, <1>7, <1>9 DEF TokensInv
<1>13. DeliveryInv'
  BY <1>3, <1>9, <1>10 DEF DeliveryInv
<1>14. EnteringInv'
  <2>1. ASSUME NEW v \in Workers, NEW t \in DOMAIN tokens, Entering(v, t)', v # w
        PROVE  Entering(v, t) /\ otpReq'[v] = otpReq[v]
    BY <1>9, <2>1
  <2> QED BY <1>3, <1>4, <1>5, <1>6, <1>7, <1>9, <1>10, <2>1 DEF EnteringInv
<1>15. SpentInv'
  <2>1. met \subseteq met' /\ (n \notin met' => \A v \in Workers \ {w} : ~Entering(v, n))
    BY <1>3 DEF Entering
  <2>2. ASSUME NEW t \in DOMAIN tokens \ met', NEW v \in Workers, Entering(v, t)'
        PROVE  /\ \A u \in Workers : Entering(u, t)' => u = v
               /\ \A a \in accepted : a.token # t
               /\ otpReq'[v].op = "count" => otpReq'[v].attempts = tokens[t].attempts
    <3>1. CASE t = n
      <4>1. v = w /\ \A u \in Workers : Entering(u, t)' => u = v
        BY <1>9, <2>1, <2>2, <3>1
      <4>2. \A a \in accepted : a.token # t
        BY <1>4, <2>1, <3>1, <2>2 DEF SpentInv
      <4> QED BY <1>7, <1>9, <3>1, <4>1, <4>2
    <3>2. CASE t # n
      <4>1. v # w /\ otpReq'[v] = otpReq[v] /\ \A u \in Workers : Entering(u, t)' => Entering(u, t)
        BY <1>9, <1>10, <2>2, <3>2
      <4> QED BY <1>9, <2>1, <2>2, <4>1 DEF SpentInv
    <3> QED BY <3>1, <3>2
  <2> QED BY <1>3, <2>1, <2>2 DEF SpentInv
<1>16. LatestInv'
  <2>1. \A t, q : Usable(t, q)' <=> Usable(t, q)
    BY <1>3 DEF Usable
  <2> QED BY <1>3, <1>7, <1>9, <2>1 DEF LatestInv
<1>17. AcceptedWasCurrent'
  BY <1>3 DEF AcceptedWasCurrent, Otp!AcceptedWasCurrent
<1> QED BY <1>11, <1>12, <1>13, <1>14, <1>15, <1>16, <1>17

\* An attempt is counted, and the code compared if there are attempts left.
LEMMA CountKeepsCodes ==
  ASSUME CodeAssumptions, CodesInv, NEW w \in Workers, Otp!CountAttempt(w) PROVE CodesInv'
<1> USE DEF CodesInv, CodeTypes
<1>1. PICK n : n = otpReq[w].token
  OBVIOUS
<1>2. /\ Entering(w, n) /\ n \in DOMAIN tokens /\ tokens[n] \in CodeRows
      /\ otpReq[w].op = "count" /\ UNCHANGED <<otpClock, checks, accepted, met, twins>>
  BY <1>1, RowTypes DEF Otp!CountAttempt, Entering, TokensInv
<1>3. otpReq[w] \in [op : {"count", "mark"}, token : Nat, attempts : Nat, code : Nat \cup {None},
                     purpose : Purposes, spelling : Spellings, at : Nat]
  BY <1>2 DEF CodeRequests
<1>4. PICK a, e :
        /\ a = otpReq[w].attempts + 1 /\ a \in Nat /\ e \in Nat
        /\ \/ e = tokens[n].entered + 1 /\ a <= MaxAttempts
           \/ e = tokens[n].entered
        /\ tokens' = [tokens EXCEPT ![n] = [tokens[n] EXCEPT !.attempts = a, !.entered = e]]
  <2>1. CASE Otp!WithinLimit(otpReq[w].attempts + 1)
    <3>1. tokens' = [tokens EXCEPT ![n] = [tokens[n] EXCEPT !.attempts = otpReq[w].attempts + 1,
                                                            !.entered = tokens[n].entered + 1]]
      BY <1>1, <1>2, <2>1 DEF Otp!CountAttempt, CodeRows
    <3>2. tokens[n].entered + 1 \in Nat /\ otpReq[w].attempts + 1 \in Nat
      BY <1>2, <1>3, SMTT(30) DEF CodeRows
    <3> QED BY <2>1, <3>1, <3>2 DEF Otp!WithinLimit
  <2>2. CASE ~Otp!WithinLimit(otpReq[w].attempts + 1)
    <3>1. tokens' = [tokens EXCEPT ![n] = [tokens[n] EXCEPT !.attempts = otpReq[w].attempts + 1,
                                                            !.entered = tokens[n].entered]]
      <4>1. tokens' = [tokens EXCEPT ![n] = [tokens[n] EXCEPT !.attempts = otpReq[w].attempts + 1]]
        BY <1>1, <2>2 DEF Otp!CountAttempt
      <4>2. [tokens[n] EXCEPT !.attempts = otpReq[w].attempts + 1]
            = [tokens[n] EXCEPT !.attempts = otpReq[w].attempts + 1, !.entered = tokens[n].entered]
        BY <1>2 DEF CodeRows
      <4> QED BY <4>1, <4>2
    <3>2. tokens[n].entered \in Nat /\ otpReq[w].attempts + 1 \in Nat
      BY <1>2, <1>3 DEF CodeRows
    <3> QED BY <3>1, <3>2
  <2> QED BY <2>1, <2>2
<1>5. /\ tokens' \in Seq(CodeRows) /\ DOMAIN tokens' = DOMAIN tokens
      /\ \A t \in DOMAIN tokens : t # n => tokens'[t] = tokens[t]
      /\ tokens'[n] = [tokens[n] EXCEPT !.attempts = a, !.entered = e]
  <2>1. [tokens[n] EXCEPT !.attempts = a, !.entered = e] \in CodeRows
    BY <1>2, <1>4 DEF CodeRows
  <2>2. DOMAIN tokens = 1..Len(tokens) /\ tokens \in Seq(CodeRows)
    BY LenProperties
  <2> QED BY <1>2, <1>4, <2>1, <2>2
<1>6. \A t \in DOMAIN tokens :
        /\ tokens'[t].user = tokens[t].user /\ tokens'[t].purpose = tokens[t].purpose
        /\ tokens'[t].created = tokens[t].created /\ tokens'[t].used = tokens[t].used
        /\ tokens'[t].deleted = tokens[t].deleted /\ tokens'[t].sent = tokens[t].sent
        /\ tokens'[n].attempts = a /\ tokens'[n].entered = e
  BY <1>2, <1>5, ZenonT(40) DEF CodeRows
<1>7. PICK r : /\ r \in CodeRequests /\ otpReq' = [otpReq EXCEPT ![w] = r]
               /\ \/ r.op = "idle"
                  \/ r = [otpReq[w] EXCEPT !.op = "mark"] /\ otpReq[w].code = n
  <2>1. [otpReq[w] EXCEPT !.op = "mark"] \in CodeRequests /\ Otp!Idle \in CodeRequests
    BY <1>3 DEF CodeRequests, Otp!Idle
  <2> QED BY <1>1, <2>1 DEF Otp!CountAttempt, Otp!Idle
<1>8. /\ otpReq' \in [Workers -> CodeRequests] /\ otpReq'[w] = r
      /\ \A v \in Workers : v # w => otpReq'[v] = otpReq[v]
      /\ \A t : \A v \in Workers : v # w => /\ Entering(v, t)' <=> Entering(v, t)
                                            /\ Delivering(v, t)' <=> Delivering(v, t)
  BY <1>7, OneRequest
<1>9. \/ r.op = "idle"
      \/ /\ r.op = "mark" /\ r.token = n /\ r.code = n /\ r.purpose = otpReq[w].purpose
         /\ r.at = otpReq[w].at /\ otpReq[w].code = n
  BY <1>1, <1>3, <1>7
<1>10. \A t : ~Delivering(w, t)' /\ (Entering(w, t)' => t = n /\ r.op = "mark")
  BY <1>8, <1>9 DEF Entering, Delivering
<1>11. CodeTypes'
  BY <1>2, <1>5, <1>8
<1>12. TokensInv'
  BY <1>2, <1>5, <1>6, <1>8, <1>9, SMTT(30) DEF TokensInv
<1>13. DeliveryInv'
  BY <1>5, <1>6, <1>8, <1>10 DEF DeliveryInv
<1>14. EnteringInv'
  <2>1. ASSUME NEW v \in Workers, NEW t \in DOMAIN tokens, Entering(v, t)', v # w
        PROVE  Entering(v, t) /\ otpReq'[v] = otpReq[v]
    BY <1>8, <2>1
  <2>2. ASSUME NEW t, Entering(w, t)'
        PROVE  /\ tokens[n].purpose = otpReq'[w].purpose /\ tokens[n].created = otpReq'[w].at
               /\ otpReq'[w].code = n /\ t = n /\ (n # None => tokens[n].sent)
    BY <1>2, <1>8, <1>9, <1>10, <2>2 DEF EnteringInv
  <2> QED BY <1>2, <1>5, <1>6, <2>1, <2>2 DEF EnteringInv
<1>15. SpentInv'
  <2>1. ASSUME NEW t \in DOMAIN tokens \ met, t # n
        PROVE  /\ tokens'[t] = tokens[t]
               /\ \A v \in Workers : Entering(v, t)' => Entering(v, t) /\ otpReq'[v] = otpReq[v]
    BY <1>5, <1>8, <1>10, <2>1
  <2>2. ASSUME n \notin met
        PROVE  /\ e <= a /\ e <= MaxAttempts
               /\ \A v \in Workers : Entering(v, n)' => v = w /\ otpReq'[v].op = "mark"
               /\ \A x \in accepted : x.token # n
    <3>1. /\ \A v \in Workers : Entering(v, n) => v = w
          /\ \A x \in accepted : x.token # n
          /\ otpReq[w].attempts = tokens[n].attempts
          /\ tokens[n].entered <= tokens[n].attempts /\ tokens[n].entered <= MaxAttempts
      BY <1>2, <2>2 DEF SpentInv
    <3>2. \A v \in Workers : Entering(v, n)' => v = w /\ otpReq'[v].op = "mark"
      BY <1>8, <1>9, <1>10, <3>1
    <3>3. tokens[n].entered \in Nat /\ tokens[n].attempts \in Nat /\ MaxAttempts \in Nat
      BY <1>2 DEF CodeRows, CodeAssumptions
    <3> QED BY <1>4, <3>1, <3>2, <3>3, SMTT(30)
  <2>3. ASSUME NEW t \in DOMAIN tokens \ met
        PROVE  /\ tokens'[t].entered <= tokens'[t].attempts /\ tokens'[t].entered <= MaxAttempts
               /\ \A v \in Workers : Entering(v, t)' =>
                    /\ \A u \in Workers : Entering(u, t)' => u = v
                    /\ \A x \in accepted : x.token # t
                    /\ otpReq'[v].op = "count" => otpReq'[v].attempts = tokens'[t].attempts
               /\ \A x \in accepted : x.token = t => x.nth = 0 /\ tokens'[t].used
    <3>1. CASE t = n
      BY <1>2, <1>6, <2>2, <3>1
    <3>2. CASE t # n
      BY <2>1, <3>2 DEF SpentInv
    <3> QED BY <3>1, <3>2
  <2> QED BY <1>2, <1>5, <2>3 DEF SpentInv
<1>16. LatestInv'
  <2>1. \A p : \A t \in DOMAIN tokens : Usable(t, p)' <=> Usable(t, p)
    BY <1>6 DEF Usable
  <2>2. \A v \in Workers : otpReq'[v].op = "create" => otpReq'[v] = otpReq[v]
    BY <1>8, <1>9
  <2> QED BY <1>2, <1>5, <2>1, <2>2 DEF LatestInv
<1>17. AcceptedWasCurrent'
  BY <1>2, <1>6 DEF TokensInv, AcceptedWasCurrent, Otp!AcceptedWasCurrent
<1> QED BY <1>11, <1>12, <1>13, <1>14, <1>15, <1>16, <1>17

\* The code was right.
LEMMA MarkKeepsCodes ==
  ASSUME CodeAssumptions, CodesInv, NEW w \in Workers, Otp!MarkUsed(w) PROVE CodesInv'
<1> USE DEF CodesInv, CodeTypes
<1>1. PICK n : n = otpReq[w].token
  OBVIOUS
<1>2. /\ Entering(w, n) /\ n \in DOMAIN tokens /\ otpReq[w].op = "mark"
      /\ tokens' = Otp!UseUp({n}) /\ UNCHANGED <<otpClock, checks, met, twins>>
  BY <1>1 DEF Otp!MarkUsed, Entering, TokensInv
<1>3. otpReq[w] \in [op : {"count", "mark"}, token : Nat, attempts : Nat, code : Nat \cup {None},
                     purpose : Purposes, spelling : Spellings, at : Nat]
  BY <1>2 DEF CodeRequests
<1>4. PICK a : /\ accepted' = accepted \cup {a}
               /\ a = [token |-> n, for |-> otpReq[w].purpose, at |-> otpReq[w].at,
                       nth |-> Cardinality({b \in accepted : b.token = n})]
  <2>1. PICK a : a = [token |-> n, for |-> otpReq[w].purpose, at |-> otpReq[w].at,
                      nth |-> Cardinality({b \in accepted : b.token = n})]
    OBVIOUS
  <2>2. Otp!Cardinality({b \in accepted : b.token = n}) = Cardinality({b \in accepted : b.token = n})
    BY DEF Otp!Cardinality, Cardinality
  <2>3. accepted' = accepted \cup {a}
    BY <1>1, <2>1, <2>2 DEF Otp!MarkUsed
  <2> QED BY <2>1, <2>3
<1>5. /\ tokens' \in Seq(CodeRows) /\ DOMAIN tokens' = DOMAIN tokens
      /\ \A t \in DOMAIN tokens : Kept(t)
  BY <1>2, UsedUp
<1>6. tokens'[n].used
  <2>1. tokens[n] \in CodeRows /\ tokens'[n] = [tokens[n] EXCEPT !.used = n \in {n} \/ tokens[n].used]
    BY <1>2, UsedUp, RowTypes
  <2> QED BY <2>1 DEF CodeRows
<1>7. PICK r : /\ r \in CodeRequests /\ otpReq' = [otpReq EXCEPT ![w] = r]
               /\ r.op \in {"idle", "save"}
  <2>1. [op |-> "save", spelling |-> otpReq[w].spelling] \in CodeRequests /\ Otp!Idle \in CodeRequests
    BY <1>3 DEF CodeRequests, Otp!Idle
  <2>2. \/ otpReq' = [otpReq EXCEPT ![w] = [op |-> "save", spelling |-> otpReq[w].spelling]]
        \/ otpReq' = [otpReq EXCEPT ![w] = Otp!Idle]
    BY DEF Otp!MarkUsed
  <2> QED BY <2>1, <2>2 DEF Otp!Idle
<1>8. /\ otpReq' \in [Workers -> CodeRequests] /\ otpReq'[w] = r
      /\ \A v \in Workers : v # w => otpReq'[v] = otpReq[v]
      /\ \A t : \A v \in Workers : v # w => /\ Entering(v, t)' <=> Entering(v, t)
                                            /\ Delivering(v, t)' <=> Delivering(v, t)
  BY <1>7, OneRequest
<1>9. \A t : ~Delivering(w, t)' /\ ~Entering(w, t)'
  BY <1>7, <1>8 DEF Entering, Delivering
<1>10. \A t : \A v \in Workers : /\ Entering(v, t)' => v # w /\ Entering(v, t) /\ otpReq'[v] = otpReq[v]
                                 /\ Delivering(v, t)' => Delivering(v, t)
  BY <1>8, <1>9
<1>11. CodeTypes'
  BY <1>2, <1>5, <1>8
<1>12. TokensInv'
  <2>1. \A t \in DOMAIN tokens : tokens'[t].created <= otpClock
    BY <1>5 DEF TokensInv, Kept
  <2>2. \A b \in accepted' : b.token \in DOMAIN tokens
    BY <1>2, <1>4 DEF TokensInv
  <2>3. \A v \in Workers : otpReq'[v].op \in {"deliver", "count", "mark"} =>
          otpReq'[v].token \in DOMAIN tokens
    BY <1>7, <1>8 DEF TokensInv
  <2> QED BY <1>2, <1>5, <2>1, <2>2, <2>3 DEF TokensInv
<1>13. DeliveryInv'
  BY <1>5, <1>10 DEF DeliveryInv, Kept
<1>14. EnteringInv'
  BY <1>5, <1>10 DEF EnteringInv, Kept
<1>15. SpentInv'
  <2>1. ASSUME NEW t \in DOMAIN tokens \ met, NEW v \in Workers, Entering(v, t)'
        PROVE  /\ \A u \in Workers : Entering(u, t)' => u = v
               /\ \A b \in accepted' : b.token # t
               /\ otpReq'[v].op = "count" => otpReq'[v].attempts = tokens'[t].attempts
    <3>1. v # w /\ Entering(v, t) /\ otpReq'[v] = otpReq[v] /\ Kept(t)
      BY <1>5, <1>10, <2>1
    <3>2. t # n
      BY <1>2, <2>1, <3>1 DEF SpentInv
    <3> QED BY <1>4, <1>10, <2>1, <3>1, <3>2 DEF SpentInv, Kept
  <2>2. ASSUME NEW t \in DOMAIN tokens \ met, NEW b \in accepted', b.token = t
        PROVE  b.nth = 0 /\ tokens'[t].used
    <3>1. CASE b \in accepted
      BY <1>5, <2>2, <3>1 DEF SpentInv, Kept
    <3>2. CASE b = a
      <4>1. t = n
        BY <1>4, <2>2, <3>2
      <4>2. {x \in accepted : x.token = n} = {}
        BY <1>2, <2>2, <4>1 DEF SpentInv
      <4> QED BY <1>4, <1>6, <3>2, <4>1, <4>2, FS_EmptySet
    <3> QED BY <1>4, <3>1, <3>2
  <2> QED BY <1>2, <1>5, <2>1, <2>2 DEF SpentInv, Kept
<1>16. LatestInv'
  <2>1. \A p : \A t \in DOMAIN tokens : Usable(t, p)' => Usable(t, p)
    BY <1>5 DEF Usable, Kept
  <2>2. \A v \in Workers : otpReq'[v].op = "create" => otpReq'[v] = otpReq[v]
    BY <1>7, <1>8
  <2> QED BY <1>2, <1>5, <2>1, <2>2 DEF LatestInv
<1>17. AcceptedWasCurrent'
  <2>1. \A b \in accepted : /\ tokens'[b.token].purpose = b.for /\ tokens'[b.token].sent
                            /\ tokens'[b.token].created = b.at
    BY <1>5 DEF TokensInv, Kept, AcceptedWasCurrent, Otp!AcceptedWasCurrent
  <2>2. n \in Nat /\ otpReq[w].code = n
    BY <1>2, <1>3 DEF EnteringInv, Entering
  <2>3. /\ tokens[n].purpose = otpReq[w].purpose /\ tokens[n].sent
        /\ tokens[n].created = otpReq[w].at
    BY <1>2, <2>2 DEF EnteringInv, CodeAssumptions
  <2>4. /\ tokens'[a.token].purpose = a.for /\ tokens'[a.token].sent
        /\ tokens'[a.token].created = a.at
    BY <1>2, <1>4, <1>5, <2>3 DEF Kept
  <2> QED BY <1>4, <2>1, <2>4 DEF AcceptedWasCurrent, Otp!AcceptedWasCurrent
<1> QED BY <1>11, <1>12, <1>13, <1>14, <1>15, <1>16, <1>17

\* A step of the model, which is a step of one part and leaves the others alone.
LEMMA StepCodes ==
  ASSUME CodeAssumptions, CodesInv, [Next]_<<part, codes, accounts, identity, roles>>
  PROVE  CodesInv'
<1>1. CASE Otp!OtpNext
  BY <1>1, BeginningsKeepCodes, UsingUpKeepsCodes, CreateKeepsCodes, DeliverKeepsCodes,
     ReadKeepsCodes, CountKeepsCodes, MarkKeepsCodes DEF Otp!OtpNext
<1>2. CASE UNCHANGED codes
  BY <1>2, BeginningsKeepCodes
<1> QED BY <1>1, <1>2 DEF Next

\* The invariant of the codes holds in every reachable state.
THEOREM CodesInvariance == ASSUME CodeAssumptions PROVE Spec => []CodesInv
<1>1. Init => CodesInv
  BY InitCodes DEF Init
<1> QED BY <1>1, StepCodes, PTL DEF Spec

\* A code is accepted once and compared MaxAttempts times at most, unless two requests
\* had read its token at once (verify_otp).
THEOREM CodeIsSpent == ASSUME CodeAssumptions PROVE Spec => []CodeIsSpentOnce
<1>1. CodesInv => CodeIsSpentOnce
  BY DEF CodesInv, SpentInv, CodeIsSpentOnce, Otp!CodeIsSpentOnce
<1> QED BY CodesInvariance, <1>1, PTL

\* What is accepted was asked for this purpose, reached its receiver and was current
\* when it was entered (verify_otp).
THEOREM AcceptedIsCurrent == ASSUME CodeAssumptions PROVE Spec => []AcceptedWasCurrent
<1>1. CodesInv => AcceptedWasCurrent
  BY DEF CodesInv
<1> QED BY CodesInvariance, <1>1, PTL

\* Of the codes an account asked for, the latest is the only one that works, unless two
\* requests created theirs at once (create_otp_token).
THEOREM LatestCodeWorks == ASSUME CodeAssumptions PROVE Spec => []OneCodeWorks
<1>1. CodesInv => OneCodeWorks
  <2> SUFFICES ASSUME CodesInv, NEW t \in DOMAIN tokens \ twins, NEW u \in DOMAIN tokens \ twins,
                      t # u, {tokens[t].user, tokens[u].user} = {"member"},
                      tokens[t].purpose = tokens[u].purpose,
                      {t, u} \subseteq Otp!Live(tokens[t].purpose)
               PROVE  FALSE
    BY DEF OneCodeWorks, Otp!OneCodeWorks
  <2>1. Usable(t, tokens[t].purpose) /\ Usable(u, tokens[t].purpose)
    BY DEF Usable, Otp!Live
  <2> QED BY <2>1 DEF CodesInv, LatestInv
<1> QED BY CodesInvariance, <1>1, PTL

-----------------------------------------------------------------------------
(* The identity check                                                      *)

KycRequests ==
  [op : {"free"}]
  \cup [kind : {"upload"}, op : {"save"}, doc : Documents, row : Check!KycRows]
  \cup [kind : {"upload", "number"}, op : {"ask"}, row : Check!KycRows]
  \cup [kind : {"review"}, op : {"review"}, decision : {"APPROVED", "REJECTED"},
        reason : BOOLEAN]

KycTypes == kyc \in Check!KycRows /\ kycReq \in [Workers -> KycRequests] /\ mixed \in BOOLEAN

At(w, kind, op) == kycReq[w].op = op /\ kycReq[w].kind = kind

\* The register has been asked, and did not clear the member.
Uncleared == kyc.iprs \in {"mismatch", "unavailable"}

\* Requests at work are of one kind, so an upload knows whether there is a number.
KindsInv ==
  /\ \A v, w \in Workers : kycReq[v].op # "free" /\ kycReq[w].op # "free" =>
       kycReq[v].kind = kycReq[w].kind
  /\ kyc.iprs # "none" => kyc.idNumber
  /\ \A w \in Workers :
       /\ At(w, "upload", "save") => kycReq[w].row.idNumber = kyc.idNumber
       /\ At(w, "upload", "ask") => kycReq[w].row.idNumber /\ kyc.idNumber

\* A member who was not cleared has the status that tells so, or the register is being
\* asked again; and whoever approves without a reason has seen a member cleared.
CauseInv ==
  Uncleared /\ ~kyc.reason /\ ~rejected =>
    /\ \/ kyc.status \in {"IPRS_MISMATCH", "PENDING_MANUAL"}
       \/ kyc.status = "PENDING" /\ \E w \in Workers : At(w, "upload", "ask")
    /\ \A w \in Workers : At(w, "review", "review") =>
         kycReq[w].reason \/ kycReq[w].decision = "REJECTED"

KycInv == KycTypes /\ (~mixed => KindsInv /\ CauseInv)

\* Nothing was asked at first.
LEMMA InitKyc == ASSUME Check!KycInit PROVE KycInv
<1>1. KycTypes
  BY DEF Check!KycInit, Check!KycRows, Check!KycStatuses, Check!Free, KycTypes, KycRequests
<1> QED BY <1>1 DEF Check!KycInit, Check!Free, KycInv, KindsInv, CauseInv, Uncleared, At

\* A request starts: unless it crosses one of another kind, it knows what is stored.
LEMMA StartKyc ==
  ASSUME KycInv, NEW w \in Workers, NEW r \in KycRequests, r.op # "free",
         Check!Start(w, r),
         r.kind = "upload" => r.op = "save" /\ r.row.idNumber = kyc.idNumber,
         r.kind = "review" /\ kyc.status \in {"IPRS_MISMATCH", "PENDING_MANUAL"} =>
           r.reason \/ r.decision = "REJECTED",
         r.kind = "review" <=> r.op = "review"
  PROVE  KycInv'
<1>1. /\ kycReq[w].op = "free" /\ kycReq' = [kycReq EXCEPT ![w] = r]
      /\ mixed' = (mixed \/ \E d \in Workers \ {w} :
                              kycReq[d] # Check!Free /\ kycReq[d].kind # r.kind)
      /\ UNCHANGED <<kyc, rejected>>
  BY DEF Check!Start, Check!Free
<1>2. /\ kycReq' \in [Workers -> KycRequests] /\ kycReq'[w] = r
      /\ \A v \in Workers : v # w => kycReq'[v] = kycReq[v]
  BY <1>1 DEF KycInv, KycTypes
<1>3. KycTypes'
  <2>1. mixed' \in BOOLEAN
    BY <1>1 DEF KycInv, KycTypes
  <2> QED BY <1>1, <1>2, <2>1 DEF KycInv, KycTypes
<1>4. ASSUME ~mixed' PROVE KindsInv' /\ CauseInv'
  <2>1. KindsInv /\ CauseInv
    BY <1>1, <1>4 DEF KycInv
  <2>2. \A v \in Workers : v # w /\ kycReq[v].op # "free" => kycReq[v].kind = r.kind
    <3>1. \A v \in Workers : kycReq[v].op # "free" => kycReq[v] # Check!Free
      BY DEF Check!Free
    <3>2. \A v \in Workers \ {w} : kycReq[v] = Check!Free \/ kycReq[v].kind = r.kind
      BY <1>1, <1>4
    <3> QED BY <3>1, <3>2
  <2>3. KindsInv'
    BY <1>1, <1>2, <2>1, <2>2 DEF KindsInv, At
  <2>4. CauseInv'
    <3>1. SUFFICES ASSUME Uncleared, ~kyc.reason, ~rejected PROVE CauseInv'
      BY <1>1 DEF CauseInv, Uncleared
    <3>2. CASE r.kind = "review"
      <4>1. \A v \in Workers : ~At(v, "upload", "ask")
        BY <1>1, <2>2, <3>2 DEF At
      <4> QED BY <1>1, <1>2, <2>1, <3>1, <3>2, <4>1 DEF CauseInv, At
    <3>3. CASE r.kind # "review"
      <4>1. \A k, o : \A v \in Workers : v # w /\ At(v, k, o)' <=> v # w /\ At(v, k, o)
        BY <1>2 DEF At
      <4>2. ~At(w, "review", "review")' /\ ~At(w, "upload", "ask")
        BY <1>1, <1>2, <3>3 DEF At
      <4> QED BY <1>1, <1>2, <2>1, <3>1, <4>1, <4>2 DEF CauseInv
    <3> QED BY <3>2, <3>3
  <2> QED BY <2>3, <2>4
<1> QED BY <1>3, <1>4 DEF KycInv

\* A document is stored; with both sides of the card the register is asked again.
LEMMA UploadKyc ==
  ASSUME KycInv, NEW w \in Workers, Check!SaveUpload(w) PROVE KycInv'
<1>1. PICK r : r = kycReq[w]
  OBVIOUS
<1>2. r.op = "save" /\ r \in KycRequests /\ UNCHANGED <<requests, mixed, rejected>>
  BY <1>1 DEF Check!SaveUpload, KycInv, KycTypes
<1>3. /\ r \in [kind : {"upload"}, op : {"save"}, doc : Documents, row : Check!KycRows]
      /\ At(w, "upload", "save")
  BY <1>1, <1>2 DEF KycRequests, At
<1>4. PICK row : row = IF Check!BothSides(r.row.files) THEN [r.row EXCEPT !.status = "PENDING"]
                       ELSE r.row
  OBVIOUS
<1>5. row \in Check!KycRows /\ row.idNumber = r.row.idNumber
      /\ (Check!BothSides(r.row.files) => row.status = "PENDING")
  BY <1>3, <1>4 DEF Check!KycRows, Check!KycStatuses
<1>6. /\ kyc' = [kyc EXCEPT !.files = kyc.files \cup {r.doc},
                            !.status = IF Check!BothSides(r.row.files) THEN "PENDING" ELSE kyc.status]
      /\ IF Check!AutoVerifies(row)
         THEN kycReq' = [kycReq EXCEPT ![w] = [kind |-> "upload", op |-> "ask", row |-> row]]
         ELSE kycReq' = [kycReq EXCEPT ![w] = Check!Free]
  BY <1>1, <1>4 DEF Check!SaveUpload, Check!Finish
<1>7. /\ kyc \in Check!KycRows /\ kyc' \in Check!KycRows
      /\ kyc'.iprs = kyc.iprs /\ kyc'.idNumber = kyc.idNumber /\ kyc'.reason = kyc.reason
      /\ kyc'.status = IF Check!BothSides(r.row.files) THEN "PENDING" ELSE kyc.status
  BY <1>3, <1>6 DEF KycInv, KycTypes, Check!KycRows, Check!KycStatuses
<1>8. /\ kycReq' \in [Workers -> KycRequests]
      /\ \A v \in Workers : v # w => kycReq'[v] = kycReq[v]
      /\ IF Check!AutoVerifies(row)
         THEN kycReq'[w] = [kind |-> "upload", op |-> "ask", row |-> row]
         ELSE kycReq'[w] = [op |-> "free"]
  <2>1. [kind |-> "upload", op |-> "ask", row |-> row] \in KycRequests /\ Check!Free \in KycRequests
    BY <1>5 DEF KycRequests, Check!Free
  <2> QED BY <1>6, <2>1 DEF KycInv, KycTypes, Check!Free
<1>9. KycTypes'
  BY <1>2, <1>7, <1>8 DEF KycInv, KycTypes
<1>10. ASSUME ~mixed PROVE KindsInv' /\ CauseInv'
  <2>1. KindsInv /\ CauseInv /\ r.row.idNumber = kyc.idNumber
    BY <1>1, <1>3, <1>10 DEF KycInv, KindsInv
  <2>2. Check!AutoVerifies(row) <=> row.status = "PENDING" /\ kyc.idNumber
    BY <1>5, <2>1 DEF Check!AutoVerifies
  <2>3. KindsInv'
    BY <1>3, <1>5, <1>7, <1>8, <2>1, <2>2 DEF KindsInv, At
  <2>4. CauseInv'
    <3>1. SUFFICES ASSUME Uncleared, ~kyc.reason, ~rejected PROVE CauseInv'
      BY <1>2, <1>7 DEF CauseInv, Uncleared
    <3>2. \A v \in Workers : ~At(v, "review", "review")'
      BY <1>3, <1>8, <2>1 DEF KindsInv, At
    <3>3. CASE Check!BothSides(r.row.files)
      <4>1. kyc'.status = "PENDING" /\ At(w, "upload", "ask")'
        BY <1>5, <1>7, <1>8, <2>1, <2>2, <3>1, <3>3 DEF KindsInv, Uncleared, At
      <4> QED BY <3>2, <4>1 DEF CauseInv
    <3>4. CASE ~Check!BothSides(r.row.files)
      <4>1. \A v \in Workers : At(v, "upload", "ask") => At(v, "upload", "ask")'
        BY <1>3, <1>8 DEF At
      <4> QED BY <1>7, <2>1, <3>1, <3>2, <3>4, <4>1 DEF CauseInv
    <3> QED BY <3>3, <3>4
  <2> QED BY <2>3, <2>4
<1> QED BY <1>2, <1>9, <1>10 DEF KycInv

\* The register answers: status and answer are stored together.
LEMMA AnswerKyc ==
  ASSUME KycInv, NEW w \in Workers, Check!ApplyIprs(w) PROVE KycInv'
<1>1. /\ kycReq[w].op = "ask" /\ kycReq[w] \in KycRequests
      /\ kycReq' = [kycReq EXCEPT ![w] = Check!Free] /\ rejected' = FALSE /\ UNCHANGED mixed
  BY DEF Check!ApplyIprs, Check!Finish, KycInv, KycTypes
<1>2. kycReq[w] \in [kind : {"upload", "number"}, op : {"ask"}, row : Check!KycRows]
  BY <1>1 DEF KycRequests
<1>3. PICK outcome \in Check!IprsOutcomes :
        kyc' = [kyc EXCEPT !.idNumber = TRUE, !.iprs = outcome,
                           !.status = Check!IprsStatus(kycReq[w].row, outcome)]
  BY DEF Check!ApplyIprs, Check!IprsOutcomes, Check!Standardized
<1>4. /\ Check!IprsStatus(kycReq[w].row, outcome) \in Check!KycStatuses
      /\ outcome # "verified" =>
           Check!IprsStatus(kycReq[w].row, outcome) \in {"IPRS_MISMATCH", "PENDING_MANUAL"}
  BY <1>2 DEF Check!IprsStatus, Check!IprsOutcomes, Check!KycStatuses, Check!KycRows
<1>5. /\ kyc' \in Check!KycRows /\ kyc'.idNumber /\ kyc'.iprs = outcome
      /\ kyc'.status = Check!IprsStatus(kycReq[w].row, outcome)
  BY <1>3, <1>4 DEF KycInv, KycTypes, Check!KycRows, Check!IprsOutcomes
<1>6. /\ kycReq' \in [Workers -> KycRequests] /\ kycReq'[w].op = "free"
      /\ \A v \in Workers : v # w => kycReq'[v] = kycReq[v]
  <2>1. Check!Free \in KycRequests
    BY DEF Check!Free, KycRequests
  <2> QED BY <1>1, <2>1 DEF KycInv, KycTypes, Check!Free
<1>7. KycTypes'
  BY <1>1, <1>5, <1>6 DEF KycInv, KycTypes
<1>8. ASSUME ~mixed PROVE KindsInv' /\ CauseInv'
  <2>1. KindsInv
    BY <1>8 DEF KycInv
  <2>2. /\ \A v \in Workers : kycReq'[v].op # "free" => v # w /\ kycReq'[v] = kycReq[v]
        /\ \A v \in Workers : kycReq'[v].op # "free" => kycReq'[v].kind = kycReq[w].kind
        /\ kycReq[w].kind \in {"upload", "number"}
    BY <1>1, <1>2, <1>6, <2>1 DEF KindsInv
  <2>3. \A v \in Workers : At(v, "upload", "save")' => kycReq'[v].row.idNumber
    <3>1. SUFFICES ASSUME NEW v \in Workers, At(v, "upload", "save")'
                   PROVE  kycReq'[v].row.idNumber
      OBVIOUS
    <3>2. v # w /\ kycReq'[v] = kycReq[v] /\ kycReq[w].kind = "upload"
      BY <2>2, <3>1 DEF At
    <3>3. At(v, "upload", "save") /\ At(w, "upload", "ask")
      BY <1>1, <3>1, <3>2 DEF At
    <3> QED BY <2>1, <3>2, <3>3 DEF KindsInv
  <2>4. KindsInv'
    <3>1. \A v \in Workers : At(v, "upload", "ask")' => kycReq'[v].row.idNumber
      BY <2>1, <2>2 DEF KindsInv, At
    <3>2. \A v \in Workers : At(v, "upload", "save")' => kycReq'[v].row.idNumber = kyc'.idNumber
      <4>1. \A v \in Workers : At(v, "upload", "save")' => kycReq'[v].row \in Check!KycRows
        BY <1>6 DEF At, KycRequests
      <4> QED BY <1>5, <2>3, <4>1 DEF Check!KycRows
    <3> QED BY <1>5, <2>1, <2>2, <3>1, <3>2 DEF KindsInv
  <2>5. CauseInv'
    BY <1>4, <1>5, <2>2 DEF CauseInv, Uncleared, At
  <2> QED BY <2>4, <2>5
<1> QED BY <1>1, <1>7, <1>8 DEF KycInv

\* An admin's decision is stored.
LEMMA DecideKyc ==
  ASSUME KycInv, NEW w \in Workers, Check!SaveReview(w) PROVE KycInv'
<1>1. /\ kycReq[w].op = "review" /\ kycReq[w] \in KycRequests
      /\ kycReq' = [kycReq EXCEPT ![w] = Check!Free] /\ UNCHANGED mixed
      /\ rejected' = (rejected \/ kycReq[w].decision = "REJECTED")
      /\ kyc' = [kyc EXCEPT !.status = kycReq[w].decision,
                            !.reason = kyc.reason \/ kycReq[w].reason]
  BY DEF Check!SaveReview, Check!Finish, KycInv, KycTypes
<1>2. /\ kycReq[w] \in [kind : {"review"}, op : {"review"},
                        decision : {"APPROVED", "REJECTED"}, reason : BOOLEAN]
      /\ At(w, "review", "review")
  BY <1>1 DEF KycRequests, At
<1>3. /\ kyc' \in Check!KycRows /\ kyc'.iprs = kyc.iprs /\ kyc'.idNumber = kyc.idNumber
      /\ kyc'.reason = (kyc.reason \/ kycReq[w].reason)
  BY <1>1, <1>2 DEF KycInv, KycTypes, Check!KycRows, Check!KycStatuses
<1>4. /\ kycReq' \in [Workers -> KycRequests] /\ kycReq'[w].op = "free"
      /\ \A v \in Workers : v # w => kycReq'[v] = kycReq[v]
  <2>1. Check!Free \in KycRequests
    BY DEF Check!Free, KycRequests
  <2> QED BY <1>1, <2>1 DEF KycInv, KycTypes, Check!Free
<1>5. KycTypes'
  BY <1>1, <1>3, <1>4 DEF KycInv, KycTypes
<1>6. ASSUME ~mixed PROVE KindsInv' /\ CauseInv'
  <2>1. KindsInv /\ CauseInv
    BY <1>6 DEF KycInv
  <2>2. KindsInv'
    BY <1>3, <1>4, <2>1 DEF KindsInv, At
  <2>3. Uncleared /\ ~kyc.reason /\ ~rejected =>
          kycReq[w].reason \/ kycReq[w].decision = "REJECTED"
    BY <1>2, <2>1 DEF CauseInv
  <2>4. CauseInv'
    BY <1>1, <1>3, <2>3 DEF CauseInv, Uncleared
  <2> QED BY <2>2, <2>4
<1> QED BY <1>1, <1>5, <1>6 DEF KycInv

\* A step of the model.
LEMMA StepKyc ==
  ASSUME KycInv, [Next]_<<part, codes, accounts, identity, roles>> PROVE KycInv'
<1>t. kyc \in Check!KycRows
  BY DEF KycInv, KycTypes
<1>1. ASSUME NEW w \in Workers, NEW doc \in Documents, Check!StartUpload(w, doc) PROVE KycInv'
  <2>1. PICK r : r = [kind |-> "upload", op |-> "save", doc |-> doc,
                      row |-> [kyc EXCEPT !.files = kyc.files \cup {doc}]]
    OBVIOUS
  <2>2. r \in KycRequests /\ r.op = "save" /\ r.kind = "upload" /\ r.row.idNumber = kyc.idNumber
    BY <1>t, <2>1 DEF KycRequests, Check!KycRows
  <2>3. Check!Start(w, r)
    BY <1>1, <2>1 DEF Check!StartUpload
  <2> QED BY <2>2, <2>3, StartKyc
<1>2. ASSUME NEW w \in Workers, Check!StartSubmitId(w) PROVE KycInv'
  <2>1. PICK r : r = [kind |-> "number", op |-> "ask", row |-> kyc]
    OBVIOUS
  <2>2. r \in KycRequests /\ r.op = "ask" /\ r.kind = "number"
    BY <1>t, <2>1 DEF KycRequests
  <2>3. Check!Start(w, r)
    BY <1>2, <2>1 DEF Check!StartSubmitId
  <2> QED BY <2>2, <2>3, StartKyc
<1>3. ASSUME NEW w \in Workers, NEW decision \in {"APPROVED", "REJECTED"}, NEW reason \in BOOLEAN,
             Check!StartReview(w, decision, reason)
      PROVE  KycInv'
  <2>1. PICK r : r = [kind |-> "review", op |-> "review", decision |-> decision, reason |-> reason]
    OBVIOUS
  <2>2. /\ r \in KycRequests /\ r.op = "review" /\ r.kind = "review"
        /\ r.reason = reason /\ r.decision = decision
    BY <2>1 DEF KycRequests
  <2>3. Check!Start(w, r) /\ Check!MayDecide(kyc.status, decision, reason)
    BY <1>3, <2>1 DEF Check!StartReview
  <2> QED BY <2>2, <2>3, StartKyc DEF Check!MayDecide
<1>4. CASE Check!KycNext
  BY <1>1, <1>2, <1>3, <1>4, UploadKyc, AnswerKyc, DecideKyc DEF Check!KycNext
<1>5. CASE UNCHANGED identity
  BY <1>5 DEF identity, KycInv, KycTypes, KindsInv, CauseInv, Uncleared, At
<1> QED BY <1>4, <1>5 DEF Next

\* Nobody whom the register did not clear is approved without a reason, unless requests of
\* two kinds overlapped or the check had been rejected (AdminKYCReviewView).
THEOREM ApprovedOnlyWithCause == Spec => []ApprovedWithCause
<1>1. Init => KycInv
  BY InitKyc DEF Init
<1>2. KycInv => ApprovedWithCause
  BY DEF KycInv, CauseInv, Uncleared, ApprovedWithCause, Check!ApprovedWithCause
<1> QED BY <1>1, <1>2, StepKyc, PTL DEF Spec

-----------------------------------------------------------------------------
(* Signing in                                                              *)

\* A request that will save the whole row of e.
Saving(w, e) == Sign!SavesRow(signReq[w].op) /\ signReq[w].email = e

\* What was meant to be stored is stored, and a request that will save the whole row
\* has the row that is stored, unless it was crossed.
SignInv ==
  /\ account = [e \in Emails |-> account[e]] /\ written = [e \in Emails |-> written[e]]
  /\ signReq = [w \in Workers |-> signReq[w]]
  /\ \A e \in Emails \ crossed :
       /\ account[e] = written[e]
       /\ \A w \in Workers : Saving(w, e) => signReq[w].row = account[e]

\* A request stores a row that is the one meant.
LEMMA StoreSign ==
  ASSUME SignInv, NEW w \in Workers, NEW e, NEW row, NEW meant,
         Sign!Store(w, e, row, meant), e \in Emails \ crossed => row = meant,
         signReq' = [v \in Workers |-> signReq'[v]], ~Sign!SavesRow(signReq'[w].op),
         \A v \in Workers : v # w => signReq'[v] = signReq[v]
  PROVE  SignInv'
<1>1. /\ account' = [account EXCEPT ![e] = row] /\ written' = [written EXCEPT ![e] = meant]
      /\ crossed' = IF \E v \in Workers \ {w} : Saving(v, e) THEN crossed \cup {e} ELSE crossed
  BY DEF Sign!Store, Sign!Cross, Saving
<1>2. /\ account' = [f \in Emails |-> account'[f]] /\ written' = [f \in Emails |-> written'[f]]
      /\ \A f \in Emails : f # e => account'[f] = account[f] /\ written'[f] = written[f]
      /\ e \in Emails => account'[e] = row /\ written'[e] = meant
  BY <1>1 DEF SignInv
<1>3. \A f : \A v \in Workers : Saving(v, f)' => v # w /\ Saving(v, f) /\ signReq'[v] = signReq[v]
  BY DEF Saving
<1>4. ASSUME NEW f \in Emails \ crossed'
      PROVE  /\ account'[f] = written'[f]
             /\ \A v \in Workers : Saving(v, f)' => signReq'[v].row = account'[f]
  <2>1. f \in Emails \ crossed
    BY <1>1, <1>4
  <2>2. CASE f = e
    BY <1>1, <1>2, <1>3, <1>4, <2>1, <2>2
  <2>3. CASE f # e
    BY <1>2, <1>3, <2>1, <2>3 DEF SignInv
  <2> QED BY <2>2, <2>3
<1> QED BY <1>2, <1>4 DEF SignInv

\* Requests that store nothing in accounts: they begin with the row as stored, or end.
LEMMA QuietSign ==
  ASSUME SignInv, UNCHANGED <<account, written, crossed>>,
         signReq' = [v \in Workers |-> signReq'[v]],
         \A v \in Workers : \/ signReq'[v] = signReq[v]
                            \/ ~Sign!SavesRow(signReq'[v].op)
                            \/ signReq'[v].row = account[signReq'[v].email]
  PROVE  SignInv'
BY DEF SignInv, Saving

\* Registration, Google's answer and the login.
LEMMA EnterSign ==
  ASSUME SignInv, NEW w \in Workers, NEW e \in Emails,
         \/ \E p \in Passwords, n \in Phones : Sign!StartRegister(w, e, p, n)
         \/ \E s \in Subjects, flow \in {"login", "signup"} : Sign!GoogleSignIn(w, e, s, flow)
         \/ Sign!CreateAccount(w) \/ Sign!CreateKycRow(w) \/ Sign!GoogleCreate(w)
  PROVE  SignInv'
<1> USE DEF SignInv
<1>1. ASSUME NEW p, NEW n, Sign!StartRegister(w, e, p, n) PROVE SignInv'
  BY <1>1, QuietSign DEF Sign!StartRegister, Sign!SavesRow
<1>2. ASSUME NEW s, NEW flow, Sign!GoogleSignIn(w, e, s, flow) PROVE SignInv'
  BY <1>2, QuietSign DEF Sign!GoogleSignIn, Sign!SavesRow
<1>3. CASE Sign!CreateAccount(w)
  <2>1. CASE UNCHANGED <<account, written, crossed>>
    BY <1>3, <2>1, QuietSign DEF Sign!CreateAccount, Sign!Done, Sign!Store, Sign!SavesRow,
                                Sign!NoRequest
  <2>2. CASE ~UNCHANGED <<account, written, crossed>>
    <3>1. /\ Sign!Store(w, signReq[w].email, signReq[w].row, signReq[w].row)
          /\ signReq' = [signReq EXCEPT ![w] = [op |-> "kyc", email |-> signReq[w].email]]
      BY <1>3, <2>2 DEF Sign!CreateAccount
    <3>2. PICK f, row : f = signReq[w].email /\ row = signReq[w].row
      OBVIOUS
    <3>3. Sign!Store(w, f, row, row)
      BY <3>1, <3>2
    <3> QED BY <3>1, <3>3, StoreSign DEF Sign!SavesRow
  <2> QED BY <2>1, <2>2
<1>4. CASE Sign!CreateKycRow(w)
  BY <1>4, QuietSign DEF Sign!CreateKycRow, Sign!Done, Sign!SavesRow, Sign!NoRequest
<1>5. CASE Sign!GoogleCreate(w)
  <2>1. signReq' = [signReq EXCEPT ![w] = Sign!NoRequest]
    BY <1>5 DEF Sign!GoogleCreate, Sign!Done
  <2>2. CASE UNCHANGED <<account, written, crossed>>
    BY <2>1, <2>2, QuietSign DEF Sign!SavesRow, Sign!NoRequest
  <2>3. CASE ~UNCHANGED <<account, written, crossed>>
    <3>1. Sign!Store(w, signReq[w].email, signReq[w].row, signReq[w].row)
      BY <1>5, <2>3 DEF Sign!GoogleCreate
    <3>2. PICK f, row : f = signReq[w].email /\ row = signReq[w].row
      OBVIOUS
    <3>3. Sign!Store(w, f, row, row)
      BY <3>1, <3>2
    <3> QED BY <2>1, <3>3, StoreSign DEF Sign!SavesRow, Sign!NoRequest
  <2> QED BY <2>2, <2>3
<1> QED BY <1>1, <1>2, <1>3, <1>4, <1>5

\* Changes begin with the row as it is stored.
LEMMA BeginSign ==
  ASSUME SignInv, NEW w \in Workers, NEW e, NEW op, NEW new, Sign!Begin(w, e, op, new)
  PROVE  SignInv'
BY QuietSign DEF Sign!Begin, SignInv

\* Changes end with a row that differs from the stored one in what was meant.
LEMMA ChangeSign ==
  ASSUME SignInv, NEW w \in Workers,
         Sign!SavePatch(w) \/ Sign!SavePasswordChange(w) \/ Sign!SaveLink(w)
  PROVE  SignInv'
<1>1. signReq' = [signReq EXCEPT ![w] = Sign!NoRequest]
  BY DEF Sign!SavePatch, Sign!SavePasswordChange, Sign!SaveLink, Sign!Done
<1>2. /\ signReq' = [v \in Workers |-> signReq'[v]] /\ ~Sign!SavesRow(signReq'[w].op)
      /\ \A v \in Workers : v # w => signReq'[v] = signReq[v]
  BY <1>1 DEF SignInv, Sign!SavesRow, Sign!NoRequest
<1>3. CASE UNCHANGED <<account, written, crossed>>
  <2>1. \A v \in Workers : signReq'[v] = signReq[v] \/ ~Sign!SavesRow(signReq'[v].op)
    BY <1>2
  <2> QED BY <1>2, <1>3, <2>1, QuietSign
<1>4. CASE ~UNCHANGED <<account, written, crossed>>
  <2>1. PICK e : e = signReq[w].email
    OBVIOUS
  <2>2. e \in Emails \ crossed => account[e] = written[e]
    BY DEF SignInv
  <2>3. Sign!SavesRow(signReq[w].op) /\ e \in Emails \ crossed => signReq[w].row = account[e]
    BY <2>1 DEF SignInv, Saving
  <2>4. PICK row, meant : Sign!Store(w, e, row, meant)
                          /\ (e \in Emails \ crossed => row = meant)
    <3>1. CASE Sign!SavePatch(w)
      <4>1. PICK row, meant : /\ row = [signReq[w].row EXCEPT !.phone = signReq[w].new]
                              /\ meant = [written[e] EXCEPT !.phone = signReq[w].new]
        OBVIOUS
      <4>2. Sign!Store(w, e, row, meant) /\ signReq[w].op = "patch"
        BY <1>4, <2>1, <3>1, <4>1 DEF Sign!SavePatch, Sign!SaveRow
      <4> QED BY <2>2, <2>3, <4>1, <4>2 DEF Sign!SavesRow
    <3>2. CASE Sign!SavePasswordChange(w)
      <4>1. PICK row, meant : /\ row = [account[e] EXCEPT !.password = signReq[w].new]
                              /\ meant = [written[e] EXCEPT !.password = signReq[w].new]
        OBVIOUS
      <4>2. Sign!Store(w, e, row, meant)
        BY <2>1, <3>2, <4>1 DEF Sign!SavePasswordChange
      <4> QED BY <2>2, <4>1, <4>2
    <3>3. CASE Sign!SaveLink(w)
      <4>1. PICK row, meant : /\ row = [signReq[w].row EXCEPT !.google = signReq[w].new]
                              /\ meant = [written[e] EXCEPT !.google = signReq[w].new]
        OBVIOUS
      <4>2. Sign!Store(w, e, row, meant) /\ signReq[w].op = "link"
        BY <1>4, <2>1, <3>3, <4>1 DEF Sign!SaveLink, Sign!SaveRow
      <4> QED BY <2>2, <2>3, <4>1, <4>2 DEF Sign!SavesRow
    <3> QED BY <3>1, <3>2, <3>3
  <2> QED BY <1>2, <2>4, StoreSign
<1> QED BY <1>3, <1>4

\* A reset stores the password, in a request of its own.
LEMMA ResetSign ==
  ASSUME SignInv, NEW e \in Emails, NEW p, Sign!PasswordIsReset(e, p) PROVE SignInv'
<1>1. PICK w \in Workers : /\ signReq[w] = Sign!NoRequest
                           /\ Sign!Store(w, e, [account[e] EXCEPT !.password = p],
                                               [written[e] EXCEPT !.password = p])
  BY DEF Sign!PasswordIsReset
<1>2. PICK row, meant : /\ row = [account[e] EXCEPT !.password = p]
                        /\ meant = [written[e] EXCEPT !.password = p]
  OBVIOUS
<1>3. Sign!Store(w, e, row, meant) /\ (e \in Emails \ crossed => row = meant)
  BY <1>1, <1>2 DEF SignInv
<1>4. UNCHANGED signReq /\ ~Sign!SavesRow(signReq[w].op)
  BY <1>1 DEF Sign!PasswordIsReset, Sign!SavesRow, Sign!NoRequest
<1> QED BY <1>3, <1>4, StoreSign DEF SignInv

\* A code for a phone number is sent, is not entered, or stores the number it was sent to.
LEMMA PhoneSign ==
  ASSUME SignInv, NEW w \in Workers,
         \/ \E e \in Emails : Sign!SendPhoneCode(w, e)
         \/ Sign!SaveVerifiedPhone(w) \/ Sign!ForgetPhoneCode(w)
  PROVE  SignInv'
<1>1. ASSUME NEW e \in Emails, Sign!SendPhoneCode(w, e) PROVE SignInv'
  BY <1>1, QuietSign DEF Sign!SendPhoneCode, Sign!SavesRow, SignInv
<1>2. CASE Sign!ForgetPhoneCode(w)
  BY <1>2, QuietSign DEF Sign!ForgetPhoneCode, Sign!Done, Sign!SavesRow, Sign!NoRequest, SignInv
<1>3. CASE Sign!SaveVerifiedPhone(w)
  <2>1. PICK e, row, meant : /\ e = signReq[w].email
                             /\ row = [account[e] EXCEPT !.phone = signReq[w].new]
                             /\ meant = [written[e] EXCEPT !.phone = signReq[w].new]
    OBVIOUS
  <2>2. Sign!Store(w, e, row, meant) /\ signReq' = [signReq EXCEPT ![w] = Sign!NoRequest]
    BY <1>3, <2>1 DEF Sign!SaveVerifiedPhone, Sign!Done
  <2>3. e \in Emails \ crossed => row = meant
    BY <2>1 DEF SignInv
  <2>4. /\ signReq' = [v \in Workers |-> signReq'[v]] /\ ~Sign!SavesRow(signReq'[w].op)
        /\ \A v \in Workers : v # w => signReq'[v] = signReq[v]
    BY <2>2 DEF SignInv, Sign!SavesRow, Sign!NoRequest
  <2> QED BY <2>2, <2>3, <2>4, StoreSign
<1> QED BY <1>1, <1>2, <1>3

\* A step of the model.
LEMMA StepSign ==
  ASSUME SignInv, [Next]_<<part, codes, accounts, identity, roles>> PROVE SignInv'
<1>1. CASE UNCHANGED <<account, written, crossed, signReq>>
  BY <1>1, QuietSign DEF SignInv
<1>2. ASSUME NEW w \in Workers, NEW e \in Emails,
             \/ \E n \in Phones : Sign!StartPatch(w, e, n)
             \/ \E old, p \in Passwords : Sign!StartPasswordChange(w, e, old, p)
             \/ \E s \in Subjects : Sign!StartLink(w, e, s)
      PROVE  SignInv'
  BY <1>2, BeginSign DEF Sign!StartPatch, Sign!StartPasswordChange, Sign!StartLink
<1>3. CASE \/ \E e \in Emails, p \in Passwords : Sign!Login(e, p)
           \/ \E s \in sessions : Sign!Logout(s)
           \/ \E d \in Devices : Sign!RevokeDevice(d) \/ \E b \in BOOLEAN : Sign!RegisterDevice(d, b)
  BY <1>1, <1>3 DEF Sign!Login, Sign!Logout, Sign!RevokeDevice, Sign!RegisterDevice
<1>4. ASSUME NEW w \in Workers, Sign!CreateAccount(w) \/ Sign!CreateKycRow(w) \/ Sign!GoogleCreate(w)
      PROVE  SignInv'
  <2>1. CASE Emails = {}
    BY <1>4, <2>1 DEF SignInv, Sign!CreateAccount, Sign!CreateKycRow, Sign!GoogleCreate,
                      Sign!Store, Sign!Done
  <2>2. CASE Emails # {}
    BY <1>4, <2>2, EnterSign
  <2> QED BY <2>1, <2>2
<1>5. CASE Sign!SignNext
  BY <1>2, <1>3, <1>4, <1>5, EnterSign, ChangeSign, PhoneSign, ResetSign DEF Sign!SignNext
<1> QED BY <1>1, <1>5 DEF Next, accounts

-----------------------------------------------------------------------------
(* Roles                                                                   *)

RoleRows == Grant!Grants \cup {Deleted}

RoleAssumption == Deleted \notin Grant!Grants

\* Row j makes one of the users a super admin.
Rules(j) == j \in DOMAIN role /\ role[j] # Deleted /\ role[j].name = "SUPER_ADMIN"

\* Requests and rows fit; a revocation is about a row that is, or was, the role it read.
CallsInv ==
  /\ role \in Seq(RoleRows) /\ call = [w \in Workers |-> call[w]] /\ mutual \in BOOLEAN
  /\ \A w \in Workers :
       /\ call[w].op = "assign" => call[w].grant \in Grant!Grants
       /\ call[w].op = "revoke" =>
            call[w].row \in DOMAIN role /\ role[call[w].row] \in {Deleted, call[w].grant}
       /\ call[w].op = "scope" => (call[w].sacco \in Saccos => call[w].sacco \in call[w].may)

\* A role is in one row, unless it was assigned twice at the same time.
OnceInv ==
  /\ \A i, j \in DOMAIN role : role[i] = role[j] =>
       i = j \/ role[i] = Deleted \/ role[i] \in coincided
  /\ gone \cap Grant!Granted \subseteq coincided

Revoking(w) == call[w].op \in {"revoking", "revoke"}

\* While revocations do not cross, a super admin is left whose role is not being revoked:
\* whoever was permitted to revoke is one, until the role to revoke was looked at.
RulerInv ==
  ~mutual =>
    /\ \E j : Rules(j)
    /\ \A v, w \in Workers : Revoking(v) /\ Revoking(w) => v = w
    /\ \A w \in Workers :
         /\ call[w].op = "revoking" => \E j : Rules(j) /\ role[j].user = call[w].user
         /\ call[w].op = "revoke" => \E j : Rules(j) /\ j # call[w].row

RolesInv == CallsInv /\ OnceInv /\ RulerInv /\ ~misplaced

\* There is one role at first.
LEMMA InitRoles == ASSUME RoleAssumption, Grant!RoleInit PROVE RolesInv
<1>1. PICK g : g = [user |-> Founder, sacco |-> Platform, name |-> "SUPER_ADMIN"]
  OBVIOUS
<1>2. g \in Grant!Grants /\ g.name = "SUPER_ADMIN"
  <2>1. PICK o : o = <<Platform, "SUPER_ADMIN">>
    OBVIOUS
  <2>2. o[1] = Platform /\ o[2] = "SUPER_ADMIN"
    BY <2>1
  <2>3. g = [user |-> Founder, sacco |-> o[1], name |-> o[2]]
    BY <1>1, <2>2
  <2>4. o \in {<<Platform, "SUPER_ADMIN">>} \cup (Saccos \X {"SACCO_ADMIN"})
    BY <2>1
  <2>5. Founder \in {Founder, Second}
    OBVIOUS
  <2> QED BY <1>1, <2>3, <2>4, <2>5 DEF Grant!Grants
<1>3. role = <<g>> /\ role \in Seq(RoleRows) /\ DOMAIN role = {1} /\ role[1] = g
  BY <1>1, <1>2 DEF Grant!RoleInit, RoleRows
<1>4. CallsInv
  BY <1>3 DEF Grant!RoleInit, Grant!Quiet, CallsInv
<1>5. OnceInv
  BY <1>3 DEF Grant!RoleInit, OnceInv
<1>6. RulerInv
  BY <1>2, <1>3 DEF Grant!RoleInit, Grant!Quiet, RulerInv, Rules, Revoking, RoleAssumption
<1> QED BY <1>4, <1>5, <1>6 DEF Grant!RoleInit, RolesInv

\* A request that leaves the roles alone.
LEMMA QuietRoles ==
  ASSUME RolesInv, UNCHANGED <<role, gone, coincided, mutual, misplaced>>, NEW w \in Workers,
         call' = [v \in Workers |-> call'[v]], \A v \in Workers : v # w => call'[v] = call[v],
         call'[w].op \notin {"revoke", "revoking"},
         call'[w].op = "assign" => call'[w].grant \in Grant!Grants,
         call'[w].op = "scope" => (call'[w].sacco \in Saccos => call'[w].sacco \in call'[w].may)
  PROVE  RolesInv'
<1>1. CallsInv'
  BY DEF RolesInv, CallsInv
<1>2. OnceInv'
  BY DEF RolesInv, OnceInv, Grant!Granted
<1>3. RulerInv'
  BY DEF RolesInv, RulerInv, Rules, Revoking
<1> QED BY <1>1, <1>2, <1>3 DEF RolesInv

\* The role is created, unless the unique constraint forbids it.
LEMMA CreateRoles ==
  ASSUME RolesInv, NEW w \in Workers, Grant!CreateRole(w) PROVE RolesInv'
<1>1. PICK g : g = call[w].grant
  OBVIOUS
<1>2. /\ call[w].op = "assign" /\ g \in Grant!Grants
      /\ call' = [call EXCEPT ![w] = Grant!Quiet] /\ UNCHANGED <<mutual, misplaced>>
  BY <1>1 DEF Grant!CreateRole, Grant!Turn, RolesInv, CallsInv
<1>3. /\ call' = [v \in Workers |-> call'[v]] /\ call'[w].op = "none"
      /\ \A v \in Workers : v # w => call'[v] = call[v]
  BY <1>2 DEF Grant!Quiet, RolesInv, CallsInv
<1>4. CASE UNCHANGED <<role, coincided, gone>>
  BY <1>2, <1>3, <1>4, QuietRoles
<1>5. CASE ~UNCHANGED <<role, coincided, gone>>
  <2>1. /\ role' = Append(role, g) /\ gone' = gone \ {g}
        /\ coincided' = IF g \in Grant!Granted THEN coincided \cup {g} ELSE coincided
    BY <1>1, <1>5 DEF Grant!CreateRole
  <2>2. PICK n : n = Len(role) + 1
    OBVIOUS
  <2>3. /\ role \in Seq(RoleRows) /\ DOMAIN role = 1..Len(role) /\ Len(role) \in Nat
        /\ n \notin DOMAIN role
    BY <2>2, LenProperties DEF RolesInv, CallsInv
  <2>4. /\ role' \in Seq(RoleRows) /\ DOMAIN role' = DOMAIN role \cup {n}
        /\ role'[n] = g /\ \A i \in DOMAIN role : role'[i] = role[i]
    BY <1>2, <2>1, <2>2, <2>3 DEF RoleRows
  <2>5. CallsInv'
    BY <1>2, <1>3, <2>4 DEF RolesInv, CallsInv
  <2>6. /\ \A i \in DOMAIN role : role[i] = g => g = Deleted \/ g \in Grant!Granted
        /\ Grant!Granted' \subseteq Grant!Granted \cup {g}
    BY <2>4 DEF Grant!Granted
  <2>7. OnceInv'
    <3>1. coincided \subseteq coincided' /\ (g \in Grant!Granted => g \in coincided')
      BY <2>1
    <3>2. \A i, j \in DOMAIN role' : role'[i] = role'[j] =>
            i = j \/ role'[i] = Deleted \/ role'[i] \in coincided'
      BY <2>4, <2>6, <3>1 DEF RolesInv, OnceInv
    <3>3. gone' \cap Grant!Granted' \subseteq coincided'
      BY <2>1, <2>6, <3>1 DEF RolesInv, OnceInv
    <3> QED BY <3>2, <3>3 DEF OnceInv
  <2>8. RulerInv'
    <3>1. \A j : Rules(j) => Rules(j)' /\ role'[j] = role[j]
      BY <2>4 DEF Rules
    <3>2. \A v \in Workers : Revoking(v)' => v # w /\ Revoking(v) /\ call'[v] = call[v]
      BY <1>3 DEF Revoking
    <3>3. SUFFICES ASSUME ~mutual PROVE RulerInv'
      BY <1>2 DEF RulerInv
    <3>4. \A u, v \in Workers : Revoking(u)' /\ Revoking(v)' => u = v
      BY <3>2, <3>3 DEF RolesInv, RulerInv
    <3>5. \E j : Rules(j)'
      BY <3>1, <3>3 DEF RolesInv, RulerInv
    <3>6. ASSUME NEW v \in Workers, call'[v].op = "revoking"
          PROVE  \E j : Rules(j)' /\ role'[j].user = call'[v].user
      <4>1. call'[v] = call[v]
        BY <3>2, <3>6 DEF Revoking
      <4>2. PICK j : Rules(j) /\ role[j].user = call[v].user
        BY <3>3, <3>6, <4>1 DEF RolesInv, RulerInv
      <4> QED BY <3>1, <4>1, <4>2
    <3>7. ASSUME NEW v \in Workers, call'[v].op = "revoke"
          PROVE  \E j : Rules(j)' /\ j # call'[v].row
      <4>1. call'[v] = call[v]
        BY <3>2, <3>7 DEF Revoking
      <4>2. PICK j : Rules(j) /\ j # call[v].row
        BY <3>3, <3>7, <4>1 DEF RolesInv, RulerInv
      <4> QED BY <3>1, <4>1, <4>2
    <3> QED BY <3>4, <3>5, <3>6, <3>7 DEF RulerInv
  <2> QED BY <1>2, <2>5, <2>7, <2>8 DEF RolesInv
<1> QED BY <1>4, <1>5

\* The row is deleted, if it is still there.
LEMMA DeleteRoles ==
  ASSUME RolesInv, NEW w \in Workers, Grant!DeleteRole(w) PROVE RolesInv'
<1>1. PICK n, g : n = call[w].row /\ g = call[w].grant
  OBVIOUS
<1>2. /\ call[w].op = "revoke" /\ n \in DOMAIN role /\ role[n] \in {Deleted, g}
      /\ call' = [call EXCEPT ![w] = Grant!Quiet]
      /\ role' = [role EXCEPT ![n] = Deleted]
      /\ gone' = IF role[n] = Deleted THEN gone ELSE gone \cup {g}
      /\ UNCHANGED <<coincided, mutual, misplaced>>
  BY <1>1 DEF Grant!DeleteRole, Grant!Turn, RolesInv, CallsInv
<1>3. /\ call' = [v \in Workers |-> call'[v]] /\ call'[w].op = "none"
      /\ \A v \in Workers : v # w => call'[v] = call[v]
  BY <1>2 DEF Grant!Quiet, RolesInv, CallsInv
<1>4. /\ role' \in Seq(RoleRows) /\ DOMAIN role' = DOMAIN role
      /\ role'[n] = Deleted /\ \A i \in DOMAIN role : i # n => role'[i] = role[i]
  <2>1. role \in Seq(RoleRows) /\ DOMAIN role = 1..Len(role)
    BY LenProperties DEF RolesInv, CallsInv
  <2> QED BY <1>2, <2>1 DEF RoleRows
<1>5. CallsInv'
  BY <1>2, <1>3, <1>4 DEF RolesInv, CallsInv
<1>6. OnceInv'
  <2>1. \A i, j \in DOMAIN role' : role'[i] = role'[j] =>
          i = j \/ role'[i] = Deleted \/ role'[i] \in coincided'
    BY <1>2, <1>4 DEF RolesInv, OnceInv
  <2>2. ASSUME NEW h \in gone' \cap Grant!Granted' PROVE h \in coincided'
    <3>1. PICK i \in DOMAIN role : role'[i] = h /\ h # Deleted
      BY <1>4, <2>2 DEF Grant!Granted
    <3>2. i # n /\ role[i] = h /\ h \in Grant!Granted
      BY <1>4, <3>1 DEF Grant!Granted
    <3>3. CASE h \in gone
      BY <1>2, <3>2, <3>3 DEF RolesInv, OnceInv
    <3>4. CASE h \notin gone
      <4>1. role[n] = h
        BY <1>2, <2>2, <3>4
      <4> QED BY <1>2, <3>1, <3>2, <4>1 DEF RolesInv, OnceInv
    <3> QED BY <3>3, <3>4
  <2> QED BY <2>1, <2>2 DEF OnceInv
<1>7. RulerInv'
  <2>1. SUFFICES ASSUME ~mutual PROVE RulerInv'
    BY <1>2 DEF RulerInv
  <2>2. PICK j : Rules(j) /\ j # n
    BY <1>1, <1>2, <2>1 DEF RolesInv, RulerInv
  <2>3. Rules(j)'
    BY <1>4, <2>2 DEF Rules
  <2>4. \A v \in Workers : ~Revoking(v)'
    BY <1>2, <1>3, <2>1 DEF RolesInv, RulerInv, Revoking
  <2> QED BY <2>3, <2>4 DEF RulerInv, Revoking
<1> QED BY <1>2, <1>5, <1>6, <1>7 DEF RolesInv

\* A super admin is permitted to revoke.
LEMMA PermitRoles ==
  ASSUME RolesInv, NEW w \in Workers, NEW u, Grant!StartRevoke(w, u)
  PROVE  RolesInv'
<1>1. PICK r : r = [op |-> "revoking", user |-> u]
  OBVIOUS
<1>2. /\ Grant!IsSuperAdmin(u) /\ call' = [call EXCEPT ![w] = r]
      /\ mutual' = (mutual \/ \E d \in Workers : Revoking(d))
      /\ UNCHANGED <<role, gone, coincided, misplaced>>
  BY <1>1 DEF Grant!StartRevoke, Grant!Permitted, Grant!Begin, Revoking
<1>3. /\ call' = [v \in Workers |-> call'[v]] /\ call'[w] = r
      /\ \A v \in Workers : v # w => call'[v] = call[v]
      /\ r.op = "revoking" /\ r.user = u
  BY <1>1, <1>2 DEF RolesInv, CallsInv
<1>4. CallsInv'
  <2>1. mutual' \in BOOLEAN
    BY <1>2
  <2> QED BY <1>2, <1>3, <2>1 DEF RolesInv, CallsInv
<1>5. OnceInv'
  BY <1>2 DEF RolesInv, OnceInv, Grant!Granted
<1>6. RulerInv'
  <2>1. SUFFICES ASSUME ~mutual' PROVE RulerInv'
    BY DEF RulerInv
  <2>2. \A v \in Workers : ~Revoking(v)
    BY <1>2, <2>1
  <2>3. PICK j \in DOMAIN role : role[j] # Deleted /\ role[j].user = u /\ role[j].name = "SUPER_ADMIN"
    BY <1>2 DEF Grant!IsSuperAdmin, Grant!Granted
  <2>4. Rules(j)' /\ role'[j].user = u
    BY <1>2, <2>3 DEF Rules
  <2> QED BY <1>3, <2>2, <2>4 DEF RulerInv, Revoking
<1> QED BY <1>2, <1>4, <1>5, <1>6 DEF RolesInv

\* A super admin does not revoke his own role: it is left if nobody else revokes.
LEMMA RevokeRoles ==
  ASSUME RolesInv, NEW w \in Workers, NEW i \in DOMAIN role, Grant!LookRevoke(w, i)
  PROVE  RolesInv'
<1>1. PICK r, u : r = [op |-> "revoke", row |-> i, grant |-> role[i]] /\ u = call[w].user
  OBVIOUS
<1>2. /\ call[w].op = "revoking" /\ role[i] # Deleted /\ ~Grant!OwnSuperAdmin(u, role[i])
      /\ call' = [call EXCEPT ![w] = r] /\ UNCHANGED <<role, gone, coincided, mutual, misplaced>>
  BY <1>1 DEF Grant!LookRevoke, Grant!Turn
<1>3. /\ call' = [v \in Workers |-> call'[v]] /\ call'[w] = r
      /\ \A v \in Workers : v # w => call'[v] = call[v]
      /\ r.op = "revoke" /\ r.row = i /\ r.grant = role[i]
  BY <1>1, <1>2 DEF RolesInv, CallsInv
<1>4. CallsInv'
  BY <1>2, <1>3 DEF RolesInv, CallsInv
<1>5. OnceInv'
  BY <1>2 DEF RolesInv, OnceInv, Grant!Granted
<1>6. RulerInv'
  <2>1. SUFFICES ASSUME ~mutual PROVE RulerInv'
    BY <1>2 DEF RulerInv
  <2>2. PICK j : Rules(j) /\ role[j].user = u
    BY <1>1, <1>2, <2>1 DEF RolesInv, RulerInv
  <2>3. j # i
    BY <1>2, <2>2 DEF Rules, Grant!OwnSuperAdmin
  <2>4. Rules(j)'
    BY <1>2, <2>2 DEF Rules
  <2>5. \A v \in Workers : Revoking(v)' => v = w
    BY <1>2, <1>3, <2>1 DEF RolesInv, RulerInv, Revoking
  <2> QED BY <1>3, <2>3, <2>4, <2>5 DEF RulerInv, Revoking
<1> QED BY <1>2, <1>4, <1>5, <1>6 DEF RolesInv

\* A request works for a SACCO whose admin its user was or is.
LEMMA WorkRoles ==
  ASSUME RolesInv, NEW w \in Workers,
         \/ \E u, s : Grant!StartWork(w, u, s)
         \/ Grant!WorkOn(w) \/ Grant!Turned(w)
  PROVE  RolesInv'
<1>1. ASSUME NEW u, NEW s, Grant!StartWork(w, u, s) PROVE RolesInv'
  <2>1. PICK r : r = [op |-> "scope", user |-> u, sacco |-> s,
                      may |-> {t \in Saccos : Grant!IsAdminOf(u, t) \/ Grant!IsSuperAdmin(u)}]
    OBVIOUS
  <2>2. /\ call' = [call EXCEPT ![w] = r]
        /\ UNCHANGED <<role, gone, coincided, mutual, misplaced>>
    BY <1>1, <2>1 DEF Grant!StartWork, Grant!Begin
  <2>3. r.op = "scope" /\ (r.sacco \in Saccos => r.sacco \in r.may)
    BY <1>1, <2>1 DEF Grant!StartWork, Grant!Contexts
  <2>4. /\ call' = [v \in Workers |-> call'[v]] /\ call'[w] = r
        /\ \A v \in Workers : v # w => call'[v] = call[v]
    BY <2>2 DEF RolesInv, CallsInv
  <2> QED BY <2>2, <2>3, <2>4, QuietRoles
<1>2. ASSUME Grant!WorkOn(w) \/ Grant!Turned(w) PROVE RolesInv'
  <2>1. /\ call' = [call EXCEPT ![w] = Grant!Quiet] /\ call[w].op = "scope"
        /\ UNCHANGED <<role, gone, coincided, mutual>>
    BY <1>2 DEF Grant!WorkOn, Grant!Turned, Grant!Turn
  <2>2. ~misplaced'
    <3>1. CASE Grant!WorkOn(w)
      <4>1. PICK t \in Grant!Scope(call[w].user, call[w].sacco) :
              misplaced' = (misplaced \/ (t \notin call[w].may /\ ~Grant!IsSuperAdmin(call[w].user)))
        BY <3>1 DEF Grant!WorkOn
      <4>2. Grant!IsSuperAdmin(call[w].user) \/ t \in {call[w].sacco} \cap Saccos
        BY <4>1 DEF Grant!Scope
      <4> QED BY <2>1, <4>1, <4>2 DEF RolesInv, CallsInv
    <3>2. CASE Grant!Turned(w)
      BY <3>2 DEF Grant!Turned, RolesInv
    <3> QED BY <1>2, <3>1, <3>2
  <2>3. /\ call' = [v \in Workers |-> call'[v]] /\ call'[w].op = "none"
        /\ \A v \in Workers : v # w => call'[v] = call[v]
    BY <2>1 DEF Grant!Quiet, RolesInv, CallsInv
  <2>4. ~misplaced
    BY DEF RolesInv
  <2>5. UNCHANGED <<role, gone, coincided, mutual>> /\ ~misplaced /\ ~misplaced'
    BY <2>1, <2>2, <2>4
  <2>6. CallsInv'
    BY <2>1, <2>3 DEF RolesInv, CallsInv
  <2>7. OnceInv'
    BY <2>1 DEF RolesInv, OnceInv, Grant!Granted
  <2>8. RulerInv'
    BY <2>1, <2>3 DEF RolesInv, RulerInv, Rules, Revoking
  <2> QED BY <2>5, <2>6, <2>7, <2>8 DEF RolesInv
<1> QED BY <1>1, <1>2

\* A step of the model.
LEMMA StepRoles ==
  ASSUME RolesInv, [Next]_<<part, codes, accounts, identity, roles>> PROVE RolesInv'
<1>1. ASSUME NEW w \in Workers, NEW g \in Grant!Grants, Grant!LookAssign(w, g)
      PROVE  RolesInv'
  <2>1. PICK r : r = [op |-> "assign", grant |-> g]
    OBVIOUS
  <2>2. /\ call' = [call EXCEPT ![w] = r]
        /\ UNCHANGED <<role, gone, coincided, mutual, misplaced>>
    BY <1>1, <2>1 DEF Grant!LookAssign, Grant!Turn
  <2>3. /\ call' = [v \in Workers |-> call'[v]] /\ call'[w] = r
        /\ \A v \in Workers : v # w => call'[v] = call[v]
        /\ r.op = "assign" /\ r.grant = g
    BY <2>1, <2>2 DEF RolesInv, CallsInv
  <2> QED BY <2>2, <2>3, QuietRoles
<1>4. ASSUME NEW w \in Workers, NEW u, Grant!StartAssign(w, u) PROVE RolesInv'
  <2>1. /\ call' = [call EXCEPT ![w] = [op |-> "assigning", user |-> u]]
        /\ UNCHANGED <<role, gone, coincided, mutual, misplaced>>
    BY <1>4 DEF Grant!StartAssign, Grant!Permitted, Grant!Begin
  <2>2. /\ call' = [v \in Workers |-> call'[v]] /\ call'[w].op = "assigning"
        /\ \A v \in Workers : v # w => call'[v] = call[v]
    BY <2>1 DEF RolesInv, CallsInv
  <2> QED BY <2>1, <2>2, QuietRoles
<1>5. ASSUME NEW w \in Workers, Grant!Refused(w) PROVE RolesInv'
  <2>1. /\ call' = [call EXCEPT ![w] = Grant!Quiet]
        /\ UNCHANGED <<role, gone, coincided, mutual, misplaced>>
    BY <1>5 DEF Grant!Refused, Grant!Turn
  <2>2. /\ call' = [v \in Workers |-> call'[v]] /\ call'[w].op = "none"
        /\ \A v \in Workers : v # w => call'[v] = call[v]
    BY <2>1 DEF Grant!Quiet, RolesInv, CallsInv
  <2> QED BY <2>1, <2>2, QuietRoles
<1>2. CASE Grant!RoleNext
  BY <1>1, <1>2, <1>4, <1>5, CreateRoles, DeleteRoles, PermitRoles, RevokeRoles, WorkRoles
  DEF Grant!RoleNext
<1>3. CASE UNCHANGED roles
  BY <1>3 DEF roles, RolesInv, CallsInv, OnceInv, RulerInv, Rules, Revoking, Grant!Granted
<1> QED BY <1>2, <1>3 DEF Next

\* What people changed is what is stored, unless a request that saves the whole row was at
\* work; and a revoked role is gone, a super admin is left, and a request works for a
\* SACCO of its user, with the exceptions that module Roles names (MeView, role_views.py).
THEOREM ChangesStand == ASSUME RoleAssumption PROVE Spec => []LastChangesStand
<1>1. Init => SignInv /\ RolesInv
  <2>1. Init => SignInv
    BY DEF Init, Sign!SignInit, SignInv, Saving, Sign!SavesRow, Sign!NoRequest
  <2> QED BY <2>1, InitRoles DEF Init
<1>2. SignInv /\ RolesInv => LastChangesStand
  <2>1. SignInv => Sign!LastChangesStand
    BY DEF SignInv, Sign!LastChangesStand
  <2>2. RolesInv => Grant!RevocationStands
    <3> SUFFICES ASSUME RolesInv PROVE Grant!RevocationStands
      OBVIOUS
    <3>1. gone \cap Grant!Granted \subseteq coincided /\ ~misplaced
      BY DEF RolesInv, OnceInv
    <3>2. ASSUME ~mutual PROVE \E u \in {Founder, Second} : Grant!IsSuperAdmin(u)
      <4>1. PICK j : Rules(j)
        BY <3>2 DEF RolesInv, RulerInv
      <4>2. role[j] \in Grant!Grants
        <5>1. role[j] \in RoleRows
          BY <4>1, ElementOfSeq, LenProperties DEF Rules, RolesInv, CallsInv
        <5> QED BY <4>1, <5>1 DEF Rules, RoleRows
      <4>3. role[j].user \in {Founder, Second}
        BY <4>2 DEF Grant!Grants
      <4>4. role[j] \in Grant!Granted /\ role[j].name = "SUPER_ADMIN"
        BY <4>1 DEF Rules, Grant!Granted
      <4> QED BY <4>3, <4>4 DEF Grant!IsSuperAdmin
    <3> QED BY <3>1, <3>2 DEF Grant!RevocationStands
  <2> QED BY <2>1, <2>2 DEF LastChangesStand
<1> QED BY <1>1, <1>2, StepSign, StepRoles, PTL DEF Spec

-----------------------------------------------------------------------------
(* Types                                                                   *)

\* The requests that have read the token t and not counted their attempt yet.
Counting(t) == {w \in Workers : otpReq[w].op = "count" /\ otpReq[w].token = t}

\* Every code entered is one attempt and one comparison at most, of the tokens that exist
\* and of those whose request has still to count.
BoundsInv ==
  /\ phone \in Spellings /\ otpClock \in 0..MaxTime /\ checks \in 0..MaxChecks
  /\ \A t \in DOMAIN tokens :
       /\ tokens[t].attempts <= checks /\ tokens[t].entered + Cardinality(Counting(t)) <= checks
  /\ \A w \in Workers : otpReq[w].op = "count" => otpReq[w].attempts + 1 <= checks

\* What the bounds of the codes are.
CodeBounds == MaxTime \in Nat /\ MaxChecks \in Nat /\ IsFiniteSet(Workers)

\* There are as many that still count as workers, or fewer, and one less when one is done.
LEMMA CountingSize ==
  ASSUME IsFiniteSet(Workers), NEW t
  PROVE  /\ IsFiniteSet(Counting(t)) /\ Cardinality(Counting(t)) \in Nat
         /\ \A S \in SUBSET Counting(t) :
              /\ Cardinality(S) \in Nat /\ Cardinality(S) <= Cardinality(Counting(t))
              /\ \A w \in Counting(t) \ S : Cardinality(S) + 1 <= Cardinality(Counting(t))
<1>1. IsFiniteSet(Counting(t))
  BY FS_Subset DEF Counting
<1>2. Cardinality(Counting(t)) \in Nat
  BY <1>1, FS_CardinalityType
<1>3. ASSUME NEW S \in SUBSET Counting(t)
      PROVE  Cardinality(S) \in Nat /\ Cardinality(S) <= Cardinality(Counting(t)) /\ IsFiniteSet(S)
  BY <1>1, <1>3, FS_Subset, FS_CardinalityType
<1>4. ASSUME NEW S \in SUBSET Counting(t), NEW w \in Counting(t) \ S
      PROVE  Cardinality(S) + 1 <= Cardinality(Counting(t))
  <2>1. IsFiniteSet(S) /\ S \cup {w} \in SUBSET Counting(t) /\ w \notin S
    BY <1>3, <1>4
  <2>2. Cardinality(S \cup {w}) = Cardinality(S) + 1
    BY <2>1, FS_AddElement
  <2> QED BY <1>3, <2>1, <2>2
<1> QED BY <1>1, <1>2, <1>3, <1>4

\* A step in which nobody begins to count, and no token is counted.
LEMMA BoundsStay ==
  ASSUME CodeBounds, CodesInv, BoundsInv, CodesInv',
         phone' \in Spellings, otpClock' \in 0..MaxTime, UNCHANGED checks,
         \A t \in DOMAIN tokens' :
           \/ /\ t \in DOMAIN tokens
              /\ tokens'[t].attempts = tokens[t].attempts /\ tokens'[t].entered = tokens[t].entered
           \/ /\ t \notin DOMAIN tokens
              /\ tokens'[t].attempts = 0 /\ tokens'[t].entered = 0,
         \A w \in Workers : otpReq'[w].op = "count" => otpReq'[w] = otpReq[w]
  PROVE  BoundsInv'
<1>1. checks \in Nat
  BY DEF CodesInv, CodeTypes
<1>2. ASSUME NEW t \in DOMAIN tokens'
      PROVE  tokens'[t].attempts <= checks /\ tokens'[t].entered + Cardinality(Counting(t)') <= checks
  <2>1. Counting(t)' \in SUBSET Counting(t)
    BY DEF Counting
  <2>2. /\ Cardinality(Counting(t)) \in Nat /\ Cardinality(Counting(t)') \in Nat
        /\ Cardinality(Counting(t)') <= Cardinality(Counting(t))
    BY <2>1, CountingSize DEF CodeBounds
  <2>3. CASE t \in DOMAIN tokens
    <3>1. tokens[t].entered \in Nat
      BY <2>3, RowTypes DEF CodesInv, CodeTypes, CodeRows
    <3> QED BY <1>1, <1>2, <2>2, <2>3, <3>1 DEF BoundsInv
  <2>4. CASE t \notin DOMAIN tokens
    <3>1. Counting(t) = {}
      BY <2>4 DEF Counting, CodesInv, TokensInv
    <3>2. Counting(t)' = {}
      BY <2>1, <3>1
    <3>3. Cardinality(Counting(t)') = 0
      BY <3>2, FS_EmptySet
    <3> QED BY <1>1, <1>2, <2>4, <3>3
  <2> QED BY <2>3, <2>4
<1> QED BY <1>2 DEF BoundsInv

\* A code is entered: one more request counts, and one more code was entered.
LEMMA ReadKeepsBounds ==
  ASSUME CodeBounds, CodesInv, BoundsInv, NEW w \in Workers, NEW p \in Purposes, NEW s \in Spellings,
         Otp!ReadToken(w, p, s)
  PROVE  BoundsInv'
<1>1. PICK n : n = Otp!Newest(Otp!Live(p))
  OBVIOUS
<1>2. PICK code \in Otp!Codes :
        otpReq' = [otpReq EXCEPT ![w] =
          [op |-> "count", token |-> n, attempts |-> tokens[n].attempts, code |-> code,
           purpose |-> p, spelling |-> s, at |-> otpClock]]
  BY <1>1 DEF Otp!ReadToken
<1>3. /\ checks' = checks + 1 /\ checks < MaxChecks /\ UNCHANGED <<tokens, phone, otpClock>>
      /\ otpReq[w] = Otp!Idle /\ Otp!Live(p) # {}
  BY DEF Otp!ReadToken
<1>4. n \in DOMAIN tokens
  <2>1. Otp!Live(p) \subseteq DOMAIN tokens /\ DOMAIN tokens = 1..Len(tokens) /\ Len(tokens) \in Nat
    BY LenProperties DEF Otp!Live, CodesInv, CodeTypes
  <2>2. n \in Otp!Live(p)
    BY <1>1, <1>3, <2>1, NewestIsOne DEF CodesInv
  <2> QED BY <2>1, <2>2
<1>5. /\ \A v \in Workers : v # w => otpReq'[v] = otpReq[v]
      /\ otpReq'[w].op = "count" /\ otpReq'[w].token = n
      /\ otpReq'[w].attempts = tokens[n].attempts
  BY <1>2 DEF CodesInv, CodeTypes
<1>6. /\ checks \in Nat
      /\ \A t \in DOMAIN tokens :
           /\ tokens[t].attempts \in Nat /\ tokens[t].attempts <= checks
           /\ tokens[t].entered \in Nat
  <2>1. \A t \in DOMAIN tokens : tokens[t] \in CodeRows
    BY RowTypes DEF CodesInv, CodeTypes
  <2> QED BY <2>1 DEF CodesInv, CodeTypes, CodeRows, BoundsInv
<1>7. ASSUME NEW t \in DOMAIN tokens
      PROVE  tokens[t].entered + Cardinality(Counting(t)') <= checks + 1
  <2>1. Counting(t)' \subseteq Counting(t) \cup {w}
    BY <1>5 DEF Counting
  <2>2. IsFiniteSet(Counting(t)) /\ Cardinality(Counting(t)) \in Nat
    BY CountingSize DEF CodeBounds
  <2>3. /\ IsFiniteSet(Counting(t) \cup {w})
        /\ Cardinality(Counting(t) \cup {w}) <= Cardinality(Counting(t)) + 1
        /\ Cardinality(Counting(t) \cup {w}) \in Nat
    <3>1. CASE w \in Counting(t)
      <4>1. Counting(t) \cup {w} = Counting(t)
        BY <3>1
      <4>2. /\ Cardinality(Counting(t) \cup {w}) = Cardinality(Counting(t))
            /\ IsFiniteSet(Counting(t) \cup {w})
        BY <2>2, <4>1, Zenon
      <4> QED BY <2>2, <4>2
    <3>2. CASE w \notin Counting(t)
      BY <2>2, <3>2, FS_AddElement
    <3> QED BY <3>1, <3>2
  <2>4. /\ Cardinality(Counting(t)') <= Cardinality(Counting(t) \cup {w})
        /\ Cardinality(Counting(t)') \in Nat
    BY <2>1, <2>3, FS_Subset, FS_CardinalityType
  <2> QED BY <1>6, <2>2, <2>3, <2>4 DEF BoundsInv
<1>8. \A v \in Workers : otpReq'[v].op = "count" => otpReq'[v].attempts + 1 <= checks + 1
  <2>1. otpReq'[w].attempts + 1 <= checks + 1
    BY <1>4, <1>5, <1>6
  <2>2. ASSUME NEW v \in Workers, v # w, otpReq[v].op = "count"
        PROVE  otpReq[v].attempts + 1 <= checks + 1
    <3>1. otpReq[v].attempts \in Nat
      BY <2>2 DEF CodesInv, CodeTypes, CodeRequests
    <3> QED BY <1>6, <2>2, <3>1 DEF BoundsInv
  <2> QED BY <1>5, <2>1, <2>2
<1>9. \A t \in DOMAIN tokens : tokens[t].attempts <= checks + 1
  BY <1>6
<1>10. checks + 1 \in 0..MaxChecks
  BY <1>3, <1>6 DEF BoundsInv, CodeBounds
<1> QED BY <1>3, <1>7, <1>8, <1>9, <1>10 DEF BoundsInv

\* An attempt is counted, and compared or not.
LEMMA CountKeepsBounds ==
  ASSUME CodeBounds, CodesInv, BoundsInv, NEW w \in Workers, Otp!CountAttempt(w)
  PROVE  BoundsInv'
<1>1. PICK n : n = otpReq[w].token
  OBVIOUS
<1>2. /\ n \in DOMAIN tokens /\ tokens[n] \in CodeRows /\ otpReq[w].op = "count"
      /\ UNCHANGED <<phone, otpClock, checks>>
  BY <1>1, RowTypes DEF Otp!CountAttempt, CodesInv, CodeTypes, TokensInv
<1>3. otpReq[w] \in [op : {"count", "mark"}, token : Nat, attempts : Nat, code : Nat \cup {None},
                     purpose : Purposes, spelling : Spellings, at : Nat]
  BY <1>2 DEF CodesInv, CodeTypes, CodeRequests
<1>4. PICK r : /\ otpReq' = [otpReq EXCEPT ![w] = r] /\ r.op # "count"
  <2>1. Otp!Idle.op = "idle" /\ [otpReq[w] EXCEPT !.op = "mark"].op = "mark"
    BY <1>3 DEF Otp!Idle
  <2> QED BY <2>1 DEF Otp!CountAttempt
<1>5. otpReq'[w] = r /\ \A v \in Workers : v # w => otpReq'[v] = otpReq[v]
  BY <1>4 DEF CodesInv, CodeTypes
<1>6. /\ DOMAIN tokens' = DOMAIN tokens /\ \A t \in DOMAIN tokens : t # n => tokens'[t] = tokens[t]
      /\ tokens'[n].attempts = otpReq[w].attempts + 1
      /\ tokens'[n].entered \in {tokens[n].entered, tokens[n].entered + 1}
  <2> DEFINE once == [tokens[n] EXCEPT !.attempts = otpReq[w].attempts + 1,
                                       !.entered = tokens[n].entered + 1]
             none == [tokens[n] EXCEPT !.attempts = otpReq[w].attempts + 1]
  <2>1. /\ once.attempts = otpReq[w].attempts + 1 /\ once.entered = tokens[n].entered + 1
        /\ none.attempts = otpReq[w].attempts + 1 /\ none.entered = tokens[n].entered
    BY <1>2 DEF CodeRows
  <2>2. tokens' = [tokens EXCEPT ![n] = once] \/ tokens' = [tokens EXCEPT ![n] = none]
    BY <1>1 DEF Otp!CountAttempt
  <2> HIDE DEF once, none
  <2> QED BY <1>2, <2>1, <2>2
<1>7. /\ checks \in Nat /\ tokens[n].entered \in Nat /\ otpReq[w].attempts + 1 <= checks
      /\ w \in Counting(n)
  BY <1>1, <1>2 DEF CodesInv, CodeTypes, CodeRows, BoundsInv, Counting
<1>8. ASSUME NEW t \in DOMAIN tokens
      PROVE  tokens'[t].attempts <= checks /\ tokens'[t].entered + Cardinality(Counting(t)') <= checks
  <2>1. Counting(t)' \in SUBSET Counting(t) /\ w \notin Counting(t)'
    BY <1>4, <1>5 DEF Counting
  <2>2. /\ Cardinality(Counting(t)) \in Nat /\ Cardinality(Counting(t)') \in Nat
        /\ Cardinality(Counting(t)') <= Cardinality(Counting(t))
        /\ t = n => Cardinality(Counting(t)') + 1 <= Cardinality(Counting(t))
    BY <1>7, <2>1, CountingSize DEF CodeBounds
  <2>3. tokens[t].entered \in Nat
    BY RowTypes DEF CodesInv, CodeTypes, CodeRows
  <2>4. CASE t = n
    BY <1>6, <1>7, <2>2, <2>3, <2>4 DEF BoundsInv
  <2>5. CASE t # n
    BY <1>6, <1>7, <2>2, <2>3, <2>5 DEF BoundsInv
  <2> QED BY <2>4, <2>5
<1>9. \A v \in Workers : otpReq'[v].op = "count" => otpReq'[v].attempts + 1 <= checks
  BY <1>4, <1>5 DEF BoundsInv
<1> QED BY <1>2, <1>6, <1>8, <1>9 DEF BoundsInv

\* Any other step of the codes.
LEMMA OtherBounds ==
  ASSUME CodeBounds, CodesInv, BoundsInv, CodesInv',
         \/ \E w \in Workers :
              \/ \E p \in Purposes, c \in Channels, s \in Spellings :
                   Otp!StartSend(w, p, c, s) \/ Otp!StartResend(w, p, c, s)
              \/ \E s \in Spellings : Otp!StartReset(w, s)
              \/ Otp!ExpireOlder(w) \/ Otp!CreateToken(w) \/ Otp!Deliver(w)
              \/ Otp!LoseToken(w) \/ Otp!MarkUsed(w) \/ Otp!SavePhone(w)
         \/ Otp!CleanUp \/ Otp!Tick
         \/ UNCHANGED codes
  PROVE  BoundsInv'
<1> DEFINE Same(t) == tokens'[t].attempts = tokens[t].attempts /\ tokens'[t].entered = tokens[t].entered
           Turns(w) == /\ otpReq'[w].op # "count"
                       /\ \A v \in Workers : v # w => otpReq'[v] = otpReq[v]
<1>0. /\ phone \in Spellings /\ otpClock \in 0..MaxTime
      /\ tokens \in Seq(CodeRows) /\ otpReq \in [Workers -> CodeRequests]
      /\ \A t \in DOMAIN tokens : tokens[t] \in CodeRows
  BY RowTypes DEF BoundsInv, CodesInv, CodeTypes
<1>1. ASSUME DOMAIN tokens' = DOMAIN tokens, \A t \in DOMAIN tokens : Same(t),
             phone' \in Spellings, otpClock' \in 0..MaxTime, UNCHANGED checks,
             \A v \in Workers : otpReq'[v].op = "count" => otpReq'[v] = otpReq[v]
      PROVE  BoundsInv'
  BY <1>1, BoundsStay
<1>2. ASSUME NEW w \in Workers, Turns(w)
      PROVE  \A v \in Workers : otpReq'[v].op = "count" => otpReq'[v] = otpReq[v]
  BY <1>2
<1>3. ASSUME NEW g, tokens' = Otp!UseUp(g)
      PROVE  DOMAIN tokens' = DOMAIN tokens /\ \A t \in DOMAIN tokens : Same(t)
  BY <1>0, <1>3, UsedUp DEF Kept
<1>4. Otp!Idle.op = "idle"
  BY DEF Otp!Idle
<1>5. ASSUME NEW w \in Workers,
             \/ \E p \in Purposes, c \in Channels, s \in Spellings :
                  Otp!StartSend(w, p, c, s) \/ Otp!StartResend(w, p, c, s)
             \/ \E s \in Spellings : Otp!StartReset(w, s)
      PROVE  BoundsInv'
  <2>1. /\ UNCHANGED <<phone, otpClock, checks>>
        /\ UNCHANGED tokens \/ \E g : tokens' = Otp!UseUp(g)
    BY <1>5 DEF Otp!StartSend, Otp!StartResend, Otp!StartReset
  <2>2. Turns(w)
    BY <1>0, <1>5 DEF Otp!StartSend, Otp!StartResend, Otp!StartReset
  <2> QED BY <1>0, <1>1, <1>2, <1>3, <2>1, <2>2
<1>6. ASSUME NEW w \in Workers, Otp!ExpireOlder(w) PROVE BoundsInv'
  <2>1. otpReq[w] \in CodeRequests /\ otpReq[w].op = "expire"
    BY <1>0, <1>6 DEF Otp!ExpireOlder
  <2>2. [otpReq[w] EXCEPT !.op = "create"].op = "create"
    BY <2>1 DEF CodeRequests
  <2>3. Turns(w)
    BY <1>0, <1>6, <2>2 DEF Otp!ExpireOlder
  <2>4. \E g : tokens' = Otp!UseUp(g)
    BY <1>6 DEF Otp!ExpireOlder
  <2> QED BY <1>0, <1>1, <1>2, <1>3, <1>6, <2>3, <2>4 DEF Otp!ExpireOlder
<1>7. ASSUME NEW w \in Workers, Otp!CreateToken(w) PROVE BoundsInv'
  <2>1. PICK row : row = [user |-> otpReq[w].user, purpose |-> otpReq[w].purpose,
                          used |-> FALSE, attempts |-> 0, created |-> otpClock,
                          deleted |-> FALSE, sent |-> FALSE, entered |-> 0]
    OBVIOUS
  <2>2. tokens' = Append(tokens, row) /\ row.attempts = 0 /\ row.entered = 0 /\ Turns(w)
    BY <1>0, <1>7, <2>1 DEF Otp!CreateToken
  <2>3. \A t \in DOMAIN tokens' : \/ t \in DOMAIN tokens /\ Same(t)
                                  \/ /\ t \notin DOMAIN tokens
                                     /\ tokens'[t].attempts = 0 /\ tokens'[t].entered = 0
    BY <1>0, <2>2, LenProperties, AppendProperties
  <2> QED BY <1>0, <1>2, <1>7, <2>2, <2>3, BoundsStay DEF Otp!CreateToken
<1>8. ASSUME NEW w \in Workers, Otp!Deliver(w) PROVE BoundsInv'
  <2>1. PICK n, result : tokens' = [tokens EXCEPT ![n] = [tokens[n] EXCEPT !.sent = result]]
    BY <1>8 DEF Otp!Deliver
  <2>2. DOMAIN tokens' = DOMAIN tokens /\ \A t \in DOMAIN tokens : Same(t)
    BY <1>0, <2>1 DEF CodeRows
  <2> QED BY <1>0, <1>1, <1>2, <1>4, <1>8, <2>2 DEF Otp!Deliver
<1>9. ASSUME NEW w \in Workers, Otp!LoseToken(w) PROVE BoundsInv'
  BY <1>0, <1>1, <1>2, <1>4, <1>9 DEF Otp!LoseToken
<1>10. ASSUME NEW w \in Workers, Otp!MarkUsed(w) PROVE BoundsInv'
  <2>1. Turns(w)
    BY <1>0, <1>4, <1>10 DEF Otp!MarkUsed
  <2> QED BY <1>0, <1>1, <1>2, <1>3, <1>10, <2>1 DEF Otp!MarkUsed
<1>11. ASSUME NEW w \in Workers, Otp!SavePhone(w) PROVE BoundsInv'
  <2>1. otpReq[w] \in CodeRequests /\ otpReq[w].op = "save"
    BY <1>0, <1>11 DEF Otp!SavePhone
  <2>2. phone' \in Spellings
    BY <1>11, <2>1 DEF Otp!SavePhone, CodeRequests
  <2> QED BY <1>0, <1>1, <1>2, <1>4, <1>11, <2>2 DEF Otp!SavePhone
<1>12. ASSUME Otp!CleanUp PROVE BoundsInv'
  <2>1. PICK removed : tokens' = [t \in DOMAIN tokens |->
                         IF t \in removed THEN [tokens[t] EXCEPT !.deleted = TRUE] ELSE tokens[t]]
    BY <1>12 DEF Otp!CleanUp
  <2>2. DOMAIN tokens' = DOMAIN tokens /\ \A t \in DOMAIN tokens : Same(t)
    BY <1>0, <2>1 DEF CodeRows
  <2> QED BY <1>0, <1>1, <1>12, <2>2 DEF Otp!CleanUp
<1>13. ASSUME Otp!Tick PROVE BoundsInv'
  <2>1. UNCHANGED <<tokens, phone, otpReq, checks>> /\ otpClock' \in 0..MaxTime
    BY <1>0, <1>13 DEF Otp!Tick, CodeBounds
  <2> QED BY <1>0, <1>1, <2>1
<1>14. CASE UNCHANGED codes
  BY <1>0, <1>1, <1>14 DEF codes
<1> QED BY <1>5, <1>6, <1>7, <1>8, <1>9, <1>10, <1>11, <1>12, <1>13, <1>14

\* A step of the model keeps codes within their bounds.
LEMMA StepBounds ==
  ASSUME CodeAssumptions, CodeBounds, CodesInv, BoundsInv,
         [Next]_<<part, codes, accounts, identity, roles>>
  PROVE  BoundsInv'
<1>1. CodesInv'
  BY StepCodes
<1>2. CASE Otp!OtpNext
  BY <1>1, <1>2, OtherBounds, ReadKeepsBounds, CountKeepsBounds DEF Otp!OtpNext
<1>3. CASE UNCHANGED codes
  BY <1>1, <1>3, OtherBounds
<1> QED BY <1>2, <1>3 DEF Next

\* No code was entered at first.
LEMMA InitBounds == ASSUME CodeBounds, Otp!OtpInit PROVE BoundsInv
BY DEF Otp!OtpInit, BoundsInv, CodeBounds, Otp!Idle

\* Requests of the accounts, with rows of their types.
SignRequests ==
  {Sign!NoRequest} \cup [op : {"register", "google"}, email : Emails, row : Sign!Users]
  \cup [op : {"kyc"}, email : Emails]
  \cup [op : {"patch"}, email : Emails, row : Sign!Users, new : Phones]
  \cup [op : {"password"}, email : Emails, row : Sign!Users, new : Passwords]
  \cup [op : {"link"}, email : Emails, row : Sign!Users, new : Subjects]
  \cup [op : {"verify"}, email : Emails, new : Phones]

\* Whoever has a session or changes an account has one: accounts are not deleted.
SignRows ==
  /\ Sign!SignTypeOK /\ signReq \in [Workers -> SignRequests]
  /\ \A s \in sessions : account[s.email] \in Sign!Users
  /\ \A w \in Workers : signReq[w].op \in {"patch", "password", "link", "verify"} =>
       account[signReq[w].email] \in Sign!Users

\* What a request holds.
LEMMA SignRequestTypes ==
  ASSUME SignRows, NEW w \in Workers
  PROVE  /\ signReq[w].op \in {"register", "google", "kyc", "patch", "password", "link", "verify"} =>
              signReq[w].email \in Emails
         /\ signReq[w].op \in {"register", "google", "patch", "password", "link"} =>
              signReq[w].row \in Sign!Users
         /\ signReq[w].op \in {"patch", "verify"} => signReq[w].new \in Phones
         /\ signReq[w].op = "password" => signReq[w].new \in Passwords
         /\ signReq[w].op = "link" => signReq[w].new \in Subjects
<1>1. signReq[w] \in SignRequests
  BY DEF SignRows
<1>2. Sign!NoRequest.op = "none"
  BY DEF Sign!NoRequest
<1> QED BY <1>1, <1>2 DEF SignRequests

\* A request goes on, and an account row is stored or none.
LEMMA RowsStay ==
  ASSUME SignRows, sessions' \subseteq Sign!Sessions, kycRow' \subseteq Emails,
         device' \in [Devices -> Sign!DeviceRows],
         \/ UNCHANGED account
         \/ \E e \in Emails, row \in Sign!Users : account' = [account EXCEPT ![e] = row],
         \A s \in sessions' : s \in sessions \/ account'[s.email] \in Sign!Users,
         UNCHANGED signReq \/ \E w \in Workers, r \in SignRequests :
           /\ signReq' = [signReq EXCEPT ![w] = r]
           /\ r.op \in {"patch", "password", "link", "verify"} => account'[r.email] \in Sign!Users
  PROVE  SignRows'
<1>1. /\ account \in [Emails -> Sign!Users \cup {None}] /\ sessions \subseteq Sign!Sessions
      /\ signReq \in [Workers -> SignRequests]
  BY DEF SignRows, Sign!SignTypeOK
<1>2. account' \in [Emails -> Sign!Users \cup {None}]
  BY <1>1
<1>3. \A e \in Emails : account[e] \in Sign!Users => account'[e] \in Sign!Users
  BY <1>1
<1>4. \A s \in sessions' : account'[s.email] \in Sign!Users
  <2>1. \A s \in sessions : s.email \in Emails /\ account[s.email] \in Sign!Users
    BY <1>1 DEF Sign!Sessions, SignRows
  <2> QED BY <1>3, <2>1
<1>5. signReq' \in [Workers -> SignRequests]
  BY <1>1
<1>6. \A w \in Workers : signReq[w].op \in {"patch", "password", "link", "verify"} =>
        account'[signReq[w].email] \in Sign!Users
  BY <1>3, SignRequestTypes DEF SignRows
<1>7. \A w \in Workers : signReq'[w].op \in {"patch", "password", "link", "verify"} =>
        account'[signReq'[w].email] \in Sign!Users
  BY <1>1, <1>6
<1> QED BY <1>2, <1>4, <1>5, <1>7 DEF SignRows, Sign!SignTypeOK, Sign!Sessions, Sign!Users,
              Sign!DeviceRows

\* A row with one column changed is a row.
LEMMA RowChanged ==
  ASSUME NEW row \in Sign!Users
  PROVE  /\ \A n \in Phones : [row EXCEPT !.phone = n] \in Sign!Users
         /\ \A p \in Passwords : [row EXCEPT !.password = p] \in Sign!Users
         /\ \A s \in Subjects : [row EXCEPT !.google = s] \in Sign!Users
BY DEF Sign!Users

\* A step of the part keeps rows, sessions and requests of their types.
LEMMA StepRows ==
  ASSUME SignRows, [Next]_<<part, codes, accounts, identity, roles>> PROVE SignRows'
<1> DEFINE Goes(w, r) == signReq' = [signReq EXCEPT ![w] = r]
           Stored(e, row) == account' = [account EXCEPT ![e] = row]
<1>0. /\ account \in [Emails -> Sign!Users \cup {None}] /\ kycRow \subseteq Emails
      /\ sessions \subseteq Sign!Sessions /\ device \in [Devices -> Sign!DeviceRows]
      /\ Sign!NoRequest \in SignRequests /\ Sign!NoRequest.op = "none"
      /\ \A e \in Emails : Sign!Registered(e) => account[e] \in Sign!Users
  BY DEF SignRows, Sign!SignTypeOK, SignRequests, Sign!NoRequest, Sign!Registered
<1>1. ASSUME UNCHANGED <<sessions, kycRow, device>>, NEW w \in Workers, NEW r \in SignRequests,
             Goes(w, r), r.op \notin {"patch", "password", "link", "verify"},
             UNCHANGED account \/ \E e \in Emails, row \in Sign!Users : Stored(e, row)
      PROVE  SignRows'
  BY <1>0, <1>1, RowsStay
<1>2. ASSUME NEW w \in Workers, NEW e \in Emails, NEW p \in Passwords, NEW n \in Phones,
             Sign!StartRegister(w, e, p, n)
      PROVE  SignRows'
  <2>1. PICK r : r = [op |-> "register", email |-> e, row |-> Sign!NewUser(p, None, n)]
    OBVIOUS
  <2>2. r \in SignRequests /\ r.op = "register"
    BY <2>1 DEF SignRequests, Sign!NewUser, Sign!Users
  <2> QED BY <1>1, <1>2, <2>1, <2>2 DEF Sign!StartRegister
<1>3. ASSUME NEW w \in Workers, Sign!CreateAccount(w) PROVE SignRows'
  <2>1. PICK e, row : e = signReq[w].email /\ row = signReq[w].row
    OBVIOUS
  <2>2. e \in Emails /\ row \in Sign!Users
    BY <1>3, <2>1, SignRequestTypes DEF Sign!CreateAccount
  <2>3. PICK r : r = [op |-> "kyc", email |-> e]
    OBVIOUS
  <2>4. r \in SignRequests /\ r.op = "kyc"
    BY <2>2, <2>3 DEF SignRequests
  <2>5. \/ Goes(w, Sign!NoRequest) /\ UNCHANGED account
        \/ Goes(w, r) /\ Stored(e, row)
    BY <1>3, <2>1, <2>3 DEF Sign!CreateAccount, Sign!Store, Sign!Done
  <2> QED BY <1>0, <1>1, <1>3, <2>2, <2>4, <2>5 DEF Sign!CreateAccount
<1>4. ASSUME NEW w \in Workers, Sign!CreateKycRow(w) PROVE SignRows'
  <2>1. signReq[w].email \in Emails
    BY <1>4, SignRequestTypes DEF Sign!CreateKycRow
  <2>2. /\ kycRow' \subseteq Emails /\ UNCHANGED <<account, device, sessions>>
        /\ Goes(w, Sign!NoRequest)
    BY <1>0, <1>4, <2>1 DEF Sign!CreateKycRow, Sign!Done
  <2> QED BY <1>0, <2>2, RowsStay
<1>5. ASSUME NEW w \in Workers, NEW e \in Emails, NEW s \in Subjects, NEW flow \in {"login", "signup"},
             Sign!GoogleSignIn(w, e, s, flow)
      PROVE  SignRows'
  <2>1. PICK r : r = [op |-> "google", email |-> e, row |-> Sign!NewUser(None, s, None)]
    OBVIOUS
  <2>2. r \in SignRequests /\ r.op = "google"
    BY <2>1 DEF SignRequests, Sign!NewUser, Sign!Users
  <2>3. UNCHANGED <<account, kycRow, device>>
    BY <1>5 DEF Sign!GoogleSignIn
  <2>4. CASE Goes(w, r) /\ UNCHANGED sessions
    BY <1>1, <2>2, <2>3, <2>4
  <2>5. CASE /\ Sign!GoogleAnswer(e, flow) = "token" /\ UNCHANGED signReq
             /\ sessions' = sessions \cup {[email |-> e, by |-> "google"]}
    <3>1. Sign!Registered(e)
      BY <2>5 DEF Sign!GoogleAnswer
    <3>2. [email |-> e, by |-> "google"] \in Sign!Sessions
      BY DEF Sign!Sessions
    <3>3. account[e] \in Sign!Users
      BY <1>0, <3>1
    <3> QED BY <1>0, <2>3, <2>5, <3>2, <3>3, RowsStay
  <2> QED BY <1>5, <2>1, <2>4, <2>5 DEF Sign!GoogleSignIn
<1>6. ASSUME NEW w \in Workers, Sign!GoogleCreate(w) PROVE SignRows'
  <2>1. PICK e, row : e = signReq[w].email /\ row = signReq[w].row
    OBVIOUS
  <2>2. e \in Emails /\ row \in Sign!Users
    BY <1>6, <2>1, SignRequestTypes DEF Sign!GoogleCreate
  <2>3. Goes(w, Sign!NoRequest) /\ UNCHANGED device
    BY <1>6 DEF Sign!GoogleCreate, Sign!Done
  <2>4. CASE UNCHANGED <<account, kycRow, sessions>>
    BY <1>0, <1>1, <2>3, <2>4
  <2>5. CASE /\ Stored(e, row) /\ kycRow' = kycRow \cup {e}
             /\ sessions' = sessions \cup {[email |-> e, by |-> "google"]}
    <3>1. [email |-> e, by |-> "google"] \in Sign!Sessions
      BY <2>2 DEF Sign!Sessions
    <3>2. account'[e] \in Sign!Users
      BY <1>0, <2>2, <2>5
    <3>3. /\ sessions' \subseteq Sign!Sessions /\ kycRow' \subseteq Emails
          /\ \A s \in sessions' : s \in sessions \/ account'[s.email] \in Sign!Users
      BY <1>0, <2>2, <2>5, <3>1, <3>2
    <3>4. device' \in [Devices -> Sign!DeviceRows]
      BY <1>0, <2>3
    <3>5. /\ \E f \in Emails, q \in Sign!Users : account' = [account EXCEPT ![f] = q]
          /\ \E v \in Workers, q \in SignRequests :
               /\ signReq' = [signReq EXCEPT ![v] = q]
               /\ q.op \in {"patch", "password", "link", "verify"} => account'[q.email] \in Sign!Users
      BY <1>0, <2>2, <2>3, <2>5
    <3> QED BY <3>3, <3>4, <3>5, RowsStay
  <2> QED BY <1>6, <2>1, <2>4, <2>5 DEF Sign!GoogleCreate, Sign!Store
<1>7. ASSUME NEW w \in Workers, NEW e \in Emails, NEW op \in {"patch", "password", "link"}, NEW new,
             Sign!Begin(w, e, op, new),
             \/ op = "patch" /\ new \in Phones
             \/ op = "password" /\ new \in Passwords
             \/ op = "link" /\ new \in Subjects
      PROVE  SignRows'
  <2>1. account[e] \in Sign!Users
    BY <1>7 DEF Sign!Begin, Sign!SignedIn, SignRows
  <2>2. PICK r : r = [op |-> op, email |-> e, row |-> account[e], new |-> new]
    OBVIOUS
  <2>3. r \in SignRequests /\ r.email = e
    BY <1>7, <2>1, <2>2 DEF SignRequests
  <2>4. Goes(w, r) /\ UNCHANGED <<account, kycRow, device, sessions>>
    BY <1>7, <2>2 DEF Sign!Begin
  <2> QED BY <1>0, <2>1, <2>3, <2>4, RowsStay
<1>8. ASSUME NEW w \in Workers, Sign!SavePatch(w) \/ Sign!SavePasswordChange(w) \/ Sign!SaveLink(w)
      PROVE  SignRows'
  <2>1. PICK e : e = signReq[w].email
    OBVIOUS
  <2>2. e \in Emails /\ (Sign!SavePasswordChange(w) => account[e] \in Sign!Users)
    BY <1>8, <2>1, SignRequestTypes
    DEF Sign!SavePatch, Sign!SavePasswordChange, Sign!SaveLink, SignRows
  <2>3. UNCHANGED account \/ \E row \in Sign!Users : Stored(e, row)
    <3>1. CASE Sign!SavePatch(w)
      BY <2>1, <3>1, SignRequestTypes, RowChanged DEF Sign!SavePatch, Sign!SaveRow, Sign!Store
    <3>2. CASE Sign!SavePasswordChange(w)
      BY <2>1, <2>2, <3>2, SignRequestTypes, RowChanged DEF Sign!SavePasswordChange, Sign!Store
    <3>3. CASE Sign!SaveLink(w)
      BY <2>1, <3>3, SignRequestTypes, RowChanged DEF Sign!SaveLink, Sign!SaveRow, Sign!Store
    <3> QED BY <1>8, <3>1, <3>2, <3>3
  <2>4. Goes(w, Sign!NoRequest) /\ UNCHANGED <<kycRow, device, sessions>>
    BY <1>8 DEF Sign!SavePatch, Sign!SavePasswordChange, Sign!SaveLink, Sign!Done
  <2> QED BY <1>0, <1>1, <2>2, <2>3, <2>4
<1>9. ASSUME NEW e \in Emails, NEW p \in Passwords, Sign!Login(e, p) \/ Sign!PasswordIsReset(e, p)
      PROVE  SignRows'
  <2>1. account[e] \in Sign!Users
    BY <1>0, <1>9 DEF Sign!Login, Sign!PasswordIsReset
  <2>2. CASE Sign!Login(e, p)
    <3>1. [email |-> e, by |-> "password"] \in Sign!Sessions
      BY DEF Sign!Sessions
    <3>2. /\ sessions' = sessions \cup {[email |-> e, by |-> "password"]}
          /\ UNCHANGED <<account, kycRow, device, signReq>>
      BY <2>2 DEF Sign!Login
    <3> QED BY <1>0, <2>1, <3>1, <3>2, RowsStay
  <2>3. CASE Sign!PasswordIsReset(e, p)
    <3>1. /\ Stored(e, [account[e] EXCEPT !.password = p])
          /\ UNCHANGED <<kycRow, device, sessions, signReq>>
      BY <2>3 DEF Sign!PasswordIsReset, Sign!Store
    <3> QED BY <1>0, <2>1, <3>1, RowChanged, RowsStay
  <2> QED BY <1>9, <2>2, <2>3
<1>10. ASSUME \/ \E s \in sessions : Sign!Logout(s)
              \/ \E d \in Devices : Sign!RevokeDevice(d) \/ \E b \in BOOLEAN : Sign!RegisterDevice(d, b)
       PROVE  SignRows'
  <2>1. /\ UNCHANGED <<account, kycRow, signReq>> /\ sessions' \subseteq sessions
        /\ device' \in [Devices -> Sign!DeviceRows]
    BY <1>0, <1>10 DEF Sign!Logout, Sign!RevokeDevice, Sign!RegisterDevice, Sign!DeviceRows
  <2> QED BY <1>0, <2>1, RowsStay
<1>13. ASSUME NEW w \in Workers, NEW e \in Emails, Sign!SendPhoneCode(w, e) PROVE SignRows'
  <2>1. account[e] \in Sign!Users /\ account[e].phone \in Phones
    BY <1>0, <1>13 DEF Sign!SendPhoneCode, Sign!Users
  <2>2. PICK r : r = [op |-> "verify", email |-> e, new |-> account[e].phone]
    OBVIOUS
  <2>3. r \in SignRequests /\ r.email = e
    BY <2>1, <2>2 DEF SignRequests
  <2>4. Goes(w, r) /\ UNCHANGED <<account, kycRow, device, sessions>>
    BY <1>13, <2>2 DEF Sign!SendPhoneCode
  <2> QED BY <1>0, <2>1, <2>3, <2>4, RowsStay
<1>14. ASSUME NEW w \in Workers, Sign!SaveVerifiedPhone(w) PROVE SignRows'
  <2>1. PICK e, row : e = signReq[w].email /\ row = [account[e] EXCEPT !.phone = signReq[w].new]
    OBVIOUS
  <2>2. e \in Emails /\ account[e] \in Sign!Users /\ signReq[w].new \in Phones
    BY <1>14, <2>1, SignRequestTypes DEF Sign!SaveVerifiedPhone, SignRows
  <2>3. row \in Sign!Users
    BY <2>1, <2>2, RowChanged
  <2>4. Stored(e, row) /\ Goes(w, Sign!NoRequest) /\ UNCHANGED <<kycRow, device, sessions>>
    BY <1>14, <2>1 DEF Sign!SaveVerifiedPhone, Sign!Store, Sign!Done
  <2> QED BY <1>0, <1>1, <2>2, <2>3, <2>4
<1>15. ASSUME NEW w \in Workers, Sign!ForgetPhoneCode(w) PROVE SignRows'
  BY <1>0, <1>1, <1>15 DEF Sign!ForgetPhoneCode, Sign!Done
<1>11. CASE Sign!SignNext
  BY <1>2, <1>3, <1>4, <1>5, <1>6, <1>7, <1>8, <1>9, <1>10, <1>11, <1>13, <1>14, <1>15
  DEF Sign!SignNext, Sign!StartPatch, Sign!StartPasswordChange, Sign!StartLink
<1>12. CASE UNCHANGED accounts
  <2>1. UNCHANGED <<account, kycRow, device, sessions, signReq>>
    BY <1>12 DEF accounts
  <2> QED BY <1>0, <2>1, RowsStay
<1> QED BY <1>11, <1>12 DEF Next

\* There is no account at first.
LEMMA InitRows == ASSUME Sign!SignInit PROVE SignRows
BY DEF Sign!SignInit, SignRows, Sign!SignTypeOK, SignRequests, Sign!NoRequest, Sign!DeviceRows

\* Requests for the identity check are counted up to their bound.
LEMMA StepRequests ==
  ASSUME requests \in 0..MaxRequests, MaxRequests \in Nat,
         [Next]_<<part, codes, accounts, identity, roles>>
  PROVE  requests' \in 0..MaxRequests
<1>1. ASSUME NEW c, NEW r, Check!Start(c, r) PROVE requests' \in 0..MaxRequests
  BY <1>1 DEF Check!Start
<1>2. CASE Check!KycNext
  <2>1. PICK c \in Workers :
          \/ \E doc \in Documents : Check!StartUpload(c, doc)
          \/ Check!SaveUpload(c) \/ Check!StartSubmitId(c) \/ Check!ApplyIprs(c)
          \/ \E decision \in {"APPROVED", "REJECTED"}, reason \in BOOLEAN :
               Check!StartReview(c, decision, reason)
          \/ Check!SaveReview(c)
    BY <1>2 DEF Check!KycNext
  <2>2. CASE Check!SaveUpload(c) \/ Check!ApplyIprs(c) \/ Check!SaveReview(c)
    BY <2>2 DEF Check!SaveUpload, Check!ApplyIprs, Check!SaveReview
  <2>3. CASE \E doc \in Documents : Check!StartUpload(c, doc)
    BY <1>1, <2>3 DEF Check!StartUpload
  <2>4. CASE Check!StartSubmitId(c)
    BY <1>1, <2>4 DEF Check!StartSubmitId
  <2>5. CASE \E decision \in {"APPROVED", "REJECTED"}, reason \in BOOLEAN :
               Check!StartReview(c, decision, reason)
    BY <1>1, <2>5 DEF Check!StartReview
  <2> QED BY <2>1, <2>2, <2>3, <2>4, <2>5
<1>3. CASE UNCHANGED identity
  BY <1>3 DEF identity
<1> QED BY <1>2, <1>3 DEF Next

\* Every row, token, session and role is of its type, and no code is entered or compared
\* more often than codes were entered.
THEOREM AccountsAreTyped ==
  ASSUME CodeAssumptions, CodeBounds, RoleAssumption, MaxRequests \in Nat,
         "PASSWORD_RESET" \in Purposes, "PHONE" \in Channels
  PROVE  Spec => []AccountsTypeOK
<1> DEFINE Soundness == /\ CodesInv /\ BoundsInv /\ SignRows /\ KycInv /\ requests \in 0..MaxRequests
                   /\ RolesInv
<1>1. Init => Soundness
  <2>1. Init => requests \in 0..MaxRequests
    BY DEF Init, Check!KycInit
  <2> QED BY <2>1, InitCodes, InitBounds, InitRows, InitKyc, InitRoles DEF Init
<1>2. Soundness /\ [Next]_<<part, codes, accounts, identity, roles>> => Soundness'
  BY StepCodes, StepBounds, StepRows, StepKyc, StepRequests, StepRoles
<1>3. Soundness => AccountsTypeOK
  <2> SUFFICES ASSUME Soundness PROVE AccountsTypeOK
    OBVIOUS
  <2>1. Otp!OtpTypeOK
    <3>1. ASSUME NEW t \in DOMAIN tokens PROVE tokens[t] \in Otp!TokenRows
      <4>1. tokens[t] \in CodeRows
        BY RowTypes DEF CodesInv, CodeTypes
      <4>2. /\ tokens[t].created <= otpClock /\ otpClock \in 0..MaxTime /\ checks \in 0..MaxChecks
            /\ tokens[t].attempts <= checks /\ tokens[t].entered + Cardinality(Counting(t)) <= checks
        BY DEF CodesInv, TokensInv, BoundsInv
      <4>3. tokens[t].created \in Nat /\ tokens[t].attempts \in Nat /\ tokens[t].entered \in Nat
        BY <4>1 DEF CodeRows
      <4>4. Cardinality(Counting(t)) \in Nat
        BY CountingSize DEF CodeBounds
      <4>5. /\ tokens[t].created \in 0..MaxTime /\ tokens[t].attempts \in 0..MaxChecks
            /\ tokens[t].entered \in 0..MaxChecks
        BY <4>2, <4>3, <4>4 DEF CodeBounds
      <4> QED BY <4>1, <4>5 DEF CodeRows, Otp!TokenRows
    <3> QED BY <3>1 DEF Otp!OtpTypeOK, BoundsInv, CodesInv, TokensInv
  <2>2. Sign!SignTypeOK
    BY DEF SignRows
  <2>3. Check!KycTypeOK
    BY DEF KycInv, KycTypes, Check!KycTypeOK
  <2>4. Grant!RoleTypeOK
    <3>1. \A i \in DOMAIN role : role[i] \in RoleRows
      BY ElementOfSeq, LenProperties DEF RolesInv, CallsInv
    <3> QED BY <3>1 DEF Grant!RoleTypeOK, RoleRows
  <2> QED BY <2>1, <2>2, <2>3, <2>4 DEF AccountsTypeOK
<1> HIDE DEF Soundness
<1> QED BY <1>1, <1>2, <1>3, PTL DEF Spec
=============================================================================

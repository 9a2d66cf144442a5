------------------------------- MODULE Roles -------------------------------
(***************************************************************************)
(* Roles of users and what they open: assignment and revocation            *)
(* (saccomanagement/role_views.py), the permission of a request            *)
(* (accounts/permissions.py) and the SACCO it works in                     *)
(* (saccomanagement/mixins.py).  Permission, look and write are a step     *)
(* each; the unique constraint does not bind where the SACCO is null.      *)
(***************************************************************************)
EXTENDS Integers, Sequences

CONSTANTS
  Users,    \* users, none with is_staff
  Founder,  \* the first super admin
  Saccos,   \* SACCOs
  Platform, \* sacco = null
  Offices,  \* SACCO and name of the roles that are assigned
  MaxRows,  \* bound on Role rows
  Calls,    \* requests at the same time
  Deleted   \* a row that is no longer there

VARIABLES
  role,      \* Role rows: user, SACCO and name, or Deleted
  call,      \* what every request is doing
  gone,      \* history: roles revoked and not assigned since
  coincided, \* history: roles assigned twice at the same time
  mutual,   \* history: two revocations were under way at once
  misplaced \* history: a write for a SACCO whose admin the user was not

roleVars == <<role, call, gone, coincided, mutual, misplaced>>

Grants == {[user |-> u, sacco |-> o[1], name |-> o[2]] : u \in Users, o \in Offices}

Quiet == [op |-> "none"]

RoleInit ==
  /\ role = <<[user |-> Founder, sacco |-> Platform, name |-> "SUPER_ADMIN"]>>
  /\ call = [c \in Calls |-> Quiet]
  /\ gone = {} /\ coincided = {} /\ mutual = FALSE /\ misplaced = FALSE

Begin(c, r) == call[c] = Quiet /\ call' = [call EXCEPT ![c] = r]

Turn(c, r) == call' = [call EXCEPT ![c] = r]

Granted == {role[i] : i \in DOMAIN role} \ {Deleted}

IsSuperAdmin(u) == \E g \in Granted : g.user = u /\ g.name = "SUPER_ADMIN"

IsAdminOf(u, s) == \E g \in Granted : g.user = u /\ g.sacco = s /\ g.name = "SACCO_ADMIN"

-----------------------------------------------------------------------------
(* Assignment and revocation *)

\* The permission IsSuperAdmin is asked once, before the handler runs.
Permitted(c, u, op) ==
  /\ IsSuperAdmin(u) /\ Begin(c, [op |-> op, user |-> u])
  /\ UNCHANGED <<role, gone, coincided, misplaced>>

StartAssign(c, u) == Permitted(c, u, "assigning") /\ UNCHANGED mutual

\* The look for the role, whatever roles the caller has by now.
LookAssign(c, g) ==
  /\ call[c].op = "assigning" /\ g \notin Granted
  /\ Turn(c, [op |-> "assign", grant |-> g])
  /\ UNCHANGED <<role, gone, coincided, mutual, misplaced>>

\* A body that does not hold, a role that is there or is not, the caller's own.
Refused(c) ==
  /\ call[c].op \in {"assigning", "revoking"} /\ Turn(c, Quiet)
  /\ UNCHANGED <<role, gone, coincided, mutual, misplaced>>

\* unique_together (user, sacco, name), where null equals nothing.
Clashes(g) == g.sacco # Platform /\ g \in Granted

CreateRole(c) ==
  LET g == call[c].grant IN
  /\ call[c].op = "assign" /\ Turn(c, Quiet)
  /\ \/ /\ ~Clashes(g)
        /\ Len(role) < MaxRows /\ role' = Append(role, g)
        /\ coincided' = IF g \in Granted THEN coincided \cup {g} ELSE coincided
        /\ gone' = gone \ {g}
     \/ Clashes(g) /\ UNCHANGED <<role, coincided, gone>>
  /\ UNCHANGED <<mutual, misplaced>>

\* Mutant: anybody's.
OwnSuperAdminNever(u, g) == FALSE

OwnSuperAdmin(u, g) == g.user = u /\ g.name = "SUPER_ADMIN"

StartRevoke(c, u) ==
  /\ Permitted(c, u, "revoking")
  /\ mutual' = (mutual \/ \E d \in Calls : call[d].op \in {"revoking", "revoke"})

LookRevoke(c, i) ==
  /\ call[c].op = "revoking" /\ role[i] # Deleted
  /\ ~OwnSuperAdmin(call[c].user, role[i])
  /\ Turn(c, [op |-> "revoke", row |-> i, grant |-> role[i]])
  /\ UNCHANGED <<role, gone, coincided, mutual, misplaced>>

\* By id: a row deleted meanwhile is not missed.
DeleteRole(c) ==
  LET r == call[c] IN
  /\ r.op = "revoke" /\ Turn(c, Quiet)
  /\ role' = [role EXCEPT ![r.row] = Deleted]
  /\ gone' = IF role[r.row] = Deleted THEN gone ELSE gone \cup {r.grant}
  /\ UNCHANGED <<coincided, mutual, misplaced>>

-----------------------------------------------------------------------------
(* A request for a SACCO's data *)

\* Mutant: the role in any SACCO is enough.
ContextsOfAll(u) == IF IsSuperAdmin(u) THEN {Platform} ELSE {s \in Saccos : \E t \in Saccos : IsAdminOf(u, t)}

\* The SACCO of the header, or of the newest role without one; everything for a
\* super admin.
Contexts(u) == IF IsSuperAdmin(u) THEN {Platform} ELSE {s \in Saccos : IsAdminOf(u, s)}

StartWork(c, u, s) ==
  /\ s \in Contexts(u)
  /\ Begin(c, [op |-> "scope", user |-> u, sacco |-> s,
               may |-> {t \in Saccos : IsAdminOf(u, t) \/ IsSuperAdmin(u)}])
  /\ UNCHANGED <<role, gone, coincided, mutual, misplaced>>

\* get_sacco_queryset asks for the roles again: a super admin sees everything,
\* whoever was an admin only sees the SACCO found before.
Scope(u, s) ==
  IF IsSuperAdmin(u) THEN Saccos
  ELSE IF \E g \in Granted : g.user = u /\ g.name = "SACCO_ADMIN" THEN {s} \cap Saccos ELSE {}

\* The row is in a SACCO of the queryset, or the answer is 403 or 404.
WorkOn(c) ==
  LET r == call[c] IN
  /\ r.op = "scope" /\ Turn(c, Quiet)
  /\ \E t \in Scope(r.user, r.sacco) :
       misplaced' = (misplaced \/ (t \notin r.may /\ ~IsSuperAdmin(r.user)))
  /\ UNCHANGED <<role, gone, coincided, mutual>>

Turned(c) ==
  /\ call[c].op = "scope" /\ Scope(call[c].user, call[c].sacco) = {} /\ Turn(c, Quiet)
  /\ UNCHANGED <<role, gone, coincided, mutual, misplaced>>

RoleNext ==
  \E c \in Calls :
    \/ \E u \in Users : StartAssign(c, u) \/ StartRevoke(c, u)
    \/ \E g \in Grants : LookAssign(c, g)
    \/ \E i \in DOMAIN role : LookRevoke(c, i)
    \/ Refused(c)
    \/ \E u \in Users, s \in Saccos \cup {Platform} : StartWork(c, u, s)
    \/ CreateRole(c) \/ DeleteRole(c) \/ WorkOn(c) \/ Turned(c)

-----------------------------------------------------------------------------
(* Properties *)

RoleTypeOK == \A i \in DOMAIN role : role[i] \in Grants \cup {Deleted}

\* A revoked role is gone, unless it was assigned twice at the same time; there
\* is a super admin left, unless two revocations crossed; and a request writes
\* for a SACCO whose admin its user was or is (saccomanagement/role_views.py,
\* saccomanagement/mixins.py).
RevocationStands ==
  /\ gone \cap Granted \subseteq coincided
  /\ mutual \/ \E u \in Users : IsSuperAdmin(u)
  /\ ~misplaced
=============================================================================

------------------------------- MODULE Accounts -------------------------------
(***************************************************************************)
(* User accounts: sessions (AuthService, JwtStrategy, RolesGuard), their   *)
(* administration and the two ways of deleting them (UsersController).     *)
(*                                                                         *)
(* deleteUser reads what refers to the account and then deletes statement  *)
(* by statement; forceDeleteUser does it in one transaction, whose count   *)
(* of the user's work is an earlier statement than the deletion.  What     *)
(* other modules keep of a user is here one row per kind:                  *)
(*   "lead"          detached by a forced deletion (leads, customers, ...) *)
(*   "presentation"  handed to the administrator by a forced deletion      *)
(*   "note"          removed by a forced deletion (notes, activities, ...) *)
(*   "case"          neither counted nor removed (PDCA cases and logs): it *)
(*                   only restricts the deletion                           *)
(*   "notice"        removed by both                                       *)
(* and "work" are the tasks of module WorkTasks.                           *)
(*                                                                         *)
(* Left out: names, passwords, e-mails (unique), and managers.             *)
(***************************************************************************)
EXTENDS Naturals, FiniteSets

CONSTANTS Users, Roles, Rows, kind, Works, Requests, Tokens, None

AccountsAssumption ==
    /\ kind \in [Rows -> {"lead", "presentation", "note", "case", "notice"}]
    /\ "ADMIN" \in Roles
    /\ None \notin Users \cup Tokens

VARIABLES users,
          rows,   \* whose each row is, or None
          works,  \* [createdBy, assignedTo] of each task, or None
          calls   \* requests that delete an account

vars == <<users, rows, works, calls>>

User   == [role: Roles, isActive: BOOLEAN, refreshToken: Tokens \cup {None}]
Absent == [role |-> None]
Idle   == [state |-> "idle"]

Existing == {u \in Users : users[u] # Absent}

TypeOK ==
    /\ \A u \in Existing : users[u] \in User
    /\ \A w \in Works : works[w] # None => works[w].createdBy \in Users
    /\ rows \in [Rows -> Users \cup {None}]
    /\ DOMAIN calls = Requests

\* The first administrator is put there by the seed script.
Init ==
    /\ \E u \in Users :
         users = [v \in Users |-> IF v # u THEN Absent
                  ELSE [role |-> "ADMIN", isActive |-> TRUE, refreshToken |-> None]]
    /\ rows = [x \in Rows |-> None]
    /\ works = [w \in Works |-> None]
    /\ calls = [r \in Requests |-> Idle]

\* What a token says of the role is not looked at, only whose it is.
validate(u) == u \in Existing /\ users[u].isActive

\* RolesGuard: a preview account reads everything and writes nothing.
canActivate(u, roles, isGet) ==
    /\ validate(u)
    /\ IF users[u].role = "PREVIEW" THEN isGet ELSE users[u].role \in roles

Admins == {u \in Existing : canActivate(u, {"ADMIN"}, FALSE)}

-----------------------------------------------------------------------------
(* Sessions.                                                               *)

\* One refresh token per account: a login ends the session before it.
login(u, token) ==
    /\ validate(u)
    /\ \A v \in Existing : users[v].refreshToken # token
    /\ users' = [users EXCEPT ![u].refreshToken = token]
    /\ UNCHANGED <<rows, works, calls>>

\* The access token is made of the account as it is now.
refresh(token) ==
    {u \in Existing : users[u].isActive /\ users[u].refreshToken = token}

-----------------------------------------------------------------------------
(* Administration.                                                         *)

create(u, r) ==
    /\ Admins # {}
    /\ users[u] = Absent
    /\ users' = [users EXCEPT ![u] = [role |-> r, isActive |-> TRUE, refreshToken |-> None]]
    /\ UNCHANGED <<rows, works, calls>>

update(u, r, isActive) ==
    /\ Admins # {}
    /\ users[u] # Absent
    /\ users' = [users EXCEPT ![u] = [@ EXCEPT !.role = r, !.isActive = isActive]]
    /\ UNCHANGED <<rows, works, calls>>

deactivate(u) ==
    /\ Admins # {}
    /\ users[u] # Absent
    /\ users' = [users EXCEPT ![u].isActive = FALSE]
    /\ UNCHANGED <<rows, works, calls>>

-----------------------------------------------------------------------------
(* Deletion.                                                               *)

RowsOf(u, kinds) == {x \in Rows : rows[x] = u /\ kind[x] \in kinds}
HasWork(u) ==
    \E w \in Works : works[w] # None /\ u \in {works[w].createdBy, works[w].assignedTo}

\* Faulty variant: who created a task is set to null too.
RestrictedByRows(u) == RowsOf(u, {"presentation", "note", "case"}) # {}

\* What the schema lets stop the deletion of a user: required references.
Restricted(u) ==
    \/ RowsOf(u, {"presentation", "note", "case"}) # {}
    \/ \E w \in Works : works[w] # None /\ works[w].createdBy = u

\* Optional references are set to null, notifications go with the user.
Delete(u) ==
    /\ users' = [users EXCEPT ![u] = Absent]
    /\ works' = [w \in Works |->
         IF works[w] = None THEN None
         ELSE [works[w] EXCEPT !.assignedTo = IF @ = u THEN None ELSE @]]

\* deleteUser: the user and the blockers; an administrator does not delete himself.
CheckBlockers(r, admin, u) ==
    /\ calls[r] = Idle
    /\ admin \in Admins /\ u \in Existing \ {admin}
    /\ RowsOf(u, {"lead", "presentation", "note"}) = {} /\ ~HasWork(u)
    /\ calls' = [calls EXCEPT ![r] = [state |-> "unblocked", user |-> u]]
    /\ UNCHANGED <<users, rows, works>>

DeleteNotices(r) ==
    /\ calls[r].state = "unblocked"
    /\ rows' = [x \in Rows |-> IF x \in RowsOf(calls[r].user, {"notice"}) THEN None ELSE rows[x]]
    /\ calls' = [calls EXCEPT ![r].state = "cleared"]
    /\ UNCHANGED <<users, works>>

deleteUser(r) ==
    LET u == calls[r].user IN
    /\ calls[r].state = "cleared"
    /\ calls' = [calls EXCEPT ![r] = Idle]
    /\ IF users[u] = Absent \/ Restricted(u)
       THEN UNCHANGED <<users, rows, works>>
       ELSE /\ Delete(u)
            /\ rows' = [x \in Rows |-> IF rows[x] = u THEN None ELSE rows[x]]

\* forceDeleteUser: only work stops it.
CountWork(r, admin, u) ==
    /\ calls[r] = Idle
    /\ admin \in Admins /\ u \in Existing \ {admin}
    /\ ~HasWork(u)
    /\ calls' = [calls EXCEPT ![r] = [state |-> "counted", user |-> u, admin |-> admin]]
    /\ UNCHANGED <<users, rows, works>>

\* The rest of the transaction; presentations become the administrator's, if still there.
forceDeleteUser(r) ==
    LET u == calls[r].user
        a == calls[r].admin
    IN
    /\ calls[r].state = "counted"
    /\ calls' = [calls EXCEPT ![r] = Idle]
    /\ IF \/ users[u] = Absent
          \/ RowsOf(u, {"case"}) # {} \/ (\E w \in Works : works[w] # None /\ works[w].createdBy = u)
          \/ (RowsOf(u, {"presentation"}) # {} /\ users[a] = Absent)
       THEN UNCHANGED <<users, rows, works>>
       ELSE /\ Delete(u)
            /\ rows' = [x \in Rows |-> IF rows[x] # u THEN rows[x]
                                       ELSE IF kind[x] = "presentation" THEN a ELSE None]

\* The process ends between two statements; a transaction is rolled back.
Abandon(r) ==
    /\ calls[r] # Idle
    /\ calls' = [calls EXCEPT ![r] = Idle]
    /\ UNCHANGED <<users, rows, works>>

-----------------------------------------------------------------------------
(* The other modules, as far as an account notices them.                   *)

\* Work is created and assigned by and to active accounts, see WorkTasks.
assignWork(w, by, to) ==
    /\ validate(by)
    /\ to = None \/ validate(to)
    /\ works' = [works EXCEPT ![w] =
         IF @ = None THEN [createdBy |-> by, assignedTo |-> to] ELSE [@ EXCEPT !.assignedTo = to]]
    /\ UNCHANGED <<users, rows, calls>>

addRow(x, u) ==
    /\ validate(u)
    /\ rows[x] = None
    /\ rows' = [rows EXCEPT ![x] = u]
    /\ UNCHANGED <<users, works, calls>>

Next ==
    \/ \E u \in Users, token \in Tokens : login(u, token)
    \/ \E u \in Users, r \in Roles, isActive \in BOOLEAN : create(u, r) \/ update(u, r, isActive)
    \/ \E u \in Users : deactivate(u)
    \/ \E r \in Requests :
         \/ \E admin, u \in Users : CheckBlockers(r, admin, u) \/ CountWork(r, admin, u)
         \/ DeleteNotices(r) \/ deleteUser(r) \/ forceDeleteUser(r) \/ Abandon(r)
    \/ \E w \in Works, by \in Users, to \in Users \cup {None} : assignWork(w, by, to)
    \/ \E x \in Rows, u \in Users : addRow(x, u)

Spec == Init /\ [][Next]_vars

-----------------------------------------------------------------------------
(* Properties.                                                             *)

\* Work never loses who created it, also when it is created while the account is being
\* deleted: what both deletions counted is out of date then, and the reference stops them.
WorkKeepsItsCreator == \A w \in Works : works[w] # None => works[w].createdBy \in Existing
=============================================================================

----------------------------- MODULE SalesLedger -----------------------------
(***************************************************************************)
(* The sales ledger (SalesLedgerService): which accounts of the payment    *)
(* source a salesperson sees, and who follows an account up.               *)
(*                                                                         *)
(* An account carries the codes of its representatives in the source.  An  *)
(* administrator maps codes to users, without a version; a supervisor      *)
(* assigns an account, under a lock on its key and against the version of  *)
(* the page.  Either opens the account to a salesperson.                   *)
(*                                                                         *)
(* Left out: the payment cases themselves, see PaymentCase and             *)
(* PaymentViews, and accounts without a customer or unit code, which       *)
(* cannot be assigned.                                                     *)
(***************************************************************************)
EXTENDS Naturals, Sequences, FiniteSets

CONSTANTS Accounts, Codes,
          representatives,  \* the codes of each account in the source
          Sales,            \* users that may be salespeople
          Requests, None,
          MaxVersion        \* bound on the changes of one assignment

SalesLedgerAssumption ==
    /\ representatives \in [Accounts -> SUBSET Codes]
    /\ None \notin Sales
    /\ MaxVersion \in Nat

VARIABLES selling,      \* who is an active salesperson
          mappings,     \* [code -> user or None]
          assignments,
          calls,
          history       \* for each change of an assignment, the version it was made on

vars == <<selling, mappings, assignments, calls, history>>

SalesLedgerAssignment == [user: Sales \cup {None}, version: 0..MaxVersion]

Idle == [state |-> "idle"]

TypeOK ==
    /\ selling \subseteq Sales
    /\ mappings \in [Codes -> Sales \cup {None}]
    /\ assignments \in [Accounts -> SalesLedgerAssignment]
    /\ DOMAIN calls = Requests

\* Version 0: no row yet.
Init ==
    /\ selling = Sales
    /\ mappings = [c \in Codes |-> None]
    /\ assignments = [a \in Accounts |-> [user |-> None, version |-> 0]]
    /\ calls = [r \in Requests |-> Idle]
    /\ history = [a \in Accounts |-> <<>>]

-----------------------------------------------------------------------------
(* Scope.                                                                  *)

\* Who follows an account up; a former salesperson does not count.
followupAssignments(a) == IF assignments[a].user \in selling THEN assignments[a].user ELSE None

\* All codes of an account must be the user's: a shared account is nobody's.
salesLedgerSnapshot(u) ==
    {a \in Accounts :
        \/ followupAssignments(a) = u
        \/ /\ representatives[a] # {}
           /\ \A c \in representatives[a] : mappings[c] = u}

\* Supervisors see everything; who is no salesperson any more is not let in.
scoped(u) == IF u \in selling THEN salesLedgerSnapshot(u) ELSE {}

-----------------------------------------------------------------------------
(* Assignment.                                                             *)

\* A supervisor opens an account, from whose page he may assign it; a salesperson opens one
\* that is his, and only looks.
detail(r) ==
    /\ calls[r] = Idle
    /\ \E a \in Accounts, state \in {"open", "shown"} :
         /\ state = "shown" => \E u \in Sales : a \in scoped(u)
         /\ calls' = [calls EXCEPT ![r] =
              [state |-> state, account |-> a, expectedVersion |-> assignments[a].version]]
    /\ UNCHANGED <<selling, mappings, assignments, history>>

\* The user and the row are read.
Start(r) ==
    /\ calls[r].state = "open"
    /\ \E u \in selling \cup {None} :
         calls' = [calls EXCEPT ![r] =
           [state |-> "locked", account |-> calls[r].account, user |-> u,
            expectedVersion |-> calls[r].expectedVersion,
            previous |-> assignments[calls[r].account].version]]
    /\ UNCHANGED <<selling, mappings, assignments, history>>

\* Faulty variant: no lock on the key.
LockNothing(r) == Start(r)

Lock(r) ==
    /\ calls[r].state = "open"
    /\ \A s \in Requests : calls[s].state = "locked" => calls[s].account # calls[r].account
    /\ Start(r)

\* An upsert: whoever writes adds one to the version that is there by now.
assignFollowup(r) ==
    LET a == calls[r].account IN
    /\ calls[r].state = "locked"
    /\ calls[r].previous = calls[r].expectedVersion
    /\ assignments[a].version < MaxVersion
    /\ assignments' = [assignments EXCEPT ![a] =
         [user |-> calls[r].user, version |-> @.version + 1]]
    /\ history' = [history EXCEPT ![a] = Append(@, calls[r].expectedVersion)]
    /\ calls' = [calls EXCEPT ![r] = Idle]
    /\ UNCHANGED <<selling, mappings>>

\* A conflict, an error, or the page is closed.
Leave(r) ==
    /\ calls[r] # Idle
    /\ calls' = [calls EXCEPT ![r] = Idle]
    /\ UNCHANGED <<selling, mappings, assignments, history>>

-----------------------------------------------------------------------------
(* Mapping, and what users become.                                         *)

\* A code is mapped only while the source shows it, but unmapped at any time.
setMapping(c, u) ==
    /\ u = None \/ (u \in selling /\ \E a \in Accounts : c \in representatives[a])
    /\ mappings' = [mappings EXCEPT ![c] = u]
    /\ UNCHANGED <<selling, assignments, calls, history>>

\* See Accounts: deactivated or given another role, and back.
setSelling(u) ==
    /\ selling' = IF u \in selling THEN selling \ {u} ELSE selling \cup {u}
    /\ UNCHANGED <<mappings, assignments, calls, history>>

\* The account is deleted: its mappings with it, its assignments keep their version.
deletePerson(u) ==
    /\ u \notin selling
    /\ mappings' = [c \in Codes |-> IF mappings[c] = u THEN None ELSE mappings[c]]
    /\ assignments' = [a \in Accounts |->
         IF assignments[a].user = u THEN [assignments[a] EXCEPT !.user = None] ELSE assignments[a]]
    /\ UNCHANGED <<selling, calls, history>>

Next ==
    \/ \E r \in Requests : detail(r) \/ Lock(r) \/ assignFollowup(r) \/ Leave(r)
    \/ \E c \in Codes, u \in Sales \cup {None} : setMapping(c, u)
    \/ \E u \in Sales : setSelling(u) \/ deletePerson(u)

Spec == Init /\ [][Next]_vars

-----------------------------------------------------------------------------
(* Properties.                                                             *)

\* Nobody reassigns an account over an assignment he has not seen, the first included.
Record == INSTANCE VersionedRecord WITH Docs <- Accounts

ImplementsRecord == Record!Spec
=============================================================================

------------------------------ MODULE Customers ------------------------------
(***************************************************************************)
(* Customers with their owners, presentations, documents and units         *)
(* (CustomersService, UnitsService), and the prize wheel that may be spun  *)
(* once for a sold unit (AgentWheelService).                               *)
(*                                                                         *)
(* A handler reads the row it is about, checks what it has read, and       *)
(* writes; between the two other requests run.  "calls" keeps what was     *)
(* read.  Documents are files of an external storage with a row each, and  *)
(* mail goes out before it is logged: requests with a step in between may  *)
(* end there.                                                              *)
(*                                                                         *)
(* Left out: the personal data of customers and its masking, agencies, the *)
(* texts and dates of presentations, the fields of units that describe     *)
(* their delivery, utilities, rental and accounts, the log of changes      *)
(* written with each, deactivated users, reports, and the notifications    *)
(* sent after a commit (see Notifications).                                *)
(***************************************************************************)
EXTENDS FiniteSets, Naturals, Sequences

CONSTANTS CustomerIds,
          DND,            \* the system customer that owns canceled units
          UnitIds,        \* ids of CustomerUnitSelection rows; an id is used once
          Numbers,        \* a project and a unit number
          Presentations, Documents,
          Users, role, Requests, None,
          MaxHistory      \* bound on the changes of owner of one customer

Roles == {"ADMIN", "MANAGER", "SALES", "AFTERSALES", "CALLCENTER"}

CustomersAssumption ==
    /\ role \in [Users -> Roles]
    /\ DND \in CustomerIds
    /\ None \notin Users \cup CustomerIds \cup UnitIds \cup Numbers
    /\ MaxHistory \in Nat

VARIABLES customers, units, presentations,
          documents, \* the CustomerDocument rows: of which customer
          files,     \* the files in the storage
          history,   \* CustomerOwnerHistory
          spins,     \* how many prizes a unit has won
          calls      \* requests under way

vars == <<customers, units, presentations, documents, files, history, spins, calls>>

Customer == [owner: Users \cup {None}, type: {"POTENTIAL", "EXISTING"}]

\* "contacted": its log has a message to the customer.
Unit == [customer: CustomerIds, previous: CustomerIds \cup {None}, number: Numbers,
         canceled: BOOLEAN, contacted: BOOLEAN]

Presentation == [customer: CustomerIds, assigned: Users \cup {None}, notes: BOOLEAN]

Unused  == [owner |-> "unused"]
Deleted == [owner |-> "deleted"]
NoUnit  == [customer |-> None]   \* no row yet
Gone    == [gone |-> TRUE]      \* a deleted row
Idle    == [stage |-> "idle"]

TypeOK ==
    /\ customers \in [CustomerIds -> Customer \cup {Unused, Deleted}]
    /\ units \in [UnitIds -> Unit \cup {NoUnit, Gone}]
    /\ presentations \in [Presentations -> Presentation \cup {NoUnit}]
    /\ documents \in [Documents -> CustomerIds \cup {None}]
    /\ files \subseteq Documents
    /\ \A c \in CustomerIds : history[c] \in Seq([from: Users \cup {None}, to: Users \cup {None}])
    /\ spins \in [UnitIds -> Nat]
    /\ DOMAIN calls = Requests

Init ==
    /\ customers = [c \in CustomerIds |-> Unused]
    /\ units = [x \in UnitIds |-> NoUnit]
    /\ presentations = [p \in Presentations |-> NoUnit]
    /\ documents = [d \in Documents |-> None]
    /\ files = {}
    /\ history = [c \in CustomerIds |-> <<>>]
    /\ spins = [x \in UnitIds |-> 0]
    /\ calls = [r \in Requests |-> Idle]

-----------------------------------------------------------------------------
(* Rows and rights.                                                        *)

Present == {c \in CustomerIds : customers[c] \notin {Unused, Deleted}}
Sold    == {x \in UnitIds : units[x] \notin {NoUnit, Gone}}
UnitsOf(c) == {x \in Sold : units[x].customer = c}

isCrmUser(u)          == role[u] \in {"ADMIN", "MANAGER", "SALES", "AFTERSALES"}
canSeeAllCustomers(u) == role[u] \in {"ADMIN", "AFTERSALES", "MANAGER"}
isCustomerOwner(u, c) == customers[c].owner = u

canEditCustomer(u, c) == canSeeAllCustomers(u) \/ (role[u] = "SALES" /\ isCustomerOwner(u, c))

\* Sales see every customer, those of others without the contact details.
listCustomers(u) == IF isCrmUser(u) THEN Present ELSE {}

Presents(u, c) == \E p \in Presentations : presentations[p].customer = c
                                             /\ presentations[p].assigned = u

canAccessUnit(u, x) ==
    \/ canSeeAllCustomers(u)
    \/ /\ role[u] \in {"SALES", "CALLCENTER"}
       /\ isCustomerOwner(u, units[x].customer) \/ Presents(u, units[x].customer)

\* validateAssignableOwner
MayOwn == {u \in Users : role[u] \in {"SALES", "MANAGER", "ADMIN"}} \cup {None}

\* resolveOwnerId
OwnerFor(u, wanted) ==
    IF role[u] = "SALES" \/ (role[u] = "MANAGER" /\ wanted = None) THEN u ELSE wanted

\* The unique key on customer, project and unit number.
Free(x, c, number) == \A y \in UnitsOf(c) \ {x} : units[y].number # number

NewUnit(c, number) == [customer |-> c, previous |-> None, number |-> number, canceled |-> FALSE,
                       contacted |-> FALSE]

\* The rows of units with these numbers added for the customer, in each choice of ids.
Added(rows, c, numbers) ==
    {[x \in UnitIds |-> IF \E n \in numbers : id[n] = x
                        THEN NewUnit(c, CHOOSE n \in numbers : id[n] = x) ELSE rows[x]] :
       id \in {id \in [numbers -> {x \in UnitIds : rows[x] = NoUnit}] :
                 \A m, n \in numbers : id[m] = id[n] => m = n}}

-----------------------------------------------------------------------------
(* Requests.                                                               *)

Begin(r, u, about, id, row) ==
    /\ calls[r] = Idle
    /\ calls' = [calls EXCEPT ![r] = [stage |-> "read", user |-> u, about |-> about,
                                      id |-> id, row |-> row]]
    /\ UNCHANGED <<customers, units, presentations, documents, files, history, spins>>

ReadCustomer(r, u) ==
    \E c \in listCustomers(u) : canEditCustomer(u, c) /\ Begin(r, u, "customer", c, customers[c])

ReadUnit(r, u) == \E x \in Sold : canAccessUnit(u, x) /\ Begin(r, u, "unit", x, units[x])

ReadPresentation(r, u) ==
    \E p \in Presentations :
        /\ presentations[p] # NoUnit
        /\ role[u] \in {"ADMIN", "MANAGER"} \/ presentations[p].assigned = u
        /\ Begin(r, u, "presentation", p, None)

At(r, about, stage) == calls[r].stage = stage /\ calls[r].about = about
Step(r, stage) == calls' = [calls EXCEPT ![r].stage = stage]
Done(r)        == calls' = [calls EXCEPT ![r] = Idle]

\* A refusal, a failing call or statement, a lost connection, and the requests that only read
\* (getCustomerDetail, getCustomerDocumentUrl, getUnit).
End(r) ==
    /\ calls[r] # Idle
    /\ Done(r)
    /\ UNCHANGED <<customers, units, presentations, documents, files, history, spins>>

createCustomer(u) ==
    /\ isCrmUser(u)
    /\ \E c \in CustomerIds \ {DND}, wanted \in MayOwn, type \in {"POTENTIAL", "EXISTING"},
          numbers \in SUBSET Numbers :
         /\ customers[c] = Unused
         /\ customers' = [customers EXCEPT ![c] = [owner |-> OwnerFor(u, wanted), type |-> type]]
         /\ units' \in Added(units, c, numbers)
    /\ UNCHANGED <<presentations, documents, files, history, spins, calls>>

\* Units that are no longer named are deleted, those that are named stay as they are.
WithNumbers(c, numbers) ==
    LET stale == {x \in UnitsOf(c) : units[x].number \notin numbers}
        kept  == {units[x].number : x \in UnitsOf(c) \ stale}
    IN  Added([x \in UnitIds |-> IF x \in stale THEN Gone ELSE units[x]], c, numbers \ kept)

\* The change of owner is recorded if it differs from the owner that was read.
updateCustomer(r) ==
    /\ At(r, "customer", "read")
    /\ LET c == calls[r].id
       IN  /\ c \in Present
           /\ \E owner \in MayOwn, type \in {"POTENTIAL", "EXISTING"}, changesOwner \in BOOLEAN :
                /\ changesOwner \/ owner = None
                /\ customers' = [customers EXCEPT ![c] =
                     [owner |-> IF changesOwner THEN owner ELSE @.owner, type |-> type]]
                /\ IF changesOwner /\ owner # calls[r].row.owner
                   THEN /\ Len(history[c]) < MaxHistory
                        /\ history' = [history EXCEPT ![c] =
                             Append(@, [from |-> calls[r].row.owner, to |-> owner])]
                   ELSE UNCHANGED history
           /\ units' \in {units} \cup UNION {WithNumbers(c, numbers) : numbers \in SUBSET Numbers}
    /\ Done(r)
    /\ UNCHANGED <<presentations, documents, files, spins>>

\* The files of the documents stay in the storage.
deleteCustomer(r) ==
    /\ At(r, "customer", "read")
    /\ role[calls[r].user] \in {"ADMIN", "MANAGER"}
    /\ LET c == calls[r].id
       IN  /\ c \in Present
           /\ customers' = [customers EXCEPT ![c] = IF c = DND THEN Unused ELSE Deleted]
           /\ units' = [x \in UnitIds |->
                CASE x \in UnitsOf(c)                         -> Gone
                  [] x \in Sold \ UnitsOf(c) /\ units[x].previous = c
                                                 -> [units[x] EXCEPT !.previous = None]
                  [] OTHER                                    -> units[x]]
           /\ presentations' = [p \in Presentations |->
                IF presentations[p].customer = c THEN NoUnit ELSE presentations[p]]
           /\ documents' = [d \in Documents |-> IF documents[d] = c THEN None ELSE documents[d]]
           /\ history' = [history EXCEPT ![c] = <<>>]
    /\ Done(r)
    /\ UNCHANGED <<files, spins>>

-----------------------------------------------------------------------------
(* Documents and presentations.                                            *)

\* The file, and then the row.
uploadCustomerDocument(r) ==
    \/ /\ At(r, "customer", "read")
       /\ \E d \in Documents \ files : files' = files \cup {d} /\ documents[d] = None
       /\ Step(r, "stored")
       /\ UNCHANGED <<customers, units, presentations, documents, history, spins>>
    \/ /\ At(r, "customer", "stored")
       /\ calls[r].id \in Present
       /\ \E d \in files : documents[d] = None /\ documents' = [documents EXCEPT ![d] = calls[r].id]
       /\ Done(r)
       /\ UNCHANGED <<customers, units, presentations, files, history, spins>>

\* A file that is in the storage already.
addCustomerDocument(r) ==
    /\ At(r, "customer", "read")
    /\ calls[r].id \in Present
    /\ \E d \in Documents : documents[d] = None
                            /\ documents' = [documents EXCEPT ![d] = calls[r].id]
    /\ Done(r)
    /\ UNCHANGED <<customers, units, presentations, files, history, spins>>

\* The file is removed, and then the row.
deleteCustomerDocument(r) ==
    \/ /\ At(r, "customer", "read")
       /\ \E d \in Documents : documents[d] = calls[r].id /\ files' = files \ {d}
       /\ Step(r, "removed")
       /\ UNCHANGED <<customers, units, presentations, documents, history, spins>>
    \/ /\ At(r, "customer", "removed")
       /\ \E d \in Documents \ files : documents[d] = calls[r].id
                                       /\ documents' = [documents EXCEPT ![d] = None]
       /\ Done(r)
       /\ UNCHANGED <<customers, units, presentations, files, history, spins>>

createPresentation(r) ==
    /\ At(r, "customer", "read")
    /\ calls[r].id \in Present
    /\ \E p \in Presentations, wanted \in MayOwn \ {None} :
         /\ presentations[p] = NoUnit
         /\ presentations' = [presentations EXCEPT ![p] =
              [customer |-> calls[r].id, notes |-> FALSE,
               assigned |-> IF role[calls[r].user] = "SALES" THEN calls[r].user ELSE wanted]]
    /\ Done(r)
    /\ UNCHANGED <<customers, units, documents, files, history, spins>>

updatePresentation(r) ==
    /\ At(r, "presentation", "read")
    /\ presentations[calls[r].id] # NoUnit
    /\ \E assigned \in MayOwn :
         presentations' = [presentations EXCEPT ![calls[r].id].assigned = assigned]
    /\ Done(r)
    /\ UNCHANGED <<customers, units, documents, files, history, spins>>

addPresentationNote(r) ==
    /\ At(r, "presentation", "read")
    /\ presentations[calls[r].id] # NoUnit
    /\ presentations' = [presentations EXCEPT ![calls[r].id].notes = TRUE]
    /\ Done(r)
    /\ UNCHANGED <<customers, units, documents, files, history, spins>>

-----------------------------------------------------------------------------
(* Units.                                                                  *)

\* ensureDndCompanyCustomer: the upsert of the system customer, with which a canceling
\* request goes on.
ensureDndCompanyCustomer(r) ==
    /\ At(r, "unit", "read")
    /\ canSeeAllCustomers(calls[r].user)
    /\ customers' = [customers EXCEPT ![DND] =
         [owner |-> IF @ = Unused THEN None ELSE @.owner, type |-> "EXISTING"]]
    /\ Step(r, "canceling")
    /\ UNCHANGED <<units, presentations, documents, files, history, spins>>

\* The unit goes to the system customer, unless that has the same unit already.
Cancels(r) ==
    /\ At(r, "unit", "canceling")
    /\ LET x == calls[r].id  row == calls[r].row
       IN  IF row.customer = DND
           THEN units' = [units EXCEPT ![x].canceled = TRUE]
           ELSE /\ DND \in Present
                /\ Free(x, DND, row.number)
                /\ units' = [units EXCEPT
                     ![x].canceled = TRUE, ![x].customer = DND,
                     ![x].previous = IF row.previous # None THEN row.previous ELSE row.customer]
    /\ UNCHANGED customers

\* ... and comes back.
Restores(r) ==
    /\ At(r, "unit", "read")
    /\ canSeeAllCustomers(calls[r].user)
    /\ LET x == calls[r].id  row == calls[r].row
       IN  IF row.previous = None
           THEN units' = [units EXCEPT ![x].canceled = FALSE]
           ELSE /\ row.previous \in Present
                /\ Free(x, row.previous, row.number)
                /\ units' = [units EXCEPT
                     ![x].canceled = FALSE, ![x].customer = row.previous, ![x].previous = None]
    /\ UNCHANGED customers

updateUnit(r) ==
    /\ calls[r] # Idle
    /\ calls[r].id \in Sold
    /\ Cancels(r) \/ Restores(r)
    /\ Done(r)
    /\ UNCHANGED <<presentations, documents, files, history, spins>>

deleteUnit(r) ==
    /\ At(r, "unit", "read")
    /\ role[calls[r].user] \in {"ADMIN", "MANAGER"}
    /\ calls[r].id \in Sold
    /\ units' = [units EXCEPT ![calls[r].id] = Gone]
    /\ Done(r)
    /\ UNCHANGED <<customers, presentations, documents, files, history, spins>>

\* The log of a message that was sent elsewhere.
recordCommunication(r) ==
    /\ At(r, "unit", "read")
    /\ calls[r].id \in Sold
    /\ units' = [units EXCEPT ![calls[r].id].contacted = TRUE]
    /\ Done(r)
    /\ UNCHANGED <<customers, presentations, documents, files, history, spins>>

\* The mail, and then its log.
sendUnitEmail(r) ==
    \/ /\ At(r, "unit", "read")
       /\ Step(r, "mailed")
       /\ UNCHANGED <<customers, units, presentations, documents, files, history, spins>>
    \/ /\ At(r, "unit", "mailed")
       /\ calls[r].id \in Sold
       /\ units' = [units EXCEPT ![calls[r].id].contacted = TRUE]
       /\ Done(r)
       /\ UNCHANGED <<customers, presentations, documents, files, history, spins>>

-----------------------------------------------------------------------------
(* The wheel.                                                              *)

\* The reads of a spin: the unit, its customer, and an earlier spin.
ReadSale(r, u) ==
    /\ role[u] \in {"ADMIN", "MANAGER", "SALES"}
    /\ \E x \in Sold : /\ ~units[x].canceled
                       /\ customers[units[x].customer].type = "EXISTING"
                       /\ spins[x] = 0
                       /\ Begin(r, u, "sale", x, None)

\* Faulty variant: the earlier spin is looked for in the reads alone.
SpunOrNot(x) == TRUE

\* The unique key on unitSelectionKey.
Unspun(x) == spins[x] = 0

\* A unit that has been deleted since cannot be referred to.
spin(r) ==
    /\ At(r, "sale", "read")
    /\ calls[r].id \in Sold
    /\ Unspun(calls[r].id)
    /\ spins' = [spins EXCEPT ![calls[r].id] = @ + 1]
    /\ Done(r)
    /\ UNCHANGED <<customers, units, presentations, documents, files, history>>

Next ==
    \/ \E r \in Requests, u \in Users :
         ReadCustomer(r, u) \/ ReadUnit(r, u) \/ ReadPresentation(r, u) \/ ReadSale(r, u)
    \/ \E r \in Requests :
         \/ updateCustomer(r) \/ deleteCustomer(r)
         \/ uploadCustomerDocument(r) \/ addCustomerDocument(r) \/ deleteCustomerDocument(r)
         \/ createPresentation(r) \/ updatePresentation(r) \/ addPresentationNote(r)
         \/ ensureDndCompanyCustomer(r) \/ updateUnit(r) \/ deleteUnit(r)
         \/ recordCommunication(r) \/ sendUnitEmail(r)
         \/ spin(r) \/ End(r)
    \/ \E u \in Users : createCustomer(u)

Spec == Init /\ [][Next]_vars

-----------------------------------------------------------------------------
(* Properties.                                                             *)

\* "This sale has already used the wheel" (agent-wheel.service.ts): two spins that both
\* found no earlier one do not both win, nor do later ones when the unit has been canceled,
\* given back, or moved to another customer in between.
OnePrizePerUnit == \A x \in UnitIds : spins[x] <= 1

\* "DND already owns this project and unit number" (units.service.ts): however units are
\* canceled, given back and renamed at the same time, no customer has two rows of one unit.
\* The check of the handler comes before its write.
OneRowPerUnit ==
    \A x, y \in Sold : units[x].customer = units[y].customer /\ units[x].number = units[y].number
                         => x = y
=============================================================================

------------------------------ MODULE ItSupport ------------------------------
(***************************************************************************)
(* IT tickets (ItSupportService): the ticket row, its append-only entries, *)
(* and the users who read a page of a ticket and submit a change to it.    *)
(*                                                                         *)
(* A page is read in two queries outside a transaction: the ticket, then   *)
(* its entries.  A change is a transaction that reads the ticket, compares *)
(* its version with that of the page, takes the row lock by an update      *)
(* conditional on the version, and then checks, writes and logs.           *)
(*                                                                         *)
(* Left out: subjects, bodies, categories, priorities and due dates,       *)
(* deactivated accounts, the total size of the files of a ticket, and the  *)
(* cursor of older entries.  An entry comes with one file or none.         *)
(***************************************************************************)
EXTENDS FiniteSets, Naturals, Sequences

CONSTANTS Tickets, Users, role,
          Pages,      \* the pages users have open
          None,
          FileLimit,  \* files a ticket may have (10)
          MaxEntries  \* bound on the entries of a ticket

openStatuses == {"NEW", "IN_PROGRESS", "WAITING_REQUESTER", "WAITING_VENDOR"}
ended        == {"CLOSED", "CANCELLED"}
Statuses     == openStatuses \cup ended \cup {"RESOLVED"}

ItAssumption ==
    /\ role \in [Users -> {"ADMIN", "EMPLOYEE"}]
    /\ None \notin Users \cup Statuses
    /\ FileLimit \in Nat \ {0} /\ MaxEntries \in Nat

VARIABLES tickets,  \* the ItTicket rows
          entries,  \* for each ticket, its ItTicketEntry rows in the order they were written
          pages     \* what each page shows, and the change submitted from it

vars == <<tickets, entries, pages>>

\* "responded", "resolved", "closed": the timestamp is there.
Ticket == [requester: Users, assignee: Users \cup {None}, status: Statuses, version: Nat,
           responded: BOOLEAN, resolved: BOOLEAN, closed: BOOLEAN]

\* "seen" is the version of the page the change was submitted from.
Entry == [kind: {"CREATED", "REPLY", "NOTE", "STATUS", "UPDATED"}, public: BOOLEAN,
          status: Statuses \cup {None}, ticketVersion: Nat, file: BOOLEAN, seen: Nat]

Absent == [version |-> 0]
Blank  == [stage |-> "blank"]

TypeOK ==
    /\ \A t \in Tickets : /\ tickets[t] = Absent \/ tickets[t] \in Ticket
                          /\ entries[t] \in Seq(Entry)
    /\ DOMAIN pages = Pages

Init ==
    /\ tickets = [t \in Tickets |-> Absent]
    /\ entries = [t \in Tickets |-> <<>>]
    /\ pages = [p \in Pages |-> Blank]

canManage(u) == role[u] = "ADMIN"

-----------------------------------------------------------------------------
(* Reading.                                                                *)

Filed == {t \in Tickets : tickets[t] # Absent}

\* list: what each scope of the queue holds.
list(u, scope) ==
    {t \in Filed : CASE scope = "MINE"       -> tickets[t].requester = u
                     [] scope = "ASSIGNED"   -> canManage(u) /\ tickets[t].assignee = u
                     [] scope = "UNASSIGNED" -> canManage(u) /\ tickets[t].assignee = None
                     [] scope = "ALL"        -> canManage(u)}

\* scope
Accessible(u) == {t \in Filed : canManage(u) \/ tickets[t].requester = u}

Visible(u, entry) == canManage(u) \/ entry.public

\* Faulty variant: all entries there are by then.
AllEntries(log, u, version) == {i \in DOMAIN log : Visible(u, log[i])}

\* page: the entries up to the version of the ticket that was read, by their place in the log.
EntriesUpTo(log, u, version) ==
    {i \in DOMAIN log : log[i].ticketVersion <= version /\ Visible(u, log[i])}

\* get: the ticket ...
Open(p, u) ==
    \E t \in Accessible(u) :
        /\ \E scope \in {"MINE", "ASSIGNED", "UNASSIGNED", "ALL"} : t \in list(u, scope)
        /\ pages' = [pages EXCEPT ![p] = [stage |-> "ticket", user |-> u, id |-> t,
                                          row |-> tickets[t], entries |-> {}]]
        /\ UNCHANGED <<tickets, entries>>

\* ... and its entries.
Load(p) ==
    /\ pages[p].stage = "ticket"
    /\ LET page == pages[p]
       IN  pages' = [pages EXCEPT ![p] = [page EXCEPT !.stage = "shown",
                       !.entries = EntriesUpTo(entries[page.id], page.user, page.row.version)]]
    /\ UNCHANGED <<tickets, entries>>

-----------------------------------------------------------------------------
(* Changes.                                                                *)

\* log
Logged(t, entry) == [entries EXCEPT ![t] = Append(@, entry)]

create(u) ==
    \E t \in Tickets \ Filed, file \in BOOLEAN :
        /\ tickets' = [tickets EXCEPT ![t] =
             [requester |-> u, assignee |-> None, status |-> "NEW", version |-> 1,
              responded |-> FALSE, resolved |-> FALSE, closed |-> FALSE]]
        /\ entries' = Logged(t, [kind |-> "CREATED", public |-> TRUE, status |-> "NEW",
                                 ticketVersion |-> 1, file |-> file, seen |-> 0])
        /\ UNCHANGED pages

\* mutate: the transaction has read the ticket and found the version of the page.
Begin(p) ==
    /\ pages[p].stage = "shown"
    /\ pages[p].row.version = tickets[pages[p].id].version
    /\ pages' = [pages EXCEPT ![p].stage = "begun", ![p].row = tickets[pages[p].id]]
    /\ UNCHANGED <<tickets, entries>>

\* Faulty variant: the row is updated by its id alone.
ClaimsById(p) ==
    /\ pages[p].stage = "begun"
    /\ Len(entries[pages[p].id]) < MaxEntries

\* The conditional update finds the row.
Claims(p) ==
    /\ pages[p].stage = "begun"
    /\ Len(entries[pages[p].id]) < MaxEntries
    /\ tickets[pages[p].id].version = pages[p].row.version

\* The rest of the transaction, and the page the answer shows.
Mutate(p, row, kind, public, status, file) ==
    LET page  == pages[p]
        after == [row EXCEPT !.version = @ + 1]
        entry == [kind |-> kind, public |-> public, status |-> status,
                  ticketVersion |-> after.version, file |-> file, seen |-> page.row.version]
        log   == Append(entries[page.id], entry)
    IN  /\ tickets' = [tickets EXCEPT ![page.id] = after]
        /\ entries' = Logged(page.id, entry)
        /\ pages' = [pages EXCEPT ![p] = [page EXCEPT !.stage = "shown", !.row = after,
                       !.entries = EntriesUpTo(log, page.user, after.version)]]

\* A version conflict, or a refusal: the page has to be read again.
Conflict(p) ==
    /\ pages[p].stage \in {"shown", "begun"}
    /\ pages[p].row.version # tickets[pages[p].id].version
    /\ pages' = [pages EXCEPT ![p] = Blank]
    /\ UNCHANGED <<tickets, entries>>

Files(t) == {i \in DOMAIN entries[t] : entries[t][i].file}

\* Faulty variant: the files that are there are not counted.
WithinUpload(t, file) == file => FileLimit > 0

\* fileQuota
WithinQuota(t, file) == file => Cardinality(Files(t)) < FileLimit

reply(p) ==
    /\ Claims(p)
    /\ \E public \in BOOLEAN, file \in BOOLEAN :
         LET u    == pages[p].user
             row  == pages[p].row
             next == IF public /\ row.requester = u /\ row.status = "WAITING_REQUESTER"
                     THEN "IN_PROGRESS" ELSE row.status
         IN  /\ row.status \notin ended
             /\ public \/ canManage(u)
             /\ WithinQuota(pages[p].id, file)
             /\ Mutate(p, [row EXCEPT !.status = next,
                             !.responded = @ \/ (public /\ canManage(u) /\ u # row.requester)],
                       IF public THEN "REPLY" ELSE "NOTE", public,
                       IF next # row.status THEN next ELSE None, file)

\* actions
Available(u, row) ==
    IF row.requester # u THEN {}
    ELSE CASE row.status = "RESOLVED"     -> {"CONFIRM", "REOPEN", "CANCEL"}
           [] row.status = "CLOSED"       -> {"REOPEN"}
           [] row.status \in openStatuses -> {"CANCEL"}
           [] OTHER                       -> {}

Reopened(row) == [row EXCEPT !.resolved = FALSE, !.closed = FALSE]

action(p) ==
    /\ Claims(p)
    /\ \E act \in Available(pages[p].user, pages[p].row) :
         LET row    == pages[p].row
             status == CASE act = "CONFIRM" -> "CLOSED"
                         [] act = "REOPEN"  -> "NEW"
                         [] act = "CANCEL"  -> "CANCELLED"
         IN  Mutate(p, [(IF act = "REOPEN" THEN Reopened(row) ELSE [row EXCEPT !.closed = TRUE])
                          EXCEPT !.status = status], "STATUS", TRUE, status, FALSE)

allowedStatuses(status) ==
    CASE status \in openStatuses -> {status, "IN_PROGRESS", "WAITING_REQUESTER",
                                     "WAITING_VENDOR", "RESOLVED", "CANCELLED"}
      [] status = "RESOLVED"     -> {"RESOLVED", "CLOSED", "IN_PROGRESS"}
      [] OTHER                   -> {status, "IN_PROGRESS"}

\* "reason" tells whether one was given.
triage(p) ==
    /\ Claims(p)
    /\ canManage(pages[p].user)
    /\ \E status \in allowedStatuses(pages[p].row.status), reason \in BOOLEAN,
          assignee \in {u \in Users : canManage(u)} \cup {None} :
         LET row      == pages[p].row
             changed  == status # row.status
             reopened == changed /\ row.status \notin openStatuses /\ status = "IN_PROGRESS"
             after    == [(IF reopened THEN Reopened(row) ELSE row) EXCEPT
                            !.status = status, !.assignee = assignee,
                            !.responded = @ \/ (changed /\ reason /\ pages[p].user # row.requester)]
         IN  /\ changed /\ (status \in {"WAITING_REQUESTER", "WAITING_VENDOR", "RESOLVED", "CANCELLED"}
                              \/ reopened) => reason
             /\ Mutate(p, CASE changed /\ status = "RESOLVED"
                                 -> [after EXCEPT !.resolved = TRUE, !.closed = FALSE]
                            [] changed /\ status \in ended -> [after EXCEPT !.closed = TRUE]
                            [] OTHER                       -> after,
                       IF changed THEN "STATUS" ELSE "UPDATED", TRUE,
                       IF changed THEN status ELSE None, FALSE)

Next ==
    \/ \E u \in Users : create(u)
    \/ \E p \in Pages, u \in Users : Open(p, u)
    \/ \E p \in Pages : Load(p) \/ Begin(p) \/ Conflict(p) \/ reply(p) \/ action(p) \/ triage(p)

Spec == Init /\ [][Next]_vars

-----------------------------------------------------------------------------
(* Properties.                                                             *)

\* Nobody changes a ticket on the strength of a page that misses a change, although the
\* ticket is read, and its version compared, before the row is locked ("A compare-and-swap
\* update acquires the row lock before changes", docs/it-support.md).
Record == INSTANCE VersionedRecord WITH
            Docs <- Tickets,
            history <- [t \in Tickets |-> [i \in DOMAIN entries[t] |-> entries[t][i].seen]]

ImplementsRecord == Record!Spec

\* A page is put together from two reads, between which the ticket may change: the status
\* it shows is that of the last change of status among the entries it shows, and it shows
\* no entry that its reader may not see.
PageShowsOneVersion ==
    \A p \in Pages : pages[p].stage = "shown" =>
        LET page    == pages[p]
            log     == entries[page.id]
            changes == {i \in page.entries : log[i].status # None}
        IN  /\ \A i \in page.entries : Visible(page.user, log[i])
            /\ \E i \in changes : /\ \A j \in changes : j <= i
                                  /\ log[i].status = page.row.status

\* The files of a ticket stay within the limit, and its timestamps agree with its status,
\* whichever way the ticket was resolved, closed, cancelled and reopened before.
TicketIsConsistent ==
    \A t \in Filed :
        /\ Cardinality(Files(t)) <= FileLimit
        /\ tickets[t].closed <=> tickets[t].status \in ended
        /\ tickets[t].status = "RESOLVED" => tickets[t].resolved
        /\ tickets[t].status \in openStatuses => ~tickets[t].resolved
=============================================================================

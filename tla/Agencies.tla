------------------------------- MODULE Agencies -------------------------------
(***************************************************************************)
(* Agencies with their tasks (AgenciesService), meetings (MeetingsService, *)
(* and AgenciesService for those of an agency) and what the calendar shows *)
(* of both (CalendarService).                                              *)
(*                                                                         *)
(* A handler reads the row it is about and the user it is to be assigned   *)
(* to, checks both, and writes; between the two other requests run.        *)
(* "calls" keeps what was read.  A meeting is one of three tables, its     *)
(* kind.                                                                   *)
(*                                                                         *)
(* Left out: texts, dates, search and paging, statuses of agencies and     *)
(* meetings, outcomes, notes, leads in the calendar (see Leads), and the   *)
(* notifications sent after each write (see Notifications).                *)
(***************************************************************************)
EXTENDS FiniteSets, Naturals, Sequences

CONSTANTS AgencyIds, MeetingIds, TaskIds,
          CustomerIds, owner,  \* customers and their owners, which do not change here:
                               \* a user keeps what he owns when his role changes
          Users, role, Requests, None,
          MaxHistory           \* bound on the changes of an agency's sales user

Roles == {"ADMIN", "MANAGER", "SALES", "CALLCENTER"}
Kinds == {"AGENCY", "PRESENTATION", "OTHER"}

AgenciesAssumption ==
    /\ role \in [Users -> Roles]
    /\ owner \in [CustomerIds -> Users \cup {None}]
    /\ None \notin Users \cup AgencyIds \cup CustomerIds
    /\ MaxHistory \in Nat

VARIABLES active,   \* users that are
          agencies, history, meetings, tasks,
          calls     \* requests under way

vars == <<active, agencies, history, meetings, tasks, calls>>

Agency == [sales: Users \cup {None}]

AgencyMeeting ==
    [kind: Kinds, agency: AgencyIds \cup {None}, customer: CustomerIds \cup {None},
     sales: Users \cup {None}, by: Users]

AgencyTask == [agency: AgencyIds, assigned: Users \cup {None}, by: Users, done: BOOLEAN]

AgencySalesHistory == [from: Users \cup {None}, to: Users \cup {None}]

Absent  == [absent |-> TRUE]
Free    == [kind |-> None]
NoTask  == [agency |-> None]
Idle    == [about |-> "idle"]

TypeOK ==
    /\ active \subseteq Users
    /\ agencies \in [AgencyIds -> Agency \cup {Absent}]
    /\ \A a \in AgencyIds : history[a] \in Seq(AgencySalesHistory)
    /\ \A m \in MeetingIds : meetings[m] = Free \/ meetings[m] \in AgencyMeeting
    /\ \A t \in TaskIds : tasks[t] = NoTask \/ tasks[t] \in AgencyTask
    /\ DOMAIN calls = Requests

Init ==
    /\ active = Users
    /\ agencies = [a \in AgencyIds |-> Absent]
    /\ history = [a \in AgencyIds |-> <<>>]
    /\ meetings = [m \in MeetingIds |-> Free]
    /\ tasks = [t \in TaskIds |-> NoTask]
    /\ calls = [r \in Requests |-> Idle]

-----------------------------------------------------------------------------
(* Rights.                                                                 *)

Existing  == {a \in AgencyIds : agencies[a] # Absent}
Scheduled == {m \in MeetingIds : meetings[m] # Free}

isManager(u) == role[u] \in {"ADMIN", "MANAGER"}
isSales(u)   == role[u] = "SALES"

\* validateAssignableUser, validateSalesUser
Assignable == {u \in active : role[u] \in {"SALES", "MANAGER"}} \cup {None}
SalesUsers == {u \in active : isSales(u)} \cup {None}

SalesOf(a) == IF a \in Existing THEN agencies[a].sales ELSE None

canSeeAgency(u, a)  == isManager(u) \/ isSales(u) \/ SalesOf(a) = u
canEditAgency(u, a) == isManager(u) \/ SalesOf(a) = u

\* The agencies a user is listed, and those whose contact details he is shown.
listAgencies(u) == IF isManager(u) \/ isSales(u) THEN Existing ELSE {}
getAgency(u)    == {a \in listAgencies(u) : isSales(u) => SalesOf(a) = u}

Takes(u, meeting) == u \in {meeting.sales, meeting.by}

\* canSeeAgencyMeeting, canSeePresentation, canSeeOtherMeeting
canSeeMeeting(u, meeting) ==
    \/ isManager(u)
    \/ Takes(u, meeting)
    \/ isSales(u) /\ meeting.kind = "AGENCY" /\ meeting.agency # None
                  /\ SalesOf(meeting.agency) = u

canModifyMeeting(u, meeting) == isManager(u) \/ meeting.by = u

\* The conditions of the list's queries.
listMeetings(u) ==
    {m \in Scheduled :
       LET meeting == meetings[m]
       IN  \/ isManager(u)
           \/ Takes(u, meeting)
           \/ isSales(u) /\ meeting.kind = "AGENCY"
                         /\ \E a \in Existing : meeting.agency = a /\ agencies[a].sales = u}

\* getMeeting answers.
Opens(u, m) == m \in Scheduled /\ canSeeMeeting(u, meetings[m])

-----------------------------------------------------------------------------
(* CalendarService.getFeed.                                                *)

OwnerOf(meeting) == IF meeting.customer = None THEN None ELSE owner[meeting.customer]

\* Faulty variant: the call centre is treated as the others are.
SeenByAll(u, meeting) ==
    \/ isManager(u)
    \/ Takes(u, meeting)
    \/ OwnerOf(meeting) = u
    \/ meeting.kind = "AGENCY" /\ meeting.agency # None /\ SalesOf(meeting.agency) = u

\* Agency meetings and presentations, also those with a customer of the user's.
SeenWithCustomer(u, meeting) ==
    \/ isManager(u)
    \/ Takes(u, meeting)
    \/ /\ role[u] # "CALLCENTER"
       /\ \/ OwnerOf(meeting) = u
          \/ meeting.kind = "AGENCY" /\ meeting.agency # None /\ SalesOf(meeting.agency) = u

getFeed(u) ==
    {m \in Scheduled : IF meetings[m].kind = "OTHER"
                       THEN isManager(u) \/ Takes(u, meetings[m])
                       ELSE SeenWithCustomer(u, meetings[m])}

\* Entries that link to the page of the meeting, the others to an agency or a customer.
LinksToMeeting(u) == {m \in getFeed(u) : role[u] = "CALLCENTER" \/ meetings[m].kind = "OTHER"}

\* Agency.managerId, which is looked at as well, is never written.
AgencyTasksShown(u) ==
    {t \in TaskIds : /\ role[u] # "CALLCENTER"
                     /\ tasks[t] # NoTask
                     /\ isManager(u) \/ u \in {tasks[t].assigned, tasks[t].by}}

-----------------------------------------------------------------------------
(* Requests.                                                               *)

Rows == <<agencies, history, meetings, tasks>>

\* The checks of a handler; "to" is the user to be assigned, already checked.
Begin(r, u, about, id, row, to) ==
    /\ calls[r] = Idle
    /\ u \in active
    /\ calls' = [calls EXCEPT ![r] = [about |-> about, user |-> u, id |-> id, row |-> row, to |-> to]]
    /\ UNCHANGED <<active, Rows>>

\* resolveAssignedSalesId, resolveAssignedUserId
AgencySalesFor(u)  == IF isSales(u) THEN {u}
                      ELSE IF role[u] = "MANAGER" THEN Assignable \ {None} ELSE Assignable
MeetingSalesFor(u) == IF isSales(u) THEN {u} ELSE Assignable

\* getAccessibleAgencyOrThrow
ReadAgency(r, u) ==
    \E a \in listAgencies(u) : canEditAgency(u, a)
        /\ \E to \in Assignable : Begin(r, u, "agency", a, agencies[a], to)

ReadMeeting(r, u) ==
    \E m \in Scheduled : role[u] # "CALLCENTER"
        /\ canModifyMeeting(u, meetings[m])
        /\ \E to \in MeetingSalesFor(u) : Begin(r, u, "meeting", m, meetings[m], to)

ReadTask(r, u) ==
    \E t \in TaskIds : /\ tasks[t] # NoTask
                       /\ isManager(u) \/ (isSales(u) /\ tasks[t].assigned = u)
                       /\ \E to \in SalesUsers : Begin(r, u, "task", t, tasks[t], to)

Doing(r, about) == calls[r].about = about
End(r) == calls' = [calls EXCEPT ![r] = Idle]

\* Refused, or interrupted; or a note, which changes nothing else (addNote).
Abandon(r) == calls[r] # Idle /\ End(r) /\ UNCHANGED <<active, Rows>>

createAgency(u) ==
    /\ u \in active /\ role[u] # "CALLCENTER"
    /\ \E a \in AgencyIds, to \in AgencySalesFor(u) :
         /\ agencies[a] = Absent
         /\ agencies' = [agencies EXCEPT ![a] = [sales |-> to]]
    /\ UNCHANGED <<active, history, meetings, tasks, calls>>

\* The change of the sales user, with a history row when it differs from the one read.
SetSales(r) ==
    LET a == calls[r].id
    IN  /\ a \in Existing
        /\ agencies' = [agencies EXCEPT ![a].sales = calls[r].to]
        /\ IF calls[r].row.sales = calls[r].to
           THEN UNCHANGED history
           ELSE /\ Len(history[a]) < MaxHistory
                /\ history' = [history EXCEPT ![a] =
                                 Append(@, [from |-> calls[r].row.sales, to |-> calls[r].to])]

\* Other fields do not matter here.
updateAgency(r) ==
    /\ Doing(r, "agency")
    /\ SetSales(r)
    /\ End(r)
    /\ UNCHANGED <<active, meetings, tasks>>

assignSales(r) ==
    /\ Doing(r, "agency")
    /\ isManager(calls[r].user)
    /\ SetSales(r)
    /\ End(r)
    /\ UNCHANGED <<active, meetings, tasks>>

\* Tasks and notes go with the agency, presentations lose it.
deleteAgency(r) ==
    /\ Doing(r, "agency")
    /\ isManager(calls[r].user)
    /\ LET a == calls[r].id
       IN  /\ a \in Existing
           /\ agencies' = [agencies EXCEPT ![a] = Absent]
           /\ history' = [history EXCEPT ![a] = <<>>]
           /\ tasks' = [t \in TaskIds |-> IF tasks[t].agency = a THEN NoTask ELSE tasks[t]]
           /\ meetings' = [m \in MeetingIds |->
                IF meetings[m] = Free \/ meetings[m].agency # a THEN meetings[m]
                ELSE IF meetings[m].kind = "AGENCY" THEN Free
                ELSE [meetings[m] EXCEPT !.agency = None]]
    /\ End(r)
    /\ UNCHANGED active

\* AgenciesService.createMeeting: for the sales user that was read.
createAgencyMeeting(r) ==
    /\ Doing(r, "agency")
    /\ calls[r].id \in Existing
    /\ \E m \in MeetingIds :
         /\ meetings[m] = Free
         /\ meetings' = [meetings EXCEPT ![m] =
              [kind |-> "AGENCY", agency |-> calls[r].id, customer |-> None,
               sales |-> calls[r].row.sales, by |-> calls[r].user]]
    /\ End(r)
    /\ UNCHANGED <<active, agencies, history, tasks>>

createTask(r) ==
    /\ Doing(r, "agency")
    /\ calls[r].id \in Existing
    /\ \E t \in TaskIds, to \in IF isSales(calls[r].user) THEN {calls[r].user} ELSE SalesUsers :
         /\ tasks[t] = NoTask
         /\ tasks' = [tasks EXCEPT ![t] =
              [agency |-> calls[r].id, assigned |-> to, by |-> calls[r].user, done |-> FALSE]]
    /\ End(r)
    /\ UNCHANGED <<active, agencies, history, meetings>>

\* Whoever a task is assigned to may only change its status.
updateTask(r) ==
    /\ Doing(r, "task")
    /\ tasks[calls[r].id] # NoTask
    /\ \E done \in BOOLEAN :
         tasks' = [tasks EXCEPT ![calls[r].id].done = done,
                                ![calls[r].id].assigned = IF isManager(calls[r].user)
                                                          THEN calls[r].to ELSE @]
    /\ End(r)
    /\ UNCHANGED <<active, agencies, history, meetings>>

\* MeetingsService.createMeeting; the agency and the customer need only exist.
createMeeting(u) ==
    /\ u \in active /\ role[u] # "CALLCENTER"
    /\ \E m \in MeetingIds, kind \in Kinds, to \in MeetingSalesFor(u),
          a \in Existing \cup {None}, c \in CustomerIds \cup {None} :
         /\ meetings[m] = Free
         /\ kind = "OTHER" => a = None /\ c = None
         /\ meetings' = [meetings EXCEPT ![m] =
              [kind |-> kind, agency |-> a, customer |-> c, sales |-> to, by |-> u]]
    /\ UNCHANGED <<active, agencies, history, tasks, calls>>

\* The branch of updateMeeting for one kind; a meeting of another kind is another row.
Edit(r, kind, as, cs) ==
    /\ Doing(r, "meeting")
    /\ LET m == calls[r].id
       IN  /\ meetings[m] # Free
           /\ meetings[m].kind = kind
           /\ calls[r].row.kind = kind
           /\ \E a \in as, c \in cs, to \in {calls[r].to, meetings[m].sales} :
                meetings' = [meetings EXCEPT ![m].agency = a, ![m].customer = c, ![m].sales = to]
    /\ End(r)
    /\ UNCHANGED <<active, agencies, history, tasks>>

updateAgencyMeeting(r) == Edit(r, "AGENCY", Existing \cup {None}, CustomerIds \cup {None})
updatePresentation(r)  == Edit(r, "PRESENTATION", Existing \cup {None}, CustomerIds \cup {None})
updateOtherMeeting(r)  == Edit(r, "OTHER", {None}, {None})

deleteMeeting(r) ==
    /\ Doing(r, "meeting")
    /\ meetings[calls[r].id] # Free
    /\ meetings' = [meetings EXCEPT ![calls[r].id] = Free]
    /\ End(r)
    /\ UNCHANGED <<active, agencies, history, tasks>>

\* See Users.
setActive(u) ==
    /\ active' = IF u \in active THEN active \ {u} ELSE active \cup {u}
    /\ UNCHANGED <<Rows, calls>>

Next ==
    \/ \E u \in Users : createAgency(u) \/ createMeeting(u) \/ setActive(u)
    \/ \E r \in Requests, u \in Users : ReadAgency(r, u) \/ ReadMeeting(r, u) \/ ReadTask(r, u)
    \/ \E r \in Requests :
         \/ Abandon(r)
         \/ updateAgency(r) \/ assignSales(r) \/ deleteAgency(r) \/ createAgencyMeeting(r)
         \/ createTask(r) \/ updateTask(r) \/ deleteMeeting(r)
         \/ updateAgencyMeeting(r) \/ updatePresentation(r) \/ updateOtherMeeting(r)

Spec == Init /\ [][Next]_vars

-----------------------------------------------------------------------------
(* Properties.                                                             *)

\* Three places decide by themselves whose a meeting is: the query of the list, the check
\* of the single meeting, and the calendar.  They agree: a user opens what he is listed and
\* nothing else, and the calendar's links to meetings and agencies open.  So do agencies, whose
\* contact details are shown to whoever may change them.
OpensWhatIsShown ==
    \A u \in Users : /\ listMeetings(u) = {m \in MeetingIds : Opens(u, m)}
                     /\ LinksToMeeting(u) \subseteq listMeetings(u)
                     /\ \A t \in AgencyTasksShown(u) : tasks[t].agency \in listAgencies(u)
                     /\ listAgencies(u) = {a \in Existing : canSeeAgency(u, a)}
                     /\ getAgency(u) = {a \in Existing : canEditAgency(u, a)}
=============================================================================

-------------------------------- MODULE Office --------------------------------
(* The office components side by side: work items, IT tickets, the digital team    *)
(* and its map, the organisation chart, quality control, PDCA cases, accounts and  *)
(* notifications.  No two of them write a table of each other: "part" says which   *)
(* one moves in a behaviour, each from its own Init, and the others stay in theirs.*)
(*                                                                                 *)
(* Each constant is a record of the parameters of one component.  Where a          *)
(* component has several parts, they differ in these, or in how far they go.       *)
EXTENDS FiniteSets, Naturals, Sequences

CONSTANTS None,
          Backlog, Shared, Circles, Crew, \* of WorkTasks
          Support,                        \* of ItSupport
          Team,                           \* of DigitalTeam
          Tree, Positions,                \* of Organization
          Quality,                        \* of QualityControl
          Improvement,                    \* of Pdca
          Staff,                          \* of Accounts
          Landscape,                      \* of DigitalMap
          Notices                         \* of Notifications

VARIABLES part,
          work, workCalls, told,
          tickets, entries, pages,
          members, projects, teamCalls,
          nodes, nodeCalls,
          cards, items, documents, memo, seeding, deleted,
          cases, logs, caseCalls, failed,
          users, rows, works, accountCalls,
          document, images, mapCalls, drawn,
          notes, pushes, badge, since, emitted

workVars    == <<work, workCalls, told>>
ticketVars  == <<tickets, entries, pages>>
teamVars    == <<members, projects, teamCalls>>
nodeVars    == <<nodes, nodeCalls>>
qualityVars == <<cards, items, documents, memo, seeding, deleted>>
caseVars    == <<cases, logs, caseCalls, failed>>
accountVars == <<users, rows, works, accountCalls>>
mapVars     == <<document, images, mapCalls, drawn>>
noteVars    == <<notes, pushes, badge, since, emitted>>
vars == <<part, workVars, ticketVars, teamVars, nodeVars, qualityVars, caseVars, accountVars,
          mapVars, noteVars>>

------------------------------------------------------------------------------
(* The instances.                                                             *)

T == INSTANCE WorkTasks_proofs WITH
       Tasks <- Backlog.tasks, Projects <- Backlog.projects, Users <- Backlog.users, role <- Backlog.role,
       Followers <- Backlog.followers, Requests <- Backlog.requests, calls <- workCalls,
       MaxChecks <- Backlog.maxChecks, MaxFiles <- Backlog.maxFiles

F == INSTANCE WorkTasks_proofs WITH
       Tasks <- Shared.tasks, Projects <- Shared.projects, Users <- Shared.users,
       role <- Shared.role, Followers <- Shared.followers, Requests <- Shared.requests,
       calls <- workCalls, MaxChecks <- Shared.maxChecks, MaxFiles <- Shared.maxFiles

U == INSTANCE WorkTasks_proofs WITH
       Tasks <- Circles.tasks, Projects <- Circles.projects, Users <- Circles.users,
       role <- Circles.role, Followers <- Circles.followers, Requests <- Circles.requests,
       calls <- workCalls, MaxChecks <- Circles.maxChecks, MaxFiles <- Circles.maxFiles

P == INSTANCE WorkTasks_proofs WITH
       Tasks <- Crew.tasks, Projects <- Crew.projects, Users <- Crew.users,
       role <- Crew.role, Followers <- Crew.followers, Requests <- Crew.requests,
       calls <- workCalls, MaxChecks <- Crew.maxChecks, MaxFiles <- Crew.maxFiles

I == INSTANCE ItSupport WITH
       Tickets <- Support.tickets, Users <- Support.users, role <- Support.role,
       Pages <- Support.pages, FileLimit <- Support.fileLimit, MaxEntries <- Support.maxEntries

D == INSTANCE DigitalTeam WITH
       Members <- Team.members, Projects <- Team.projects, Accounts <- Team.accounts,
       Requests <- Team.requests, calls <- teamCalls, MaxSaves <- Team.maxSaves

O(chart) == INSTANCE Organization WITH
       Nodes <- chart.nodes, People <- chart.people, Requests <- chart.requests,
       calls <- nodeCalls, MaxVersion <- chart.maxVersion

Q == INSTANCE QualityControl WITH
       Cards <- Quality.cards, Codes <- Quality.codes, Items <- Quality.items,
       Titles <- Quality.titles, Documents <- Quality.documents,
       DEFAULT_CARDS <- Quality.defaultCards,
       DEFAULT_QUALITY_CHECKLISTS <- Quality.defaultChecklists

C == INSTANCE Pdca WITH
       Cases <- Improvement.cases, Users <- Improvement.users, role <- Improvement.role,
       Requests <- Improvement.requests, Phases <- Improvement.phases, calls <- caseCalls

A == INSTANCE Accounts WITH
       Users <- Staff.users, Roles <- Staff.roles, Rows <- Staff.rows, kind <- Staff.kind,
       Works <- Staff.works, Requests <- Staff.requests, Tokens <- Staff.tokens,
       calls <- accountCalls

M == INSTANCE DigitalMap WITH
       Drawings <- Landscape.drawings, Images <- Landscape.images,
       Requests <- Landscape.requests, calls <- mapCalls, history <- drawn,
       MaxVersion <- Landscape.maxVersion

B == INSTANCE Notifications WITH
       Notes <- Notices.notes, Users <- Notices.users, Pushes <- Notices.pushes

\* The components' assumptions on their parameters.
ASSUME OfficeParameters ==
    /\ T!WorkAssumption /\ F!WorkAssumption /\ U!WorkAssumption /\ P!WorkAssumption
    /\ I!ItAssumption /\ D!DigitalAssumption
    /\ O(Tree)!OrganizationAssumption /\ O(Positions)!OrganizationAssumption /\ Q!QualityAssumption
    /\ C!PdcaAssumption /\ A!AccountsAssumption /\ M!DigitalMapAssumption
    /\ B!NotificationsAssumption

------------------------------------------------------------------------------
(* The composition.                                                           *)

Parts == {"work", "files", "circles", "projects", "tickets", "longTickets", "team", "tree", "positions", "quality", "cases", "accounts", "map", "notes"}

Init ==
    /\ part \in Parts
    /\ CASE part = "files"    -> F!Init
         [] part = "circles"  -> U!Init
         [] part = "projects" -> P!Init
         [] OTHER             -> T!Init
    /\ I!Init
    /\ D!Init
    /\ (IF part = "positions" THEN O(Positions)!Init ELSE O(Tree)!Init)
    /\ Q!Init /\ C!Init /\ M!Init /\ B!Init
    /\ A!Init /\ (part # "accounts" => A!validate("u"))

WorkStep ==
    /\ part = "work" /\ T!Next
    /\ UNCHANGED <<part, ticketVars, teamVars, nodeVars, qualityVars, caseVars, accountVars, mapVars, noteVars>>

FilesStep ==
    /\ part = "files" /\ F!Next
    /\ UNCHANGED <<part, ticketVars, teamVars, nodeVars, qualityVars, caseVars, accountVars, mapVars, noteVars>>

\* Of items that are neither archived nor assigned; "work" has those.
CirclesStep ==
    /\ part = "circles" /\ U!Next
    /\ \A t \in U!Items(work') : ~U!Row(work', t).archived /\ U!Row(work', t).assignee = None
    /\ UNCHANGED <<part, ticketVars, teamVars, nodeVars, qualityVars, caseVars, accountVars, mapVars, noteVars>>

ProjectsStep ==
    /\ part = "projects" /\ P!Next
    /\ UNCHANGED <<part, ticketVars, teamVars, nodeVars, qualityVars, caseVars, accountVars, mapVars, noteVars>>

\* Short lives of tickets, with every page in use.
TicketsStep ==
    /\ part = "tickets" /\ I!Next
    /\ \A t \in Support.tickets : Len(entries'[t]) <= 3
    /\ UNCHANGED <<part, workVars, teamVars, nodeVars, qualityVars, caseVars, accountVars, mapVars, noteVars>>

\* Longer lives, with one page.
LongTicketsStep ==
    /\ part = "longTickets" /\ I!Next
    /\ Cardinality({p \in Support.pages : pages'[p] # I!Blank}) <= 1
    /\ UNCHANGED <<part, workVars, teamVars, nodeVars, qualityVars, caseVars, accountVars, mapVars, noteVars>>

TeamStep ==
    /\ part = "team" /\ D!Next
    /\ UNCHANGED <<part, workVars, ticketVars, nodeVars, qualityVars, caseVars, accountVars, mapVars, noteVars>>

TreeStep ==
    /\ part = "tree" /\ O(Tree)!Next
    /\ UNCHANGED <<part, workVars, ticketVars, teamVars, qualityVars, caseVars, accountVars, mapVars, noteVars>>

PositionsStep ==
    /\ part = "positions" /\ O(Positions)!Next
    /\ UNCHANGED <<part, workVars, ticketVars, teamVars, qualityVars, caseVars, accountVars, mapVars, noteVars>>

QualityStep ==
    /\ part = "quality" /\ Q!Next
    /\ UNCHANGED <<part, workVars, ticketVars, teamVars, nodeVars, caseVars, accountVars, mapVars, noteVars>>

CasesStep ==
    /\ part = "cases" /\ C!Next
    /\ UNCHANGED <<part, workVars, ticketVars, teamVars, nodeVars, qualityVars, accountVars, mapVars, noteVars>>

AccountsStep ==
    /\ part = "accounts" /\ A!Next
    /\ UNCHANGED <<part, workVars, ticketVars, teamVars, nodeVars, qualityVars, caseVars, mapVars, noteVars>>

MapStep ==
    /\ part = "map" /\ M!Next
    /\ UNCHANGED <<part, workVars, ticketVars, teamVars, nodeVars, qualityVars, caseVars, accountVars, noteVars>>

NotesStep ==
    /\ part = "notes" /\ B!Next
    /\ UNCHANGED <<part, workVars, ticketVars, teamVars, nodeVars, qualityVars, caseVars, accountVars, mapVars>>

Next == \/ WorkStep \/ FilesStep \/ CirclesStep \/ ProjectsStep \/ TicketsStep \/ LongTicketsStep
        \/ TeamStep \/ TreeStep \/ PositionsStep \/ QualityStep \/ CasesStep
        \/ AccountsStep \/ MapStep \/ NotesStep

Spec == Init /\ [][Next]_vars

------------------------------------------------------------------------------
(* Properties, each of the part it is about.                                  *)

\* The rows of every component have the shape of their tables.
TypeOK ==
    /\ part = "work" => T!TypeOK
    /\ part = "files" => F!TypeOK
    /\ part = "circles" => U!TypeOK
    /\ part = "projects" => P!TypeOK
    /\ part \in {"tickets", "longTickets"} => I!TypeOK
    /\ part = "team" => D!TypeOK
    /\ part = "tree" => O(Tree)!TypeOK
    /\ part = "positions" => O(Positions)!TypeOK
    /\ part = "quality" => Q!TypeOK
    /\ part = "cases" => C!TypeOK
    /\ part = "accounts" => A!TypeOK
    /\ part = "map" => M!TypeOK
    /\ part = "notes" => B!TypeOK

\* A done item has its checklist, subtasks and blockers done, although each of these rows has
\* a version of its own (tasks.service.ts).
CompletedIsFinished ==
    /\ part = "work" => T!CompletedIsFinished
    /\ part = "files" => F!CompletedIsFinished
    /\ part = "circles" => U!CompletedIsFinished
    /\ part = "projects" => P!CompletedIsFinished

\* Blockers and subtasks form no circle, whoever adds them at the same time (tasks.service.ts).
NoCircularWork ==
    /\ part = "work" => T!NoCircularWork
    /\ part = "circles" => U!NoCircularWork

\* A page of a ticket, put together from two reads, shows one state of it (it-support.service.ts).
PageShowsOneVersion ==
    part \in {"tickets", "longTickets"} => I!PageShowsOneVersion

\* The files of a ticket stay within the limit and its timestamps agree with its status,
\* however often it is resolved and reopened (it-support.service.ts).
TicketIsConsistent ==
    part \in {"tickets", "longTickets"} => I!TicketIsConsistent

\* No tree write makes a circle or an orphan of records it has read, and an acknowledgement
\* is of the present revision of a position, by its present occupant (org-chart.service.ts).
\* No box of the digital map holds itself, and its images exist (digital-map.service.ts).
ChartIsSound ==
    /\ part = "tree" => O(Tree)!NoCyclesOrOrphans
    /\ part = "positions" => O(Positions)!AcknowledgedByOccupant
    /\ part = "map" => M!MapCanBeDrawn

\* A deleted default item does not come back while the process lives
\* (quality-control.service.ts).
DeletedStaysDeleted == part = "quality" => Q!DeletedStaysDeleted

\* Of several moves of a case at once none loses its log entry (pdca.service.ts).
PhaseIsLogged == part = "cases" => C!PhaseIsLogged

\* Work never loses who created it, also while that account is deleted (users.controller.ts).
WorkKeepsItsCreator == part = "accounts" => A!WorkKeepsItsCreator

\* The unread number in a browser is one the user had since his last changes, although counts
\* may arrive out of order; nobody is told of a work item he may not read, unless a bulk change
\* has just taken it from him (notifications.service.ts, tasks.service.ts).
NotificationsAreSound ==
    /\ part = "notes" => B!BadgeIsRecent
    /\ part = "files" => F!ToldIsFiltered
    /\ part = "projects" => P!ToldIsFiltered

\* "Assignment/change/comment/file notifications ... are persisted transactionally after access
\* filtering" (docs/work-management.md): who is told of an item may read it.
ToldMayRead == part = "projects" => P!ToldMayRead

\* Whoever gets a project of the digital team is active when it is saved
\* (digital-team.service.ts).
NewAssignmentsAreActive == D!NewAssignmentsAreActive

\* Tickets and the map implement VersionedRecord: nobody saves over a change that the page
\* he works on does not show (it-support.service.ts, digital-map.service.ts).
VersionedRecords == I!ImplementsRecord /\ M!ImplementsRecord
=============================================================================

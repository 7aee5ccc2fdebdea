------------------------------ MODULE WorkTasks ------------------------------
(***************************************************************************)
(* Work items and projects (TasksService, work-rules).                     *)
(*                                                                         *)
(* Every change is a transaction that takes an advisory lock of its        *)
(* project, or of all items without one, reads the actor, the project and  *)
(* the items, checks, writes and commits.  An action of this module is the *)
(* part from the checks to the commit; Lock is the part before.  "read" is *)
(* what the transaction has read, and is all its checks look at.           *)
(*                                                                         *)
(* Every request names the version of the item its page has shown.  A      *)
(* request with an older version is refused and changes nothing; one with  *)
(* the present version may come at any time: versions are left out.  So    *)
(* are titles, dates, priorities, labels, links to agencies, customers and *)
(* leads with the rights that follow from them, the bodies of comments,    *)
(* time entries and files, preview accounts and deactivated ones, and the  *)
(* departments of projects.  An open status stands for TODO, IN_PROGRESS,  *)
(* BLOCKED and IN_REVIEW.                                                  *)
(***************************************************************************)
EXTENDS FiniteSets, Naturals

CONSTANTS Tasks, Projects, Users, role,
          Followers, \* users who follow items
          Requests,  \* requests of users, each reused when it has ended
          None,
          MaxChecks, \* bound on the checklist items of an item
          MaxFiles   \* files an item may have (10)

Statuses       == {"OPEN", "DONE", "CANCELLED"}
closedStatuses == {"DONE", "CANCELLED"}
MemberRoles    == {"LEAD", "MEMBER", "VIEWER"}

WorkAssumption ==
    /\ None \notin Tasks \cup Projects \cup Users
    /\ role \in [Users -> {"ADMIN", "MANAGER", "SALES", "CALLCENTER", "ACCOUNTING"}]
    /\ Followers \subseteq Users
    /\ MaxChecks \in Nat /\ MaxFiles \in Nat

VARIABLES work,  \* the rows: [tasks, blockers, projects]
          calls, \* the transactions under way
          told   \* <<user, item>> of the Notification rows the last step has written

vars == <<work, calls, told>>

\* "checks": finished and unfinished checklist items.
Task == [project: Projects \cup {None}, parent: Tasks \cup {None}, status: Statuses,
         assignee: Users \cup {None}, creator: Users, archived: BOOLEAN,
         checks: [open: 0..MaxChecks, done: 0..MaxChecks],
         files: 0..MaxFiles, watchers: SUBSET Followers]

Project == [owner: Users, member: [Users -> MemberRoles \cup {None}], archived: BOOLEAN]

Absent == [project |-> "absent"]
NoProject == [owner |-> None]

\* WorkDependency: <<task, blocker>>
Work == [tasks: [Tasks -> Task \cup {Absent}], blockers: SUBSET (Tasks \X Tasks),
         projects: [Projects -> Project \cup {NoProject}]]

Idle == [user |-> None]
Call == [user: Users, key: Projects \cup {None}, read: Work]

TypeOK ==
    /\ work \in Work
    /\ calls \in [Requests -> Call \cup {Idle}]
    /\ told \subseteq Users \X Tasks

Init ==
    /\ work = [tasks |-> [t \in Tasks |-> Absent], blockers |-> {},
               projects |-> [p \in Projects |-> NoProject]]
    /\ calls = [r \in Requests |-> Idle]
    /\ told = {}

-----------------------------------------------------------------------------
(* Rights, in a state w of the rows.                                       *)

Items(w)    == {t \in Tasks : w.tasks[t] # Absent}
Row(w, t)   == w.tasks[t]
Children(w, t) == {c \in Items(w) : Row(w, c).parent = t}
Open(w, t)  == Row(w, t).status \notin closedStatuses
manager(u)  == role[u] \in {"ADMIN", "MANAGER"}
Member(w, p, u) == w.projects[p].member[u]

\* projectWhere
ReadsProject(w, u, p) ==
    /\ w.projects[p] # NoProject
    /\ IF role[u] = "CALLCENTER"
       THEN \E t \in Items(w) : Row(w, t).project = p /\ Row(w, t).assignee = u
       ELSE manager(u) \/ w.projects[p].owner = u \/ Member(w, p, u) # None

Concerned(w, u, t) == u \in {Row(w, t).assignee, Row(w, t).creator}

\* accessWhere
Reads(w, u, t) ==
    /\ t \in Items(w)
    /\ IF role[u] = "CALLCENTER" THEN Row(w, t).assignee = u
       ELSE \/ manager(u)
            \/ Row(w, t).project # None /\ ReadsProject(w, u, Row(w, t).project)
            \/ /\ Row(w, t).project = None
               /\ \/ Concerned(w, u, t)
                  \/ Row(w, t).parent # None /\ Concerned(w, u, Row(w, t).parent)

canManageProject(w, u, p) ==
    /\ role[u] # "CALLCENTER"
    /\ manager(u) \/ w.projects[p].owner = u \/ Member(w, p, u) = "LEAD"

InArchive(w, t) == \/ Row(w, t).archived
                   \/ Row(w, t).project # None /\ w.projects[Row(w, t).project].archived

\* Those who may be given work of the project.
Assignable(w, p) ==
    {u \in Users : p # None => w.projects[p].owner = u \/ Member(w, p, u) \in {"LEAD", "MEMBER"}}

canEdit(w, u, t) ==
    /\ ~InArchive(w, t)
    /\ IF role[u] = "CALLCENTER" THEN Row(w, t).assignee = u
       ELSE \/ manager(u)
            \/ Row(w, t).project # None /\ u \in Assignable(w, Row(w, t).project)
            \/ /\ Row(w, t).project = None
               /\ \/ Concerned(w, u, t)
                  \/ Row(w, t).parent # None /\ Concerned(w, u, Row(w, t).parent)

canArchive(w, u, t) ==
    /\ role[u] # "CALLCENTER"
    /\ \/ manager(u)
       \/ Row(w, t).project # None /\ canManageProject(w, u, Row(w, t).project)
       \/ Row(w, t).project = None /\ Row(w, t).creator = u

-----------------------------------------------------------------------------
(* The transaction.                                                        *)

\* What a transaction with the lock of the project, or of the items without one, reads.
View(key) ==
    [tasks    |-> [t \in Tasks |-> IF work.tasks[t].project = key THEN work.tasks[t] ELSE Absent],
     blockers |-> {e \in work.blockers : work.tasks[e[1]].project = key},
     projects |-> [p \in Projects |-> IF p = key THEN work.projects[p] ELSE NoProject]]

Start(r, u, key) ==
    /\ calls[r] = Idle
    /\ calls' = [calls EXCEPT ![r] = [user |-> u, key |-> key, read |-> View(key)]]
    /\ told' = {}
    /\ UNCHANGED work

Lock(r, u, key) ==
    /\ \A s \in Requests : calls[s] # Idle => calls[s].key # key
    /\ Start(r, u, key)

Acts(r)  == calls[r] # Idle
Actor(r) == calls[r].user
Seen(r)  == calls[r].read

\* The commit releases the lock.
Commit(r, tasks, blockers, projects, users) ==
    /\ work' = [tasks |-> tasks, blockers |-> blockers, projects |-> projects]
    /\ told' = users
    /\ calls' = [calls EXCEPT ![r] = Idle]

\* A refusal or a failing statement.
Rollback(r) ==
    /\ Acts(r)
    /\ Commit(r, work.tasks, work.blockers, work.projects, {})

Candidates(row, actor) == (({row.assignee, row.creator} \cup row.watchers) \cap Users) \ {actor}

\* notificationAudience: the users as the transaction finds them; "asked" are the rows
\* it has been handed.
Audience(w, asked, t, u) ==
    IF asked[t].project = None THEN Reads(w, u, t)
    ELSE /\ manager(u) \/ w.projects[asked[t].project].owner = u
                       \/ Member(w, asked[t].project, u) # None
         /\ role[u] = "CALLCENTER" => asked[t].assignee = u

\* Watchers are rows of their own, changed without the lock: those of the moment stay.
Watched(t, row) == [row EXCEPT !.watchers = work.tasks[t].watchers]

\* log, for one item whose row is now "row".
Logged(r, t, row) ==
    LET w == [Seen(r) EXCEPT !.tasks[t] = row]
    IN  {<<u, t>> : u \in {u \in Candidates(row, Actor(r)) : Audience(w, w.tasks, t, u)}}

Writes(r, t, row) ==
    Commit(r, [work.tasks EXCEPT ![t] = row], work.blockers, work.projects, Logged(r, t, row))

\* mutation: one item changes.
Mutate(r, t, row) ==
    /\ canEdit(Seen(r), Actor(r), t)
    /\ Writes(r, t, Watched(t, row))

\* ... without a notification.
MutateQuietly(r, t, row) ==
    /\ canEdit(Seen(r), Actor(r), t)
    /\ Commit(r, [work.tasks EXCEPT ![t] = Watched(t, row)], work.blockers, work.projects, {})

Readable(r) == {t \in Items(Seen(r)) : Reads(Seen(r), Actor(r), t)}

-----------------------------------------------------------------------------
(* Projects.                                                               *)

Members == [Users -> MemberRoles \cup {None}]

\* write: the advisory lock of an id nobody knows yet keeps nobody out.
createProject(u) ==
    \E p \in Projects, member \in Members :
        /\ work.projects[p] = NoProject
        /\ member[u] = None
        /\ work' = [work EXCEPT !.projects[p] = [owner |-> u, member |-> member, archived |-> FALSE]]
        /\ told' = {}
        /\ UNCHANGED calls

SavesProject(r, project) ==
    Commit(r, work.tasks, work.blockers, [work.projects EXCEPT ![calls[r].key] = project], {})

ManagesProject(r) ==
    /\ Acts(r)
    /\ calls[r].key # None
    /\ ReadsProject(Seen(r), Actor(r), calls[r].key)
    /\ canManageProject(Seen(r), Actor(r), calls[r].key)

\* validateProject: whoever has open work keeps the right to do it.
KeepsAssignees(r, project) ==
    \A t \in Items(Seen(r)) :
        LET row == Row(Seen(r), t)
        IN  ~row.archived /\ row.status = "OPEN" /\ row.assignee # None =>
                row.assignee = project.owner \/ project.member[row.assignee] \in {"LEAD", "MEMBER"}

updateProject(r) ==
    /\ ManagesProject(r)
    /\ \E member \in Members :
         LET before == Seen(r).projects[calls[r].key]
             after  == [before EXCEPT !.member = member]
         IN  /\ ~before.archived
             /\ member[before.owner] = None
             /\ KeepsAssignees(r, after)
             /\ SavesProject(r, after)

archiveProject(r) ==
    /\ ManagesProject(r)
    /\ \E archived \in BOOLEAN :
         SavesProject(r, [Seen(r).projects[calls[r].key] EXCEPT !.archived = archived])

-----------------------------------------------------------------------------
(* Items.                                                                  *)

\* fields: an assignee who is already assigned is not looked at.
MayBeAssigned(r, u, before) == u \in {None, before} \cup Assignable(Seen(r), calls[r].key)

create(r) ==
    /\ Acts(r)
    /\ calls[r].key # None =>
         /\ ReadsProject(Seen(r), Actor(r), calls[r].key)
         /\ ~Seen(r).projects[calls[r].key].archived
         /\ \/ canManageProject(Seen(r), Actor(r), calls[r].key)
            \/ Member(Seen(r), calls[r].key, Actor(r)) = "MEMBER"
    /\ \E t \in Tasks, parent \in Readable(r) \cup {None}, u \in Users \cup {None},
          status \in Statuses :
         LET row == [project |-> calls[r].key, parent |-> parent, status |-> status,
                     assignee |-> u, creator |-> Actor(r), archived |-> FALSE,
                     checks |-> [open |-> 0, done |-> 0], files |-> 0, watchers |-> {}]
         IN  /\ work.tasks[t] = Absent
             /\ parent # None => /\ canEdit(Seen(r), Actor(r), parent)
                                 /\ Row(Seen(r), parent).parent = None
                                 /\ Open(Seen(r), parent)
             /\ MayBeAssigned(r, u, None)
             /\ Writes(r, t, row)

Blockers(w, t)   == {e[2] : e \in {e \in w.blockers : e[1] = t}}
Dependents(w, t) == {e[1] : e \in {e \in w.blockers : e[2] = t}}

canComplete(w, t) ==
    /\ \A b \in Blockers(w, t) \cup Children(w, t) : ~Open(w, b)
    /\ Row(w, t).checks.open = 0

\* Faulty variant: only the parent is looked at.
mayReopenChild(w, t) ==
    Row(w, t).parent # None => Row(w, Row(w, t).parent).status # "DONE"

mayReopen(w, t) ==
    /\ Row(w, t).parent # None => Row(w, Row(w, t).parent).status # "DONE"
    /\ \A d \in Dependents(w, t) : Row(w, d).status # "DONE"

update(r) ==
    /\ Acts(r)
    /\ \E t \in Readable(r), status \in Statuses, u \in Users \cup {None} :
         LET w == Seen(r)
         IN  /\ status = "DONE" => canComplete(w, t)
             /\ status = "OPEN" /\ ~Open(w, t) => mayReopen(w, t)
             /\ MayBeAssigned(r, u, Row(w, t).assignee)
             /\ Mutate(r, t, [Row(w, t) EXCEPT !.status = status, !.assignee = u])

archive(r) ==
    /\ Acts(r)
    /\ \E t \in Readable(r), archived \in BOOLEAN :
         LET w == Seen(r)
             row == [Row(w, t) EXCEPT !.archived = archived]
         IN  /\ canArchive(w, Actor(r), t)
             /\ calls[r].key # None => ~w.projects[calls[r].key].archived
             /\ IF archived
                THEN ~Open(w, t) /\ \A c \in Children(w, t) : Row(w, c).archived
                ELSE Row(w, t).parent # None => ~Row(w, Row(w, t).parent).archived
             /\ Writes(r, t, Watched(t, row))

\* Several items at once: those that are closed, or reopened, together do not wait for
\* each other.  The audience is that of the rows before the change.
bulk(r) ==
    /\ Acts(r)
    /\ \E ids \in SUBSET Readable(r), status \in Statuses \cup {None}, u \in Users \cup {None, "same"} :
         LET w     == Seen(r)
             After(t) == [Row(w, t) EXCEPT !.status = IF status = None THEN @ ELSE status,
                                           !.assignee = IF u = "same" THEN @ ELSE u]
             after == [t \in Tasks |-> IF t \in ids THEN Watched(t, After(t)) ELSE Row(w, t)]
             now   == [w EXCEPT !.tasks = after]
         IN  /\ ids # {}
             /\ \A t \in ids : canEdit(w, Actor(r), t)
             /\ status = "DONE" =>
                  \A t \in ids : /\ Row(w, t).checks.open = 0
                                 /\ \A b \in (Blockers(w, t) \cup Children(w, t)) \ ids : ~Open(w, b)
             /\ status = "OPEN" =>
                  \A t \in {t \in ids : ~Open(w, t)} :
                     \A d \in (Dependents(w, t) \cup ({Row(w, t).parent} \ {None})) \ ids :
                        Row(w, d).status # "DONE"
             /\ u # "same" => u \in {None} \cup Assignable(w, calls[r].key)
             /\ Commit(r, [t \in Tasks |-> IF t \in ids THEN after[t] ELSE work.tasks[t]],
                       work.blockers, work.projects,
                       {e \in Users \X ids :
                          /\ e[1] \in Candidates(after[e[2]], Actor(r))
                          /\ Audience(now, w.tasks, e[2], e[1])})

-----------------------------------------------------------------------------
(* Parts of items.                                                         *)

comment(r) ==
    /\ Acts(r)
    /\ \E t \in Readable(r) : Mutate(r, t, Row(Seen(r), t))

\* A time entry is logged without a notification.
time(r) ==
    /\ Acts(r)
    /\ \E t \in Readable(r) : MutateQuietly(r, t, Row(Seen(r), t))

\* A new item, or one that is ticked or unticked.
checklist(r) ==
    /\ Acts(r)
    /\ \E t \in Readable(r), done \in BOOLEAN, new \in BOOLEAN :
         LET row == Row(Seen(r), t)
             c   == row.checks
         IN  /\ row.status = "DONE" => done
             /\ IF new THEN c.open + c.done < MaxChecks
                ELSE IF done THEN c.open > 0 ELSE c.done > 0
             /\ MutateQuietly(r, t, [row EXCEPT !.checks =
                  [open |-> IF done THEN c.open - (IF new THEN 0 ELSE 1) ELSE c.open + 1,
                   done |-> IF done THEN c.done + 1 ELSE c.done - (IF new THEN 0 ELSE 1)]])

\* An item waits for its blockers and, once it has them, for its subtasks.
Edges(w) == w.blockers \cup {<<Row(w, t).parent, t>> : t \in {t \in Items(w) : Row(w, t).parent # None}}

\* Whatever set holds "from" and is closed under the edges holds "to".
Reaches(edges, from, to) ==
    \A S \in SUBSET Tasks :
        (from \in S /\ \A e \in edges : e[1] \in S => e[2] \in S) => to \in S

\* Faulty variant: subtasks are not looked at.
wouldCycleOfBlockers(edges, t, blocker) == Reaches(edges \cap work.blockers, blocker, t)

wouldCycle(edges, t, blocker) == Reaches(edges, blocker, t)

dependency(r) ==
    /\ Acts(r)
    /\ \E t, b \in Readable(r) :
         LET w == Seen(r)
         IN  /\ ~Row(w, b).archived
             /\ Row(w, t).status = "DONE" => ~Open(w, b)
             /\ ~wouldCycle(Edges(w), t, b)
             /\ canEdit(w, Actor(r), t)
             /\ Commit(r, work.tasks, work.blockers \cup {<<t, b>>}, work.projects,
                       Logged(r, t, Watched(t, Row(w, t))))

upload(r) ==
    /\ Acts(r)
    /\ \E t \in Readable(r) :
         /\ Row(Seen(r), t).files < MaxFiles
         /\ Mutate(r, t, [Row(Seen(r), t) EXCEPT !.files = @ + 1])

removePart(r) ==
    /\ Acts(r)
    /\ \E t \in Readable(r) :
         LET row == Row(Seen(r), t)
         IN  \/ \E b \in Blockers(Seen(r), t) :
                  /\ canEdit(Seen(r), Actor(r), t)
                  /\ Commit(r, work.tasks, work.blockers \ {<<t, b>>}, work.projects, {})
             \/ row.checks.open > 0 /\ MutateQuietly(r, t, [row EXCEPT !.checks.open = @ - 1])
             \/ row.checks.done > 0 /\ MutateQuietly(r, t, [row EXCEPT !.checks.done = @ - 1])
             \/ row.files > 0 /\ MutateQuietly(r, t, [row EXCEPT !.files = @ - 1])

\* Without a lock.
watch(u) ==
    \E t \in Items(work), watching \in BOOLEAN :
        /\ Reads(work, u, t)
        /\ work' = [work EXCEPT !.tasks[t].watchers = IF watching THEN @ \cup {u} ELSE @ \ {u}]
        /\ told' = {}
        /\ UNCHANGED calls

Next ==
    \/ \E r \in Requests, u \in Users, key \in Projects \cup {None} : Lock(r, u, key)
    \/ \E r \in Requests : \/ updateProject(r) \/ archiveProject(r)
                           \/ create(r) \/ update(r) \/ archive(r) \/ bulk(r)
                           \/ comment(r) \/ time(r) \/ checklist(r) \/ dependency(r)
                           \/ upload(r) \/ removePart(r) \/ Rollback(r)
    \/ \E u \in Users : createProject(u)
    \/ \E u \in Followers : watch(u)

Spec == Init /\ [][Next]_vars

-----------------------------------------------------------------------------
(* Properties.                                                             *)

\* "DONE requires finished checklist items, subtasks and dependencies ... Reopening
\* blocking work first requires reopening completed dependent work" (docs/work-management.md).
\* The rows involved are several, each with a version of its own: only the lock keeps
\* requests about different items of one project from breaking this together.
CompletedIsFinished ==
    \A t \in Items(work) : Row(work, t).status = "DONE" => canComplete(work, t)

\* Dependencies and subtasks form no circle in which nothing could ever be completed.
NoCircularWork ==
    \A e \in Edges(work) : ~Reaches(Edges(work), e[2], e[1])

\* "Notifications ... are persisted transactionally after access filtering"
\* (docs/work-management.md): whoever is told of an item may read it as it is now.  A bulk change
\* filters by the rows of before, and breaks this.
ToldMayRead == \A e \in told : e[2] \in Items(work) /\ Reads(work, e[1], e[2])

\* What does hold: only whoever reads just what is assigned to him may be told of an item he
\* may not read any more, and only in a project.
ToldIsFiltered ==
    \A e \in told :
        /\ e[2] \in Items(work)
        /\ \/ Reads(work, e[1], e[2])
           \/ role[e[1]] = "CALLCENTER" /\ Row(work, e[2]).project # None
=============================================================================

----------------------------- MODULE DigitalTeam -----------------------------
(***************************************************************************)
(* The catalog of the digital team (DigitalTeamService): members, and      *)
(* projects whose owner and work streams are assigned to members.          *)
(*                                                                         *)
(* Every write takes one advisory lock, reads what it needs, compares the  *)
(* version of the page it was submitted from, and writes.  As in           *)
(* WorkTasks, Lock is the part up to the reads and each action the rest.   *)
(* Work streams and external factors, which are stored in the project and  *)
(* name members in the same way, are one assignment "stream".  The version *)
(* of a project is the number of its activities.  Left out: names, dates,  *)
(* links, the counters derived from work streams, and the cursor.          *)
(***************************************************************************)
EXTENDS Naturals, Sequences

CONSTANTS Members, Projects,
          Accounts,  \* active CRM accounts that a member may be linked to
          Requests, None,
          MaxSaves   \* bound on the saves of one member or project

Slots == {"owner", "stream"}

DigitalAssumption == None \notin Members \cup Accounts /\ MaxSaves \in Nat \ {0}

VARIABLES members, projects,
          calls \* the write transactions: what the lock's holder has read

vars == <<members, projects, calls>>

Member == [active: BOOLEAN, account: Accounts \cup {None}, version: 1..MaxSaves]

Project == [assigned: [Slots -> Members \cup {None}],
            activities: Seq({"CREATED", "UPDATED", "NOTE"})]

Absent == [version |-> 0]
Blank  == [activities |-> <<>>]
Idle   == [state |-> "idle"]

version(project) == Len(project.activities)

TypeOK ==
    /\ \A m \in Members : members[m] = Absent \/ members[m] \in Member
    /\ \A p \in Projects : projects[p] = Blank \/ projects[p] \in Project
    /\ DOMAIN calls = Requests

Init ==
    /\ members = [m \in Members |-> Absent]
    /\ projects = [p \in Projects |-> Blank]
    /\ calls = [r \in Requests |-> Idle]

-----------------------------------------------------------------------------

\* "shown" are the versions on the page the request is submitted from.
Submit(r) ==
    /\ calls[r].state = "idle"
    /\ calls' = [calls EXCEPT ![r] =
         [state |-> "sent", shown |-> [m \in Members |-> members[m].version],
          shownProjects |-> [p \in Projects |-> version(projects[p])]]]
    /\ UNCHANGED <<members, projects>>

Start(r) ==
    /\ calls[r].state = "sent"
    /\ calls' = [calls EXCEPT ![r] =
         [state |-> "writing", shown |-> calls[r].shown, shownProjects |-> calls[r].shownProjects,
          members |-> members, projects |-> projects]]
    /\ UNCHANGED <<members, projects>>

\* Faulty variant: writes are not serialised.
LockNothing(r) == Start(r)

\* write: pg_advisory_xact_lock, and the reads after it.
Lock(r) == (\A s \in Requests : calls[s].state # "writing") /\ Start(r)

Writes(r) == calls[r].state = "writing"
Commit(r) == calls' = [calls EXCEPT ![r] = Idle]

\* A conflict or a refusal.
Rollback(r) == Writes(r) /\ Commit(r) /\ UNCHANGED <<members, projects>>

\* The unique key on userId, which also counts rows committed since the reads.
Free(account, m) ==
    account = None \/ \A n \in Members \ {m} : members[n] = Absent \/ members[n].account # account

createMember(r) ==
    /\ Writes(r)
    /\ \E m \in Members, active \in BOOLEAN, account \in Accounts \cup {None} :
         /\ members[m] = Absent
         /\ Free(account, m)
         /\ members' = [members EXCEPT ![m] = [active |-> active, account |-> account, version |-> 1]]
    /\ Commit(r)
    /\ UNCHANGED projects

updateMember(r) ==
    /\ Writes(r)
    /\ \E m \in Members, active \in BOOLEAN, account \in Accounts \cup {None} :
         LET seen == calls[r].members[m]
         IN  /\ seen # Absent
             /\ seen.version = calls[r].shown[m]
             /\ members[m].version = calls[r].shown[m]
             /\ seen.version < MaxSaves
             /\ Free(account, m)
             /\ members' = [members EXCEPT ![m] =
                  [active |-> active, account |-> account, version |-> seen.version + 1]]
    /\ Commit(r)
    /\ UNCHANGED projects

\* memberReferences: an inactive member keeps what was his, and is given nothing new.
memberReferences(r, assigned, before) ==
    \A s \in Slots : assigned[s] # None =>
        /\ calls[r].members[assigned[s]] # Absent
        /\ calls[r].members[assigned[s]].active \/ assigned[s] = before[s]

Unassigned == [s \in Slots |-> None]

createProject(r) ==
    /\ Writes(r)
    /\ \E p \in Projects, assigned \in [Slots -> Members \cup {None}] :
         /\ projects[p] = Blank
         /\ memberReferences(r, assigned, Unassigned)
         /\ projects' = [projects EXCEPT ![p] = [assigned |-> assigned, activities |-> <<"CREATED">>]]
    /\ Commit(r)
    /\ UNCHANGED members

\* The row that was read has the version of the page, and the conditional update finds it.
Current(r, p) ==
    /\ calls[r].projects[p] # Blank
    /\ version(calls[r].projects[p]) = calls[r].shownProjects[p]
    /\ version(projects[p]) = calls[r].shownProjects[p]
    /\ version(projects[p]) < MaxSaves

updateProject(r) ==
    /\ Writes(r)
    /\ \E p \in Projects, assigned \in [Slots -> Members \cup {None}] :
         /\ Current(r, p)
         /\ memberReferences(r, assigned, calls[r].projects[p].assigned)
         /\ projects' = [projects EXCEPT ![p] =
              [assigned |-> assigned, activities |-> Append(@.activities, "UPDATED")]]
    /\ Commit(r)
    /\ UNCHANGED members

addUpdate(r) ==
    /\ Writes(r)
    /\ \E p \in Projects :
         /\ Current(r, p)
         /\ projects' = [projects EXCEPT ![p].activities = Append(@, "NOTE")]
    /\ Commit(r)
    /\ UNCHANGED members

Next ==
    \E r \in Requests :
        \/ Submit(r) \/ Lock(r) \/ Rollback(r)
        \/ createMember(r) \/ updateMember(r)
        \/ createProject(r) \/ updateProject(r) \/ addUpdate(r)

Spec == Init /\ [][Next]_vars

-----------------------------------------------------------------------------
(* Properties.                                                             *)

\* "Serialize member deactivation with assignment validation across projects"
\* (digital-team.service.ts): whoever gets an assignment he had not before is active when
\* it is saved.  A project and a member have versions of their own, which tell nothing of
\* each other.
NewAssignmentsAreActive ==
    [][\A p \in Projects, s \in Slots :
         LET m == projects'[p].assigned[s]
         IN  projects'[p] # Blank /\ m # None =>
               \/ projects[p] # Blank /\ projects[p].assigned[s] = m
               \/ members'[m].active]_vars
=============================================================================

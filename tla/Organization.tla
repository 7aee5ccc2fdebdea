----------------------------- MODULE Organization -----------------------------
(***************************************************************************)
(* The organisation chart (OrgChartService): a tree of records that are    *)
(* drafted, approved, occupied, acknowledged by the occupant and archived. *)
(*                                                                         *)
(* Every write takes one advisory lock, reads the record, compares the     *)
(* version of the page it was submitted from, and writes.  As in WorkTasks *)
(* Lock is the part up to the reads and each action the rest; the walk up  *)
(* the reporting line is among the reads.                                  *)
(*                                                                         *)
(* Left out: the texts that must be complete before an approval, review    *)
(* dates, document codes, linked processes, and the snapshots of the log.  *)
(***************************************************************************)
EXTENDS Integers, FiniteSets

CONSTANTS Nodes,
          People,      \* users that may occupy a position
          Requests, None,
          MaxVersion   \* bound on the changes of one record

OrganizationAssumption == None \notin Nodes \cup People /\ MaxVersion \in Nat \ {0}

VARIABLES nodes,
          calls  \* write transactions: what the lock's holder has read

vars == <<nodes, calls>>

\* "ack": the user and the revision of the last acknowledgement.
OrgChartNode ==
    [parent: Nodes \cup {None}, kind: {"POSITION", "UNIT"},
     status: {"DRAFT", "APPROVED", "ARCHIVED"}, assignee: People \cup {None},
     revision: 1..MaxVersion, version: 1..MaxVersion,
     ack: [user: People, revision: 1..MaxVersion] \cup {None}]

Absent == [version |-> 0]
Idle   == [state |-> "idle"]

TypeOK ==
    /\ \A n \in Nodes : nodes[n] = Absent \/ nodes[n] \in OrgChartNode
    /\ DOMAIN calls = Requests

Init ==
    /\ nodes = [n \in Nodes |-> Absent]
    /\ calls = [r \in Requests |-> Idle]

Recorded == {n \in Nodes : nodes[n] # Absent}
Current  == {n \in Recorded : nodes[n].status # "ARCHIVED"}

\* The tree of getTree: without archived records, a record whose parent is not shown is a root.
Roots == {n \in Current : nodes[n].parent \notin Current}

-----------------------------------------------------------------------------
(* What a request has read.                                                *)

Seen(r)    == calls[r].seen
Of(r)      == calls[r].id
Before(r)  == calls[r].seen[calls[r].id]
SeenLive(r) == {n \in Nodes : Seen(r)[n] # Absent /\ Seen(r)[n].status # "ARCHIVED"}

\* The records from n upwards, as far as they are live.
Line(r, n) ==
    {m \in Nodes :
       \A S \in SUBSET Nodes :
          (n \in S \cup {None} /\ \A k \in S \cap SeenLive(r) : Seen(r)[k].parent \in S \cup {None})
            => m \in S}

\* Faulty variant: only the record itself is refused as its parent.
MayReportToOther(r, parent) ==
    /\ Line(r, parent) \subseteq SeenLive(r)
    /\ Of(r) # parent

\* validateDefinition: the reporting line is live, and the record is not on it.
MayReportTo(r, parent) ==
    /\ Line(r, parent) \subseteq SeenLive(r)
    /\ Of(r) \notin Line(r, parent)

-----------------------------------------------------------------------------
(* Requests.                                                               *)

\* "shown": the version on the page it is submitted from.
Submit(r) ==
    /\ calls[r] = Idle
    /\ \E n \in Nodes :
         calls' = [calls EXCEPT ![r] = [state |-> "sent", id |-> n, shown |-> nodes[n].version]]
    /\ UNCHANGED nodes

Start(r) ==
    /\ calls[r].state = "sent"
    /\ calls' = [calls EXCEPT ![r] = [state |-> "writing", id |-> calls[r].id,
                                      shown |-> calls[r].shown, seen |-> nodes]]
    /\ UNCHANGED nodes

\* write
Lock(r) == (\A s \in Requests : calls[s].state # "writing") /\ Start(r)

Commit(r) == calls' = [calls EXCEPT ![r] = Idle]

\* A conflict or a refusal.
Rollback(r) == calls[r].state = "writing" /\ Commit(r) /\ UNCHANGED nodes

\* checkVersion; only the bound keeps a version from growing.
Changes(r) ==
    /\ calls[r].state = "writing"
    /\ Before(r) # Absent
    /\ Before(r).version = calls[r].shown
    /\ Before(r).version < MaxVersion

\* The fields are written over what is there by now.
Save(r, node) ==
    /\ nodes' = [nodes EXCEPT ![Of(r)] = [node EXCEPT !.version = nodes[Of(r)].version + 1]]
    /\ Commit(r)

create(r) ==
    /\ calls[r].state = "writing"
    /\ Before(r) = Absent
    /\ \E parent \in Nodes \cup {None}, kind \in {"POSITION", "UNIT"} :
         /\ MayReportTo(r, parent)
         /\ nodes' = [nodes EXCEPT ![Of(r)] =
              [parent |-> parent, kind |-> kind, status |-> "DRAFT", assignee |-> None,
               revision |-> 1, version |-> 1, ack |-> None]]
    /\ Commit(r)

update(r) ==
    /\ Changes(r)
    /\ Before(r).status # "ARCHIVED"
    /\ \E parent \in Nodes \cup {None}, kind \in {"POSITION", "UNIT"} :
         /\ Before(r).assignee # None => kind = "POSITION"
         /\ MayReportTo(r, parent)
         /\ Save(r, [nodes[Of(r)] EXCEPT !.parent = parent, !.kind = kind, !.status = "DRAFT",
                                         !.ack = None, !.revision = @ + 1])

assign(r) ==
    /\ Changes(r)
    /\ Before(r).status # "ARCHIVED"
    /\ Before(r).kind = "POSITION"
    /\ \E user \in (People \cup {None}) \ {Before(r).assignee} :
         Save(r, [nodes[Of(r)] EXCEPT !.assignee = user, !.ack = None])

approve(r) ==
    /\ Changes(r)
    /\ Before(r).status = "DRAFT"
    /\ Save(r, [nodes[Of(r)] EXCEPT !.status = "APPROVED"])

\* By the occupant.
acknowledge(r) ==
    /\ Changes(r)
    /\ Before(r).assignee # None
    /\ Before(r).status = "APPROVED"
    /\ Before(r).ack # None => Before(r).ack.revision # Before(r).revision
    /\ Save(r, [nodes[Of(r)] EXCEPT
                  !.ack = [user |-> Before(r).assignee, revision |-> Before(r).revision]])

archive(r) ==
    /\ Changes(r)
    /\ Before(r).status # "ARCHIVED"
    /\ Before(r).assignee = None
    /\ \A n \in SeenLive(r) : Seen(r)[n].parent # Of(r)
    /\ Save(r, [nodes[Of(r)] EXCEPT !.status = "ARCHIVED"])

\* The record keeps its parent.
restore(r) ==
    /\ Changes(r)
    /\ Before(r).status = "ARCHIVED"
    /\ Before(r).parent = None \/ Before(r).parent \in SeenLive(r)
    /\ Save(r, [nodes[Of(r)] EXCEPT !.status = "DRAFT", !.ack = None])

\* See Accounts: the account of an occupant is deleted.
deletePerson(u) ==
    /\ \E n \in Recorded : nodes[n].assignee = u
    /\ nodes' = [n \in Nodes |-> IF nodes[n] # Absent /\ nodes[n].assignee = u
                                 THEN [nodes[n] EXCEPT !.assignee = None] ELSE nodes[n]]
    /\ UNCHANGED calls

Next ==
    \/ \E r \in Requests :
         \/ Submit(r) \/ Lock(r) \/ Rollback(r)
         \/ create(r) \/ update(r) \/ assign(r)
         \/ approve(r) \/ acknowledge(r) \/ archive(r) \/ restore(r)
    \/ \E u \in People : deletePerson(u)

Spec == Init /\ [][Next]_vars

-----------------------------------------------------------------------------
(* Properties.                                                             *)

Above(n) ==
    {m \in Nodes :
       \A S \in SUBSET Nodes :
          (\A k \in (S \cap Recorded) \cup {n} : nodes[k].parent \in S \cup {None}) => m \in S}

\* "Serialize hierarchy writes so concurrent reparent/archive requests cannot create cycles
\* or orphans" (org-chart.service.ts): no record is above itself, and no current record
\* reports to an archived one.  Each write checks only what it has read, of other records
\* too, whose versions it does not compare.
NoCyclesOrOrphans ==
    \A n \in Current : n \notin Above(n) /\ (n \in Roots => nodes[n].parent = None)

\* A job description counts as acknowledged only while it is approved, in the revision that
\* was acknowledged, and by whoever occupies the position (or did, until the account was
\* deleted); assignments, revisions and restores each reset it.
AcknowledgedByOccupant ==
    \A n \in Recorded : nodes[n].ack # None =>
        /\ nodes[n].assignee \in {nodes[n].ack.user, None}
        /\ nodes[n].ack.revision = nodes[n].revision
=============================================================================

--------------------------------- MODULE Pdca ---------------------------------
(***************************************************************************)
(* Improvement cases (PdcaService) and their log.                          *)
(*                                                                         *)
(* No handler uses a transaction: it reads the case (getAccessibleCase-    *)
(* OrThrow), checks the user against that reading, updates the row, and    *)
(* writes the log entry in a statement of its own, after which it notifies *)
(* the owner and the assignee.  Another request may come in between, and   *)
(* the request may fail before the entry is written.                       *)
(*                                                                         *)
(* Left out: the texts, the priority, filters and pages of the list; the   *)
(* notices, see Notifications; the audit trail.                            *)
(***************************************************************************)
EXTENDS Naturals, FiniteSets

CONSTANTS Cases, Users, role, Requests,
          Phases,   \* PLAN, DO, CHECK, ACT
          None

Statuses == {"OPEN", "IN_PROGRESS", "DONE", "CANCELLED"}

PdcaAssumption ==
    /\ role \in [Users -> {"ADMIN", "MANAGER", "SALES", "CALLCENTER"}]
    /\ None \notin Users

VARIABLES cases,
          logs,   \* the phases of each case's log
          calls,  \* what each request has read, or has still to log
          failed  \* cases of which a request failed between the row and the log

vars == <<cases, logs, calls, failed>>

PdcaCase ==
    [phase: Phases, status: Statuses, closed: BOOLEAN, owner: Users \cup {None},
     assignedTo: Users \cup {None}, createdBy: Users]

Absent == [status |-> "none"]
Idle   == [state |-> "idle"]

TypeOK ==
    /\ \A k \in Cases : cases[k] = Absent \/ cases[k] \in PdcaCase
    /\ logs \in [Cases -> SUBSET Phases]
    /\ DOMAIN calls = Requests
    /\ failed \subseteq Cases

Init ==
    /\ cases = [k \in Cases |-> Absent]
    /\ logs = [k \in Cases |-> {}]
    /\ calls = [r \in Requests |-> Idle]
    /\ failed = {}

canManageAll(u) == role[u] \in {"ADMIN", "MANAGER"}

\* Who sees, changes and moves a case: nobody else finds it in the list either.
MayAccess(u, case) == canManageAll(u) \/ u \in {case.assignedTo, case.owner, case.createdBy}

listCases(u) == {k \in Cases : cases[k] # Absent /\ MayAccess(u, cases[k])}

-----------------------------------------------------------------------------

\* getAccessibleCaseOrThrow
Read(r) ==
    /\ calls[r] = Idle
    /\ \E k \in Cases, u \in Users :
         /\ k \in listCases(u)
         /\ calls' = [calls EXCEPT ![r] =
              [state |-> "read", user |-> u, case |-> k, seen |-> cases[k]]]
    /\ UNCHANGED <<cases, logs, failed>>

Of(r)   == calls[r].case
Seen(r) == calls[r].seen

\* The row is updated; the entry is still to be written.
Update(r, row) ==
    /\ cases' = [cases EXCEPT ![Of(r)] = row]
    /\ calls' = [calls EXCEPT ![r] =
         [state |-> "updated", case |-> Of(r), phase |-> row.phase]]
    /\ UNCHANGED <<logs, failed>>

createCase(r) ==
    /\ calls[r] = Idle
    /\ \E k \in Cases, u \in Users, phase \in Phases, status \in Statuses,
          owner, assignedTo \in Users \cup {None} :
         /\ cases[k] = Absent
         /\ cases' = [cases EXCEPT ![k] =
              [phase |-> phase, status |-> status, closed |-> FALSE,
               owner |-> owner, assignedTo |-> assignedTo, createdBy |-> u]]
         /\ calls' = [calls EXCEPT ![r] = [state |-> "updated", case |-> k, phase |-> phase]]
    /\ UNCHANGED <<logs, failed>>

\* The closing date follows the status, unless the request gives it; whether there is one
\* to clear is taken from what was read.
updateCase(r) ==
    /\ calls[r].state = "read"
    /\ LET row == cases[Of(r)] IN
       \/ \E status \in Statuses, phase \in Phases :
            Update(r, [row EXCEPT !.phase = phase, !.status = status,
                         !.closed = IF status = "DONE" THEN TRUE
                                    ELSE IF Seen(r).closed THEN FALSE ELSE row.closed])
       \/ \E owner, assignedTo \in Users \cup {None} :
            /\ cases' = [cases EXCEPT ![Of(r)] =
                 [row EXCEPT !.owner = owner, !.assignedTo = assignedTo]]
            /\ calls' = [calls EXCEPT ![r] = Idle]
            /\ UNCHANGED <<logs, failed>>
       \/ \E closed \in BOOLEAN :
            /\ cases' = [cases EXCEPT ![Of(r)] = [row EXCEPT !.closed = closed]]
            /\ calls' = [calls EXCEPT ![r] = Idle]
            /\ UNCHANGED <<logs, failed>>

\* Faulty variant: the entry tells the phase the case came from.
updatePhaseLogsOld(r) ==
    /\ calls[r].state = "read"
    /\ \E phase \in Phases :
         cases' = [cases EXCEPT ![Of(r)].phase = phase]
    /\ calls' = [calls EXCEPT ![r] =
         [state |-> "updated", case |-> Of(r), phase |-> Seen(r).phase]]
    /\ UNCHANGED <<logs, failed>>

\* An open case is in progress once it moves; the status is that of the reading.
updatePhase(r) ==
    /\ calls[r].state = "read"
    /\ \E phase \in Phases :
         Update(r, [cases[Of(r)] EXCEPT !.phase = phase,
                      !.status = IF Seen(r).status = "OPEN" THEN "IN_PROGRESS"
                                 ELSE Seen(r).status])

\* The assignee may not close.
closeCase(r) ==
    /\ calls[r].state = "read"
    /\ canManageAll(calls[r].user) \/ calls[r].user \in {Seen(r).createdBy, Seen(r).owner}
    /\ Update(r, [cases[Of(r)] EXCEPT !.status = "DONE", !.closed = TRUE])

cancelCase(r) ==
    /\ calls[r].state = "read"
    /\ canManageAll(calls[r].user)
    /\ Update(r, [cases[Of(r)] EXCEPT !.status = "CANCELLED"])

\* An entry of the user's own, of any phase or none.
addLog(r) ==
    /\ calls[r].state = "read"
    /\ \E phases \in {{}} \cup {{phase} : phase \in Phases} :
         logs' = [logs EXCEPT ![Of(r)] = @ \cup phases]
    /\ calls' = [calls EXCEPT ![r] = Idle]
    /\ UNCHANGED <<cases, failed>>

\* The entry tells the phase that the update returned.
Log(r) ==
    /\ calls[r].state = "updated"
    /\ logs' = [logs EXCEPT ![Of(r)] = @ \cup {calls[r].phase}]
    /\ calls' = [calls EXCEPT ![r] = Idle]
    /\ UNCHANGED <<cases, failed>>

\* A refusal, an error, or the process ends.
Fail(r) ==
    /\ calls[r] # Idle
    /\ calls' = [calls EXCEPT ![r] = Idle]
    /\ failed' = IF calls[r].state = "updated" THEN failed \cup {Of(r)} ELSE failed
    /\ UNCHANGED <<cases, logs>>

Next == \E r \in Requests :
    \/ Read(r) \/ createCase(r) \/ updateCase(r) \/ updatePhase(r)
    \/ closeCase(r) \/ cancelCase(r) \/ addLog(r) \/ Log(r) \/ Fail(r)

Spec == Init /\ [][Next]_vars

-----------------------------------------------------------------------------
(* Properties.                                                             *)

\* The phase a case shows is in its log, or a request is about to write it, or failed
\* before it could: of several moves at once none loses its entry or logs another's phase.
PhaseIsLogged ==
    \A k \in Cases \ failed :
        \/ cases[k] = Absent
        \/ cases[k].phase \in logs[k]
        \/ \E r \in Requests : calls[r].state = "updated" /\ Of(r) = k
                               /\ calls[r].phase = cases[k].phase

=============================================================================

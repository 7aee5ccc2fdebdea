-------------------------------- MODULE Leads --------------------------------
(***************************************************************************)
(* The leads of the sales pipeline (LeadsService), the rules of their      *)
(* status (lead.rules), and the webhook by which Meta delivers a lead form *)
(* (MetaController, MetaService).                                          *)
(*                                                                         *)
(* A handler reads the lead, checks the reader's right and the status it   *)
(* has read, and then writes in a transaction that looks at neither again. *)
(* "calls" keeps what was read: other requests run between the two.  A     *)
(* page older than the read only makes more requests fail, so a request    *)
(* starts from the present lists.                                          *)
(*                                                                         *)
(* Left out: the audit log, names, e-mail, the texts of activities, the    *)
(* notifications sent after the commit (see Notifications), the looked-up  *)
(* user's "isActive" (a refused lookup is a request that does not come),   *)
(* and withRetry, which repeats a transaction that never started.          *)
(***************************************************************************)
EXTENDS FiniteSets

CONSTANTS LeadIds,   \* ids of Lead rows; an id is used once
          Users, role,
          Requests,  \* requests of users in flight, each reused when it has ended
          Hooks,     \* deliveries of the webhook in flight
          Leadgens,  \* forms filled in at Meta
          FollowUps, \* dates of a next follow-up
          None

Roles == {"CALLCENTER", "MANAGER", "SALES", "ADMIN", "AFTERSALES", "ACCOUNTING", "PREVIEW"}

LeadStatus == {"NEW", "WORKING", "SALES_READY", "MANAGER_REVIEW", "ASSIGNED", "WON", "LOST",
               "ARCHIVED"}

LeadsAssumption ==
    /\ role \in [Users -> Roles]
    /\ None \notin Users \cup Leadgens \cup FollowUps \cup LeadIds

VARIABLES leads,    \* Lead, by id
          calls,    \* what each request in flight has read
          hooks     \* what each delivery in flight has read

vars == <<leads, calls, hooks>>

\* Lead with what the properties need of its LeadActivity and LeadStageHistory rows:
\* "fresh" is newPriorityAt # null, "contacted" and "declined" say that a contact, and a
\* call with the outcome NOT_INTERESTED, have been recorded, "stage" is the toStatus of
\* the last row of the history.  "phone" says where it is from, "-" when the form had none.
Lead == [status: LeadStatus, fresh: BOOLEAN, contacted: BOOLEAN, declined: BOOLEAN,
         stage: LeadStatus, owner: Users \cup {None}, manager: Users \cup {None},
         sales: Users \cup {None}, followUp: FollowUps \cup {None},
         phone: {"-", "form", "user"}, metaLeadId: Leadgens \cup {None}]

Unused    == [status |-> "UNUSED"]   \* no row yet
Deleted   == [status |-> "DELETED"]
Exists(l) == leads[l] \notin {Unused, Deleted}

Idle == [lead |-> None]
Call == [user: Users, lead: LeadIds, status: LeadStatus]
Hook == [leadgen: Leadgens, lead: LeadIds \cup {None}, phone: {"-", "form"}, gap: BOOLEAN]

TypeOK ==
    /\ leads \in [LeadIds -> Lead \cup {Unused, Deleted}]
    /\ calls \in [Requests -> Call \cup {Idle}]
    /\ hooks \in [Hooks -> Hook \cup {Idle}]

Init ==
    /\ leads = [l \in LeadIds |-> Unused]
    /\ calls = [r \in Requests |-> Idle]
    /\ hooks = [h \in Hooks |-> Idle]

-----------------------------------------------------------------------------
(* Rules and lists.                                                        *)

canTransition(from, to) ==
    <<from, to>> \in
        {"NEW"} \X {"WORKING", "ARCHIVED"} \cup
        {"WORKING"} \X {"SALES_READY", "ARCHIVED"} \cup
        {"SALES_READY"} \X {"MANAGER_REVIEW", "WORKING", "ARCHIVED"} \cup
        {"MANAGER_REVIEW"} \X {"ASSIGNED", "WORKING", "ARCHIVED"} \cup
        {"ASSIGNED"} \X {"WON", "LOST", "ARCHIVED"} \cup
        {"WON", "LOST"} \X {"ARCHIVED"}

canEditCoreFields(u, status) ==
    \/ role[u] \in {"ADMIN", "MANAGER"}
    \/ role[u] = "CALLCENTER" /\ status \in {"NEW", "WORKING", "SALES_READY"}

\* getAccessibleLeadOrThrow
Accessible(u, l) ==
    /\ Exists(l)
    /\ \/ role[u] \in {"ADMIN", "MANAGER", "CALLCENTER"}
       \/ role[u] = "SALES" /\ leads[l].sales = u

InScope(u, l) ==
    /\ role[u] \in {"ADMIN", "MANAGER", "CALLCENTER", "SALES"}
    /\ Exists(l)
    /\ role[u] = "SALES" => leads[l].sales = u

\* All pages of all filters.  archivedAt, which every list filters on, is never written.
listLeads(u, interest) ==
    {l \in LeadIds : /\ InScope(u, l)
                     /\ interest = "active" => ~leads[l].declined
                     /\ interest = "notInterested" => leads[l].declined}

listFollowups(u, range) ==
    {l \in LeadIds : /\ InScope(u, l)
                     /\ IF range = "missing"
                        THEN /\ leads[l].followUp = None
                             /\ leads[l].status \notin {"WON", "LOST", "ARCHIVED"}
                        ELSE leads[l].followUp # None}

\* A new lead; freshly delivered ones stay on top of the lists.
NewLead(owner, phone, leadgen) ==
    [status |-> "NEW", fresh |-> TRUE, contacted |-> FALSE, declined |-> FALSE, stage |-> "NEW",
     owner |-> owner, manager |-> None, sales |-> None, followUp |-> None,
     phone |-> phone, metaLeadId |-> leadgen]

-----------------------------------------------------------------------------
(* Requests of users.                                                      *)

\* The user picks a lead from one of his lists, and the handler reads it.
Read(r, u, l) ==
    /\ calls[r] = Idle
    /\ \/ \E interest \in {"all", "active", "notInterested"} : l \in listLeads(u, interest)
       \/ \E range \in {"missing", "due"} : l \in listFollowups(u, range)
    /\ Accessible(u, l)
    /\ calls' = [calls EXCEPT ![r] = [user |-> u, lead |-> l, status |-> leads[l].status]]
    /\ UNCHANGED <<leads, hooks>>

\* A refusal, a statement that withRetry has given up, and the requests that only read
\* (getLead).
End(r) ==
    /\ calls[r] # Idle
    /\ calls' = [calls EXCEPT ![r] = Idle]
    /\ UNCHANGED <<leads, hooks>>

\* The update of a row that has meanwhile been deleted fails, and so does its transaction.
Write(r, row) ==
    /\ Exists(calls[r].lead)
    /\ leads' = [leads EXCEPT ![calls[r].lead] = row]
    /\ calls' = [calls EXCEPT ![r] = Idle]
    /\ UNCHANGED hooks

ReadBy(r) == /\ calls[r] # Idle
             /\ Exists(calls[r].lead)

createLead(u) ==
    /\ role[u] \in {"CALLCENTER", "ADMIN"}
    /\ \E l \in LeadIds :
         /\ leads[l] = Unused
         /\ leads' = [leads EXCEPT ![l] =
                        NewLead(IF role[u] = "CALLCENTER" THEN u ELSE None, "user", None)]
    /\ UNCHANGED <<calls, hooks>>

updateLeadCore(r) ==
    /\ ReadBy(r)
    /\ canEditCoreFields(calls[r].user, calls[r].status)
    /\ \E date \in FollowUps \cup {None}, phone \in {"user", leads[calls[r].lead].phone} :
         Write(r, [leads[calls[r].lead] EXCEPT !.phone = phone, !.followUp = date])

\* Faulty variant: a date that cannot be parsed is written too.
updateLeadFollowUpUnparsed(r) ==
    /\ ReadBy(r)
    /\ \E date \in FollowUps \cup {None, "NaN"} :
         Write(r, [leads[calls[r].lead] EXCEPT !.followUp = date])

updateLeadFollowUp(r) ==
    /\ ReadBy(r)
    /\ \E date \in FollowUps \cup {None} :
         Write(r, [leads[calls[r].lead] EXCEPT !.followUp = date])

Contacts == {"CALL", "WHATSAPP", "EMAIL", "MEETING"}

\* The status and the assignment are activities of their own kind.
addActivity(r) ==
    /\ ReadBy(r)
    /\ \E kind \in {"CALL", "EMAIL", "NOTE"}, declined \in BOOLEAN,
          date \in FollowUps \cup {leads[calls[r].lead].followUp} :
         LET row == leads[calls[r].lead]
         IN  /\ declined => kind = "CALL"
             /\ Write(r, [row EXCEPT !.fresh = @ /\ kind \notin Contacts,
                                     !.contacted = @ \/ kind \in Contacts,
                                     !.declined = @ \/ declined,
                                     !.followUp = date])

MayMove(u, to) ==
    /\ to = "MANAGER_REVIEW" => role[u] \in {"CALLCENTER", "ADMIN"}
    /\ to = "ASSIGNED" => role[u] \in {"MANAGER", "ADMIN"}
    /\ to \in {"WON", "LOST"} => role[u] \in {"SALES", "MANAGER", "ADMIN"}

changeStatus(r) ==
    /\ ReadBy(r)
    /\ \E to \in LeadStatus :
         /\ canTransition(calls[r].status, to)
         /\ MayMove(calls[r].user, to)
         /\ Write(r, [leads[calls[r].lead] EXCEPT !.status = to, !.fresh = FALSE, !.stage = to])

\* Faulty variant: the handoff leaves the lead on top of the lists.
sendToManagerStillFresh(r) ==
    /\ ReadBy(r)
    /\ role[calls[r].user] \in {"CALLCENTER", "ADMIN"}
    /\ calls[r].status \in {"NEW", "WORKING", "SALES_READY"}
    /\ \E m \in Users :
         /\ role[m] \in {"MANAGER", "ADMIN"}
         /\ Write(r, [leads[calls[r].lead] EXCEPT !.status = "MANAGER_REVIEW", !.manager = m,
                                                  !.stage = "MANAGER_REVIEW"])

sendToManager(r) ==
    /\ ReadBy(r)
    /\ role[calls[r].user] \in {"CALLCENTER", "ADMIN"}
    /\ calls[r].status \in {"NEW", "WORKING", "SALES_READY"}
    /\ \E m \in Users :
         /\ role[m] \in {"MANAGER", "ADMIN"}
         /\ Write(r, [leads[calls[r].lead] EXCEPT !.status = "MANAGER_REVIEW", !.manager = m,
                                                  !.fresh = FALSE, !.stage = "MANAGER_REVIEW"])

\* A reassignment writes the status it has read, and no history.
assignToSales(r) ==
    /\ ReadBy(r)
    /\ role[calls[r].user] \in {"MANAGER", "ADMIN"}
    /\ calls[r].status \in {"MANAGER_REVIEW", "ASSIGNED"}
    /\ \E s \in Users :
         /\ role[s] = "SALES"
         /\ LET row == leads[calls[r].lead]
            IN  Write(r, [row EXCEPT !.status = "ASSIGNED", !.sales = s, !.fresh = FALSE,
                                     !.stage = IF calls[r].status = "MANAGER_REVIEW"
                                               THEN "ASSIGNED" ELSE @])

\* Activities, history and the older Task rows go with the lead; CrmTask rows stay.
bulkDelete(u, ids) ==
    /\ role[u] \in {"ADMIN", "MANAGER"}
    /\ \E l \in ids : Exists(l)
    /\ leads' = [l \in LeadIds |-> IF l \in ids /\ Exists(l) THEN Deleted ELSE leads[l]]
    /\ UNCHANGED <<calls, hooks>>

-----------------------------------------------------------------------------
(* The webhook.  Meta may deliver a form again, also while an earlier      *)
(* delivery is under way.  A failure is answered with 200 like a success.  *)

\* getDefaultCallcenterId; a delivery fails if the environment names nobody of these roles.
Callcenters == {u \in Users : role[u] \in {"CALLCENTER", "ADMIN"}}
Callcenter  == CHOOSE u \in Callcenters : TRUE

Of(g) == {l \in LeadIds : Exists(l) /\ leads[l].metaLeadId = g}

\* fetchLeadgen, and the search for a lead of that form.
receive(h, g) ==
    /\ hooks[h] = Idle
    /\ Callcenters # {}
    /\ \E phone \in {"-", "form"}, l \in IF Of(g) = {} THEN {None} ELSE Of(g) :
         hooks' = [hooks EXCEPT ![h] =
                     [leadgen |-> g, lead |-> l, phone |-> phone,
                      gap |-> l # None /\ leads[l].phone = "-"]]
    /\ UNCHANGED <<leads, calls>>


\* upsertLeadFromMetaLeadgen: nothing found, a new lead.  metaLeadId is unique.
createFromLeadgen(h) ==
    /\ hooks[h] # Idle
    /\ hooks[h].lead = None
    /\ Of(hooks[h].leadgen) = {}
    /\ \E l \in LeadIds :
         /\ leads[l] = Unused
         /\ leads' = [leads EXCEPT ![l] =
                        NewLead(Callcenter, hooks[h].phone, hooks[h].leadgen)]
    /\ hooks' = [hooks EXCEPT ![h] = Idle]
    /\ UNCHANGED calls

\* ... a lead found: what it lacked when it was read is filled in.
patchFromLeadgen(h) ==
    /\ hooks[h] # Idle
    /\ hooks[h].lead # None
    /\ Exists(hooks[h].lead)
    /\ leads' = [leads EXCEPT ![hooks[h].lead].phone =
                   IF hooks[h].gap /\ hooks[h].phone # "-" THEN hooks[h].phone ELSE @]
    /\ hooks' = [hooks EXCEPT ![h] = Idle]
    /\ UNCHANGED calls

\* An error of Meta or of the database.
receiveFailed(h) ==
    /\ hooks[h] # Idle
    /\ hooks' = [hooks EXCEPT ![h] = Idle]
    /\ UNCHANGED <<leads, calls>>

Next ==
    \/ \E r \in Requests, u \in Users, l \in LeadIds : Read(r, u, l)
    \/ \E r \in Requests : \/ updateLeadCore(r) \/ updateLeadFollowUp(r) \/ addActivity(r)
                           \/ changeStatus(r) \/ sendToManager(r) \/ assignToSales(r)
                           \/ End(r)
    \/ \E u \in Users : createLead(u)
    \/ \E u \in Users, ids \in SUBSET LeadIds : bulkDelete(u, ids)
    \/ \E h \in Hooks, g \in Leadgens : receive(h, g)
    \/ \E h \in Hooks : createFromLeadgen(h) \/ patchFromLeadgen(h) \/ receiveFailed(h)

Spec == Init /\ [][Next]_vars

-----------------------------------------------------------------------------
(* Properties.                                                             *)

\* "Fresh inbound leads stay ahead of follow-ups until first contact or handoff"
\* (schema.prisma): whatever requests overlap, a lead on top of the lists is still new,
\* nobody has contacted it, and nobody has it.
FreshUntilContact ==
    \A l \in LeadIds : Exists(l) /\ leads[l].fresh =>
        /\ leads[l].status = "NEW"
        /\ ~leads[l].contacted
        /\ leads[l].manager = None /\ leads[l].sales = None

\* A form is one lead, however often and however concurrently it is delivered.
OneLeadPerLeadgen ==
    \A k, l \in LeadIds : Exists(k) /\ Exists(l) /\ leads[k].metaLeadId = leads[l].metaLeadId =>
        k = l \/ leads[k].metaLeadId = None
=============================================================================

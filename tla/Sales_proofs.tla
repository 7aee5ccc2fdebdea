----------------------------- MODULE Sales_proofs ------------------------------
(* Proofs about the sales components, for every value of their parameters.        *)
(*                                                                                *)
(* Whichever part moves, every component makes its own steps or stutters          *)
(* (PartsMove).  The payment views, the messages and the mail queue bring their   *)
(* lemmas and invariants with them (PaymentViews_proofs, PaymentCase_proofs,      *)
(* BulkEmailQueue_proofs); those of the others are here:                          *)
(*                                                                                *)
(*   LedgerInv     one request at a time holds an account's lock, what it has     *)
(*                 read under it is still so, and the version counts the saves    *)
(*   LeadsInv      whoever takes a lead up clears its "fresh" mark with the same  *)
(*                 write; the form a lead was made from never changes             *)
(*   CustomersInv  a unit is of a customer that is there, once; its number is the *)
(*                 one the request has read, however old that is                  *)
(*   AgenciesInv   nobody of the call centre is an agency's sales user; a task's  *)
(*                 agency is there as long as the task                            *)
(*                                                                                *)
(* Leads and customers run twice, with different parameters (Sales), so their     *)
(* invariants and lemmas have the parameters p as an argument.                    *)
EXTENDS Sales, SequenceTheorems, TLAPS

LEMMA PartsMove ==
    ASSUME [Next]_vars
    PROVE  /\ part' = part
           /\ part # "webhook" => [L(Pipeline)!Next]_(L(Pipeline)!vars)
           /\ part = "webhook" => [L(Webhook)!Next]_(L(Webhook)!vars)
           /\ part # "files" => [C(Estate)!Next]_(C(Estate)!vars)
           /\ part = "files" => [C(Files)!Next]_(C(Files)!vars)
           /\ part # "campaigns" => [Q!Next]_(Q!vars)
           /\ part = "campaigns" => [K!Next]_(K!vars)
           /\ [A!Next]_(A!vars) /\ [S!Next]_(S!vars) /\ [V!Next]_(V!vars) /\ [P!Next]_(P!vars)
<1> USE DEF Next, vars, LeadsStep, WebhookStep, UnitsStep, FilesStep, AgenciesStep, LedgerStep,
            ViewsStep, MessagesStep, MailStep, CampaignsStep
<1>1. /\ part' = part
      /\ part # "webhook" => [L(Pipeline)!Next]_(L(Pipeline)!vars)
      /\ part = "webhook" => [L(Webhook)!Next]_(L(Webhook)!vars)
  BY DEF leadVars, L!vars
<1>2. /\ part # "files" => [C(Estate)!Next]_(C(Estate)!vars)
      /\ part = "files" => [C(Files)!Next]_(C(Files)!vars)
  BY DEF customerVars, C!vars
<1>3. /\ part # "campaigns" => [Q!Next]_(Q!vars)
      /\ part = "campaigns" => [K!Next]_(K!vars)
  BY DEF queueVars, Q!vars, K!vars
<1>4. [A!Next]_(A!vars) /\ [S!Next]_(S!vars) /\ [V!Next]_(V!vars) /\ [P!Next]_(P!vars)
  BY DEF agencyVars, ledgerVars, viewVars, caseVars, A!vars, S!vars, V!vars, P!vars
<1> QED
  BY <1>1, <1>2, <1>3, <1>4

------------------------------------------------------------------------------
(* The ledger: what is read under an account's lock stays so until the save.  *)

LedgerPage ==
    [state: {"open", "shown"}, account: Ledger.accounts, expectedVersion: 0..Ledger.maxVersion]

LedgerHeld ==
    [state: {"locked"}, account: Ledger.accounts, user: Ledger.sales \cup {None},
     expectedVersion: 0..Ledger.maxVersion, previous: 0..Ledger.maxVersion]

\* The rows, and the requests under way.
LedgerTypeOK ==
    /\ mappings \in [Ledger.codes -> Ledger.sales \cup {None}]
    /\ selling \subseteq Ledger.sales
    /\ assignments \in [Ledger.accounts -> S!SalesLedgerAssignment]
    /\ ledgerCalls \in [Ledger.requests -> {S!Idle} \cup LedgerPage \cup LedgerHeld]
    /\ assigned \in [Ledger.accounts -> Seq(0..Ledger.maxVersion)]

\* One holder of a lock; what he has read is still so.
LocksHold ==
    \A r \in Ledger.requests : ledgerCalls[r].state = "locked" =>
        /\ ledgerCalls[r].previous = assignments[ledgerCalls[r].account].version
        /\ \A s \in Ledger.requests \ {r} : ledgerCalls[s].state = "locked" =>
              ledgerCalls[s].account # ledgerCalls[r].account

HistoryIsVersion == \A a \in Ledger.accounts : Len(assigned[a]) = assignments[a].version

LedgerInv == LedgerTypeOK /\ LocksHold /\ HistoryIsVersion

\* The states of a request are told apart by the field "state".
LEMMA LedgerStates ==
    ASSUME NEW c \in {S!Idle} \cup LedgerPage \cup LedgerHeld
    PROVE  /\ c.state \in {"open", "shown"} <=> c \in LedgerPage
           /\ c.state = "locked" <=> c \in LedgerHeld
           /\ c.state = "idle" <=> c = S!Idle
  BY DEF S!Idle, LedgerPage, LedgerHeld

LEMMA LedgerStart == S!SalesLedgerAssumption /\ S!Init => LedgerInv
  BY DEF S!SalesLedgerAssumption, S!Init, LedgerInv, LedgerTypeOK, LocksHold, HistoryIsVersion,
         S!SalesLedgerAssignment, S!Idle

\* A request that ends, or opens a page, takes no lock.
LEMMA LedgerCallsKeep ==
    ASSUME LedgerInv, NEW r \in Ledger.requests, NEW c \in {S!Idle} \cup LedgerPage,
           ledgerCalls' = [ledgerCalls EXCEPT ![r] = c],
           UNCHANGED <<selling, mappings, assignments, assigned>>
    PROVE  LedgerInv'
<1>1. LedgerTypeOK'
  BY DEF LedgerInv, LedgerTypeOK
<1>2. LocksHold'
  BY DEF LedgerInv, LedgerTypeOK, LocksHold, S!Idle, LedgerPage
<1>3. HistoryIsVersion'
  BY DEF LedgerInv, HistoryIsVersion
<1> QED
  BY <1>1, <1>2, <1>3 DEF LedgerInv

LEMMA DetailKeeps ==
    ASSUME LedgerInv, NEW r \in Ledger.requests, S!detail(r)
    PROVE  LedgerInv'
<1>1. PICK a \in Ledger.accounts, state \in {"open", "shown"} :
        ledgerCalls' = [ledgerCalls EXCEPT ![r] =
          [state |-> state, account |-> a, expectedVersion |-> assignments[a].version]]
  BY DEF S!detail
<1>2. assignments[a].version \in 0..Ledger.maxVersion
  BY DEF LedgerInv, LedgerTypeOK, S!SalesLedgerAssignment
<1>3. [state |-> state, account |-> a, expectedVersion |-> assignments[a].version] \in LedgerPage
  BY <1>2 DEF LedgerPage
<1> QED
  BY <1>1, <1>3, LedgerCallsKeep DEF S!detail

\* The lock is free, and what is read under it is the present row.
LEMMA LockKeeps ==
    ASSUME LedgerInv, NEW r \in Ledger.requests, S!Lock(r)
    PROVE  LedgerInv'
<1>1. ledgerCalls[r] \in LedgerPage
  BY LedgerStates DEF S!Lock, LedgerInv, LedgerTypeOK
<1>2. PICK u \in selling \cup {None} :
        ledgerCalls' = [ledgerCalls EXCEPT ![r] =
          [state |-> "locked", account |-> ledgerCalls[r].account, user |-> u,
           expectedVersion |-> ledgerCalls[r].expectedVersion,
           previous |-> assignments[ledgerCalls[r].account].version]]
  BY DEF S!Lock, S!Start
<1> DEFINE held == [state |-> "locked", account |-> ledgerCalls[r].account, user |-> u,
                    expectedVersion |-> ledgerCalls[r].expectedVersion,
                    previous |-> assignments[ledgerCalls[r].account].version]
<1>3. UNCHANGED <<selling, mappings, assignments, assigned>>
  BY DEF S!Lock, S!Start
<1>4. held \in LedgerHeld
  BY <1>1 DEF LedgerHeld, LedgerPage, LedgerInv, LedgerTypeOK, S!SalesLedgerAssignment
<1>5. LedgerTypeOK'
  BY <1>2, <1>3, <1>4 DEF LedgerInv, LedgerTypeOK
<1>6. LocksHold'
  BY <1>2, <1>3 DEF LedgerInv, LedgerTypeOK, LocksHold, S!Lock
<1>7. HistoryIsVersion'
  BY <1>3 DEF LedgerInv, HistoryIsVersion
<1> QED
  BY <1>5, <1>6, <1>7 DEF LedgerInv

\* The author of a change had seen all changes before it.
LEMMA AssignSaves ==
    ASSUME LedgerInv, NEW r \in Ledger.requests, S!assignFollowup(r)
    PROVE  /\ ledgerCalls[r].account \in Ledger.accounts
           /\ ledgerCalls[r].expectedVersion = Len(assigned[ledgerCalls[r].account])
           /\ ledgerCalls[r] \in LedgerHeld
<1>1. ledgerCalls[r] \in LedgerHeld
  BY LedgerStates DEF S!assignFollowup, LedgerInv, LedgerTypeOK
<1> QED
  BY <1>1 DEF S!assignFollowup, LedgerHeld, LedgerInv, LocksHold, HistoryIsVersion

LEMMA AssignKeeps ==
    ASSUME S!SalesLedgerAssumption, LedgerInv, NEW r \in Ledger.requests, S!assignFollowup(r)
    PROVE  LedgerInv'
<1> DEFINE a == ledgerCalls[r].account
<1>1. a \in Ledger.accounts /\ ledgerCalls[r].user \in Ledger.sales \cup {None}
      /\ ledgerCalls[r].expectedVersion \in 0..Ledger.maxVersion
  BY AssignSaves DEF LedgerHeld
<1>2. assignments[a].version + 1 \in 0..Ledger.maxVersion
  BY <1>1 DEF S!assignFollowup, LedgerInv, LedgerTypeOK, S!SalesLedgerAssignment,
              S!SalesLedgerAssumption
<1>3. assignments' = [assignments EXCEPT ![a] =
        [user |-> ledgerCalls[r].user, version |-> assignments[a].version + 1]]
  BY DEF S!assignFollowup
<1>4. assigned' = [assigned EXCEPT ![a] = Append(assigned[a], ledgerCalls[r].expectedVersion)]
  BY DEF S!assignFollowup
<1>5. ledgerCalls' = [ledgerCalls EXCEPT ![r] = S!Idle]
  BY DEF S!assignFollowup
<1>6. LedgerTypeOK'
  <2>1. assignments' \in [Ledger.accounts -> S!SalesLedgerAssignment]
    BY <1>1, <1>2, <1>3 DEF LedgerInv, LedgerTypeOK, S!SalesLedgerAssignment
  <2>2. assigned' \in [Ledger.accounts -> Seq(0..Ledger.maxVersion)]
    BY <1>1, <1>4 DEF LedgerInv, LedgerTypeOK
  <2>3. ledgerCalls' \in [Ledger.requests -> {S!Idle} \cup LedgerPage \cup LedgerHeld]
    BY <1>5 DEF LedgerInv, LedgerTypeOK
  <2> QED
    BY <2>1, <2>2, <2>3 DEF LedgerInv, LedgerTypeOK, S!assignFollowup
<1>7. LocksHold'
  <2> SUFFICES ASSUME NEW s \in Ledger.requests, ledgerCalls'[s].state = "locked"
               PROVE  /\ ledgerCalls'[s].previous = assignments'[ledgerCalls'[s].account].version
                      /\ \A t \in Ledger.requests \ {s} : ledgerCalls'[t].state = "locked" =>
                            ledgerCalls'[t].account # ledgerCalls'[s].account
    BY DEF LocksHold
  <2>1. s # r /\ ledgerCalls'[s] = ledgerCalls[s]
    BY <1>5 DEF LedgerInv, LedgerTypeOK, S!Idle
  <2>2. ledgerCalls[s].account # a
    BY <2>1 DEF LedgerInv, LocksHold, S!assignFollowup
  <2>3. ledgerCalls[s] \in LedgerHeld
    BY <2>1, LedgerStates DEF LedgerInv, LedgerTypeOK
  <2>4. assignments'[ledgerCalls[s].account] = assignments[ledgerCalls[s].account]
    BY <1>3, <2>2, <2>3 DEF LedgerHeld, LedgerInv, LedgerTypeOK
  <2>5. \A t \in Ledger.requests :
          ledgerCalls'[t].state = "locked" => ledgerCalls'[t] = ledgerCalls[t]
    BY <1>5 DEF LedgerInv, LedgerTypeOK, S!Idle
  <2> QED
    BY <2>1, <2>4, <2>5 DEF LedgerInv, LocksHold
<1>8. HistoryIsVersion'
  BY <1>1, <1>3, <1>4 DEF LedgerInv, LedgerTypeOK, HistoryIsVersion, S!SalesLedgerAssignment
<1> QED
  BY <1>6, <1>7, <1>8 DEF LedgerInv

\* What becomes of users leaves versions and requests alone.
LEMMA PeopleKeep ==
    ASSUME LedgerInv, NEW u \in Ledger.sales, S!setSelling(u) \/ S!deletePerson(u)
    PROVE  LedgerInv'
<1>1. CASE S!setSelling(u)
  BY <1>1 DEF S!setSelling, LedgerInv, LedgerTypeOK, LocksHold, HistoryIsVersion
<1>2. CASE S!deletePerson(u)
  <2>1. /\ assignments' \in [Ledger.accounts -> S!SalesLedgerAssignment]
        /\ \A a \in Ledger.accounts : assignments'[a].version = assignments[a].version
    BY <1>2 DEF S!deletePerson, LedgerInv, LedgerTypeOK, S!SalesLedgerAssignment
  <2>2. mappings' \in [Ledger.codes -> Ledger.sales \cup {None}]
    BY <1>2 DEF S!deletePerson, LedgerInv, LedgerTypeOK
  <2>3. UNCHANGED <<selling, ledgerCalls, assigned>>
    BY <1>2 DEF S!deletePerson
  <2>4. LedgerTypeOK'
    BY <2>1, <2>2, <2>3 DEF LedgerInv, LedgerTypeOK
  <2>5. \A r \in Ledger.requests :
          ledgerCalls[r].state = "locked" => ledgerCalls[r].account \in Ledger.accounts
    BY LedgerStates DEF LedgerInv, LedgerTypeOK, LedgerHeld
  <2>6. LocksHold'
    BY <2>1, <2>3, <2>5 DEF LedgerInv, LocksHold
  <2>7. HistoryIsVersion'
    BY <2>1, <2>3 DEF LedgerInv, HistoryIsVersion
  <2> QED
    BY <2>4, <2>6, <2>7 DEF LedgerInv
<1> QED
  BY <1>1, <1>2

LEMMA LedgerKeeps ==
    ASSUME S!SalesLedgerAssumption, LedgerInv, [S!Next]_(S!vars)
    PROVE  LedgerInv'
<1>1. CASE UNCHANGED S!vars
  BY <1>1 DEF S!vars, LedgerInv, LedgerTypeOK, LocksHold, HistoryIsVersion
<1>2. ASSUME NEW r \in Ledger.requests,
             S!detail(r) \/ S!Lock(r) \/ S!assignFollowup(r) \/ S!Leave(r)
      PROVE  LedgerInv'
  <2>1. CASE S!Leave(r)
    BY <2>1, LedgerCallsKeep DEF S!Leave
  <2> QED
    BY <1>2, <2>1, DetailKeeps, LockKeeps, AssignKeeps
<1>3. ASSUME NEW c \in Ledger.codes, NEW v \in Ledger.sales \cup {None}, S!setMapping(c, v)
      PROVE  LedgerInv'
  BY <1>3 DEF S!setMapping, LedgerInv, LedgerTypeOK, LocksHold, HistoryIsVersion
<1>4. ASSUME NEW u \in Ledger.sales, S!setSelling(u) \/ S!deletePerson(u)
      PROVE  LedgerInv'
  BY <1>4, PeopleKeep
<1> QED
  BY <1>1, <1>2, <1>3, <1>4 DEF S!Next

\* Every step of the ledger is a save on the latest version, or leaves the history alone.
LEMMA LedgerRefines ==
    ASSUME LedgerInv, [S!Next]_(S!vars)
    PROVE  [S!Record!Next]_assigned
<1>1. ASSUME NEW r \in Ledger.requests, S!assignFollowup(r)
      PROVE  S!Record!Next
  <2>1. assigned' = [assigned EXCEPT ![ledgerCalls[r].account] =
                      Append(assigned[ledgerCalls[r].account], ledgerCalls[r].expectedVersion)]
    BY <1>1 DEF S!assignFollowup
  <2> QED
    BY <1>1, <2>1, AssignSaves DEF S!Record!Next, S!Record!Save
<1>2. ASSUME NEW r \in Ledger.requests, S!detail(r) \/ S!Lock(r) \/ S!Leave(r)
      PROVE  UNCHANGED assigned
  BY <1>2 DEF S!detail, S!Lock, S!Start, S!Leave
<1>3. ASSUME NEW c \in Ledger.codes, NEW v \in Ledger.sales \cup {None}, S!setMapping(c, v)
      PROVE  UNCHANGED assigned
  BY <1>3 DEF S!setMapping
<1>4. ASSUME NEW u \in Ledger.sales, S!setSelling(u) \/ S!deletePerson(u)
      PROVE  UNCHANGED assigned
  BY <1>4 DEF S!setSelling, S!deletePerson
<1> QED
  BY <1>1, <1>2, <1>3, <1>4 DEF S!Next, S!vars

\* One request at a time holds an account, what it has read there is still so, and the
\* version counts the changes (sales-ledger.service.ts, assignFollowup).
THEOREM LedgerInvariant == Spec => []LedgerInv
<1>1. Init => LedgerInv
  BY SalesParameters, LedgerStart DEF Init
<1>2. LedgerInv /\ [Next]_vars => LedgerInv'
  BY PartsMove, SalesParameters, LedgerKeeps
<1> QED
  BY <1>1, <1>2, PTL DEF Spec

\* Nobody reassigns an account over an assignment he has not seen
\* (sales-ledger.service.ts).
THEOREM LedgerRecordIsImplemented == Spec => LedgerImplementsRecord
<1>1. Init => S!Record!Init
  BY DEF Init, S!Init, S!Record!Init
<1>2. LedgerInv /\ [Next]_vars => [S!Record!Next]_assigned
  BY PartsMove, SalesParameters, LedgerRefines
<1> QED
  BY <1>1, <1>2, LedgerInvariant, PTL
  DEF Spec, LedgerImplementsRecord, S!ImplementsRecord, S!Record!Spec

------------------------------------------------------------------------------
(* The payment views: whatever the snapshot has come to hold.                  *)

LEMMA ViewsStart == Init => V!TypeOK
  BY SalesParameters DEF Init, V!Init, V!TypeOK, V!PaymentViewsAssumption

LEMMA ViewsKeep == V!TypeOK /\ [Next]_vars => V!TypeOK'
<1> SUFFICES ASSUME V!TypeOK, [V!Next]_(V!vars) PROVE V!TypeOK'
  BY PartsMove
<1>1. CASE V!SourceGrows
  <2>1. PICK r \in Snapshot.rows : rows' = Append(rows, r)
    BY <1>1 DEF V!SourceGrows
  <2>2. rows' \in Seq(Snapshot.rows) /\ Len(rows') = Len(rows) + 1
    BY <2>1 DEF V!TypeOK
  <2>3. Snapshot.maxRows \in Nat /\ Len(rows) \in Nat
    BY SalesParameters DEF V!PaymentViewsAssumption, V!TypeOK
  <2> QED
    BY <1>1, <2>2, <2>3 DEF V!SourceGrows, V!TypeOK
<1>2. CASE V!defer
  BY <1>2 DEF V!defer, V!TypeOK
<1>3. CASE UNCHANGED V!vars
  BY <1>3 DEF V!vars, V!TypeOK
<1> QED
  BY <1>1, <1>2, <1>3 DEF V!Next

\* Of any rows, a collection report's months, later months and undated rest make up the
\* whole, so do its groups, and every kind's part of a case
\* (payment-collection-report.service.ts, payment-tracking-kind.ts).
THEOREM ReportsAddUp == Spec => []ReportAddsUp
<1>1. V!TypeOK => ReportAddsUp
  BY SalesParameters, V!AddsUp, V!Divided DEF ReportAddsUp
<1> QED
  BY <1>1, ViewsStart, ViewsKeep, PTL DEF Spec

\* So do those of a report that is filtered in any way and begins with any month: what is left
\* out of it is left out of all its parts (payment-collection-report.service.ts).
EveryReportAddsUp ==
    \A q : V!IsReportQuery(q) /\ q.detailScope = "overdue" =>
             V!PartsMakeWhole(V!buildCollectionReport(V!Cases, q))

THEOREM FilteredReportsAddUp == Spec => []EveryReportAddsUp
<1>1. V!TypeOK => EveryReportAddsUp
  BY SalesParameters, V!EveryReport DEF EveryReportAddsUp
<1> QED
  BY <1>1, ViewsStart, ViewsKeep, PTL DEF Spec

\* Of any rows, the list, the report and the installment table agree on what is overdue, and
\* the pages of the list are the list, in its order
\* (payment-tracking.service.ts, payment-installment-table.ts).
THEOREM ListAndReportAgree == Spec => []ViewsAgree
<1>1. V!TypeOK => ViewsAgree
  BY SalesParameters, V!Agree, V!Paged DEF ViewsAgree
<1> QED
  BY <1>1, ViewsStart, ViewsKeep, PTL DEF Spec

\* Whatever the list is filtered by, whichever amount or date it is ordered by, up or down, its
\* pages hold each of its rows once, in the one order these say
\* (payment-tracking.service.ts, paymentList; sales-ledger.service.ts, list).
EveryListIsPaged ==
    \A q : V!IsListQuery(q) => V!Paging(q, V!exportAll(V!Cases, q))

THEOREM FilteredListsArePaged == Spec => []EveryListIsPaged
<1>1. V!TypeOK => EveryListIsPaged
  BY SalesParameters, V!EveryList DEF EveryListIsPaged
<1> QED
  BY <1>1, ViewsStart, ViewsKeep, PTL DEF Spec

\* Of any rows, a file shown as paid off has nothing open or unknown in any currency or kind
\* (payment-tracking.service.ts).
THEOREM PaidOffIsClosed == Spec => []ClosedIsPaidOff
<1>1. V!TypeOK => ClosedIsPaidOff
  BY SalesParameters, V!Closed DEF ClosedIsPaidOff
<1> QED
  BY <1>1, ViewsStart, ViewsKeep, PTL DEF Spec

------------------------------------------------------------------------------
(* The messages and the quota: the components' own proofs.                     *)

\* A confirmation follows the user's own draft, a message id is used once, and what a user
\* was told is recorded has been recorded (payment-tracking-store.service.ts).
THEOREM MessagesStayKept == Spec => []MessagesAreKept
<1> DEFINE MessagesInv == P!CaseInv /\ P!LedgerInv
<1>1. Init => MessagesInv
  BY SalesParameters, P!CaseInitInv, P!LedgerInitInv DEF Init, P!Init
<1>2. MessagesInv /\ [Next]_vars => MessagesInv'
  BY PartsMove, SalesParameters, P!CaseStep, P!StepIsLedgerStep, P!LedgerStep
<1>3. MessagesInv => MessagesAreKept
  BY DEF MessagesAreKept, P!LedgerInv
<1> QED
  BY <1>1, <1>2, <1>3, PTL DEF Spec

\* The operator's command and the timer go through one quota
\* (bulk-email.service.ts, bulk-email-queue.service.ts).
THEOREM WindowIsKept == Spec => KeepsWindow
<1>1. Init => (part = "mail" => Q!WindowInit) /\ (part = "campaigns" => K!WindowInit)
  BY DEF Init, Q!Init, K!Init
<1>2. [Next]_vars =>
        [/\ part = "mail" => [Q!WindowNext]_dispatch
         /\ part = "campaigns" => [K!WindowNext]_dispatch]_vars
  BY PartsMove, SalesParameters, Q!StepKeepsWindow, K!StepKeepsWindow
<1> QED
  BY <1>1, <1>2, PTL DEF Spec, KeepsWindow

------------------------------------------------------------------------------
(* Leads.                                                                     *)

\* No delivery gets far without a default user.
LeadsTypes(p) ==
    /\ L(p)!TypeOK
    /\ \A h \in p.hooks : hooks[h] # L(p)!Idle => L(p)!Callcenters # {}

\* A lead on top of the lists: new, uncontacted, and nobody's.
FreshLead(lead) ==
    lead.fresh => /\ lead.status = "NEW" /\ ~lead.contacted
                  /\ lead.manager = None /\ lead.sales = None

\* Whoever takes a lead up clears the mark in the same write, and no later write sets it
\* again; the form a lead is of never changes.
LeadsInv(p) ==
    /\ LeadsTypes(p)
    /\ \A l \in p.leadIds : L(p)!Exists(l) => FreshLead(leads[l])
    /\ L(p)!OneLeadPerLeadgen

LEMMA LeadsStart ==
    ASSUME NEW p, L(p)!Init
    PROVE  LeadsInv(p)
  BY DEF L!Init, LeadsInv, LeadsTypes, L!TypeOK, L!OneLeadPerLeadgen, L!Exists, L!Unused, L!Idle

LEMMA LeadIsRow ==
    ASSUME NEW p, LeadsInv(p), NEW l \in p.leadIds
    PROVE  L(p)!Exists(l) <=> leads[l] \in L(p)!Lead
  BY DEF LeadsInv, LeadsTypes, L!TypeOK, L!Exists, L!Unused, L!Deleted, L!Lead, L!LeadStatus

\* What a row written by a request leaves as it was.
LEMMA RowsKeepLeads ==
    ASSUME NEW p, LeadsInv(p), NEW l \in p.leadIds, NEW lead \in L(p)!Lead, L(p)!Exists(l),
           FreshLead(lead), lead.metaLeadId = leads[l].metaLeadId,
           leads' = [leads EXCEPT ![l] = lead]
    PROVE  /\ leads' \in [p.leadIds -> L(p)!Lead \cup {L(p)!Unused, L(p)!Deleted}]
           /\ \A k \in p.leadIds : L(p)!Exists(k)' => FreshLead(leads'[k])
           /\ L(p)!OneLeadPerLeadgen'
<1>1. \A k \in p.leadIds : leads'[k] = IF k = l THEN lead ELSE leads[k]
  BY DEF LeadsInv, LeadsTypes, L!TypeOK
<1>2. leads' \in [p.leadIds -> L(p)!Lead \cup {L(p)!Unused, L(p)!Deleted}]
  BY DEF LeadsInv, LeadsTypes, L!TypeOK
<1>3. \A k \in p.leadIds : L(p)!Exists(k)' <=> L(p)!Exists(k)
  BY <1>1, <1>2 DEF L!Exists, L!Lead, L!Unused, L!Deleted, L!LeadStatus
<1>4. \A k \in p.leadIds : L(p)!Exists(k)' => FreshLead(leads'[k])
  BY <1>1, <1>3 DEF LeadsInv
<1>5. \A k \in p.leadIds : L(p)!Exists(k) => leads'[k].metaLeadId = leads[k].metaLeadId
  BY <1>1
<1>6. L(p)!OneLeadPerLeadgen'
  BY <1>3, <1>5 DEF LeadsInv, L!OneLeadPerLeadgen
<1> QED
  BY <1>2, <1>4, <1>6

\* A request writes the lead it has read, if it is still there.
LEMMA WriteKeepsLeads ==
    ASSUME NEW p, LeadsInv(p), NEW r \in p.requests, NEW lead \in L(p)!Lead, L(p)!ReadBy(r),
           L(p)!Write(r, lead),
           FreshLead(lead), lead.metaLeadId = leads[leadCalls[r].lead].metaLeadId
    PROVE  LeadsInv(p)'
<1>1. leadCalls[r].lead \in p.leadIds
  BY DEF LeadsInv, LeadsTypes, L!TypeOK, L!ReadBy, L!Call
<1>2. /\ leads' \in [p.leadIds -> L(p)!Lead \cup {L(p)!Unused, L(p)!Deleted}]
      /\ \A k \in p.leadIds : L(p)!Exists(k)' => FreshLead(leads'[k])
      /\ L(p)!OneLeadPerLeadgen'
  BY <1>1, RowsKeepLeads DEF L!Write, L!ReadBy
<1>3. /\ leadCalls' \in [p.requests -> L(p)!Call \cup {L(p)!Idle}]
      /\ hooks' = hooks
  BY DEF LeadsInv, LeadsTypes, L!TypeOK, L!Write
<1> QED
  BY <1>2, <1>3 DEF LeadsInv, LeadsTypes, L!TypeOK

LEMMA RequestsKeepLeads ==
    ASSUME NEW p, LeadsInv(p), NEW r \in p.requests,
           \/ L(p)!updateLeadCore(r) \/ L(p)!updateLeadFollowUp(r) \/ L(p)!addActivity(r)
           \/ L(p)!changeStatus(r) \/ L(p)!sendToManager(r) \/ L(p)!assignToSales(r)
    PROVE  LeadsInv(p)'
<1> DEFINE old == leads[leadCalls[r].lead]
<1>1. L(p)!ReadBy(r)
  BY DEF L!updateLeadCore, L!updateLeadFollowUp, L!addActivity, L!changeStatus,
         L!sendToManager, L!assignToSales
<1>2. old \in L(p)!Lead /\ FreshLead(old)
  BY <1>1, LeadIsRow DEF LeadsInv, LeadsTypes, L!TypeOK, L!ReadBy, L!Call
<1> HIDE DEF old
<1>3. CASE L(p)!updateLeadCore(r)
  <2>1. PICK phone \in {"user", old.phone}, date \in p.followUps \cup {None} :
          L(p)!Write(r, [old EXCEPT !.phone = phone, !.followUp = date])
    BY <1>3 DEF L!updateLeadCore, old
  <2> DEFINE new == [old EXCEPT !.phone = phone, !.followUp = date]
  <2>2. new \in L(p)!Lead /\ FreshLead(new) /\ new.metaLeadId = old.metaLeadId
    BY <1>1, <1>2 DEF FreshLead, L!Lead
  <2> HIDE DEF new
  <2> QED
    BY <1>1, <2>1, <2>2, WriteKeepsLeads DEF new, old
<1>4. CASE L(p)!updateLeadFollowUp(r)
  <2>1. PICK date \in p.followUps \cup {None} :
          L(p)!Write(r, [old EXCEPT !.followUp = date])
    BY <1>4 DEF L!updateLeadFollowUp, old
  <2> DEFINE new == [old EXCEPT !.followUp = date]
  <2>2. new \in L(p)!Lead /\ FreshLead(new) /\ new.metaLeadId = old.metaLeadId
    BY <1>1, <1>2 DEF FreshLead, L!Lead
  <2> HIDE DEF new
  <2> QED
    BY <1>1, <2>1, <2>2, WriteKeepsLeads DEF new, old
<1>5. CASE L(p)!addActivity(r)
  <2>1. PICK kind \in {"CALL", "EMAIL", "NOTE"}, declined \in BOOLEAN,
             date \in p.followUps \cup {old.followUp} :
          L(p)!Write(r, [old EXCEPT !.fresh = @ /\ kind \notin L(p)!Contacts,
                                     !.contacted = @ \/ kind \in L(p)!Contacts,
                                     !.declined = @ \/ declined,
                                     !.followUp = date])
    BY <1>5 DEF L!addActivity, old
  <2> DEFINE fresh == old.fresh /\ kind \notin L(p)!Contacts
             contacted == old.contacted \/ kind \in L(p)!Contacts
             refused == old.declined \/ declined
             new == [old EXCEPT !.fresh = fresh, !.contacted = contacted,
                                !.declined = refused, !.followUp = date]
  <2>2. /\ fresh \in BOOLEAN /\ contacted \in BOOLEAN /\ refused \in BOOLEAN
        /\ fresh => old.fresh /\ ~contacted
        /\ date \in p.followUps \cup {None}
    BY <1>2 DEF FreshLead, L!Lead
  <2>3. L(p)!Write(r, new)
    BY <2>1
  <2> HIDE DEF fresh, contacted, refused
  <2>4. new \in L(p)!Lead /\ FreshLead(new) /\ new.metaLeadId = old.metaLeadId
    BY <1>1, <1>2, <2>2 DEF FreshLead, L!Lead
  <2> HIDE DEF new
  <2> QED
    BY <1>1, <2>3, <2>4, WriteKeepsLeads DEF old
<1>6. CASE L(p)!changeStatus(r)
  <2>1. PICK to \in L(p)!LeadStatus :
          L(p)!Write(r, [old EXCEPT !.status = to, !.fresh = FALSE, !.stage = to])
    BY <1>6 DEF L!changeStatus, old
  <2> DEFINE new == [old EXCEPT !.status = to, !.fresh = FALSE, !.stage = to]
  <2>2. new \in L(p)!Lead /\ FreshLead(new) /\ new.metaLeadId = old.metaLeadId
    BY <1>1, <1>2 DEF FreshLead, L!Lead
  <2> HIDE DEF new
  <2> QED
    BY <1>1, <2>1, <2>2, WriteKeepsLeads DEF new, old
<1>7. CASE L(p)!sendToManager(r)
  <2>1. PICK m \in p.users :
          L(p)!Write(r, [old EXCEPT !.status = "MANAGER_REVIEW", !.manager = m,
                                     !.fresh = FALSE, !.stage = "MANAGER_REVIEW"])
    BY <1>7 DEF L!sendToManager, old
  <2> DEFINE new == [old EXCEPT !.status = "MANAGER_REVIEW", !.manager = m,
                                 !.fresh = FALSE, !.stage = "MANAGER_REVIEW"]
  <2>2. new \in L(p)!Lead /\ FreshLead(new) /\ new.metaLeadId = old.metaLeadId
    BY <1>1, <1>2 DEF FreshLead, L!Lead, L!LeadStatus
  <2> HIDE DEF new
  <2> QED
    BY <1>1, <2>1, <2>2, WriteKeepsLeads DEF new, old
<1>8. CASE L(p)!assignToSales(r)
  <2>1. PICK s \in p.users :
          L(p)!Write(r, [old EXCEPT !.status = "ASSIGNED", !.sales = s, !.fresh = FALSE,
                                     !.stage = IF leadCalls[r].status = "MANAGER_REVIEW"
                                               THEN "ASSIGNED" ELSE @])
    BY <1>8 DEF L!assignToSales, old
  <2> DEFINE new == [old EXCEPT !.status = "ASSIGNED", !.sales = s, !.fresh = FALSE,
                                 !.stage = IF leadCalls[r].status = "MANAGER_REVIEW"
                                           THEN "ASSIGNED" ELSE @]
  <2>2. new \in L(p)!Lead /\ FreshLead(new) /\ new.metaLeadId = old.metaLeadId
    BY <1>1, <1>2 DEF FreshLead, L!Lead, L!LeadStatus
  <2> HIDE DEF new
  <2> QED
    BY <1>1, <2>1, <2>2, WriteKeepsLeads DEF new, old
<1> QED
  BY <1>3, <1>4, <1>5, <1>6, <1>7, <1>8

\* A new lead is of no form, or of one that has no lead yet.
LEMMA NewLeadKeeps ==
    ASSUME NEW p, LeadsInv(p), NEW l \in p.leadIds, NEW owner \in p.users \cup {None},
           NEW phone \in {"-", "form", "user"}, NEW leadgen \in p.leadgens \cup {None},
           leads[l] = L(p)!Unused,
           leadgen = None \/ L(p)!Of(leadgen) = {},
           leads' = [leads EXCEPT ![l] = L(p)!NewLead(owner, phone, leadgen)]
    PROVE  /\ leads' \in [p.leadIds -> L(p)!Lead \cup {L(p)!Unused, L(p)!Deleted}]
           /\ \A k \in p.leadIds : L(p)!Exists(k)' => FreshLead(leads'[k])
           /\ L(p)!OneLeadPerLeadgen'
<1> DEFINE new == L(p)!NewLead(owner, phone, leadgen)
<1>1. new \in L(p)!Lead /\ FreshLead(new) /\ new.metaLeadId = leadgen
  BY DEF FreshLead, L!NewLead, L!Lead, L!LeadStatus
<1> HIDE DEF new
<1>2. \A k \in p.leadIds : leads'[k] = IF k = l THEN new ELSE leads[k]
  BY DEF LeadsInv, LeadsTypes, L!TypeOK, new
<1>3. leads' \in [p.leadIds -> L(p)!Lead \cup {L(p)!Unused, L(p)!Deleted}]
  BY <1>1 DEF LeadsInv, LeadsTypes, L!TypeOK, new
<1>4. \A k \in p.leadIds : k # l => (L(p)!Exists(k)' <=> L(p)!Exists(k))
  BY <1>2 DEF L!Exists
<1>5. \A k \in p.leadIds : L(p)!Exists(k)' => FreshLead(leads'[k])
  BY <1>1, <1>2, <1>4 DEF LeadsInv
<1>6. \A k \in p.leadIds : k # l /\ L(p)!Exists(k)' =>
        leadgen = None \/ leads'[k].metaLeadId # leadgen
  BY <1>2, <1>4 DEF L!Of
<1>7. L(p)!OneLeadPerLeadgen'
  BY <1>1, <1>2, <1>4, <1>6 DEF LeadsInv, L!OneLeadPerLeadgen
<1> QED
  BY <1>3, <1>5, <1>7

\* A delivery creates the lead of its form, or fills in what that lacks.
LEMMA WebhookKeepsLeads ==
    ASSUME NEW p, LeadsInv(p), NEW h \in p.hooks,
           L(p)!createFromLeadgen(h) \/ L(p)!patchFromLeadgen(h)
    PROVE  LeadsInv(p)'
<1>1. hooks[h] \in L(p)!Hook /\ L(p)!Callcenters # {}
  BY DEF LeadsInv, LeadsTypes, L!TypeOK, L!createFromLeadgen, L!patchFromLeadgen
<1>2. /\ hooks' \in [p.hooks -> L(p)!Hook \cup {L(p)!Idle}]
      /\ L(p)!Callcenters # {} /\ leadCalls' = leadCalls
  BY <1>1 DEF LeadsInv, LeadsTypes, L!TypeOK, L!createFromLeadgen, L!patchFromLeadgen
<1>3. CASE L(p)!createFromLeadgen(h)
  <2>1. PICK l \in p.leadIds :
          /\ leads[l] = L(p)!Unused
          /\ leads' = [leads EXCEPT ![l] =
                         L(p)!NewLead(L(p)!Callcenter, hooks[h].phone, hooks[h].leadgen)]
          /\ L(p)!Of(hooks[h].leadgen) = {}
    BY <1>3 DEF L!createFromLeadgen
  <2>2. L(p)!Callcenter \in p.users
    BY <1>1 DEF L!Callcenter, L!Callcenters
  <2>3. hooks[h].phone \in {"-", "form", "user"} /\ hooks[h].leadgen \in p.leadgens
    BY <1>1 DEF L!Hook
  <2> QED
    BY <1>2, <2>1, <2>2, <2>3, NewLeadKeeps DEF LeadsInv, LeadsTypes, L!TypeOK, L!Callcenters
<1>4. CASE L(p)!patchFromLeadgen(h)
  <2> DEFINE l == hooks[h].lead
             lead == [leads[l] EXCEPT !.phone = IF hooks[h].gap /\ hooks[h].phone # "-"
                                                THEN hooks[h].phone ELSE @]
  <2>1. l \in p.leadIds /\ L(p)!Exists(l) /\ leads' = [leads EXCEPT ![l] = lead]
    BY <1>1, <1>4 DEF L!patchFromLeadgen, L!Hook
  <2>2. leads[l] \in L(p)!Lead /\ FreshLead(leads[l])
    BY <2>1, LeadIsRow DEF LeadsInv
  <2>3. hooks[h].phone \in {"-", "form"}
    BY <1>1 DEF L!Hook
  <2>4. lead \in L(p)!Lead /\ FreshLead(lead) /\ lead.metaLeadId = leads[l].metaLeadId
    BY <2>2, <2>3 DEF L!Lead, FreshLead
  <2> HIDE DEF lead
  <2> QED
    BY <1>2, <2>1, <2>4, RowsKeepLeads DEF LeadsInv, LeadsTypes, L!TypeOK, L!Callcenters
<1> QED
  BY <1>3, <1>4

LEMMA LeadsKeep ==
    ASSUME NEW p, LeadsInv(p), [L(p)!Next]_(L(p)!vars)
    PROVE  LeadsInv(p)'
<1>1. ASSUME UNCHANGED leads, leadCalls' \in [p.requests -> L(p)!Call \cup {L(p)!Idle}],
             hooks' \in [p.hooks -> L(p)!Hook \cup {L(p)!Idle}],
             hooks' = hooks \/ L(p)!Callcenters # {}
      PROVE  LeadsInv(p)'
  BY <1>1 DEF LeadsInv, LeadsTypes, L!TypeOK, L!Exists, L!OneLeadPerLeadgen, L!Callcenters
<1>2. ASSUME NEW r \in p.requests, NEW u \in p.users, NEW l \in p.leadIds, L(p)!Read(r, u, l)
      PROVE  LeadsInv(p)'
  <2>1. leads[l] \in L(p)!Lead
    BY <1>2, LeadIsRow DEF L!Read, L!Accessible
  <2>2. [user |-> u, lead |-> l, status |-> leads[l].status] \in L(p)!Call
    BY <2>1 DEF L!Call, L!Lead
  <2> QED
    BY <1>1, <1>2, <2>2 DEF L!Read, LeadsInv, LeadsTypes, L!TypeOK
<1>3. ASSUME NEW r \in p.requests, L(p)!End(r) PROVE LeadsInv(p)'
  BY <1>1, <1>3 DEF L!End, LeadsInv, LeadsTypes, L!TypeOK
<1>4. ASSUME NEW u \in p.users, L(p)!createLead(u) PROVE LeadsInv(p)'
  <2>1. PICK l \in p.leadIds :
          /\ leads[l] = L(p)!Unused
          /\ leads' = [leads EXCEPT ![l] =
               L(p)!NewLead(IF p.role[u] = "CALLCENTER" THEN u ELSE None, "user", None)]
    BY <1>4 DEF L!createLead
  <2> QED
    BY <1>4, <2>1, NewLeadKeeps DEF L!createLead, LeadsInv, LeadsTypes, L!TypeOK, L!Callcenters
<1>5. ASSUME NEW u \in p.users, NEW ids \in SUBSET p.leadIds, L(p)!bulkDelete(u, ids)
      PROVE  LeadsInv(p)'
  <2>1. \A l \in p.leadIds : leads'[l] = leads[l] \/ leads'[l] = L(p)!Deleted
    BY <1>5 DEF L!bulkDelete
  <2>2. leads' \in [p.leadIds -> L(p)!Lead \cup {L(p)!Unused, L(p)!Deleted}]
    BY <1>5 DEF L!bulkDelete, LeadsInv, LeadsTypes, L!TypeOK
  <2>3. \A l \in p.leadIds : L(p)!Exists(l)' => L(p)!Exists(l) /\ leads'[l] = leads[l]
    BY <2>1 DEF L!Exists
  <2> QED
    BY <1>5, <2>2, <2>3
       DEF L!bulkDelete, LeadsInv, LeadsTypes, L!TypeOK, L!OneLeadPerLeadgen, L!Callcenters
<1>6. ASSUME NEW h \in p.hooks, NEW g \in p.leadgens, L(p)!receive(h, g)
      PROVE  LeadsInv(p)'
  <2>1. PICK phone \in {"-", "form"}, l \in IF L(p)!Of(g) = {} THEN {None} ELSE L(p)!Of(g) :
          hooks' = [hooks EXCEPT ![h] =
                      [leadgen |-> g, lead |-> l, phone |-> phone,
                       gap |-> l # None /\ leads[l].phone = "-"]]
    BY <1>6 DEF L!receive
  <2>2. [leadgen |-> g, lead |-> l, phone |-> phone,
         gap |-> l # None /\ leads[l].phone = "-"] \in L(p)!Hook
    BY DEF L!Hook, L!Of
  <2> QED
    BY <1>1, <1>6, <2>1, <2>2 DEF L!receive, LeadsInv, LeadsTypes, L!TypeOK
<1>7. ASSUME NEW h \in p.hooks, L(p)!receiveFailed(h)
      PROVE  LeadsInv(p)'
  <2>1. L(p)!Callcenters # {}
    BY <1>7 DEF LeadsInv, LeadsTypes, L!receiveFailed
  <2> QED
    BY <1>1, <1>7, <2>1 DEF L!receiveFailed, LeadsInv, LeadsTypes, L!TypeOK
<1>8. CASE UNCHANGED L(p)!vars
  BY <1>1, <1>8 DEF L!vars, LeadsInv, LeadsTypes, L!TypeOK
<1> QED
  BY <1>2, <1>3, <1>4, <1>5, <1>6, <1>7, <1>8, RequestsKeepLeads, WebhookKeepsLeads DEF L!Next

LeadPartsInv == IF part = "webhook" THEN LeadsInv(Webhook) ELSE LeadsInv(Pipeline)

LEMMA LeadPartsStart == Init => LeadPartsInv
  BY LeadsStart DEF Init, LeadPartsInv

LEMMA LeadPartsKeep == LeadPartsInv /\ [Next]_vars => LeadPartsInv'
  BY PartsMove, LeadsKeep DEF LeadPartsInv

\* A lead on top of the lists is new, uncontacted and in nobody's hands, however requests
\* overlap (leads.service.ts).
THEOREM FreshStaysUntilContact == Spec => []FreshUntilContact
<1>1. LeadPartsInv => FreshUntilContact
  BY DEF LeadPartsInv, LeadsInv, FreshUntilContact, L!FreshUntilContact, FreshLead
<1> QED
  BY <1>1, LeadPartsStart, LeadPartsKeep, PTL DEF Spec

------------------------------------------------------------------------------
(* Customers and units.                                                       *)

\* A request that has read its row.
Opened(p, about, ids, read) ==
    [stage: {"read", "stored", "removed", "canceling", "mailed"}, user: p.users,
     about: {about}, id: ids, row: read]

AnyOpened(p) ==
    Opened(p, "customer", p.customerIds, C(p)!Customer) \cup
    Opened(p, "unit", p.unitIds, C(p)!Unit) \cup
    Opened(p, "presentation", p.presentations, {None}) \cup
    Opened(p, "sale", p.unitIds, {None})

OwnerChange(p) == [from: p.users \cup {None}, to: p.users \cup {None}]

UnitRow(p) == C(p)!Unit \cup {C(p)!NoUnit, C(p)!Gone}

CustomerTables(p) ==
    /\ customers \in [p.customerIds -> C(p)!Customer \cup {C(p)!Unused, C(p)!Deleted}]
    /\ customers[p.dnd] # C(p)!Deleted
    /\ units \in [p.unitIds -> UnitRow(p)]
    /\ presentations \in [p.presentations -> C(p)!Presentation \cup {C(p)!NoUnit}]
    /\ documents \in [p.documents -> p.customerIds \cup {None}]
    /\ files \subseteq p.documents
    /\ owners \in [p.customerIds -> Seq(OwnerChange(p))]
    /\ spins \in [p.unitIds -> {0, 1}]
    /\ customerCalls \in [p.requests -> AnyOpened(p) \cup {C(p)!Idle}]

\* Units are of customers that are there, each has a unit once.
UnitsInv(p) ==
    /\ \A x \in C(p)!Sold : units[x].customer \in C(p)!Present
    /\ C(p)!OneRowPerUnit

\* The number of a unit is that of the row a request has read, however old that is.
KnowsUnit(p, r) ==
    customerCalls[r] \in Opened(p, "unit", p.unitIds, C(p)!Unit) =>
        LET x == customerCalls[r].id
        IN  units[x] # C(p)!NoUnit
            /\ (x \in C(p)!Sold => units[x].number = customerCalls[r].row.number)

CustomersInv(p) ==
    /\ CustomerTables(p)
    /\ UnitsInv(p)
    /\ \A r \in p.requests : KnowsUnit(p, r)

\* The rows of units come and go, each with one number.
NumbersStay(p) ==
    \A x \in p.unitIds : units[x] # C(p)!NoUnit =>
        /\ units'[x] # C(p)!NoUnit
        /\ units'[x] # C(p)!Gone => units[x] # C(p)!Gone /\ units'[x].number = units[x].number

LEMMA CustomersStart ==
    ASSUME NEW p, C(p)!CustomersAssumption, C(p)!Init
    PROVE  CustomersInv(p)
<1>1. CustomerTables(p)
  BY DEF C!Init, C!CustomersAssumption, CustomerTables, UnitRow, C!Unused, C!Deleted
<1>2. UnitsInv(p)
  BY DEF C!Init, UnitsInv, C!Sold, C!OneRowPerUnit
<1>3. \A r \in p.requests : KnowsUnit(p, r)
  BY DEF C!Init, KnowsUnit, Opened, C!Idle
<1> QED
  BY <1>1, <1>2, <1>3 DEF CustomersInv

\* The tables do not mix the rows that are there with the marks of those that are not.
LEMMA RowsThere ==
    ASSUME NEW p, CustomersInv(p)
    PROVE  /\ \A c \in p.customerIds : c \in C(p)!Present <=> customers[c] \in C(p)!Customer
           /\ \A x \in p.unitIds : x \in C(p)!Sold <=> units[x] \in C(p)!Unit
           /\ C(p)!NoUnit # C(p)!Gone
<1>1. \A v \in C(p)!Customer : v # C(p)!Unused /\ v # C(p)!Deleted
  BY DEF C!Customer, C!Unused, C!Deleted
<1>2. \A v \in C(p)!Unit : v # C(p)!NoUnit /\ v # C(p)!Gone
  BY DEF C!Unit, C!NoUnit, C!Gone
<1>3. C(p)!NoUnit # C(p)!Gone
  BY DEF C!NoUnit, C!Gone
<1>4. \A c \in p.customerIds : customers[c] \in C(p)!Customer \cup {C(p)!Unused, C(p)!Deleted}
  BY DEF CustomersInv, CustomerTables
<1>5. \A x \in p.unitIds : units[x] \in C(p)!Unit \cup {C(p)!NoUnit, C(p)!Gone}
  BY DEF CustomersInv, CustomerTables, UnitRow
<1> QED
  BY <1>1, <1>2, <1>3, <1>4, <1>5 DEF C!Present, C!Sold

Stages == {"read", "stored", "removed", "canceling", "mailed"}

CallsKnow(p) ==
    /\ customerCalls \in [p.requests -> AnyOpened(p) \cup {C(p)!Idle}]
    /\ \A r \in p.requests : KnowsUnit(p, r)

\* Each kind of request has read its kind of row.
LEMMA OpenedAs ==
    ASSUME NEW p, CustomersInv(p), NEW r \in p.requests, customerCalls[r] # C(p)!Idle
    PROVE  /\ customerCalls[r] \in AnyOpened(p)
           /\ customerCalls[r].user \in p.users
           /\ customerCalls[r].about = "customer" =>
                customerCalls[r] \in Opened(p, "customer", p.customerIds, C(p)!Customer)
           /\ customerCalls[r].about = "unit" =>
                customerCalls[r] \in Opened(p, "unit", p.unitIds, C(p)!Unit)
           /\ customerCalls[r].about = "presentation" => customerCalls[r].id \in p.presentations
           /\ customerCalls[r].about = "sale" => customerCalls[r].id \in p.unitIds
  BY DEF CustomersInv, CustomerTables, AnyOpened, Opened

LEMMA AtStarted ==
    ASSUME NEW p, NEW r, NEW about, NEW stage, stage # "idle", C(p)!At(r, about, stage)
    PROVE  customerCalls[r] # C(p)!Idle /\ customerCalls[r].about = about
  BY DEF C!At, C!Idle

LEMMA SameUnits ==
    ASSUME NEW p, UNCHANGED units
    PROVE  NumbersStay(p)
  BY DEF NumbersStay

\* A request that goes on or ends.
LEMMA CallsMoveOn ==
    ASSUME NEW p, CustomersInv(p), NEW r \in p.requests, NumbersStay(p),
           customerCalls[r] # C(p)!Idle,
           \/ C(p)!Done(r)
           \/ \E stage \in Stages : C(p)!Step(r, stage)
    PROVE  CallsKnow(p)'
<1>1. PICK call \in AnyOpened(p) \cup {C(p)!Idle} :
        /\ customerCalls' = [customerCalls EXCEPT ![r] = call]
        /\ call \in Opened(p, "unit", p.unitIds, C(p)!Unit) =>
             /\ customerCalls[r] \in Opened(p, "unit", p.unitIds, C(p)!Unit)
             /\ call.id = customerCalls[r].id /\ call.row = customerCalls[r].row
  <2>1. CASE C(p)!Done(r)
    <3>1. C(p)!Idle \notin Opened(p, "unit", p.unitIds, C(p)!Unit)
      BY DEF Opened, C!Idle
    <3> QED
      BY <2>1, <3>1 DEF C!Done
  <2>2. ASSUME NEW stage \in Stages, C(p)!Step(r, stage)
        PROVE  \E call \in AnyOpened(p) \cup {C(p)!Idle} :
                 /\ customerCalls' = [customerCalls EXCEPT ![r] = call]
                 /\ call \in Opened(p, "unit", p.unitIds, C(p)!Unit) =>
                      /\ customerCalls[r] \in Opened(p, "unit", p.unitIds, C(p)!Unit)
                      /\ call.id = customerCalls[r].id /\ call.row = customerCalls[r].row
    <3> DEFINE old == customerCalls[r]
               call == [old EXCEPT !.stage = stage]
    <3>1. customerCalls' = [customerCalls EXCEPT ![r] = call]
      BY <2>2 DEF C!Step
    <3>2. old \in AnyOpened(p)
      BY OpenedAs
    <3> HIDE DEF old
    <3>3. /\ call \in AnyOpened(p)
          /\ call \in Opened(p, "unit", p.unitIds, C(p)!Unit) =>
               /\ old \in Opened(p, "unit", p.unitIds, C(p)!Unit)
               /\ call.id = old.id /\ call.row = old.row
      <4>1. CASE old \in Opened(p, "customer", p.customerIds, C(p)!Customer)
        BY <4>1 DEF AnyOpened, Opened, Stages
      <4>2. CASE old \in Opened(p, "unit", p.unitIds, C(p)!Unit)
        BY <4>2 DEF AnyOpened, Opened, Stages
      <4>3. CASE old \in Opened(p, "presentation", p.presentations, {None})
        BY <4>3 DEF AnyOpened, Opened, Stages
      <4>4. CASE old \in Opened(p, "sale", p.unitIds, {None})
        BY <4>4 DEF AnyOpened, Opened, Stages
      <4> QED
        BY <3>2, <4>1, <4>2, <4>3, <4>4 DEF AnyOpened
    <3> HIDE DEF call
    <3> QED
      BY <3>1, <3>3 DEF old
  <2> QED
    BY <2>1, <2>2
<1>2. customerCalls' \in [p.requests -> AnyOpened(p) \cup {C(p)!Idle}]
  BY <1>1 DEF CustomersInv, CustomerTables
<1>3. ASSUME NEW q \in p.requests,
             customerCalls'[q] \in Opened(p, "unit", p.unitIds, C(p)!Unit)
      PROVE  LET x == customerCalls'[q].id
             IN  units'[x] # C(p)!NoUnit
                 /\ (units'[x] # C(p)!Gone => units'[x].number = customerCalls'[q].row.number)
  <2>1. /\ customerCalls[q] \in Opened(p, "unit", p.unitIds, C(p)!Unit)
        /\ customerCalls'[q].id = customerCalls[q].id
        /\ customerCalls'[q].row = customerCalls[q].row
    BY <1>1, <1>3 DEF CustomersInv, CustomerTables
  <2>2. customerCalls[q].id \in p.unitIds
    BY <2>1 DEF Opened
  <2>3. KnowsUnit(p, q)
    BY DEF CustomersInv
  <2> QED
    BY <2>1, <2>2, <2>3 DEF KnowsUnit, NumbersStay, C!Sold
<1> QED
  BY <1>2, <1>3 DEF CallsKnow, KnowsUnit, C!Sold

\* A request that starts has read the present row.
LEMMA CallsBegin ==
    ASSUME NEW p, CustomersInv(p), NEW r \in p.requests, NEW call \in AnyOpened(p),
           call \in Opened(p, "unit", p.unitIds, C(p)!Unit) => call.row = units[call.id],
           customerCalls' = [customerCalls EXCEPT ![r] = call], UNCHANGED units
    PROVE  CallsKnow(p)'
<1>1. customerCalls' \in [p.requests -> AnyOpened(p) \cup {C(p)!Idle}]
  BY DEF CustomersInv, CustomerTables
<1>2. ASSUME NEW q \in p.requests,
             customerCalls'[q] \in Opened(p, "unit", p.unitIds, C(p)!Unit)
      PROVE  LET x == customerCalls'[q].id
             IN  units[x] # C(p)!NoUnit
                 /\ (x \in C(p)!Sold => units[x].number = customerCalls'[q].row.number)
  <2>1. CASE q = r
    <3>1. customerCalls'[q] = call
      BY <2>1 DEF CustomersInv, CustomerTables
    <3>2. call.row \in C(p)!Unit /\ call.id \in p.unitIds
      BY <1>2, <3>1 DEF Opened
    <3> QED
      BY <1>2, <3>1, <3>2, RowsThere DEF C!Sold
  <2>2. CASE q # r
    <3>1. customerCalls'[q] = customerCalls[q]
      BY <2>2 DEF CustomersInv, CustomerTables
    <3>2. KnowsUnit(p, q)
      BY DEF CustomersInv
    <3> QED
      BY <1>2, <3>1, <3>2 DEF KnowsUnit
  <2> QED
    BY <2>1, <2>2
<1>3. C(p)!Sold' = C(p)!Sold
  BY DEF C!Sold
<1> QED
  BY <1>1, <1>2, <1>3 DEF CallsKnow, KnowsUnit

------------------------------------------------------------------------------

\* Customers that are there stay, and units as they are.
LEMMA UnitsStay ==
    ASSUME NEW p, CustomersInv(p), UNCHANGED units, C(p)!Present \subseteq C(p)!Present'
    PROVE  UnitsInv(p)'
<1>1. C(p)!Sold' = C(p)!Sold
  BY DEF C!Sold
<1> QED
  BY <1>1 DEF CustomersInv, UnitsInv, C!OneRowPerUnit

\* A unit is moved to a customer who does not have it.
LEMMA UnitEdited ==
    ASSUME NEW p, CustomersInv(p), NEW x \in C(p)!Sold, NEW row \in C(p)!Unit,
           row.number = units[x].number,
           units' = [units EXCEPT ![x] = row], UNCHANGED customers,
           row.customer \in C(p)!Present,
           row.customer = units[x].customer \/ C(p)!Free(x, row.customer, row.number)
    PROVE  /\ units' \in [p.unitIds -> UnitRow(p)]
           /\ UnitsInv(p)' /\ NumbersStay(p)
<1>1. x \in p.unitIds /\ units[x] # C(p)!NoUnit /\ units[x] # C(p)!Gone
  BY DEF C!Sold
<1>2. \A y \in p.unitIds : units'[y] = IF y = x THEN row ELSE units[y]
  BY DEF CustomersInv, CustomerTables
<1>3. row # C(p)!NoUnit /\ row # C(p)!Gone
  BY DEF C!Unit, C!NoUnit, C!Gone
<1>4. C(p)!Sold' = C(p)!Sold /\ C(p)!Present' = C(p)!Present
  BY <1>1, <1>2, <1>3 DEF C!Sold, C!Present
<1>5. units' \in [p.unitIds -> UnitRow(p)]
  BY DEF CustomersInv, CustomerTables, UnitRow
<1>6. NumbersStay(p)
  BY <1>1, <1>2, <1>3 DEF NumbersStay
<1>7. \A y \in C(p)!Sold : y \in p.unitIds
  BY DEF C!Sold
<1>8. \A y \in C(p)!Sold : units'[y].customer \in C(p)!Present
  BY <1>2, <1>7 DEF CustomersInv, UnitsInv
<1>9. \A y, z \in C(p)!Sold :
        units'[y].customer = units'[z].customer /\ units'[y].number = units'[z].number => y = z
  BY <1>2, <1>7 DEF CustomersInv, UnitsInv, C!OneRowPerUnit, C!Free, C!UnitsOf
<1> QED
  BY <1>4, <1>5, <1>6, <1>8, <1>9 DEF UnitsInv, C!OneRowPerUnit

\* Added: of the rows that are not in use, one for each number.
LEMMA AddedRows ==
    ASSUME NEW p, NEW left, NEW c, NEW numbers, NEW new \in C(p)!Added(left, c, numbers)
    PROVE  /\ DOMAIN new = p.unitIds
           /\ new = [x \in p.unitIds |-> new[x]]
           /\ \E id \in [numbers -> {x \in p.unitIds : left[x] = C(p)!NoUnit}] :
                \A x \in p.unitIds :
                  \/ new[x] = left[x]
                  \/ \E n \in numbers : id[n] = x /\ new[x] = C(p)!NewUnit(c, n)
<1>1. PICK id \in [numbers -> {x \in p.unitIds : left[x] = C(p)!NoUnit}] :
        new = [x \in p.unitIds |->
                 IF \E n \in numbers : id[n] = x
                 THEN C(p)!NewUnit(c, CHOOSE n \in numbers : id[n] = x) ELSE left[x]]
  BY DEF C!Added
<1>2. ASSUME NEW x \in p.unitIds
      PROVE  \/ new[x] = left[x]
             \/ \E n \in numbers : id[n] = x /\ new[x] = C(p)!NewUnit(c, n)
  <2>1. CASE \E n \in numbers : id[n] = x
    <3>1. (CHOOSE n \in numbers : id[n] = x) \in numbers
          /\ id[CHOOSE n \in numbers : id[n] = x] = x
      BY <2>1
    <3> QED
      BY <1>1, <2>1, <3>1
  <2> QED
    BY <1>1, <2>1
<1> QED
  BY <1>1, <1>2

\* A customer who is there gets units he does not have.
LEMMA UnitsAdded ==
    ASSUME NEW p, CustomersInv(p), NEW left \in [p.unitIds -> UnitRow(p)],
           NEW c \in p.customerIds, NEW numbers \in SUBSET p.numbers,
           units' \in C(p)!Added(left, c, numbers),
           C(p)!Present \subseteq C(p)!Present', c \in C(p)!Present',
           \A x \in p.unitIds : \/ left[x] = units[x]
                                \/ left[x] = C(p)!Gone /\ x \in C(p)!Sold,
           \A x \in C(p)!Sold : units[x].customer = c /\ left[x] = units[x] =>
                                  units[x].number \notin numbers
    PROVE  /\ units' \in [p.unitIds -> UnitRow(p)]
           /\ UnitsInv(p)' /\ NumbersStay(p)
<1>1. PICK id \in [numbers -> {x \in p.unitIds : left[x] = C(p)!NoUnit}] :
        \A x \in p.unitIds :
          \/ units'[x] = left[x]
          \/ \E n \in numbers : id[n] = x /\ units'[x] = C(p)!NewUnit(c, n)
  BY AddedRows
<1>2. \A n \in numbers : /\ C(p)!NewUnit(c, n) \in C(p)!Unit
                         /\ C(p)!NewUnit(c, n).customer = c /\ C(p)!NewUnit(c, n).number = n
                         /\ C(p)!NewUnit(c, n) # C(p)!NoUnit /\ C(p)!NewUnit(c, n) # C(p)!Gone
  BY DEF C!NewUnit, C!Unit, C!NoUnit, C!Gone
<1>3. units' = [x \in p.unitIds |-> units'[x]]
  BY AddedRows
<1>4. \A x \in p.unitIds : units'[x] \in UnitRow(p)
  BY <1>1, <1>2 DEF UnitRow
<1>5. units' \in [p.unitIds -> UnitRow(p)]
  BY <1>3, <1>4
<1>6. ASSUME NEW x \in p.unitIds, x \in C(p)!Sold'
      PROVE  \/ x \in C(p)!Sold /\ units'[x] = units[x] /\ left[x] = units[x]
             \/ \E n \in numbers : /\ id[n] = x
                                   /\ units'[x].customer = c /\ units'[x].number = n
  <2>1. units'[x] # C(p)!NoUnit /\ units'[x] # C(p)!Gone
    BY <1>6 DEF C!Sold
  <2>2. CASE units'[x] = left[x]
    BY <2>1, <2>2 DEF C!Sold
  <2> QED
    BY <1>1, <1>2, <2>2
<1>7. \A x \in C(p)!Sold' : x \in p.unitIds
  BY DEF C!Sold
<1>8. \A x \in C(p)!Sold' : units'[x].customer \in C(p)!Present'
  BY <1>6, <1>7 DEF CustomersInv, UnitsInv
<1>9. ASSUME NEW x \in C(p)!Sold', NEW y \in C(p)!Sold',
             units'[x].customer = units'[y].customer, units'[x].number = units'[y].number
      PROVE  x = y
  <2>1. x \in p.unitIds /\ y \in p.unitIds
    BY <1>7
  <2>2. CASE units'[x] = units[x] /\ x \in C(p)!Sold /\ left[x] = units[x]
             /\ units'[y] = units[y] /\ y \in C(p)!Sold
    BY <1>9, <2>2 DEF CustomersInv, UnitsInv, C!OneRowPerUnit
  <2>3. ASSUME NEW n \in numbers, id[n] = x, units'[x].customer = c, units'[x].number = n
        PROVE  x = y
    <3>1. CASE y \in C(p)!Sold /\ units'[y] = units[y] /\ left[y] = units[y]
      BY <1>9, <2>3, <3>1
    <3>2. ASSUME NEW m \in numbers, id[m] = y, units'[y].number = m
          PROVE  x = y
      BY <1>9, <2>3, <3>2
    <3> QED
      BY <1>6, <2>1, <3>1, <3>2
  <2>4. ASSUME NEW n \in numbers, id[n] = y, units'[y].customer = c, units'[y].number = n
        PROVE  x = y
    <3>1. CASE x \in C(p)!Sold /\ units'[x] = units[x] /\ left[x] = units[x]
      BY <1>9, <2>4, <3>1
    <3>2. ASSUME NEW m \in numbers, id[m] = x, units'[x].number = m
          PROVE  x = y
      BY <1>9, <2>4, <3>2
    <3> QED
      BY <1>6, <2>1, <3>1, <3>2
  <2> QED
    BY <1>6, <2>1, <2>2, <2>3, <2>4
<1>10. ASSUME NEW x \in p.unitIds, units[x] # C(p)!NoUnit
       PROVE  /\ units'[x] # C(p)!NoUnit
              /\ units'[x] # C(p)!Gone =>
                   units[x] # C(p)!Gone /\ units'[x].number = units[x].number
  <2>1. left[x] # C(p)!NoUnit
    BY <1>10, RowsThere
  <2>2. units'[x] = left[x]
    BY <1>1, <2>1
  <2> QED
    BY <1>10, <2>1, <2>2 DEF C!Sold
<1> QED
  BY <1>5, <1>8, <1>9, <1>10 DEF UnitsInv, C!OneRowPerUnit, NumbersStay

LEMMA createCustomerKeeps ==
    ASSUME NEW p, CustomersInv(p), NEW u \in p.users, C(p)!createCustomer(u)
    PROVE  CustomersInv(p)'
<1>1. PICK c \in p.customerIds \ {p.dnd}, wanted \in C(p)!MayOwn,
           type \in {"POTENTIAL", "EXISTING"}, numbers \in SUBSET p.numbers :
        /\ customers[c] = C(p)!Unused
        /\ customers' = [customers EXCEPT ![c] =
             [owner |-> C(p)!OwnerFor(u, wanted), type |-> type]]
        /\ units' \in C(p)!Added(units, c, numbers)
  BY DEF C!createCustomer
<1> DEFINE row == [owner |-> C(p)!OwnerFor(u, wanted), type |-> type]
<1>2. row \in C(p)!Customer /\ row # C(p)!Unused /\ row # C(p)!Deleted
  BY DEF C!Customer, C!OwnerFor, C!MayOwn, C!Unused, C!Deleted
<1> HIDE DEF row
<1>3. customers' = [customers EXCEPT ![c] = row]
  BY <1>1 DEF row
<1>4. /\ customers' \in [p.customerIds -> C(p)!Customer \cup {C(p)!Unused, C(p)!Deleted}]
      /\ customers'[p.dnd] # C(p)!Deleted
  BY <1>2, <1>3 DEF CustomersInv, CustomerTables
<1>5. \A d \in p.customerIds : customers'[d] = IF d = c THEN row ELSE customers[d]
  BY <1>3 DEF CustomersInv, CustomerTables
<1>6. C(p)!Present \subseteq C(p)!Present' /\ c \in C(p)!Present'
  BY <1>2, <1>5 DEF C!Present
<1>7. \A x \in C(p)!Sold : units[x].customer # c
  BY <1>1 DEF CustomersInv, UnitsInv, C!Present
<1>8. /\ units' \in [p.unitIds -> UnitRow(p)]
      /\ UnitsInv(p)' /\ NumbersStay(p)
  <2>1. units \in [p.unitIds -> UnitRow(p)]
    BY DEF CustomersInv, CustomerTables
  <2>2. \A x \in C(p)!Sold : units[x].customer = c /\ units[x] = units[x] =>
                                 units[x].number \notin numbers
    BY <1>7
  <2>3. \A x \in p.unitIds : \/ units[x] = units[x]
                             \/ units[x] = C(p)!Gone /\ x \in C(p)!Sold
    OBVIOUS
  <2> QED
    BY <1>1, <1>6, <2>1, <2>2, <2>3, UnitsAdded
<1>9. \A r \in p.requests : KnowsUnit(p, r)'
  <2> SUFFICES ASSUME NEW r \in p.requests,
                      customerCalls[r] \in Opened(p, "unit", p.unitIds, C(p)!Unit)
               PROVE  LET x == customerCalls[r].id
                      IN  units'[x] # C(p)!NoUnit
                          /\ (units'[x] # C(p)!Gone =>
                                units'[x].number = customerCalls[r].row.number)
    BY DEF KnowsUnit, C!createCustomer, C!Sold
  <2>1. customerCalls[r].id \in p.unitIds
    BY DEF Opened
  <2>2. KnowsUnit(p, r)
    BY DEF CustomersInv
  <2> QED
    BY <1>8, <2>1, <2>2 DEF KnowsUnit, NumbersStay, C!Sold
<1> QED
  BY <1>4, <1>8, <1>9 DEF CustomersInv, CustomerTables, C!createCustomer

LEMMA updateCustomerKeeps ==
    ASSUME NEW p, C(p)!CustomersAssumption, CustomersInv(p), NEW r \in p.requests,
           C(p)!updateCustomer(r)
    PROVE  CustomersInv(p)'
<1> DEFINE c == customerCalls[r].id
<1>1. /\ customerCalls[r] # C(p)!Idle
      /\ customerCalls[r] \in Opened(p, "customer", p.customerIds, C(p)!Customer)
  BY AtStarted, OpenedAs DEF C!updateCustomer
<1>2. c \in p.customerIds /\ customerCalls[r].row \in C(p)!Customer
      /\ customerCalls[r].row.owner \in p.users \cup {None}
  BY <1>1 DEF Opened, C!Customer
<1>3. c \in C(p)!Present /\ customers[c] \in C(p)!Customer
  BY <1>2, RowsThere DEF C!updateCustomer
<1>4. PICK row \in C(p)!Customer : customers' = [customers EXCEPT ![c] = row]
  <2>1. PICK owner \in C(p)!MayOwn, type \in {"POTENTIAL", "EXISTING"}, changesOwner \in BOOLEAN :
          customers' = [customers EXCEPT ![c] =
            [owner |-> IF changesOwner THEN owner ELSE customers[c].owner, type |-> type]]
    BY DEF C!updateCustomer
  <2>2. [owner |-> IF changesOwner THEN owner ELSE customers[c].owner, type |-> type]
          \in C(p)!Customer
    BY <1>3 DEF C!Customer, C!MayOwn
  <2> QED
    BY <2>1, <2>2
<1>5. owners' \in [p.customerIds -> Seq(OwnerChange(p))]
  <2>1. CASE UNCHANGED owners
    BY <2>1 DEF CustomersInv, CustomerTables
  <2>2. ASSUME NEW owner \in C(p)!MayOwn,
               owners' = [owners EXCEPT ![c] =
                 Append(owners[c], [from |-> customerCalls[r].row.owner, to |-> owner])]
        PROVE  owners' \in [p.customerIds -> Seq(OwnerChange(p))]
    <3>1. [from |-> customerCalls[r].row.owner, to |-> owner] \in OwnerChange(p)
      BY <1>2 DEF OwnerChange, C!MayOwn
    <3>2. owners[c] \in Seq(OwnerChange(p)) /\ owners \in [p.customerIds -> Seq(OwnerChange(p))]
      BY <1>2 DEF CustomersInv, CustomerTables
    <3>3. Append(owners[c], [from |-> customerCalls[r].row.owner, to |-> owner])
            \in Seq(OwnerChange(p))
      BY <3>1, <3>2
    <3> QED
      BY <2>2, <3>2, <3>3
  <2> QED
    BY <2>1, <2>2 DEF C!updateCustomer
<1>6. /\ customers' \in [p.customerIds -> C(p)!Customer \cup {C(p)!Unused, C(p)!Deleted}]
      /\ customers'[p.dnd] # C(p)!Deleted
  <2>1. row # C(p)!Deleted
    BY DEF C!Customer, C!Deleted
  <2> QED
    BY <1>4, <2>1 DEF CustomersInv, CustomerTables, C!CustomersAssumption
<1>7. C(p)!Present \subseteq C(p)!Present' /\ c \in C(p)!Present'
  <2>1. row # C(p)!Unused /\ row # C(p)!Deleted
    BY DEF C!Customer, C!Unused, C!Deleted
  <2>2. \A d \in p.customerIds : customers'[d] = IF d = c THEN row ELSE customers[d]
    BY <1>4 DEF CustomersInv, CustomerTables
  <2> QED
    BY <1>2, <2>1, <2>2 DEF C!Present
<1>8. /\ units' \in [p.unitIds -> UnitRow(p)]
      /\ UnitsInv(p)' /\ NumbersStay(p)
  <2>1. CASE UNCHANGED units
    BY <1>7, <2>1, UnitsStay, SameUnits DEF CustomersInv, CustomerTables
  <2>2. ASSUME NEW numbers \in SUBSET p.numbers, units' \in C(p)!WithNumbers(c, numbers)
        PROVE  /\ units' \in [p.unitIds -> UnitRow(p)]
               /\ UnitsInv(p)' /\ NumbersStay(p)
    <3> DEFINE dropped == {x \in C(p)!UnitsOf(c) : units[x].number \notin numbers}
               kept    == {units[x].number : x \in C(p)!UnitsOf(c) \ dropped}
               left    == [x \in p.unitIds |-> IF x \in dropped THEN C(p)!Gone ELSE units[x]]
    <3>1. units' \in C(p)!Added(left, c, numbers \ kept)
      BY <2>2 DEF C!WithNumbers
    <3>2. left \in [p.unitIds -> UnitRow(p)]
      BY DEF UnitRow, CustomersInv, CustomerTables
    <3>3. \A x \in p.unitIds : \/ left[x] = units[x]
                               \/ left[x] = C(p)!Gone /\ x \in C(p)!Sold
      BY DEF C!UnitsOf
    <3>4. \A x \in C(p)!Sold : units[x].customer = c /\ left[x] = units[x] =>
                                 units[x].number \notin numbers \ kept
      BY DEF C!UnitsOf, C!Sold
    <3>5. numbers \ kept \in SUBSET p.numbers
      OBVIOUS
    <3> HIDE DEF dropped, kept, left
    <3> QED
      BY <1>2, <1>7, <3>1, <3>2, <3>3, <3>4, <3>5, UnitsAdded
  <2> QED
    BY <2>1, <2>2 DEF C!updateCustomer
<1>9. CallsKnow(p)'
  BY <1>1, <1>8, CallsMoveOn DEF C!updateCustomer
<1> QED
  BY <1>5, <1>6, <1>8, <1>9 DEF CustomersInv, CustomerTables, CallsKnow, C!updateCustomer

LEMMA deleteCustomerKeeps ==
    ASSUME NEW p, C(p)!CustomersAssumption, CustomersInv(p), NEW r \in p.requests,
           C(p)!deleteCustomer(r)
    PROVE  CustomersInv(p)'
<1> DEFINE c == customerCalls[r].id
<1>1. /\ customerCalls[r] # C(p)!Idle
      /\ customerCalls[r] \in Opened(p, "customer", p.customerIds, C(p)!Customer)
  BY AtStarted, OpenedAs DEF C!deleteCustomer
<1>2. c \in p.customerIds
  BY <1>1 DEF Opened
<1>3. customers' = [customers EXCEPT ![c] = IF c = p.dnd THEN C(p)!Unused ELSE C(p)!Deleted]
  BY DEF C!deleteCustomer
<1>4. /\ customers' \in [p.customerIds -> C(p)!Customer \cup {C(p)!Unused, C(p)!Deleted}]
      /\ customers'[p.dnd] # C(p)!Deleted
  <2>1. C(p)!Unused # C(p)!Deleted
    BY DEF C!Unused, C!Deleted
  <2> QED
    BY <1>3, <2>1 DEF CustomersInv, CustomerTables, C!CustomersAssumption
<1>5. \A d \in C(p)!Present : d # c => d \in C(p)!Present'
  BY <1>3 DEF CustomersInv, CustomerTables, C!Present
<1>6. units' = [x \in p.unitIds |->
                CASE x \in C(p)!UnitsOf(c) -> C(p)!Gone
                  [] x \in C(p)!Sold \ C(p)!UnitsOf(c) /\ units[x].previous = c
                       -> [units[x] EXCEPT !.previous = None]
                  [] OTHER -> units[x]]
  BY DEF C!deleteCustomer
<1>7. ASSUME NEW x \in p.unitIds
      PROVE  \/ units'[x] = units[x] /\ x \notin C(p)!UnitsOf(c)
             \/ x \in C(p)!Sold /\ units'[x] = C(p)!Gone
             \/ /\ x \in C(p)!Sold \ C(p)!UnitsOf(c) /\ units'[x] \in C(p)!Unit
                /\ units'[x].customer = units[x].customer /\ units'[x].number = units[x].number
  <2>1. CASE x \in C(p)!UnitsOf(c)
    BY <1>6, <2>1 DEF C!UnitsOf
  <2>2. CASE x \in C(p)!Sold \ C(p)!UnitsOf(c) /\ units[x].previous = c
    <3>1. units'[x] = [units[x] EXCEPT !.previous = None]
      BY <1>6, <2>2
    <3>2. units[x] \in C(p)!Unit
      BY <2>2, RowsThere
    <3> QED
      BY <2>2, <3>1, <3>2 DEF C!Unit
  <2> QED
    BY <1>6, <2>1, <2>2
<1>8. \A x \in p.unitIds : units[x] \in UnitRow(p)
  BY DEF CustomersInv, CustomerTables
<1>9. units' \in [p.unitIds -> UnitRow(p)]
  BY <1>6, <1>7, <1>8 DEF UnitRow
<1>10. \A x \in C(p)!Sold' :
         /\ x \in C(p)!Sold /\ x \notin C(p)!UnitsOf(c)
         /\ units'[x].customer = units[x].customer /\ units'[x].number = units[x].number
  BY <1>7 DEF C!Sold
<1>11. UnitsInv(p)'
  BY <1>5, <1>10 DEF CustomersInv, UnitsInv, C!OneRowPerUnit, C!UnitsOf
<1>12. NumbersStay(p)
  BY <1>7, RowsThere DEF NumbersStay, C!Sold, C!Unit, C!NoUnit, C!Gone
<1>13. CallsKnow(p)'
  BY <1>1, <1>12, CallsMoveOn DEF C!deleteCustomer
<1>14. presentations' \in [p.presentations -> C(p)!Presentation \cup {C(p)!NoUnit}]
       /\ documents' \in [p.documents -> p.customerIds \cup {None}]
  BY DEF C!deleteCustomer, CustomersInv, CustomerTables
<1>15. owners' \in [p.customerIds -> Seq(OwnerChange(p))]
  <2>1. << >> \in Seq(OwnerChange(p))
    OBVIOUS
  <2> QED
    BY <2>1 DEF C!deleteCustomer, CustomersInv, CustomerTables
<1> QED
  BY <1>4, <1>9, <1>11, <1>13, <1>14, <1>15
     DEF CustomersInv, CustomerTables, CallsKnow, C!deleteCustomer

\* The system customer is there once a unit is to be canceled.
LEMMA ensureDndKeeps ==
    ASSUME NEW p, C(p)!CustomersAssumption, CustomersInv(p), NEW r \in p.requests,
           C(p)!ensureDndCompanyCustomer(r)
    PROVE  CustomersInv(p)'
<1>1. customerCalls[r] # C(p)!Idle
  BY AtStarted DEF C!ensureDndCompanyCustomer
<1> DEFINE row == [owner |-> IF customers[p.dnd] = C(p)!Unused THEN None
                             ELSE customers[p.dnd].owner, type |-> "EXISTING"]
<1>2. customers' = [customers EXCEPT ![p.dnd] = row] /\ UNCHANGED units
  BY DEF C!ensureDndCompanyCustomer
<1>3. row \in C(p)!Customer
  <2>1. customers[p.dnd] \in C(p)!Customer \cup {C(p)!Unused}
    BY DEF CustomersInv, CustomerTables, C!CustomersAssumption
  <2> QED
    BY <2>1 DEF C!Customer
<1>4. row # C(p)!Unused /\ row # C(p)!Deleted
  BY <1>3 DEF C!Customer, C!Unused, C!Deleted
<1> HIDE DEF row
<1>5. /\ customers' \in [p.customerIds -> C(p)!Customer \cup {C(p)!Unused, C(p)!Deleted}]
      /\ customers'[p.dnd] # C(p)!Deleted
  BY <1>2, <1>3, <1>4 DEF CustomersInv, CustomerTables, C!CustomersAssumption
<1>6. C(p)!Present \subseteq C(p)!Present'
  BY <1>2, <1>4 DEF CustomersInv, CustomerTables, C!Present
<1>7. UnitsInv(p)' /\ NumbersStay(p)
  BY <1>2, <1>6, UnitsStay, SameUnits
<1>8. CallsKnow(p)'
  BY <1>1, <1>7, CallsMoveOn DEF C!ensureDndCompanyCustomer, Stages
<1> QED
  BY <1>5, <1>7, <1>8
     DEF CustomersInv, CustomerTables, CallsKnow, C!ensureDndCompanyCustomer

\* A request about a unit: what it has read, and the row as it is.
LEMMA AboutUnit ==
    ASSUME NEW p, CustomersInv(p), NEW r \in p.requests, customerCalls[r] # C(p)!Idle,
           customerCalls[r].about = "unit", customerCalls[r].id \in C(p)!Sold
    PROVE  /\ customerCalls[r].row \in C(p)!Unit
           /\ customerCalls[r].id \in p.unitIds
           /\ units[customerCalls[r].id] \in C(p)!Unit
           /\ units[customerCalls[r].id].number = customerCalls[r].row.number
<1>1. customerCalls[r] \in Opened(p, "unit", p.unitIds, C(p)!Unit)
  BY OpenedAs
<1>2. KnowsUnit(p, r)
  BY DEF CustomersInv
<1> QED
  BY <1>1, <1>2, RowsThere DEF Opened, KnowsUnit

LEMMA UnitWritten ==
    ASSUME NEW p, CustomersInv(p), NEW r \in p.requests, NEW row \in C(p)!Unit,
           customerCalls[r] # C(p)!Idle, customerCalls[r].about = "unit",
           customerCalls[r].id \in C(p)!Sold,
           row.number = customerCalls[r].row.number,
           units' = [units EXCEPT ![customerCalls[r].id] = row],
           row.customer \in C(p)!Present,
           \/ row.customer = units[customerCalls[r].id].customer
           \/ C(p)!Free(customerCalls[r].id, row.customer, customerCalls[r].row.number),
           C(p)!Done(r), UNCHANGED <<customers, presentations, documents, files, owners, spins>>
    PROVE  CustomersInv(p)'
<1>1. row.number = units[customerCalls[r].id].number
  BY AboutUnit
<1>2. /\ units' \in [p.unitIds -> UnitRow(p)]
      /\ UnitsInv(p)' /\ NumbersStay(p)
  BY <1>1, UnitEdited
<1>3. CallsKnow(p)'
  BY <1>2, CallsMoveOn
<1> QED
  BY <1>2, <1>3 DEF CustomersInv, CustomerTables, CallsKnow

LEMMA updateUnitKeeps ==
    ASSUME NEW p, C(p)!CustomersAssumption, CustomersInv(p), NEW r \in p.requests,
           C(p)!updateUnit(r)
    PROVE  CustomersInv(p)'
<1> DEFINE x == customerCalls[r].id
           read == customerCalls[r].row
           old == units[x]
<1>1. /\ customerCalls[r] # C(p)!Idle /\ customerCalls[r].about = "unit" /\ x \in C(p)!Sold
      /\ C(p)!Done(r)
      /\ UNCHANGED <<customers, presentations, documents, files, owners, spins>>
  BY DEF C!updateUnit, C!Cancels, C!Restores, C!At
<1>2. /\ read \in C(p)!Unit /\ old \in C(p)!Unit /\ old.number = read.number /\ x \in p.unitIds
      /\ old.customer \in C(p)!Present
  BY <1>1, AboutUnit DEF CustomersInv, UnitsInv
<1>3. PICK row \in C(p)!Unit :
        /\ units' = [units EXCEPT ![x] = row]
        /\ row.number = read.number
        /\ row.customer \in C(p)!Present
        /\ row.customer = old.customer \/ C(p)!Free(x, row.customer, read.number)
  <2> HIDE DEF read, old
  <2>1. CASE C(p)!Cancels(r) /\ read.customer = p.dnd
    <3> DEFINE row == [old EXCEPT !.canceled = TRUE]
    <3>1. units' = [units EXCEPT ![x] = row]
      BY <2>1 DEF C!Cancels, old, read
    <3>2. row \in C(p)!Unit /\ row.number = old.number /\ row.customer = old.customer
      BY <1>2 DEF C!Unit
    <3> HIDE DEF row
    <3> QED
      BY <1>2, <3>1, <3>2
  <2>2. CASE C(p)!Cancels(r) /\ read.customer # p.dnd
    <3> DEFINE previous == IF read.previous # None THEN read.previous ELSE read.customer
               row == [old EXCEPT !.canceled = TRUE, !.customer = p.dnd, !.previous = previous]
    <3>1. /\ units' = [units EXCEPT ![x] = row]
          /\ p.dnd \in C(p)!Present /\ C(p)!Free(x, p.dnd, read.number)
      <4>1. /\ units' = [units EXCEPT ![x].canceled = TRUE, ![x].customer = p.dnd,
                                      ![x].previous = previous]
            /\ p.dnd \in C(p)!Present /\ C(p)!Free(x, p.dnd, read.number)
        BY <2>2 DEF C!Cancels, read
      <4> HIDE DEF previous
      <4> QED
        BY <1>2, <4>1 DEF old, CustomersInv, CustomerTables
    <3>2. previous \in p.customerIds \cup {None}
      BY <1>2 DEF C!Unit
    <3> HIDE DEF previous
    <3>3. row \in C(p)!Unit /\ row.number = old.number /\ row.customer = p.dnd
      BY <1>2, <3>2 DEF C!Unit, C!CustomersAssumption
    <3> HIDE DEF row
    <3> QED
      BY <1>2, <3>1, <3>3
  <2>3. CASE C(p)!Restores(r) /\ read.previous = None
    <3> DEFINE row == [old EXCEPT !.canceled = FALSE]
    <3>1. units' = [units EXCEPT ![x] = row]
      BY <2>3 DEF C!Restores, old, read
    <3>2. row \in C(p)!Unit /\ row.number = old.number /\ row.customer = old.customer
      BY <1>2 DEF C!Unit
    <3> HIDE DEF row
    <3> QED
      BY <1>2, <3>1, <3>2
  <2>4. CASE C(p)!Restores(r) /\ read.previous # None
    <3> DEFINE back == read.previous
               row == [old EXCEPT !.canceled = FALSE, !.customer = back, !.previous = None]
    <3>1. /\ units' = [units EXCEPT ![x] = row]
          /\ back \in C(p)!Present /\ C(p)!Free(x, back, read.number)
      <4>1. /\ units' = [units EXCEPT ![x].canceled = FALSE, ![x].customer = back,
                                      ![x].previous = None]
            /\ back \in C(p)!Present /\ C(p)!Free(x, back, read.number)
        BY <2>4 DEF C!Restores, read
      <4> HIDE DEF back
      <4> QED
        BY <1>2, <4>1 DEF old, CustomersInv, CustomerTables
    <3>2. back \in p.customerIds
      BY <3>1 DEF C!Present
    <3> HIDE DEF back
    <3>3. row \in C(p)!Unit /\ row.number = old.number /\ row.customer = back
      BY <1>2, <3>2 DEF C!Unit
    <3> HIDE DEF row
    <3> QED
      BY <1>2, <3>1, <3>3
  <2> QED
    BY <2>1, <2>2, <2>3, <2>4 DEF C!updateUnit
<1> HIDE DEF old
<1> QED
  BY <1>1, <1>3, UnitWritten DEF old

\* A message is logged with the unit, if that is still there.
LEMMA UnitContacted ==
    ASSUME NEW p, CustomersInv(p), NEW r \in p.requests,
           \/ C(p)!recordCommunication(r)
           \/ C(p)!sendUnitEmail(r) /\ C(p)!At(r, "unit", "mailed")
    PROVE  CustomersInv(p)'
<1> DEFINE x == customerCalls[r].id
           old == units[x]
           row == [old EXCEPT !.contacted = TRUE]
<1>1. /\ customerCalls[r] # C(p)!Idle /\ customerCalls[r].about = "unit" /\ x \in C(p)!Sold
      /\ C(p)!Done(r) /\ units' = [units EXCEPT ![x] = row]
      /\ UNCHANGED <<customers, presentations, documents, files, owners, spins>>
  BY DEF C!recordCommunication, C!sendUnitEmail, C!At, C!Idle
<1>2. /\ old \in C(p)!Unit /\ old.number = customerCalls[r].row.number
      /\ old.customer \in C(p)!Present
  BY <1>1, AboutUnit DEF CustomersInv, UnitsInv
<1> HIDE DEF old
<1>3. row \in C(p)!Unit /\ row.number = old.number /\ row.customer = old.customer
  BY <1>2 DEF C!Unit
<1> HIDE DEF row
<1> QED
  BY <1>1, <1>2, <1>3, UnitWritten DEF old

LEMMA deleteUnitKeeps ==
    ASSUME NEW p, CustomersInv(p), NEW r \in p.requests, C(p)!deleteUnit(r)
    PROVE  CustomersInv(p)'
<1> DEFINE x == customerCalls[r].id
<1>1. customerCalls[r] # C(p)!Idle /\ x \in C(p)!Sold /\ x \in p.unitIds
  BY AtStarted DEF C!deleteUnit, C!Sold
<1>2. \A y \in p.unitIds : units'[y] = IF y = x THEN C(p)!Gone ELSE units[y]
  BY DEF C!deleteUnit, CustomersInv, CustomerTables
<1>3. C(p)!Sold' = C(p)!Sold \ {x} /\ C(p)!Present' = C(p)!Present
  BY <1>2 DEF C!deleteUnit, C!Sold, C!Present
<1>4. units' \in [p.unitIds -> UnitRow(p)]
  BY DEF C!deleteUnit, CustomersInv, CustomerTables, UnitRow
<1>5. UnitsInv(p)'
  <2>1. \A y \in C(p)!Sold \ {x} : units'[y] = units[y]
    BY <1>2 DEF C!Sold
  <2> QED
    BY <1>3, <2>1 DEF CustomersInv, UnitsInv, C!OneRowPerUnit
<1>6. NumbersStay(p)
  BY <1>1, <1>2, RowsThere DEF NumbersStay, C!Sold
<1>7. CallsKnow(p)'
  BY <1>1, <1>6, CallsMoveOn DEF C!deleteUnit
<1> QED
  BY <1>4, <1>5, <1>7 DEF CustomersInv, CustomerTables, CallsKnow, C!deleteUnit

\* A document or a presentation comes, changes or goes; customers and units stay.
LEMMA BesidesUnits ==
    ASSUME NEW p, CustomersInv(p), NEW r \in p.requests, customerCalls[r] # C(p)!Idle,
           \/ C(p)!Done(r)
           \/ \E stage \in Stages : C(p)!Step(r, stage),
           UNCHANGED <<customers, units, owners>>,
           presentations' \in [p.presentations -> C(p)!Presentation \cup {C(p)!NoUnit}],
           documents' \in [p.documents -> p.customerIds \cup {None}],
           files' \subseteq p.documents,
           spins' \in [p.unitIds -> {0, 1}]
    PROVE  CustomersInv(p)'
<1>1. NumbersStay(p)
  BY SameUnits
<1>2. CallsKnow(p)'
  BY <1>1, CallsMoveOn
<1>3. UnitsInv(p)'
  BY UnitsStay DEF C!Present
<1> QED
  BY <1>2, <1>3 DEF CustomersInv, CustomerTables, CallsKnow

LEMMA DocumentsKeep ==
    ASSUME NEW p, CustomersInv(p), NEW r \in p.requests,
           \/ C(p)!uploadCustomerDocument(r) \/ C(p)!addCustomerDocument(r)
           \/ C(p)!deleteCustomerDocument(r)
    PROVE  CustomersInv(p)'
<1>1. customerCalls[r] # C(p)!Idle /\ customerCalls[r].about = "customer"
  BY AtStarted DEF C!uploadCustomerDocument, C!addCustomerDocument, C!deleteCustomerDocument
<1>2. customerCalls[r].id \in p.customerIds
  BY <1>1, OpenedAs DEF Opened
<1>3. /\ presentations' \in [p.presentations -> C(p)!Presentation \cup {C(p)!NoUnit}]
      /\ spins' \in [p.unitIds -> {0, 1}]
      /\ UNCHANGED <<customers, units, owners>>
  BY DEF C!uploadCustomerDocument, C!addCustomerDocument, C!deleteCustomerDocument,
         CustomersInv, CustomerTables
<1>4. C(p)!Done(r) \/ \E stage \in Stages : C(p)!Step(r, stage)
  BY DEF C!uploadCustomerDocument, C!addCustomerDocument, C!deleteCustomerDocument, Stages
<1>5. documents' \in [p.documents -> p.customerIds \cup {None}]
  BY <1>2 DEF C!uploadCustomerDocument, C!addCustomerDocument, C!deleteCustomerDocument,
              CustomersInv, CustomerTables
<1>6. files' \subseteq p.documents
  BY DEF C!uploadCustomerDocument, C!addCustomerDocument, C!deleteCustomerDocument,
         CustomersInv, CustomerTables
<1> QED
  BY <1>1, <1>3, <1>4, <1>5, <1>6, BesidesUnits

LEMMA PresentationsKeep ==
    ASSUME NEW p, CustomersInv(p), NEW r \in p.requests,
           \/ C(p)!createPresentation(r) \/ C(p)!updatePresentation(r)
           \/ C(p)!addPresentationNote(r)
    PROVE  CustomersInv(p)'
<1>1. /\ customerCalls[r] # C(p)!Idle
      /\ \/ customerCalls[r].about = "customer"
         \/ customerCalls[r].about = "presentation"
            /\ presentations[customerCalls[r].id] # C(p)!NoUnit
  BY AtStarted DEF C!createPresentation, C!updatePresentation, C!addPresentationNote
<1>2. presentations' \in [p.presentations -> C(p)!Presentation \cup {C(p)!NoUnit}]
  <2>1. CASE C(p)!createPresentation(r)
    <3>1. customerCalls[r].id \in p.customerIds /\ customerCalls[r].user \in p.users
      BY <2>1, AtStarted, OpenedAs DEF C!createPresentation, Opened
    <3>2. PICK q \in p.presentations, wanted \in C(p)!MayOwn \ {None} :
            presentations' = [presentations EXCEPT ![q] =
              [customer |-> customerCalls[r].id, notes |-> FALSE,
               assigned |-> IF p.role[customerCalls[r].user] = "SALES"
                            THEN customerCalls[r].user ELSE wanted]]
      BY <2>1 DEF C!createPresentation
    <3>3. [customer |-> customerCalls[r].id, notes |-> FALSE,
           assigned |-> IF p.role[customerCalls[r].user] = "SALES"
                        THEN customerCalls[r].user ELSE wanted] \in C(p)!Presentation
      BY <3>1 DEF C!Presentation, C!MayOwn
    <3> QED
      BY <3>2, <3>3 DEF CustomersInv, CustomerTables
  <2>2. CASE C(p)!updatePresentation(r) \/ C(p)!addPresentationNote(r)
    <3> DEFINE q == customerCalls[r].id
    <3>1. q \in p.presentations /\ presentations[q] # C(p)!NoUnit
      BY <2>2, AtStarted, OpenedAs DEF C!updatePresentation, C!addPresentationNote
    <3>2. presentations[q] \in C(p)!Presentation
      BY <3>1 DEF CustomersInv, CustomerTables
    <3>3. \/ \E user \in C(p)!MayOwn :
               presentations' = [presentations EXCEPT ![q].assigned = user]
          \/ presentations' = [presentations EXCEPT ![q].notes = TRUE]
      BY <2>2 DEF C!updatePresentation, C!addPresentationNote
    <3>4. /\ \A user \in C(p)!MayOwn :
               [presentations[q] EXCEPT !.assigned = user] \in C(p)!Presentation
          /\ [presentations[q] EXCEPT !.notes = TRUE] \in C(p)!Presentation
      BY <3>2 DEF C!Presentation, C!MayOwn
    <3> QED
      BY <3>3, <3>4 DEF CustomersInv, CustomerTables
  <2> QED
    BY <2>1, <2>2
<1> QED
  BY <1>1, <1>2, BesidesUnits
     DEF C!createPresentation, C!updatePresentation, C!addPresentationNote, CustomersInv,
         CustomerTables

\* The unique key: a second spin finds the first.
LEMMA spinKeeps ==
    ASSUME NEW p, CustomersInv(p), NEW r \in p.requests, C(p)!spin(r)
    PROVE  CustomersInv(p)'
<1>1. customerCalls[r] # C(p)!Idle
  BY AtStarted DEF C!spin
<1>2. spins' \in [p.unitIds -> {0, 1}]
  <2>1. customerCalls[r].id \in p.unitIds /\ spins[customerCalls[r].id] = 0
    BY DEF C!spin, C!Unspun, C!Sold
  <2>2. spins' = [spins EXCEPT ![customerCalls[r].id] = 0 + 1]
    BY <2>1 DEF C!spin
  <2> QED
    BY <2>1, <2>2 DEF CustomersInv, CustomerTables
<1> QED
  BY <1>1, <1>2, BesidesUnits DEF C!spin, CustomersInv, CustomerTables

\* A mail is sent, or a request ends.
LEMMA CallsOnly ==
    ASSUME NEW p, CustomersInv(p), NEW r \in p.requests,
           C(p)!End(r) \/ (C(p)!sendUnitEmail(r) /\ C(p)!At(r, "unit", "read"))
    PROVE  CustomersInv(p)'
<1>1. customerCalls[r] # C(p)!Idle
  BY AtStarted DEF C!End
<1>2. C(p)!Done(r) \/ \E stage \in Stages : C(p)!Step(r, stage)
  BY DEF C!End, C!sendUnitEmail, C!At, Stages
<1>3. UNCHANGED <<customers, units, presentations, documents, files, owners, spins>>
  BY DEF C!End, C!sendUnitEmail, C!At
<1> QED
  BY <1>1, <1>2, <1>3, BesidesUnits DEF CustomersInv, CustomerTables

LEMMA ReadsKeep ==
    ASSUME NEW p, CustomersInv(p), NEW r \in p.requests, NEW u \in p.users,
           \/ C(p)!ReadCustomer(r, u) \/ C(p)!ReadUnit(r, u)
           \/ C(p)!ReadPresentation(r, u) \/ C(p)!ReadSale(r, u)
    PROVE  CustomersInv(p)'
<1>1. PICK about \in {"customer", "unit", "presentation", "sale"} : \E id, row :
        /\ C(p)!Begin(r, u, about, id, row)
        /\ about = "customer" => id \in p.customerIds /\ row \in C(p)!Customer
        /\ about = "unit" => id \in p.unitIds /\ row \in C(p)!Unit /\ row = units[id]
        /\ about = "presentation" => id \in p.presentations /\ row = None
        /\ about = "sale" => id \in p.unitIds /\ row = None
  <2>1. CASE C(p)!ReadCustomer(r, u)
    <3>1. PICK c \in C(p)!listCustomers(u) : C(p)!Begin(r, u, "customer", c, customers[c])
      BY <2>1 DEF C!ReadCustomer
    <3>2. c \in p.customerIds /\ customers[c] \in C(p)!Customer
      BY RowsThere DEF C!listCustomers, C!Present
    <3> QED
      BY <3>1, <3>2
  <2>2. CASE C(p)!ReadUnit(r, u)
    <3>1. PICK x \in C(p)!Sold : C(p)!Begin(r, u, "unit", x, units[x])
      BY <2>2 DEF C!ReadUnit
    <3>2. x \in p.unitIds /\ units[x] \in C(p)!Unit
      BY RowsThere DEF C!Sold
    <3> QED
      BY <3>1, <3>2
  <2>3. CASE C(p)!ReadPresentation(r, u)
    BY <2>3 DEF C!ReadPresentation
  <2>4. CASE C(p)!ReadSale(r, u)
    <3>1. PICK x \in C(p)!Sold : C(p)!Begin(r, u, "sale", x, None)
      BY <2>4 DEF C!ReadSale
    <3>2. x \in p.unitIds
      BY DEF C!Sold
    <3> QED
      BY <3>1, <3>2
  <2> QED
    BY <2>1, <2>2, <2>3, <2>4
<1>2. PICK id, row :
        /\ C(p)!Begin(r, u, about, id, row)
        /\ about = "customer" => id \in p.customerIds /\ row \in C(p)!Customer
        /\ about = "unit" => id \in p.unitIds /\ row \in C(p)!Unit /\ row = units[id]
        /\ about = "presentation" => id \in p.presentations /\ row = None
        /\ about = "sale" => id \in p.unitIds /\ row = None
  BY <1>1
<1> DEFINE call == [stage |-> "read", user |-> u, about |-> about, id |-> id, row |-> row]
<1>3. /\ call \in AnyOpened(p)
      /\ call \in Opened(p, "unit", p.unitIds, C(p)!Unit) => call.row = units[call.id]
  BY <1>2 DEF AnyOpened, Opened
<1>4. /\ customerCalls' = [customerCalls EXCEPT ![r] = call]
      /\ UNCHANGED <<customers, units, presentations, documents, files, owners, spins>>
  BY <1>2 DEF C!Begin
<1> HIDE DEF call
<1>5. CallsKnow(p)'
  BY <1>3, <1>4, CallsBegin
<1>6. UnitsInv(p)'
  BY <1>4, UnitsStay DEF C!Present
<1> QED
  BY <1>4, <1>5, <1>6 DEF CustomersInv, CustomerTables, CallsKnow

LEMMA CustomersKeep ==
    ASSUME NEW p, C(p)!CustomersAssumption, CustomersInv(p), [C(p)!Next]_(C(p)!vars)
    PROVE  CustomersInv(p)'
<1>1. ASSUME NEW r \in p.requests, NEW u \in p.users,
             \/ C(p)!ReadCustomer(r, u) \/ C(p)!ReadUnit(r, u)
             \/ C(p)!ReadPresentation(r, u) \/ C(p)!ReadSale(r, u)
      PROVE  CustomersInv(p)'
  BY <1>1, ReadsKeep
<1>2. ASSUME NEW r \in p.requests,
             \/ C(p)!updateCustomer(r) \/ C(p)!deleteCustomer(r)
             \/ C(p)!uploadCustomerDocument(r) \/ C(p)!addCustomerDocument(r)
             \/ C(p)!deleteCustomerDocument(r)
             \/ C(p)!createPresentation(r) \/ C(p)!updatePresentation(r)
             \/ C(p)!addPresentationNote(r)
      PROVE  CustomersInv(p)'
  BY <1>2, updateCustomerKeeps, deleteCustomerKeeps, DocumentsKeep, PresentationsKeep
<1>3. ASSUME NEW r \in p.requests,
             \/ C(p)!ensureDndCompanyCustomer(r) \/ C(p)!updateUnit(r) \/ C(p)!deleteUnit(r)
             \/ C(p)!recordCommunication(r) \/ C(p)!sendUnitEmail(r)
             \/ C(p)!spin(r) \/ C(p)!End(r)
      PROVE  CustomersInv(p)'
  <2>1. C(p)!sendUnitEmail(r) => C(p)!At(r, "unit", "read") \/ C(p)!At(r, "unit", "mailed")
    BY DEF C!sendUnitEmail
  <2> QED
    BY <1>3, <2>1, ensureDndKeeps, updateUnitKeeps, deleteUnitKeeps, UnitContacted, spinKeeps,
       CallsOnly
<1>4. ASSUME NEW u \in p.users, C(p)!createCustomer(u)
      PROVE  CustomersInv(p)'
  BY <1>4, createCustomerKeeps
<1>5. CASE UNCHANGED C(p)!vars
  <2>1. UNCHANGED <<customers, units, presentations, documents, files, owners, spins, customerCalls>>
    BY <1>5 DEF C!vars
  <2>2. UnitsInv(p)'
    BY <2>1, UnitsStay DEF C!Present
  <2>3. \A r \in p.requests : KnowsUnit(p, r)'
    BY <2>1 DEF CustomersInv, KnowsUnit, C!Sold
  <2> QED
    BY <2>1, <2>2, <2>3 DEF CustomersInv, CustomerTables
<1> QED
  BY <1>1, <1>2, <1>3, <1>4, <1>5 DEF C!Next

EstatePartsInv == IF part = "files" THEN CustomersInv(Files) ELSE CustomersInv(Estate)

LEMMA EstatePartsStart == Init => EstatePartsInv
  BY SalesParameters, CustomersStart DEF Init, EstatePartsInv

LEMMA EstatePartsKeep == EstatePartsInv /\ [Next]_vars => EstatePartsInv'
  BY SalesParameters, PartsMove, CustomersKeep DEF EstatePartsInv

\* A form becomes one lead, a unit wins one prize and is on one customer once
\* (meta.service.ts, agent-wheel.service.ts, units.service.ts).
THEOREM NothingComesTwice == Spec => []NothingTwice
<1>1. LeadPartsInv /\ EstatePartsInv => NothingTwice
  BY DEF LeadPartsInv, LeadsInv, EstatePartsInv, CustomersInv, CustomerTables, UnitsInv,
         NothingTwice, C!OnePrizePerUnit
<1> QED
  BY <1>1, LeadPartsStart, LeadPartsKeep, EstatePartsStart, EstatePartsKeep, PTL DEF Spec

------------------------------------------------------------------------------
(* Agencies.                                                                  *)

\* Who may be an agency's sales user: nobody of the call centre.
AgencySales == {u \in Partners.users : Partners.role[u] \in {"SALES", "MANAGER"}} \cup {None}

AgencyRow == [sales: AgencySales]

Handling(about, ids, row, to) ==
    [about: {about}, user: Partners.users, id: ids, row: row, to: to]

AnyHandling ==
    Handling("agency", Partners.agencyIds, AgencyRow, AgencySales) \cup
    Handling("meeting", Partners.meetingIds, A!AgencyMeeting, Partners.users \cup {None}) \cup
    Handling("task", Partners.taskIds, A!AgencyTask, Partners.users \cup {None})

AgencyTables ==
    /\ active \subseteq Partners.users
    /\ agencies \in [Partners.agencyIds -> AgencyRow \cup {A!Absent}]
    /\ agencyOwners \in [Partners.agencyIds -> Seq(A!AgencySalesHistory)]
    /\ meetings \in [Partners.meetingIds -> A!AgencyMeeting \cup {A!Free}]
    /\ tasks \in [Partners.taskIds -> A!AgencyTask \cup {A!NoTask}]
    /\ agencyCalls \in [Partners.requests -> AnyHandling \cup {A!Idle}]

\* The tasks of an agency go with it.
TasksOfAgencies ==
    \A t \in Partners.taskIds : tasks[t] # A!NoTask => tasks[t].agency \in A!Existing

AgenciesInv == AgencyTables /\ TasksOfAgencies

LEMMA AgenciesStart == A!Init => AgenciesInv
  BY DEF A!Init, AgenciesInv, AgencyTables, TasksOfAgencies

\* What is offered to be assigned.
LEMMA Assignees ==
    ASSUME AgenciesInv
    PROVE  /\ A!Assignable \subseteq AgencySales
           /\ A!SalesUsers \subseteq Partners.users \cup {None}
           /\ AgencySales \subseteq Partners.users \cup {None}
           /\ \A u \in Partners.users : A!AgencySalesFor(u) \subseteq AgencySales
           /\ \A u \in Partners.users : A!MeetingSalesFor(u) \subseteq Partners.users \cup {None}
  BY DEF AgenciesInv, AgencyTables, A!Assignable, A!SalesUsers, AgencySales, A!AgencySalesFor,
         A!MeetingSalesFor, A!isSales

LEMMA HandledAs ==
    ASSUME AgenciesInv, NEW r \in Partners.requests, NEW about \in {"agency", "meeting", "task"},
           A!Doing(r, about)
    PROVE  /\ about = "agency" => agencyCalls[r] \in
                Handling("agency", Partners.agencyIds, AgencyRow, AgencySales)
           /\ about = "meeting" => agencyCalls[r] \in
                Handling("meeting", Partners.meetingIds, A!AgencyMeeting, Partners.users \cup {None})
           /\ about = "task" => agencyCalls[r] \in
                Handling("task", Partners.taskIds, A!AgencyTask, Partners.users \cup {None})
<1>1. agencyCalls[r] # A!Idle
  BY DEF A!Doing, A!Idle
<1> QED
  BY <1>1 DEF AgenciesInv, AgencyTables, AnyHandling, Handling, A!Doing

\* A request ends; agencies that are there stay.
LEMMA AgenciesStay ==
    ASSUME AgenciesInv, NEW r \in Partners.requests, A!End(r) \/ UNCHANGED agencyCalls,
           UNCHANGED active,
           agencies' \in [Partners.agencyIds -> AgencyRow \cup {A!Absent}],
           A!Existing \subseteq A!Existing',
           agencyOwners' \in [Partners.agencyIds -> Seq(A!AgencySalesHistory)],
           meetings' \in [Partners.meetingIds -> A!AgencyMeeting \cup {A!Free}],
           tasks' \in [Partners.taskIds -> A!AgencyTask \cup {A!NoTask}],
           \A t \in Partners.taskIds :
              tasks'[t] # A!NoTask => tasks'[t].agency \in A!Existing
    PROVE  AgenciesInv'
<1>1. agencyCalls' \in [Partners.requests -> AnyHandling \cup {A!Idle}]
  BY DEF AgenciesInv, AgencyTables, A!End
<1> QED
  BY <1>1 DEF AgenciesInv, AgencyTables, TasksOfAgencies

LEMMA SetSalesKeeps ==
    ASSUME AgenciesInv, NEW r \in Partners.requests, A!updateAgency(r) \/ A!assignSales(r)
    PROVE  AgenciesInv'
<1> DEFINE a == agencyCalls[r].id
           to == agencyCalls[r].to
           was == agencyCalls[r].row.sales
<1>1. A!Doing(r, "agency") /\ A!SetSales(r) /\ A!End(r) /\ UNCHANGED <<active, meetings, tasks>>
  BY DEF A!updateAgency, A!assignSales
<1>2. a \in Partners.agencyIds /\ to \in AgencySales /\ was \in AgencySales
  BY <1>1, HandledAs DEF Handling, AgencyRow
<1>3. a \in A!Existing /\ agencies[a] \in AgencyRow
  BY <1>1 DEF A!SetSales, A!Existing, AgenciesInv, AgencyTables
<1>4. agencies' = [agencies EXCEPT ![a] = [sales |-> to]]
  <2>1. agencies' = [agencies EXCEPT ![a].sales = to]
    BY <1>1 DEF A!SetSales
  <2>2. [agencies[a] EXCEPT !.sales = to] = [sales |-> to]
    BY <1>3 DEF AgencyRow
  <2> QED
    BY <2>1, <2>2
<1>5. [sales |-> to] \in AgencyRow /\ [sales |-> to] # A!Absent
  BY <1>2 DEF AgencyRow, A!Absent
<1>6. /\ agencies' \in [Partners.agencyIds -> AgencyRow \cup {A!Absent}]
      /\ A!Existing \subseteq A!Existing'
  BY <1>2, <1>4, <1>5 DEF AgenciesInv, AgencyTables, A!Existing
<1>7. agencyOwners' \in [Partners.agencyIds -> Seq(A!AgencySalesHistory)]
  <2>1. [from |-> was, to |-> to] \in A!AgencySalesHistory
    BY <1>2, Assignees DEF A!AgencySalesHistory
  <2>2. agencyOwners[a] \in Seq(A!AgencySalesHistory)
    BY <1>2 DEF AgenciesInv, AgencyTables
  <2>3. Append(agencyOwners[a], [from |-> was, to |-> to]) \in Seq(A!AgencySalesHistory)
    BY <2>1, <2>2
  <2>4. \/ UNCHANGED agencyOwners
        \/ agencyOwners' = [agencyOwners EXCEPT ![a] =
                              Append(agencyOwners[a], [from |-> was, to |-> to])]
    BY <1>1 DEF A!SetSales
  <2> QED
    BY <2>3, <2>4 DEF AgenciesInv, AgencyTables
<1> QED
  BY <1>1, <1>6, <1>7, AgenciesStay DEF AgenciesInv, AgencyTables, TasksOfAgencies

LEMMA deleteAgencyKeeps ==
    ASSUME AgenciesInv, NEW r \in Partners.requests, A!deleteAgency(r)
    PROVE  AgenciesInv'
<1> DEFINE a == agencyCalls[r].id
<1>1. /\ A!Doing(r, "agency") /\ A!End(r) /\ active' = active
      /\ agencies' = [agencies EXCEPT ![a] = A!Absent]
      /\ agencyOwners' = [agencyOwners EXCEPT ![a] = << >>]
      /\ tasks' = [t \in Partners.taskIds |->
                     IF tasks[t].agency = a THEN A!NoTask ELSE tasks[t]]
      /\ meetings' = [m \in Partners.meetingIds |->
           IF meetings[m] = A!Free \/ meetings[m].agency # a THEN meetings[m]
           ELSE IF meetings[m].kind = "AGENCY" THEN A!Free
           ELSE [meetings[m] EXCEPT !.agency = None]]
  BY DEF A!deleteAgency
<1>2. a \in Partners.agencyIds
  BY <1>1, HandledAs DEF Handling
<1>3. agencies' \in [Partners.agencyIds -> AgencyRow \cup {A!Absent}]
  BY <1>1 DEF AgenciesInv, AgencyTables
<1>4. agencyOwners' \in [Partners.agencyIds -> Seq(A!AgencySalesHistory)]
  <2>1. << >> \in Seq(A!AgencySalesHistory)
    OBVIOUS
  <2> QED
    BY <1>1, <2>1 DEF AgenciesInv, AgencyTables
<1>5. \A t \in Partners.taskIds :
         tasks'[t] = A!NoTask \/ (tasks'[t] = tasks[t] /\ tasks[t].agency # a)
  BY <1>1
<1>6. tasks' \in [Partners.taskIds -> A!AgencyTask \cup {A!NoTask}]
  BY <1>1 DEF AgenciesInv, AgencyTables
<1>7. meetings' \in [Partners.meetingIds -> A!AgencyMeeting \cup {A!Free}]
  <2>1. ASSUME NEW m \in Partners.meetingIds
        PROVE  meetings'[m] \in A!AgencyMeeting \cup {A!Free}
    <3>1. meetings[m] \in A!AgencyMeeting =>
            [meetings[m] EXCEPT !.agency = None] \in A!AgencyMeeting
      BY DEF A!AgencyMeeting
    <3>2. meetings[m] \in A!AgencyMeeting \cup {A!Free}
      BY DEF AgenciesInv, AgencyTables
    <3> QED
      BY <1>1, <3>1, <3>2
  <2> QED
    BY <1>1, <2>1
<1>8. \A b \in A!Existing : b # a => b \in A!Existing'
  BY <1>1 DEF A!Existing, AgenciesInv, AgencyTables
<1>9. TasksOfAgencies'
  BY <1>5, <1>8 DEF AgenciesInv, TasksOfAgencies
<1>10. agencyCalls' \in [Partners.requests -> AnyHandling \cup {A!Idle}]
  BY <1>1 DEF AgenciesInv, AgencyTables, A!End
<1> QED
  BY <1>1, <1>3, <1>4, <1>6, <1>7, <1>9, <1>10 DEF AgenciesInv, AgencyTables

LEMMA createsKeep ==
    ASSUME AgenciesInv, NEW u \in Partners.users, A!createAgency(u) \/ A!createMeeting(u)
    PROVE  AgenciesInv'
<1>1. CASE A!createAgency(u)
  <2>1. PICK a \in Partners.agencyIds, to \in A!AgencySalesFor(u) :
          agencies' = [agencies EXCEPT ![a] = [sales |-> to]]
    BY <1>1 DEF A!createAgency
  <2>2. [sales |-> to] \in AgencyRow /\ [sales |-> to] # A!Absent
    BY Assignees DEF AgencyRow, A!Absent
  <2>3. /\ agencies' \in [Partners.agencyIds -> AgencyRow \cup {A!Absent}]
        /\ A!Existing \subseteq A!Existing'
    BY <2>1, <2>2 DEF AgenciesInv, AgencyTables, A!Existing
  <2> QED
    BY <1>1, <2>3 DEF A!createAgency, AgenciesInv, AgencyTables, TasksOfAgencies
<1>2. CASE A!createMeeting(u)
  <2>1. PICK m \in Partners.meetingIds, new \in A!AgencyMeeting :
          meetings' = [meetings EXCEPT ![m] = new]
    <3>1. \A kind \in A!Kinds, to \in A!MeetingSalesFor(u), a \in A!Existing \cup {None},
             c \in Partners.customerIds \cup {None} :
            [kind |-> kind, agency |-> a, customer |-> c, sales |-> to, by |-> u]
              \in A!AgencyMeeting
      BY Assignees DEF A!AgencyMeeting, A!Existing
    <3> QED
      BY <1>2, <3>1, Zenon DEF A!createMeeting
  <2>3. meetings' \in [Partners.meetingIds -> A!AgencyMeeting \cup {A!Free}]
    BY <2>1 DEF AgenciesInv, AgencyTables
  <2> QED
    BY <1>2, <2>3 DEF A!createMeeting, AgenciesInv, AgencyTables, TasksOfAgencies, A!Existing
<1> QED
  BY <1>1, <1>2

LEMMA AgencyWorkKeeps ==
    ASSUME AgenciesInv, NEW r \in Partners.requests,
           A!createAgencyMeeting(r) \/ A!createTask(r) \/ A!updateTask(r)
    PROVE  AgenciesInv'
<1>1. CASE A!createAgencyMeeting(r)
  <2>1. agencyCalls[r] \in Handling("agency", Partners.agencyIds, AgencyRow, AgencySales)
    BY <1>1, HandledAs DEF A!createAgencyMeeting
  <2>2. PICK m \in Partners.meetingIds :
          meetings' = [meetings EXCEPT ![m] =
            [kind |-> "AGENCY", agency |-> agencyCalls[r].id, customer |-> None,
             sales |-> agencyCalls[r].row.sales, by |-> agencyCalls[r].user]]
    BY <1>1 DEF A!createAgencyMeeting
  <2>3. [kind |-> "AGENCY", agency |-> agencyCalls[r].id, customer |-> None,
         sales |-> agencyCalls[r].row.sales, by |-> agencyCalls[r].user] \in A!AgencyMeeting
    BY <2>1, Assignees DEF Handling, AgencyRow, A!AgencyMeeting, A!Kinds
  <2>4. meetings' \in [Partners.meetingIds -> A!AgencyMeeting \cup {A!Free}]
    BY <2>2, <2>3 DEF AgenciesInv, AgencyTables
  <2> QED
    BY <1>1, <2>4, AgenciesStay
       DEF A!createAgencyMeeting, AgenciesInv, AgencyTables, TasksOfAgencies, A!Existing
<1>2. CASE A!createTask(r)
  <2>1. agencyCalls[r] \in Handling("agency", Partners.agencyIds, AgencyRow, AgencySales)
    BY <1>2, HandledAs DEF A!createTask
  <2>2. PICK t \in Partners.taskIds,
             to \in IF A!isSales(agencyCalls[r].user) THEN {agencyCalls[r].user}
                    ELSE A!SalesUsers :
          tasks' = [tasks EXCEPT ![t] =
            [agency |-> agencyCalls[r].id, assigned |-> to, by |-> agencyCalls[r].user,
             done |-> FALSE]]
    BY <1>2 DEF A!createTask
  <2> DEFINE new == [agency |-> agencyCalls[r].id, assigned |-> to, by |-> agencyCalls[r].user,
                     done |-> FALSE]
  <2>3. new \in A!AgencyTask /\ new.agency = agencyCalls[r].id
    BY <2>1, Assignees DEF Handling, A!AgencyTask
  <2>4. tasks' = [tasks EXCEPT ![t] = new] /\ agencyCalls[r].id \in A!Existing
    BY <1>2, <2>2 DEF A!createTask
  <2> HIDE DEF new
  <2>5. /\ tasks' \in [Partners.taskIds -> A!AgencyTask \cup {A!NoTask}]
        /\ \A s \in Partners.taskIds : tasks'[s] = IF s = t THEN new ELSE tasks[s]
    BY <2>3, <2>4 DEF AgenciesInv, AgencyTables
  <2>6. \A s \in Partners.taskIds :
          tasks'[s] # A!NoTask => tasks'[s].agency \in A!Existing
    BY <2>3, <2>4, <2>5 DEF AgenciesInv, TasksOfAgencies
  <2> QED
    BY <1>2, <2>5, <2>6, AgenciesStay DEF A!createTask, AgenciesInv, AgencyTables, A!Existing
<1>3. CASE A!updateTask(r)
  <2> DEFINE t == agencyCalls[r].id
             old == tasks[t]
  <2>1. /\ t \in Partners.taskIds /\ agencyCalls[r].to \in Partners.users \cup {None}
        /\ old # A!NoTask /\ old \in A!AgencyTask
    BY <1>3, HandledAs DEF A!updateTask, Handling, AgenciesInv, AgencyTables
  <2>2. PICK done \in BOOLEAN :
          tasks' = [tasks EXCEPT ![t].done = done,
                      ![t].assigned = IF A!isManager(agencyCalls[r].user)
                                      THEN agencyCalls[r].to ELSE @]
    BY <1>3 DEF A!updateTask
  <2> DEFINE to == IF A!isManager(agencyCalls[r].user) THEN agencyCalls[r].to ELSE old.assigned
             new == [old EXCEPT !.done = done, !.assigned = to]
  <2>3. to \in Partners.users \cup {None}
    BY <2>1 DEF A!AgencyTask
  <2>4. tasks' = [tasks EXCEPT ![t] = new]
    BY <2>1, <2>2 DEF AgenciesInv, AgencyTables, A!AgencyTask
  <2> HIDE DEF to, old
  <2>5. new \in A!AgencyTask /\ new.agency = old.agency
    BY <2>1, <2>3 DEF A!AgencyTask
  <2> HIDE DEF new
  <2>6. /\ tasks' \in [Partners.taskIds -> A!AgencyTask \cup {A!NoTask}]
        /\ \A s \in Partners.taskIds : tasks'[s] = IF s = t THEN new ELSE tasks[s]
    BY <2>4, <2>5 DEF AgenciesInv, AgencyTables
  <2>7. \A s \in Partners.taskIds :
          tasks'[s] # A!NoTask => tasks'[s].agency \in A!Existing
    BY <2>1, <2>5, <2>6 DEF AgenciesInv, TasksOfAgencies, old
  <2> QED
    BY <1>3, <2>6, <2>7, AgenciesStay DEF A!updateTask, AgenciesInv, AgencyTables, A!Existing
<1> QED
  BY <1>1, <1>2, <1>3

LEMMA MeetingsKeep ==
    ASSUME AgenciesInv, NEW r \in Partners.requests,
           \/ A!deleteMeeting(r)
           \/ A!updateAgencyMeeting(r) \/ A!updatePresentation(r) \/ A!updateOtherMeeting(r)
    PROVE  AgenciesInv'
<1> DEFINE m == agencyCalls[r].id
<1>1. A!Doing(r, "meeting") /\ meetings[m] # A!Free
  BY DEF A!deleteMeeting, A!updateAgencyMeeting, A!updatePresentation, A!updateOtherMeeting,
         A!Edit
<1>2. /\ m \in Partners.meetingIds /\ meetings[m] \in A!AgencyMeeting
      /\ agencyCalls[r].to \in Partners.users \cup {None}
  BY <1>1, HandledAs DEF Handling, AgenciesInv, AgencyTables
<1>3. ASSUME NEW kind \in A!Kinds, NEW as \in SUBSET (Partners.agencyIds \cup {None}),
             NEW cs \in SUBSET (Partners.customerIds \cup {None}), A!Edit(r, kind, as, cs)
      PROVE  meetings' \in [Partners.meetingIds -> A!AgencyMeeting \cup {A!Free}]
  <2>1. PICK a \in as, c \in cs, to \in {agencyCalls[r].to, meetings[m].sales} :
          meetings' = [meetings EXCEPT ![m].agency = a, ![m].customer = c, ![m].sales = to]
    BY <1>3 DEF A!Edit
  <2>2. to \in Partners.users \cup {None}
    BY <1>2 DEF A!AgencyMeeting
  <2> DEFINE new == [meetings[m] EXCEPT !.agency = a, !.customer = c, !.sales = to]
  <2>3. meetings' = [meetings EXCEPT ![m] = new]
    BY <1>2, <2>1 DEF AgenciesInv, AgencyTables, A!AgencyMeeting
  <2>4. new \in A!AgencyMeeting
    BY <1>2, <2>2 DEF A!AgencyMeeting
  <2> HIDE DEF new
  <2> QED
    BY <2>3, <2>4 DEF AgenciesInv, AgencyTables
<1>4. CASE A!deleteMeeting(r)
  <2>1. meetings' \in [Partners.meetingIds -> A!AgencyMeeting \cup {A!Free}]
    BY <1>4 DEF A!deleteMeeting, AgenciesInv, AgencyTables
  <2> QED
    BY <1>4, <2>1, AgenciesStay
       DEF A!deleteMeeting, AgenciesInv, AgencyTables, TasksOfAgencies, A!Existing
<1>5. CASE A!updateAgencyMeeting(r) \/ A!updatePresentation(r) \/ A!updateOtherMeeting(r)
  <2>1. A!Existing \cup {None} \in SUBSET (Partners.agencyIds \cup {None})
    BY DEF A!Existing
  <2>2. meetings' \in [Partners.meetingIds -> A!AgencyMeeting \cup {A!Free}]
    BY <1>3, <1>5, <2>1
       DEF A!updateAgencyMeeting, A!updatePresentation, A!updateOtherMeeting, A!Kinds
  <2>3. A!End(r) /\ UNCHANGED <<active, agencies, agencyOwners, tasks>>
    BY <1>5 DEF A!updateAgencyMeeting, A!updatePresentation, A!updateOtherMeeting, A!Edit
  <2> QED
    BY <2>2, <2>3, AgenciesStay DEF AgenciesInv, AgencyTables, TasksOfAgencies, A!Existing
<1> QED
  BY <1>4, <1>5

LEMMA BeginKeeps ==
    ASSUME AgenciesInv, NEW r \in Partners.requests, NEW u \in Partners.users,
           A!ReadAgency(r, u) \/ A!ReadMeeting(r, u) \/ A!ReadTask(r, u)
    PROVE  AgenciesInv'
<1>1. ASSUME NEW about, NEW id, NEW row, NEW to, A!Begin(r, u, about, id, row, to),
             [about |-> about, user |-> u, id |-> id, row |-> row, to |-> to] \in AnyHandling
      PROVE  AgenciesInv'
  <2>1. agencyCalls' \in [Partners.requests -> AnyHandling \cup {A!Idle}]
    BY <1>1 DEF A!Begin, AgenciesInv, AgencyTables
  <2> QED
    BY <1>1, <2>1 DEF A!Begin, A!Rows, AgenciesInv, AgencyTables, TasksOfAgencies, A!Existing
<1>2. CASE A!ReadAgency(r, u)
  <2>1. PICK a \in A!Existing, to \in A!Assignable : A!Begin(r, u, "agency", a, agencies[a], to)
    BY <1>2 DEF A!ReadAgency, A!listAgencies
  <2>2. a \in Partners.agencyIds /\ agencies[a] \in AgencyRow
    BY DEF A!Existing, AgenciesInv, AgencyTables
  <2>3. [about |-> "agency", user |-> u, id |-> a, row |-> agencies[a], to |-> to] \in AnyHandling
    BY <2>2, Assignees DEF AnyHandling, Handling
  <2> QED
    BY <1>1, <2>1, <2>3
<1>3. CASE A!ReadMeeting(r, u)
  <2>1. PICK m \in A!Scheduled, to \in A!MeetingSalesFor(u) :
          A!Begin(r, u, "meeting", m, meetings[m], to)
    BY <1>3 DEF A!ReadMeeting
  <2>2. m \in Partners.meetingIds /\ meetings[m] \in A!AgencyMeeting
    BY DEF A!Scheduled, AgenciesInv, AgencyTables
  <2>3. [about |-> "meeting", user |-> u, id |-> m, row |-> meetings[m], to |-> to]
          \in AnyHandling
    BY <2>2, Assignees DEF AnyHandling, Handling
  <2> QED
    BY <1>1, <2>1, <2>3
<1>4. CASE A!ReadTask(r, u)
  <2>1. PICK t \in Partners.taskIds, to \in A!SalesUsers :
          tasks[t] # A!NoTask /\ A!Begin(r, u, "task", t, tasks[t], to)
    BY <1>4 DEF A!ReadTask
  <2>2. tasks[t] \in A!AgencyTask
    BY <2>1 DEF AgenciesInv, AgencyTables
  <2>3. [about |-> "task", user |-> u, id |-> t, row |-> tasks[t], to |-> to] \in AnyHandling
    BY <2>2, Assignees DEF AnyHandling, Handling
  <2> QED
    BY <1>1, <2>1, <2>3
<1> QED
  BY <1>2, <1>3, <1>4

LEMMA AgenciesKeep == AgenciesInv /\ [A!Next]_(A!vars) => AgenciesInv'
<1> SUFFICES ASSUME AgenciesInv, [A!Next]_(A!vars)
             PROVE  AgenciesInv'
  OBVIOUS
<1>1. CASE UNCHANGED A!vars
  BY <1>1 DEF A!vars, AgenciesInv, AgencyTables, TasksOfAgencies, A!Existing
<1>2. ASSUME NEW u \in Partners.users, A!createAgency(u) \/ A!createMeeting(u) \/ A!setActive(u)
      PROVE  AgenciesInv'
  <2>1. CASE A!setActive(u)
    BY <2>1 DEF A!setActive, A!Rows, AgenciesInv, AgencyTables, TasksOfAgencies, A!Existing
  <2> QED
    BY <1>2, <2>1, createsKeep
<1>3. ASSUME NEW r \in Partners.requests, A!Abandon(r)
      PROVE  AgenciesInv'
  BY <1>3, AgenciesStay DEF A!Abandon, A!Rows, AgenciesInv, AgencyTables, TasksOfAgencies,
                            A!Existing
<1>4. ASSUME NEW r \in Partners.requests,
             \/ A!updateAgency(r) \/ A!assignSales(r) \/ A!deleteAgency(r)
             \/ A!createAgencyMeeting(r) \/ A!createTask(r) \/ A!updateTask(r)
             \/ A!deleteMeeting(r)
             \/ A!updateAgencyMeeting(r) \/ A!updatePresentation(r) \/ A!updateOtherMeeting(r)
      PROVE  AgenciesInv'
  BY <1>4, SetSalesKeeps, deleteAgencyKeeps, AgencyWorkKeeps, MeetingsKeep
<1> QED
  BY <1>1, <1>2, <1>3, <1>4, BeginKeeps DEF A!Next

\* What is listed can be opened, because nobody of the call centre has an agency and the
\* agency of a task is there as long as the task.
LEMMA WhatIsShownOpens == AgenciesInv => A!OpensWhatIsShown
<1> SUFFICES ASSUME AgenciesInv, NEW u \in Partners.users
             PROVE  /\ A!listMeetings(u) = {m \in Partners.meetingIds : A!Opens(u, m)}
                    /\ A!LinksToMeeting(u) \subseteq A!listMeetings(u)
                    /\ \A t \in A!AgencyTasksShown(u) : tasks[t].agency \in A!listAgencies(u)
                    /\ A!listAgencies(u) = {a \in A!Existing : A!canSeeAgency(u, a)}
                    /\ A!getAgency(u) = {a \in A!Existing : A!canEditAgency(u, a)}
  BY DEF A!OpensWhatIsShown
<1>1. /\ Partners.role[u] \in {"ADMIN", "MANAGER", "SALES", "CALLCENTER"}
      /\ None \notin Partners.users /\ None \notin Partners.agencyIds /\ u # None
  BY SalesParameters DEF A!AgenciesAssumption, A!Roles
<1>2. A!isManager(u) \/ A!isSales(u) \/ Partners.role[u] = "CALLCENTER"
  BY <1>1 DEF A!isManager, A!isSales
<1>3. \A a \in Partners.agencyIds : a \in A!Existing => agencies[a] \in AgencyRow
  BY DEF A!Existing, AgenciesInv, AgencyTables
<1>4. \A a \in Partners.agencyIds :
        A!SalesOf(a) = u => A!isManager(u) \/ A!isSales(u)
  BY <1>1, <1>3 DEF A!SalesOf, AgencyRow, AgencySales, A!isManager, A!isSales
<1>5. \A m \in A!Scheduled : m \in Partners.meetingIds /\ meetings[m] \in A!AgencyMeeting
  BY DEF A!Scheduled, AgenciesInv, AgencyTables
<1>6. \A m \in A!Scheduled :
        (\E a \in A!Existing : meetings[m].agency = a /\ agencies[a].sales = u)
          <=> (meetings[m].agency # None /\ A!SalesOf(meetings[m].agency) = u)
  BY <1>1 DEF A!SalesOf, A!Existing
<1>7. A!listMeetings(u) = {m \in Partners.meetingIds : A!Opens(u, m)}
  BY <1>5, <1>6 DEF A!listMeetings, A!Opens, A!canSeeMeeting
<1>8. A!LinksToMeeting(u) \subseteq A!listMeetings(u)
  BY <1>5 DEF A!LinksToMeeting, A!getFeed, A!SeenWithCustomer, A!listMeetings, A!Takes,
              A!isManager
<1>9. \A t \in A!AgencyTasksShown(u) : tasks[t].agency \in A!listAgencies(u)
  BY <1>2 DEF A!AgencyTasksShown, AgenciesInv, TasksOfAgencies, A!listAgencies
<1>10. A!listAgencies(u) = {a \in A!Existing : A!canSeeAgency(u, a)}
  BY <1>3, <1>4 DEF A!listAgencies, A!canSeeAgency, A!Existing
<1>11. A!getAgency(u) = {a \in A!Existing : A!canEditAgency(u, a)}
  BY <1>2, <1>3, <1>4 DEF A!getAgency, A!listAgencies, A!canEditAgency, A!Existing, A!isManager,
                          A!isSales
<1> QED
  BY <1>7, <1>8, <1>9, <1>10, <1>11

LEMMA AgenciesPartStart == Init => AgenciesInv
  BY AgenciesStart DEF Init

LEMMA AgenciesPartKeep == AgenciesInv /\ [Next]_vars => AgenciesInv'
  BY AgenciesKeep, PartsMove DEF AgenciesInv

\* The list, the single meeting and the calendar agree on whose a meeting is, and so do those
\* of agencies (meetings.service.ts, calendar.service.ts, agencies.service.ts).
THEOREM OpeningsAgree == Spec => []OpensWhatIsShown
<1>1. AgenciesInv => OpensWhatIsShown
  BY WhatIsShownOpens DEF OpensWhatIsShown
<1> QED
  BY <1>1, AgenciesPartStart, AgenciesPartKeep, PTL DEF Spec

------------------------------------------------------------------------------
(* Types.                                                                     *)

\* The rows of every component have the shape of their tables: no request writes a row half,
\* or one of another table (schema.prisma).
THEOREM RowsHaveShape == Spec => []TypeOK
<1> DEFINE Tables == LeadPartsInv /\ EstatePartsInv /\ AgenciesInv /\ LedgerInv
<1>1. Init => Tables
  BY SalesParameters, LeadPartsStart, EstatePartsStart, AgenciesPartStart, LedgerStart DEF Init
<1>2. Tables /\ [Next]_vars => Tables'
  BY SalesParameters, LeadPartsKeep, EstatePartsKeep, AgenciesPartKeep, PartsMove, LedgerKeeps
<1>3. Tables => TypeOK
  <2> SUFFICES ASSUME Tables PROVE TypeOK
    OBVIOUS
  <2>1. /\ part = "leads" => L(Pipeline)!TypeOK
        /\ part = "webhook" => L(Webhook)!TypeOK
    BY DEF LeadPartsInv, LeadsInv, LeadsTypes
  <2>2. ASSUME NEW p, CustomersInv(p)
        PROVE  C(p)!TypeOK
    <3>1. \A c \in p.customerIds :
            owners[c] \in Seq([from : p.users \cup {None}, to : p.users \cup {None}])
      <4>1. \A c \in p.customerIds : owners[c] \in Seq(OwnerChange(p))
        BY <2>2 DEF CustomersInv, CustomerTables
      <4> QED
        BY <4>1 DEF OwnerChange
    <3>2. spins \in [p.unitIds -> Nat]
      BY <2>2 DEF CustomersInv, CustomerTables
    <3>3. DOMAIN customerCalls = p.requests
      BY <2>2 DEF CustomersInv, CustomerTables
    <3> QED
      BY <2>2, <3>1, <3>2, <3>3 DEF CustomersInv, CustomerTables, C!TypeOK, UnitRow
  <2>3. /\ part = "units" => C(Estate)!TypeOK
        /\ part = "files" => C(Files)!TypeOK
    BY <2>2 DEF EstatePartsInv
  <2>4. A!TypeOK
    <3>1. AgencyRow \subseteq A!Agency
      BY DEF AgencyRow, AgencySales, A!Agency
    <3> QED
      BY <3>1 DEF AgenciesInv, AgencyTables, A!TypeOK
  <2>5. S!TypeOK
    BY DEF LedgerInv, LedgerTypeOK, S!TypeOK
  <2> QED
    BY <2>1, <2>3, <2>4, <2>5 DEF TypeOK
<1> QED
  BY <1>1, <1>2, <1>3, PTL DEF Spec

------------------------------------------------------------------------------
(* Campaigns: the queue of one process.                                       *)

\* The interval timer of one API process, and no operator beside it.
OneMailer == \E w : K!Alone(w)

\* An address found not to exist is not written to again, from whichever campaign: only
\* another process could find it out between the check and the exchange
\* (bulk-email-queue.service.ts, isSuppressed).
THEOREM DeadMailboxIsLeftAlone ==
    OneMailer /\ K!LostAckIsNotPreData => (Spec => NeverContactSuppressed)
<1> SUFFICES ASSUME OneMailer, K!LostAckIsNotPreData
             PROVE  Spec => NeverContactSuppressed
  OBVIOUS
<1> DEFINE Inv == part = "campaigns" => K!DeliveryInv /\ K!CheckedIsOpen
<1>1. Init => Inv
  BY SalesParameters, K!DeliveryInit DEF Init, K!Init, K!CheckedIsOpen
<1>2. Inv /\ [Next]_vars => Inv'
  BY SalesParameters, PartsMove, K!DeliveryStep, K!CheckedStaysOpen DEF OneMailer
<1>3. Inv => (part = "campaigns" => K!ContactsUnsuppressed)
  BY DEF K!CheckedIsOpen, K!ContactsUnsuppressed
<1> QED
  BY <1>1, <1>2, <1>3, PTL DEF Spec, NeverContactSuppressed

\* The status and counts of a campaign agree with its recipients, and a queued job stays where
\* the claim finds it, as long as the one process does not die and nobody asks for a retry:
\* refreshCampaign counts and writes in two statements (bulk-email-queue.service.ts).
THEOREM CampaignsStayCounted ==
    OneMailer /\ Mailings.maxCrashes = 0 /\ Mailings.maxRetries = 0 /\ K!LostAckIsNotPreData
      => (Spec => []CampaignsAreCounted)
<1> SUFFICES ASSUME OneMailer, Mailings.maxCrashes = 0, Mailings.maxRetries = 0,
                    K!LostAckIsNotPreData
             PROVE  Spec => []CampaignsAreCounted
  OBVIOUS
<1> DEFINE Counting(w) == K!Alone(w) /\ K!CountsInv(w)
           Inv == part = "campaigns" => K!DeliveryInv /\ \E w : Counting(w)
<1>1. Init => Inv
  BY SalesParameters, K!DeliveryInit, K!CountsInit DEF Init, OneMailer
<1>2. Inv /\ [Next]_vars => Inv'
  <2> SUFFICES ASSUME Inv, [Next]_vars, part' = "campaigns" PROVE (K!DeliveryInv /\ \E w : Counting(w))'
    OBVIOUS
  <2>1. K!DeliveryInv /\ [K!Next]_(K!vars)
    BY PartsMove
  <2>2. PICK w : K!Alone(w) /\ K!CountsInv(w)
    BY PartsMove
  <2>3. K!DeliveryInv'
    BY <2>1, SalesParameters, K!DeliveryStep
  <2>4. K!CountsInv(w)'
    BY <2>1, <2>2, SalesParameters, K!CountsStep
  <2>5. K!Alone(w)'
    BY <2>2 DEF K!Alone, K!Workers
  <2> QED
    BY <2>3, <2>4, <2>5
<1>3. Inv => CampaignsAreCounted
  BY SalesParameters, K!CountsHold DEF CampaignsAreCounted
<1> QED
  BY <1>1, <1>2, <1>3, PTL DEF Spec
===============================================================================

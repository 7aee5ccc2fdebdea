--------------------------------- MODULE Sales ---------------------------------
(* The sales components side by side: leads and the Meta webhook, customers and    *)
(* their units, agencies and meetings, the sales ledger, the payment views and the *)
(* messages written about them, and the mail queue beside the operator's command.  *)
(* They share no table that both write: "part" says which one moves in a           *)
(* behaviour, each from its own Init, and the others stay in theirs.               *)
(*                                                                                 *)
(* Each constant is a record of the parameters of one component.                   *)
CONSTANTS None,
          Pipeline, Webhook, \* of Leads
          Estate, Files,     \* of Customers
          Partners,          \* of Agencies
          Ledger,            \* of SalesLedger
          Snapshot,          \* of PaymentViews
          Messages,          \* of PaymentCase
          Mail, Mailings     \* of BulkEmailQueue

VARIABLES part,
          leads, leadCalls, hooks,
          customers, units, presentations, documents, files, owners, spins, customerCalls,
          active, agencies, agencyOwners, meetings, tasks, agencyCalls,
          selling, mappings, assignments, ledgerCalls, assigned,
          rows, states,
          cases, log, intents, acked, requests,
          job, recipient, campaign, suppressed, preview, dispatch, pc, target, stale,
          claimed, failure, refresh, accepted, logged, crashes, retries

leadVars     == <<leads, leadCalls, hooks>>
customerVars == <<customers, units, presentations, documents, files, owners, spins, customerCalls>>
agencyVars   == <<active, agencies, agencyOwners, meetings, tasks, agencyCalls>>
ledgerVars   == <<selling, mappings, assignments, ledgerCalls, assigned>>
viewVars     == <<rows, states>>
caseVars     == <<cases, log, intents, acked, requests>>
queueVars    == <<job, recipient, campaign, suppressed, preview, dispatch, pc, target, stale,
                  claimed, failure, refresh, accepted, logged, crashes, retries>>
vars == <<part, leadVars, customerVars, agencyVars, ledgerVars, viewVars, caseVars, queueVars>>

------------------------------------------------------------------------------
(* The instances.                                                             *)

L(pipeline) == INSTANCE Leads WITH
       LeadIds <- pipeline.leadIds, Users <- pipeline.users, role <- pipeline.role,
       Requests <- pipeline.requests, Hooks <- pipeline.hooks, Leadgens <- pipeline.leadgens,
       FollowUps <- pipeline.followUps, calls <- leadCalls

C(estate) == INSTANCE Customers WITH
       CustomerIds <- estate.customerIds, DND <- estate.dnd, UnitIds <- estate.unitIds,
       Numbers <- estate.numbers, Presentations <- estate.presentations,
       Documents <- estate.documents, Users <- estate.users, role <- estate.role,
       Requests <- estate.requests, history <- owners, calls <- customerCalls,
       MaxHistory <- estate.maxHistory

A == INSTANCE Agencies WITH
       AgencyIds <- Partners.agencyIds, MeetingIds <- Partners.meetingIds,
       TaskIds <- Partners.taskIds, CustomerIds <- Partners.customerIds,
       owner <- Partners.owner, Users <- Partners.users, role <- Partners.role,
       Requests <- Partners.requests, history <- agencyOwners, calls <- agencyCalls,
       MaxHistory <- Partners.maxHistory

S == INSTANCE SalesLedger WITH
       Accounts <- Ledger.accounts, Codes <- Ledger.codes,
       representatives <- Ledger.representatives, Sales <- Ledger.sales,
       Requests <- Ledger.requests, calls <- ledgerCalls, history <- assigned,
       MaxVersion <- Ledger.maxVersion

V == INSTANCE PaymentViews_proofs WITH
       Rows <- Snapshot.rows, Identities <- Snapshot.identities,
       Currencies <- Snapshot.currencies, invoice <- Snapshot.invoice,
       unitProject <- Snapshot.unitProject, codeOwner <- Snapshot.codeOwner,
       Salespeople <- Snapshot.salespeople, asOf <- Snapshot.asOf,
       FollowUpDates <- Snapshot.followUpDates, MonthDays <- Snapshot.monthDays,
       Months <- Snapshot.months, PageSize <- Snapshot.pageSize, MaxRows <- Snapshot.maxRows

P == INSTANCE PaymentCase_proofs WITH
       Keys <- Messages.keys, Users <- Messages.users, Messages <- Messages.messages,
       Dates <- Messages.dates, Texts <- Messages.texts, Intents <- Messages.intents,
       Types <- Messages.types, Requests <- Messages.requests

Q == INSTANCE BulkEmailQueue_proofs WITH
       Jobs <- Mail.jobs, Campaigns <- Mail.campaigns, Addresses <- Mail.addresses,
       CampaignOf <- Mail.campaignOf, Index <- Mail.index, Address <- Mail.address,
       Schedulers <- Mail.schedulers, Operators <- Mail.operators, NoJob <- None,
       Hourly <- Mail.hourly, Daily <- Mail.daily, Interval <- Mail.interval,
       Hour <- Mail.hour, Day <- Mail.day, StaleAfter <- Mail.staleAfter,
       MaxAttempts <- Mail.maxAttempts, Backoff <- Mail.backoff,
       LostAckCommands <- Mail.lostAckCommands, MaxCrashes <- Mail.maxCrashes,
       MaxRetries <- Mail.maxRetries

K == INSTANCE BulkEmailQueue_proofs WITH
       Jobs <- Mailings.jobs, Campaigns <- Mailings.campaigns, Addresses <- Mailings.addresses,
       CampaignOf <- Mailings.campaignOf, Index <- Mailings.index,
       Address <- Mailings.address, Schedulers <- Mailings.schedulers,
       Operators <- Mailings.operators, NoJob <- None, Hourly <- Mailings.hourly,
       Daily <- Mailings.daily, Interval <- Mailings.interval, Hour <- Mailings.hour,
       Day <- Mailings.day, StaleAfter <- Mailings.staleAfter,
       MaxAttempts <- Mailings.maxAttempts, Backoff <- Mailings.backoff,
       LostAckCommands <- Mailings.lostAckCommands, MaxCrashes <- Mailings.maxCrashes,
       MaxRetries <- Mailings.maxRetries

\* The components' assumptions on their parameters.
ASSUME SalesParameters ==
    /\ L(Pipeline)!LeadsAssumption /\ L(Webhook)!LeadsAssumption
    /\ C(Estate)!CustomersAssumption /\ C(Files)!CustomersAssumption
    /\ A!AgenciesAssumption /\ S!SalesLedgerAssumption /\ V!PaymentViewsAssumption
    /\ P!LedgerAssumption /\ Q!QuotaAssumption /\ Q!QueueAssumption
    /\ K!QuotaAssumption /\ K!QueueAssumption

------------------------------------------------------------------------------
(* The composition.                                                           *)

Parts == {"leads", "webhook", "units", "files", "agencies", "ledger", "views", "messages",
          "mail", "campaigns"}

Init ==
    /\ part \in Parts
    /\ (IF part = "webhook" THEN L(Webhook)!Init ELSE L(Pipeline)!Init)
    /\ (IF part = "files" THEN C(Files)!Init ELSE C(Estate)!Init)
    /\ A!Init /\ S!Init /\ V!Init /\ P!Init
    /\ (IF part = "campaigns" THEN K!Init ELSE Q!Init)

LeadsStep ==
    /\ part = "leads" /\ L(Pipeline)!Next
    /\ UNCHANGED <<part, customerVars, agencyVars, ledgerVars, viewVars, caseVars, queueVars>>

WebhookStep ==
    /\ part = "webhook" /\ L(Webhook)!Next
    /\ UNCHANGED <<part, customerVars, agencyVars, ledgerVars, viewVars, caseVars, queueVars>>

UnitsStep ==
    /\ part = "units" /\ C(Estate)!Next
    /\ UNCHANGED <<part, leadVars, agencyVars, ledgerVars, viewVars, caseVars, queueVars>>

FilesStep ==
    /\ part = "files" /\ C(Files)!Next
    /\ UNCHANGED <<part, leadVars, agencyVars, ledgerVars, viewVars, caseVars, queueVars>>

AgenciesStep ==
    /\ part = "agencies" /\ A!Next
    /\ UNCHANGED <<part, leadVars, customerVars, ledgerVars, viewVars, caseVars, queueVars>>

LedgerStep ==
    /\ part = "ledger" /\ S!Next
    /\ UNCHANGED <<part, leadVars, customerVars, agencyVars, viewVars, caseVars, queueVars>>

ViewsStep ==
    /\ part = "views" /\ V!Next
    /\ UNCHANGED <<part, leadVars, customerVars, agencyVars, ledgerVars, caseVars, queueVars>>

MessagesStep ==
    /\ part = "messages" /\ P!Next
    /\ UNCHANGED <<part, leadVars, customerVars, agencyVars, ledgerVars, viewVars, queueVars>>

MailStep ==
    /\ part = "mail" /\ Q!Next
    /\ UNCHANGED <<part, leadVars, customerVars, agencyVars, ledgerVars, viewVars, caseVars>>

CampaignsStep ==
    /\ part = "campaigns" /\ K!Next
    /\ UNCHANGED <<part, leadVars, customerVars, agencyVars, ledgerVars, viewVars, caseVars>>

Next == \/ LeadsStep \/ WebhookStep \/ UnitsStep \/ FilesStep \/ AgenciesStep
        \/ LedgerStep \/ ViewsStep \/ MessagesStep \/ MailStep
        \/ CampaignsStep

Spec == Init /\ [][Next]_vars

------------------------------------------------------------------------------
(* Properties, each of the part it is about.                                  *)

\* The rows of every component have the shape of their tables.
TypeOK ==
    /\ part = "leads" => L(Pipeline)!TypeOK
    /\ part = "webhook" => L(Webhook)!TypeOK
    /\ part = "units" => C(Estate)!TypeOK
    /\ part = "files" => C(Files)!TypeOK
    /\ part = "agencies" => A!TypeOK
    /\ part = "ledger" => S!TypeOK

\* However requests overlap, a lead that is on top of the lists as "fresh" is still new,
\* uncontacted and in nobody's hands (leads.service.ts).
FreshUntilContact == part = "leads" => L(Pipeline)!FreshUntilContact

\* However often and concurrently Meta delivers a form, it becomes one lead; a unit wins one
\* prize, although two spins may both find no earlier one, and is on one customer once
\* (meta.service.ts, agent-wheel.service.ts, customers.service.ts).
NothingTwice ==
    /\ part = "webhook" => L(Webhook)!OneLeadPerLeadgen
    /\ part = "units" => C(Estate)!OnePrizePerUnit /\ C(Estate)!OneRowPerUnit

\* Three places decide whose a meeting is: the list, the single meeting and the calendar.
\* They agree, and so do those of an agency (meetings.service.ts, calendar.service.ts,
\* agencies.service.ts).
OpensWhatIsShown == part = "agencies" => A!OpensWhatIsShown

\* Nobody reassigns an account over an assignment he has not seen
\* (sales-ledger.service.ts).
LedgerImplementsRecord == S!ImplementsRecord

\* The parts of a collection report make up the whole, and nothing of a case is lost between
\* the kinds of payment, or counted twice
\* (payment-collection-report.service.ts, payment-tracking-kind.ts).
ReportAddsUp == part = "views" => V!ReportAddsUp /\ V!KindsDivideCases

\* The list, the report and the installment table agree on what is overdue, and the pages of
\* the list, one after the other, are the list
\* (payment-tracking.service.ts, payment-installment-table.ts).
ViewsAgree == part = "views" => V!ViewsAgree /\ V!PagesAreTheList

\* A file shown as paid off has nothing open or unknown in any currency or kind
\* (payment-tracking.service.ts).
ClosedIsPaidOff == part = "views" => V!ClosedIsPaidOff

\* A confirmation follows the user's own draft, a message id is used once, and what a user
\* was told is recorded has been recorded, also when a form is sent again
\* (payment-tracking-store.service.ts).
MessagesAreKept ==
    part = "messages" => P!SentWasDrafted /\ P!OnePerRequestId /\ P!AckedIsRecorded

\* The operator's command and the timer go through one quota: the row implements
\* DispatchWindow (bulk-email.service.ts, bulk-email-queue.service.ts).
KeepsWindow ==
    /\ (part = "mail" => Q!WindowInit) /\ (part = "campaigns" => K!WindowInit)
    /\ [][/\ part = "mail" => [Q!WindowNext]_dispatch
          /\ part = "campaigns" => [K!WindowNext]_dispatch]_vars

\* With one process and no crash, the status and the counts of a campaign agree with its
\* recipients, and a queued job stays where the claim finds it: its campaign is SENDING
\* (bulk-email-queue.service.ts, refreshCampaign).
CampaignsAreCounted ==
    part = "campaigns" => K!CampaignCounted /\ K!QueuedIsDispatchable

\* An address found not to exist is not written to again, from whichever campaign
\* (bulk-email-queue.service.ts, isSuppressed).
NeverContactSuppressed == [][part = "campaigns" => K!ContactsUnsuppressed]_vars
=============================================================================

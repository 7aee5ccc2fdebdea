# TLA+ model of the DnD CRM API

The repository is a NestJS API over PostgreSQL (Prisma). Its services look like forms over tables; what is
hard in them is that several processes, requests, timers and outside services meet on the same rows, each
having read them some statements ago. This directory models the services, checks them with TLC and proves
central invariants with TLAPS. Source paths below are relative to the repository (`src/...`).

Contents: 1 inventory, 2 modules and the code, 3 runs, bounds and fairness, 4 findings, 5 proofs,
6 what is not modelled, 7 plan.

## 1. Inventory

### Bulk e-mail (src/bulk-email)

*State*, all in the database: campaigns (status, pausedAt, counters), a recipient row and a job row per
message, a list of suppressed addresses, one dispatch row with the quota. Per process: the flag `running`.

*Operations.* Requests preview the recipients, submit, pause, resume and retry a campaign
(`bulk-email.service.ts`). Every API process ticks `processOne` from an interval timer
(`bulk-email-queue.service.ts`); a command-line operator calls it for one job of a paused campaign.
`processOne` gives up jobs found SENDING for ten minutes, claims the oldest eligible job under the lock of
the dispatch row, looks at the suppressions, sends, writes the outcome, recounts the campaign and writes the
communication log of the unit. `email-delivery-policy.ts` decides what an SMTP error means.

*Hard.* The process may die after the server took the message; another process may give the job up
meanwhile; replies are lost; temporary rejections are retried with a backoff; the recount reads and writes
in two statements; two windows are restarted lazily by whoever claims next.

*Correct means:* no message delivered twice; nothing resendable was ever delivered; a delivery of unknown fate
stays UNCERTAIN; the quota holds whoever sends; every queued message is settled in the end; the campaign's
counters tell the truth.

### Payment tracking (src/payment-tracking)

*Source cache* (`payment-tracking-source.service.ts`): one snapshot per process, the field `loading` (the one
read under way), a backoff, a background timer. Readers, timer and startup start reads; a read puts three
questions to the source and is accepted, refused (integrity) or fails (connection). Hard: events between
awaits, a day or an age limit that passes while a read runs, a failure that must (or must not) drop the
cache, shutdown during a read. Correct: one read at a time, only current and undoubted answers, a timer that
neither stops nor outlives the service, nobody waiting for ever.

*Follow-up store* (`payment-tracking-store.service.ts`, actions of `payment-tracking.service.ts`): a row per
case with a version, and the log of its events. Hard: rows read before they are locked, forms sent
again after a lost answer, message ids chosen by browsers, a check made before the transaction. Correct: log
and row agree, the log has no gap, an intent is recorded once, a confirmation follows its draft.

*Sales ledger* (`sales-ledger.service.ts`): which accounts a salesperson sees, follow-up assignments under an
advisory lock and a version, representative codes mapped to users without one. Hard: the first assignment has
no row to lock. Correct: nobody assigns over an assignment he has not seen.

*Views and reports*: list, detail, collection report and installment table, computed from the accepted snapshot
in three files that repeat each other's arithmetic, with amounts and dates that may be unknown. Correct: the
parts of a report make up the whole, the views agree, a file is closed only when nothing of it is open or
unknown, pages neither repeat nor miss a case.

### Construction (src/construction)

Projects, progress entries, budget items, issues and the progress claims of contractors, each with a version
that a page shows and a form sends back. Hard: statements read before the version is compared; a claim that
carries forward what its predecessor had accepted; two administrators opening the next period. Correct:
carried quantities stay true, one chain of claims, closed periods stay closed, an exact history.

### Sales (leads, customers, units, agent-wheel, agencies, meetings, calendar)

| Component | State and operations | Hard behaviour | Correct means |
|---|---|---|---|
| Leads, Meta webhook | status, manager, sales user, contact, follow-up; change, hand over, delete; deliveries of forms | reads and checks before a transaction that compares nothing; a form delivered twice at once | a contacted lead is never fresh again; one lead per form |
| Customers, units | owner and history, documents, presentations, sold units; cancel, restore, move | a look, then a write; a file store beside the database | one row of a unit per customer |
| Agent wheel | prizes of sold units; spin | two spins that read no earlier one; a sale cancelled in between | one prize per unit |
| Agencies, meetings, calendar | sales users, tasks, three tables of meetings; create, move, assign, delete | the same right written down in three places | what is shown opens, what opens is shown |

### Office (tasks, it-support, digital-team, digital-map, org-chart, quality-control, pdca, users, auth, notifications)

| Component | State and operations | Hard behaviour | Correct means |
|---|---|---|---|
| Tasks and work projects | projects, members, items, subtasks, checklists, blockers, files; a lock per project | two links close a circle; a done item has parts that change by themselves; bulk changes | no circle; done is finished; whoever is told may read |
| IT support | tickets, entries, files; version per ticket | a page is two reads; files counted before they are added | a page shows one version, saves follow what was seen |
| Digital team | members, projects; one lock | a member leaves while a project is assigned to him | only active members get work |
| Digital map | one drawing, images; version | the first save has no row | saves follow what was seen; the drawing can be drawn |
| Organisation chart | positions, occupants, acknowledgements; one lock and a version | moves at once; acknowledging a text that changes | a tree; acknowledgements of the present text |
| Quality control | cards, items, documents; defaults seeded by each process | seeding beside edits, failures and restarts | a deleted default stays deleted |
| PDCA | cases and a log; no transactions | a case written on an old reading, a log entry that fails | every move logged |
| Users, authentication | accounts, sessions; two ways of deletion | counts that are old when the deletion comes | work keeps its creator |
| Notifications | rows, an unread number pushed to browsers | change, count and push are three steps | the number shown is recent |

The ISO register, the dashboard of administrators, the access to the database, the e-mail transport, the Logo
databases, file storage and the audit log are listed in `PROJECT.json` with the reason they are not modelled.

*How components meet.* Everything shares the database. The queue writes the communication log of units; the
payment store needs the snapshot (a case must exist in it); the sales ledger narrows the snapshot before the
views compute on it; leads, tasks, tickets and the others write notifications, most of them after their
commit; deleting an account reaches into the rows of most components (`Accounts`, and `deletePerson` of
`SalesLedger` and `Organization`). In memory only the snapshot, the seeding promise and the sockets are shared.

`PROJECT.json` lists every component with its sources, and every hazard at its line with the property that
would catch it or the module planned for it.

## 2. Modules and the code

Each model has one action per statement or transaction that other actors can come between; what runs under a
row lock until the commit is one action. Each operator that is called a *faulty variant* in its comment is the
plausible mistake next to the definition it varies: substituted for it, it makes TLC find some property
violated, so no property holds by construction. No specification uses one.

### DispatchWindow, BulkEmailQueue

`DispatchWindow` is the row "global" of `BulkEmailDispatchState`. Time is relative: the code only compares
stored instants with now, so the model keeps how far away they are, saturating where the comparison no
longer changes. `Dispatch` is the quota part of the claim.

`BulkEmailQueue` EXTENDS it. A job and its recipient are one to one and both indexed by `Jobs`.

| Variable, action | Code |
|---|---|
| `job`, `recipient`, `campaign`, `suppressed` | the four tables; `wait` is availableAt, `age` startedAt |
| `preview` | the recipients a submission has read and not yet saved |
| `pc`, `target`, `stale`, `claimed`, `failure`, `refresh` | the local variables of one call of processOne |
| `PreviewRecipients`, `SendBulkEmail`, `PauseCampaign`, `ResumeCampaign`, `RetryFailedRecipients` | the requests of bulk-email.service.ts |
| `FindStale`, `MarkUncertain` | the sweep, one row of findMany at a time |
| `Claim`, `ClaimNothing` | the claiming transaction |
| `CheckSuppressed`, `Finish`, `SendMail`, `SuppressMailbox`, `PersistFailure`, `PersistSent` | the rest of the call, a statement each |
| `CountRecipients`, `WriteCampaign` | the two statements of refreshCampaign |
| `WriteUnitLog`, `Crash`, `Tick` | the log (a failure is swallowed), the end of a process, time |

`accepted` is auxiliary: how often the mail server took the message. What the transport can throw is
`SmtpErrors`; `LostAckCommands` says under which commands a lost acknowledgement is reported. A failing
database statement ends the call like a crash. The parsing of the quota's environment variables is the
assumption on the constants. Addresses, subjects and bodies are model values.

### PaymentSource

One process, one event loop: an action is the code between two awaits, so a `.then` and its `.finally` are
one step. `source` stands for what the source holds: the active import batch, or the state of the Logo views
when these are read directly. `reads` are numbered because only the field `loading` keeps two from running
side by side. Ages saturate; `NoTimer`, `NotYet` and `NoCodes` lie outside of the ranges. `doubted` is
auxiliary: an integrity failure has been observed since that read began. `answer` is what the last step gave
to requests. `snapshot(r)` covers fresh, refreshing, stale, joined and forced answers; `readFinancialRows`,
`readAuthorization`, `readPaymentSourceAudit`, `RetryFinance` are the three questions with their outcomes,
`Succeed` and `Fail` the end of a read. `importedAt` only feeds a displayed date and is left out. The
reconciliation arithmetic of the audit is its verdict: passed, invalid or unavailable.

### CaseLedger, PaymentCase

`CaseLedger` is the abstract specification: an action of a user is one step that sees the present row,
appends one event and raises the version; an action sent again is acknowledged (messages) or not recorded.

`PaymentCase` EXTENDS it with the store as it runs at READ COMMITTED. A user's decision is an *intent*; each
intent is sent any number of times, by any number of requests at once, from a page of any age. A request
looks for the date to reset outside of the transaction, reads the row, looks for the request id, reads the
draft, and commits by a conditional update of the version or by the creation of the row (a lost race is the
unique violation P2002). From that write to the commit the row is locked: one action. `acked` holds the
intents whose user was told of success; an answer may be lost. The types of action are `defer`, `reset`,
`note`, `contact`, `assign`, `priority`, `message_draft`, `message_sent`.

A row that does not exist is a row of version 0 with the defaults of the code (`current?.x ?? default`). The
check of roles, of the account and of the identity of the case can only refuse a request and are a
refusal like any other. Contact channel, recipient and subject are part of the text. Assignees are their
names. The row returned to a repeated message is discarded by the caller, who reads the case anew, so a stale
row there is not visible.

### ConstructionClaims

The claims of one contractor in one project; other contractors' requests touch other rows. A request reads a
line, its parent, the claim, the base, its lines, and looks for a later claim, each a statement of its own
(`ReadLine` ... `assertLatestClaim`); `updateClaimLine`, `updateClaim`, `createClaim` are the conditional
update of the version and all that follows to the commit. `Refused` is any rollback. A page shows any version
up to the present one. A number in use is refused by the query or by the unique index. `opened` and `base`
are auxiliary: what a claim was opened with, and from which claim. The import leaves one claim. Prices and
measurements travel with the quantities and are left out.

### Leads

A request is a reading and a write: `calls` keeps what was read (the lead, or the users to hand it to), and the
actions named after the handlers of `LeadsService` (`changeStatus`, `sendToManager`, `assignSales`, ...) check
that reading and write over whatever is there by then. `lead.rules.ts` is `canTransition`. `hooks` are
deliveries of `MetaService.upsertLeadFromMetaLeadgen`: look for the lead of the form, then of the phone number,
then create or complete one, or fail; `MetaController` answers every one of them alike.

### Customers

`customers`, `units`, `presentations`, `documents` and `files` (the storage beside the database) with `owners`
and `spins`; `calls` as above. Units are cancelled to the system customer `DND` and given back, renamed and
deleted (`UnitsService`); a document is a file first and a row then; mail goes out before its log entry; a spin
is the reads of `AgentWheelService` and an insertion that the unique key accepts or refuses.

### Agencies

Agencies with the history of their sales users, tasks, and meetings of three tables (`AgenciesService`,
`MeetingsService`). `canSeeMeeting`, `listMeetings` and `getFeed` are the three translations of who sees a
meeting, from the single meeting, the query of the list and `CalendarService`.

### SalesLedger, VersionedRecord

`VersionedRecord` is the abstract promise of a versioned row: a save has seen all saves before it. `SalesLedger`
has pages (`detail`), the lock and what is read under it (`Lock`), the upsert (`assignFollowup`), and what happens
to codes and users meanwhile. It implements `VersionedRecord`, and so do `ItSupport` and `DigitalMap`.

### PaymentViews

Operators over a snapshot that grows row by row, and over follow-up dates: from rows to cases (`sourceCase`),
kinds (`selectPaymentKind`), `paymentList` with its filters, order, pages and sums, `describe`,
`buildCollectionReport`, `buildInstallmentTable`, `salesLedgerSnapshot`. The properties compare one with
another or with a definition from the rows, on every sequence of rows up to `MaxRows`; `PaymentViews_proofs`
shows them for every snapshot.

The code's sort is `Sorted`: some listing of the rows in which none stands after one it comes `Before`
(`Listings`). That there is exactly one is proved, not assumed. The statuses are chains of IF in the order of
the code's early returns, since their conditions overlap and a CASE would leave open which one applies.

### WorkTasks, Organization, DigitalTeam

All three are services under an advisory lock: `Lock` is the lock and the reads, an action is the checks on
what was read, the writes and the commit. The lock is part of the model and not assumed: the faulty variants
drop it or look past it. `WorkTasks` keeps in `told` whom the last step notified.

### ItSupport, DigitalMap

`ItSupport`: `pages` go through the two reads of a page and are then submitted; an entry carries what its
author had seen. A ticket has its files, its timestamps and its visibility rules. `DigitalMap`: one document that
is saved as a whole, validated, by whoever drew on the latest one; images.

### QualityControl, Pdca, Accounts, Notifications

`QualityControl`: `memo` is the promise that keeps a process from seeding twice, `seeding` the four statements
of it; `Restart` forgets both. `Pdca`: an action per statement, since there is no transaction. `Accounts`: the
counts and deletions of `UsersController`, one row per kind of reference, sessions and their renewal.
`Notifications`: change, count and emission as three steps of a push; browsers that connect.

### Sales, Office

Compositions of instances of these modules. They share no table that two of them write, so a behaviour moves one
*part* and leaves the others in their initial state; this is a way to check several small instances in one run
and to prove about all of them in one place, not a claim about their interaction. Each component takes its
parameters from one record constant (`Pipeline`, `Estate`, `Backlog`, ...). Where two kinds of behaviour need
different instances (a lead in three hands, or a form delivered twice), the module is instantiated twice, with
the record as its argument where lemmas are shared: `L(pipeline)`, `C(estate)`, `O(chart)`. `MCSales` and
`MCOffice` give the records their values.

## 3. Runs, bounds and fairness

Deadlock is checked in every run but `sales` and `office`, where bounds (versions, rows, entries) let a part come
to an end. Symmetry is used only in runs without a temporal property that needs fairness; the sets are
processes, requests, intents, claims, numbers, readers and reads, units, work items, chart records and the users
of notifications, which no definition
tells apart. Four runs expect a violation; see section 4.

| Run | Question | Instance |
|---|---|---|
| queue_safety | is anything sent twice, resent without confirmation, or written over? | 2 API processes, 1 campaign of 2 customers, 1 crash, 1 retry |
| queue_live | is every message settled, every interrupted exchange too? | 1 process, 2 campaigns of one customer each who share an address, 1 crash, fairness |
| queue_retry | (violated) the same with an explicit retry | 1 process, 1 message, 1 retry |
| queue_lost_ack | (violated) at most once, when a lost acknowledgement is reported as CONN | 1 process |
| source_safety | only current and undoubted answers | 2 readers, 2 reads, 1 change of the source |
| source_live | does everyone get an answer, is the source read again? | 1 reader, 1 read, fairness |
| source_mixed | (violated) codes and rows of one state of the source | 1 change during a read |
| claims | carried quantities, closed periods, exact history | 2 administrators, 3 claims, 1 line |
| case_actions | no gap, no repetition; implements `LedgerSpec` | 1 case, 3 intents of any type, 1 message id, 2 requests |
| sales | ten parts: leads, webhook, units, files, agencies, ledger, views, messages, mail, campaigns | below |
| office | fourteen parts: four of work items, two of tickets, two of the chart, six more | below |
| office_told | (violated) may everyone who is told of a work item read it? | a project of two users |

*Bounds.* Queue: `MaxAttempts` is 2 instead of 4 and `ShortBackoff` is 1, 2 ticks, enough for one retry, one
exhaustion and a wait that outlasts a claim; `StaleAfter` = 1 tick, so that a sweep may meet an
exchange that is merely slow; `Hourly`, `Daily`, `Interval`, `Hour`, `Day` as small as lets a window fill
and restart; `MaxCrashes` and `MaxRetries` are at most 1, since a second one starts from a state the first
can leave. Source: `Backoff` < `Ttl` < `Active` = `Idle` < `MaxAge` (1, 2, 3, 3, 4) is the order of the real
constants (15, 30, 120, 120, 300 s); `MaxChanges` = 1 makes two states of the source. Claims: `MaxPeriod` = 3
leaves room to skip a period, `MaxVersion` = 3 to edit a claim and then open the next, or to edit twice;
`PreviousQuantities` and `AcceptedQuantities` are what forms may contain. Cases: the number of intents
bounds versions and log; three allow a conflict, a repetition and a step after both; in `messages` one message
id is what two users need to collide.

Sales: two requests overlap on one lead held by a call centre user, a manager and a salesperson; two deliveries of one
form beside an edit; two rows for one unit number under two requests, which is what a double sale or a double
spin needs; one document and presentation; one agency, meeting and task with a user of each role; one account
of two codes with two salespeople and two requests. Views: any sequence of up to three of eleven rows, chosen on
and next to the boundaries (30, 31, 60, 61, 90, 91 days, the month, the horizon), in two currencies and
without one, with unknown dates and amounts; pages of two. Mail: one process and the operator, one message an
hour, two a day. Campaigns: one process, two campaigns with three messages that share an address, one attempt
each, no crash and no retry.

Office: two work items under two requests and three under one (circles of three); one project of two users, one of
them of the call centre; one ticket with two pages at once, and with one page for a longer life; a tree of three
records, two saves each; one position with two possible occupants and six saves; two default cards, one default
item and one of the users; one improvement case moved by two requests; an account deleted while it works; four
drawings, valid and not, four saves; two notifications, two users and two pushes at once.
`CirclesStep` leaves archived and assigned items to the part "work".

*Fairness.* `BulkEmailQueue!FairSpec`: weak fairness of `ProcessOne` of each scheduler, because setInterval
ticks for ever and every await of the call returns (the transport and the database have timeouts), and of
`Tick`. No fairness for operators, requests or crashes. `PaymentSource!FairSpec`: weak fairness of each
step of a read (the driver answers or times out), of a due timer, and of `Tick`; none for requests, shutdown
or the source.

`CampaignsAreCounted` (the counters of a campaign agree with its recipients, its queued jobs stay where the claim
looks) and `NeverContactSuppressed` are checked in the part "campaigns", with one process only: with two the
recount is stale for a while, and an address may be suppressed between the look and the send.

## 4. Findings

1. **An explicit retry can be swallowed** (queue_retry). `refreshCampaign` reads the recipients and writes the
   campaign in two statements (bulk-email-queue.service.ts:35, 44). A retry that commits in between has its
   SENDING overwritten by PARTIAL or FAILED: its jobs stay QUEUED, no claim looks at them, and
   resume refuses the campaign. The documentation promises the retry of confirmed failures.
2. **A lost acknowledgement may be sent again** (queue_lost_ack). The policy takes command CONN for one before
   the message. nodemailer reports a connection lost while it waits for the reply to DATA as CONN too, so the
   message is requeued though the server may have it; the documentation says it becomes UNCERTAIN.
   The theorems of the queue therefore assume `LostAckIsNotPreData`.
3. **Codes of one import on rows of another** (source_mixed). The three questions of a read each look up the
   active batch; an import that activates another in between mixes them, against
   docs/payment-tracking.md:85.
4. **A bulk change tells whom it has just locked out** (office_told). The audience of its notifications is
   filtered by the rows read before the change (tasks.service.ts:1219), so a call centre user who follows an
   item of a project and loses it by the change is told of it, and the one who gets it is not;
   docs/work-management.md:39 promises filtering by access, and the single update filters by the row as
   written. What holds is `ToldIsFiltered` (in `NotificationsAreSound`).

Met while modelling, and in the models as the code has them, but no run of their own:

- `changeStatus` of a lead checks a status that another request may have replaced (leads.service.ts:664), so a
  closed lead can be moved on by a request that began before; likewise PDCA (pdca.service.ts), where a move may
  reopen a case that was closed meanwhile. No document says otherwise. What does hold is `FreshUntilContact`
  and `PhaseIsLogged`.
- The webhook answers a delivery that failed with `ok` (meta.controller.ts:42); Meta does not repeat it.
- Work assigned to a user between the count and the deletion of his account loses its assignee
  (`onDelete: SetNull`), while docs/work-management.md:35 calls the deletion blocked; its creator it keeps
  (`Restrict`), which is `WorkKeepsItsCreator`.
- docs/payment-tracking.md:175 lists what makes a file fully paid; the code also asks every row for a due date,
  paid or not (`incomplete`). `ClosedIsPaidOff` states what the code does.
- A deleted default of quality control returns after a restart; within a process it does not.

## 5. Proofs

Every theorem holds for all values of the constants that satisfy the module's ASSUME, which only states what
the code justifies (finite sets, positive periods, distinct sentinels); TLC evaluates it on every run.
The layout is always the same: Init implies the invariant, each action keeps it (one lemma per
action or group, one step per conjunct it can disturb), PTL combines.

- **BulkEmailQueue_proofs**, under `LostAckIsNotPreData`. At-most-once is not inductive: a job that is
  SENDING may or may not be delivered, and only where its process stands tells which. `DeliveryInv` adds that
  (`AcceptanceKnown`, `ExchangeHoldsJob`, `OneExchangePerJob`), that resendable jobs were not accepted
  (`UnsentNotAccepted`), and that the way to the log goes through SENT. From it: `AtMostOnce`,
  `ResendOnlyUndelivered`, `OneProcessPerJob`, `RowsConsistent`, `UncertainStays`. `QuotaKept` needs no
  hypothesis: every step is a step of `DispatchWindow` or leaves its row alone. What that row lets through is
  `HourIsBounded`: a window begins at the first claim after the last one has run out, not on the clock, so any
  hour sees at most two windows, hence at most `2 * Hourly` messages, and a day `2 * Daily`; and since claims are
  an interval apart, with the documented 100 an hour and 36 seconds no more than 100 go out in an hour. It is about
  any stretch of steps of the row (`Observed`), by induction over them. For one process
  (`Alone`) there is more: `CountsInv` says where the counters of a campaign may differ from its recipients, which
  is only while that process owes it a recount, and `CheckedIsOpen` that no address is suppressed
  between the look and the send.
- **PaymentSource_proofs.** `SourceInv`: that `loading` names the one read, that a read stops the timer and
  a finished one has left its mark (`TimerBetweenReads`), and that nothing doubted is cached or being read.
  From it: `OneReadAtATime`, `CachedAnswersAreCurrent`, `DoubtedIsNotAnswered`, `BackgroundRuns`.
- **ConstructionClaims_proofs.** `ClaimsInv`: while the version a request saw is the present one, everything
  it read still holds and its claim is the latest (`RequestsInformed`). That is why comparing the version once,
  at the write, is enough for statements read before. From it: `QuantitiesAreCarried`, `ChainIsOne`,
  `HistoryIsKept`, `ClosedPeriodsStay`.
- **PaymentCase_proofs.** `LedgerInv` of the abstract ledger (every event is its intent's, recorded on the
  version its user saw: hence once); `CaseInv` of the store (a request about to write, if its version is
  current, has read the present row); with it each commit is a `Record`, each acknowledged repetition a
  `Repeat`, every other step a stutter: `Refinement`, Spec => LedgerSpec. From that: `HistoryHasNoGaps`,
  `MessagesAreKept`, `RecordedOnce` for the store itself.
- **PaymentViews_proofs.** The views have no invariant beyond their types: what they promise is about what is
  computed from *any* rows. Every figure is a sum over a finite set, a fold of the library's. `SumIs` restates
  the fold as an equation on the subsets of the set, and `FiniteInduction` (from the library's theorem that the
  proper subsets of a finite set are well founded) carries the facts about sums: `SumEquation`, `SumTakeOut` (no
  matter which element is taken first), `SumUnion`, `SumSame`. The rest is which lines a figure is the sum over,
  and that the pieces are apart and make up the whole: `PartsDivide` (kinds of a case), `BlockIs` (months, ages,
  projects and representatives of a report), `ListDivides` (rows of a list). Unknown amounts are no numbers;
  `Known` turns them into zero and `CaseUnknown` says when a sum has none that is known. For the pages:
  `RowsAreOrdered` (the order is strict and total, because two rows of a list differ in their identity),
  `Listing` (hence one listing, by the number of rows before each), `PageIs` and `PagesJoin`.
  From it `Closed`, `Divided`, `AddsUp`, `Agree`, `Paged`, and for any filter, month and order `EveryReport` and
  `EveryList`. The assumptions of this module are hypotheses of its lemmas, since the run instantiates it.
- **WorkTasks_proofs.** What a transaction checks, it checks on rows it has read before; nothing compares the
  versions of the other rows it relies on. `WorkInv` says why that is enough: one request per key
  (`OneRequestPerKey`), no relation that leaves a project (`WithinProject`), hence all that has been read of the
  project's items, their watchers apart, is still so (`SeenIsPresent`). `Edits` then says what a transaction may
  make of several rows at once so that finished work stays finished, the bulk change included, and
  `OneMoreEdge` that a link whose start cannot be reached from its end closes no circle. From it:
  `CompletedWorkIsFinished` and `WorkIsNotCircular`. `FilterInv` adds the members of projects
  (`ProjectsInv`): `NotificationsAreFiltered`.
- **Office_proofs.** `PartsMove`: whichever part moves, every component makes a step of its own or stutters; hence
  an invariant per component, for any rows, users and requests. Behind a lock that is held from the reads to the
  commit, it says that the holder has read what is there: `TeamInv` (`AssigneesAreActive`), `ChartInv` and `TreeInv`
  (the chart is a forest: nobody is above himself, by the same argument on chains as `OneMoreEdge`, and a
  deletion leaves no child behind; `ChartStaysSound`), and `GoodWork` of the work items (`CompletedStaysFinished`,
  `WorkStaysAcyclic`). Without a lock it says what the conditional write relies on: `TicketInv` (a ticket's version
  counts its log, which is why a log cut at the version goes with the ticket; `PagesShowOneVersion`,
  `TicketsStayConsistent`), `MapInv` (a stored drawing was validated, whatever the version), `CaseInv` (the
  log of a case is its phases, save for the entry a request still owes), and what can no longer be under way:
  `DeletedInv` (no seeding after the first deletion; `DeletionsLast`), `AccountsInv` (`CreatorsAreKept`), `NoteInv`
  (every number on its way was counted after some change that is recent enough; `NotificationsStaySound`).
  Tickets and map implement `VersionedRecord` (`VersionedRecordsAreImplemented`). `RowsHaveShape` (`TypeOK`)
  joins these invariants with the shape of every table (`QualityTables`, `MapTables`, `AccountTables`,
  `CaseTables`, `BadgeTables`); that a card's completion is a percentage is `RoundedIsPercent`.
- **Sales_proofs.** Likewise: `LedgerInv` (whoever holds the lock of an account has read its present version, and
  the version counts the entries of the history; the upsert itself compares nothing, that nobody else holds the
  lock is what makes the comparison before it enough; `LedgerInvariant`, and `LedgerRecordIsImplemented`: the
  ledger implements `VersionedRecord`), `LeadsInv` (whoever takes a lead up clears its mark with the same write;
  `FreshStaysUntilContact`), `CustomersInv` (`NothingComesTwice`, with `LeadsInv` for the forms), `AgenciesInv`
  (`OpeningsAgree`: three translations of one right, shown equal for every meeting, task and agency), and
  the theorems of the modules above for the views (`ReportsAddUp`, `ListAndReportAgree`, `PaidOffIsClosed`, and
  for every query `FilteredReportsAddUp`, `FilteredListsArePaged`), the messages and the quota. `RowsHaveShape`
  is `TypeOK`.
  `DeadMailboxIsLeftAlone` and `CampaignsStayCounted` have hypotheses: one process (`OneMailer`),
  `LostAckIsNotPreData`, and for the counters no crash and no retry. The first is what the code relies on where it
  counts in two statements; a retry breaks the counters, as finding 1 shows; the part "campaigns" satisfies all
  of them.

The invariants these proofs rest on were checked by TLC when they were found; the runs now hold the properties
that follow from them.

With that every invariant and every safety property of steps that a passing run checks is a theorem too.
Only model-checked: all liveness (`QueuedIsSettled`, `InterruptedIsSettled`, `EveryoneIsAnswered`,
`ReadAgain`), which is out of the prover's reach. The sums show how far induction over data can be taken here:
induction schemes that take a predicate cannot be instantiated, but a *set* of subsets (or of numbers) can stand
for the predicate. It does for folds over sets; what a RECURSIVE operator computes stays out of reach, and no
module a theorem is about has one.

What the proofs of the views found in the model, and not in the code: the statuses of a line (`statusOf`,
`trackingRow`), `invoiceOkToken`, and `Before` of `CaseLedger` were CASEs with overlapping guards, which TLC reads
in order and the logic does not.

## 6. Not modelled

- The ISO register: a record per clause with items, documents and log, one transaction per change without a
  version; two checks of one item at once can leave the time of a check beside an open item
  (iso-2026.service.ts:204). Nothing else in it is shared by two requests.
- The retry of campaigns from before the queue, templates, attachments, reports; the request key beyond "an
  identical submission finds its campaign".
- Progress entries, budget items and issues of construction, each one record with a version, and the rounding
  of totals.
- The 30-second cache of possible assignees and the list of the last hundred events of the payment store; the
  reconciliation arithmetic of the audit; percentages, option lists and free-text filters of the views.
- The dashboard of administrators (counts), connection handling, the mapping of database errors, nodemailer, the
  Logo databases, Supabase storage and the audit trail: thin layers over libraries without a state of their own.
- Personal data and its masking, dates and texts of most forms, which no check of the code relates to each other.

## 7. Plan

1. `BulkEmailCampaign`: the legacy retry, the request key, totals after a crash.
2. `ConstructionRecord`: progress entries, budget items and issues as `VersionedRecord`s.

--------------------------- MODULE BulkEmailQueue ---------------------------
(***************************************************************************)
(* The durable bulk e-mail queue: campaigns, their recipients and jobs in  *)
(* the database, the processes that run BulkEmailQueueService.processOne   *)
(* against it, and the requests that submit, pause, resume and retry a     *)
(* campaign.                                                               *)
(*                                                                         *)
(* Every database statement or transaction of processOne is a step of its  *)
(* own; between two of them any other process or request may run, and the  *)
(* process may die.  A failing statement and a crash leave the same state: *)
(* the call ends (its "finally" releases the running flag) and what it     *)
(* committed stays.  The SMTP exchange is one step, because the message    *)
(* leaves the process once; what the process learns about it is another.   *)
(*                                                                         *)
(* A job and its recipient row are one to one, so both are indexed by      *)
(* Jobs.  Instants are relative, as in DispatchWindow.                     *)
(***************************************************************************)
EXTENDS DispatchWindow, FiniteSets

CONSTANTS Jobs, Campaigns, Addresses,
          CampaignOf,    \* the campaign each job belongs to
          Address,       \* payload.to of each job
          Index,         \* position of a job within its campaign
          Schedulers,    \* API processes whose interval timer calls tick()
          Operators,     \* command-line processes calling sendOnePausedJob()
          NoJob,
          StaleAfter,    \* the ten minutes after which SENDING is given up
          MaxAttempts,   \* the 4 of "job.attempts < 4"
          Backoff,       \* minutes before attempt n + 1, min(60, 2 ** n)
          LostAckCommands, \* what the transport may report as the command when
                           \* the acknowledgement of the message is lost
          MaxCrashes, MaxRetries  \* bounds on environment events

Workers == Schedulers \cup Operators

QueueAssumption ==
    /\ IsFiniteSet(Jobs)
    /\ NoJob \notin Jobs
    /\ Campaigns # {}
    /\ CampaignOf \in [Jobs -> Campaigns]
    /\ Address \in [Jobs -> Addresses]
    /\ Index \in [Jobs -> Nat]
    /\ Schedulers \cap Operators = {}
    /\ StaleAfter \in Nat
    /\ MaxAttempts \in Nat \ {0}
    /\ Backoff \in [1..MaxAttempts -> Nat \ {0}]
    /\ MaxCrashes \in Nat
    /\ MaxRetries \in Nat

ASSUME QueueParameters == QueueAssumption

VARIABLES
    job,        \* BulkEmailJob
    recipient,  \* BulkEmailRecipient.status
    campaign,   \* BulkEmailCampaign
    suppressed, \* BulkEmailSuppression, a set of addresses
    preview,    \* the recipients a submission selected and has not yet saved
    pc,         \* where each process is in processOne; "idle" is ~running
    target,     \* pausedJobId of the call, NoJob for the timer
    stale,      \* the rows findMany returned and the loop has still to visit
    claimed,    \* the job this call claimed
    failure,    \* mailFailure(error) of the failed exchange
    refresh,    \* refreshCampaign: the campaign, what was counted, what follows
    accepted,   \* how often the SMTP server took the message of a job
    logged,     \* jobs whose unit communication log was written
    crashes, retries

queue  == <<job, recipient, dispatch>>
locals == <<pc, target, stale, claimed, failure, refresh>>
bounds == <<crashes, retries>>
vars   == <<job, recipient, campaign, suppressed, preview, dispatch, pc, target,
            stale, claimed, failure, refresh, accepted, logged, crashes, retries>>

JobsOf(c) == {j \in Jobs : CampaignOf[j] = c}

\* Row r of BulkEmailJob after a write of its status.  How long ago startedAt was
\* matters only while the job is SENDING, from the claim that sets it.
Written(r, status, attempts, wait, payload) ==
    [status |-> status, attempts |-> attempts, wait |-> wait, age |-> 0,
     payload |-> payload, createdAt |-> r.createdAt]

-----------------------------------------------------------------------------
(* What an SMTP error means: email-delivery-policy.ts.                     *)

PreDataCommands == {"CONN", "RCPT TO"}

\* An error as sendMail throws it: the class of its responseCode (0 when there
\* is none), its command, whether its code is one of the three connection
\* codes, whether its response text names an unknown mailbox (5.1.1, .2, .3, .6).
SmtpErrors ==
    {e \in [response: {0, 4, 5}, command: {"CONN", "RCPT TO", "DATA"},
            connection: BOOLEAN, unknownMailbox: BOOLEAN] :
        /\ e.unknownMailbox => e.response = 5
        /\ e.connection => e.response = 0}

\* Faulty variant: every error counts as "not delivered".
mailFailureBlind(e) ==
    [retry     |-> e.response = 4 \/ e.connection,
     suppress  |-> e.command = "RCPT TO" /\ e.unknownMailbox,
     uncertain |-> FALSE]

mailFailure(e) ==
    LET definitive == e.response \in {4, 5}
        uncertain  == ~definitive /\ e.command \notin PreDataCommands
    IN [retry     |-> ~uncertain /\ (e.response = 4 \/ e.connection),
        suppress  |-> e.command = "RCPT TO" /\ e.unknownMailbox,
        uncertain |-> uncertain]

\* The server can have taken the message although sendMail throws: it replied
\* nothing, and the command is one reported when the final reply is lost.
MayBeAccepted(e) == e.response = 0 /\ e.command \in LostAckCommands

NoFailure == [retry |-> FALSE, suppress |-> FALSE, uncertain |-> FALSE]

-----------------------------------------------------------------------------
(* Types.                                                                  *)

JobStatus == {"NONE", "QUEUED", "SENDING", "SENT", "FAILED", "UNCERTAIN", "SKIPPED"}
Settled   == {"SENT", "FAILED", "UNCERTAIN", "SKIPPED"}
Pending   == {"QUEUED", "SENDING"}

\* availableAt is "wait" ticks away; startedAt was "age" ticks ago.
JobRow == [status: JobStatus, attempts: 0..MaxAttempts, wait: Nat,
           age: 0..(StaleAfter + 1), payload: BOOLEAN, createdAt: Nat]

CampaignRow == [status: {"NONE", "SENDING", "COMPLETED", "PARTIAL", "FAILED"},
                paused: BOOLEAN, successCount: Nat, failedCount: Nat]

Counts  == [pending: Nat, sent: Nat, failed: Nat]
NoCount == [pending |-> 0, sent |-> 0, failed |-> 0]

Control == {"idle", "sweep", "check", "skip", "smtp", "accepted",
            "suppress", "rejected", "count", "write", "log"}

NoRefresh == [campaign |-> CHOOSE c \in Campaigns : TRUE, seen |-> NoCount, then |-> "idle"]

TypeOK ==
    /\ job \in [Jobs -> JobRow]
    /\ recipient \in [Jobs -> JobStatus]
    /\ campaign \in [Campaigns -> CampaignRow]
    /\ suppressed \in SUBSET Addresses
    /\ preview \in [Campaigns -> SUBSET Jobs]
    /\ dispatch \in DispatchState
    /\ pc \in [Workers -> Control]
    /\ target \in [Workers -> Jobs \cup {NoJob}]
    /\ stale \in [Workers -> SUBSET Jobs]
    /\ claimed \in [Workers -> Jobs \cup {NoJob}]
    /\ failure \in [Workers -> [retry: BOOLEAN, suppress: BOOLEAN, uncertain: BOOLEAN]]
    /\ refresh \in [Workers -> [campaign: Campaigns, seen: Counts,
                                then: {"sweep", "log", "idle"}]]
    /\ accepted \in [Jobs -> Nat]
    /\ logged \in SUBSET Jobs
    /\ crashes \in 0..MaxCrashes
    /\ retries \in 0..MaxRetries

Init ==
    /\ job = [j \in Jobs |-> [status |-> "NONE", attempts |-> 0, wait |-> 0, age |-> 0,
                              payload |-> FALSE, createdAt |-> 0]]
    /\ recipient = [j \in Jobs |-> "NONE"]
    /\ campaign = [c \in Campaigns |-> [status |-> "NONE", paused |-> FALSE,
                                        successCount |-> 0, failedCount |-> 0]]
    /\ suppressed = {}
    /\ preview = [c \in Campaigns |-> {}]
    /\ WindowInit
    /\ pc = [w \in Workers |-> "idle"]
    /\ target = [w \in Workers |-> NoJob]
    /\ stale = [w \in Workers |-> {}]
    /\ claimed = [w \in Workers |-> NoJob]
    /\ failure = [w \in Workers |-> NoFailure]
    /\ refresh = [w \in Workers |-> NoRefresh]
    /\ accepted = [j \in Jobs |-> 0]
    /\ logged = {}
    /\ crashes = 0
    /\ retries = 0

-----------------------------------------------------------------------------
(* The requests: bulk-email.service.ts.                                    *)

\* buildRecipientPreview: addresses shared by two customers and suppressed
\* addresses are blocked, the others are the recipients.
Recipients(c) ==
    {j \in JobsOf(c) : /\ Address[j] \notin suppressed
                       /\ \A k \in JobsOf(c) \ {j} : Address[k] # Address[j]}

PreviewRecipients(c) ==
    /\ campaign[c].status = "NONE"
    /\ Recipients(c) # {}
    /\ preview' = [preview EXCEPT ![c] = Recipients(c)]
    /\ UNCHANGED <<queue, campaign, suppressed, locals, accepted, logged, bounds>>

Enqueued == {j \in Jobs : job[j].status # "NONE"}

\* The transaction of sendBulkEmail.  An identical submission finds the
\* requestKey taken, returns the campaign it finds and changes nothing: it is
\* the guard on the status.
SendBulkEmail(c) ==
    /\ campaign[c].status = "NONE"
    /\ preview[c] # {}
    /\ campaign' = [campaign EXCEPT ![c].status = "SENDING"]
    /\ job' = [j \in Jobs |->
                 IF j \in preview[c]
                 THEN [status |-> "QUEUED", attempts |-> 0, wait |-> 0, age |-> 0,
                       payload |-> TRUE, createdAt |-> Cardinality(Enqueued) + Index[j]]
                 ELSE job[j]]
    /\ recipient' = [j \in Jobs |-> IF j \in preview[c] THEN "QUEUED" ELSE recipient[j]]
    /\ preview' = [preview EXCEPT ![c] = {}]
    /\ UNCHANGED <<suppressed, dispatch, locals, accepted, logged, bounds>>

PauseCampaign(c) ==
    /\ campaign[c].status # "NONE"
    /\ campaign' = [campaign EXCEPT ![c].paused = TRUE]
    /\ UNCHANGED <<queue, suppressed, preview, locals, accepted, logged, bounds>>

ResumeCampaign(c) ==
    /\ campaign[c].status = "SENDING"
    /\ campaign' = [campaign EXCEPT ![c].paused = FALSE]
    /\ UNCHANGED <<queue, suppressed, preview, locals, accepted, logged, bounds>>

\* The failed jobs are read before the transaction, which tests each again:
\* what it requeues is any part of the jobs that are FAILED when it runs.
RetryFailedRecipients(c) ==
    /\ retries < MaxRetries
    /\ \E eligible \in SUBSET {j \in JobsOf(c) : job[j].status = "FAILED" /\ job[j].payload} :
         LET requeued == {j \in eligible : Address[j] \notin suppressed}
         IN /\ requeued # {}
            /\ job' = [j \in Jobs |->
                         IF j \in requeued
                         THEN Written(job[j], "QUEUED", 0, 0, job[j].payload)
                         ELSE job[j]]
            /\ recipient' = [j \in Jobs |-> IF j \in requeued THEN "QUEUED" ELSE recipient[j]]
    /\ campaign' = [campaign EXCEPT ![c].status = "SENDING"]
    /\ retries' = retries + 1
    /\ UNCHANGED <<suppressed, preview, dispatch, locals, accepted, logged, crashes>>

-----------------------------------------------------------------------------
(* One call of processOne: bulk-email-queue.service.ts.                    *)

\* Faulty variant: the sweep, like the claim, looks at the operator's job only.
FindStaleTarget(w) ==
    /\ pc[w] = "idle"
    /\ \E t \in IF w \in Operators THEN Jobs ELSE {NoJob} :
         /\ target' = [target EXCEPT ![w] = t]
         /\ stale' = [stale EXCEPT ![w] = {j \in Jobs \cap {t} : job[j].age > StaleAfter}]
    /\ pc' = [pc EXCEPT ![w] = "sweep"]
    /\ UNCHANGED <<queue, campaign, suppressed, preview, claimed, failure, refresh,
                   accepted, logged, bounds>>

\* setInterval calls tick() without arguments; the operator's command names
\* one job.  The call begins by reading the jobs whose exchange was interrupted.
FindStale(w) ==
    /\ pc[w] = "idle"
    /\ \E t \in IF w \in Operators THEN Jobs ELSE {NoJob} : target' = [target EXCEPT ![w] = t]
    /\ stale' = [stale EXCEPT ![w] = {j \in Jobs : /\ job[j].status = "SENDING"
                                                   /\ job[j].age > StaleAfter}]
    /\ pc' = [pc EXCEPT ![w] = "sweep"]
    /\ UNCHANGED <<queue, campaign, suppressed, preview, claimed, failure, refresh,
                   accepted, logged, bounds>>

\* The status of job j and of its recipient, written in one transaction.
Settle(j, row) ==
    /\ job' = [job EXCEPT ![j] = row]
    /\ recipient' = [recipient EXCEPT ![j] = row.status]

\* Enter refreshCampaign for job j; afterwards the call goes on at "next".
Refresh(w, j, next) ==
    /\ pc' = [pc EXCEPT ![w] = "count"]
    /\ refresh' = [refresh EXCEPT ![w] = [campaign |-> CampaignOf[j], seen |-> NoCount,
                                          then |-> next]]

MarkUncertain(w) ==
    /\ pc[w] = "sweep"
    /\ \E j \in stale[w] :
         /\ stale' = [stale EXCEPT ![w] = @ \ {j}]
         /\ IF job[j].status = "SENDING"
            THEN Settle(j, Written(job[j], "UNCERTAIN", job[j].attempts, job[j].wait,
                                   job[j].payload))
            ELSE UNCHANGED <<job, recipient>>
         /\ Refresh(w, j, "sweep")
    /\ UNCHANGED <<campaign, suppressed, preview, dispatch, target, claimed, failure,
                   accepted, logged, bounds>>

\* Faulty variant: a job whose fate is unknown is taken up again without anybody having
\* looked.
EligibleUncertain(w) ==
    {j \in Jobs : /\ job[j].status \in {"QUEUED", "UNCERTAIN"}
                  /\ target[w] \in {NoJob, j}
                  /\ campaign[CampaignOf[j]].status = "SENDING"}

\* An unpaused campaign is open to the timer, a paused one to the operator.
Eligible(w) ==
    {j \in Jobs : /\ job[j].status = "QUEUED"
                  /\ job[j].wait = 0
                  /\ target[w] \in {NoJob, j}
                  /\ campaign[CampaignOf[j]].paused = (target[w] # NoJob)
                  /\ campaign[CampaignOf[j]].status = "SENDING"}

Oldest(S) == {j \in S : \A k \in S : job[j].createdAt <= job[k].createdAt}

\* Faulty variant: the operator's command does not ask for the quota.
ClaimPastQuota(w) ==
    /\ pc[w] = "sweep"
    /\ stale[w] = {}
    /\ w \in Schedulers => MayDispatch(dispatch)
    /\ dispatch' = Dispatched(dispatch)
    /\ \E j \in Oldest(Eligible(w)) :
         /\ Settle(j, Written(job[j], "SENDING", job[j].attempts + 1, 0, job[j].payload))
         /\ claimed' = [claimed EXCEPT ![w] = j]
    /\ pc' = [pc EXCEPT ![w] = "check"]
    /\ UNCHANGED <<campaign, suppressed, preview, target, stale, failure, refresh,
                   accepted, logged, bounds>>

\* The claiming transaction, serialised by the lock on the dispatch row.
Claim(w) ==
    /\ pc[w] = "sweep"
    /\ stale[w] = {}
    /\ Dispatch
    /\ \E j \in Oldest(Eligible(w)) :
         /\ Settle(j, Written(job[j], "SENDING", job[j].attempts + 1, 0, job[j].payload))
         /\ claimed' = [claimed EXCEPT ![w] = j]
    /\ pc' = [pc EXCEPT ![w] = "check"]
    /\ UNCHANGED <<campaign, suppressed, preview, target, stale, failure, refresh,
                   accepted, logged, bounds>>

\* The call ends: its local state is gone.
Return(w) ==
    /\ pc' = [pc EXCEPT ![w] = "idle"]
    /\ target' = [target EXCEPT ![w] = NoJob]
    /\ stale' = [stale EXCEPT ![w] = {}]
    /\ claimed' = [claimed EXCEPT ![w] = NoJob]
    /\ failure' = [failure EXCEPT ![w] = NoFailure]
    /\ refresh' = [refresh EXCEPT ![w] = NoRefresh]

\* No quota, or nothing to send.  A process that finds the dispatch row locked
\* returns too; it comes back as if it had asked a moment later.
ClaimNothing(w) ==
    /\ pc[w] = "sweep"
    /\ stale[w] = {}
    /\ ~MayDispatch(dispatch) \/ Eligible(w) = {}
    /\ Return(w)
    /\ UNCHANGED <<queue, campaign, suppressed, preview, accepted, logged, bounds>>

\* Faulty variant: the suppression list is consulted at submission only.
CheckNothing(w) ==
    /\ pc[w] = "check"
    /\ pc' = [pc EXCEPT ![w] = "smtp"]
    /\ UNCHANGED <<queue, campaign, suppressed, preview, target, stale, claimed, failure,
                   refresh, accepted, logged, bounds>>

CheckSuppressed(w) ==
    /\ pc[w] = "check"
    /\ pc' = [pc EXCEPT ![w] = IF Address[claimed[w]] \in suppressed THEN "skip" ELSE "smtp"]
    /\ UNCHANGED <<queue, campaign, suppressed, preview, target, stale, claimed, failure,
                   refresh, accepted, logged, bounds>>

Finish(w) ==
    /\ pc[w] = "skip"
    /\ LET j == claimed[w]
       IN /\ Settle(j, Written(job[j], "SKIPPED", job[j].attempts, 0, FALSE))
          /\ Refresh(w, j, "idle")
    /\ UNCHANGED <<campaign, suppressed, preview, dispatch, target, stale, claimed, failure,
                   accepted, logged, bounds>>

\* The exchange with the SMTP server: either the server takes the message and
\* says so, or sendMail throws, after an exchange whose reply was lost perhaps
\* with the message taken.
SendMail(w) ==
    /\ pc[w] = "smtp"
    /\ \/ /\ accepted' = [accepted EXCEPT ![claimed[w]] = @ + 1]
          /\ pc' = [pc EXCEPT ![w] = "accepted"]
          /\ UNCHANGED failure
       \/ \E e \in SmtpErrors :
            /\ failure' = [failure EXCEPT ![w] = mailFailure(e)]
            /\ pc' = [pc EXCEPT ![w] = IF mailFailure(e).suppress THEN "suppress" ELSE "rejected"]
            /\ \/ UNCHANGED accepted
               \/ MayBeAccepted(e) /\ accepted' = [accepted EXCEPT ![claimed[w]] = @ + 1]
    /\ UNCHANGED <<queue, campaign, suppressed, preview, target, stale, claimed, refresh,
                   logged, bounds>>

SuppressMailbox(w) ==
    /\ pc[w] = "suppress"
    /\ suppressed' = suppressed \cup {Address[claimed[w]]}
    /\ pc' = [pc EXCEPT ![w] = "rejected"]
    /\ UNCHANGED <<queue, campaign, preview, target, stale, claimed, failure, refresh,
                   accepted, logged, bounds>>

\* Faulty variant: an unconfirmed delivery counts as failed.
OutcomeFailed(w) ==
    IF failure[w].retry /\ job[claimed[w]].attempts < MaxAttempts THEN "QUEUED" ELSE "FAILED"

\* The status a failed exchange leaves.  availableAt is written in every case
\* and read only of a QUEUED job.
Outcome(w) ==
    LET j == claimed[w]
    IN IF failure[w].uncertain THEN "UNCERTAIN"
       ELSE IF failure[w].retry /\ job[j].attempts < MaxAttempts THEN "QUEUED"
       ELSE "FAILED"

PersistFailure(w) ==
    /\ pc[w] = "rejected"
    /\ LET j == claimed[w]
       IN /\ Settle(j, Written(job[j], Outcome(w), job[j].attempts,
                               IF Outcome(w) = "QUEUED" THEN Backoff[job[j].attempts] ELSE 0,
                               job[j].payload))
          /\ Refresh(w, j, "idle")
    /\ UNCHANGED <<campaign, suppressed, preview, dispatch, target, stale, claimed, failure,
                   accepted, logged, bounds>>

PersistSent(w) ==
    /\ pc[w] = "accepted"
    /\ LET j == claimed[w]
       IN /\ Settle(j, Written(job[j], "SENT", job[j].attempts, 0, FALSE))
          /\ Refresh(w, j, "log")
    /\ UNCHANGED <<campaign, suppressed, preview, dispatch, target, stale, claimed, failure,
                   accepted, logged, bounds>>

\* What refreshCampaign counts, now.
CountsOf(c) ==
    LET count(S) == Cardinality({j \in JobsOf(c) : recipient[j] \in S})
    IN [pending |-> count(Pending),
        sent    |-> count({"SENT"}),
        failed  |-> count({"FAILED", "UNCERTAIN"})]

\* Faulty variant: unconfirmed deliveries are not counted.
CountsOfCertain(c) ==
    LET count(S) == Cardinality({j \in JobsOf(c) : recipient[j] \in S})
    IN [pending |-> count(Pending), sent |-> count({"SENT"}), failed |-> count({"FAILED"})]

CountCertain(w) ==
    /\ pc[w] = "count"
    /\ refresh' = [refresh EXCEPT ![w].seen = CountsOfCertain(refresh[w].campaign)]
    /\ pc' = [pc EXCEPT ![w] = "write"]
    /\ UNCHANGED <<queue, campaign, suppressed, preview, target, stale, claimed, failure,
                   accepted, logged, bounds>>

\* refreshCampaign reads the recipients of the campaign ...
CountRecipients(w) ==
    /\ pc[w] = "count"
    /\ refresh' = [refresh EXCEPT ![w].seen = CountsOf(refresh[w].campaign)]
    /\ pc' = [pc EXCEPT ![w] = "write"]
    /\ UNCHANGED <<queue, campaign, suppressed, preview, target, stale, claimed, failure,
                   accepted, logged, bounds>>

StatusOf(n) ==
    IF n.pending > 0 THEN "SENDING"
    ELSE IF n.failed = 0 THEN "COMPLETED"
    ELSE IF n.sent > 0 THEN "PARTIAL" ELSE "FAILED"

\* ... and then writes what they add up to.
WriteCampaign(w) ==
    /\ pc[w] = "write"
    /\ LET n == refresh[w].seen
       IN campaign' = [campaign EXCEPT ![refresh[w].campaign] =
                         [status |-> StatusOf(n), paused |-> @.paused,
                          successCount |-> n.sent, failedCount |-> n.failed]]
    /\ IF refresh[w].then = "idle"
       THEN Return(w)
       ELSE /\ pc' = [pc EXCEPT ![w] = refresh[w].then]
            /\ UNCHANGED <<target, stale, claimed, failure, refresh>>
    /\ UNCHANGED <<queue, suppressed, preview, accepted, logged, bounds>>

\* The unit communication log; a failure to write it is swallowed.
WriteUnitLog(w) ==
    /\ pc[w] = "log"
    /\ logged' \in {logged, logged \cup {claimed[w]}}
    /\ Return(w)
    /\ UNCHANGED <<queue, campaign, suppressed, preview, accepted, bounds>>

Crash(w) ==
    /\ pc[w] # "idle"
    /\ crashes < MaxCrashes
    /\ crashes' = crashes + 1
    /\ Return(w)
    /\ UNCHANGED <<queue, campaign, suppressed, preview, accepted, logged, retries>>

Tick ==
    /\ Elapse
    /\ job' = [j \in Jobs |->
                 [status |-> job[j].status, attempts |-> job[j].attempts,
                  wait |-> IF job[j].wait = 0 THEN 0 ELSE job[j].wait - 1,
                  age |-> IF job[j].status = "SENDING" /\ job[j].age <= StaleAfter
                          THEN job[j].age + 1 ELSE job[j].age,
                  payload |-> job[j].payload, createdAt |-> job[j].createdAt]]
    /\ UNCHANGED <<recipient, campaign, suppressed, preview, locals, accepted, logged, bounds>>

-----------------------------------------------------------------------------
ProcessOne(w) ==
    \/ FindStale(w) \/ MarkUncertain(w) \/ Claim(w) \/ ClaimNothing(w)
    \/ CheckSuppressed(w) \/ Finish(w) \/ SendMail(w) \/ SuppressMailbox(w)
    \/ PersistFailure(w) \/ PersistSent(w)
    \/ CountRecipients(w) \/ WriteCampaign(w) \/ WriteUnitLog(w)

Request(c) ==
    \/ PreviewRecipients(c) \/ SendBulkEmail(c)
    \/ PauseCampaign(c) \/ ResumeCampaign(c)
    \/ RetryFailedRecipients(c)

Next ==
    \/ \E w \in Workers : ProcessOne(w) \/ Crash(w)
    \/ \E c \in Campaigns : Request(c)
    \/ Tick

Spec == Init /\ [][Next]_vars

\* The interval timer fires for ever, every await of processOne returns (the
\* transport has connection and socket timeouts), and time passes.
FairSpec == Spec /\ (\A w \in Schedulers : WF_vars(ProcessOne(w))) /\ WF_vars(Tick)

-----------------------------------------------------------------------------
(* Properties.                                                             *)

InExchange == {"check", "skip", "smtp", "accepted", "suppress", "rejected"}

\* A message is handed to its recipient at most once, whatever crashes, stale
\* sweeps by another process, transient rejections and explicit retries the job
\* goes through ("must never be blindly sent twice", processOne).
AtMostOnceAccepted == \A j \in Jobs : accepted[j] <= 1

\* Nothing that could be sent again was ever taken by the server: a job open to
\* the timer (QUEUED) or to an explicit retry (FAILED) has not been accepted.
ResendableNotAccepted ==
    \A j \in Jobs : job[j].status \in {"QUEUED", "FAILED"} => accepted[j] = 0

\* A job is worked on by one process: the sweep of another process may give a
\* job up, but nothing hands it to a second one while the first is still at it.
OneExchangePerJob ==
    \A v, w \in Workers :
        v # w /\ pc[v] \in InExchange /\ pc[w] \in InExchange => claimed[v] # claimed[w]

\* What the tracking screen shows of a recipient is what the queue knows.
RecipientMirrorsJob == \A j \in Jobs : recipient[j] = job[j].status

\* Every job that may still be sent, retried or inspected has kept its payload,
\* so that a retry resends the rendered message with its attachments.
ResendableKeepsPayload ==
    \A j \in Jobs : job[j].status \in {"QUEUED", "SENDING", "FAILED", "UNCERTAIN"}
                    => job[j].payload

\* One request to send or to retry costs at most MaxAttempts exchanges.
BoundedAttempts ==
    \A j \in Jobs : /\ job[j].attempts <= MaxAttempts
                    /\ job[j].status = "QUEUED" => job[j].attempts < MaxAttempts

\* The communication log names only messages the server took.
LoggedWasAccepted == \A j \in logged : accepted[j] = 1 /\ job[j].status = "SENT"

\* The mail server is never contacted for an address known not to exist.
ContactsUnsuppressed ==
    \A w \in Workers : pc[w] = "smtp" /\ pc'[w] \in {"accepted", "suppress", "rejected"}
        => Address[claimed[w]] \notin suppressed

\* A delivery whose fate is unknown is not touched again by anything but the
\* very call that is still waiting for its outcome.
UncertainIsLeftAlone ==
    [][\A j \in Jobs :
         job[j].status = "UNCERTAIN" /\ job'[j].status # "UNCERTAIN"
         => \E w \in Workers : claimed[w] = j /\ pc[w] \in InExchange]_vars

\* With one process at work the status and counts of a campaign whose last
\* refresh is over agree with its recipients, unless one waits to be counted.
Counted(c) ==
    LET n == CountsOf(c)
    IN /\ campaign[c].status = StatusOf(n)
       /\ campaign[c].successCount = n.sent
       /\ campaign[c].failedCount = n.failed

CampaignCounted ==
    \A c \in Campaigns :
        \/ campaign[c].status = "NONE"
        \/ \E w \in Workers : pc[w] \in InExchange \cup {"count", "write"}
        \/ Counted(c)

\* A queued job stays within reach of the claim: its campaign is SENDING.
QueuedIsDispatchable ==
    \A j \in Jobs : job[j].status \in Pending => campaign[CampaignOf[j]].status = "SENDING"

\* Every queued message is settled in the end, unless its campaign is paused.
QueuedIsSettled ==
    \A j \in Jobs : job[j].status = "QUEUED"
                    ~> job[j].status \in Settled \/ campaign[CampaignOf[j]].paused

\* An interrupted exchange does not stay SENDING for ever.
InterruptedIsSettled ==
    \A j \in Jobs : job[j].status = "SENDING" ~> job[j].status # "SENDING"

\* The quota row seen on its own behaves as DispatchWindow says.
KeepsWindow == WindowSpec
-----------------------------------------------------------------------------
(* The inductive invariant behind the safety properties.                   *)

\* A submission selects jobs that no transaction has enqueued yet.
PreviewIsNew ==
    \A c \in Campaigns :
        /\ preview[c] \subseteq JobsOf(c)
        /\ campaign[c].status = "NONE" => \A j \in JobsOf(c) : job[j].status = "NONE"

\* While a call is in its exchange, its job can only be given up by a sweep.
ExchangeHoldsJob ==
    \A w \in Workers : pc[w] \in InExchange =>
        /\ claimed[w] \in Jobs
        /\ job[claimed[w]].status \in {"SENDING", "UNCERTAIN"}
        /\ job[claimed[w]].attempts > 0

\* What the point a call has reached says about the acceptance of its message.
AcceptanceKnown ==
    \A w \in Workers :
        /\ pc[w] \in {"check", "skip", "smtp"} => accepted[claimed[w]] = 0
        /\ pc[w] = "accepted" => accepted[claimed[w]] = 1
        /\ pc[w] \in {"suppress", "rejected"} /\ ~failure[w].uncertain
           => accepted[claimed[w]] = 0

UnsentNotAccepted ==
    \A j \in Jobs : job[j].status \in {"NONE", "QUEUED", "FAILED"} => accepted[j] = 0

\* A call on its way to the communication log has persisted the acceptance.
LogFollowsSent ==
    \A w \in Workers :
        pc[w] = "log" \/ (pc[w] \in {"count", "write"} /\ refresh[w].then = "log") =>
            /\ claimed[w] \in Jobs
            /\ job[claimed[w]].status = "SENT"
            /\ accepted[claimed[w]] = 1

DeliveryInv ==
    /\ TypeOK
    /\ PreviewIsNew
    /\ ExchangeHoldsJob
    /\ OneExchangePerJob
    /\ AcceptanceKnown
    /\ UnsentNotAccepted
    /\ AtMostOnceAccepted
    /\ LogFollowsSent
    /\ LoggedWasAccepted
    /\ RecipientMirrorsJob
    /\ ResendableKeepsPayload
    /\ BoundedAttempts

\* The transport reports a lost acknowledgement under a command that the
\* policy does not take for one sent before the message.
LostAckIsNotPreData == LostAckCommands \cap PreDataCommands = {}
=============================================================================

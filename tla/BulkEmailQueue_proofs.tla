------------------------ MODULE BulkEmailQueue_proofs ------------------------
(***************************************************************************)
(* Proofs about the bulk e-mail queue, for every number of jobs,           *)
(* campaigns, processes, crashes and retries.                              *)
(***************************************************************************)
EXTENDS BulkEmailQueue, FiniteSetTheorems, WellFoundedInduction, TLAPS

-----------------------------------------------------------------------------
(* The quota row.                                                          *)

\* The quota row stays within its limits through a claim and through a tick.
LEMMA DispatchTyped ==
    ASSUME dispatch \in DispatchState, Dispatch \/ Elapse
    PROVE  dispatch' \in DispatchState
<1>1. CASE Dispatch
  BY <1>1, QuotaParameters
     DEF QuotaAssumption, Dispatch, MayDispatch, Dispatched, CountNow, DayCountNow, hourReset,
         dayReset, DispatchState
<1>2. CASE Elapse
  BY <1>2, QuotaParameters DEF QuotaAssumption, Elapse, Aged, DispatchState
<1>3. QED BY <1>1, <1>2

-----------------------------------------------------------------------------
(* Counting the rows of a campaign.                                        *)

\* The count of any selection of jobs is a natural number.
LEMMA JobCount ==
    ASSUME NEW S \in SUBSET Jobs
    PROVE  Cardinality(S) \in Nat
BY QueueParameters, FS_Subset, FS_CardinalityType DEF QueueAssumption

\* refreshCampaign's counts are well typed whatever the recipients are.
LEMMA CountsTyped ==
    ASSUME NEW c \in Campaigns
    PROVE  CountsOf(c) \in Counts
<1>1. /\ {j \in JobsOf(c) : recipient[j] \in Pending} \in SUBSET Jobs
      /\ {j \in JobsOf(c) : recipient[j] \in {"SENT"}} \in SUBSET Jobs
      /\ {j \in JobsOf(c) : recipient[j] \in {"FAILED", "UNCERTAIN"}} \in SUBSET Jobs
  BY DEF JobsOf
<1>2. QED BY <1>1, JobCount DEF CountsOf, Counts

\* The local state a call starts and ends with is well typed.
LEMMA NoRefreshTyped == NoRefresh \in [campaign: Campaigns, seen: Counts, then: {"sweep", "log", "idle"}]
<1>1. (CHOOSE c \in Campaigns : TRUE) \in Campaigns
  BY QueueParameters DEF QueueAssumption
<1>2. QED BY <1>1 DEF NoRefresh, NoCount, Counts

-----------------------------------------------------------------------------
(* Type correctness.                                                       *)

\* A row written with typed values is typed.
LEMMA WrittenTyped ==
    ASSUME NEW row \in JobRow, NEW s \in JobStatus, NEW n \in 0..MaxAttempts,
           NEW t \in Nat, NEW p \in BOOLEAN
    PROVE  Written(row, s, n, t, p) \in JobRow
BY QueueParameters DEF QueueAssumption, Written, JobRow

\* So are the campaigns after a write of one status or of one pause.
LEMMA CampaignTyped ==
    ASSUME TypeOK, NEW c \in Campaigns
    PROVE  /\ [campaign EXCEPT ![c].status = "SENDING"] \in [Campaigns -> CampaignRow]
           /\ \A p \in BOOLEAN : [campaign EXCEPT ![c].paused = p] \in [Campaigns -> CampaignRow]
<1>1. campaign \in [Campaigns -> CampaignRow] BY DEF TypeOK
<1>2. [campaign EXCEPT ![c].status = "SENDING"] \in [Campaigns -> CampaignRow]
  BY <1>1 DEF CampaignRow
<1>3. ASSUME NEW p \in BOOLEAN
      PROVE  [campaign EXCEPT ![c].paused = p] \in [Campaigns -> CampaignRow]
  BY <1>1 DEF CampaignRow
<1>4. QED BY <1>2, <1>3

\* Writing a well-typed row for one job keeps the job and recipient tables typed.
LEMMA SettleTyped ==
    ASSUME TypeOK, NEW j \in Jobs, NEW row \in JobRow, Settle(j, row)
    PROVE  job' \in [Jobs -> JobRow] /\ recipient' \in [Jobs -> JobStatus]
BY DEF TypeOK, Settle, JobRow

\* Ending a call keeps its local state typed.
LEMMA ReturnTyped ==
    ASSUME TypeOK, NEW w \in Workers, Return(w)
    PROVE  /\ pc' \in [Workers -> Control]
           /\ target' \in [Workers -> Jobs \cup {NoJob}]
           /\ stale' \in [Workers -> SUBSET Jobs]
           /\ claimed' \in [Workers -> Jobs \cup {NoJob}]
           /\ failure' \in [Workers -> [retry: BOOLEAN, suppress: BOOLEAN, uncertain: BOOLEAN]]
           /\ refresh' \in [Workers -> [campaign: Campaigns, seen: Counts,
                                        then: {"sweep", "log", "idle"}]]
BY NoRefreshTyped DEF TypeOK, Return, Control, NoFailure

\* Entering refreshCampaign keeps the local state typed.
LEMMA RefreshTyped ==
    ASSUME TypeOK, NEW w \in Workers, NEW j \in Jobs,
           NEW next \in {"sweep", "log", "idle"}, Refresh(w, j, next)
    PROVE  /\ pc' \in [Workers -> Control]
           /\ refresh' \in [Workers -> [campaign: Campaigns, seen: Counts,
                                        then: {"sweep", "log", "idle"}]]
BY QueueParameters DEF QueueAssumption, TypeOK, Refresh, Control, NoCount, Counts

\* The policy returns a record of three Booleans for every error.
LEMMA FailureTyped ==
    ASSUME NEW e \in SmtpErrors
    PROVE  mailFailure(e) \in [retry: BOOLEAN, suppress: BOOLEAN, uncertain: BOOLEAN]
BY DEF mailFailure

\* Every step keeps the types, given what an exchange holds.
LEMMA TypeStep ==
    ASSUME DeliveryInv, [Next]_vars
    PROVE  TypeOK'
<1> USE DEF DeliveryInv
<1>1. ASSUME NEW c \in Campaigns, PreviewRecipients(c) PROVE TypeOK'
  <2>1. Recipients(c) \in SUBSET Jobs BY DEF Recipients, JobsOf
  <2>2. QED BY <1>1, <2>1 DEF TypeOK, PreviewRecipients, queue, locals, bounds
<1>2. ASSUME NEW c \in Campaigns, SendBulkEmail(c) PROVE TypeOK'
  <2>1. Cardinality(Enqueued) \in Nat BY JobCount DEF Enqueued
  <2> DEFINE new(j) == [status |-> "QUEUED", attempts |-> 0, wait |-> 0, age |-> 0,
                        payload |-> TRUE, createdAt |-> Cardinality(Enqueued) + Index[j]]
  <2>2. job' \in [Jobs -> JobRow]
    <3>1. ASSUME NEW j \in Jobs PROVE new(j) \in JobRow
      BY <2>1, QueueParameters DEF QueueAssumption, JobRow, JobStatus
    <3>2. job \in [Jobs -> JobRow] BY DEF TypeOK
    <3>3. job' = [j \in Jobs |-> IF j \in preview[c] THEN new(j) ELSE job[j]]
      BY <1>2 DEF SendBulkEmail
    <3> HIDE DEF new
    <3>4. QED BY <3>1, <3>2, <3>3
  <2>3. recipient' \in [Jobs -> JobStatus]
    BY <1>2 DEF SendBulkEmail, TypeOK, JobStatus
  <2>4. campaign' \in [Campaigns -> CampaignRow]
    BY <1>2, CampaignTyped DEF SendBulkEmail
  <2>5. QED BY <1>2, <2>2, <2>3, <2>4 DEF TypeOK, SendBulkEmail, locals, bounds
<1>3. ASSUME NEW c \in Campaigns, PauseCampaign(c) \/ ResumeCampaign(c) PROVE TypeOK'
  <2>1. campaign' \in [Campaigns -> CampaignRow]
    BY <1>3, CampaignTyped DEF PauseCampaign, ResumeCampaign
  <2>2. QED BY <1>3, <2>1 DEF TypeOK, PauseCampaign, ResumeCampaign, queue, locals, bounds
<1>4. ASSUME NEW c \in Campaigns, RetryFailedRecipients(c) PROVE TypeOK'
  <2> DEFINE again(j) == Written(job[j], "QUEUED", 0, 0, job[j].payload)
  <2>1. PICK requeued \in SUBSET Jobs :
          /\ job' = [j \in Jobs |-> IF j \in requeued THEN again(j) ELSE job[j]]
          /\ recipient' = [j \in Jobs |-> IF j \in requeued THEN "QUEUED" ELSE recipient[j]]
    BY <1>4 DEF RetryFailedRecipients, JobsOf
  <2>2. ASSUME NEW j \in Jobs PROVE again(j) \in JobRow
    BY WrittenTyped, QueueParameters DEF QueueAssumption, TypeOK, JobRow, JobStatus
  <2>3. job' \in [Jobs -> JobRow] /\ recipient' \in [Jobs -> JobStatus]
    <3> HIDE DEF again
    <3>1. job \in [Jobs -> JobRow] /\ recipient \in [Jobs -> JobStatus] BY DEF TypeOK
    <3>2. QED BY <2>1, <2>2, <3>1 DEF JobStatus
  <2>4. campaign' \in [Campaigns -> CampaignRow]
    BY <1>4, CampaignTyped DEF RetryFailedRecipients
  <2>5. retries' \in 0..MaxRetries
    BY <1>4, QueueParameters DEF QueueAssumption, RetryFailedRecipients, TypeOK
  <2>6. QED BY <1>4, <2>3, <2>4, <2>5 DEF TypeOK, RetryFailedRecipients, locals
<1>5. ASSUME NEW w \in Workers, FindStale(w) PROVE TypeOK'
  BY <1>5 DEF TypeOK, FindStale, Control, queue, bounds
<1>6. ASSUME NEW w \in Workers, MarkUncertain(w) PROVE TypeOK'
  <2>1. PICK j \in stale[w] :
          /\ stale' = [stale EXCEPT ![w] = @ \ {j}]
          /\ IF job[j].status = "SENDING"
             THEN Settle(j, Written(job[j], "UNCERTAIN", job[j].attempts, job[j].wait, job[j].payload))
             ELSE UNCHANGED <<job, recipient>>
          /\ Refresh(w, j, "sweep")
    BY <1>6 DEF MarkUncertain
  <2>2. j \in Jobs BY DEF TypeOK
  <2>3. Written(job[j], "UNCERTAIN", job[j].attempts, job[j].wait, job[j].payload) \in JobRow
    BY <2>2, WrittenTyped DEF TypeOK, JobRow, JobStatus
  <2>4. job' \in [Jobs -> JobRow] /\ recipient' \in [Jobs -> JobStatus]
    BY <2>1, <2>2, <2>3, SettleTyped DEF TypeOK
  <2>5. QED BY <1>6, <2>1, <2>2, <2>4, RefreshTyped DEF TypeOK, MarkUncertain, bounds
<1>7. ASSUME NEW w \in Workers, Claim(w) PROVE TypeOK'
  <2>1. PICK j \in Oldest(Eligible(w)) :
          /\ Settle(j, Written(job[j], "SENDING", job[j].attempts + 1, 0, job[j].payload))
          /\ claimed' = [claimed EXCEPT ![w] = j]
    BY <1>7 DEF Claim
  <2>2. j \in Jobs /\ job[j].status = "QUEUED" BY DEF Oldest, Eligible
  <2>3. Written(job[j], "SENDING", job[j].attempts + 1, 0, job[j].payload) \in JobRow
    <3>1. job[j].attempts + 1 \in 0..MaxAttempts
      BY <2>2, QueueParameters DEF QueueAssumption, TypeOK, JobRow, BoundedAttempts
    <3>2. QED BY <2>2, <3>1, WrittenTyped DEF TypeOK, JobRow, JobStatus
  <2>4. job' \in [Jobs -> JobRow] /\ recipient' \in [Jobs -> JobStatus]
    BY <2>1, <2>2, <2>3, SettleTyped
  <2>5. dispatch' \in DispatchState BY <1>7, DispatchTyped DEF TypeOK, Claim
  <2>6. QED BY <1>7, <2>1, <2>2, <2>4, <2>5 DEF TypeOK, Claim, Control, bounds
<1>8. ASSUME NEW w \in Workers, ClaimNothing(w) PROVE TypeOK'
  BY <1>8, ReturnTyped DEF TypeOK, ClaimNothing, queue, bounds
<1>9. ASSUME NEW w \in Workers, CheckSuppressed(w) PROVE TypeOK'
  BY <1>9 DEF TypeOK, CheckSuppressed, Control, queue, bounds
<1>10. ASSUME NEW w \in Workers, Finish(w) PROVE TypeOK'
  <2>1. claimed[w] \in Jobs BY <1>10 DEF Finish, ExchangeHoldsJob, InExchange
  <2>2. Written(job[claimed[w]], "SKIPPED", job[claimed[w]].attempts, 0, FALSE) \in JobRow
    BY <2>1, WrittenTyped DEF TypeOK, JobRow, JobStatus
  <2>3. job' \in [Jobs -> JobRow] /\ recipient' \in [Jobs -> JobStatus]
    BY <1>10, <2>1, <2>2, SettleTyped DEF Finish
  <2>4. QED BY <1>10, <2>1, <2>3, RefreshTyped DEF TypeOK, Finish, bounds
<1>11. ASSUME NEW w \in Workers, SendMail(w) PROVE TypeOK'
  <2>1. claimed[w] \in Jobs BY <1>11 DEF SendMail, ExchangeHoldsJob, InExchange
  <2>2. accepted' \in [Jobs -> Nat]
    <3>1. accepted \in [Jobs -> Nat] BY DEF TypeOK
    <3>2. accepted' \in {accepted, [accepted EXCEPT ![claimed[w]] = @ + 1]}
      BY <1>11 DEF SendMail
    <3>3. QED BY <2>1, <3>1, <3>2
  <2>3. /\ failure' \in [Workers -> [retry: BOOLEAN, suppress: BOOLEAN, uncertain: BOOLEAN]]
        /\ pc' \in [Workers -> Control]
    <3>1. CASE UNCHANGED failure /\ pc' = [pc EXCEPT ![w] = "accepted"]
      BY <3>1 DEF TypeOK, Control
    <3>2. ASSUME NEW e \in SmtpErrors, failure' = [failure EXCEPT ![w] = mailFailure(e)],
                 pc' = [pc EXCEPT ![w] = IF mailFailure(e).suppress THEN "suppress"
                                         ELSE "rejected"]
          PROVE  /\ failure' \in [Workers -> [retry: BOOLEAN, suppress: BOOLEAN,
                                              uncertain: BOOLEAN]]
                 /\ pc' \in [Workers -> Control]
      BY <3>2, FailureTyped DEF TypeOK, Control
    <3>3. QED BY <1>11, <3>1, <3>2 DEF SendMail
  <2>4. QED BY <1>11, <2>2, <2>3 DEF TypeOK, SendMail, queue, bounds
<1>12. ASSUME NEW w \in Workers, SuppressMailbox(w) PROVE TypeOK'
  <2>1. Address[claimed[w]] \in Addresses
    BY <1>12, QueueParameters DEF QueueAssumption, SuppressMailbox, ExchangeHoldsJob, InExchange
  <2>2. QED BY <1>12, <2>1 DEF TypeOK, SuppressMailbox, Control, queue, bounds
<1>13. ASSUME NEW w \in Workers, PersistFailure(w) PROVE TypeOK'
  <2> DEFINE j == claimed[w]
             delay == IF Outcome(w) = "QUEUED" THEN Backoff[job[j].attempts] ELSE 0
             row == Written(job[j], Outcome(w), job[j].attempts, delay, job[j].payload)
  <2>1. j \in Jobs /\ job[j].attempts > 0
    BY <1>13 DEF PersistFailure, ExchangeHoldsJob, InExchange
  <2>2. Outcome(w) \in {"UNCERTAIN", "QUEUED", "FAILED"} BY DEF Outcome
  <2>3. job[j].attempts \in 1..MaxAttempts /\ Backoff[job[j].attempts] \in Nat
    BY <2>1, QueueParameters DEF QueueAssumption, TypeOK, JobRow
  <2>4. row \in JobRow
    <3>1. delay \in Nat BY <2>3
    <3>2. QED BY <2>1, <2>2, <3>1, WrittenTyped DEF TypeOK, JobRow, JobStatus
  <2>5. job' \in [Jobs -> JobRow] /\ recipient' \in [Jobs -> JobStatus]
    BY <1>13, <2>1, <2>4, SettleTyped DEF PersistFailure
  <2>6. QED BY <1>13, <2>1, <2>5, RefreshTyped DEF TypeOK, PersistFailure, bounds
<1>14. ASSUME NEW w \in Workers, PersistSent(w) PROVE TypeOK'
  <2>1. claimed[w] \in Jobs BY <1>14 DEF PersistSent, ExchangeHoldsJob, InExchange
  <2>2. Written(job[claimed[w]], "SENT", job[claimed[w]].attempts, 0, FALSE) \in JobRow
    BY <2>1, WrittenTyped DEF TypeOK, JobRow, JobStatus
  <2>3. job' \in [Jobs -> JobRow] /\ recipient' \in [Jobs -> JobStatus]
    BY <1>14, <2>1, <2>2, SettleTyped DEF PersistSent
  <2>4. QED BY <1>14, <2>1, <2>3, RefreshTyped DEF TypeOK, PersistSent, bounds
<1>15. ASSUME NEW w \in Workers, CountRecipients(w) PROVE TypeOK'
  <2>1. refresh[w].campaign \in Campaigns BY DEF TypeOK
  <2>2. refresh' \in [Workers -> [campaign: Campaigns, seen: Counts,
                                  then: {"sweep", "log", "idle"}]]
    <3> DEFINE n == CountsOf(refresh[w].campaign)
    <3>1. n \in Counts BY <2>1, CountsTyped
    <3>2. refresh' = [refresh EXCEPT ![w].seen = n] BY <1>15 DEF CountRecipients
    <3> HIDE DEF n
    <3>3. QED BY <3>1, <3>2 DEF TypeOK
  <2>3. QED BY <1>15, <2>2 DEF TypeOK, CountRecipients, Control, queue, bounds
<1>16. ASSUME NEW w \in Workers, WriteCampaign(w) PROVE TypeOK'
  <2>1. refresh[w].seen \in Counts BY DEF TypeOK
  <2>2. StatusOf(refresh[w].seen) \in {"SENDING", "COMPLETED", "PARTIAL", "FAILED"}
    BY DEF StatusOf
  <2>3. campaign' \in [Campaigns -> CampaignRow]
    BY <1>16, <2>1, <2>2 DEF WriteCampaign, TypeOK, CampaignRow, Counts
  <2>4. CASE refresh[w].then = "idle"
    BY <1>16, <2>3, <2>4, ReturnTyped DEF TypeOK, WriteCampaign, queue, bounds
  <2>5. CASE refresh[w].then # "idle"
    <3>1. refresh[w].then \in Control BY DEF TypeOK, Control
    <3>2. QED BY <1>16, <2>3, <2>5, <3>1 DEF TypeOK, WriteCampaign, queue, bounds
  <2>6. QED BY <2>4, <2>5
<1>17. ASSUME NEW w \in Workers, WriteUnitLog(w) PROVE TypeOK'
  <2>1. claimed[w] \in Jobs BY <1>17 DEF WriteUnitLog, LogFollowsSent
  <2>2. QED BY <1>17, <2>1, ReturnTyped DEF TypeOK, WriteUnitLog, queue, bounds
<1>18. ASSUME NEW w \in Workers, Crash(w) PROVE TypeOK'
  <2>1. crashes' \in 0..MaxCrashes BY <1>18, QueueParameters DEF QueueAssumption, Crash, TypeOK
  <2>2. QED BY <1>18, <2>1, ReturnTyped DEF TypeOK, Crash, queue
<1>19. ASSUME Tick PROVE TypeOK'
  <2>1. dispatch' \in DispatchState BY <1>19, DispatchTyped DEF Tick, TypeOK
  <2>2. job' \in [Jobs -> JobRow]
    BY <1>19, QueueParameters DEF QueueAssumption, Tick, TypeOK, JobRow
  <2>3. QED BY <1>19, <2>1, <2>2 DEF TypeOK, Tick, locals, bounds
<1>20. CASE UNCHANGED vars
  BY <1>20 DEF TypeOK, vars
<1>21. QED
  BY <1>1, <1>2, <1>3, <1>4, <1>5, <1>6, <1>7, <1>8, <1>9, <1>10, <1>11, <1>12, <1>13,
     <1>14, <1>15, <1>16, <1>17, <1>18, <1>19, <1>20 DEF Next, ProcessOne, Request

-----------------------------------------------------------------------------
(* Delivery: the inductive invariant.  Its conjuncts about the tables are  *)
(* RowsOK, those about one call of processOne are CallOK.                  *)

RowsOK ==
    /\ PreviewIsNew
    /\ UnsentNotAccepted
    /\ AtMostOnceAccepted
    /\ LoggedWasAccepted
    /\ RecipientMirrorsJob
    /\ ResendableKeepsPayload
    /\ BoundedAttempts

OnItsWayToLog(w) == pc[w] = "log" \/ (pc[w] \in {"count", "write"} /\ refresh[w].then = "log")

CallOK(w) ==
    /\ pc[w] \in InExchange =>
         /\ claimed[w] \in Jobs
         /\ job[claimed[w]].status \in {"SENDING", "UNCERTAIN"}
         /\ job[claimed[w]].attempts > 0
    /\ pc[w] \in {"check", "skip", "smtp"} => accepted[claimed[w]] = 0
    /\ pc[w] = "accepted" => accepted[claimed[w]] = 1
    /\ pc[w] \in {"suppress", "rejected"} /\ ~failure[w].uncertain => accepted[claimed[w]] = 0
    /\ OnItsWayToLog(w) =>
         /\ claimed[w] \in Jobs
         /\ job[claimed[w]].status = "SENT"
         /\ accepted[claimed[w]] = 1

CallsOK == (\A w \in Workers : CallOK(w)) /\ OneExchangePerJob

\* The invariant, regrouped.
LEMMA Regrouped == DeliveryInv <=> TypeOK /\ RowsOK /\ CallsOK
BY DEF DeliveryInv, RowsOK, CallsOK, CallOK, OnItsWayToLog, ExchangeHoldsJob, AcceptanceKnown,
       LogFollowsSent

\* The same of the next state, the form the step proofs end with.
LEMMA RegroupedNext == (TypeOK /\ RowsOK /\ CallsOK)' => DeliveryInv'
BY DEF DeliveryInv, RowsOK, CallsOK, CallOK, OnItsWayToLog, ExchangeHoldsJob, AcceptanceKnown,
       LogFollowsSent

\* Steps that leave the tables alone keep what is known of them.
LEMMA RowsUntouched ==
    ASSUME RowsOK, UNCHANGED <<job, recipient, campaign, preview, accepted, logged>>
    PROVE  RowsOK'
BY DEF RowsOK, PreviewIsNew, UnsentNotAccepted, AtMostOnceAccepted, LoggedWasAccepted,
       RecipientMirrorsJob, ResendableKeepsPayload, BoundedAttempts

\* What a transaction that writes one job must respect.
LEMMA RowsSettled ==
    ASSUME TypeOK, RowsOK, NEW j \in Jobs, NEW row \in JobRow, Settle(j, row),
           UNCHANGED <<campaign, preview, accepted, logged>>,
           job[j].status \notin {"NONE", "SENT"}, row.status # "NONE",
           row.status \in {"QUEUED", "SENDING", "FAILED", "UNCERTAIN"} => row.payload,
           row.status = "QUEUED" => row.attempts < MaxAttempts,
           row.status \in {"QUEUED", "FAILED"} => accepted[j] = 0
    PROVE  RowsOK'
<1> DEFINE other(k) == job'[k] = job[k] /\ recipient'[k] = recipient[k]
<1>1. job'[j] = row /\ recipient'[j] = row.status /\ \A k \in Jobs \ {j} : other(k)
  BY DEF TypeOK, Settle
<1>2. row.attempts <= MaxAttempts BY QueueParameters DEF QueueAssumption, JobRow
<1> USE DEF RowsOK
<1>3. PreviewIsNew' BY <1>1 DEF PreviewIsNew, JobsOf
<1>4. UnsentNotAccepted' BY <1>1 DEF UnsentNotAccepted
<1>5. AtMostOnceAccepted' BY DEF AtMostOnceAccepted
<1>6. LoggedWasAccepted' BY <1>1 DEF LoggedWasAccepted, TypeOK
<1>7. RecipientMirrorsJob' BY <1>1 DEF RecipientMirrorsJob
<1>8. ResendableKeepsPayload' BY <1>1 DEF ResendableKeepsPayload
<1>9. BoundedAttempts' BY <1>1, <1>2 DEF BoundedAttempts
<1>10. QED BY <1>3, <1>4, <1>5, <1>6, <1>7, <1>8, <1>9

\* A call is not disturbed by steps that leave it and its job alone.
LEMMA CallUntouched ==
    ASSUME NEW w \in Workers, CallOK(w),
           pc'[w] = pc[w], claimed'[w] = claimed[w], failure'[w] = failure[w],
           refresh'[w] = refresh[w],
           pc[w] \in InExchange \/ OnItsWayToLog(w) =>
               /\ job'[claimed[w]] = job[claimed[w]]
               /\ accepted'[claimed[w]] = accepted[claimed[w]]
    PROVE  CallOK(w)'
BY DEF CallOK, OnItsWayToLog, InExchange

\* Steps that leave the local state of the calls and the tables alone.
LEMMA CallsUntouched ==
    ASSUME CallsOK, UNCHANGED <<job, accepted, pc, claimed, failure, refresh>>
    PROVE  CallsOK'
BY DEF CallsOK, CallOK, OnItsWayToLog, InExchange, OneExchangePerJob

\* A call that leaves its exchange, or was in none, and does not go to the log.
LEMMA CallOver ==
    ASSUME TypeOK, NEW w \in Workers, CallsOK, UNCHANGED <<job, accepted>>,
           \A v \in Workers \ {w} :
               /\ pc'[v] = pc[v] /\ claimed'[v] = claimed[v] /\ failure'[v] = failure[v]
               /\ refresh'[v] = refresh[v],
           pc'[w] \notin InExchange, ~OnItsWayToLog(w)'
    PROVE  CallsOK'
<1>1. ASSUME NEW v \in Workers PROVE CallOK(v)'
  <2>1. CASE v = w BY <2>1 DEF CallOK, OnItsWayToLog, InExchange
  <2>2. CASE v # w BY <2>2, CallUntouched DEF CallsOK
  <2>3. QED BY <2>1, <2>2
<1>2. OneExchangePerJob' BY DEF CallsOK, OneExchangePerJob
<1>3. QED BY <1>1, <1>2 DEF CallsOK

\* A transaction on the job a call holds: the call leaves its exchange for
\* refreshCampaign, and no other call notices.
LEMMA CallsSettled ==
    ASSUME TypeOK, CallsOK, NEW w \in Workers, pc[w] \in InExchange,
           NEW row \in JobRow, Settle(claimed[w], row), NEW next \in {"idle", "log"},
           Refresh(w, claimed[w], next), UNCHANGED <<claimed, failure, accepted>>,
           next = "log" => row.status = "SENT" /\ accepted[claimed[w]] = 1
    PROVE  CallsOK'
<1>1. claimed[w] \in Jobs /\ job[claimed[w]].status \in {"SENDING", "UNCERTAIN"}
  BY DEF CallsOK, CallOK
<1>2. /\ job'[claimed[w]] = row
      /\ \A k \in Jobs \ {claimed[w]} : job'[k] = job[k]
  BY <1>1 DEF TypeOK, Settle
<1>3. pc'[w] = "count" /\ refresh'[w].then = next
  BY DEF TypeOK, Refresh
<1>4. ASSUME NEW v \in Workers \ {w} PROVE pc'[v] = pc[v] /\ refresh'[v] = refresh[v]
  BY DEF TypeOK, Refresh
<1>5. CallOK(w)'
  BY <1>1, <1>2, <1>3 DEF CallOK, OnItsWayToLog, InExchange
<1>6. ASSUME NEW v \in Workers \ {w} PROVE CallOK(v)'
  <2>1. pc[v] \in InExchange => claimed[v] \in Jobs /\ claimed[v] # claimed[w]
    BY DEF CallsOK, CallOK, OneExchangePerJob
  <2>2. OnItsWayToLog(v) => claimed[v] \in Jobs /\ claimed[v] # claimed[w]
    BY <1>1 DEF CallsOK, CallOK
  <2>3. pc[v] \in InExchange \/ OnItsWayToLog(v) => job'[claimed[v]] = job[claimed[v]]
    BY <1>2, <2>1, <2>2
  <2>4. CallOK(v) BY DEF CallsOK
  <2>5. QED BY <1>4, <2>3, <2>4, CallUntouched
<1>7. OneExchangePerJob' BY <1>3, <1>4 DEF CallsOK, OneExchangePerJob, InExchange
<1>8. QED BY <1>5, <1>6, <1>7 DEF CallsOK

\* Initially nothing is enqueued and no call is under way.
LEMMA DeliveryInit == Init => DeliveryInv
<1> SUFFICES ASSUME Init PROVE DeliveryInv OBVIOUS
<1>1. TypeOK
  BY QueueParameters, QuotaParameters, NoRefreshTyped
     DEF QuotaAssumption, QueueAssumption, Init, WindowInit, FreshDispatch, DispatchState,
         TypeOK, JobRow, JobStatus, CampaignRow, Control, NoFailure
<1>2. RowsOK
  BY QueueParameters
     DEF QueueAssumption, Init, RowsOK, PreviewIsNew, JobsOf, UnsentNotAccepted, AtMostOnceAccepted,
         LoggedWasAccepted, RecipientMirrorsJob, ResendableKeepsPayload, BoundedAttempts
<1>3. CallsOK
  BY DEF Init, CallsOK, CallOK, OnItsWayToLog, OneExchangePerJob, InExchange
<1>4. QED BY <1>1, <1>2, <1>3, Regrouped

\* A process that calls the transport under a policy that tells a lost
\* acknowledgement from a refusal: what an error leaves unsaid is uncertain.
LEMMA UncertainWhenLost ==
    ASSUME LostAckIsNotPreData, NEW e \in SmtpErrors, MayBeAccepted(e)
    PROVE  mailFailure(e).uncertain
<1>1. e.response \notin {4, 5} BY DEF MayBeAccepted
<1>2. e.command \notin PreDataCommands BY DEF MayBeAccepted, LostAckIsNotPreData
<1>3. QED BY <1>1, <1>2, Zenon DEF mailFailure

\* Every request keeps the invariant.
LEMMA RequestKeeps ==
    ASSUME DeliveryInv, TypeOK', NEW c \in Campaigns, Request(c)
    PROVE  DeliveryInv'
<1> USE Regrouped, RegroupedNext
<1>1. CASE PreviewRecipients(c)
  <2>1. PreviewIsNew'
    BY <1>1 DEF PreviewRecipients, Recipients, RowsOK, PreviewIsNew, TypeOK, queue
  <2>2. RowsOK'
    BY <1>1, <2>1 DEF PreviewRecipients, RowsOK, UnsentNotAccepted, AtMostOnceAccepted,
       LoggedWasAccepted, RecipientMirrorsJob, ResendableKeepsPayload, BoundedAttempts, queue
  <2>3. CallsOK' BY <1>1, CallsUntouched DEF PreviewRecipients, queue, locals
  <2>4. QED BY <2>2, <2>3
<1>2. CASE SendBulkEmail(c)
  <2> DEFINE new == preview[c]
  <2>1. /\ new \subseteq JobsOf(c)
        /\ \A j \in new : job[j].status = "NONE"
    BY <1>2 DEF SendBulkEmail, RowsOK, PreviewIsNew
  <2>2. \A j \in new : /\ job'[j].status = "QUEUED" /\ job'[j].payload /\ job'[j].attempts = 0
                       /\ recipient'[j] = "QUEUED"
    BY <1>2, <2>1 DEF SendBulkEmail, JobsOf
  <2>3. \A j \in Jobs \ new : job'[j] = job[j] /\ recipient'[j] = recipient[j]
    BY <1>2 DEF SendBulkEmail
  <2> HIDE DEF new
  <2>4. campaign'[c].status = "SENDING" /\ \A d \in Campaigns \ {c} : campaign'[d] = campaign[d]
    BY <1>2 DEF SendBulkEmail, TypeOK, CampaignRow
  <2>5. PreviewIsNew'
    <3>1. \A d \in Campaigns : preview'[d] \subseteq JobsOf(d)
      BY <1>2 DEF SendBulkEmail, RowsOK, PreviewIsNew, TypeOK
    <3>2. \A d \in Campaigns \ {c} : JobsOf(d) \cap new = {}
      BY <2>1 DEF JobsOf
    <3>3. \A d \in Campaigns : JobsOf(d) \subseteq Jobs BY DEF JobsOf
    <3>4. QED BY <2>3, <2>4, <3>1, <3>2, <3>3 DEF RowsOK, PreviewIsNew
  <2>6. UNCHANGED <<accepted, logged>> BY <1>2 DEF SendBulkEmail
  <2>7. UnsentNotAccepted' BY <2>1, <2>2, <2>3, <2>6 DEF RowsOK, UnsentNotAccepted
  <2>8. AtMostOnceAccepted' BY <2>6 DEF RowsOK, AtMostOnceAccepted
  <2>9. LoggedWasAccepted' BY <2>1, <2>3, <2>6 DEF RowsOK, LoggedWasAccepted, TypeOK
  <2>10. RecipientMirrorsJob' BY <2>2, <2>3 DEF RowsOK, RecipientMirrorsJob
  <2>11. ResendableKeepsPayload' BY <2>2, <2>3 DEF RowsOK, ResendableKeepsPayload
  <2>12. BoundedAttempts' BY <2>2, <2>3, QueueParameters DEF QueueAssumption, RowsOK, BoundedAttempts
  <2>13. CallsOK'
    <3>1. \A w \in Workers : CallOK(w)'
      <4> SUFFICES ASSUME NEW w \in Workers PROVE CallOK(w)' OBVIOUS
      <4>1. pc[w] \in InExchange \/ OnItsWayToLog(w) => claimed[w] \in Jobs \ new
        BY <2>1 DEF CallsOK, CallOK
      <4>2. UNCHANGED locals BY <1>2 DEF SendBulkEmail
      <4>3. QED BY <2>3, <2>6, <4>1, <4>2, CallUntouched DEF CallsOK, locals
    <3>2. OneExchangePerJob'
      BY <1>2 DEF SendBulkEmail, locals, CallsOK, OneExchangePerJob
    <3>3. QED BY <3>1, <3>2 DEF CallsOK
  <2>14. QED BY <2>5, <2>7, <2>8, <2>9, <2>10, <2>11, <2>12, <2>13 DEF RowsOK
<1>3. CASE PauseCampaign(c) \/ ResumeCampaign(c)
  <2>1. \A d \in Campaigns : campaign'[d].status = campaign[d].status
    <3>1. ASSUME NEW p \in BOOLEAN, campaign' = [campaign EXCEPT ![c].paused = p],
                 NEW d \in Campaigns
          PROVE  campaign'[d].status = campaign[d].status
      BY <3>1 DEF TypeOK, CampaignRow
    <3>2. QED BY <1>3, <3>1 DEF PauseCampaign, ResumeCampaign
  <2>2. UNCHANGED <<queue, preview, locals, accepted, logged>>
    BY <1>3 DEF PauseCampaign, ResumeCampaign
  <2>3. RowsOK'
    BY <2>1, <2>2 DEF RowsOK, PreviewIsNew, UnsentNotAccepted, AtMostOnceAccepted,
       LoggedWasAccepted, RecipientMirrorsJob, ResendableKeepsPayload, BoundedAttempts, queue
  <2>4. CallsOK' BY <2>2, CallsUntouched DEF queue, locals
  <2>5. QED BY <2>3, <2>4
<1>4. CASE RetryFailedRecipients(c)
  <2>1. PICK again \in SUBSET Jobs :
          /\ \A j \in again : job[j].status = "FAILED" /\ job[j].payload
          /\ job' = [j \in Jobs |-> IF j \in again
                                    THEN Written(job[j], "QUEUED", 0, 0, job[j].payload)
                                    ELSE job[j]]
          /\ recipient' = [j \in Jobs |-> IF j \in again THEN "QUEUED" ELSE recipient[j]]
    BY <1>4 DEF RetryFailedRecipients, JobsOf
  <2>2. \A j \in again : /\ job'[j].status = "QUEUED" /\ job'[j].payload
                         /\ job'[j].attempts = 0 /\ recipient'[j] = "QUEUED"
    BY <2>1 DEF Written
  <2>3. \A j \in Jobs \ again : job'[j] = job[j] /\ recipient'[j] = recipient[j]
    BY <2>1
  <2>4. campaign'[c].status = "SENDING" /\ \A d \in Campaigns \ {c} : campaign'[d] = campaign[d]
    BY <1>4 DEF RetryFailedRecipients, TypeOK, CampaignRow
  <2>5. UNCHANGED <<preview, accepted, logged, locals>> BY <1>4 DEF RetryFailedRecipients
  <2>6. PreviewIsNew'
    <3>1. \A d \in Campaigns : JobsOf(d) \subseteq Jobs BY DEF JobsOf
    <3>2. \A d \in Campaigns : campaign[d].status = "NONE" => JobsOf(d) \cap again = {}
      BY <2>1 DEF RowsOK, PreviewIsNew
    <3>3. QED BY <2>3, <2>4, <2>5, <3>1, <3>2 DEF RowsOK, PreviewIsNew
  <2>7. UnsentNotAccepted' BY <2>1, <2>2, <2>3, <2>5 DEF RowsOK, UnsentNotAccepted
  <2>8. AtMostOnceAccepted' BY <2>5 DEF RowsOK, AtMostOnceAccepted
  <2>9. LoggedWasAccepted' BY <2>1, <2>3, <2>5 DEF RowsOK, LoggedWasAccepted, TypeOK
  <2>10. RecipientMirrorsJob' BY <2>2, <2>3 DEF RowsOK, RecipientMirrorsJob
  <2>11. ResendableKeepsPayload' BY <2>2, <2>3 DEF RowsOK, ResendableKeepsPayload
  <2>12. BoundedAttempts' BY <2>2, <2>3, QueueParameters DEF QueueAssumption, RowsOK, BoundedAttempts
  <2>13. CallsOK'
    <3>1. \A w \in Workers : CallOK(w)'
      <4> SUFFICES ASSUME NEW w \in Workers PROVE CallOK(w)' OBVIOUS
      <4>1. pc[w] \in InExchange \/ OnItsWayToLog(w) => claimed[w] \in Jobs \ again
        BY <2>1 DEF CallsOK, CallOK
      <4>2. QED BY <2>3, <2>5, <4>1, CallUntouched DEF CallsOK, locals
    <3>2. OneExchangePerJob' BY <2>5 DEF locals, CallsOK, OneExchangePerJob
    <3>3. QED BY <3>1, <3>2 DEF CallsOK
  <2>14. QED BY <2>6, <2>7, <2>8, <2>9, <2>10, <2>11, <2>12, <2>13 DEF RowsOK
<1>5. QED BY <1>1, <1>2, <1>3, <1>4 DEF Request

\* Every step of processOne keeps the invariant.
LEMMA ProcessOneKeeps ==
    ASSUME LostAckIsNotPreData, DeliveryInv, TypeOK', NEW w \in Workers, ProcessOne(w)
    PROVE  DeliveryInv'
<1> USE Regrouped, RegroupedNext
<1>1. CASE FindStale(w)
  <2>1. RowsOK' BY <1>1, RowsUntouched DEF FindStale, queue
  <2>2. CallsOK'
    BY <1>1, CallOver DEF FindStale, queue, TypeOK, InExchange, OnItsWayToLog
  <2>3. QED BY <2>1, <2>2
<1>2. CASE MarkUncertain(w)
  <2>1. PICK j \in stale[w] :
          /\ IF job[j].status = "SENDING"
             THEN Settle(j, Written(job[j], "UNCERTAIN", job[j].attempts, job[j].wait,
                                    job[j].payload))
             ELSE UNCHANGED <<job, recipient>>
          /\ Refresh(w, j, "sweep")
    BY <1>2 DEF MarkUncertain
  <2>2. j \in Jobs BY DEF TypeOK
  <2>3. UNCHANGED <<campaign, preview, claimed, failure, accepted, logged>>
    BY <1>2 DEF MarkUncertain
  <2>4. /\ pc[w] = "sweep" /\ pc'[w] = "count" /\ refresh'[w].then = "sweep"
        /\ \A v \in Workers \ {w} : pc'[v] = pc[v] /\ refresh'[v] = refresh[v]
    BY <1>2, <2>1 DEF MarkUncertain, Refresh, TypeOK
  <2>5. CASE job[j].status = "SENDING"
    <3> DEFINE row == Written(job[j], "UNCERTAIN", job[j].attempts, job[j].wait,
                              job[j].payload)
    <3>1. row \in JobRow BY <2>2, WrittenTyped DEF TypeOK, JobRow, JobStatus
    <3>2. /\ row.status = "UNCERTAIN" /\ row.payload = job[j].payload
          /\ row.attempts = job[j].attempts
      BY DEF Written
    <3>3. job[j].payload BY <2>2, <2>5 DEF RowsOK, ResendableKeepsPayload
    <3>4. Settle(j, row) BY <2>1, <2>5
    <3> HIDE DEF row
    <3>5. RowsOK' BY <2>2, <2>3, <2>5, <3>1, <3>2, <3>3, <3>4, RowsSettled
    <3>6. job'[j] = row /\ \A k \in Jobs \ {j} : job'[k] = job[k]
      BY <2>2, <3>4 DEF Settle, TypeOK
    <3>7. ASSUME NEW v \in Workers PROVE CallOK(v)'
      <4>1. CASE v = w BY <2>4, <4>1 DEF CallOK, OnItsWayToLog, InExchange
      <4>2. CASE v # w
        BY <2>2, <2>3, <2>4, <2>5, <3>2, <3>6, <4>2 DEF CallsOK, CallOK, OnItsWayToLog, InExchange
      <4>3. QED BY <4>1, <4>2
    <3>8. OneExchangePerJob' BY <2>3, <2>4 DEF CallsOK, OneExchangePerJob, InExchange
    <3>9. QED BY <3>5, <3>7, <3>8 DEF CallsOK
  <2>6. CASE job[j].status # "SENDING"
    <3>1. RowsOK' BY <2>1, <2>3, <2>6, RowsUntouched
    <3>2. CallsOK'
      BY <2>1, <2>3, <2>4, <2>6, CallOver DEF InExchange, OnItsWayToLog
    <3>3. QED BY <3>1, <3>2
  <2>7. QED BY <2>5, <2>6
<1>3. CASE Claim(w)
  <2>1. PICK j \in Oldest(Eligible(w)) :
          /\ Settle(j, Written(job[j], "SENDING", job[j].attempts + 1, 0, job[j].payload))
          /\ claimed' = [claimed EXCEPT ![w] = j]
    BY <1>3 DEF Claim
  <2> DEFINE row == Written(job[j], "SENDING", job[j].attempts + 1, 0, job[j].payload)
  <2>2. j \in Jobs /\ job[j].status = "QUEUED" BY DEF Oldest, Eligible
  <2>3. job[j].payload /\ accepted[j] = 0 /\ job[j].attempts \in Nat
    BY <2>2 DEF RowsOK, ResendableKeepsPayload, UnsentNotAccepted, TypeOK, JobRow
  <2>4. row \in JobRow
    <3>1. job[j].attempts < MaxAttempts BY <2>2 DEF RowsOK, BoundedAttempts
    <3>2. job[j].attempts + 1 \in 0..MaxAttempts BY <2>3, <3>1, QueueParameters DEF QueueAssumption
    <3>3. QED BY <2>2, <3>2, WrittenTyped DEF TypeOK, JobRow, JobStatus
  <2>5. row.status = "SENDING" /\ row.payload = job[j].payload /\ row.attempts > 0
    BY <2>3 DEF Written
  <2>6. Settle(j, row) BY <2>1
  <2> HIDE DEF row
  <2>7. UNCHANGED <<campaign, preview, failure, refresh, accepted, logged>> BY <1>3 DEF Claim
  <2>8. RowsOK' BY <2>2, <2>3, <2>4, <2>5, <2>6, <2>7, RowsSettled
  <2>9. job'[j] = row /\ \A k \in Jobs \ {j} : job'[k] = job[k]
    BY <2>2, <2>6 DEF Settle, TypeOK
  <2>10. /\ pc'[w] = "check" /\ claimed'[w] = j
         /\ \A v \in Workers \ {w} : pc'[v] = pc[v] /\ claimed'[v] = claimed[v]
    BY <1>3, <2>1 DEF Claim, TypeOK
  <2>11. CallOK(w)'
    BY <2>2, <2>3, <2>5, <2>7, <2>9, <2>10 DEF CallOK, OnItsWayToLog
  <2>12. ASSUME NEW v \in Workers \ {w}
         PROVE  /\ pc[v] \in InExchange \/ OnItsWayToLog(v) => claimed[v] \in Jobs \ {j}
                /\ CallOK(v)'
    <3>1. CallOK(v) BY DEF CallsOK
    <3>2. pc[v] \in InExchange \/ OnItsWayToLog(v) => claimed[v] \in Jobs \ {j}
      BY <2>2, <3>1 DEF CallOK
    <3>3. CallOK(v)' BY <2>7, <2>9, <2>10, <3>1, <3>2, CallUntouched
    <3>4. QED BY <3>2, <3>3
  <2>13. OneExchangePerJob' BY <2>10, <2>12 DEF CallsOK, OneExchangePerJob
  <2>14. QED BY <2>8, <2>11, <2>12, <2>13 DEF CallsOK
<1>4. CASE ClaimNothing(w)
  <2>1. RowsOK' BY <1>4, RowsUntouched DEF ClaimNothing, queue
  <2>2. CallsOK'
    BY <1>4, CallOver DEF ClaimNothing, Return, queue, TypeOK, InExchange, OnItsWayToLog
  <2>3. QED BY <2>1, <2>2
<1>5. CASE CheckSuppressed(w)
  <2>1. RowsOK' BY <1>5, RowsUntouched DEF CheckSuppressed, queue
  <2>2. /\ pc[w] = "check" /\ pc'[w] \in {"skip", "smtp"}
        /\ \A v \in Workers \ {w} : pc'[v] = pc[v]
        /\ UNCHANGED <<job, accepted, claimed, failure, refresh>>
    BY <1>5 DEF CheckSuppressed, TypeOK, queue
  <2>3. ASSUME NEW v \in Workers PROVE CallOK(v)'
    BY <2>2 DEF CallsOK, CallOK, OnItsWayToLog, InExchange
  <2>4. OneExchangePerJob' BY <2>2 DEF CallsOK, OneExchangePerJob, InExchange
  <2>5. QED BY <2>1, <2>3, <2>4 DEF CallsOK
<1>6. CASE Finish(w)
  <2> DEFINE row == Written(job[claimed[w]], "SKIPPED", job[claimed[w]].attempts, 0, FALSE)
  <2>1. /\ pc[w] \in InExchange /\ claimed[w] \in Jobs
        /\ job[claimed[w]].status \in {"SENDING", "UNCERTAIN"}
    BY <1>6 DEF Finish, CallsOK, CallOK, InExchange
  <2>2. row \in JobRow BY <2>1, WrittenTyped DEF TypeOK, JobRow, JobStatus
  <2>3. row.status = "SKIPPED" BY DEF Written
  <2>4. Settle(claimed[w], row) /\ Refresh(w, claimed[w], "idle") BY <1>6 DEF Finish
  <2> HIDE DEF row
  <2>5. UNCHANGED <<campaign, preview, claimed, failure, accepted, logged>> BY <1>6 DEF Finish
  <2>6. RowsOK' BY <2>1, <2>2, <2>3, <2>4, <2>5, RowsSettled
  <2>7. CallsOK' BY <2>1, <2>2, <2>3, <2>4, <2>5, CallsSettled
  <2>8. QED BY <2>6, <2>7
<1>7. CASE SendMail(w)
  <2>1. /\ pc[w] = "smtp" /\ claimed[w] \in Jobs /\ accepted[claimed[w]] = 0
        /\ job[claimed[w]].status \in {"SENDING", "UNCERTAIN"}
        /\ job[claimed[w]].attempts > 0
    BY <1>7 DEF SendMail, CallsOK, CallOK, InExchange
  <2>2. UNCHANGED <<job, recipient, campaign, preview, claimed, refresh, logged>>
    BY <1>7 DEF SendMail, queue
  <2>3. \/ /\ pc'[w] = "accepted" /\ accepted'[claimed[w]] = 1
        \/ /\ pc'[w] \in {"suppress", "rejected"}
           /\ \/ accepted'[claimed[w]] = 0
              \/ failure'[w].uncertain /\ accepted'[claimed[w]] = 1
    <3>1. CASE accepted' = [accepted EXCEPT ![claimed[w]] = @ + 1]
               /\ pc' = [pc EXCEPT ![w] = "accepted"]
      BY <2>1, <3>1 DEF TypeOK
    <3>2. ASSUME NEW e \in SmtpErrors, failure' = [failure EXCEPT ![w] = mailFailure(e)],
                 pc' = [pc EXCEPT ![w] = IF mailFailure(e).suppress THEN "suppress"
                                         ELSE "rejected"],
                 \/ UNCHANGED accepted
                 \/ MayBeAccepted(e) /\ accepted' = [accepted EXCEPT ![claimed[w]] = @ + 1]
          PROVE  /\ pc'[w] \in {"suppress", "rejected"}
                 /\ \/ accepted'[claimed[w]] = 0
                    \/ failure'[w].uncertain /\ accepted'[claimed[w]] = 1
      <4>1. pc'[w] \in {"suppress", "rejected"} BY <3>2 DEF TypeOK
      <4>2. CASE UNCHANGED accepted BY <2>1, <4>1, <4>2
      <4>3. CASE MayBeAccepted(e) /\ accepted' = [accepted EXCEPT ![claimed[w]] = @ + 1]
        <5>1. accepted'[claimed[w]] = 1 BY <2>1, <4>3 DEF TypeOK
        <5>2. failure'[w] = mailFailure(e) BY <3>2 DEF TypeOK
        <5>3. mailFailure(e).uncertain BY <4>3, UncertainWhenLost
        <5>4. failure'[w].uncertain BY <5>2, <5>3, Zenon
        <5>5. QED BY <4>1, <5>1, <5>4
      <4>4. QED BY <3>2, <4>2, <4>3
    <3>3. QED BY <1>7, <3>1, <3>2 DEF SendMail
  <2>4. \A k \in Jobs \ {claimed[w]} : accepted'[k] = accepted[k]
    BY <1>7, <2>1 DEF SendMail, TypeOK
  <2>5. \A v \in Workers \ {w} : pc'[v] = pc[v] /\ failure'[v] = failure[v]
    BY <1>7 DEF SendMail, TypeOK
  <2>6. RowsOK'
    <3>1. UnsentNotAccepted' BY <2>1, <2>2, <2>4 DEF RowsOK, UnsentNotAccepted
    <3>2. AtMostOnceAccepted' BY <2>1, <2>3, <2>4 DEF RowsOK, AtMostOnceAccepted
    <3>3. LoggedWasAccepted' BY <2>1, <2>2, <2>4 DEF RowsOK, LoggedWasAccepted, TypeOK
    <3>4. QED
      BY <2>2, <3>1, <3>2, <3>3
         DEF RowsOK, PreviewIsNew, RecipientMirrorsJob, ResendableKeepsPayload, BoundedAttempts
  <2>7. CallOK(w)'
    BY <2>1, <2>2, <2>3 DEF CallOK, OnItsWayToLog, InExchange
  <2>8. ASSUME NEW v \in Workers \ {w} PROVE CallOK(v)'
    <3>1. CallOK(v) BY DEF CallsOK
    <3>2. pc[v] \in InExchange \/ OnItsWayToLog(v) => claimed[v] \in Jobs \ {claimed[w]}
      BY <2>1, <3>1 DEF CallsOK, CallOK, OneExchangePerJob, InExchange
    <3>3. QED BY <2>2, <2>4, <2>5, <3>1, <3>2, CallUntouched
  <2>9. OneExchangePerJob' BY <2>1, <2>2, <2>5 DEF CallsOK, OneExchangePerJob, InExchange
  <2>10. QED BY <2>6, <2>7, <2>8, <2>9 DEF CallsOK
<1>8. CASE SuppressMailbox(w)
  <2>1. RowsOK' BY <1>8, RowsUntouched DEF SuppressMailbox, queue
  <2>2. /\ pc[w] = "suppress" /\ pc'[w] = "rejected"
        /\ \A v \in Workers \ {w} : pc'[v] = pc[v]
        /\ UNCHANGED <<job, accepted, claimed, failure, refresh>>
    BY <1>8 DEF SuppressMailbox, TypeOK, queue
  <2>3. ASSUME NEW v \in Workers PROVE CallOK(v)'
    BY <2>2 DEF CallsOK, CallOK, OnItsWayToLog, InExchange
  <2>4. OneExchangePerJob' BY <2>2 DEF CallsOK, OneExchangePerJob, InExchange
  <2>5. QED BY <2>1, <2>3, <2>4 DEF CallsOK
<1>9. CASE PersistFailure(w)
  <2> DEFINE j == claimed[w]
             delay == IF Outcome(w) = "QUEUED" THEN Backoff[job[j].attempts] ELSE 0
             row == Written(job[j], Outcome(w), job[j].attempts, delay, job[j].payload)
  <2>1. /\ pc[w] = "rejected" /\ pc[w] \in InExchange /\ j \in Jobs
        /\ job[j].status \in {"SENDING", "UNCERTAIN"} /\ job[j].attempts > 0
        /\ ~failure[w].uncertain => accepted[j] = 0
    BY <1>9 DEF PersistFailure, CallsOK, CallOK, InExchange
  <2>2. /\ Outcome(w) \in {"UNCERTAIN", "QUEUED", "FAILED"}
        /\ Outcome(w) = "QUEUED" => job[j].attempts < MaxAttempts
        /\ Outcome(w) \in {"QUEUED", "FAILED"} => accepted[j] = 0
    BY <2>1 DEF Outcome
  <2>3. row \in JobRow
    <3>1. job[j].attempts \in 1..MaxAttempts
      <4>1. job[j] \in JobRow BY <2>1 DEF TypeOK
      <4>2. job[j].attempts \in 0..MaxAttempts BY <4>1 DEF JobRow
      <4>3. QED BY <2>1, <4>2, QueueParameters DEF QueueAssumption
    <3>2. delay \in Nat BY <3>1, QueueParameters DEF QueueAssumption
    <3>3. QED BY <2>1, <2>2, <3>2, WrittenTyped DEF TypeOK, JobRow, JobStatus
  <2>4. row.status = Outcome(w) /\ row.payload = job[j].payload /\ row.attempts = job[j].attempts
    BY DEF Written
  <2>5. job[j].payload BY <2>1 DEF RowsOK, ResendableKeepsPayload
  <2>6. Settle(j, row) /\ Refresh(w, j, "idle") BY <1>9 DEF PersistFailure
  <2> HIDE DEF row
  <2>7. UNCHANGED <<campaign, preview, claimed, failure, accepted, logged>>
    BY <1>9 DEF PersistFailure
  <2>8. RowsOK' BY <2>1, <2>2, <2>3, <2>4, <2>5, <2>6, <2>7, RowsSettled
  <2>9. CallsOK' BY <2>1, <2>3, <2>6, <2>7, CallsSettled
  <2>10. QED BY <2>8, <2>9
<1>10. CASE PersistSent(w)
  <2> DEFINE row == Written(job[claimed[w]], "SENT", job[claimed[w]].attempts, 0, FALSE)
  <2>1. /\ pc[w] \in InExchange /\ claimed[w] \in Jobs /\ accepted[claimed[w]] = 1
        /\ job[claimed[w]].status \in {"SENDING", "UNCERTAIN"}
    BY <1>10 DEF PersistSent, CallsOK, CallOK, InExchange
  <2>2. row \in JobRow BY <2>1, WrittenTyped DEF TypeOK, JobRow, JobStatus
  <2>3. row.status = "SENT" BY DEF Written
  <2>4. Settle(claimed[w], row) /\ Refresh(w, claimed[w], "log") BY <1>10 DEF PersistSent
  <2> HIDE DEF row
  <2>5. UNCHANGED <<campaign, preview, claimed, failure, accepted, logged>>
    BY <1>10 DEF PersistSent
  <2>6. RowsOK' BY <2>1, <2>2, <2>3, <2>4, <2>5, RowsSettled
  <2>7. CallsOK' BY <2>1, <2>2, <2>3, <2>4, <2>5, CallsSettled
  <2>8. QED BY <2>6, <2>7
<1>11. CASE CountRecipients(w)
  <2>1. RowsOK' BY <1>11, RowsUntouched DEF CountRecipients, queue
  <2>2. /\ pc[w] = "count" /\ pc'[w] = "write" /\ refresh'[w].then = refresh[w].then
        /\ \A v \in Workers \ {w} : pc'[v] = pc[v] /\ refresh'[v] = refresh[v]
        /\ UNCHANGED <<job, accepted, claimed, failure>>
    BY <1>11 DEF CountRecipients, TypeOK, queue
  <2>3. ASSUME NEW v \in Workers PROVE CallOK(v)'
    BY <2>2 DEF CallsOK, CallOK, OnItsWayToLog, InExchange
  <2>4. OneExchangePerJob' BY <2>2 DEF CallsOK, OneExchangePerJob, InExchange
  <2>5. QED BY <2>1, <2>3, <2>4 DEF CallsOK
<1>12. CASE WriteCampaign(w)
  <2>1. UNCHANGED <<job, recipient, preview, accepted, logged>>
    BY <1>12 DEF WriteCampaign, queue
  <2>2. \A c \in Campaigns : campaign'[c].status = "NONE" => campaign[c].status = "NONE"
    <3>1. StatusOf(refresh[w].seen) # "NONE" BY DEF StatusOf
    <3>2. QED BY <1>12, <3>1 DEF WriteCampaign, TypeOK
  <2>3. RowsOK'
    BY <2>1, <2>2 DEF RowsOK, PreviewIsNew, UnsentNotAccepted, AtMostOnceAccepted,
       LoggedWasAccepted, RecipientMirrorsJob, ResendableKeepsPayload, BoundedAttempts
  <2>4. CASE refresh[w].then = "idle"
    <3>1. CallsOK'
      BY <1>12, <2>1, <2>4, CallOver
         DEF WriteCampaign, Return, TypeOK, InExchange, OnItsWayToLog
    <3>2. QED BY <2>3, <3>1
  <2>5. CASE refresh[w].then # "idle"
    <3>1. /\ pc[w] = "write" /\ pc'[w] = refresh[w].then
          /\ \A v \in Workers \ {w} : pc'[v] = pc[v]
          /\ UNCHANGED <<claimed, failure, refresh>>
      BY <1>12, <2>5 DEF WriteCampaign, TypeOK
    <3>2. pc'[w] \in {"sweep", "log"} BY <2>5, <3>1 DEF TypeOK
    <3>3. ASSUME NEW v \in Workers PROVE CallOK(v)'
      BY <2>1, <3>1, <3>2 DEF CallsOK, CallOK, OnItsWayToLog, InExchange
    <3>4. OneExchangePerJob' BY <3>1, <3>2 DEF CallsOK, OneExchangePerJob, InExchange
    <3>5. QED BY <2>3, <3>3, <3>4 DEF CallsOK
  <2>6. QED BY <2>4, <2>5
<1>13. CASE WriteUnitLog(w)
  <2>1. /\ claimed[w] \in Jobs /\ job[claimed[w]].status = "SENT"
        /\ accepted[claimed[w]] = 1
    BY <1>13 DEF WriteUnitLog, CallsOK, CallOK, OnItsWayToLog
  <2>2. /\ UNCHANGED <<job, recipient, campaign, preview, accepted>>
        /\ logged' \in {logged, logged \cup {claimed[w]}}
    BY <1>13 DEF WriteUnitLog, queue
  <2>3. RowsOK'
    BY <2>1, <2>2 DEF RowsOK, PreviewIsNew, UnsentNotAccepted, AtMostOnceAccepted,
       LoggedWasAccepted, RecipientMirrorsJob, ResendableKeepsPayload, BoundedAttempts
  <2>4. CallsOK'
    BY <1>13, CallOver DEF WriteUnitLog, Return, queue, TypeOK, InExchange, OnItsWayToLog
  <2>5. QED BY <2>3, <2>4
<1>14. QED
  BY <1>1, <1>2, <1>3, <1>4, <1>5, <1>6, <1>7, <1>8, <1>9, <1>10, <1>11, <1>12, <1>13
     DEF ProcessOne

\* Every step keeps the invariant.
LEMMA DeliveryStep ==
    ASSUME LostAckIsNotPreData, DeliveryInv, [Next]_vars
    PROVE  DeliveryInv'
<1> USE Regrouped, RegroupedNext
<1>1. TypeOK' BY TypeStep
<1>2. ASSUME NEW c \in Campaigns, Request(c) PROVE DeliveryInv'
  BY <1>1, <1>2, RequestKeeps
<1>3. ASSUME NEW w \in Workers, ProcessOne(w) PROVE DeliveryInv'
  BY <1>1, <1>3, ProcessOneKeeps
<1>4. ASSUME NEW w \in Workers, Crash(w) PROVE DeliveryInv'
  <2>1. RowsOK' BY <1>4, RowsUntouched DEF Crash, queue
  <2>2. CallsOK'
    BY <1>4, CallOver DEF Crash, Return, queue, TypeOK, InExchange, OnItsWayToLog
  <2>3. QED BY <1>1, <2>1, <2>2
<1>5. CASE Tick
  <2>1. \A j \in Jobs : /\ job'[j].status = job[j].status
                        /\ job'[j].attempts = job[j].attempts
                        /\ job'[j].payload = job[j].payload
    BY <1>5 DEF Tick
  <2>2. UNCHANGED <<recipient, campaign, preview, accepted, logged, locals>> BY <1>5 DEF Tick
  <2>3. RowsOK'
    <3>1. PreviewIsNew' BY <2>1, <2>2 DEF RowsOK, PreviewIsNew, JobsOf
    <3>2. UnsentNotAccepted' BY <2>1, <2>2 DEF RowsOK, UnsentNotAccepted
    <3>3. AtMostOnceAccepted' BY <2>2 DEF RowsOK, AtMostOnceAccepted
    <3>4. LoggedWasAccepted' BY <2>1, <2>2 DEF RowsOK, LoggedWasAccepted, TypeOK
    <3>5. RecipientMirrorsJob' BY <2>1, <2>2 DEF RowsOK, RecipientMirrorsJob
    <3>6. ResendableKeepsPayload' BY <2>1, <2>2 DEF RowsOK, ResendableKeepsPayload
    <3>7. BoundedAttempts' BY <2>1, <2>2 DEF RowsOK, BoundedAttempts
    <3>8. QED BY <3>1, <3>2, <3>3, <3>4, <3>5, <3>6, <3>7 DEF RowsOK
  <2>4. ASSUME NEW w \in Workers PROVE CallOK(w)'
    BY <2>1, <2>2 DEF CallsOK, CallOK, OnItsWayToLog, InExchange, locals
  <2>5. OneExchangePerJob' BY <2>2 DEF CallsOK, OneExchangePerJob, locals
  <2>6. QED BY <1>1, <2>3, <2>4, <2>5 DEF CallsOK
<1>6. CASE UNCHANGED vars
  <2>1. RowsOK' BY <1>6, RowsUntouched DEF vars
  <2>2. CallsOK' BY <1>6, CallsUntouched DEF vars
  <2>3. QED BY <1>1, <2>1, <2>2
<1>7. QED BY <1>2, <1>3, <1>4, <1>5, <1>6 DEF Next

-----------------------------------------------------------------------------
(* One process at work, over several campaigns.                            *)

Alone(w) == Workers = {w}

\* What has been checked has not been suppressed since.
CheckedIsOpen == \A w \in Workers : pc[w] = "smtp" => Address[claimed[w]] \notin suppressed

\* Only another process could suppress the address between the check and the exchange.
LEMMA CheckedStaysOpen ==
    ASSUME NEW w, Alone(w), DeliveryInv, CheckedIsOpen, [Next]_vars
    PROVE  CheckedIsOpen'
<1> w \in Workers /\ pc \in [Workers -> Control] BY DEF Alone, DeliveryInv, TypeOK
<1> SUFFICES ASSUME pc'[w] = "smtp" PROVE Address[claimed'[w]] \notin suppressed'
  BY DEF CheckedIsOpen, Alone
<1>1. CASE UNCHANGED <<pc, claimed, suppressed>> BY <1>1 DEF CheckedIsOpen
<1>2. CASE CheckSuppressed(w) BY <1>2 DEF CheckSuppressed
<1>3. CASE ProcessOne(w)
  <2>1. pc'[w] # "smtp" \/ CheckSuppressed(w)
    <3>1. refresh[w].then # "smtp" BY DEF DeliveryInv, TypeOK
    <3>2. QED
      BY <1>3, <3>1 DEF ProcessOne, FindStale, MarkUncertain, Claim, ClaimNothing, Finish, SendMail,
         SuppressMailbox, PersistFailure, PersistSent, CountRecipients, WriteCampaign,
         WriteUnitLog, Refresh, Return
  <2>2. QED BY <1>2, <2>1
<1>4. CASE Crash(w) BY <1>4 DEF Crash, Return
<1>5. ASSUME NEW c \in Campaigns, Request(c) PROVE UNCHANGED <<pc, claimed, suppressed>>
  BY <1>5 DEF Request, PreviewRecipients, SendBulkEmail, PauseCampaign, ResumeCampaign,
     RetryFailedRecipients, locals
<1>6. CASE Tick BY <1>1, <1>6 DEF Tick, locals
<1>7. CASE UNCHANGED vars BY <1>1, <1>7 DEF vars
<1>8. QED BY <1>1, <1>3, <1>4, <1>5, <1>6, <1>7 DEF Next, Alone

\* The message a call is about, or the refresh it owes.
Concerns(w, c) ==
    \/ pc[w] \in InExchange /\ CampaignOf[claimed[w]] = c
    \/ pc[w] \in {"count", "write"} /\ refresh[w].campaign = c

RowCounted(w, c) ==
    IF campaign[c].status = "NONE"
    THEN campaign[c].successCount = 0 /\ campaign[c].failedCount = 0 /\ ~Concerns(w, c)
    ELSE Concerns(w, c) \/ Counted(c)

\* Counting: a campaign agrees with its recipients but while the call that settles one of
\* them has still to count; what it has counted stays so until it is written.
CountsInv(w) ==
    /\ \A c \in Campaigns : RowCounted(w, c)
    /\ QueuedIsDispatchable
    /\ pc[w] = "write" => refresh[w].seen = CountsOf(refresh[w].campaign)
    /\ pc[w] \in {"count", "write"} => campaign[refresh[w].campaign].status = "SENDING"
    /\ \A j \in Jobs : job[j].status = "SENDING" <=> pc[w] \in InExchange /\ claimed[w] = j
    /\ stale[w] = {}

\* The counts are those of the recipients.
LEMMA SameCounts ==
    ASSUME NEW c, \A j \in JobsOf(c) : recipient'[j] = recipient[j]
    PROVE  CountsOf(c)' = CountsOf(c)
<1>1. \A S : {j \in JobsOf(c) : recipient'[j] \in S} = {j \in JobsOf(c) : recipient[j] \in S}
  OBVIOUS
<1>2. QED BY <1>1 DEF CountsOf, JobsOf

\* A campaign whose row and recipients a step leaves alone stays counted, if the call has not
\* just been about it.
LEMMA RowStaysCounted ==
    ASSUME NEW w, NEW c \in Campaigns, RowCounted(w, c), campaign'[c] = campaign[c],
           \A j \in JobsOf(c) : recipient'[j] = recipient[j], Concerns(w, c)' <=> Concerns(w, c)
    PROVE  RowCounted(w, c)'
BY SameCounts DEF RowCounted, Counted

\* Jobs and recipients of a campaign that is not there are not there.
LEMMA NoneCounted ==
    ASSUME DeliveryInv, NEW c \in Campaigns, campaign[c].status = "NONE"
    PROVE  \A j \in JobsOf(c) : job[j].status = "NONE" /\ recipient[j] = "NONE"
BY DEF DeliveryInv, PreviewIsNew, RecipientMirrorsJob, JobsOf

\* Whoever counts nothing pending leaves nothing pending.
LEMMA PendingCounted ==
    ASSUME DeliveryInv, NEW c \in Campaigns, StatusOf(CountsOf(c)) # "SENDING"
    PROVE  \A j \in JobsOf(c) : job[j].status \notin Pending
<1> DEFINE S == {j \in JobsOf(c) : recipient[j] \in Pending}
<1>1. S \in SUBSET Jobs BY DEF JobsOf
<1>2. IsFiniteSet(S) BY <1>1, QueueParameters, FS_Subset DEF QueueAssumption
<1>3. Cardinality(S) = 0 BY <1>1, JobCount DEF StatusOf, CountsOf
<1>4. S = {} BY <1>2, <1>3, FS_EmptySet
<1>5. QED BY <1>4 DEF DeliveryInv, RecipientMirrorsJob, JobsOf

LEMMA CountsInit ==
    ASSUME NEW w, Alone(w), Init
    PROVE  CountsInv(w)
<1> w \in Workers BY DEF Alone
<1>1. ASSUME NEW c \in Campaigns PROVE RowCounted(w, c)
  BY DEF Init, RowCounted, Concerns, InExchange
<1>2. QED BY <1>1 DEF Init, CountsInv, QueuedIsDispatchable, Pending, InExchange

\* A submission is counted from its first moment: all of it is pending.
LEMMA SubmittedCounts ==
    ASSUME NEW w, Alone(w), DeliveryInv, CountsInv(w), NEW d \in Campaigns, SendBulkEmail(d)
    PROVE  CountsInv(w)'
<1> w \in Workers BY DEF Alone
<1>1. /\ campaign[d].status = "NONE" /\ preview[d] # {} /\ preview[d] \subseteq JobsOf(d)
      /\ campaign' = [campaign EXCEPT ![d].status = "SENDING"]
      /\ recipient' = [j \in Jobs |-> IF j \in preview[d] THEN "QUEUED" ELSE recipient[j]]
      /\ \A j \in Jobs : job'[j].status = IF j \in preview[d] THEN "QUEUED" ELSE job[j].status
      /\ UNCHANGED <<pc, claimed, refresh, stale>>
  BY DEF SendBulkEmail, DeliveryInv, PreviewIsNew, locals
<1>2. /\ campaign'[d].status = "SENDING"
      /\ campaign'[d].successCount = campaign[d].successCount
      /\ campaign'[d].failedCount = campaign[d].failedCount
      /\ \A c \in Campaigns \ {d} : campaign'[c] = campaign[c]
  BY <1>1 DEF DeliveryInv, TypeOK, CampaignRow
<1>3. \A j \in JobsOf(d) : job[j].status = "NONE" /\ recipient[j] = "NONE"
  BY <1>1, NoneCounted
<1>4. \A c \in Campaigns \ {d} : \A j \in JobsOf(c) : recipient'[j] = recipient[j]
  BY <1>1 DEF JobsOf
<1>5. \A c \in Campaigns : Concerns(w, c)' <=> Concerns(w, c)
  BY <1>1 DEF Concerns
<1>6. RowCounted(w, d)'
  <2>1. campaign[d].successCount = 0 /\ campaign[d].failedCount = 0
    BY <1>1 DEF CountsInv, RowCounted
  <2>2. {j \in JobsOf(d) : recipient'[j] \in {"SENT"}} = {}
    BY <1>1, <1>3 DEF JobsOf
  <2>3. {j \in JobsOf(d) : recipient'[j] \in {"FAILED", "UNCERTAIN"}} = {}
    BY <1>1, <1>3 DEF JobsOf
  <2>4. Cardinality({j \in JobsOf(d) : recipient'[j] \in Pending}) > 0
    <3> DEFINE S == {j \in JobsOf(d) : recipient'[j] \in Pending}
    <3>1. S \in SUBSET Jobs /\ S # {} BY <1>1 DEF JobsOf, Pending
    <3>2. IsFiniteSet(S) BY <3>1, QueueParameters, FS_Subset DEF QueueAssumption
    <3>3. Cardinality(S) # 0 BY <3>1, <3>2, FS_EmptySet
    <3>4. QED BY <3>1, <3>3, JobCount
  <2>5. /\ CountsOf(d)'.pending > 0 /\ CountsOf(d)'.sent = 0 /\ CountsOf(d)'.failed = 0
    BY <2>2, <2>3, <2>4, FS_EmptySet DEF CountsOf, JobsOf
  <2>6. Counted(d)' BY <1>2, <2>1, <2>5 DEF Counted, StatusOf
  <2>7. QED BY <1>2, <2>6 DEF RowCounted
<1>7. ASSUME NEW c \in Campaigns PROVE RowCounted(w, c)'
  BY <1>2, <1>4, <1>5, <1>6, RowStaysCounted DEF CountsInv
<1>8. QueuedIsDispatchable'
  BY <1>1, <1>2 DEF CountsInv, QueuedIsDispatchable, JobsOf, Pending, QueueAssumption
<1>9. pc[w] \in {"count", "write"} =>
        /\ refresh[w].campaign \in Campaigns \ {d}
        /\ CountsOf(refresh[w].campaign)' = CountsOf(refresh[w].campaign)
  <2>1. pc[w] \in {"count", "write"} => refresh[w].campaign \in Campaigns \ {d}
    BY <1>1 DEF CountsInv, DeliveryInv, TypeOK
  <2>2. \A c \in Campaigns \ {d} : CountsOf(c)' = CountsOf(c)
    BY <1>4, SameCounts
  <2>3. QED BY <1>1, <2>1, <2>2 DEF CountsOf, JobsOf
<1>10. \A j \in Jobs : job'[j].status = "SENDING" <=> pc'[w] \in InExchange /\ claimed'[w] = j
  <2>1. \A j \in preview[d] : ~(pc[w] \in InExchange /\ claimed[w] = j)
    BY <1>1, <1>3 DEF CountsInv, JobsOf
  <2>2. QED BY <1>1, <2>1 DEF CountsInv
<1>11. QED BY <1>1, <1>2, <1>7, <1>8, <1>9, <1>10 DEF CountsInv

\* The other requests change no recipient and no count.
LEMMA RequestCounts ==
    ASSUME NEW w, Alone(w), MaxRetries = 0, DeliveryInv, CountsInv(w),
           NEW d \in Campaigns, Request(d)
    PROVE  CountsInv(w)'
<1> w \in Workers BY DEF Alone
<1>1. CASE SendBulkEmail(d) BY <1>1, SubmittedCounts
<1>2. ~RetryFailedRecipients(d) BY DEF RetryFailedRecipients, DeliveryInv, TypeOK
<1>3. CASE PreviewRecipients(d) \/ PauseCampaign(d) \/ ResumeCampaign(d)
  <2>1. /\ UNCHANGED <<job, recipient, pc, claimed, refresh, stale>>
        /\ \A c \in Campaigns : /\ campaign'[c].status = campaign[c].status
                                /\ campaign'[c].successCount = campaign[c].successCount
                                /\ campaign'[c].failedCount = campaign[c].failedCount
    <3>1. /\ UNCHANGED <<job, recipient, pc, claimed, refresh, stale>>
          /\ \/ campaign' = campaign
             \/ \E p \in BOOLEAN : campaign' = [campaign EXCEPT ![d].paused = p]
      BY <1>3, Zenon DEF PreviewRecipients, PauseCampaign, ResumeCampaign, queue, locals
    <3>2. campaign \in [Campaigns -> CampaignRow] BY DEF DeliveryInv, TypeOK
    <3>3. QED BY <3>1, <3>2 DEF CampaignRow
  <2>2. \A c : CountsOf(c)' = CountsOf(c) BY <2>1, SameCounts
  <2>3. ASSUME NEW c \in Campaigns PROVE RowCounted(w, c)'
    BY <2>1, <2>2 DEF CountsInv, RowCounted, Counted, Concerns
  <2>4. QueuedIsDispatchable'
    BY <2>1, QueueParameters DEF CountsInv, QueuedIsDispatchable, QueueAssumption
  <2>5. QED
    BY <2>1, <2>2, <2>3, <2>4 DEF CountsInv, DeliveryInv, TypeOK, CountsOf, JobsOf
<1>4. QED BY <1>1, <1>2, <1>3 DEF Request

\* A step of the call that changes no row and no status but its own place.
LEMMA PlaceCounts ==
    ASSUME NEW w, Alone(w), DeliveryInv, CountsInv(w), UNCHANGED <<recipient, campaign>>,
           \A j \in Jobs : job'[j].status = job[j].status,
           \/ UNCHANGED <<pc, claimed, refresh>>
           \/ pc[w] \in InExchange /\ pc'[w] \in InExchange /\ claimed' = claimed
           \/ /\ pc[w] \notin InExchange \cup {"count", "write"}
              /\ pc'[w] \notin InExchange \cup {"count", "write"},
           stale'[w] = {}
    PROVE  CountsInv(w)'
<1> w \in Workers BY DEF Alone
<1>1. \A c \in Campaigns : Concerns(w, c)' <=> Concerns(w, c)
  BY DEF Concerns, InExchange
<1>2. \A c : CountsOf(c)' = CountsOf(c) BY SameCounts
<1>3. ASSUME NEW c \in Campaigns PROVE RowCounted(w, c)'
  BY <1>1, RowStaysCounted DEF CountsInv
<1>4. QueuedIsDispatchable'
  BY DEF CountsInv, QueuedIsDispatchable
<1>5. pc'[w] \in {"count", "write"} => pc[w] = pc'[w] /\ refresh' = refresh
  BY DEF InExchange
<1>6. QED
  BY <1>2, <1>3, <1>4, <1>5 DEF CountsInv, InExchange, CountsOf, JobsOf

\* What a claim or the end of an exchange writes is about the campaign of the job only.
LEMMA SettleCounts ==
    ASSUME NEW w, Alone(w), DeliveryInv, CountsInv(w), NEW j \in Jobs, NEW row \in JobRow,
           Settle(j, row), UNCHANGED <<campaign, stale>>,
           campaign[CampaignOf[j]].status = "SENDING",
           \A c \in Campaigns : Concerns(w, c)' <=> c = CampaignOf[j],
           \A c \in Campaigns : Concerns(w, c) => c = CampaignOf[j],
           pc'[w] # "write", pc'[w] = "count" => refresh'[w].campaign = CampaignOf[j],
           \A k \in Jobs : job'[k].status = "SENDING" <=> pc'[w] \in InExchange /\ claimed'[w] = k
    PROVE  CountsInv(w)'
<1>1. /\ recipient' = [recipient EXCEPT ![j] = row.status]
      /\ job' = [job EXCEPT ![j] = row]
      /\ \A k \in Jobs \ {j} : job'[k] = job[k] /\ recipient'[k] = recipient[k]
  BY DEF Settle, DeliveryInv, TypeOK
<1>2. ASSUME NEW c \in Campaigns PROVE RowCounted(w, c)'
  <2>1. CASE c = CampaignOf[j]
    BY <2>1 DEF RowCounted
  <2>2. CASE c # CampaignOf[j]
    <3>1. \A k \in JobsOf(c) : recipient'[k] = recipient[k] BY <1>1, <2>2 DEF JobsOf
    <3>2. RowCounted(w, c) /\ (Concerns(w, c)' <=> Concerns(w, c)) BY <2>2 DEF CountsInv
    <3>3. campaign'[c] = campaign[c] OBVIOUS
    <3>4. QED BY <3>1, <3>2, <3>3, RowStaysCounted
  <2>3. QED BY <2>1, <2>2
<1>3. QueuedIsDispatchable'
  BY <1>1 DEF CountsInv, QueuedIsDispatchable
<1>4. QED BY <1>2, <1>3 DEF CountsInv

LEMMA ExchangeCounts ==
    ASSUME NEW w, Alone(w), DeliveryInv, CountsInv(w),
           Claim(w) \/ Finish(w) \/ PersistFailure(w) \/ PersistSent(w)
    PROVE  CountsInv(w)'
<1> w \in Workers /\ pc \in [Workers -> Control] BY DEF Alone, DeliveryInv, TypeOK
<1>1. CASE Claim(w)
  <2>1. PICK j \in Oldest(Eligible(w)) :
          /\ Settle(j, Written(job[j], "SENDING", job[j].attempts + 1, 0, job[j].payload))
          /\ claimed' = [claimed EXCEPT ![w] = j]
    BY <1>1 DEF Claim
  <2> DEFINE row == Written(job[j], "SENDING", job[j].attempts + 1, 0, job[j].payload)
  <2>2. /\ j \in Jobs /\ job[j].status = "QUEUED" /\ campaign[CampaignOf[j]].status = "SENDING"
    BY DEF Oldest, Eligible
  <2>3. row \in JobRow /\ row.status = "SENDING"
    <3>1. job[j].attempts + 1 \in 0..MaxAttempts
      BY <2>2, QueueParameters DEF QueueAssumption, DeliveryInv, TypeOK, JobRow, BoundedAttempts
    <3>2. QED BY <2>2, <3>1, WrittenTyped DEF DeliveryInv, TypeOK, JobRow, JobStatus, Written
  <2>4. /\ pc[w] = "sweep" /\ pc'[w] = "check" /\ claimed'[w] = j /\ Settle(j, row)
        /\ UNCHANGED <<campaign, stale>>
    BY <1>1, <2>1 DEF Claim, DeliveryInv, TypeOK
  <2> HIDE DEF row
  <2>5. \A k \in Jobs : job'[k].status = "SENDING" <=> pc'[w] \in InExchange /\ claimed'[w] = k
    BY <2>2, <2>3, <2>4 DEF Settle, DeliveryInv, TypeOK, CountsInv, InExchange
  <2>6. \A c \in Campaigns : /\ Concerns(w, c)' <=> c = CampaignOf[j]
                             /\ ~Concerns(w, c)
    BY <2>4 DEF Concerns, InExchange
  <2>7. QED BY <2>2, <2>3, <2>4, <2>5, <2>6, SettleCounts
<1>2. ASSUME pc[w] \in InExchange, NEW row \in JobRow, Settle(claimed[w], row),
             row.status # "SENDING", NEW next, Refresh(w, claimed[w], next),
             UNCHANGED <<campaign, stale, claimed>>
      PROVE  CountsInv(w)'
  <2> DEFINE j == claimed[w]
  <2>1. j \in Jobs /\ job[j].status = "SENDING" /\ campaign[CampaignOf[j]].status = "SENDING"
    BY <1>2 DEF DeliveryInv, ExchangeHoldsJob, CountsInv, QueuedIsDispatchable, Pending
  <2>2. /\ pc'[w] = "count" /\ refresh'[w].campaign = CampaignOf[j]
    BY <1>2 DEF Refresh, DeliveryInv, TypeOK
  <2>3. \A k \in Jobs : job'[k].status # "SENDING"
    BY <1>2, <2>1 DEF Settle, DeliveryInv, TypeOK, CountsInv
  <2>4. \A c \in Campaigns : /\ Concerns(w, c)' <=> c = CampaignOf[j]
                             /\ Concerns(w, c) => c = CampaignOf[j]
    BY <1>2, <2>2 DEF Concerns, InExchange
  <2>5. \A k \in Jobs : job'[k].status = "SENDING" <=> pc'[w] \in InExchange /\ claimed'[w] = k
    BY <2>2, <2>3 DEF InExchange
  <2> HIDE DEF j
  <2>6. Settle(j, row) /\ UNCHANGED <<campaign, stale>> /\ pc'[w] # "write"
    BY <1>2, <2>2 DEF j
  <2>7. QED BY <2>1, <2>2, <2>4, <2>5, <2>6, SettleCounts
<1>3. CASE Finish(w)
  <2> DEFINE row == Written(job[claimed[w]], "SKIPPED", job[claimed[w]].attempts, 0, FALSE)
  <2>1. claimed[w] \in Jobs /\ pc[w] \in InExchange
    BY <1>3 DEF Finish, DeliveryInv, ExchangeHoldsJob, InExchange
  <2>2. row \in JobRow /\ row.status = "SKIPPED"
    BY <2>1, WrittenTyped DEF DeliveryInv, TypeOK, JobRow, JobStatus, Written
  <2>3. /\ Settle(claimed[w], row) /\ Refresh(w, claimed[w], "idle")
        /\ UNCHANGED <<campaign, stale, claimed>>
    BY <1>3 DEF Finish
  <2> HIDE DEF row
  <2>4. QED BY <1>2, <2>1, <2>2, <2>3
<1>4. CASE PersistFailure(w)
  <2> DEFINE k == claimed[w]
             delay == IF Outcome(w) = "QUEUED" THEN Backoff[job[k].attempts] ELSE 0
             row == Written(job[k], Outcome(w), job[k].attempts, delay, job[k].payload)
  <2>1. k \in Jobs /\ pc[w] \in InExchange /\ job[k].attempts > 0
    BY <1>4 DEF PersistFailure, DeliveryInv, ExchangeHoldsJob, InExchange
  <2>2. Outcome(w) \in {"UNCERTAIN", "QUEUED", "FAILED"} BY DEF Outcome
  <2>3. job[k].attempts \in 1..MaxAttempts /\ Backoff[job[k].attempts] \in Nat
    BY <2>1, QueueParameters DEF QueueAssumption, DeliveryInv, TypeOK, JobRow
  <2>4. row \in JobRow /\ row.status # "SENDING"
    <3>1. delay \in Nat BY <2>3
    <3>2. QED BY <2>1, <2>2, <3>1, WrittenTyped DEF DeliveryInv, TypeOK, JobRow, JobStatus, Written
  <2>5. /\ Settle(claimed[w], row) /\ Refresh(w, claimed[w], "idle")
        /\ UNCHANGED <<campaign, stale, claimed>>
    BY <1>4 DEF PersistFailure
  <2> HIDE DEF row
  <2>6. QED BY <1>2, <2>1, <2>4, <2>5
<1>5. CASE PersistSent(w)
  <2> DEFINE row == Written(job[claimed[w]], "SENT", job[claimed[w]].attempts, 0, FALSE)
  <2>1. claimed[w] \in Jobs /\ pc[w] \in InExchange
    BY <1>5 DEF PersistSent, DeliveryInv, ExchangeHoldsJob, InExchange
  <2>2. row \in JobRow /\ row.status = "SENT"
    BY <2>1, WrittenTyped DEF DeliveryInv, TypeOK, JobRow, JobStatus, Written
  <2>3. /\ Settle(claimed[w], row) /\ Refresh(w, claimed[w], "log")
        /\ UNCHANGED <<campaign, stale, claimed>>
    BY <1>5 DEF PersistSent
  <2> HIDE DEF row
  <2>4. QED BY <1>2, <2>1, <2>2, <2>3
<1>6. QED BY <1>1, <1>3, <1>4, <1>5

\* The refresh counts what is there and writes what it has counted.
LEMMA RefreshCounts ==
    ASSUME NEW w, Alone(w), DeliveryInv, CountsInv(w), CountRecipients(w) \/ WriteCampaign(w)
    PROVE  CountsInv(w)'
<1> w \in Workers BY DEF Alone
<1>0. PICK d \in Campaigns : refresh[w].campaign = d
  BY DEF DeliveryInv, TypeOK
<1>1. CASE CountRecipients(w)
  <2>1. /\ pc[w] = "count" /\ pc'[w] = "write"
        /\ refresh'[w].campaign = d /\ refresh'[w].seen = CountsOf(d)
        /\ UNCHANGED <<job, recipient, campaign, stale, claimed>>
    BY <1>0, <1>1 DEF CountRecipients, queue, DeliveryInv, TypeOK
  <2>2. \A c \in Campaigns : Concerns(w, c)' <=> Concerns(w, c)
    BY <1>0, <2>1 DEF Concerns, InExchange
  <2>3. ASSUME NEW c \in Campaigns PROVE RowCounted(w, c)'
    BY <2>1, <2>2, RowStaysCounted DEF CountsInv
  <2>4. CountsOf(d)' = CountsOf(d) BY <2>1, SameCounts
  <2>5. (refresh[w].seen = CountsOf(refresh[w].campaign))'
    BY <2>1, <2>4 DEF CountsOf, JobsOf
  <2>6. QED BY <1>0, <2>1, <2>3, <2>5 DEF CountsInv, QueuedIsDispatchable, InExchange
<1>2. CASE WriteCampaign(w)
  <2> DEFINE n == CountsOf(d)
  <2>1. pc[w] = "write" /\ refresh[w].seen = n
    BY <1>0, <1>2 DEF WriteCampaign, CountsInv
  <2>2. /\ UNCHANGED <<job, recipient>>
        /\ campaign' = [campaign EXCEPT ![d] = [status |-> StatusOf(n), paused |-> @.paused,
                          successCount |-> n.sent, failedCount |-> n.failed]]
    BY <1>0, <1>2, <2>1 DEF WriteCampaign, queue
  <2>3. /\ campaign'[d].status = StatusOf(n) /\ campaign'[d].successCount = n.sent
        /\ campaign'[d].failedCount = n.failed
        /\ \A c \in Campaigns \ {d} : campaign'[c] = campaign[c]
    <3> HIDE DEF n
    <3>1. QED BY <1>0, <2>2 DEF DeliveryInv, TypeOK
  <2>4. pc'[w] \in {"idle", "sweep", "log"} /\ stale'[w] = {}
    BY <1>2 DEF WriteCampaign, Return, CountsInv, DeliveryInv, TypeOK
  <2>5. \A c \in Campaigns : ~Concerns(w, c)' /\ (Concerns(w, c) <=> c = d)
    BY <1>0, <2>1, <2>4 DEF Concerns, InExchange
  <2>6. \A c : CountsOf(c)' = CountsOf(c) BY <2>2, SameCounts
  <2>7. ASSUME NEW c \in Campaigns PROVE RowCounted(w, c)'
    <3>1. CASE c = d
      <4>1. campaign'[d].status # "NONE" BY <2>3 DEF StatusOf
      <4>2. Counted(d)' BY <2>3, <2>6 DEF Counted
      <4>3. QED BY <3>1, <4>1, <4>2 DEF RowCounted
    <3>2. CASE c # d
      BY <2>2, <2>3, <2>5, <3>2, RowStaysCounted DEF CountsInv
    <3>3. QED BY <3>1, <3>2
  <2>8. ASSUME NEW j \in Jobs, job'[j].status \in Pending
        PROVE  campaign'[CampaignOf[j]].status = "SENDING"
    <3>1. job[j].status \in Pending BY <2>2, <2>8
    <3>2. CASE CampaignOf[j] = d
      <4>1. j \in JobsOf(d) BY <3>2 DEF JobsOf
      <4>2. StatusOf(n) = "SENDING" BY <1>0, <3>1, <4>1, PendingCounted
      <4>3. QED BY <2>3, <3>2, <4>2
    <3>3. CASE CampaignOf[j] # d
      BY <2>3, <3>1, <3>3, QueueParameters DEF QueueAssumption, CountsInv, QueuedIsDispatchable
    <3>4. QED BY <3>2, <3>3
  <2>9. \A j \in Jobs : job'[j].status = "SENDING" <=> pc'[w] \in InExchange /\ claimed'[w] = j
    BY <2>1, <2>2, <2>4 DEF CountsInv, InExchange
  <2>10. QED BY <2>4, <2>7, <2>8, <2>9 DEF CountsInv, QueuedIsDispatchable
<1>3. QED BY <1>1, <1>2

LEMMA CountsStep ==
    ASSUME NEW w, Alone(w), MaxCrashes = 0, MaxRetries = 0, DeliveryInv, CountsInv(w),
           [Next]_vars
    PROVE  CountsInv(w)'
<1> w \in Workers BY DEF Alone
<1>1. CASE FindStale(w)
  <2>1. stale'[w] = {j \in Jobs : job[j].status = "SENDING" /\ job[j].age > StaleAfter}
    BY <1>1 DEF FindStale, DeliveryInv, TypeOK
  <2>2. stale'[w] = {} BY <1>1, <2>1 DEF FindStale, CountsInv, InExchange
  <2>3. pc[w] = "idle" /\ pc'[w] = "sweep" /\ UNCHANGED <<job, recipient, campaign>>
    BY <1>1 DEF FindStale, queue, DeliveryInv, TypeOK
  <2>4. QED BY <2>2, <2>3, PlaceCounts DEF InExchange
<1>2. CASE CheckSuppressed(w) \/ SendMail(w) \/ SuppressMailbox(w)
  <2>1. /\ pc[w] \in InExchange /\ pc'[w] \in InExchange
        /\ UNCHANGED <<claimed, job, recipient, campaign, stale>>
    BY <1>2 DEF CheckSuppressed, SendMail, SuppressMailbox, queue, InExchange, DeliveryInv, TypeOK
  <2>2. QED BY <2>1, PlaceCounts DEF CountsInv
<1>3. CASE ClaimNothing(w) \/ WriteUnitLog(w)
  <2>1. /\ pc[w] \in {"sweep", "log"} /\ pc'[w] = "idle" /\ stale'[w] = {}
        /\ UNCHANGED <<job, recipient, campaign>>
    BY <1>3 DEF ClaimNothing, WriteUnitLog, Return, queue, DeliveryInv, TypeOK
  <2>2. QED BY <2>1, PlaceCounts DEF InExchange
<1>4. ~MarkUncertain(w) BY DEF MarkUncertain, CountsInv
<1>5. CASE ProcessOne(w)
  BY <1>1, <1>2, <1>3, <1>4, <1>5, ExchangeCounts, RefreshCounts DEF ProcessOne
<1>6. ~Crash(w) BY DEF Crash, DeliveryInv, TypeOK
<1>7. CASE Tick
  <2>1. /\ \A j \in Jobs : job'[j].status = job[j].status
        /\ UNCHANGED <<recipient, campaign, pc, claimed, refresh, stale>>
    BY <1>7 DEF Tick, locals
  <2>2. QED BY <2>1, PlaceCounts DEF CountsInv
<1>8. CASE UNCHANGED vars
  BY <1>8, PlaceCounts DEF vars, CountsInv
<1>9. QED BY <1>5, <1>6, <1>7, <1>8, RequestCounts DEF Next, Alone

\* What the screen counts is so, or is about to be.
LEMMA CountsHold ==
    ASSUME NEW w, Alone(w), CountsInv(w)
    PROVE  CampaignCounted /\ QueuedIsDispatchable
BY DEF Alone, CountsInv, RowCounted, Concerns, CampaignCounted

-----------------------------------------------------------------------------
(* The theorems.  Under a transport that reports a lost acknowledgement as *)
(* something else than a refusal before the message.                       *)

\* The inductive invariant holds of every behaviour.
THEOREM DeliveryInvariant == LostAckIsNotPreData => (Spec => []DeliveryInv)
<1> SUFFICES ASSUME LostAckIsNotPreData PROVE Spec => []DeliveryInv
  OBVIOUS
<1>1. Init => DeliveryInv BY DeliveryInit
<1>2. DeliveryInv /\ [Next]_vars => DeliveryInv' BY DeliveryStep
<1>3. QED BY <1>1, <1>2, PTL DEF Spec

\* No crash, stale sweep, transient rejection or explicit retry makes the queue
\* hand a message to the server again once the server has taken it
\* ("An interrupted SMTP exchange must never be blindly sent twice").
THEOREM AtMostOnce == LostAckIsNotPreData => (Spec => []AtMostOnceAccepted)
<1>1. DeliveryInv => AtMostOnceAccepted BY DEF DeliveryInv
<1>2. QED BY <1>1, DeliveryInvariant, PTL

\* What the timer or an explicit retry may send again was never delivered.
THEOREM ResendOnlyUndelivered == LostAckIsNotPreData => (Spec => []ResendableNotAccepted)
<1>1. DeliveryInv => ResendableNotAccepted
  BY DEF DeliveryInv, ResendableNotAccepted, UnsentNotAccepted
<1>2. QED BY <1>1, DeliveryInvariant, PTL

\* However many processes run, a job is in the exchange of one of them only.
THEOREM OneProcessPerJob == LostAckIsNotPreData => (Spec => []OneExchangePerJob)
<1>1. DeliveryInv => OneExchangePerJob BY DEF DeliveryInv
<1>2. QED BY <1>1, DeliveryInvariant, PTL

\* Recipient rows and job rows tell the same story, a row that can be sent keeps
\* its payload, attempts are bounded, and the log names delivered messages.
THEOREM RowsConsistent ==
    LostAckIsNotPreData =>
        (Spec => [](/\ RecipientMirrorsJob /\ ResendableKeepsPayload
                    /\ BoundedAttempts /\ LoggedWasAccepted))
<1>1. DeliveryInv => /\ RecipientMirrorsJob /\ ResendableKeepsPayload
                     /\ BoundedAttempts /\ LoggedWasAccepted
  BY DEF DeliveryInv
<1>2. QED BY <1>1, DeliveryInvariant, PTL

\* A delivery whose fate is unknown is changed only by the call that sent it:
\* no retry, claim or sweep touches an UNCERTAIN job.
THEOREM UncertainStays == LostAckIsNotPreData => (Spec => UncertainIsLeftAlone)
<1> SUFFICES ASSUME LostAckIsNotPreData PROVE Spec => UncertainIsLeftAlone
  OBVIOUS
<1> DEFINE A == \A j \in Jobs :
                  job[j].status = "UNCERTAIN" /\ job'[j].status # "UNCERTAIN"
                  => \E w \in Workers : claimed[w] = j /\ pc[w] \in InExchange
<1>1. DeliveryInv /\ [Next]_vars => A
  <2> SUFFICES ASSUME DeliveryInv, [Next]_vars, NEW j \in Jobs,
                      job[j].status = "UNCERTAIN", job'[j].status # "UNCERTAIN"
               PROVE  \E w \in Workers : claimed[w] = j /\ pc[w] \in InExchange
    OBVIOUS
  <2> USE DEF DeliveryInv
  <2>1. ASSUME NEW c \in Campaigns, Request(c) PROVE FALSE
    <3>1. CASE SendBulkEmail(c)
      BY <3>1 DEF SendBulkEmail, PreviewIsNew
    <3>2. CASE RetryFailedRecipients(c)
      BY <3>2 DEF RetryFailedRecipients
    <3>3. QED
      BY <2>1, <3>1, <3>2 DEF Request, PreviewRecipients, PauseCampaign, ResumeCampaign, queue
  <2>2. ASSUME NEW w \in Workers, ProcessOne(w)
        PROVE  \E v \in Workers : claimed[v] = j /\ pc[v] \in InExchange
    <3>1. CASE MarkUncertain(w)
      BY <3>1 DEF MarkUncertain, Settle, TypeOK
    <3>2. CASE Claim(w)
      BY <3>2 DEF Claim, Oldest, Eligible, Settle, TypeOK
    <3>3. CASE Finish(w) \/ PersistFailure(w) \/ PersistSent(w)
      BY <3>3 DEF Finish, PersistFailure, PersistSent, Settle, TypeOK, InExchange
    <3>4. CASE UNCHANGED job
      BY <3>4
    <3>5. QED
      BY <2>2, <3>1, <3>2, <3>3, <3>4
         DEF ProcessOne, FindStale, ClaimNothing, CheckSuppressed, SendMail, SuppressMailbox,
             CountRecipients, WriteCampaign, WriteUnitLog, queue
  <2>3. ASSUME NEW w \in Workers, Crash(w) PROVE FALSE
    BY <2>3 DEF Crash, queue
  <2>4. CASE Tick \/ UNCHANGED vars
    BY <2>4 DEF Tick, vars
  <2>5. QED BY <2>1, <2>2, <2>3, <2>4 DEF Next
<1>2. QED BY <1>1, DeliveryInvariant, PTL DEF UncertainIsLeftAlone, Spec

\* No step takes from the quota but a dispatch, or lets it expire but the clock.
LEMMA StepKeepsWindow == [Next]_vars => [WindowNext]_dispatch
<1> SUFFICES ASSUME [Next]_vars PROVE [WindowNext]_dispatch OBVIOUS
<1>1. ASSUME NEW c \in Campaigns, Request(c) PROVE UNCHANGED dispatch
  BY <1>1 DEF Request, PreviewRecipients, SendBulkEmail, PauseCampaign, ResumeCampaign,
     RetryFailedRecipients, queue
<1>2. ASSUME NEW w \in Workers, ProcessOne(w) PROVE UNCHANGED dispatch \/ Dispatch
  BY <1>2 DEF ProcessOne, FindStale, MarkUncertain, Claim, ClaimNothing, CheckSuppressed,
     Finish, SendMail, SuppressMailbox, PersistFailure, PersistSent, CountRecipients,
     WriteCampaign, WriteUnitLog, queue
<1>3. ASSUME NEW w \in Workers, Crash(w) PROVE UNCHANGED dispatch
  BY <1>3 DEF Crash, queue
<1>4. CASE Tick BY <1>4 DEF Tick, WindowNext
<1>5. CASE UNCHANGED vars BY <1>5 DEF vars
<1>6. QED BY <1>1, <1>2, <1>3, <1>4, <1>5 DEF Next, WindowNext

\* The quota row, whatever the processes do, behaves as DispatchWindow
\* specifies: the queue refines it.
THEOREM QuotaKept == Spec => KeepsWindow
<1>1. Init => WindowInit BY DEF Init
<1>2. [Next]_vars => [WindowNext]_dispatch BY StepKeepsWindow
<1>3. QED BY <1>1, <1>2, PTL DEF Spec, KeepsWindow, WindowSpec

-----------------------------------------------------------------------------
(* How much the quota lets through in an hour.                             *)

\* The row over any n steps of it: d[i] after i of them, when sent[i] claims and elapsed[i]
\* ticks have been seen.  It may have been in any state when the first was.
Observed(d, sent, elapsed, n) ==
    /\ d \in [0..n -> DispatchState] /\ sent \in [0..n -> Nat] /\ elapsed \in [0..n -> Nat]
    /\ sent[0] = 0 /\ elapsed[0] = 0
    /\ \A i \in 0..(n - 1) :
         \/ /\ MayDispatch(d[i]) /\ d[i + 1] = Dispatched(d[i])
            /\ sent[i + 1] = sent[i] + 1 /\ elapsed[i + 1] = elapsed[i]
         \/ /\ d[i + 1] = Aged(d[i])
            /\ sent[i + 1] = sent[i] /\ elapsed[i + 1] = elapsed[i] + 1
         \/ /\ d[i + 1] = d[i]
            /\ sent[i + 1] = sent[i] /\ elapsed[i + 1] = elapsed[i]

\* Within an hour a window is restarted once at most: what has been sent since is counted, and
\* before it no more than one full window.  Claims are an interval apart.
Accounted(r, s, t) ==
    /\ t < Hour => s <= r.count \/ (s <= Hourly + r.count /\ r.hourAge <= t)
    /\ t < Day => s <= r.dayCount \/ (s <= Daily + r.dayCount /\ r.dayAge <= t)
    /\ s * Interval <= t + r.wait

LEMMA AccountKept ==
    ASSUME NEW r \in DispatchState, NEW s \in Nat, NEW t \in Nat, Accounted(r, s, t)
    PROVE  /\ MayDispatch(r) => Accounted(Dispatched(r), s + 1, t)
           /\ Accounted(Aged(r), s, t + 1)
<1>1. /\ Hourly \in Nat \ {0} /\ Daily \in Nat \ {0} /\ Interval \in Nat \ {0}
      /\ Hour \in Nat \ {0} /\ Day \in Nat \ {0}
  BY QuotaParameters DEF QuotaAssumption
<1>2. /\ r.wait \in 0..Interval /\ r.hourAge \in 0..Hour /\ r.count \in 0..Hourly
      /\ r.dayAge \in 0..Day /\ r.dayCount \in 0..Daily
  BY DEF DispatchState
<1>3. ASSUME MayDispatch(r)
      PROVE  Accounted(Dispatched(r), s + 1, t)
  <2> DEFINE p == Dispatched(r)
  <2>1. /\ p.wait = Interval /\ p.count = CountNow(r) + 1 /\ p.dayCount = DayCountNow(r) + 1
        /\ p.hourAge = (IF hourReset(r) THEN 0 ELSE r.hourAge)
        /\ p.dayAge = (IF dayReset(r) THEN 0 ELSE r.dayAge)
    BY DEF Dispatched
  <2> HIDE DEF p
  <2>2. t < Hour => s + 1 <= p.count \/ (s + 1 <= Hourly + p.count /\ p.hourAge <= t)
    BY <1>1, <1>2, <2>1 DEF Accounted, CountNow, hourReset
  <2>3. t < Day => s + 1 <= p.dayCount \/ (s + 1 <= Daily + p.dayCount /\ p.dayAge <= t)
    BY <1>1, <1>2, <2>1 DEF Accounted, DayCountNow, dayReset
  <2>4. (s + 1) * Interval <= t + p.wait
    <3> DEFINE x == s * Interval
    <3>1. (s + 1) * Interval = x + Interval /\ x \in Nat
      BY <1>1
    <3>2. x <= t + r.wait /\ r.wait = 0
      BY <1>3 DEF Accounted, MayDispatch
    <3> HIDE DEF x
    <3> QED
      BY <1>1, <2>1, <3>1, <3>2
  <2> QED
    BY <2>2, <2>3, <2>4 DEF Accounted, p
<1>4. Accounted(Aged(r), s, t + 1)
  <2> DEFINE p == Aged(r)
  <2>1. /\ p.wait = (IF r.wait = 0 THEN 0 ELSE r.wait - 1)
        /\ p.count = r.count /\ p.dayCount = r.dayCount
        /\ p.hourAge = (IF r.hourAge = Hour THEN Hour ELSE r.hourAge + 1)
        /\ p.dayAge = (IF r.dayAge = Day THEN Day ELSE r.dayAge + 1)
    BY DEF Aged
  <2> HIDE DEF p
  <2>2. t + 1 < Hour => s <= p.count \/ (s <= Hourly + p.count /\ p.hourAge <= t + 1)
    BY <1>1, <1>2, <2>1 DEF Accounted
  <2>3. t + 1 < Day => s <= p.dayCount \/ (s <= Daily + p.dayCount /\ p.dayAge <= t + 1)
    BY <1>1, <1>2, <2>1 DEF Accounted
  <2>4. s * Interval <= t + 1 + p.wait
    <3> DEFINE x == s * Interval
    <3> SUFFICES x <= t + 1 + p.wait
      OBVIOUS
    <3>1. x \in Nat
      BY <1>1
    <3>2. x <= t + r.wait
      BY DEF Accounted
    <3> HIDE DEF x
    <3> QED
      BY <1>1, <1>2, <2>1, <3>1, <3>2
  <2> QED
    BY <2>2, <2>3, <2>4 DEF Accounted, p
<1> QED
  BY <1>3, <1>4

\* In any hour no more than two full windows go out, in any day no more than two full days'
\* worth, and claims are an interval apart, however the processes share the row
\* (bulk-email-queue.service.ts, processOne; docs/bulk-email-delivery.md: 100 an hour, at
\* least 36 seconds between messages).
THEOREM HourIsBounded ==
    ASSUME NEW n \in Nat, NEW d, NEW sent, NEW elapsed, Observed(d, sent, elapsed, n)
    PROVE  /\ elapsed[n] < Hour => sent[n] <= 2 * Hourly
           /\ elapsed[n] < Day => sent[n] <= 2 * Daily
           /\ (sent[n] - 1) * Interval <= elapsed[n]
<1>0. /\ Hourly \in Nat /\ Daily \in Nat /\ Interval \in Nat
  BY QuotaParameters DEF QuotaAssumption
<1> DEFINE Bad == {i \in 0..n : ~Accounted(d[i], sent[i], elapsed[i])}
<1>1. \A i \in 0..n : d[i] \in DispatchState /\ sent[i] \in Nat /\ elapsed[i] \in Nat
  BY DEF Observed
<1>2. 0 \notin Bad
  <2>1. Accounted(d[0], 0, 0)
    <3>1. d[0].count \in Nat /\ d[0].dayCount \in Nat /\ d[0].wait \in Nat
      BY <1>0, <1>1 DEF DispatchState
    <3> QED
      BY <1>0, <3>1 DEF Accounted
  <2> QED
    BY <2>1 DEF Observed
<1>3. ASSUME NEW i \in 0..(n - 1), i \notin Bad PROVE i + 1 \notin Bad
  <2>1. Accounted(d[i], sent[i], elapsed[i])
    BY <1>3
  <2>2. d[i] \in DispatchState /\ sent[i] \in Nat /\ elapsed[i] \in Nat
    BY <1>1
  <2>3. /\ MayDispatch(d[i]) => Accounted(Dispatched(d[i]), sent[i] + 1, elapsed[i])
        /\ Accounted(Aged(d[i]), sent[i], elapsed[i] + 1)
    BY <2>1, <2>2, AccountKept
  <2> QED
    BY <2>1, <2>3 DEF Observed
<1>4. Bad = {}
  <2> SUFFICES ASSUME Bad # {} PROVE FALSE
    OBVIOUS
  <2>1. Bad \subseteq Nat
    OBVIOUS
  <2>2. Bad \subseteq 0..n
    OBVIOUS
  <2> HIDE DEF Bad
  <2>3. PICK m \in Bad : \A i \in Bad : <<i, m>> \notin OpToRel(<, Nat)
    BY <2>1, NatLessThanWellFounded, WFMin
  <2>4. m # 0 /\ m - 1 \in 0..(n - 1)
    BY <1>2, <2>2
  <2>5. m - 1 \notin Bad
    <3>1. <<m - 1, m>> \in Nat \X Nat /\ m - 1 < m
      BY <2>2, <2>4
    <3>2. <<m - 1, m>> \in OpToRel(<, Nat)
      BY <3>1 DEF OpToRel
    <3> QED
      BY <2>3, <3>2
  <2>6. m - 1 + 1 = m
    BY <2>2
  <2> QED
    BY <1>3, <2>4, <2>5, <2>6
<1>5. Accounted(d[n], sent[n], elapsed[n])
  BY <1>4
<1> HIDE DEF Bad
<1>6. /\ d[n].count \in 0..Hourly /\ d[n].dayCount \in 0..Daily /\ d[n].wait \in 0..Interval
      /\ sent[n] \in Nat /\ elapsed[n] \in Nat
  BY <1>1 DEF DispatchState
<1>7. (sent[n] - 1) * Interval = sent[n] * Interval - Interval
  BY <1>0, <1>6
<1>8. sent[n] * Interval \in Nat
  BY <1>0, <1>6
<1> QED
  BY <1>0, <1>5, <1>6, <1>7, <1>8 DEF Accounted
=============================================================================

---------------------------- MODULE PaymentSource ----------------------------
(***************************************************************************)
(* PaymentTrackingSourceService: the one snapshot of the finance source    *)
(* that every payment screen of a process shares, the read that replaces   *)
(* it, and the timer that starts a read when nobody asks.                  *)
(*                                                                         *)
(* The service runs on one event loop: a step is the code between two      *)
(* awaits.  A read asks three questions of the source at once (financial   *)
(* rows, authorization codes, audit) and is over when all are answered.    *)
(* Reads are numbered (Reads) because nothing but the field "loading"      *)
(* keeps two of them from running side by side.                            *)
(*                                                                         *)
(* "source" stands for what the source holds: the active import batch, or  *)
(* the state of the Logo views when they are read directly.  Instants are  *)
(* relative: ages grow up to the bound at which they stop mattering.       *)
(***************************************************************************)
EXTENDS Naturals, FiniteSets

CONSTANTS Readers,   \* requests that call snapshot()
          Reads, NoRead, NoSnapshot,
          Ttl,       \* SOURCE_TTL_MS
          MaxAge,    \* SOURCE_MAX_AGE_MS
          Backoff,   \* SOURCE_RETRY_BACKOFF_MS
          Active,    \* SOURCE_ACTIVE_WINDOW_MS
          Idle,      \* SOURCE_IDLE_REFRESH_MS
          MaxChanges \* bound on the changes of the source

ASSUME SourceAssumption ==
    /\ NoRead \notin Reads
    /\ IsFiniteSet(Reads)
    /\ Ttl \in Nat \ {0}
    /\ MaxAge \in Nat \ {0}
    /\ Backoff \in Nat \ {0}
    /\ Active \in Nat \ {0}
    /\ Idle \in Nat /\ Ttl <= Idle
    /\ MaxChanges \in Nat

VARIABLES
    source,        \* what the source holds
    cached, loading, refreshFailed, destroyed,
    retryWait,     \* what remains until retryAt, 0 when it is past
    started,       \* backgroundStarted
    timer,         \* what remains of backgroundTimer, NoTimer when it is null
    userAge,       \* how long ago lastUserReadAt was, up to Active
    finishedAge,   \* how long ago lastRefreshFinishedAt was, NotYet for null
    reads,         \* the reads under way
    waiting,       \* the read each request awaits
    answer         \* what the last step handed to requests

vars == <<source, cached, loading, refreshFailed, destroyed, retryWait, started, timer,
          userAge, finishedAge, reads, waiting, answer>>

\* Math.max.
Later(m, n) == IF m >= n THEN m ELSE n

Changes == 0..MaxChanges
NoTimer == Idle + Backoff + 2
NotYet  == Idle + 1
NoCodes == MaxChanges + 1

\* A snapshot: what the source held when its rows, its codes and its audit were
\* read, how old its rows are, whether it was built today, and whether an
\* integrity failure has been observed since its read began.
Snapshots == [rows: Changes, codes: Changes \cup {NoCodes}, audited: Changes,
              age: 0..MaxAge, today: BOOLEAN, doubted: BOOLEAN]

\* One readSnapshot(): the state of its three questions.
ReadState == [finance: {"none", "asked", "rows", "unavailable", "failed"},
              authorization: {"none", "asked", "available", "unavailable"},
              audit: {"none", "asked", "passed", "invalid", "unavailable"},
              rows: Changes, codes: Changes, audited: Changes,
              age: 0..MaxAge, retried: BOOLEAN, doubted: BOOLEAN]

FreeRead  == [finance |-> "none", authorization |-> "none", audit |-> "none",
              rows |-> 0, codes |-> 0, audited |-> 0, age |-> 0,
              retried |-> FALSE, doubted |-> FALSE]
AskedRead == [finance |-> "asked", authorization |-> "asked", audit |-> "asked",
              rows |-> 0, codes |-> 0, audited |-> 0, age |-> 0,
              retried |-> FALSE, doubted |-> FALSE]

NoAnswer == [by |-> "none", label |-> "none", given |-> NoSnapshot]
Cached(label) == [by |-> "cache", label |-> label, given |-> cached]

TypeOK ==
    /\ source \in Changes
    /\ cached \in Snapshots \cup {NoSnapshot}
    /\ loading \in Reads \cup {NoRead}
    /\ refreshFailed \in BOOLEAN
    /\ destroyed \in BOOLEAN
    /\ started \in BOOLEAN
    /\ retryWait \in 0..Backoff
    /\ timer \in 0..Later(Idle, Backoff) \cup {NoTimer}
    /\ userAge \in 0..Active
    /\ finishedAge \in 0..NotYet
    /\ reads \in [Reads -> ReadState]
    /\ waiting \in [Readers -> Reads \cup {NoRead}]
    /\ answer \in [by: {"none", "cache", "read", "error"},
                   label: {"none", "fresh", "refreshing", "stale"},
                   given: Snapshots \cup {NoSnapshot}]

Init ==
    /\ source = 0
    /\ cached = NoSnapshot
    /\ loading = NoRead
    /\ refreshFailed = FALSE
    /\ destroyed = FALSE
    /\ started = FALSE
    /\ retryWait = 0
    /\ timer = NoTimer
    /\ userAge = Active
    /\ finishedAge = NotYet
    /\ reads = [s \in Reads |-> FreeRead]
    /\ waiting = [r \in Readers |-> NoRead]
    /\ answer = NoAnswer

-----------------------------------------------------------------------------
(* The background timer.                                                   *)

\* Faulty variant: the millisecond a timer needs at least is part of the due time.
DueSoon(user, finished, retry) ==
    LET period == IF user < Active THEN Ttl ELSE Idle
    IN Later(IF finished >= period THEN 1 ELSE period - finished, retry)

\* nextBackgroundReadAt, as the time that remains.
Due(user, finished, retry) ==
    LET period == IF user < Active THEN Ttl ELSE Idle
    IN Later(IF finished >= period THEN 0 ELSE period - finished, retry)

\* What scheduleBackgroundRefresh leaves in the timer.
Scheduled(running, user, finished, retry) ==
    IF ~started \/ destroyed \/ running \/ finished = NotYet THEN NoTimer
    ELSE Later(1, Due(user, finished, retry))

\* refresh(): join the read under way, or begin one and stop the timer.
Refresh(s, left) ==
    \/ /\ loading = s
       /\ timer' = left
       /\ UNCHANGED <<reads, loading>>
    \/ /\ loading = NoRead
       /\ reads[s] = FreeRead
       /\ reads' = [reads EXCEPT ![s] = AskedRead]
       /\ loading' = s
       /\ timer' = NoTimer

onApplicationBootstrap ==
    /\ ~started /\ ~destroyed
    /\ started' = TRUE
    /\ \E s \in Reads : Refresh(s, timer)
    /\ answer' = NoAnswer
    /\ UNCHANGED <<source, cached, refreshFailed, destroyed, retryWait, userAge,
                   finishedAge, waiting>>

onModuleDestroy ==
    /\ ~destroyed
    /\ destroyed' = TRUE
    /\ timer' = NoTimer
    /\ answer' = NoAnswer
    /\ UNCHANGED <<source, cached, loading, refreshFailed, retryWait, started, userAge,
                   finishedAge, reads, waiting>>

\* The timer's callback: the process may have fallen idle since it was set.
TimerFires ==
    /\ timer = 0
    /\ ~destroyed
    /\ IF Due(userAge, finishedAge, retryWait) > 0
       THEN /\ timer' = Scheduled(loading # NoRead, userAge, finishedAge, retryWait)
            /\ UNCHANGED <<reads, loading>>
       ELSE \E s \in Reads : Refresh(s, NoTimer)
    /\ answer' = NoAnswer
    /\ UNCHANGED <<source, cached, refreshFailed, destroyed, retryWait, started, userAge,
                   finishedAge, waiting>>

-----------------------------------------------------------------------------
(* snapshot(forceFresh), called by request r.                              *)

\* Faulty variant: the aging of yesterday's snapshot is good enough.
UsableAnyDay(force) ==
    ~force /\ cached # NoSnapshot /\ cached.age < MaxAge

Usable(force) ==
    ~force /\ cached # NoSnapshot /\ cached.today /\ cached.age < MaxAge

\* What snapshot() does first: it counts as activity and shortens the timer.
Rescheduled == Scheduled(loading # NoRead, 0, finishedAge, retryWait)

BackingOff == refreshFailed /\ retryWait > 0

Serve(label) ==
    /\ timer' = Rescheduled
    /\ answer' = Cached(label)
    /\ UNCHANGED <<reads, loading, waiting>>

ServeAndRefresh ==
    /\ \E s \in Reads : Refresh(s, Rescheduled)
    /\ answer' = Cached("refreshing")
    /\ UNCHANGED waiting

Await(r) ==
    /\ \E s \in Reads : Refresh(s, Rescheduled) /\ waiting' = [waiting EXCEPT ![r] = s]
    /\ answer' = NoAnswer

snapshot(r) ==
    /\ waiting[r] = NoRead
    /\ userAge' = 0
    /\ \E force \in BOOLEAN :
         \/ ~Usable(force) /\ Await(r)
         \/ Usable(force) /\ loading # NoRead /\ Serve("refreshing")
         \/ /\ Usable(force) /\ loading = NoRead
            /\ IF BackingOff THEN Serve("stale")
               ELSE IF ~refreshFailed /\ cached.age < Ttl THEN Serve("fresh")
               ELSE ServeAndRefresh
    /\ UNCHANGED <<source, cached, refreshFailed, destroyed, retryWait, started, finishedAge>>

-----------------------------------------------------------------------------
(* readSnapshot(), and what becomes of its result.                         *)

Answered(s, row) ==
    /\ reads' = [reads EXCEPT ![s] = row]
    /\ answer' = NoAnswer
    /\ UNCHANGED <<source, cached, loading, refreshFailed, destroyed, retryWait, started,
                   timer, userAge, finishedAge, waiting>>

\* readFinancialRows: the rows, a lost connection, or rows that are refused (the
\* schema has changed, there are too many, a value is malformed).
readFinancialRows(s) ==
    /\ reads[s].finance = "asked"
    /\ \/ Answered(s, [[[reads[s] EXCEPT !.finance = "rows"] EXCEPT !.rows = source]
                                  EXCEPT !.age = 0])
       \/ \E f \in {"unavailable", "failed"} : Answered(s, [reads[s] EXCEPT !.finance = f])

\* readAuthorization never throws: without an answer the codes are unavailable.
readAuthorization(s) ==
    /\ reads[s].authorization = "asked"
    /\ \/ Answered(s, [[reads[s] EXCEPT !.authorization = "available"] EXCEPT !.codes = source])
       \/ Answered(s, [reads[s] EXCEPT !.authorization = "unavailable"])

\* readPaymentSourceAudit: a check that fails is not one that cannot be made.
readPaymentSourceAudit(s) ==
    /\ reads[s].audit = "asked"
    /\ \/ Answered(s, [[reads[s] EXCEPT !.audit = "passed"] EXCEPT !.audited = source])
       \/ \E a \in {"invalid", "unavailable"} : Answered(s, [reads[s] EXCEPT !.audit = a])

AllSettled(s) ==
    reads[s].finance # "none" /\ "asked" \notin {reads[s].finance, reads[s].authorization,
                                                 reads[s].audit}

\* Faulty variant: the financial rows are asked for until they come.
MayRetryForever(s) ==
    /\ AllSettled(s)
    /\ reads[s].audit = "passed"
    /\ reads[s].finance = "unavailable"
    /\ reads[s].authorization = "unavailable"
    /\ ~destroyed

\* A failing optional question may have reset the pool under the financial one.
MayRetry(s) ==
    /\ AllSettled(s)
    /\ reads[s].audit = "passed"
    /\ reads[s].finance = "unavailable"
    /\ reads[s].authorization = "unavailable"
    /\ ~destroyed
    /\ ~reads[s].retried

RetryFinance(s) ==
    /\ MayRetry(s)
    /\ Answered(s, [[reads[s] EXCEPT !.finance = "asked"] EXCEPT !.retried = TRUE])

\* The finally of refresh().
Finally(s) ==
    IF loading = s
    THEN /\ loading' = NoRead
         /\ finishedAge' = 0
         /\ timer' = Scheduled(FALSE, userAge, 0, retryWait')
    ELSE UNCHANGED <<loading, finishedAge, timer>>

Awaiting(s) == {r \in Readers : waiting[r] = s}

\* The promise of read s settles: every request that awaits it gets the result.
Deliver(s, result) ==
    /\ waiting' = [r \in Readers |-> IF waiting[r] = s THEN NoRead ELSE waiting[r]]
    /\ answer' = IF Awaiting(s) = {} THEN NoAnswer ELSE result
    /\ UNCHANGED <<source, destroyed, started, userAge>>

Succeed(s) ==
    /\ AllSettled(s)
    /\ reads[s].audit = "passed"
    /\ reads[s].finance = "rows"
    /\ cached' = [rows |-> reads[s].rows,
                  codes |-> IF reads[s].authorization = "available"
                            THEN reads[s].codes ELSE NoCodes,
                  audited |-> reads[s].audited, age |-> reads[s].age,
                  today |-> TRUE, doubted |-> reads[s].doubted]
    /\ retryWait' = 0
    /\ refreshFailed' = FALSE
    /\ reads' = [reads EXCEPT ![s] = FreeRead]
    /\ Finally(s)
    /\ Deliver(s, [by |-> "read", label |-> "fresh", given |-> cached'])

\* Faulty variant: a snapshot outlives an integrity failure, as it does a lost
\* connection.
KeptAfterAnything(invalid) ==
    IF cached = NoSnapshot THEN NoSnapshot
    ELSE [cached EXCEPT !.doubted = @ \/ invalid]

\* What stays in the cache after a failed read.
KeptAfter(invalid) == IF invalid THEN NoSnapshot ELSE cached

\* The read fails: its audit was invalid (or counted fewer rows than were read),
\* or something could not be read.
Fail(s) ==
    /\ AllSettled(s)
    /\ ~MayRetry(s)
    /\ \E invalid \in BOOLEAN :
         /\ invalid => reads[s].audit = "invalid"
                       \/ (reads[s].audit = "passed" /\ reads[s].finance = "rows")
         /\ ~invalid => reads[s].audit = "unavailable"
                        \/ (reads[s].audit = "passed" /\ reads[s].finance # "rows")
         /\ cached' = KeptAfter(invalid)
         /\ reads' = [t \in Reads |->
                        IF t = s \/ reads[t] = FreeRead THEN FreeRead
                        ELSE [reads[t] EXCEPT !.doubted = @ \/ invalid]]
    /\ retryWait' = Backoff
    /\ refreshFailed' = TRUE
    /\ Finally(s)
    /\ Deliver(s, [by |-> "error", label |-> "none", given |-> NoSnapshot])

-----------------------------------------------------------------------------
(* The world: the source changes, a day ends, time passes.                 *)

\* Another batch is activated, or Logo is written to.
SourceChanges ==
    /\ source < MaxChanges
    /\ source' = source + 1
    /\ answer' = NoAnswer
    /\ UNCHANGED <<cached, loading, refreshFailed, destroyed, retryWait, started, timer,
                   userAge, finishedAge, reads, waiting>>

Midnight ==
    /\ cached # NoSnapshot
    /\ cached' = [cached EXCEPT !.today = FALSE]
    /\ answer' = NoAnswer
    /\ UNCHANGED <<source, loading, refreshFailed, destroyed, retryWait, started, timer,
                   userAge, finishedAge, reads, waiting>>

Up(n, bound) == IF n >= bound THEN n ELSE n + 1
Down(n)      == IF n = 0 THEN 0 ELSE n - 1

Tick ==
    /\ cached' = IF cached = NoSnapshot THEN cached
                 ELSE [cached EXCEPT !.age = Up(@, MaxAge)]
    /\ reads' = [s \in Reads |->
                   IF reads[s].finance = "rows" THEN [reads[s] EXCEPT !.age = Up(@, MaxAge)]
                   ELSE reads[s]]
    /\ retryWait' = Down(retryWait)
    /\ timer' = IF timer = NoTimer THEN NoTimer ELSE Down(timer)
    /\ userAge' = Up(userAge, Active)
    /\ finishedAge' = IF finishedAge = NotYet THEN NotYet ELSE Up(finishedAge, Idle)
    /\ answer' = NoAnswer
    /\ UNCHANGED <<source, loading, refreshFailed, destroyed, started, waiting>>

-----------------------------------------------------------------------------
ReadStep(s) ==
    \/ readFinancialRows(s) \/ readAuthorization(s) \/ readPaymentSourceAudit(s)
    \/ RetryFinance(s) \/ Succeed(s) \/ Fail(s)

Next ==
    \/ onApplicationBootstrap \/ onModuleDestroy \/ TimerFires
    \/ \E r \in Readers : snapshot(r)
    \/ \E s \in Reads : ReadStep(s)
    \/ SourceChanges \/ Midnight \/ Tick

Spec == Init /\ [][Next]_vars

\* The driver answers or times out, a due timer fires, time passes.
FairSpec == Spec /\ (\A s \in Reads : WF_vars(ReadStep(s))) /\ WF_vars(TimerFires) /\ WF_vars(Tick)

-----------------------------------------------------------------------------
(* Properties.                                                             *)

\* All readers and the timer share one read, and "loading" names it.
OneRead == {s \in Reads : reads[s] # FreeRead} = IF loading = NoRead THEN {} ELSE {loading}

\* A cached answer is younger than the age limit and of the current day, also
\* during a refresh, in a backoff, and after failed reads.
CachedAnswerIsCurrent ==
    answer.by = "cache" => answer.given.today /\ answer.given.age < MaxAge

\* "An observed data-integrity failure must not reappear as a stale financial
\* snapshot": no answer was read before the last integrity failure.
NoDoubtedAnswer == answer.by \in {"cache", "read"} => ~answer.given.doubted

\* The background never stops by itself: until shutdown a read runs or the timer
\* is set.
BackgroundGoesOn == started /\ ~destroyed => loading # NoRead \/ timer # NoTimer

\* After shutdown the timer stays off, even when a late read completes.
BackgroundStops == destroyed => timer = NoTimer

\* Nobody waits for ever: each failure of the source ends the read it hits.
EveryoneIsAnswered == \A r \in Readers : waiting[r] # NoRead ~> waiting[r] = NoRead

\* With nobody asking, and also when everybody asks all the time, the snapshot is
\* read again and again until shutdown.
ReadAgain == started /\ loading = NoRead ~> loading # NoRead \/ destroyed

\* docs/payment-tracking.md: "eski kodlar yeni finans verisine tasinmaz": codes of
\* an earlier state of the source are not attached to later financial rows.
CodesMatchRows == cached # NoSnapshot => cached.codes >= cached.rows

-----------------------------------------------------------------------------
(* The inductive invariant behind the safety properties.                   *)

\* No integrity failure is newer than what is cached or being read.
NothingDoubted ==
    /\ cached # NoSnapshot => ~cached.doubted
    /\ \A s \in Reads : ~reads[s].doubted

\* A read stops the timer; the first read of a started service has left its mark.
TimerBetweenReads ==
    /\ timer # NoTimer => loading = NoRead
    /\ started /\ loading = NoRead => finishedAge # NotYet

SourceInv ==
    /\ TypeOK
    /\ OneRead
    /\ NothingDoubted
    /\ TimerBetweenReads
    /\ BackgroundGoesOn
    /\ BackgroundStops
    /\ CachedAnswerIsCurrent
    /\ NoDoubtedAnswer
=============================================================================

------------------------- MODULE PaymentSource_proofs -------------------------
(* Theorems about PaymentSource: one read at a time, no answer that is too old *)
(* or doubted, and a background timer that neither stops nor outlives the      *)
(* service, for any periods, requests and changes of the source.               *)
EXTENDS PaymentSource, TLAPS

\* What scheduleBackgroundRefresh computes: a time within the longest period, or
\* no timer exactly when there is nothing to schedule.
LEMMA ScheduledTyped ==
    ASSUME TypeOK, NEW running \in BOOLEAN, NEW user \in 0..Active,
           NEW finished \in 0..NotYet, NEW retry \in 0..Backoff
    PROVE  /\ Scheduled(running, user, finished, retry)
                 \in 0..Later(Idle, Backoff) \cup {NoTimer}
           /\ Scheduled(running, user, finished, retry) # NoTimer
                 <=> (started /\ ~destroyed /\ ~running /\ finished # NotYet)
<1> DEFINE period == IF user < Active THEN Ttl ELSE Idle
           rest == IF finished >= period THEN 0 ELSE period - finished
           due == Later(rest, retry)
<1>1. rest \in 0..Idle
  BY SourceAssumption DEF NotYet
<1>2. due \in 0..Later(Idle, Backoff) /\ due = Due(user, finished, retry)
  BY <1>1, SourceAssumption DEF Later, Due
<1>3. Later(1, due) \in 0..Later(Idle, Backoff)
  BY <1>2, SourceAssumption DEF Later
<1>4. Later(Idle, Backoff) < NoTimer /\ Later(Idle, Backoff) \in Nat
  BY SourceAssumption DEF Later, NoTimer
<1> HIDE DEF due
<1>5. QED BY <1>2, <1>3, <1>4 DEF Scheduled

\* refresh() leaves one read, named by loading, and no timer beside it.
LEMMA RefreshKeeps ==
    ASSUME SourceInv, NEW s \in Reads, NEW left, Refresh(s, left),
           left # NoTimer => loading = NoRead
    PROVE  /\ reads' \in [Reads -> ReadState]
           /\ loading' = s
           /\ {t \in Reads : reads'[t] # FreeRead} = {s}
           /\ \A t \in Reads : ~reads'[t].doubted
           /\ timer' = NoTimer
<1> USE DEF SourceInv
<1>1. CASE loading = s /\ timer' = left /\ UNCHANGED <<reads, loading>>
  BY <1>1, SourceAssumption DEF TypeOK, OneRead, NothingDoubted
<1>2. CASE /\ loading = NoRead /\ reads[s] = FreeRead /\ loading' = s /\ timer' = NoTimer
           /\ reads' = [reads EXCEPT ![s] = AskedRead]
  <2>1. AskedRead \in ReadState /\ AskedRead # FreeRead /\ ~AskedRead.doubted
    BY SourceAssumption DEF AskedRead, FreeRead, ReadState, Changes
  <2>2. \A t \in Reads : reads[t] = FreeRead BY <1>2 DEF OneRead
  <2>3. QED BY <1>2, <2>1, <2>2 DEF TypeOK, NothingDoubted
<1>3. QED BY <1>1, <1>2 DEF Refresh

LEMMA SourceInit == Init => SourceInv
<1> SUFFICES ASSUME Init PROVE SourceInv OBVIOUS
<1>1. FreeRead \in ReadState /\ ~FreeRead.doubted
  BY SourceAssumption DEF FreeRead, ReadState, Changes
<1>2. TypeOK
  <2>1. /\ 0 \in Changes /\ Active \in 0..Active /\ NotYet \in 0..NotYet /\ 0 \in 0..Backoff
    BY SourceAssumption DEF Changes, NotYet
  <2>2. answer \in [by: {"none", "cache", "read", "error"},
                     label: {"none", "fresh", "refreshing", "stale"},
                     given: Snapshots \cup {NoSnapshot}]
    BY DEF Init, NoAnswer
  <2>3. QED BY <1>1, <2>1, <2>2 DEF Init, TypeOK
<1>3. QED
  BY <1>1, <1>2, SourceAssumption
  DEF Init, SourceInv, OneRead, NothingDoubted, TimerBetweenReads, BackgroundGoesOn,
      BackgroundStops, CachedAnswerIsCurrent, NoDoubtedAnswer, NoAnswer, FreeRead

\* What a step leaves is in order if its parts are: the form the proofs below end with.
LEMMA Assembled ==
    ASSUME TypeOK', OneRead', NothingDoubted', TimerBetweenReads', BackgroundGoesOn',
           BackgroundStops', CachedAnswerIsCurrent', NoDoubtedAnswer'
    PROVE  SourceInv'
BY DEF SourceInv

LEMMA Typed ==
    ASSUME source' \in Changes, cached' \in Snapshots \cup {NoSnapshot},
           loading' \in Reads \cup {NoRead}, refreshFailed' \in BOOLEAN,
           destroyed' \in BOOLEAN, started' \in BOOLEAN, retryWait' \in 0..Backoff,
           timer' \in 0..Later(Idle, Backoff) \cup {NoTimer}, userAge' \in 0..Active,
           finishedAge' \in 0..NotYet, reads' \in [Reads -> ReadState],
           waiting' \in [Readers -> Reads \cup {NoRead}],
           answer' \in [by: {"none", "cache", "read", "error"},
                        label: {"none", "fresh", "refreshing", "stale"},
                        given: Snapshots \cup {NoSnapshot}]
    PROVE  TypeOK'
BY Zenon DEF TypeOK

\* The answers that are no snapshot.
LEMMA EmptyAnswer ==
    ASSUME answer' \in {NoAnswer, [by |-> "error", label |-> "none", given |-> NoSnapshot]}
    PROVE  /\ CachedAnswerIsCurrent' /\ NoDoubtedAnswer'
           /\ answer' \in [by: {"none", "cache", "read", "error"},
                           label: {"none", "fresh", "refreshing", "stale"},
                           given: Snapshots \cup {NoSnapshot}]
BY DEF NoAnswer, CachedAnswerIsCurrent, NoDoubtedAnswer

\* An answer of the cache is as good as the cache.
LEMMA CacheAnswer ==
    ASSUME SourceInv, NEW force \in BOOLEAN, Usable(force),
           NEW label \in {"fresh", "refreshing", "stale"}, answer' = Cached(label)
    PROVE  /\ CachedAnswerIsCurrent' /\ NoDoubtedAnswer'
           /\ answer' \in [by: {"none", "cache", "read", "error"},
                           label: {"none", "fresh", "refreshing", "stale"},
                           given: Snapshots \cup {NoSnapshot}]
BY DEF SourceInv, TypeOK, Usable, Cached, CachedAnswerIsCurrent, NoDoubtedAnswer, NothingDoubted

\* Startup and the timer's callback.
LEMMA BackgroundKeeps ==
    ASSUME SourceInv, onApplicationBootstrap \/ onModuleDestroy \/ TimerFires
    PROVE  SourceInv'
<1> USE DEF SourceInv
<1>1. CASE onApplicationBootstrap
  <2>1. PICK s \in Reads : Refresh(s, timer) BY <1>1 DEF onApplicationBootstrap
  <2>2. /\ reads' \in [Reads -> ReadState] /\ loading' = s
        /\ {t \in Reads : reads'[t] # FreeRead} = {s}
        /\ \A t \in Reads : ~reads'[t].doubted
        /\ timer' = NoTimer
    BY <2>1, RefreshKeeps DEF TimerBetweenReads
  <2>3. answer' = NoAnswer BY <1>1 DEF onApplicationBootstrap
  <2>4. TypeOK' BY <1>1, <2>2, <2>3, EmptyAnswer DEF onApplicationBootstrap, TypeOK
  <2>5. OneRead' /\ NothingDoubted' /\ TimerBetweenReads' /\ BackgroundGoesOn' /\ BackgroundStops'
    BY <1>1, <2>2, SourceAssumption
    DEF onApplicationBootstrap, OneRead, NothingDoubted, TimerBetweenReads, BackgroundGoesOn,
        BackgroundStops
  <2>6. QED BY <2>3, <2>4, <2>5, EmptyAnswer, Assembled
<1>2. CASE onModuleDestroy
  <2>1. answer' = NoAnswer BY <1>2 DEF onModuleDestroy
  <2>2. TypeOK' BY <1>2, <2>1, EmptyAnswer DEF onModuleDestroy, TypeOK
  <2>3. OneRead' /\ NothingDoubted' /\ TimerBetweenReads' /\ BackgroundGoesOn' /\ BackgroundStops'
    BY <1>2
    DEF onModuleDestroy, OneRead, NothingDoubted, TimerBetweenReads, BackgroundGoesOn,
        BackgroundStops
  <2>4. QED BY <2>1, <2>2, <2>3, EmptyAnswer, Assembled
<1>3. CASE TimerFires
  <2>1. answer' = NoAnswer BY <1>3 DEF TimerFires
  <2>2. CASE Due(userAge, finishedAge, retryWait) > 0
    <3> DEFINE next == Scheduled(loading # NoRead, userAge, finishedAge, retryWait)
    <3>1. timer' = next /\ UNCHANGED <<reads, loading>> BY <1>3, <2>2 DEF TimerFires
    <3>2. /\ next \in 0..Later(Idle, Backoff) \cup {NoTimer}
          /\ next # NoTimer <=> (started /\ ~destroyed /\ loading = NoRead /\ finishedAge # NotYet)
      BY ScheduledTyped DEF TypeOK
    <3> HIDE DEF next
    <3>3. TypeOK' BY <1>3, <2>1, <3>1, <3>2, EmptyAnswer DEF TimerFires, TypeOK
    <3>4. OneRead' /\ NothingDoubted' /\ TimerBetweenReads' /\ BackgroundGoesOn' /\ BackgroundStops'
      BY <1>3, <3>1, <3>2
      DEF TimerFires, OneRead, NothingDoubted, TimerBetweenReads, BackgroundGoesOn,
          BackgroundStops
    <3>5. QED BY <2>1, <3>3, <3>4, EmptyAnswer, Assembled
  <2>3. CASE ~(Due(userAge, finishedAge, retryWait) > 0)
    <3>1. PICK s \in Reads : Refresh(s, NoTimer) BY <1>3, <2>3 DEF TimerFires
    <3>2. /\ reads' \in [Reads -> ReadState] /\ loading' = s
          /\ {t \in Reads : reads'[t] # FreeRead} = {s}
          /\ \A t \in Reads : ~reads'[t].doubted
          /\ timer' = NoTimer
      BY <3>1, RefreshKeeps
    <3>3. TypeOK' BY <1>3, <2>1, <3>2, EmptyAnswer DEF TimerFires, TypeOK
    <3>4. OneRead' /\ NothingDoubted' /\ TimerBetweenReads' /\ BackgroundGoesOn' /\ BackgroundStops'
      BY <1>3, <3>2, SourceAssumption
      DEF TimerFires, OneRead, NothingDoubted, TimerBetweenReads, BackgroundGoesOn,
          BackgroundStops
    <3>5. QED BY <2>1, <3>3, <3>4, EmptyAnswer, Assembled
  <2>4. QED BY <2>2, <2>3
<1>4. QED BY <1>1, <1>2, <1>3

\* A request: served from the cache, served while a read begins, or made to wait.
LEMMA SnapshotKeeps ==
    ASSUME SourceInv, NEW r \in Readers, snapshot(r)
    PROVE  SourceInv'
<1> USE DEF SourceInv
<1>1. PICK force \in BOOLEAN :
        \/ ~Usable(force) /\ Await(r)
        \/ /\ Usable(force)
           /\ ServeAndRefresh \/ \E label \in {"fresh", "refreshing", "stale"} : Serve(label)
  BY DEF snapshot
<1>2. /\ waiting[r] = NoRead /\ userAge' = 0
      /\ UNCHANGED <<source, cached, refreshFailed, destroyed, retryWait, started, finishedAge>>
  BY DEF snapshot
<1>3. /\ Rescheduled \in 0..Later(Idle, Backoff) \cup {NoTimer}
      /\ Rescheduled # NoTimer <=> (started /\ ~destroyed /\ loading = NoRead /\ finishedAge # NotYet)
  <2>1. 0 \in 0..Active BY SourceAssumption
  <2>2. QED BY <2>1, ScheduledTyped DEF TypeOK, Rescheduled
<1>4. userAge' \in 0..Active BY <1>2, SourceAssumption
<1>5. ASSUME NEW s \in Reads, Refresh(s, Rescheduled)
      PROVE  /\ reads' \in [Reads -> ReadState] /\ loading' = s /\ timer' = NoTimer
             /\ OneRead' /\ NothingDoubted' /\ TimerBetweenReads' /\ BackgroundGoesOn'
             /\ BackgroundStops'
  <2>1. /\ reads' \in [Reads -> ReadState] /\ loading' = s
        /\ {t \in Reads : reads'[t] # FreeRead} = {s}
        /\ \A t \in Reads : ~reads'[t].doubted
        /\ timer' = NoTimer
    BY <1>3, <1>5, RefreshKeeps
  <2>2. QED
    BY <1>2, <2>1, SourceAssumption
    DEF OneRead, NothingDoubted, TimerBetweenReads, BackgroundGoesOn, BackgroundStops
<1>6. CASE ~Usable(force) /\ Await(r)
  <2>1. PICK s \in Reads : Refresh(s, Rescheduled) /\ waiting' = [waiting EXCEPT ![r] = s]
    BY <1>6 DEF Await
  <2>2. answer' = NoAnswer BY <1>6 DEF Await
  <2>3. TypeOK' BY <1>2, <1>4, <1>5, <2>1, <2>2, EmptyAnswer DEF TypeOK
  <2>4. QED BY <1>5, <2>1, <2>2, <2>3, EmptyAnswer, Assembled
<1>7. CASE Usable(force) /\ ServeAndRefresh
  <2>1. PICK s \in Reads : Refresh(s, Rescheduled) BY <1>7 DEF ServeAndRefresh
  <2>2. answer' = Cached("refreshing") /\ UNCHANGED waiting BY <1>7 DEF ServeAndRefresh
  <2>3. TypeOK' BY <1>2, <1>4, <1>5, <1>7, <2>1, <2>2, CacheAnswer DEF TypeOK
  <2>4. QED BY <1>5, <1>7, <2>1, <2>2, <2>3, CacheAnswer, Assembled
<1>8. ASSUME NEW label \in {"fresh", "refreshing", "stale"}, Usable(force), Serve(label)
      PROVE  SourceInv'
  <2>1. /\ timer' = Rescheduled /\ answer' = Cached(label)
        /\ UNCHANGED <<reads, loading, waiting>>
    BY <1>8 DEF Serve
  <2>2. TypeOK' BY <1>2, <1>3, <1>4, <1>8, <2>1, CacheAnswer DEF TypeOK
  <2>3. OneRead' /\ NothingDoubted' /\ TimerBetweenReads' /\ BackgroundGoesOn' /\ BackgroundStops'
    BY <1>2, <1>3, <2>1
    DEF OneRead, NothingDoubted, TimerBetweenReads, BackgroundGoesOn, BackgroundStops
  <2>4. QED BY <1>8, <2>1, <2>2, <2>3, CacheAnswer, Assembled
<1>9. QED BY <1>1, <1>6, <1>7, <1>8

\* The three questions of a read, and the second asking of the first.
LEMMA AnsweredKeeps ==
    ASSUME SourceInv, NEW s \in Reads, NEW row \in ReadState, Answered(s, row),
           reads[s] # FreeRead, row # FreeRead, ~row.doubted
    PROVE  SourceInv'
<1> USE DEF SourceInv
<1>1. /\ reads' = [reads EXCEPT ![s] = row] /\ answer' = NoAnswer
      /\ UNCHANGED <<source, cached, loading, refreshFailed, destroyed, retryWait, started,
                     timer, userAge, finishedAge, waiting>>
  BY DEF Answered
<1>2. TypeOK' BY <1>1, EmptyAnswer DEF TypeOK
<1>3. OneRead' BY <1>1 DEF OneRead, TypeOK
<1>4. NothingDoubted' /\ TimerBetweenReads' /\ BackgroundGoesOn' /\ BackgroundStops'
  BY <1>1 DEF NothingDoubted, TimerBetweenReads, BackgroundGoesOn, BackgroundStops, TypeOK
<1>5. QED BY <1>1, <1>2, <1>3, <1>4, EmptyAnswer, Assembled

LEMMA QuestionsKeep ==
    ASSUME SourceInv, NEW s \in Reads,
           readFinancialRows(s) \/ readAuthorization(s) \/ readPaymentSourceAudit(s)
           \/ RetryFinance(s)
    PROVE  SourceInv'
<1> USE DEF SourceInv
<1>1. reads[s] \in ReadState /\ source \in Changes /\ ~reads[s].doubted
  BY DEF TypeOK, NothingDoubted
<1>2. CASE readFinancialRows(s)
  <2>1. reads[s] # FreeRead BY <1>2 DEF readFinancialRows, FreeRead
  <2>2. PICK row : /\ Answered(s, row)
                   /\ \/ row = [[[reads[s] EXCEPT !.finance = "rows"] EXCEPT !.rows = source]
                                   EXCEPT !.age = 0]
                      \/ \E f \in {"unavailable", "failed"} : row = [reads[s] EXCEPT !.finance = f]
    BY <1>2 DEF readFinancialRows
  <2>3. row \in ReadState /\ row.finance # "none" /\ ~row.doubted
    <3>1. CASE \E f \in {"unavailable", "failed"} : row = [reads[s] EXCEPT !.finance = f]
      BY <1>1, <3>1 DEF ReadState
    <3>2. CASE row = [[[reads[s] EXCEPT !.finance = "rows"] EXCEPT !.rows = source]
                                   EXCEPT !.age = 0]
      <4> DEFINE found == [reads[s] EXCEPT !.finance = "rows"]
                 held == [found EXCEPT !.rows = source]
      <4>1. found \in ReadState /\ found.finance = "rows" /\ ~found.doubted
        BY <1>1 DEF ReadState
      <4> HIDE DEF found
      <4>2. held \in ReadState /\ held.finance = "rows" /\ ~held.doubted
        BY <1>1, <4>1 DEF ReadState
      <4> HIDE DEF held
      <4>3. row = [held EXCEPT !.age = 0] BY <3>2 DEF held, found
      <4>4. 0 \in 0..MaxAge BY SourceAssumption
      <4>5. QED BY <4>2, <4>3, <4>4 DEF ReadState
    <3>3. QED BY <2>2, <3>1, <3>2
  <2>4. row.finance # "none" /\ ~row.doubted BY <2>3
  <2>5. row # FreeRead BY <2>4 DEF FreeRead
  <2>6. QED BY <2>1, <2>2, <2>3, <2>4, <2>5, AnsweredKeeps
<1>3. CASE readAuthorization(s)
  <2>1. reads[s] # FreeRead BY <1>3 DEF readAuthorization, FreeRead
  <2>2. PICK row : /\ Answered(s, row)
                   /\ \/ row = [[reads[s] EXCEPT !.authorization = "available"] EXCEPT !.codes = source]
                      \/ row = [reads[s] EXCEPT !.authorization = "unavailable"]
    BY <1>3 DEF readAuthorization
  <2>3. row \in ReadState BY <1>1, <2>2 DEF ReadState
  <2>4. row.authorization # "none" /\ ~row.doubted BY <1>1, <2>2 DEF ReadState
  <2>5. row # FreeRead BY <2>4 DEF FreeRead
  <2>6. QED BY <2>1, <2>2, <2>3, <2>4, <2>5, AnsweredKeeps
<1>4. CASE readPaymentSourceAudit(s)
  <2>1. reads[s] # FreeRead BY <1>4 DEF readPaymentSourceAudit, FreeRead
  <2>2. PICK row : /\ Answered(s, row)
                   /\ \/ row = [[reads[s] EXCEPT !.audit = "passed"] EXCEPT !.audited = source]
                      \/ \E a \in {"invalid", "unavailable"} : row = [reads[s] EXCEPT !.audit = a]
    BY <1>4 DEF readPaymentSourceAudit
  <2>3. row \in ReadState BY <1>1, <2>2 DEF ReadState
  <2>4. row.audit # "none" /\ ~row.doubted BY <1>1, <2>2 DEF ReadState
  <2>5. row # FreeRead BY <2>4 DEF FreeRead
  <2>6. QED BY <2>1, <2>2, <2>3, <2>4, <2>5, AnsweredKeeps
<1>5. CASE RetryFinance(s)
  <2> DEFINE row == [[reads[s] EXCEPT !.finance = "asked"] EXCEPT !.retried = TRUE]
  <2>1. reads[s] # FreeRead /\ Answered(s, row)
    BY <1>5 DEF RetryFinance, MayRetry, FreeRead
  <2>2. row \in ReadState BY <1>1 DEF ReadState
  <2>3. row.finance # "none" /\ ~row.doubted BY <1>1 DEF ReadState
  <2>4. row # FreeRead BY <2>3 DEF FreeRead
  <2>5. QED BY <2>1, <2>2, <2>3, <2>4, AnsweredKeeps
<1>6. QED BY <1>2, <1>3, <1>4, <1>5

\* The end of a read: the timer is set again, the requests are answered.
LEMMA SettledKeeps ==
    ASSUME SourceInv, NEW s \in Reads, reads[s] # FreeRead, Finally(s),
           reads' = [t \in Reads |-> FreeRead],
           NEW result, Deliver(s, result), retryWait' \in 0..Backoff,
           refreshFailed' \in BOOLEAN, cached' \in Snapshots \cup {NoSnapshot},
           cached' # NoSnapshot => ~cached'.doubted,
           result \in [by: {"read", "error"}, label: {"none", "fresh"},
                       given: Snapshots \cup {NoSnapshot}],
           result.by = "read" => result.given = cached' /\ ~cached'.doubted
    PROVE  SourceInv'
<1> USE DEF SourceInv
<1>1. loading = s BY SourceAssumption DEF OneRead
<1>2. /\ loading' = NoRead /\ finishedAge' = 0
      /\ timer' = Scheduled(FALSE, userAge, 0, retryWait')
  BY <1>1 DEF Finally
<1>3. 0 \in 0..NotYet /\ 0 # NotYet BY SourceAssumption DEF NotYet
<1>4. /\ timer' \in 0..Later(Idle, Backoff) \cup {NoTimer}
      /\ timer' # NoTimer <=> (started /\ ~destroyed)
  <2>1. FALSE \in BOOLEAN /\ userAge \in 0..Active /\ 0 \in 0..NotYet /\ TypeOK
    BY <1>3 DEF TypeOK
  <2>2. /\ Scheduled(FALSE, userAge, 0, retryWait')
             \in 0..Later(Idle, Backoff) \cup {NoTimer}
        /\ Scheduled(FALSE, userAge, 0, retryWait') # NoTimer
             <=> (started /\ ~destroyed /\ ~FALSE /\ 0 # NotYet)
    BY ONLY <2>1, retryWait' \in 0..Backoff, ScheduledTyped
  <2>3. QED BY <1>2, <1>3, <2>2
<1>5. /\ waiting' = [r \in Readers |-> IF waiting[r] = s THEN NoRead ELSE waiting[r]]
      /\ answer' \in {NoAnswer, result}
      /\ UNCHANGED <<source, destroyed, started, userAge>>
  BY DEF Deliver
<1>6. /\ answer' \in [by: {"none", "cache", "read", "error"},
                       label: {"none", "fresh", "refreshing", "stale"},
                       given: Snapshots \cup {NoSnapshot}]
      /\ answer'.by # "cache"
      /\ answer'.by = "read" => ~answer'.given.doubted
  BY <1>5 DEF NoAnswer
<1>7. FreeRead \in ReadState /\ ~FreeRead.doubted
  BY SourceAssumption DEF FreeRead, ReadState, Changes
<1>8. TypeOK' BY <1>2, <1>3, <1>4, <1>5, <1>6, <1>7 DEF TypeOK
<1>9. OneRead' /\ NothingDoubted' BY <1>2, <1>7 DEF OneRead, NothingDoubted
<1>10. TimerBetweenReads' /\ BackgroundGoesOn' /\ BackgroundStops'
  BY <1>2, <1>3, <1>4, <1>5 DEF TimerBetweenReads, BackgroundGoesOn, BackgroundStops
<1>11. CachedAnswerIsCurrent' /\ NoDoubtedAnswer'
  BY <1>6 DEF CachedAnswerIsCurrent, NoDoubtedAnswer
<1>12. QED BY <1>8, <1>9, <1>10, <1>11, Assembled

LEMMA ResultKeeps ==
    ASSUME SourceInv, NEW s \in Reads, Succeed(s) \/ Fail(s)
    PROVE  SourceInv'
<1> USE DEF SourceInv
<1>1. reads[s] # FreeRead BY DEF Succeed, Fail, AllSettled, FreeRead
<1>2. \A t \in Reads \ {s} : reads[t] = FreeRead BY <1>1 DEF OneRead
<1>3. reads[s] \in ReadState /\ ~reads[s].doubted BY DEF TypeOK, NothingDoubted
<1>4. CASE Succeed(s)
  <2> DEFINE new == [rows |-> reads[s].rows,
                     codes |-> IF reads[s].authorization = "available"
                               THEN reads[s].codes ELSE NoCodes,
                     audited |-> reads[s].audited, age |-> reads[s].age,
                     today |-> TRUE, doubted |-> reads[s].doubted]
  <2>1. cached' = new BY <1>4 DEF Succeed
  <2>2. new \in Snapshots BY <1>3 DEF Snapshots, ReadState
  <2>3. ~new.doubted BY <1>3
  <2>4. reads' = [t \in Reads |-> FreeRead] BY <1>2, <1>4 DEF Succeed, TypeOK
  <2>5. /\ Finally(s) /\ retryWait' = 0 /\ refreshFailed' = FALSE
        /\ Deliver(s, [by |-> "read", label |-> "fresh", given |-> cached'])
    BY <1>4 DEF Succeed
  <2> HIDE DEF new
  <2>6. 0 \in 0..Backoff BY SourceAssumption
  <2>7. QED BY <1>1, <2>1, <2>2, <2>3, <2>4, <2>5, <2>6, SettledKeeps
<1>5. CASE Fail(s)
  <2>1. PICK invalid \in BOOLEAN :
          /\ cached' = KeptAfter(invalid)
          /\ reads' = [t \in Reads |->
                         IF t = s \/ reads[t] = FreeRead THEN FreeRead
                         ELSE [reads[t] EXCEPT !.doubted = @ \/ invalid]]
    BY <1>5 DEF Fail
  <2>2. cached' \in {cached, NoSnapshot} BY <2>1 DEF KeptAfter
  <2>3. cached' \in Snapshots \cup {NoSnapshot} /\ (cached' # NoSnapshot => ~cached'.doubted)
    BY <2>2 DEF TypeOK, NothingDoubted
  <2>4. reads' = [t \in Reads |-> FreeRead] BY <1>2, <2>1
  <2>5. /\ Finally(s) /\ retryWait' = Backoff /\ refreshFailed' = TRUE
        /\ Deliver(s, [by |-> "error", label |-> "none", given |-> NoSnapshot])
    BY <1>5 DEF Fail
  <2>6. Backoff \in 0..Backoff BY SourceAssumption
  <2>7. QED BY <1>1, <2>3, <2>4, <2>5, <2>6, SettledKeeps
<1>6. QED BY <1>4, <1>5

\* The world around the service.
LEMMA WorldKeeps ==
    ASSUME SourceInv, SourceChanges \/ Midnight \/ Tick
    PROVE  SourceInv'
<1> USE DEF SourceInv
<1>1. answer' = NoAnswer BY DEF SourceChanges, Midnight, Tick
<1>2. CASE SourceChanges
  <2>1. source' \in Changes BY <1>2, SourceAssumption DEF SourceChanges, TypeOK, Changes
  <2>2. TypeOK' BY <1>1, <1>2, <2>1, EmptyAnswer DEF SourceChanges, TypeOK
  <2>3. OneRead' /\ NothingDoubted' /\ TimerBetweenReads' /\ BackgroundGoesOn' /\ BackgroundStops'
    BY <1>2 DEF SourceChanges, OneRead, NothingDoubted, TimerBetweenReads, BackgroundGoesOn,
                BackgroundStops
  <2>4. QED BY <1>1, <2>2, <2>3, EmptyAnswer, Assembled
<1>3. CASE Midnight
  <2>1. cached \in Snapshots BY <1>3 DEF Midnight, TypeOK
  <2>2. cached' = [cached EXCEPT !.today = FALSE] BY <1>3 DEF Midnight
  <2>3. cached' \in Snapshots /\ cached'.doubted = cached.doubted
    BY <2>1, <2>2 DEF Snapshots
  <2>4. TypeOK' BY <1>1, <1>3, <2>3, EmptyAnswer DEF Midnight, TypeOK
  <2>5. OneRead' /\ NothingDoubted' /\ TimerBetweenReads' /\ BackgroundGoesOn' /\ BackgroundStops'
    BY <1>3, <2>3 DEF Midnight, OneRead, NothingDoubted, TimerBetweenReads, BackgroundGoesOn,
                      BackgroundStops
  <2>6. QED BY <1>1, <2>4, <2>5, EmptyAnswer, Assembled
<1>4. CASE Tick
  <2>1. \A b \in Nat : \A n \in 0..b : Up(n, b) \in 0..b /\ Down(n) \in 0..b BY DEF Up, Down
  <2>2. /\ cached' \in Snapshots \cup {NoSnapshot}
        /\ cached' # NoSnapshot => ~cached'.doubted
    <3>1. CASE cached = NoSnapshot BY <1>4, <3>1 DEF Tick
    <3>2. CASE cached # NoSnapshot
      <4>1. cached \in Snapshots BY <3>2 DEF TypeOK
      <4>2. cached' = [cached EXCEPT !.age = Up(@, MaxAge)] BY <1>4, <3>2 DEF Tick
      <4>3. Up(cached.age, MaxAge) \in 0..MaxAge
        BY <2>1, <4>1, SourceAssumption DEF Snapshots
      <4>4. QED BY <3>2, <4>1, <4>2, <4>3 DEF Snapshots, NothingDoubted
    <3>3. QED BY <3>1, <3>2
  <2>3. \A s \in Reads : /\ reads'[s] \in ReadState /\ ~reads'[s].doubted
                         /\ reads'[s] = FreeRead <=> reads[s] = FreeRead
    <3> SUFFICES ASSUME NEW s \in Reads
                 PROVE  /\ reads'[s] \in ReadState /\ ~reads'[s].doubted
                        /\ reads'[s] = FreeRead <=> reads[s] = FreeRead
      OBVIOUS
    <3>1. reads[s] \in ReadState /\ ~reads[s].doubted BY DEF TypeOK, NothingDoubted
    <3>2. CASE reads[s].finance = "rows"
      <4>1. reads'[s] = [reads[s] EXCEPT !.age = Up(@, MaxAge)] BY <1>4, <3>2 DEF Tick
      <4>2. Up(reads[s].age, MaxAge) \in 0..MaxAge
        BY <2>1, <3>1, SourceAssumption DEF ReadState
      <4>3. reads'[s] \in ReadState /\ reads'[s].doubted = reads[s].doubted
            /\ reads'[s].finance = "rows"
        BY <3>1, <3>2, <4>1, <4>2 DEF ReadState
      <4>4. QED BY <3>1, <3>2, <4>3 DEF FreeRead
    <3>3. CASE reads[s].finance # "rows"
      <4>1. reads'[s] = reads[s] BY <1>4, <3>3 DEF Tick
      <4>2. QED BY <3>1, <4>1
    <3>4. QED BY <3>2, <3>3
  <2>4. reads' \in [Reads -> ReadState]
    <3>1. reads' = [s \in Reads |-> reads'[s]] BY <1>4 DEF Tick
    <3>2. QED BY <2>3, <3>1
  <2>5. /\ timer' \in 0..Later(Idle, Backoff) \cup {NoTimer}
        /\ timer' # NoTimer <=> timer # NoTimer
    <3>1. Later(Idle, Backoff) \in Nat /\ Later(Idle, Backoff) < NoTimer
      BY SourceAssumption DEF Later, NoTimer
    <3>2. QED BY <1>4, <2>1, <3>1 DEF Tick, TypeOK
  <2>6. /\ finishedAge' \in 0..NotYet
        /\ finishedAge' # NotYet <=> finishedAge # NotYet
    BY <1>4, SourceAssumption DEF Tick, TypeOK, Up, NotYet
  <2>7. retryWait' \in 0..Backoff /\ userAge' \in 0..Active
    BY <1>4, <2>1, SourceAssumption DEF Tick, TypeOK
  <2>8. UNCHANGED <<source, loading, refreshFailed, destroyed, started, waiting>>
    BY <1>4 DEF Tick
  <2>9. TypeOK'
    <3>1. answer' \in [by: {"none", "cache", "read", "error"},
                        label: {"none", "fresh", "refreshing", "stale"},
                        given: Snapshots \cup {NoSnapshot}]
      BY <1>1, EmptyAnswer
    <3>2. /\ source' \in Changes /\ loading' \in Reads \cup {NoRead}
          /\ refreshFailed' \in BOOLEAN /\ destroyed' \in BOOLEAN /\ started' \in BOOLEAN
          /\ waiting' \in [Readers -> Reads \cup {NoRead}]
      BY <2>8 DEF TypeOK
    <3>3. /\ cached' \in Snapshots \cup {NoSnapshot}
          /\ timer' \in 0..Later(Idle, Backoff) \cup {NoTimer}
          /\ finishedAge' \in 0..NotYet
      BY <2>2, <2>5, <2>6
    <3>4. QED BY <2>4, <2>7, <3>1, <3>2, <3>3, Typed
  <2>10. OneRead' BY <2>3, <2>8 DEF OneRead
  <2>11. NothingDoubted' /\ TimerBetweenReads' /\ BackgroundGoesOn' /\ BackgroundStops'
    BY <2>2, <2>3, <2>5, <2>6, <2>8
    DEF NothingDoubted, TimerBetweenReads, BackgroundGoesOn, BackgroundStops
  <2>12. QED BY <1>1, <2>9, <2>10, <2>11, EmptyAnswer, Assembled
<1>5. QED BY <1>2, <1>3, <1>4

LEMMA SourceStep == SourceInv /\ [Next]_vars => SourceInv'
<1> SUFFICES ASSUME SourceInv, [Next]_vars PROVE SourceInv' OBVIOUS
<1>1. CASE onApplicationBootstrap \/ onModuleDestroy \/ TimerFires BY <1>1, BackgroundKeeps
<1>2. ASSUME NEW r \in Readers, snapshot(r) PROVE SourceInv' BY <1>2, SnapshotKeeps
<1>3. ASSUME NEW s \in Reads, ReadStep(s) PROVE SourceInv'
  BY <1>3, QuestionsKeep, ResultKeeps DEF ReadStep
<1>4. CASE SourceChanges \/ Midnight \/ Tick BY <1>4, WorldKeeps
<1>5. CASE UNCHANGED vars
  BY <1>5 DEF vars, SourceInv, TypeOK, OneRead, NothingDoubted, TimerBetweenReads,
              BackgroundGoesOn, BackgroundStops, CachedAnswerIsCurrent, NoDoubtedAnswer
<1>6. QED BY <1>1, <1>2, <1>3, <1>4, <1>5 DEF Next

\* refresh(), snapshot() and the timer together keep the invariant of the service.
THEOREM SourceInvariant == Spec => []SourceInv
<1>1. QED BY SourceInit, SourceStep, PTL DEF Spec

\* However requests, timer, startup and shutdown fall together, refresh() never
\* has two reads under way.
THEOREM OneReadAtATime == Spec => []OneRead
<1>1. SourceInv => OneRead BY DEF SourceInv
<1>2. QED BY <1>1, SourceInvariant, PTL

\* snapshot() serves from its cache only what is young enough and of today (the
\* comment in snapshot()).
THEOREM CachedAnswersAreCurrent == Spec => []CachedAnswerIsCurrent
<1>1. SourceInv => CachedAnswerIsCurrent BY DEF SourceInv
<1>2. QED BY <1>1, SourceInvariant, PTL

\* Nothing that was read before an integrity failure is handed out after it (the
\* comment in refresh()).
THEOREM DoubtedIsNotAnswered == Spec => []NoDoubtedAnswer
<1>1. SourceInv => NoDoubtedAnswer BY DEF SourceInv
<1>2. QED BY <1>1, SourceInvariant, PTL

\* The background timer of scheduleBackgroundRefresh is set whenever no read runs,
\* until onModuleDestroy, and never afterwards.
THEOREM BackgroundRuns == Spec => [](BackgroundGoesOn /\ BackgroundStops)
<1>1. SourceInv => BackgroundGoesOn /\ BackgroundStops BY DEF SourceInv
<1>2. QED BY <1>1, SourceInvariant, PTL
=============================================================================

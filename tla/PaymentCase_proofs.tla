-------------------------- MODULE PaymentCase_proofs --------------------------
(***************************************************************************)
(* The invariants of CaseLedger, proved of its atomic steps, and the proof *)
(* that PaymentCase, with requests that interleave, implements CaseLedger: *)
(* the invariants carry over.                                              *)
(***************************************************************************)
EXTENDS PaymentCase, TLAPS

-----------------------------------------------------------------------------
(* Forms, rows and events.                                                 *)

LEMMA PatchedIsRow ==
    ASSUME NEW form \in Forms, NEW row \in Row
    PROVE  /\ Patched(row, form) \in Row
           /\ Patched(row, form).version = row.version + 1
<1>1. Valid(form) /\ form.value \in Values BY DEF Forms
<1>2. form.type \in DateTypes => form.value \in Dates \cup {None}
  BY <1>1 DEF Valid, DateTypes
<1>3. form.type = "assign" => form.value \in Users \cup {None} BY <1>1 DEF Valid
<1>4. form.type = "priority" => form.value \in Priorities BY <1>1 DEF Valid
<1>5. QED BY <1>2, <1>3, <1>4 DEF Patched, Row

LEMMA EventOfIsEvent ==
    ASSUME NEW i \in Intents, NEW form \in Forms, NEW row \in Row, NEW text \in Texts \cup {None}
    PROVE  /\ EventOf(i, form, row, text) \in Event
           /\ EventOf(i, form, row, text).intent = i
           /\ EventOf(i, form, row, text).type = form.type
           /\ EventOf(i, form, row, text).key = form.key
           /\ EventOf(i, form, row, text).actor = form.actor
           /\ EventOf(i, form, row, text).message = form.message
           /\ EventOf(i, form, row, text).text = text
           /\ form.type \in DateTypes => /\ EventOf(i, form, row, text).before = row.date
                                         /\ EventOf(i, form, row, text).after = form.value
<1>1. /\ form.type \in eventTypes /\ form.key \in Keys /\ form.actor \in Users
      /\ form.message \in Messages \cup {None} /\ form.value \in Values
  BY LedgerParameters DEF LedgerAssumption, Forms
<1>2. Before(row, form) \in Values
  BY DEF Before, Values, Row, Told, DateTypes
<1>3. None \in Values BY DEF Values
<1>4. form.type \in DateTypes => Told(form) /\ Before(row, form) = row.date
  BY DEF Told, Before, DateTypes
<1>5. QED BY <1>1, <1>2, <1>3, <1>4 DEF EventOf, Event

LEMMA Appended ==
    ASSUME log \in [Keys -> Seq(Event)], NEW k \in Keys, NEW e \in Event,
           log' = [log EXCEPT ![k] = Append(@, e)]
    PROVE  /\ log' \in [Keys -> Seq(Event)]
           /\ Len(log[k]) \in Nat
           /\ Len(log'[k]) = Len(log[k]) + 1
           /\ \A n \in 1..Len(log[k]) : log'[k][n] = log[k][n]
           /\ log'[k][Len(log[k]) + 1] = e
           /\ \A d \in Keys \ {k} : log'[d] = log[d]
           /\ Recorded' = Recorded \cup {e}
<1>1. log[k] \in Seq(Event) OBVIOUS
<1>2. log'[k] = Append(log[k], e) /\ \A d \in Keys \ {k} : log'[d] = log[d] OBVIOUS
<1>3. /\ Append(log[k], e) \in Seq(Event)
      /\ Len(log[k]) \in Nat
      /\ Len(log'[k]) = Len(log[k]) + 1
      /\ \A n \in 1..Len(log[k]) : log'[k][n] = log[k][n]
      /\ log'[k][Len(log[k]) + 1] = e
  BY <1>1, <1>2
<1>4. log' \in [Keys -> Seq(Event)] BY <1>3
<1>5. EventsOf(k)' = EventsOf(k) \cup {e} BY <1>3 DEF EventsOf
<1>6. \A d \in Keys \ {k} : EventsOf(d)' = EventsOf(d) BY <1>2 DEF EventsOf
<1>7. Recorded' = Recorded \cup {e}
  <2>1. ASSUME NEW x \in Recorded' PROVE x \in Recorded \cup {e}
    <3>1. PICK d \in Keys : x \in EventsOf(d)' BY <2>1 DEF Recorded
    <3>2. x \in EventsOf(d) \cup {e} BY <3>1, <1>5, <1>6
    <3>3. QED BY <3>2 DEF Recorded
  <2>2. ASSUME NEW x \in Recorded \cup {e} PROVE x \in Recorded'
    <3>1. PICK d \in Keys : x \in EventsOf(d) \/ (x = e /\ d = k) BY <2>2 DEF Recorded
    <3>2. x \in EventsOf(d)' BY <3>1, <1>5, <1>6
    <3>3. QED BY <3>2 DEF Recorded
  <2>3. QED BY <2>1, <2>2
<1>8. QED BY <1>2, <1>3, <1>4, <1>7

LEMMA RecordedEvents ==
    ASSUME LedgerTypeOK
    PROVE  /\ \A e : e \in Recorded <=> \E k \in Keys : \E n \in 1..Len(log[k]) : e = log[k][n]
           /\ \A k \in Keys : Len(log[k]) \in Nat /\ \A n \in 1..Len(log[k]) : log[k][n] \in Event
<1>1. \A k \in Keys : log[k] \in Seq(Event) BY DEF LedgerTypeOK
<1>2. QED BY <1>1 DEF Recorded, EventsOf

\* The date after n events depends on these events only.
LEMMA DateAfterPrefix ==
    ASSUME NEW old, NEW new, NEW n \in Nat, NEW date,
           \A m \in 1..n : new[m] = old[m],
           DateAfter(old, n, date)
    PROVE  DateAfter(new, n, date)
<1>1. CASE date = None /\ \A m \in 1..n : old[m].type \notin DateTypes
  BY <1>1 DEF DateAfter
<1>2. CASE \E m \in 1..n : /\ old[m].type \in DateTypes
                           /\ old[m].after = date
                           /\ \A l \in (m+1)..n : old[l].type \notin DateTypes
  <2>1. PICK m \in 1..n : /\ old[m].type \in DateTypes
                          /\ old[m].after = date
                          /\ \A l \in (m+1)..n : old[l].type \notin DateTypes
    BY <1>2
  <2>2. \A l \in (m+1)..n : new[l] = old[l] OBVIOUS
  <2>3. QED BY <2>1, <2>2 DEF DateAfter
<1>3. QED BY <1>1, <1>2 DEF DateAfter

LEMMA DateAfterNext ==
    ASSUME NEW events, NEW n \in Nat, NEW date, NEW next,
           DateAfter(events, n, date),
           IF events[n + 1].type \in DateTypes THEN next = events[n + 1].after ELSE next = date
    PROVE  DateAfter(events, n + 1, next)
<1>0. n + 1 \in 1..(n + 1) /\ \A l : l \notin ((n + 1) + 1)..(n + 1) OBVIOUS
<1>1. CASE events[n + 1].type \in DateTypes BY <1>0, <1>1 DEF DateAfter
<1>2. CASE events[n + 1].type \notin DateTypes
  <2>1. next = date BY <1>2
  <2>2. \A m \in 1..(n + 1) : m \in 1..n \/ m = n + 1 OBVIOUS
  <2>3. CASE date = None /\ \A m \in 1..n : events[m].type \notin DateTypes
    BY <1>2, <2>1, <2>2, <2>3 DEF DateAfter
  <2>4. CASE \E m \in 1..n : /\ events[m].type \in DateTypes
                             /\ events[m].after = date
                             /\ \A l \in (m+1)..n : events[l].type \notin DateTypes
    <3>1. PICK m \in 1..n : /\ events[m].type \in DateTypes
                            /\ events[m].after = date
                            /\ \A l \in (m+1)..n : events[l].type \notin DateTypes
      BY <2>4
    <3>2. m \in 1..(n + 1) OBVIOUS
    <3>3. \A l \in (m+1)..(n + 1) : l \in (m+1)..n \/ l = n + 1 OBVIOUS
    <3>4. \A l \in (m+1)..(n + 1) : events[l].type \notin DateTypes BY <1>2, <3>1, <3>3
    <3>5. QED BY <2>1, <3>1, <3>2, <3>4 DEF DateAfter
  <2>5. QED BY <2>3, <2>4 DEF DateAfter
<1>3. QED BY <1>1, <1>2

-----------------------------------------------------------------------------
(* The ledger.                                                             *)

LEMMA LedgerInitInv == LedgerInit => LedgerInv
<1> SUFFICES ASSUME LedgerInit PROVE LedgerInv OBVIOUS
<1>1. Absent \in Row BY DEF Absent, Row, Priorities
<1>2. \A k \in Keys : log[k] = <<>> /\ Len(log[k]) = 0 BY DEF LedgerInit
<1>3. LedgerTypeOK BY <1>1 DEF LedgerInit, LedgerTypeOK
<1>4. RowMatchesLog
  <2>1. \A k \in Keys : cases[k].version = 0 /\ cases[k].date = None BY DEF LedgerInit, Absent
  <2>2. \A k \in Keys : \A n : n \notin 1..Len(log[k]) BY <1>2
  <2>3. \A k \in Keys : DateAfter(log[k], Len(log[k]), cases[k].date)
    BY <2>1, <2>2 DEF DateAfter
  <2>4. QED BY <1>2, <2>1, <2>3 DEF RowMatchesLog
<1>5. Recorded = {} BY <1>2 DEF Recorded, EventsOf
<1>6. OnePerRequestId /\ ResetRemovesDate BY <1>5 DEF OnePerRequestId, ResetRemovesDate
<1>7. EventsFollowIntents /\ DatesChain /\ SentWasDrafted
  BY <1>2 DEF EventsFollowIntents, DatesChain, SentWasDrafted
<1>8. PagesAreOld /\ AckedWasSent /\ AckedIsRecorded
  BY DEF LedgerInit, PagesAreOld, AckedWasSent, AckedIsRecorded
<1>9. QED BY <1>3, <1>4, <1>6, <1>7, <1>8 DEF LedgerInv

LEMMA ComposeKeeps ==
    ASSUME LedgerInv, NEW i \in Intents, Compose(i)
    PROVE  LedgerInv'
<1>1. PICK form \in Forms : \E seen \in 0..cases[form.key].version :
         intents' = [intents EXCEPT ![i] = [form |-> form, seen |-> seen]]
  BY DEF Compose
<1>2. PICK seen \in 0..cases[form.key].version :
         intents' = [intents EXCEPT ![i] = [form |-> form, seen |-> seen]]
  BY <1>1
<1>3. /\ intents[i] = None /\ cases' = cases /\ log' = log /\ acked' = acked
      /\ \A j \in Intents : intents[j] # None => intents'[j] = intents[j]
  BY <1>2 DEF Compose, LedgerInv, LedgerTypeOK
<1>4. form.key \in Keys /\ cases[form.key].version \in Nat
  BY DEF Forms, LedgerInv, LedgerTypeOK, Row
<1>5. LedgerTypeOK'
  BY <1>2, <1>3, <1>4 DEF LedgerInv, LedgerTypeOK, Intent
<1>6. Recorded' = Recorded BY <1>3 DEF Recorded, EventsOf
<1>7. \A k \in Keys : \A n \in 1..Len(log[k]) : log[k][n].intent \in Intents
  BY RecordedEvents DEF Event, LedgerInv
<1>8. EventsFollowIntents'
  <2>1. \A k \in Keys : \A n \in 1..Len(log[k]) :
           /\ intents[log[k][n].intent] # None
           /\ intents'[log[k][n].intent] = intents[log[k][n].intent]
    BY <1>3, <1>7 DEF LedgerInv, EventsFollowIntents, FollowsIntent
  <2>2. SUFFICES ASSUME NEW k \in Keys, NEW n \in 1..Len(log[k])
                 PROVE  FollowsIntent(k, n)'
    BY <1>3 DEF EventsFollowIntents
  <2>3. FollowsIntent(k, n) BY DEF LedgerInv, EventsFollowIntents
  <2>4. QED BY <1>3, <2>1, <2>3 DEF FollowsIntent
<1>9. PagesAreOld'
  BY <1>2, <1>3, <1>4 DEF LedgerInv, PagesAreOld, LedgerTypeOK
<1>10. RowMatchesLog' /\ DatesChain' /\ SentWasDrafted'
  BY <1>3 DEF LedgerInv, RowMatchesLog, DatesChain, SentWasDrafted
<1>11. OnePerRequestId' /\ ResetRemovesDate'
  BY <1>6 DEF LedgerInv, OnePerRequestId, ResetRemovesDate
<1>12. AckedWasSent' /\ AckedIsRecorded'
  <2>1. \A j \in acked : intents[j] # None /\ intents'[j] = intents[j]
    BY <1>3 DEF LedgerInv, AckedWasSent, LedgerTypeOK
  <2>2. \A k : EventsOf(k)' = EventsOf(k) BY <1>3 DEF EventsOf
  <2>3. AckedWasSent' BY <1>3, <2>1 DEF AckedWasSent
  <2>4. AckedIsRecorded' BY <1>3, <2>1, <2>2 DEF LedgerInv, AckedIsRecorded
  <2>5. QED BY <2>3, <2>4
<1>13. QED BY <1>5, <1>8, <1>9, <1>10, <1>11, <1>12 DEF LedgerInv

LEMMA RepeatKeeps ==
    ASSUME LedgerInv, NEW i \in Intents, Repeat(i)
    PROVE  LedgerInv'
<1>1. /\ cases' = cases /\ log' = log /\ intents' = intents
      /\ acked' = acked \cup {i} /\ intents[i] # None
  BY DEF Repeat
<1>2. PICK e \in Recorded : IsRepeatOf(intents[i].form, e) BY DEF Repeat
<1>3. e \in EventsOf(intents[i].form.key)
  <2>1. PICK k \in Keys : e \in EventsOf(k) BY DEF Recorded
  <2>2. e.key = k BY <2>1 DEF LedgerInv, EventsFollowIntents, FollowsIntent, EventsOf
  <2>3. QED BY <1>2, <2>1, <2>2 DEF IsRepeatOf
<1>4. AckedIsRecorded'
  <2>1. SUFFICES ASSUME NEW j \in acked'
                 PROVE  \E f \in EventsOf(intents[j].form.key) :
                           /\ f.type = intents[j].form.type
                           /\ f.actor = intents[j].form.actor
                           /\ f.message = intents[j].form.message
                           /\ intents[j].form.type # "message_sent" =>
                                 f.text = intents[j].form.text
    BY <1>1 DEF AckedIsRecorded, EventsOf
  <2>2. CASE j \in acked BY <2>2 DEF LedgerInv, AckedIsRecorded
  <2>3. CASE j = i
    <3>1. intents[i].form.type \in MessageTypes
      <4>1. intents[i].form \in Forms BY <1>1 DEF LedgerInv, LedgerTypeOK, Intent
      <4>2. intents[i].form.message # None
        BY <1>2 DEF IsRepeatOf, HasRequestId
      <4>3. QED BY <4>1, <4>2 DEF Forms, Valid
    <3>2. QED BY <1>2, <1>3, <2>3, <3>1 DEF IsRepeatOf, HasRequestId, MessageTypes
  <2>4. QED BY <1>1, <2>1, <2>2, <2>3
<1>5. Recorded' = Recorded BY <1>1 DEF Recorded, EventsOf
<1>6. LedgerTypeOK' BY <1>1 DEF LedgerInv, LedgerTypeOK
<1>7. OnePerRequestId' /\ ResetRemovesDate'
  BY <1>5 DEF LedgerInv, OnePerRequestId, ResetRemovesDate
<1>8. /\ EventsFollowIntents' /\ PagesAreOld'
      /\ RowMatchesLog' /\ DatesChain' /\ SentWasDrafted'
  <2>1. EventsFollowIntents'
    BY <1>1 DEF LedgerInv, EventsFollowIntents, FollowsIntent
  <2>2. PagesAreOld' /\ RowMatchesLog'
    BY <1>1 DEF LedgerInv, PagesAreOld, RowMatchesLog
  <2>3. DatesChain' /\ SentWasDrafted'
    BY <1>1 DEF LedgerInv, DatesChain, SentWasDrafted
  <2>4. QED BY <2>1, <2>2, <2>3
<1>9. AckedWasSent' BY <1>1 DEF LedgerInv, AckedWasSent
<1>10. QED BY <1>4, <1>6, <1>7, <1>8, <1>9 DEF LedgerInv

\* What a recorded action has seen, and what it writes.
LEMMA RecordedAsSeen ==
    ASSUME LedgerInv, NEW i \in Intents, Record(i)
    PROVE  \E form \in Forms, row \in Row, text \in Texts \cup {None} :
              /\ intents[i] = [form |-> form, seen |-> row.version]
              /\ row = cases[form.key]
              /\ Recording(i, form, row, text)
              /\ \A e \in Recorded : ~HasRequestId(e, form.message, form.type)
              /\ form.type = "reset" => row.date # None
              /\ form.type = "message_sent" =>
                    \E draft \in Recorded : IsOwnDraft(draft, form) /\ draft.text = text
              /\ form.type # "message_sent" => text = form.text
<1>1. PICK form : form = intents[i].form OBVIOUS
<1>2. intents[i] \in Intent BY DEF Record, LedgerInv, LedgerTypeOK
<1>3. form \in Forms /\ form.key \in Keys /\ form.text \in Texts \cup {None}
  BY <1>1, <1>2 DEF Intent, Forms
<1>4. PICK row : row = cases[form.key] OBVIOUS
<1>5. row \in Row BY <1>3, <1>4 DEF LedgerInv, LedgerTypeOK
<1>6. intents[i] = [form |-> form, seen |-> row.version]
  BY <1>1, <1>2, <1>4 DEF Record, Intent
<1>7. /\ \A e \in Recorded : ~HasRequestId(e, form.message, form.type)
      /\ form.type = "reset" => row.date # None
  BY <1>1, <1>4 DEF Record
<1>8. CASE form.type = "message_sent"
  <2>1. PICK draft \in Recorded :
           IsOwnDraft(draft, form) /\ Recording(i, form, row, draft.text)
    BY <1>1, <1>4, <1>8 DEF Record
  <2>2. draft.text \in Texts \cup {None} BY RecordedEvents DEF LedgerInv, Event
  <2>3. QED BY <2>1, <2>2, <1>3, <1>4, <1>5, <1>6, <1>7, <1>8
<1>9. CASE form.type # "message_sent"
  <2>1. Recording(i, form, row, form.text) BY <1>1, <1>4, <1>9 DEF Record
  <2>2. QED BY <2>1, <1>3, <1>4, <1>5, <1>6, <1>7, <1>9
<1>10. QED BY <1>8, <1>9

LEMMA RecordKeeps ==
    ASSUME LedgerInv, NEW i \in Intents, Record(i)
    PROVE  LedgerInv'
<1>1. PICK form \in Forms, row \in Row, text \in Texts \cup {None} :
              /\ intents[i] = [form |-> form, seen |-> row.version]
              /\ row = cases[form.key]
              /\ Recording(i, form, row, text)
              /\ \A e \in Recorded : ~HasRequestId(e, form.message, form.type)
              /\ form.type = "reset" => row.date # None
              /\ form.type = "message_sent" =>
                    \E draft \in Recorded : IsOwnDraft(draft, form) /\ draft.text = text
              /\ form.type # "message_sent" => text = form.text
  BY RecordedAsSeen
<1> DEFINE k == form.key
           event == EventOf(i, form, row, text)
<1>2. k \in Keys BY DEF Forms
<1>3. /\ event \in Event /\ event.intent = i /\ event.type = form.type /\ event.key = k
      /\ event.actor = form.actor /\ event.message = form.message /\ event.text = text
      /\ form.type \in DateTypes => event.before = row.date /\ event.after = form.value
  BY EventOfIsEvent
<1>4. /\ cases' = [cases EXCEPT ![k] = Patched(row, form)]
      /\ log' = [log EXCEPT ![k] = Append(@, event)]
      /\ acked' \subseteq acked \cup {i}
      /\ intents' = intents
  BY <1>1 DEF Recording
<1> HIDE DEF event
<1>5. PICK N : N = Len(log[k]) OBVIOUS
<1>6. /\ log' \in [Keys -> Seq(Event)]
      /\ N \in Nat
      /\ Len(log'[k]) = N + 1
      /\ \A n \in 1..N : log'[k][n] = log[k][n]
      /\ log'[k][N + 1] = event
      /\ \A d \in Keys \ {k} : log'[d] = log[d]
      /\ Recorded' = Recorded \cup {event}
  BY Appended, <1>2, <1>3, <1>4, <1>5 DEF LedgerInv, LedgerTypeOK
<1>7. /\ Patched(row, form) \in Row /\ Patched(row, form).version = row.version + 1
      /\ cases'[k] = Patched(row, form)
      /\ \A d \in Keys \ {k} : cases'[d] = cases[d]
  BY PatchedIsRow, <1>2, <1>4 DEF LedgerInv, LedgerTypeOK
<1>8. row.version = N /\ row = cases[k]
  BY <1>1, <1>2, <1>5 DEF LedgerInv, RowMatchesLog
<1>9. LedgerTypeOK'
  BY <1>4, <1>6, <1>7 DEF LedgerInv, LedgerTypeOK
<1>10. EventsFollowIntents'
  <2>1. SUFFICES ASSUME NEW d \in Keys, NEW n \in 1..Len(log'[d]) PROVE FollowsIntent(d, n)'
    BY DEF EventsFollowIntents
  <2>2. CASE d = k /\ n = N + 1
    <3>1. log'[d][n] = event BY <2>2, <1>6
    <3>2. /\ intents'[event.intent] = [form |-> form, seen |-> N]
          /\ intents'[event.intent] # None
      BY <1>1, <1>3, <1>4, <1>8 DEF Record
    <3>3. N = n - 1 BY <2>2, <1>6
    <3>4. QED BY <2>2, <3>1, <3>2, <3>3, <1>1, <1>3 DEF FollowsIntent
  <2>3. CASE ~(d = k /\ n = N + 1)
    <3>1. n \in 1..Len(log[d]) /\ log'[d][n] = log[d][n]
      BY <2>1, <2>3, <1>5, <1>6
    <3>2. FollowsIntent(d, n) BY <3>1 DEF LedgerInv, EventsFollowIntents
    <3>3. QED BY <3>1, <3>2, <1>4 DEF FollowsIntent
  <2>4. QED BY <2>2, <2>3
<1>11. PagesAreOld'
  <2>1. SUFFICES ASSUME NEW j \in Intents, intents[j] # None
                 PROVE  intents[j].seen <= cases'[intents[j].form.key].version
    BY <1>4 DEF PagesAreOld
  <2>2. intents[j].seen \in Nat /\ intents[j].form.key \in Keys
    BY <2>1 DEF LedgerInv, LedgerTypeOK, Intent, Forms
  <2>3. intents[j].seen <= cases[intents[j].form.key].version
    BY <2>1 DEF LedgerInv, PagesAreOld
  <2>4. QED BY <2>2, <2>3, <1>6, <1>7, <1>8
<1>12. RowMatchesLog'
  <2>1. SUFFICES ASSUME NEW d \in Keys
                 PROVE  /\ cases'[d].version = Len(log'[d])
                        /\ DateAfter(log'[d], Len(log'[d]), cases'[d].date)
    BY DEF RowMatchesLog
  <2>2. cases[d].version = Len(log[d]) /\ DateAfter(log[d], Len(log[d]), cases[d].date)
    BY DEF LedgerInv, RowMatchesLog
  <2>3. CASE d # k BY <2>2, <2>3, <1>6, <1>7
  <2>4. CASE d = k
    <3>0. DateAfter(log[k], N, row.date) BY <2>2, <2>4, <1>5, <1>8
    <3>1. DateAfter(log'[k], N, row.date) BY <3>0, <1>6, DateAfterPrefix
    <3>2. IF log'[k][N + 1].type \in DateTypes
          THEN Patched(row, form).date = log'[k][N + 1].after
          ELSE Patched(row, form).date = row.date
      BY <1>3, <1>6 DEF Patched
    <3>3. DateAfter(log'[k], N + 1, Patched(row, form).date)
      BY <3>1, <3>2, <1>6, DateAfterNext
    <3>4. QED BY <2>4, <3>3, <1>6, <1>7, <1>8
  <2>5. QED BY <2>3, <2>4
<1>13. DatesChain'
  <2>1. SUFFICES ASSUME NEW d \in Keys, NEW n \in 1..Len(log'[d]), log'[d][n].type \in DateTypes
                 PROVE  DateAfter(log'[d], n - 1, log'[d][n].before)
    BY DEF DatesChain
  <2>2. CASE ~(d = k /\ n = N + 1)
    <3>1. n \in 1..Len(log[d]) /\ n - 1 \in Nat /\ log'[d][n] = log[d][n]
      BY <2>1, <2>2, <1>5, <1>6
    <3>2. \A m \in 1..(n - 1) : log'[d][m] = log[d][m]
      BY <2>2, <3>1, <1>5, <1>6
    <3>3. DateAfter(log[d], n - 1, log[d][n].before)
      BY <2>1, <3>1 DEF LedgerInv, DatesChain
    <3>4. QED BY <3>1, <3>2, <3>3, DateAfterPrefix
  <2>3. CASE d = k /\ n = N + 1
    <3>1. log'[k][n].before = row.date /\ n - 1 = N BY <2>1, <2>3, <1>3, <1>6
    <3>2. DateAfter(log[k], N, row.date)
      BY <1>2, <1>5, <1>8 DEF LedgerInv, RowMatchesLog
    <3>3. DateAfter(log'[k], N, row.date) BY <3>2, <1>6, DateAfterPrefix
    <3>4. QED BY <2>3, <3>1, <3>3
  <2>4. QED BY <2>2, <2>3
<1>14. SentWasDrafted'
  <2>1. SUFFICES ASSUME NEW d \in Keys, NEW n \in 1..Len(log'[d]),
                        log'[d][n].type = "message_sent"
                 PROVE  \E m \in 1..(n-1) : /\ log'[d][m].type = "message_draft"
                                             /\ log'[d][m].message = log'[d][n].message
                                             /\ log'[d][m].actor = log'[d][n].actor
                                             /\ log'[d][m].text = log'[d][n].text
    BY DEF SentWasDrafted
  <2>2. CASE d # k
    <3>1. log'[d] = log[d] BY <2>2, <1>6
    <3>2. n \in 1..Len(log[d]) /\ log[d][n].type = "message_sent" BY <2>1, <3>1
    <3>3. \E m \in 1..(n-1) : /\ log[d][m].type = "message_draft"
                              /\ log[d][m].message = log[d][n].message
                              /\ log[d][m].actor = log[d][n].actor
                              /\ log[d][m].text = log[d][n].text
      BY <3>2 DEF LedgerInv, SentWasDrafted
    <3>4. QED BY <3>1, <3>3
  <2>3. CASE d = k /\ n \in 1..N
    <3>1. log'[k][n] = log[k][n] BY <2>3, <1>6
    <3>0. n \in 1..Len(log[k]) /\ log[k][n].type = "message_sent" BY <2>1, <2>3, <3>1, <1>5
    <3>2. PICK m \in 1..(n-1) : /\ log[k][m].type = "message_draft"
                                /\ log[k][m].message = log[k][n].message
                                /\ log[k][m].actor = log[k][n].actor
                                /\ log[k][m].text = log[k][n].text
      BY <3>0, <1>2 DEF LedgerInv, SentWasDrafted
    <3>3. log'[k][m] = log[k][m] BY <2>3, <1>6
    <3>4. QED BY <2>3, <3>1, <3>2, <3>3
  <2>4. CASE d = k /\ n = N + 1
    <3>1. form.type = "message_sent" BY <2>1, <2>4, <1>3, <1>6
    <3>2. PICK draft \in Recorded : IsOwnDraft(draft, form) /\ draft.text = text
      BY <3>1, <1>1
    <3>3. PICK c \in Keys : draft \in EventsOf(c) BY DEF Recorded
    <3>4. draft.key = c
      BY <3>3 DEF LedgerInv, EventsFollowIntents, FollowsIntent, EventsOf
    <3>5. PICK m \in 1..N : draft = log[k][m]
      BY <3>2, <3>3, <3>4, <1>5 DEF IsOwnDraft, EventsOf
    <3>6. m \in 1..(n-1) /\ log'[k][m] = draft BY <2>4, <3>5, <1>6
    <3>7. QED BY <2>4, <3>2, <3>6, <1>3, <1>6 DEF IsOwnDraft, HasRequestId
  <2>5. QED BY <2>2, <2>3, <2>4, <1>6
<1>15. OnePerRequestId'
  <2>1. SUFFICES ASSUME NEW e \in Recorded \cup {event}, NEW f \in Recorded \cup {event},
                        HasRequestId(e, f.message, f.type)
                 PROVE  e = f
    BY <1>6 DEF OnePerRequestId, HasRequestId
  <2>2. CASE e \in Recorded /\ f \in Recorded
    BY <2>1, <2>2 DEF LedgerInv, OnePerRequestId
  <2>3. CASE e = event /\ f \in Recorded
    BY <2>1, <2>3, <1>1, <1>3 DEF HasRequestId
  <2>4. CASE f = event /\ e \in Recorded
    BY <2>1, <2>4, <1>1, <1>3 DEF HasRequestId
  <2>5. QED BY <2>1, <2>2, <2>3, <2>4
<1>16. ResetRemovesDate'
  BY <1>1, <1>3, <1>6 DEF LedgerInv, ResetRemovesDate, DateTypes
<1>17. AckedWasSent'
  <2>1. intents[i] # None BY DEF Record
  <2>2. QED BY <2>1, <1>4 DEF LedgerInv, AckedWasSent
<1>18. AckedIsRecorded'
  <2>1. SUFFICES ASSUME NEW j \in acked'
                 PROVE  \E f \in EventsOf(intents[j].form.key)' :
                           /\ f.type = intents[j].form.type
                           /\ f.actor = intents[j].form.actor
                           /\ f.message = intents[j].form.message
                           /\ intents[j].form.type # "message_sent" =>
                                 f.text = intents[j].form.text
    BY <1>4 DEF AckedIsRecorded, EventsOf
  <2>2. /\ \A d \in Keys : EventsOf(d) \subseteq EventsOf(d)'
        /\ event \in EventsOf(k)'
    BY <1>2, <1>5, <1>6 DEF EventsOf
  <2>3. CASE j \in acked
    <3>1. intents[j].form.key \in Keys
      BY <2>3 DEF LedgerInv, LedgerTypeOK, AckedWasSent, Intent, Forms
    <3>2. PICK f \in EventsOf(intents[j].form.key) :
             /\ f.type = intents[j].form.type
             /\ f.actor = intents[j].form.actor
             /\ f.message = intents[j].form.message
             /\ intents[j].form.type # "message_sent" => f.text = intents[j].form.text
      BY <2>3 DEF LedgerInv, AckedIsRecorded
    <3>3. f \in EventsOf(intents[j].form.key)' BY <2>2, <3>1, <1>4
    <3>4. QED BY <3>2, <3>3
  <2>4. CASE j = i
    <3>1. intents[j].form = form BY <2>4, <1>1
    <3>2. event \in EventsOf(intents[j].form.key)' BY <2>2, <3>1, <1>4
    <3>3. QED BY <3>1, <3>2, <1>1, <1>3
  <2>5. QED BY <1>4, <2>1, <2>3, <2>4
<1>19. QED
  BY <1>9, <1>10, <1>11, <1>12, <1>13, <1>14, <1>15, <1>16, <1>17, <1>18 DEF LedgerInv

LEMMA LedgerStep == LedgerInv /\ [LedgerNext]_ledgerVars => LedgerInv'
<1> SUFFICES ASSUME LedgerInv, [LedgerNext]_ledgerVars PROVE LedgerInv' OBVIOUS
<1>1. ASSUME NEW i \in Intents, Compose(i) PROVE LedgerInv' BY <1>1, ComposeKeeps
<1>2. ASSUME NEW i \in Intents, Record(i) PROVE LedgerInv' BY <1>2, RecordKeeps
<1>3. ASSUME NEW i \in Intents, Repeat(i) PROVE LedgerInv' BY <1>3, RepeatKeeps
<1>4. CASE UNCHANGED ledgerVars
  <2>1. cases' = cases /\ log' = log /\ intents' = intents /\ acked' = acked
    BY <1>4 DEF ledgerVars
  <2>2. Recorded' = Recorded /\ \A k : EventsOf(k)' = EventsOf(k)
    BY <2>1 DEF Recorded, EventsOf
  <2>3. LedgerTypeOK' /\ PagesAreOld' /\ AckedWasSent'
    BY <2>1 DEF LedgerInv, LedgerTypeOK, PagesAreOld, AckedWasSent
  <2>4. EventsFollowIntents'
    BY <2>1 DEF LedgerInv, EventsFollowIntents, FollowsIntent
  <2>5. RowMatchesLog' /\ DatesChain' /\ SentWasDrafted'
    BY <2>1 DEF LedgerInv, RowMatchesLog, DatesChain, SentWasDrafted
  <2>6. OnePerRequestId' /\ ResetRemovesDate'
    BY <2>2 DEF LedgerInv, OnePerRequestId, ResetRemovesDate
  <2>7. AckedIsRecorded'
    BY <2>1, <2>2 DEF LedgerInv, AckedIsRecorded
  <2>8. QED BY <2>3, <2>4, <2>5, <2>6, <2>7 DEF LedgerInv
<1>5. QED BY <1>1, <1>2, <1>3, <1>4 DEF LedgerNext

\* What the store promises, step by step: the history of a case has no gaps and no
\* repetitions, and the row agrees with it.
THEOREM LedgerInvariant == LedgerSpec => []LedgerInv
<1>1. LedgerInit => LedgerInv BY LedgerInitInv
<1>2. LedgerInv /\ [LedgerNext]_ledgerVars => LedgerInv' BY LedgerStep
<1>3. QED BY <1>1, <1>2, PTL DEF LedgerSpec

-----------------------------------------------------------------------------
(* The store as it runs.                                                   *)

LEMMA CaseInitInv == Init => CaseInv
<1> SUFFICES ASSUME Init PROVE CaseInv OBVIOUS
<1>1. LedgerInv BY LedgerInitInv DEF Init
<1>2. \A r \in Requests : requests[r] = Idle BY DEF Init
<1>3. QED BY <1>1, <1>2 DEF Init, CaseInv, TypeOK, LedgerInv, Informed

\* A request that is under way: its intent, form and row.
LEMMA UnderWay ==
    ASSUME CaseInv, NEW r \in Requests, requests[r] # Idle
    PROVE  /\ requests[r] \in Request
           /\ requests[r].intent \in Intents
           /\ intents[requests[r].intent] \in Intent
           /\ Form(r) \in Forms /\ Form(r).key \in Keys
           /\ Seen(r) \in Nat
           /\ cases[Form(r).key] \in Row /\ cases[Form(r).key].version \in Nat
           /\ requests[r].row.version \in Nat
           /\ Seen(r) <= cases[Form(r).key].version
<1>1. requests[r] \in Request /\ requests[r].intent \in Intents
  BY DEF CaseInv, TypeOK, Request
<1>2. intents[requests[r].intent] \in Intent /\ intents[requests[r].intent] # None
  BY <1>1 DEF CaseInv, TypeOK, LedgerTypeOK, Informed
<1>3. Form(r) \in Forms /\ Seen(r) \in Nat BY <1>2 DEF Form, Seen, Intent
<1>4. Form(r).key \in Keys BY <1>3 DEF Forms
<1>5. cases[Form(r).key] \in Row BY <1>4 DEF CaseInv, TypeOK, LedgerTypeOK
<1>6. Seen(r) <= cases[Form(r).key].version
  BY <1>1, <1>2 DEF CaseInv, PagesAreOld, Form, Seen
<1>7. QED BY <1>1, <1>2, <1>3, <1>4, <1>5, <1>6 DEF Request, Row

\* A step of one request that writes nothing leaves the others informed.
LEMMA ReadKeeps ==
    ASSUME CaseInv, NEW r \in Requests, NEW request \in Request \cup {Idle},
           requests' = [requests EXCEPT ![r] = request],
           UNCHANGED <<cases, log, intents>>, acked' \subseteq Intents,
           Informed(r)'
    PROVE  CaseInv'
<1>1. TypeOK' BY DEF CaseInv, TypeOK, LedgerTypeOK
<1>2. PagesAreOld' BY DEF CaseInv, PagesAreOld
<1>3. ASSUME NEW q \in Requests PROVE Informed(q)'
  <2>1. CASE q = r BY <2>1
  <2>2. CASE q # r
    <3>1. requests'[q] = requests[q] BY <2>2 DEF CaseInv, TypeOK
    <3>2. Form(q)' = Form(q) /\ Seen(q)' = Seen(q) BY <3>1 DEF Form, Seen
    <3>3. Recorded' = Recorded BY DEF Recorded, EventsOf
    <3>4. Informed(q) BY DEF CaseInv
    <3>5. QED BY <3>1, <3>2, <3>3, <3>4 DEF Informed
  <2>3. QED BY <2>1, <2>2
<1>4. QED BY <1>1, <1>2, <1>3 DEF CaseInv

LEMMA FillInKeeps ==
    ASSUME CaseInv, NEW i \in Intents, FillIn(i)
    PROVE  CaseInv'
<1>1. PICK form \in Forms : \E seen \in 0..cases[form.key].version :
         intents' = [intents EXCEPT ![i] = [form |-> form, seen |-> seen]]
  BY DEF FillIn, Compose
<1>2. PICK seen \in 0..cases[form.key].version :
         intents' = [intents EXCEPT ![i] = [form |-> form, seen |-> seen]]
  BY <1>1
<1>3. /\ intents[i] = None /\ cases' = cases /\ log' = log /\ acked' = acked
      /\ requests' = requests
      /\ \A j \in Intents : intents[j] # None => intents'[j] = intents[j]
  BY <1>2 DEF FillIn, Compose, CaseInv, TypeOK, LedgerTypeOK
<1>4. form.key \in Keys /\ cases[form.key].version \in Nat
  BY DEF Forms, CaseInv, TypeOK, LedgerTypeOK, Row
<1>5. TypeOK' BY <1>2, <1>3, <1>4 DEF CaseInv, TypeOK, LedgerTypeOK, Intent
<1>6. PagesAreOld' BY <1>2, <1>3, <1>4 DEF CaseInv, PagesAreOld, TypeOK, LedgerTypeOK
<1>7. ASSUME NEW q \in Requests PROVE Informed(q)'
  <2>1. CASE requests[q] = Idle BY <2>1, <1>3 DEF Informed
  <2>2. CASE requests[q] # Idle
    <3>1. requests[q].intent \in Intents BY <2>2, UnderWay
    <3>2. Informed(q) /\ intents[requests[q].intent] # None BY <2>2 DEF CaseInv, Informed
    <3>3. intents'[requests[q].intent] = intents[requests[q].intent] BY <1>3, <3>1, <3>2
    <3>4. Form(q)' = Form(q) /\ Seen(q)' = Seen(q) BY <1>3, <3>3 DEF Form, Seen
    <3>5. Recorded' = Recorded BY <1>3 DEF Recorded, EventsOf
    <3>6. QED BY <1>3, <3>2, <3>3, <3>4, <3>5 DEF Informed
  <2>3. QED BY <2>1, <2>2
<1>8. QED BY <1>5, <1>6, <1>7 DEF CaseInv

LEMMA SendKeeps ==
    ASSUME CaseInv, NEW r \in Requests, NEW i \in Intents, Send(r, i)
    PROVE  CaseInv'
<1> DEFINE request == [intent |-> i,
                       next |-> IF intents[i].form.type = "reset" THEN "check" ELSE "case",
                       row |-> Absent, text |-> intents[i].form.text]
<1>1. /\ intents[i] # None /\ requests' = [requests EXCEPT ![r] = request]
      /\ UNCHANGED <<cases, log, intents>> /\ acked' = acked
  BY DEF Send, Continue, ledgerVars
<1>2. intents[i].form.text \in Texts \cup {None}
  BY <1>1 DEF CaseInv, TypeOK, LedgerTypeOK, Intent, Forms
<1>3. Absent \in Row BY DEF Absent, Row, Priorities
<1>4. request \in Request BY <1>2, <1>3 DEF Request
<1>5. requests'[r] = request BY <1>1 DEF CaseInv, TypeOK
<1>6. Form(r)' = intents[i].form BY <1>1, <1>5 DEF Form
<1>7. Informed(r)' BY <1>1, <1>5, <1>6 DEF Informed
<1>8. acked' \subseteq Intents BY <1>1 DEF CaseInv, TypeOK, LedgerTypeOK
<1>9. QED BY <1>1, <1>4, <1>7, <1>8, ReadKeeps

\* What all reading steps have in common.
LEMMA ReadingStep ==
    ASSUME CaseInv, NEW r \in Requests, requests[r] # Idle,
           NEW request \in Request, Continue(r, request), request.intent = requests[r].intent
    PROVE  /\ requests' = [requests EXCEPT ![r] = request]
           /\ requests'[r] = request
           /\ UNCHANGED <<cases, log, intents>> /\ acked' \subseteq Intents
           /\ Form(r)' = Form(r) /\ Seen(r)' = Seen(r)
           /\ Recorded' = Recorded
           /\ intents[requests[r].intent] # None
<1>1. /\ requests' = [requests EXCEPT ![r] = request]
      /\ UNCHANGED <<cases, log, intents, acked>>
  BY DEF Continue, ledgerVars
<1>2. requests'[r] = request BY <1>1 DEF CaseInv, TypeOK
<1>3. Form(r)' = Form(r) /\ Seen(r)' = Seen(r) BY <1>1, <1>2 DEF Form, Seen
<1>4. Recorded' = Recorded BY <1>1 DEF Recorded, EventsOf
<1>5. acked' \subseteq Intents BY <1>1 DEF CaseInv, TypeOK, LedgerTypeOK
<1>6. intents[requests[r].intent] # None BY DEF CaseInv, Informed
<1>7. QED BY <1>1, <1>2, <1>3, <1>4, <1>5, <1>6

LEMMA CheckResetKeeps ==
    ASSUME CaseInv, NEW r \in Requests, CheckReset(r)
    PROVE  CaseInv'
<1>1. requests[r] # Idle /\ requests[r] \in Request BY UnderWay DEF CheckReset, At
<1>2. PICK request : request = [requests[r] EXCEPT !.next = "case"] OBVIOUS
<1>3. /\ request \in Request /\ request.intent = requests[r].intent
      /\ request.next = "case" /\ request.text = requests[r].text
  BY <1>1, <1>2 DEF Request
<1>4. Continue(r, request) BY <1>2 DEF CheckReset
<1>5. cases[Form(r).key].date # None BY DEF CheckReset
<1>6. Informed(r) BY DEF CaseInv
<1>7. Informed(r)' BY <1>1, <1>3, <1>4, <1>5, <1>6, ReadingStep DEF Informed
<1>8. QED BY <1>1, <1>3, <1>4, <1>7, ReadingStep, ReadKeeps

LEMMA ReadCaseKeeps ==
    ASSUME CaseInv, NEW r \in Requests, ReadCase(r)
    PROVE  CaseInv'
<1>1. requests[r] # Idle /\ requests[r] \in Request BY UnderWay DEF ReadCase, At
<1>2. PICK request : request = [[requests[r] EXCEPT
                                   !.next = IF Form(r).type \in MessageTypes THEN "event" ELSE "write"]
                                  EXCEPT !.row = cases[Form(r).key]]
  OBVIOUS
<1>3. /\ request \in Request /\ request.intent = requests[r].intent
      /\ request.next = IF Form(r).type \in MessageTypes THEN "event" ELSE "write"
      /\ request.text = requests[r].text /\ request.row = cases[Form(r).key]
  BY <1>1, <1>2, UnderWay DEF Request
<1>4. Continue(r, request) BY <1>2 DEF ReadCase
<1>5. Form(r).type \notin MessageTypes => cases[Form(r).key].version = Seen(r)
  BY DEF ReadCase
<1>6. Informed(r) /\ requests[r].next = "case" BY DEF CaseInv, ReadCase, At
<1>7. cases[Form(r).key].version <= cases[Form(r).key].version BY <1>1, UnderWay
<1>8. Informed(r)'
  BY <1>1, <1>3, <1>4, <1>5, <1>6, <1>7, ReadingStep DEF Informed, MessageTypes
<1>9. QED BY <1>1, <1>3, <1>4, <1>8, ReadingStep, ReadKeeps

LEMMA ReadEventKeeps ==
    ASSUME CaseInv, NEW r \in Requests, ReadEvent(r)
    PROVE  CaseInv'
<1>1. requests[r] # Idle /\ requests[r] \in Request BY UnderWay DEF ReadEvent, At
<1>2. PICK request : request = [requests[r] EXCEPT
                                  !.next = IF Form(r).type = "message_sent" THEN "draft" ELSE "write"]
  OBVIOUS
<1>3. /\ request \in Request /\ request.intent = requests[r].intent
      /\ request.next = IF Form(r).type = "message_sent" THEN "draft" ELSE "write"
      /\ request.text = requests[r].text /\ request.row = requests[r].row
  BY <1>1, <1>2 DEF Request
<1>4. Continue(r, request) /\ requests[r].row.version = Seen(r) BY <1>2 DEF ReadEvent
<1>5. Informed(r) /\ requests[r].next = "event" BY DEF CaseInv, ReadEvent, At
<1>6. Informed(r)' BY <1>1, <1>3, <1>4, <1>5, ReadingStep DEF Informed
<1>7. QED BY <1>1, <1>3, <1>4, <1>6, ReadingStep, ReadKeeps

LEMMA ReadDraftKeeps ==
    ASSUME CaseInv, NEW r \in Requests, ReadDraft(r)
    PROVE  CaseInv'
<1>1. requests[r] # Idle /\ requests[r] \in Request BY UnderWay DEF ReadDraft, At
<1>2. PICK draft \in Recorded :
         /\ IsOwnDraft(draft, Form(r))
         /\ Continue(r, [[requests[r] EXCEPT !.next = "write"] EXCEPT !.text = draft.text])
  BY DEF ReadDraft
<1>3. draft.text \in Texts \cup {None}
  BY RecordedEvents DEF CaseInv, TypeOK, Event
<1>4. PICK request : request = [[requests[r] EXCEPT !.next = "write"] EXCEPT !.text = draft.text]
  OBVIOUS
<1>5. /\ request \in Request /\ request.intent = requests[r].intent
      /\ request.next = "write" /\ request.text = draft.text /\ request.row = requests[r].row
  BY <1>1, <1>3, <1>4 DEF Request
<1>6. Continue(r, request) BY <1>2, <1>4
<1>7. Informed(r) /\ requests[r].next = "draft" BY DEF CaseInv, ReadDraft, At
<1>8. IsOwnDraft(draft, Form(r))' BY <1>1, <1>2, <1>5, <1>6, ReadingStep DEF IsOwnDraft, HasRequestId
<1>9. Form(r).type = "message_sent" BY <1>1, <1>7 DEF Informed
<1>10. Informed(r)'
  BY <1>1, <1>5, <1>6, <1>7, <1>8, <1>9, ReadingStep DEF Informed
<1>11. QED BY <1>1, <1>5, <1>6, <1>10, ReadingStep, ReadKeeps

\* Refused, and AnswerRepeat, which may tell the user.
LEMMA EndKeeps ==
    ASSUME CaseInv, NEW r \in Requests, Refused(r) \/ AnswerRepeat(r)
    PROVE  CaseInv'
<1>1. requests[r] # Idle BY DEF Refused, AnswerRepeat, At
<1>2. /\ requests' = [requests EXCEPT ![r] = Idle]
      /\ UNCHANGED <<cases, log, intents>> /\ acked' \subseteq Intents
  BY <1>1, UnderWay
  DEF Refused, AnswerRepeat, Continue, ledgerVars, CaseInv, TypeOK, LedgerTypeOK
<1>3. requests'[r] = Idle BY <1>2 DEF CaseInv, TypeOK
<1>4. Informed(r)' BY <1>3 DEF Informed
<1>5. QED BY <1>2, <1>4, ReadKeeps

\* What is written was true when it was read, and still is: the version says so.
LEMMA CommitIsRecord ==
    ASSUME CaseInv, NEW r \in Requests, Commit(r)
    PROVE  /\ requests[r].intent \in Intents
           /\ Record(requests[r].intent)
           /\ Recording(requests[r].intent, Form(r), cases[Form(r).key], requests[r].text)
<1>1. requests[r] # Idle /\ requests[r].next = "write" BY DEF Commit, At
<1>2. /\ requests[r].intent \in Intents /\ Form(r).key \in Keys
      /\ intents[requests[r].intent] # None
  BY <1>1, UnderWay DEF CaseInv, Informed
<1>3. requests[r].row.version = Seen(r) /\ cases[Form(r).key].version = Seen(r)
  BY <1>1 DEF CaseInv, Informed, Commit, FoundVersion
<1>4. requests[r].row = cases[Form(r).key]
  BY <1>1, <1>3 DEF CaseInv, Informed
<1>5. Form(r).type = "reset" => cases[Form(r).key].date # None
  BY <1>1, <1>3 DEF CaseInv, Informed
<1>6. Recording(requests[r].intent, Form(r), cases[Form(r).key], requests[r].text)
  BY <1>2, <1>4 DEF Commit, Recording
<1>7. \A e \in Recorded : ~HasRequestId(e, Form(r).message, Form(r).type)
  BY DEF Commit, FreeRequestId
<1>8. CASE Form(r).type = "message_sent"
  <2>1. PICK draft \in Recorded : IsOwnDraft(draft, Form(r)) /\ draft.text = requests[r].text
    BY <1>1, <1>8 DEF CaseInv, Informed
  <2>2. Recording(requests[r].intent, Form(r), cases[Form(r).key], draft.text)
    BY <2>1, <1>6
  <2>3. QED BY <2>1, <2>2, <1>2, <1>3, <1>5, <1>6, <1>7, <1>8 DEF Record, Form, Seen
<1>9. CASE Form(r).type # "message_sent"
  <2>1. requests[r].text = Form(r).text BY <1>1, <1>9 DEF CaseInv, Informed
  <2>2. Recording(requests[r].intent, Form(r), cases[Form(r).key], Form(r).text)
    BY <2>1, <1>6
  <2>3. QED BY <2>2, <1>2, <1>3, <1>5, <1>6, <1>7, <1>9 DEF Record, Form, Seen
<1>10. QED BY <1>8, <1>9

LEMMA CommitKeeps ==
    ASSUME CaseInv, NEW r \in Requests, Commit(r)
    PROVE  CaseInv'
<1>1. requests[r] # Idle BY DEF Commit, At
<1>2. PICK form, row, text, i :
         form = Form(r) /\ row = cases[Form(r).key] /\ text = requests[r].text
         /\ i = requests[r].intent
  OBVIOUS
<1>3. /\ form \in Forms /\ form.key \in Keys /\ row \in Row /\ text \in Texts \cup {None}
      /\ i \in Intents /\ row.version \in Nat
  BY <1>1, <1>2, UnderWay DEF Request
<1>4. PICK event : event = EventOf(i, form, row, text) OBVIOUS
<1>5. event \in Event BY <1>3, <1>4, EventOfIsEvent
<1>6. /\ cases' = [cases EXCEPT ![form.key] = Patched(row, form)]
      /\ log' = [log EXCEPT ![form.key] = Append(@, event)]
      /\ acked' \subseteq acked \cup {i}
      /\ intents' = intents
  BY <1>2, <1>4, CommitIsRecord DEF Recording
<1>7. requests' = [requests EXCEPT ![r] = Idle] BY DEF Commit
<1>8. Patched(row, form) \in Row /\ Patched(row, form).version = row.version + 1
  BY <1>3, PatchedIsRow
<1>9. log' \in [Keys -> Seq(Event)] /\ Recorded' = Recorded \cup {event}
  BY <1>3, <1>5, <1>6, Appended DEF CaseInv, TypeOK, LedgerTypeOK
<1>10. TypeOK'
  BY <1>3, <1>6, <1>7, <1>8, <1>9 DEF CaseInv, TypeOK, LedgerTypeOK
<1>11. /\ cases'[form.key].version = row.version + 1
       /\ \A k \in Keys \ {form.key} : cases'[k] = cases[k]
  BY <1>3, <1>6, <1>8 DEF CaseInv, TypeOK, LedgerTypeOK
<1>12. PagesAreOld'
  <2>1. SUFFICES ASSUME NEW j \in Intents, intents[j] # None
                 PROVE  intents[j].seen <= cases'[intents[j].form.key].version
    BY <1>6 DEF PagesAreOld
  <2>2. intents[j].seen \in Nat /\ intents[j].form.key \in Keys
    BY <2>1 DEF CaseInv, TypeOK, LedgerTypeOK, Intent, Forms
  <2>3. intents[j].seen <= cases[intents[j].form.key].version
    BY <2>1 DEF CaseInv, PagesAreOld
  <2>4. QED BY <2>2, <2>3, <1>2, <1>3, <1>11
<1>13. ASSUME NEW q \in Requests PROVE Informed(q)'
  <2>1. CASE q = r \/ requests[q] = Idle
    <3>1. requests'[q] = Idle BY <2>1, <1>7 DEF CaseInv, TypeOK
    <3>2. QED BY <3>1 DEF Informed
  <2>2. CASE q # r /\ requests[q] # Idle
    <3>1. requests'[q] = requests[q] BY <2>2, <1>7 DEF CaseInv, TypeOK
    <3>2. Form(q)' = Form(q) /\ Seen(q)' = Seen(q) BY <3>1, <1>6 DEF Form, Seen
    <3>3. Informed(q) BY DEF CaseInv
    <3>4. /\ Form(q).key \in Keys /\ cases[Form(q).key].version \in Nat
          /\ requests[q].row.version \in Nat /\ Seen(q) \in Nat
          /\ Seen(q) <= cases[Form(q).key].version
      BY <2>2, UnderWay
    <3>5. PICK k : k = Form(q).key OBVIOUS
    <3>6. Form(q)'.key = k BY <3>2, <3>5
    <3>7. requests[q].next \in {"event", "draft", "write"} =>
             /\ requests[q].row.version <= cases'[k].version
             /\ requests[q].row.version = cases'[k].version => requests[q].row = cases'[k]
      BY <2>2, <3>3, <3>4, <3>5, <1>2, <1>3, <1>11 DEF Informed
    <3>8. Form(q).type = "reset" /\ requests[q].next # "check" =>
             (cases'[k].version = Seen(q) => cases'[k].date # None)
      BY <2>2, <3>3, <3>4, <3>5, <1>2, <1>3, <1>11 DEF Informed
    <3>9. Form(q).type = "message_sent" /\ requests[q].next = "write" =>
             \E draft \in Recorded' : IsOwnDraft(draft, Form(q)) /\ draft.text = requests[q].text
      BY <2>2, <3>3, <1>9 DEF Informed
    <3>10. QED
      BY <2>2, <3>1, <3>2, <3>3, <3>5, <3>6, <3>7, <3>8, <3>9, <1>6
      DEF Informed, IsOwnDraft, HasRequestId
  <2>3. QED BY <2>1, <2>2
<1>14. QED BY <1>10, <1>12, <1>13 DEF CaseInv

LEMMA CaseStep == CaseInv /\ [Next]_vars => CaseInv'
<1> SUFFICES ASSUME CaseInv, [Next]_vars PROVE CaseInv' OBVIOUS
<1>1. ASSUME NEW i \in Intents, FillIn(i) PROVE CaseInv' BY <1>1, FillInKeeps
<1>2. ASSUME NEW r \in Requests, Step(r) PROVE CaseInv'
  BY <1>2, SendKeeps, CheckResetKeeps, ReadCaseKeeps, ReadEventKeeps, ReadDraftKeeps,
     EndKeeps, CommitKeeps
  DEF Step
<1>3. CASE UNCHANGED vars
  <2>1. /\ cases' = cases /\ log' = log /\ intents' = intents /\ acked' = acked
        /\ requests' = requests
    BY <1>3 DEF vars
  <2>2. TypeOK' /\ PagesAreOld' BY <2>1 DEF CaseInv, TypeOK, LedgerTypeOK, PagesAreOld
  <2>3. ASSUME NEW q \in Requests PROVE Informed(q)'
    <3>1. Form(q)' = Form(q) /\ Seen(q)' = Seen(q) BY <2>1 DEF Form, Seen
    <3>2. Recorded' = Recorded BY <2>1 DEF Recorded, EventsOf
    <3>3. Informed(q) BY DEF CaseInv
    <3>4. QED BY <2>1, <3>1, <3>2, <3>3 DEF Informed
  <2>4. QED BY <2>2, <2>3 DEF CaseInv
<1>4. QED BY <1>1, <1>2, <1>3 DEF Next

\* A request that writes has read the present row, although it has read it before the
\* row was locked.
THEOREM CaseInvariant == Spec => []CaseInv
<1>1. Init => CaseInv BY CaseInitInv
<1>2. CaseInv /\ [Next]_vars => CaseInv' BY CaseStep
<1>3. QED BY <1>1, <1>2, PTL DEF Spec

LEMMA StepIsLedgerStep == CaseInv /\ [Next]_vars => [LedgerNext]_ledgerVars
<1> SUFFICES ASSUME CaseInv, [Next]_vars PROVE [LedgerNext]_ledgerVars OBVIOUS
<1>1. ASSUME NEW i \in Intents, FillIn(i) PROVE LedgerNext BY <1>1 DEF FillIn, LedgerNext
<1>2. ASSUME NEW r \in Requests, Commit(r) PROVE LedgerNext
  BY <1>2, CommitIsRecord DEF LedgerNext
<1>3. ASSUME NEW r \in Requests, AnswerRepeat(r) PROVE [LedgerNext]_ledgerVars
  <2>1. PICK i \in Intents : i = requests[r].intent
    BY <1>3, UnderWay DEF AnswerRepeat, At
  <2>2. intents[i] # None BY <1>3, <2>1 DEF CaseInv, Informed, AnswerRepeat, At
  <2>3. \E e \in Recorded : IsRepeatOf(intents[i].form, e)
    BY <1>3, <2>1 DEF AnswerRepeat, Form
  <2>4. CASE acked' = acked BY <1>3, <2>4 DEF AnswerRepeat, ledgerVars
  <2>5. CASE acked' = acked \cup {i}
    BY <1>3, <2>2, <2>3, <2>5 DEF AnswerRepeat, Repeat, LedgerNext
  <2>6. QED BY <1>3, <2>1, <2>4, <2>5 DEF AnswerRepeat
<1>4. ASSUME NEW r \in Requests, Step(r) PROVE [LedgerNext]_ledgerVars
  BY <1>2, <1>3, <1>4
  DEF Step, Send, CheckReset, ReadCase, ReadEvent, ReadDraft, Refused, Continue
<1>5. CASE UNCHANGED vars BY <1>5 DEF vars, ledgerVars
<1>6. QED BY <1>1, <1>4, <1>5 DEF Next

\* However requests interleave and however often a form is sent, the store behaves as
\* if every action were one step on the present row.
THEOREM Refinement == Spec => LedgerSpec
<1>1. Init => LedgerInit BY DEF Init
<1>2. CaseInv /\ [Next]_vars => [LedgerNext]_ledgerVars BY StepIsLedgerStep
<1>3. QED BY <1>1, <1>2, CaseInvariant, PTL DEF Spec, LedgerSpec

\* The history of a case under concurrent requests: a chain of dates that ends in the
\* row's, with resets that have removed a date.
THEOREM HistoryHasNoGaps == Spec => [](RowMatchesLog /\ DatesChain /\ ResetRemovesDate)
<1>1. LedgerInv => RowMatchesLog /\ DatesChain /\ ResetRemovesDate BY DEF LedgerInv
<1>2. QED BY <1>1, Refinement, LedgerInvariant, PTL

\* Messages: confirmations follow their drafts, an id is used once, and what a user was
\* told to be recorded is in the log.
THEOREM MessagesAreKept == Spec => [](SentWasDrafted /\ OnePerRequestId /\ AckedIsRecorded)
<1>1. LedgerInv => SentWasDrafted /\ OnePerRequestId /\ AckedIsRecorded BY DEF LedgerInv
<1>2. QED BY <1>1, Refinement, LedgerInvariant, PTL

\* However often it is sent, an intent is recorded once.
THEOREM RecordedOnce == Spec => []OncePerIntent
<1>1. LedgerInv => OncePerIntent
  <2>1. SUFFICES ASSUME LedgerInv, NEW k \in Keys, NEW m \in 1..Len(log[k]),
                        NEW n \in 1..Len(log[k]), log[k][m].intent = log[k][n].intent
                 PROVE  m = n
    BY DEF OncePerIntent
  <2>2. FollowsIntent(k, m) /\ FollowsIntent(k, n) BY <2>1 DEF LedgerInv, EventsFollowIntents
  <2>3. m - 1 = n - 1 BY <2>1, <2>2 DEF FollowsIntent
  <2>4. m \in Nat /\ n \in Nat BY <2>1
  <2>5. QED BY <2>3, <2>4
<1>2. QED BY <1>1, Refinement, LedgerInvariant, PTL
=============================================================================

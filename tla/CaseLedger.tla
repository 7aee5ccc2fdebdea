------------------------------ MODULE CaseLedger ------------------------------
(***************************************************************************)
(* What PaymentTrackingStoreService promises of the payment follow-up      *)
(* cases, as if every request were one step: a case is a row with a        *)
(* version and the log of its events, an action sees the present row, and  *)
(* an action sent again is either told so (a message) or refused.          *)
(* PaymentCase is the store as it runs, statement by statement.            *)
(*                                                                         *)
(* Left out: e-mail subject and recipient, part of "text", and the channel *)
(* of a contact; the e-mail and WhatsApp messages themselves, which the    *)
(* browser sends.                                                          *)
(***************************************************************************)
EXTENDS Naturals, Sequences

CONSTANTS Keys,     \* cases
          Users,
          Messages, \* ids of messages, chosen by the browser
          Dates, Texts,
          Intents,  \* what users decide to do; each is sent once or more often
          None,
          Types     \* the types of action in use

DateTypes    == {"defer", "reset"}
MessageTypes == {"message_draft", "message_sent"}
eventTypes   == DateTypes \cup MessageTypes \cup {"note", "assign", "priority", "contact"}
Priorities   == {"normal", "high"}

LedgerAssumption ==
    /\ Types \subseteq eventTypes
    /\ None \notin Keys \cup Users \cup Messages \cup Dates \cup Texts

ASSUME LedgerParameters == LedgerAssumption

VARIABLES cases,   \* PaymentTrackingCase, by key; version 0: no row
          log,     \* PaymentTrackingEvent, by key, in the order of their commits
          intents, \* the form behind each intent, None before it is filled in
          acked    \* intents whose user has been told that they are recorded

ledgerVars == <<cases, log, intents, acked>>

-----------------------------------------------------------------------------
(* Forms, rows and events.                                                 *)

\* What parseTrackingAction and the first half of apply let through.
Valid(form) ==
    /\ form.type \in Types
    /\ (form.message # None) <=> (form.type \in MessageTypes)
    /\ form.type \in {"defer", "reset", "note", "contact", "message_draft"} => form.text # None
    /\ form.type = "message_sent" => form.text = None
    /\ form.type = "defer" => form.value \in Dates
    /\ form.type = "assign" => form.value \in Users \cup {None}
    /\ form.type = "priority" => form.value \in Priorities
    /\ form.type \notin {"defer", "assign", "priority"} => form.value = None

Values == Dates \cup Users \cup Priorities \cup {None}

Forms == {form \in [type: Types, key: Keys, actor: Users, message: Messages \cup {None},
                    text: Texts \cup {None}, value: Values] : Valid(form)}

\* "seen" is expectedVersion, the version on the user's page.
Intent == [form: Forms, seen: Nat]

Row == [version: Nat, date: Dates \cup {None}, assignee: Users \cup {None},
        priority: Priorities]

\* A missing row, read with the defaults a first action starts from.
Absent == [version |-> 0, date |-> None, assignee |-> None, priority |-> "normal"]

\* The row after an action, created or updated.
Patched(row, form) ==
    [version  |-> row.version + 1,
     date     |-> IF form.type \in DateTypes THEN form.value ELSE row.date,
     assignee |-> IF form.type = "assign" THEN form.value ELSE row.assignee,
     priority |-> IF form.type = "priority" THEN form.value ELSE row.priority]

\* Whether the event tells what the field was before: the dates always, assignee and
\* priority in the text the store writes when the user has given none.
Told(form) ==
    \/ form.type \in DateTypes
    \/ form.type \in {"assign", "priority"} /\ form.text = None

Before(row, form) ==
    IF ~Told(form) THEN None
    ELSE CASE form.type \in DateTypes -> row.date
           [] form.type = "assign" -> row.assignee
           [] form.type = "priority" -> row.priority

\* The event of an action.  "intent" is auxiliary.  A confirmation copies the text of
\* its draft.
EventOf(i, form, row, text) ==
    [intent |-> i, type |-> form.type, key |-> form.key, actor |-> form.actor,
     message |-> form.message, text |-> text,
     before |-> Before(row, form), after |-> IF Told(form) THEN form.value ELSE None]

Event == [intent: Intents, type: eventTypes, key: Keys, actor: Users,
          message: Messages \cup {None}, text: Texts \cup {None},
          before: Values, after: Values]

EventsOf(k) == {log[k][n] : n \in 1..Len(log[k])}
Recorded    == UNION {EventsOf(k) : k \in Keys}

\* The event with this request id, messageId:draft or messageId:sent.
HasRequestId(e, message, type) == e.message = message /\ e.type = type /\ message # None

\* Faulty variant: anybody's draft of the case may be confirmed.
IsAnyDraft(e, form) ==
    /\ HasRequestId(e, form.message, "message_draft")
    /\ e.key = form.key

\* The draft a confirmation is about: of the same user, in the same case.
IsOwnDraft(e, form) ==
    /\ HasRequestId(e, form.message, "message_draft")
    /\ e.key = form.key
    /\ e.actor = form.actor

\* An event found for a request is the request itself, sent before.
IsRepeatOf(form, e) ==
    /\ HasRequestId(e, form.message, form.type)
    /\ e.key = form.key
    /\ e.actor = form.actor
    /\ form.type = "message_draft" => e.text = form.text

LedgerTypeOK ==
    /\ cases \in [Keys -> Row]
    /\ log \in [Keys -> Seq(Event)]
    /\ intents \in [Intents -> Intent \cup {None}]
    /\ acked \subseteq Intents

-----------------------------------------------------------------------------
LedgerInit ==
    /\ cases = [k \in Keys |-> Absent]
    /\ log = [k \in Keys |-> <<>>]
    /\ intents = [i \in Intents |-> None]
    /\ acked = {}

\* A user fills in a form, on a page that shows any version up to the present one.
Compose(i) ==
    /\ intents[i] = None
    /\ \E form \in Forms : \E seen \in 0..cases[form.key].version :
         intents' = [intents EXCEPT ![i] = [form |-> form, seen |-> seen]]
    /\ UNCHANGED <<cases, log, acked>>

Recording(i, form, row, text) ==
    /\ cases' = [cases EXCEPT ![form.key] = Patched(row, form)]
    /\ log' = [log EXCEPT ![form.key] = Append(@, EventOf(i, form, row, text))]
    /\ acked' \in {acked, acked \cup {i}}
    /\ UNCHANGED intents

\* An action that sees the version its page has shown is recorded.  Its answer may be
\* lost.
Record(i) ==
    /\ intents[i] # None
    /\ LET form == intents[i].form
           row  == cases[form.key]
       IN /\ row.version = intents[i].seen
          /\ \A e \in Recorded : ~HasRequestId(e, form.message, form.type)
          /\ form.type = "reset" => row.date # None
          /\ IF form.type = "message_sent"
             THEN \E draft \in Recorded : /\ IsOwnDraft(draft, form)
                                          /\ Recording(i, form, row, draft.text)
             ELSE Recording(i, form, row, form.text)

\* A message sent again, also with an old version, is acknowledged.
Repeat(i) ==
    /\ intents[i] # None
    /\ \E e \in Recorded : IsRepeatOf(intents[i].form, e)
    /\ acked' = acked \cup {i}
    /\ UNCHANGED <<cases, log, intents>>

LedgerNext == \E i \in Intents : Compose(i) \/ Record(i) \/ Repeat(i)

LedgerSpec == LedgerInit /\ [][LedgerNext]_ledgerVars

-----------------------------------------------------------------------------
(* Properties.                                                             *)

\* However often an intent is sent, it is recorded once at most.
OncePerIntent ==
    \A k \in Keys : \A m, n \in 1..Len(log[k]) :
        log[k][m].intent = log[k][n].intent => m = n

\* What the first n events say of the date.
DateAfter(events, n, date) ==
    \/ /\ date = None
       /\ \A m \in 1..n : events[m].type \notin DateTypes
    \/ \E m \in 1..n : /\ events[m].type \in DateTypes
                       /\ events[m].after = date
                       /\ \A l \in (m+1)..n : events[l].type \notin DateTypes

\* docs/payment-tracking.md: record and history are written together.  The version
\* counts the events, and the date of the row is that of the last event about it.
RowMatchesLog ==
    \A k \in Keys : /\ cases[k].version = Len(log[k])
                    /\ DateAfter(log[k], Len(log[k]), cases[k].date)

\* The history has no gap: a change of the date starts from where the one before it
\* has ended, although the date was read before the row was locked.
DatesChain ==
    \A k \in Keys : \A n \in 1..Len(log[k]) :
        log[k][n].type \in DateTypes => DateAfter(log[k], n - 1, log[k][n].before)

\* A confirmation comes after a draft of the same user in the same case, and says what
\* the draft said.
SentWasDrafted ==
    \A k \in Keys : \A n \in 1..Len(log[k]) :
        log[k][n].type = "message_sent" =>
            \E m \in 1..(n-1) : /\ log[k][m].type = "message_draft"
                                /\ log[k][m].message = log[k][n].message
                                /\ log[k][m].actor = log[k][n].actor
                                /\ log[k][m].text = log[k][n].text

\* A message id stands for one draft and one confirmation in all cases together.
OnePerRequestId ==
    \A e, f \in Recorded : HasRequestId(e, f.message, f.type) => e = f

\* "Bu dosyada kaldirilacak bir erteleme yok": a reset has removed a date, although the
\* service looks for it before the store's transaction.
ResetRemovesDate ==
    \A e \in Recorded : e.type = "reset" => e.before # None

\* What a user was told to be recorded is in the log, with the user's own text.
AckedIsRecorded ==
    \A i \in acked :
        \E e \in EventsOf(intents[i].form.key) :
            /\ e.type = intents[i].form.type
            /\ e.actor = intents[i].form.actor
            /\ e.message = intents[i].form.message
            /\ intents[i].form.type # "message_sent" => e.text = intents[i].form.text

\* Every event is that of its intent, and was recorded on the version its user saw.
FollowsIntent(k, n) ==
    LET event == log[k][n]
        form  == intents[event.intent].form
    IN /\ intents[event.intent] # None
       /\ intents[event.intent].seen = n - 1
       /\ event.key = k /\ form.key = k
       /\ event.type = form.type
       /\ event.actor = form.actor
       /\ event.message = form.message
       /\ form.type # "message_sent" => event.text = form.text

EventsFollowIntents == \A k \in Keys : \A n \in 1..Len(log[k]) : FollowsIntent(k, n)

\* No page shows a version that is still to come.
PagesAreOld ==
    \A i \in Intents : intents[i] # None =>
        intents[i].seen <= cases[intents[i].form.key].version

AckedWasSent == \A i \in acked : intents[i] # None

\* The inductive invariant of the ledger.
LedgerInv ==
    /\ LedgerTypeOK
    /\ EventsFollowIntents
    /\ PagesAreOld
    /\ RowMatchesLog
    /\ DatesChain
    /\ SentWasDrafted
    /\ OnePerRequestId
    /\ ResetRemovesDate
    /\ AckedWasSent
    /\ AckedIsRecorded
=============================================================================

----------------------------- MODULE PaymentCase ------------------------------
(***************************************************************************)
(* PaymentTrackingService.action and PaymentTrackingStoreService.apply, by *)
(* concurrent requests.  The transaction runs at READ COMMITTED: its reads *)
(* are actions of their own; from the conditional update (or the creation) *)
(* of the row to the commit it holds that row and is one action.  The user *)
(* or the browser may send the same form again at any time, also while the *)
(* first request is under way or after its answer was lost.                *)
(*                                                                         *)
(* The forced read of the payment source before, the check of the identity *)
(* under the key and the checks of roles and accounts can only refuse.     *)
(***************************************************************************)
EXTENDS CaseLedger

CONSTANT Requests \* requests under way at a time, each reused when it has ended

VARIABLE requests \* where each request is, and what it has read

vars == <<cases, log, intents, acked, requests>>

Idle == [intent |-> None]

\* "row" is current in the code.  "text" is the text of the event to be.
Request == [intent: Intents, next: {"check", "case", "event", "draft", "write"},
            row: Row, text: Texts \cup {None}]

TypeOK ==
    /\ LedgerTypeOK
    /\ requests \in [Requests -> Request \cup {Idle}]

Init == LedgerInit /\ requests = [r \in Requests |-> Idle]

Form(r) == intents[requests[r].intent].form
Seen(r) == intents[requests[r].intent].seen

At(r, next) ==
    /\ requests[r] # Idle
    /\ requests[r].next = next

Continue(r, request) ==
    /\ requests' = [requests EXCEPT ![r] = request]
    /\ UNCHANGED ledgerVars

-----------------------------------------------------------------------------
FillIn(i) == Compose(i) /\ UNCHANGED requests

\* The form of an intent is sent, for the first time or again.
Send(r, i) ==
    /\ requests[r] = Idle
    /\ intents[i] # None
    /\ Continue(r, [intent |-> i,
                    next |-> IF intents[i].form.type = "reset" THEN "check" ELSE "case",
                    row |-> Absent, text |-> intents[i].form.text])

\* A bad request, a conflict, a lost right, a failing statement or a lost connection:
\* the transaction is rolled back and the request is over.
Refused(r) ==
    /\ requests[r] # Idle
    /\ Continue(r, Idle)

\* The service looks for a date to remove before it calls the store.
CheckReset(r) ==
    /\ At(r, "check")
    /\ cases[Form(r).key].date # None
    /\ Continue(r, [requests[r] EXCEPT !.next = "case"])

ReadCase(r) ==
    /\ At(r, "case")
    /\ IF Form(r).type \in MessageTypes
       THEN Continue(r, [[requests[r] EXCEPT !.next = "event"]
                            EXCEPT !.row = cases[Form(r).key]])
       ELSE /\ cases[Form(r).key].version = Seen(r)
            /\ Continue(r, [[requests[r] EXCEPT !.next = "write"]
                               EXCEPT !.row = cases[Form(r).key]])

\* The request id is looked up after the case was read, and before its version is
\* compared.
ReadEvent(r) ==
    /\ At(r, "event")
    /\ \A e \in Recorded : ~HasRequestId(e, Form(r).message, Form(r).type)
    /\ requests[r].row.version = Seen(r)
    /\ Continue(r, [requests[r] EXCEPT
                      !.next = IF Form(r).type = "message_sent" THEN "draft" ELSE "write"])

\* The event of an earlier request is found and the same: success, with the state read
\* above, unless there was no row to read.
AnswerRepeat(r) ==
    /\ At(r, "event")
    /\ \E e \in Recorded : IsRepeatOf(Form(r), e)
    /\ requests[r].row.version # 0
    /\ acked' \in {acked, acked \cup {requests[r].intent}}
    /\ requests' = [requests EXCEPT ![r] = Idle]
    /\ UNCHANGED <<cases, log, intents>>

ReadDraft(r) ==
    /\ At(r, "draft")
    /\ \E draft \in Recorded :
         /\ IsOwnDraft(draft, Form(r))
         /\ Continue(r, [[requests[r] EXCEPT !.next = "write"] EXCEPT !.text = draft.text])

\* Faulty variant: the version is raised but not compared.
FoundVersionAny(r) == (cases[Form(r).key].version = 0) <=> (requests[r].row.version = 0)

\* updateMany({ where: { key, version } }) finds its row, or a first creation is not
\* beaten by another.
FoundVersion(r) ==
    IF requests[r].row.version = 0 THEN cases[Form(r).key].version = 0
    ELSE cases[Form(r).key].version = Seen(r)

\* The unique index on requestId.
FreeRequestId(r) == \A e \in Recorded : ~HasRequestId(e, Form(r).message, Form(r).type)

\* Row and event are written and committed together, of what was read before.
Commit(r) ==
    /\ At(r, "write")
    /\ FoundVersion(r)
    /\ FreeRequestId(r)
    /\ LET i == requests[r].intent
           form == Form(r)
       IN /\ cases' = [cases EXCEPT ![form.key] = Patched(@, form)]
          /\ log' = [log EXCEPT ![form.key] =
                       Append(@, EventOf(i, form, requests[r].row, requests[r].text))]
          /\ acked' \in {acked, acked \cup {i}}
          /\ UNCHANGED intents
    /\ requests' = [requests EXCEPT ![r] = Idle]

Step(r) ==
    \/ \E i \in Intents : Send(r, i)
    \/ CheckReset(r) \/ ReadCase(r) \/ ReadEvent(r) \/ ReadDraft(r)
    \/ AnswerRepeat(r) \/ Commit(r) \/ Refused(r)

Next ==
    \/ \E i \in Intents : FillIn(i)
    \/ \E r \in Requests : Step(r)

Spec == Init /\ [][Next]_vars

-----------------------------------------------------------------------------
(* What a request knows when it writes.                                    *)

\* While the version a request has seen is the present one, what it has read is true.
Informed(r) ==
    requests[r] # Idle =>
        /\ intents[requests[r].intent] # None
        /\ requests[r].next \in {"event", "draft", "write"} =>
              /\ requests[r].row.version <= cases[Form(r).key].version
              /\ requests[r].row.version = cases[Form(r).key].version =>
                    requests[r].row = cases[Form(r).key]
        /\ requests[r].next \in {"draft", "write"} => requests[r].row.version = Seen(r)
        /\ requests[r].next = "draft" => Form(r).type = "message_sent"
        /\ Form(r).type = "reset" /\ requests[r].next # "check" =>
              (cases[Form(r).key].version = Seen(r) => cases[Form(r).key].date # None)
        /\ IF Form(r).type = "message_sent"
           THEN requests[r].next = "write" =>
                  \E draft \in Recorded : IsOwnDraft(draft, Form(r)) /\ draft.text = requests[r].text
           ELSE requests[r].text = Form(r).text

\* The inductive invariant: what the ledger promises, and that requests are informed.
CaseInv ==
    /\ TypeOK
    /\ PagesAreOld
    /\ \A r \in Requests : Informed(r)
=============================================================================

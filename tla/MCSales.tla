------------------------------- MODULE MCSales --------------------------------
(* Small instances of the sales components. *)
EXTENDS Sales, TLC

CONSTANTS r1, r2, x1, x2

Requests == {r1, r2}

\* A lead in the hands of three users, two requests at a time.
MCPipeline ==
    [leadIds |-> {"l1"}, users |-> {"c", "m", "s"},
     role |-> "c" :> "CALLCENTER" @@ "m" :> "MANAGER" @@ "s" :> "SALES",
     requests |-> Requests, hooks |-> {}, leadgens |-> {}, followUps |-> {"soon"}]

\* Two deliveries of one form, and a user who corrects what they have written.
MCWebhook ==
    [leadIds |-> {"l1", "l2"}, users |-> {"c"}, role |-> "c" :> "CALLCENTER",
     requests |-> {"r"}, hooks |-> {"h1", "h2"}, leadgens |-> {"g"}, followUps |-> {}]

\* Two rows for one unit under two requests, without documents and presentations.
MCEstate ==
    [customerIds |-> {"c1", "dnd"}, dnd |-> "dnd", unitIds |-> {x1, x2}, numbers |-> {"n"},
     presentations |-> {}, documents |-> {}, users |-> {"a"}, role |-> "a" :> "ADMIN",
     requests |-> Requests, maxHistory |-> 0]

\* What hangs on a customer: a presentation, a document, the owner and his history.
MCFiles ==
    [MCEstate EXCEPT !.unitIds = {}, !.numbers = {}, !.presentations = {"p"},
       !.documents = {"d"}, !.users = {"a", "s"}, !.role = "a" :> "ADMIN" @@ "s" :> "SALES",
       !.requests = {"r"}, !.maxHistory = 1]

MCPartners ==
    [agencyIds |-> {"a1"}, meetingIds |-> {"m1"}, taskIds |-> {"t1"}, customerIds |-> {"k"},
     owner |-> "k" :> "c", users |-> MCPipeline.users, role |-> MCPipeline.role,
     requests |-> {"r"}, maxHistory |-> 1]

MCLedger ==
    [accounts |-> {"a"}, codes |-> {"c", "d"}, representatives |-> "a" :> {"c", "d"},
     sales |-> {"u", "v"}, requests |-> Requests, maxVersion |-> 2]

\* Two currencies of one unit and a case whose currency is not known; the rows are
\* due in and about the ageing buckets, the current month and the horizon.
k1g == [customer |-> "k1", unit |-> "u1", currency |-> "GBP"]
k1t == [customer |-> "k1", unit |-> "u1", currency |-> "TL"]
k2n == [customer |-> "k2", unit |-> "u2", currency |-> None]

Row(i, k, g, d, a, p) ==
    [identity |-> i, kind |-> k, group |-> g, dueDate |-> d, amount |-> a, paid |-> p]

MCSnapshot ==
    [rows |-> {Row(k1g, "sale", "LA_JOYA", 100, 2, 2), Row(k1g, "sale", None, 70, 2, 1),
               Row(k1g, "vat", None, 9, 3, 0), Row(k1g, "vat", None, 100, 4, 1),
               Row(k1g, "sale", None, None, 1, 0), Row(k1g, "vat", None, 140, None, 1),
               Row(k1t, "sale", None, 99, 1, 2), Row(k1t, "sale", "OTHER", 125, 2, 0),
               Row(k1t, "vat", None, 69, None, 0), Row(k2n, "sale", None, 39, 1, 0),
               Row(k2n, "vat", None, 100, 1, 1)},
     identities |-> <<k1g, k1t, k2n>>, currencies |-> <<"GBP", "TL">>,
     invoice |-> k1g :> [representatives |-> {"x"}, status |-> "matched", hasBlank |-> TRUE,
                         codes |-> {}, invoiceOk |-> {"DND"}]
              @@ k1t :> [representatives |-> {"x", "y"}, status |-> "matched",
                         hasBlank |-> TRUE, codes |-> {"c"}, invoiceOk |-> {"DND"}]
              @@ k2n :> [representatives |-> {}, status |-> "unmatched",
                         hasBlank |-> FALSE, codes |-> {}, invoiceOk |-> {}],
     unitProject |-> "u1" :> "LA_JOYA" @@ "u2" :> None,
     codeOwner |-> "x" :> "s" @@ "y" :> None, salespeople |-> {"s"},
     asOf |-> 100, followUpDates |-> {101, 126}, monthDays |-> 30, months |-> 2,
     pageSize |-> 2, maxRows |-> 3]

\* Two users write about two cases, with one message id.
MCMessages ==
    [keys |-> {"k1", "k2"}, users |-> {"u1", "u2"}, messages |-> {"m1"}, dates |-> {},
     texts |-> {"t1", "t2"}, intents |-> {"i1", "i2"}, requests |-> Requests,
     types |-> {"message_draft", "message_sent"}]

\* The queue's timer and the operator's command, over one campaign of two customers.
MCMail ==
    [jobs |-> {"j1", "j2"}, campaigns |-> {"c1"}, addresses |-> {"a1", "a2"},
     campaignOf |-> "j1" :> "c1" @@ "j2" :> "c1", index |-> "j1" :> 0 @@ "j2" :> 1,
     address |-> "j1" :> "a1" @@ "j2" :> "a2", schedulers |-> {"w1"}, operators |-> {"w2"},
     hourly |-> 1, daily |-> 2, interval |-> 1, hour |-> 2, day |-> 3, staleAfter |-> 1,
     maxAttempts |-> 1, backoff |-> <<1>>, lostAckCommands |-> {"DATA"},
     maxCrashes |-> 0, maxRetries |-> 0]

\* The timer alone, over two campaigns, the first of two customers; the second repeats an
\* address of it.
MCMailings ==
    [MCMail EXCEPT !.jobs = {"j1", "j2", "j3"}, !.campaigns = {"c1", "c2"},
       !.campaignOf = "j1" :> "c1" @@ "j2" :> "c1" @@ "j3" :> "c2",
       !.index = "j1" :> 0 @@ "j2" :> 1 @@ "j3" :> 0,
       !.address = "j1" :> "a1" @@ "j2" :> "a2" @@ "j3" :> "a1",
       !.operators = {}, !.daily = 1, !.hour = 1, !.day = 1]

Symmetry == Permutations({r1, r2}) \cup Permutations({x1, x2})
=============================================================================

---------------------------- MODULE Office_proofs ----------------------------
(***************************************************************************)
(* For any rows, users and requests of the office components: what the run *)
(* of Office checks of them.                                               *)
(*                                                                         *)
(* The parts write no table of each other, so a step of the composition is *)
(* at most a step of each of its components (PartsMove) and every part has *)
(* an inductive invariant of its own.  Where a component serialises its    *)
(* writes with a lock that is held from the reads to the commit, that      *)
(* invariant says that what the holder of the lock has read is still so    *)
(* (TeamInv, ChartInv, TreeInv, and GoodWork of WorkTasks_proofs).         *)
(* Where it does not, it says what a row has to show for itself when the   *)
(* conditional write finds it (TicketInv, MapInv, CaseInv), or what can no *)
(* longer be on its way (DeletedInv, AccountsInv, NoteInv).                *)
(***************************************************************************)
EXTENDS Office, FiniteSetTheorems, SequenceTheorems, TLAPS

LEMMA PartsMove ==
    ASSUME [Next]_vars
    PROVE  /\ part' = part
           /\ part = "work" => [T!Next]_(T!vars)
           /\ part = "files" => [F!Next]_(F!vars)
           /\ part = "circles" => [U!Next]_(U!vars)
           /\ part = "projects" => [P!Next]_(P!vars)
           /\ part = "positions" => [O(Positions)!Next]_(O(Positions)!vars)
           /\ part # "positions" => [O(Tree)!Next]_(O(Tree)!vars)
           /\ [I!Next]_(I!vars) /\ [D!Next]_(D!vars) /\ [Q!Next]_(Q!vars) /\ [C!Next]_(C!vars)
           /\ [A!Next]_(A!vars) /\ [M!Next]_(M!vars) /\ [B!Next]_(B!vars)
<1> USE DEF Next, vars, WorkStep, FilesStep, CirclesStep, ProjectsStep, TicketsStep,
            LongTicketsStep, TeamStep, TreeStep, PositionsStep, QualityStep, CasesStep,
            AccountsStep, MapStep, NotesStep
<1>1. /\ part' = part
      /\ part = "work" => [T!Next]_(T!vars)
      /\ part = "files" => [F!Next]_(F!vars)
      /\ part = "circles" => [U!Next]_(U!vars)
      /\ part = "projects" => [P!Next]_(P!vars)
  BY DEF workVars, T!vars, F!vars, U!vars, P!vars
<1>2. /\ part = "positions" => [O(Positions)!Next]_(O(Positions)!vars)
      /\ part # "positions" => [O(Tree)!Next]_(O(Tree)!vars)
  BY DEF nodeVars, O!vars
<1>3. [I!Next]_(I!vars) /\ [D!Next]_(D!vars) /\ [Q!Next]_(Q!vars) /\ [C!Next]_(C!vars)
  BY DEF ticketVars, teamVars, qualityVars, caseVars, I!vars, D!vars, Q!vars, C!vars
<1>4. [A!Next]_(A!vars) /\ [M!Next]_(M!vars) /\ [B!Next]_(B!vars)
  BY DEF accountVars, mapVars, noteVars, A!vars, M!vars, B!vars
<1> QED
  BY <1>1, <1>2, <1>3, <1>4

------------------------------------------------------------------------------
(* Work items.                                                                *)

\* Each of the parts of work items keeps the invariant of its component.
WorkPartsInv ==
    /\ part = "work" => T!GoodWork
    /\ part = "files" => F!FilterInv
    /\ part = "circles" => U!GoodWork
    /\ part = "projects" => P!FilterInv

LEMMA WorkPartsStart == Init => WorkPartsInv
<1> SUFFICES ASSUME Init PROVE WorkPartsInv
  OBVIOUS
<1>1. CASE part = "work"
  <2>1. T!Init
    BY <1>1 DEF Init
  <2> QED
    BY <1>1, <2>1, OfficeParameters, T!InitGood DEF WorkPartsInv
<1>2. CASE part = "files"
  <2>1. F!Init
    BY <1>2 DEF Init
  <2> QED
    BY <1>2, <2>1, OfficeParameters, F!InitFilters DEF WorkPartsInv
<1>3. CASE part = "circles"
  <2>1. U!Init
    BY <1>3 DEF Init
  <2> QED
    BY <1>3, <2>1, OfficeParameters, U!InitGood DEF WorkPartsInv
<1>4. CASE part = "projects"
  <2>1. P!Init
    BY <1>4 DEF Init
  <2> QED
    BY <1>4, <2>1, OfficeParameters, P!InitFilters DEF WorkPartsInv
<1> QED
  BY <1>1, <1>2, <1>3, <1>4 DEF WorkPartsInv

LEMMA WorkPartsKeep ==
    ASSUME WorkPartsInv, [Next]_vars
    PROVE  WorkPartsInv'
<1>1. part = "work" => T!GoodWork'
  BY PartsMove, OfficeParameters, T!NextKeeps DEF WorkPartsInv
<1>2. part = "files" => F!FilterInv'
  BY PartsMove, OfficeParameters, F!NextFilters DEF WorkPartsInv
<1>3. part = "circles" => U!GoodWork'
  BY PartsMove, OfficeParameters, U!NextKeeps DEF WorkPartsInv
<1>4. part = "projects" => P!FilterInv'
  BY PartsMove, OfficeParameters, P!NextFilters DEF WorkPartsInv
<1> QED
  BY <1>1, <1>2, <1>3, <1>4, PartsMove DEF WorkPartsInv

\* Completed work keeps no open subtask, dependency or checklist item, in each of the ways the
\* composition bounds it (tasks.service.ts).
THEOREM CompletedStaysFinished == Spec => []CompletedIsFinished
<1>1. Init => WorkPartsInv
  BY WorkPartsStart
<1>2. WorkPartsInv /\ [Next]_vars => WorkPartsInv'
  BY WorkPartsKeep
<1>3. WorkPartsInv => CompletedIsFinished
  BY DEF WorkPartsInv, CompletedIsFinished, T!GoodWork, F!FilterInv, F!GoodWork, U!GoodWork,
         P!FilterInv, P!GoodWork
<1> QED
  BY <1>1, <1>2, <1>3, PTL DEF Spec

\* No chain of dependencies and subtasks comes back to where it started (wouldCycle).
THEOREM WorkStaysAcyclic == Spec => []NoCircularWork
<1>1. Init => WorkPartsInv
  BY WorkPartsStart
<1>2. WorkPartsInv /\ [Next]_vars => WorkPartsInv'
  BY WorkPartsKeep
<1>3. WorkPartsInv => NoCircularWork
  BY DEF WorkPartsInv, NoCircularWork, T!GoodWork, U!GoodWork
<1> QED
  BY <1>1, <1>2, <1>3, PTL DEF Spec

------------------------------------------------------------------------------
(* IT tickets.                                                                *)

TicketPage == [stage: {"ticket", "shown", "begun"}, user: Support.users, id: Support.tickets,
               row: I!Ticket, entries: SUBSET Nat]

\* After the first v entries of a log the status is s.
StatusAt(log, s, v) ==
    \E i \in 1..v : log[i].status = s /\ \A j \in i + 1 .. v : log[j].status = None

\* What TicketIsConsistent says of a row.
SoundStamps(row) ==
    /\ row.closed <=> row.status \in I!ended
    /\ row.status = "RESOLVED" => row.resolved
    /\ row.status \in I!openStatuses => ~row.resolved

\* Every change has one entry, and its place in the log is the version it made.
SoundLog(log) ==
    /\ log \in Seq(I!Entry)
    /\ \A i \in 1..Len(log) : /\ log[i].ticketVersion = i
                              /\ log[i].status # None => log[i].public
                              /\ log[i].seen = i - 1

FilesOf(log) == {i \in DOMAIN log : log[i].file}

SoundTicket(row, log) ==
    /\ SoundLog(log)
    /\ row = I!Absent => log = <<>>
    /\ row # I!Absent => /\ row \in I!Ticket
                         /\ row.version = Len(log)
                         /\ StatusAt(log, row.status, Len(log))
                         /\ SoundStamps(row)
    /\ IsFiniteSet(FilesOf(log))
    /\ Cardinality(FilesOf(log)) <= Support.fileLimit

SoundPage(page, table, log) ==
    page # I!Blank =>
      /\ page \in TicketPage
      /\ page.row.version \in 1..Len(log[page.id])
      /\ StatusAt(log[page.id], page.row.status, page.row.version)
      /\ page.stage # "ticket" =>
           page.entries = I!EntriesUpTo(log[page.id], page.user, page.row.version)
      /\ page.stage = "begun" /\ page.row.version = table[page.id].version =>
           page.row = table[page.id]

TicketInv ==
    /\ DOMAIN tickets = Support.tickets
    /\ entries \in [Support.tickets -> Seq(I!Entry)]
    /\ DOMAIN pages = Support.pages
    /\ \A t \in Support.tickets : SoundTicket(tickets[t], entries[t])
    /\ \A p \in Support.pages : SoundPage(pages[p], tickets, entries)

TicketHistory == [t \in Support.tickets |-> [i \in DOMAIN entries[t] |-> entries[t][i].seen]]

LEMMA TicketsStart == I!Init => TicketInv
<1> SUFFICES ASSUME I!Init PROVE TicketInv
  OBVIOUS
<1>1. SoundTicket(I!Absent, <<>>)
  <2>1. FilesOf(<<>>) = {}
    BY DEF FilesOf
  <2>2. Cardinality(FilesOf(<<>>)) = 0 /\ IsFiniteSet(FilesOf(<<>>))
    BY <2>1, FS_EmptySet
  <2> QED
    BY <2>2, OfficeParameters DEF SoundTicket, SoundLog, I!ItAssumption
<1> QED
  BY <1>1 DEF I!Init, TicketInv, SoundPage

\* A log that grows tells the same of its first entries.
LEMMA LogsGrow ==
    ASSUME NEW log, SoundLog(log), NEW entry \in I!Entry,
           entry.ticketVersion = Len(log) + 1, entry.seen = Len(log),
           entry.status # None => entry.public
    PROVE  LET longer == Append(log, entry)
           IN  /\ SoundLog(longer) /\ Len(longer) = Len(log) + 1
               /\ \A i \in 1..Len(log) : longer[i] = log[i]
               /\ longer[Len(log) + 1] = entry
<1> DEFINE longer == Append(log, entry)
<1>1. log \in Seq(I!Entry)
  BY DEF SoundLog
<1>2. /\ longer \in Seq(I!Entry) /\ Len(longer) = Len(log) + 1
      /\ \A i \in 1..Len(log) : longer[i] = log[i]
      /\ longer[Len(log) + 1] = entry
  BY <1>1, AppendProperties
<1>3. Len(log) \in Nat
  BY <1>1, LenProperties
<1> HIDE DEF longer
<1>4. ASSUME NEW i \in 1..Len(longer)
      PROVE  /\ longer[i].ticketVersion = i
             /\ longer[i].status # None => longer[i].public
             /\ longer[i].seen = i - 1
  BY <1>2, <1>3 DEF SoundLog
<1> QED
  BY <1>2, <1>4 DEF SoundLog, longer

LEMMA StatusStays ==
    ASSUME NEW log, NEW longer, NEW n \in Nat, \A i \in 1..n : longer[i] = log[i],
           NEW v \in 0..n, NEW s
    PROVE  StatusAt(longer, s, v) <=> StatusAt(log, s, v)
BY DEF StatusAt

LEMMA EntriesStay ==
    ASSUME NEW log, SoundLog(log), NEW longer, SoundLog(longer), Len(longer) = Len(log) + 1,
           \A i \in 1..Len(log) : longer[i] = log[i], NEW v \in 0..Len(log), NEW u
    PROVE  I!EntriesUpTo(longer, u, v) = I!EntriesUpTo(log, u, v)
<1>1. log \in Seq(I!Entry) /\ longer \in Seq(I!Entry)
  BY DEF SoundLog
<1>2. DOMAIN log = 1..Len(log) /\ DOMAIN longer = 1..Len(longer) /\ Len(log) \in Nat
  BY <1>1, LenProperties
<1>3. ASSUME NEW i
      PROVE  i \in I!EntriesUpTo(longer, u, v) <=> i \in I!EntriesUpTo(log, u, v)
  <2>1. i \in DOMAIN longer /\ i \notin DOMAIN log => i = Len(log) + 1
    BY <1>2
  <2>2. i \in DOMAIN log => i \in DOMAIN longer /\ longer[i] = log[i]
    BY <1>2
  <2>3. i = Len(log) + 1 => ~(longer[i].ticketVersion <= v)
    BY <1>2 DEF SoundLog
  <2> QED
    BY <2>1, <2>2, <2>3 DEF I!EntriesUpTo, I!Visible
<1> QED
  BY <1>3

\* A write of a ticket adds the entry of its new version, ...
LEMMA TicketWrites ==
    ASSUME TicketInv, NEW t \in Support.tickets, NEW row \in I!Ticket, NEW entry \in I!Entry,
           row.version = Len(entries[t]) + 1,
           entry.ticketVersion = Len(entries[t]) + 1, entry.seen = Len(entries[t]),
           entry.status # None => entry.public,
           \/ entry.status = row.status
           \/ /\ entry.status = None
              /\ tickets[t] # I!Absent
              /\ row.status = tickets[t].status,
           SoundStamps(row),
           entry.file => Cardinality(FilesOf(entries[t])) < Support.fileLimit
    PROVE  LET log == Append(entries[t], entry)
           IN  /\ SoundTicket(row, log)
               /\ SoundLog(log)
               /\ Len(log) = Len(entries[t]) + 1
               /\ \A i \in 1..Len(entries[t]) : log[i] = entries[t][i]
               /\ StatusAt(log, row.status, Len(log))
<1> DEFINE old == entries[t]
           log == Append(old, entry)
<1>1. SoundTicket(tickets[t], old) /\ SoundLog(old)
  BY DEF TicketInv, SoundTicket
<1>2. /\ SoundLog(log) /\ Len(log) = Len(old) + 1
      /\ \A i \in 1..Len(old) : log[i] = old[i]
      /\ log[Len(old) + 1] = entry
  BY <1>1, LogsGrow
<1>3. Len(old) \in Nat /\ DOMAIN old = 1..Len(old) /\ DOMAIN log = 1..Len(log)
  BY <1>1, <1>2, LenProperties DEF SoundLog
<1>4. row # I!Absent
  BY <1>3 DEF I!Absent
<1>5. Support.fileLimit \in Nat
  BY OfficeParameters DEF I!ItAssumption
<1> HIDE DEF log
<1>6. StatusAt(log, row.status, Len(log))
  <2>1. CASE entry.status = row.status
    BY <1>2, <1>3, <2>1 DEF StatusAt
  <2>2. CASE entry.status = None /\ tickets[t] # I!Absent /\ row.status = tickets[t].status
    <3>1. StatusAt(old, row.status, Len(old))
      BY <1>1, <2>2 DEF SoundTicket
    <3>2. PICK i \in 1..Len(old) : old[i].status = row.status
                                  /\ \A j \in i + 1 .. Len(old) : old[j].status = None
      BY <3>1 DEF StatusAt
    <3>3. i \in 1..Len(log) /\ log[i].status = row.status
      BY <1>2, <1>3, <3>2
    <3>4. ASSUME NEW j \in i + 1 .. Len(log) PROVE log[j].status = None
      BY <1>2, <1>3, <2>2, <3>2
    <3> QED
      BY <3>3, <3>4 DEF StatusAt
  <2> QED
    BY <2>1, <2>2
<1>7. IsFiniteSet(FilesOf(log)) /\ Cardinality(FilesOf(log)) <= Support.fileLimit
  <2>1. IsFiniteSet(FilesOf(old)) /\ Cardinality(FilesOf(old)) <= Support.fileLimit
    BY <1>1 DEF SoundTicket
  <2>2. CASE entry.file
    <3>1. FilesOf(log) = FilesOf(old) \cup {Len(old) + 1}
      BY <1>2, <1>3, <2>2 DEF FilesOf
    <3>2. Len(old) + 1 \notin FilesOf(old)
      BY <1>3 DEF FilesOf
    <3>3. /\ IsFiniteSet(FilesOf(log))
          /\ Cardinality(FilesOf(log)) = Cardinality(FilesOf(old)) + 1
      BY <2>1, <3>1, <3>2, FS_AddElement
    <3>4. Cardinality(FilesOf(old)) \in Nat
      BY <2>1, FS_CardinalityType
    <3> QED
      BY <1>5, <2>2, <3>3, <3>4
  <2>3. CASE ~entry.file
    <3>1. FilesOf(log) = FilesOf(old)
      BY <1>2, <1>3, <2>3 DEF FilesOf
    <3> QED
      BY <2>1, <3>1
  <2> QED
    BY <2>2, <2>3
<1>8. SoundTicket(row, log)
  BY <1>2, <1>4, <1>6, <1>7 DEF SoundTicket
<1> QED
  BY <1>2, <1>6, <1>8 DEF log

\* ... which changes nothing in what the pages read before.
LEMMA PagesStay ==
    ASSUME TicketInv, NEW t \in Support.tickets, NEW row \in I!Ticket, NEW entry \in I!Entry,
           row.version = Len(entries[t]) + 1,
           LET log == Append(entries[t], entry)
           IN  /\ SoundLog(log)
               /\ Len(log) = Len(entries[t]) + 1
               /\ \A i \in 1..Len(entries[t]) : log[i] = entries[t][i],
           tickets' = [tickets EXCEPT ![t] = row],
           entries' = I!Logged(t, entry),
           NEW page, SoundPage(page, tickets, entries)
    PROVE  SoundPage(page, tickets', entries')
<1> SUFFICES ASSUME page # I!Blank PROVE SoundPage(page, tickets', entries')
  BY DEF SoundPage
<1> DEFINE id == page.id
           log == Append(entries[t], entry)
<1>1. page \in TicketPage /\ id \in Support.tickets
  BY DEF SoundPage, TicketPage
<1>2. CASE id # t
  <2>1. entries'[id] = entries[id] /\ tickets'[id] = tickets[id]
    BY <1>1, <1>2 DEF I!Logged, TicketInv
  <2> QED
    BY <2>1 DEF SoundPage
<1>3. CASE id = t
  <2>1. entries'[id] = log /\ tickets'[id] = row
    BY <1>1, <1>3 DEF I!Logged, TicketInv
  <2>2. SoundLog(entries[t])
    BY DEF TicketInv, SoundTicket
  <2>3. Len(entries[t]) \in Nat
    BY <2>2, LenProperties DEF SoundLog
  <2>4. page.row.version \in 1..Len(entries[t])
    BY <1>1, <1>3 DEF SoundPage
  <2> DEFINE old == entries[t]
             n   == Len(old)
             v   == page.row.version
             s   == page.row.status
  <2>8. /\ SoundLog(log) /\ Len(log) = n + 1 /\ \A i \in 1..n : log[i] = old[i]
        /\ SoundLog(old) /\ n \in Nat /\ v \in 0..n /\ v \in 0..Len(old)
        /\ StatusAt(old, s, v)
    BY <1>3, <2>2, <2>3, <2>4 DEF SoundPage
  <2> HIDE DEF log, n, v, s
  <2>5. StatusAt(log, s, v)
    BY <2>8, StatusStays
  <2>6. I!EntriesUpTo(log, page.user, v) = I!EntriesUpTo(old, page.user, v)
    <3> DEFINE u == page.user
    <3>1. Len(log) = Len(old) + 1 /\ \A i \in 1..Len(old) : log[i] = old[i]
      BY <2>8 DEF n
    <3> HIDE DEF old, u
    <3>2. I!EntriesUpTo(log, u, v) = I!EntriesUpTo(old, u, v)
      BY <2>8, <3>1, EntriesStay
    <3> QED
      BY <3>2 DEF u
  <2> QED
    BY <1>1, <1>3, <2>1, <2>3, <2>4, <2>5, <2>6, <2>8 DEF SoundPage, n, v, s
<1> QED
  BY <1>2, <1>3

\* Behind the row lock the ticket is the one the page has.
LEMMA ClaimedIsCurrent ==
    ASSUME TicketInv, NEW p \in Support.pages, I!Claims(p)
    PROVE  /\ pages[p] \in TicketPage
           /\ pages[p].row = tickets[pages[p].id]
           /\ tickets[pages[p].id] # I!Absent
           /\ pages[p].row \in I!Ticket
           /\ pages[p].row.version = Len(entries[pages[p].id])
           /\ SoundStamps(pages[p].row)
<1> DEFINE page == pages[p]
<1>1. page # I!Blank /\ page.stage = "begun" /\ tickets[page.id].version = page.row.version
  BY DEF I!Claims, I!Blank
<1>2. SoundPage(page, tickets, entries)
  BY DEF TicketInv
<1>3. page \in TicketPage /\ page.id \in Support.tickets
  BY <1>1, <1>2 DEF SoundPage, TicketPage
<1>4. page.row.version \in 1..Len(entries[page.id]) /\ page.row = tickets[page.id]
  BY <1>1, <1>2 DEF SoundPage
<1>5. SoundTicket(tickets[page.id], entries[page.id])
  BY <1>3 DEF TicketInv
<1>6. tickets[page.id] # I!Absent
  BY <1>4 DEF I!Absent
<1> QED
  BY <1>3, <1>4, <1>5, <1>6 DEF SoundTicket

\* The rest of a transaction keeps the invariant, when it logs the status it leaves.
LEMMA MutateKeeps ==
    ASSUME TicketInv, NEW p \in Support.pages, I!Claims(p),
           NEW row \in I!Ticket, row.version = pages[p].row.version, SoundStamps(row),
           NEW kind \in {"CREATED", "REPLY", "NOTE", "STATUS", "UPDATED"},
           NEW public \in BOOLEAN, NEW status \in I!Statuses \cup {None}, NEW file \in BOOLEAN,
           status # None => public,
           status = row.status \/ (status = None /\ row.status = pages[p].row.status),
           I!WithinQuota(pages[p].id, file),
           I!Mutate(p, row, kind, public, status, file)
    PROVE  /\ TicketInv'
           /\ \E entry : /\ entries' = I!Logged(pages[p].id, entry)
                         /\ entry.seen = Len(entries[pages[p].id])
<1> DEFINE page  == pages[p]
           t     == page.id
           after == [row EXCEPT !.version = @ + 1]
           entry == [kind |-> kind, public |-> public, status |-> status,
                     ticketVersion |-> after.version, file |-> file, seen |-> page.row.version]
           log   == Append(entries[t], entry)
           newer == [page EXCEPT !.stage = "shown", !.row = after,
                       !.entries = I!EntriesUpTo(log, page.user, after.version)]
<1>1. /\ page \in TicketPage /\ page.row = tickets[t] /\ tickets[t] # I!Absent
      /\ page.row \in I!Ticket /\ page.row.version = Len(entries[t])
  BY ClaimedIsCurrent
<1>2. t \in Support.tickets /\ page.user \in Support.users
  BY <1>1 DEF TicketPage
<1>3. Len(entries[t]) \in Nat
  BY <1>1 DEF I!Ticket
<1>4. /\ tickets' = [tickets EXCEPT ![t] = after]
      /\ entries' = I!Logged(t, entry)
      /\ pages' = [pages EXCEPT ![p] = newer]
  BY DEF I!Mutate
<1>5. after \in I!Ticket /\ after.version = Len(entries[t]) + 1 /\ after.status = row.status
  BY <1>1, <1>3 DEF I!Ticket
<1>6. SoundStamps(after)
  BY DEF SoundStamps, I!Ticket
<1>7. entry \in I!Entry
  BY <1>1, <1>3, <1>5 DEF I!Entry
<1>8. /\ entry.ticketVersion = Len(entries[t]) + 1 /\ entry.seen = Len(entries[t])
      /\ entry.status # None => entry.public
      /\ \/ entry.status = after.status
         \/ entry.status = None /\ tickets[t] # I!Absent /\ after.status = tickets[t].status
  BY <1>1, <1>5
<1>9. entry.file => Cardinality(FilesOf(entries[t])) < Support.fileLimit
  <2>1. I!Files(t) = FilesOf(entries[t])
    BY DEF I!Files, FilesOf
  <2>2. I!Cardinality(FilesOf(entries[t])) = Cardinality(FilesOf(entries[t]))
    BY DEF I!Cardinality, Cardinality
  <2> QED
    BY <2>1, <2>2 DEF I!WithinQuota
<1> HIDE DEF t, after, entry, newer
<1>10. /\ SoundTicket(after, log) /\ SoundLog(log) /\ Len(log) = Len(entries[t]) + 1
       /\ \A i \in 1..Len(entries[t]) : log[i] = entries[t][i]
       /\ StatusAt(log, after.status, Len(log))
  BY <1>2, <1>5, <1>6, <1>7, <1>8, <1>9, TicketWrites
<1>11. \A any : SoundPage(any, tickets, entries) => SoundPage(any, tickets', entries')
  BY <1>2, <1>4, <1>5, <1>7, <1>10, PagesStay
<1> HIDE DEF log
<1>12. entries' = [entries EXCEPT ![t] = log]
  BY <1>4 DEF I!Logged, log
<1>13. \A s \in Support.tickets : SoundTicket(tickets'[s], entries'[s])
  BY <1>2, <1>4, <1>10, <1>12 DEF TicketInv
<1>14. SoundPage(newer, tickets', entries')
  <2>1. I!EntriesUpTo(log, page.user, after.version) \in SUBSET Nat
    <3>1. DOMAIN log \subseteq Nat
      BY <1>10, LenProperties DEF SoundLog
    <3> QED
      BY <3>1 DEF I!EntriesUpTo
  <2>2. newer \in TicketPage
    BY <1>1, <1>5, <2>1 DEF newer, TicketPage
  <2>3. /\ newer.stage = "shown" /\ newer.row = after /\ newer.id = t /\ newer.user = page.user
        /\ newer.entries = I!EntriesUpTo(log, page.user, after.version)
    BY <1>1 DEF newer, TicketPage, t
  <2>4. entries'[t] = log
    BY <1>2, <1>12 DEF TicketInv
  <2> QED
    BY <1>3, <1>5, <1>10, <2>2, <2>3, <2>4 DEF SoundPage
<1>15. \A q \in Support.pages : SoundPage(pages'[q], tickets', entries')
  BY <1>4, <1>11, <1>14 DEF TicketInv
<1>16. entries' \in [Support.tickets -> Seq(I!Entry)]
  BY <1>10, <1>12 DEF TicketInv, SoundLog
<1> QED
  BY <1>4, <1>8, <1>13, <1>15, <1>16 DEF TicketInv, t

\* A change that is made from a page, whatever row it leaves.
LEMMA ReplyKeeps ==
    ASSUME TicketInv, NEW p \in Support.pages, I!reply(p)
    PROVE  /\ TicketInv'
           /\ \E entry : /\ entries' = I!Logged(pages[p].id, entry)
                         /\ entry.seen = Len(entries[pages[p].id])
<1> DEFINE u   == pages[p].user
           row == pages[p].row
<1>1. PICK public \in BOOLEAN, file \in BOOLEAN :
        LET next == IF public /\ row.requester = u /\ row.status = "WAITING_REQUESTER"
                    THEN "IN_PROGRESS" ELSE row.status
        IN  /\ row.status \notin I!ended
            /\ public \/ I!canManage(u)
            /\ I!WithinQuota(pages[p].id, file)
            /\ I!Mutate(p, [row EXCEPT !.status = next,
                              !.responded = @ \/ (public /\ I!canManage(u) /\ u # row.requester)],
                        IF public THEN "REPLY" ELSE "NOTE", public,
                        IF next # row.status THEN next ELSE None, file)
  BY DEF I!reply
<1> DEFINE next   == IF public /\ row.requester = u /\ row.status = "WAITING_REQUESTER"
                     THEN "IN_PROGRESS" ELSE row.status
           kind   == IF public THEN "REPLY" ELSE "NOTE"
           status == IF next # row.status THEN next ELSE None
           heard  == row.responded \/ (public /\ I!canManage(u) /\ u # row.requester)
           after  == [row EXCEPT !.status = next, !.responded = heard]
<1>2. /\ row \in I!Ticket /\ SoundStamps(row) /\ I!Claims(p)
  BY ClaimedIsCurrent DEF I!reply
<1>3. next \in I!Statuses /\ heard \in BOOLEAN
  BY <1>2 DEF I!Ticket, I!Statuses, I!openStatuses
<1>4. after \in I!Ticket /\ after.version = row.version /\ after.status = next
  BY <1>2, <1>3 DEF I!Ticket
<1>5. SoundStamps(after)
  <2>1. after.closed = row.closed /\ after.resolved = row.resolved
    BY <1>2 DEF I!Ticket
  <2> QED
    BY <1>2, <1>4, <2>1 DEF SoundStamps, I!openStatuses, I!ended
<1>6. I!Mutate(p, after, kind, public, status, file) /\ I!WithinQuota(pages[p].id, file)
  BY <1>1
<1>7. /\ kind \in {"CREATED", "REPLY", "NOTE", "STATUS", "UPDATED"}
      /\ status \in I!Statuses \cup {None}
      /\ status # None => public
      /\ status = after.status \/ (status = None /\ after.status = row.status)
  BY <1>3, <1>4
<1> HIDE DEF kind, status, after
<1> QED
  BY <1>2, <1>4, <1>5, <1>6, <1>7, MutateKeeps

LEMMA ActionKeeps ==
    ASSUME TicketInv, NEW p \in Support.pages, I!action(p)
    PROVE  /\ TicketInv'
           /\ \E entry : /\ entries' = I!Logged(pages[p].id, entry)
                         /\ entry.seen = Len(entries[pages[p].id])
<1> DEFINE row == pages[p].row
           base(act) == IF act = "REOPEN" THEN I!Reopened(row) ELSE [row EXCEPT !.closed = TRUE]
           status(act) == CASE act = "CONFIRM" -> "CLOSED"
                            [] act = "REOPEN"  -> "NEW"
                            [] act = "CANCEL"  -> "CANCELLED"
           after(act) == [base(act) EXCEPT !.status = status(act)]
<1>1. PICK act \in I!Available(pages[p].user, row) :
        I!Mutate(p, after(act), "STATUS", TRUE, status(act), FALSE)
  BY DEF I!action
<1>2. /\ row \in I!Ticket /\ SoundStamps(row) /\ I!Claims(p)
  BY ClaimedIsCurrent DEF I!action
<1>3. act \in {"CONFIRM", "REOPEN", "CANCEL"} /\ (act = "CONFIRM" => row.status = "RESOLVED")
      /\ (act = "CANCEL" => row.status \in I!openStatuses \cup {"RESOLVED"})
  BY <1>1, Zenon DEF I!Available
<1>4. status(act) \in I!Statuses
  BY <1>3 DEF I!Statuses, I!openStatuses, I!ended
<1>5. after(act) \in I!Ticket /\ after(act).version = row.version /\ after(act).status = status(act)
  BY <1>2, <1>3, <1>4 DEF I!Ticket, I!Reopened
<1>6. SoundStamps(after(act))
  <2>1. CASE act = "REOPEN"
    BY <1>2, <2>1 DEF I!Ticket, I!Reopened, SoundStamps, I!openStatuses, I!ended
  <2>2. CASE act = "CONFIRM"
    BY <1>2, <1>3, <2>2 DEF I!Ticket, SoundStamps, I!openStatuses, I!ended
  <2>3. CASE act = "CANCEL"
    BY <1>2, <1>3, <2>3 DEF I!Ticket, SoundStamps, I!openStatuses, I!ended
  <2> QED
    BY <1>3, <2>1, <2>2, <2>3
<1>7. I!WithinQuota(pages[p].id, FALSE)
  BY DEF I!WithinQuota
<1> DEFINE new == status(act)
           changed == after(act)
<1>8. /\ new \in I!Statuses \cup {None} /\ changed \in I!Ticket /\ SoundStamps(changed)
      /\ changed.version = pages[p].row.version /\ new = changed.status
      /\ I!Mutate(p, changed, "STATUS", TRUE, new, FALSE)
  BY <1>1, <1>4, <1>5, <1>6
<1> HIDE DEF new, changed, status, after
<1> QED
  BY <1>2, <1>7, <1>8, MutateKeeps

LEMMA TriageKeeps ==
    ASSUME TicketInv, NEW p \in Support.pages, I!triage(p)
    PROVE  /\ TicketInv'
           /\ \E entry : /\ entries' = I!Logged(pages[p].id, entry)
                         /\ entry.seen = Len(entries[pages[p].id])
<1> DEFINE row == pages[p].row
<1>1. PICK status \in I!allowedStatuses(row.status), reason \in BOOLEAN,
           assignee \in {u \in Support.users : I!canManage(u)} \cup {None} :
        LET changed  == status # row.status
            reopened == changed /\ row.status \notin I!openStatuses /\ status = "IN_PROGRESS"
            after    == [(IF reopened THEN I!Reopened(row) ELSE row) EXCEPT
                           !.status = status, !.assignee = assignee,
                           !.responded = @ \/ (changed /\ reason /\ pages[p].user # row.requester)]
        IN  /\ changed /\ (status \in {"WAITING_REQUESTER", "WAITING_VENDOR", "RESOLVED", "CANCELLED"}
                              \/ reopened) => reason
            /\ I!Mutate(p, CASE changed /\ status = "RESOLVED"
                                  -> [after EXCEPT !.resolved = TRUE, !.closed = FALSE]
                             [] changed /\ status \in I!ended -> [after EXCEPT !.closed = TRUE]
                             [] OTHER                       -> after,
                        IF changed THEN "STATUS" ELSE "UPDATED", TRUE,
                        IF changed THEN status ELSE None, FALSE)
  BY Zenon DEF I!triage
<1> DEFINE changed  == status # row.status
           reopened == changed /\ row.status \notin I!openStatuses /\ status = "IN_PROGRESS"
           base     == IF reopened THEN I!Reopened(row) ELSE row
           after    == [base EXCEPT
                          !.status = status, !.assignee = assignee,
                          !.responded = @ \/ (changed /\ reason /\ pages[p].user # row.requester)]
           written  == CASE changed /\ status = "RESOLVED"
                              -> [after EXCEPT !.resolved = TRUE, !.closed = FALSE]
                         [] changed /\ status \in I!ended -> [after EXCEPT !.closed = TRUE]
                         [] OTHER                       -> after
           kind     == IF changed THEN "STATUS" ELSE "UPDATED"
           new      == IF changed THEN status ELSE None
<1>2. /\ row \in I!Ticket /\ SoundStamps(row) /\ I!Claims(p)
  BY ClaimedIsCurrent DEF I!triage
<1>3. /\ status \in I!Statuses
      /\ status \in I!openStatuses /\ changed /\ row.status \notin I!openStatuses => reopened
  BY <1>2 DEF I!allowedStatuses, I!Ticket, I!Statuses, I!openStatuses, I!ended
<1>4. /\ base \in I!Ticket /\ base.version = row.version
      /\ reopened => ~base.resolved /\ ~base.closed
      /\ ~reopened => base = row
  BY <1>2 DEF I!Ticket, I!Reopened
<1> HIDE DEF base
<1>5. /\ after \in I!Ticket /\ after.version = row.version /\ after.status = status
      /\ after.resolved = base.resolved /\ after.closed = base.closed
  BY <1>3, <1>4 DEF I!Ticket
<1> HIDE DEF after
<1>6. written \in I!Ticket /\ written.version = row.version /\ written.status = status
  BY <1>5 DEF I!Ticket
<1>7. SoundStamps(written)
  <2>1. CASE changed /\ status = "RESOLVED"
    BY <1>5, <2>1 DEF I!Ticket, SoundStamps, I!ended, I!openStatuses
  <2>2. CASE changed /\ status \in I!ended
    <3>1. written = [after EXCEPT !.closed = TRUE]
      BY <2>2 DEF I!ended
    <3> QED
      BY <1>5, <2>2, <3>1 DEF I!Ticket, SoundStamps, I!ended, I!openStatuses
  <2>3. CASE ~changed
    BY <1>2, <1>4, <1>5, <2>3 DEF SoundStamps
  <2>4. CASE changed /\ status \in I!openStatuses
    <3>1. written = after
      BY <2>4 DEF I!ended, I!openStatuses
    <3>2. CASE reopened
      BY <1>4, <1>5, <2>4, <3>1, <3>2 DEF SoundStamps, I!ended, I!openStatuses
    <3>3. CASE ~reopened
      BY <1>2, <1>3, <1>4, <1>5, <2>4, <3>1, <3>3 DEF SoundStamps, I!ended, I!openStatuses
    <3> QED
      BY <3>2, <3>3
  <2> QED
    BY <1>3, <2>1, <2>2, <2>3, <2>4 DEF I!Statuses
<1>8. /\ kind \in {"CREATED", "REPLY", "NOTE", "STATUS", "UPDATED"}
      /\ new \in I!Statuses \cup {None}
      /\ new = written.status \/ (new = None /\ written.status = row.status)
  BY <1>3, <1>6
<1>9. I!Mutate(p, written, kind, TRUE, new, FALSE)
  BY <1>1 DEF base, after
<1>10. I!WithinQuota(pages[p].id, FALSE)
  BY DEF I!WithinQuota
<1> HIDE DEF written, kind, new
<1> QED
  BY <1>2, <1>6, <1>7, <1>8, <1>9, <1>10, MutateKeeps

LEMMA TicketsKeep ==
    ASSUME TicketInv, [I!Next]_(I!vars)
    PROVE  /\ TicketInv'
           /\ \/ UNCHANGED entries
              \/ \E t \in Support.tickets : \E entry :
                   entries' = I!Logged(t, entry) /\ entry.seen = Len(entries[t])
<1> DEFINE logged == \/ UNCHANGED entries
                     \/ \E t \in Support.tickets : \E entry :
                          entries' = I!Logged(t, entry) /\ entry.seen = Len(entries[t])
<1>1. CASE UNCHANGED I!vars
  BY <1>1 DEF I!vars, TicketInv
<1>2. ASSUME NEW u \in Support.users, I!create(u) PROVE TicketInv' /\ logged
  <2>1. PICK t \in Support.tickets \ I!Filed, file \in BOOLEAN :
          /\ tickets' = [tickets EXCEPT ![t] =
               [requester |-> u, assignee |-> None, status |-> "NEW", version |-> 1,
                responded |-> FALSE, resolved |-> FALSE, closed |-> FALSE]]
          /\ entries' = I!Logged(t, [kind |-> "CREATED", public |-> TRUE, status |-> "NEW",
                                     ticketVersion |-> 1, file |-> file, seen |-> 0])
          /\ UNCHANGED pages
    BY <1>2 DEF I!create
  <2> DEFINE row == [requester |-> u, assignee |-> None, status |-> "NEW", version |-> 1,
                     responded |-> FALSE, resolved |-> FALSE, closed |-> FALSE]
             entry == [kind |-> "CREATED", public |-> TRUE, status |-> "NEW",
                       ticketVersion |-> 1, file |-> file, seen |-> 0]
             log == Append(entries[t], entry)
  <2>2. tickets[t] = I!Absent
    BY DEF I!Filed
  <2>3. entries[t] = <<>> /\ SoundLog(entries[t]) /\ Len(entries[t]) = 0
    BY <2>2 DEF TicketInv, SoundTicket
  <2>4. /\ row \in I!Ticket /\ entry \in I!Entry /\ SoundStamps(row)
        /\ row.version = Len(entries[t]) + 1
        /\ entry.ticketVersion = Len(entries[t]) + 1 /\ entry.seen = Len(entries[t])
        /\ entry.status # None => entry.public
        /\ entry.status = row.status
    BY <2>3 DEF I!Ticket, I!Entry, I!Statuses, I!openStatuses, I!ended, SoundStamps
  <2>5. Cardinality(FilesOf(entries[t])) < Support.fileLimit
    <3>1. FilesOf(entries[t]) = {}
      BY <2>3 DEF FilesOf
    <3> QED
      BY <3>1, FS_EmptySet, OfficeParameters DEF I!ItAssumption
  <2>13. t \in Support.tickets
    OBVIOUS
  <2> HIDE DEF row, entry
  <2>6. /\ SoundTicket(row, log) /\ SoundLog(log) /\ Len(log) = Len(entries[t]) + 1
        /\ \A i \in 1..Len(entries[t]) : log[i] = entries[t][i]
    BY <2>4, <2>5, <2>13, TicketWrites
  <2>7. tickets' = [tickets EXCEPT ![t] = row] /\ entries' = I!Logged(t, entry)
    BY <2>1 DEF row, entry
  <2>8. \A any : SoundPage(any, tickets, entries) => SoundPage(any, tickets', entries')
    BY <2>4, <2>6, <2>7, <2>13, PagesStay
  <2> HIDE DEF log
  <2>9. entries' = [entries EXCEPT ![t] = log]
    BY <2>7 DEF I!Logged, log
  <2>10. \A s \in Support.tickets : SoundTicket(tickets'[s], entries'[s])
    BY <2>6, <2>7, <2>9 DEF TicketInv
  <2>11. logged
    BY <2>3, <2>4, <2>7
  <2> HIDE DEF logged
  <2>12. log \in Seq(I!Entry)
    BY <2>6 DEF SoundLog
  <2> QED
    BY <2>1, <2>7, <2>8, <2>9, <2>10, <2>11, <2>12 DEF TicketInv
<1>3. ASSUME NEW p \in Support.pages, NEW u \in Support.users, I!Open(p, u)
      PROVE  TicketInv' /\ logged
  <2>1. PICK t \in I!Accessible(u) :
          /\ pages' = [pages EXCEPT ![p] = [stage |-> "ticket", user |-> u, id |-> t,
                                            row |-> tickets[t], entries |-> {}]]
          /\ UNCHANGED <<tickets, entries>>
    BY <1>3 DEF I!Open
  <2> DEFINE page == [stage |-> "ticket", user |-> u, id |-> t,
                      row |-> tickets[t], entries |-> {}]
  <2>2. t \in Support.tickets /\ tickets[t] # I!Absent
    BY DEF I!Accessible, I!Filed
  <2>3. /\ SoundLog(entries[t]) /\ tickets[t] \in I!Ticket
        /\ tickets[t].version = Len(entries[t])
        /\ StatusAt(entries[t], tickets[t].status, Len(entries[t]))
    BY <2>2 DEF TicketInv, SoundTicket
  <2>4. Len(entries[t]) \in Nat \ {0}
    BY <2>3, LenProperties DEF SoundLog, StatusAt
  <2>5. page \in TicketPage
    BY <2>2, <2>3 DEF TicketPage
  <2>6. SoundPage(page, tickets, entries)
    BY <2>3, <2>4, <2>5 DEF SoundPage
  <2> HIDE DEF page
  <2> QED
    BY <2>1, <2>6 DEF TicketInv, page
<1>4. ASSUME NEW p \in Support.pages, I!Load(p) PROVE TicketInv' /\ logged
  <2> DEFINE old  == pages[p]
             page == [old EXCEPT !.stage = "shown",
                        !.entries = I!EntriesUpTo(entries[old.id], old.user, old.row.version)]
  <2>1. SoundPage(old, tickets, entries) /\ old # I!Blank
    BY <1>4 DEF TicketInv, I!Load, I!Blank
  <2>2. old \in TicketPage
    BY <2>1 DEF SoundPage
  <2>3. I!EntriesUpTo(entries[old.id], old.user, old.row.version) \in SUBSET Nat
    <3>1. DOMAIN entries[old.id] \subseteq Nat
      BY <2>2, LenProperties DEF TicketInv, TicketPage
    <3> QED
      BY <3>1 DEF I!EntriesUpTo
  <2>4. page \in TicketPage
    BY <2>2, <2>3 DEF TicketPage
  <2>5. /\ page.stage = "shown" /\ page.user = old.user /\ page.id = old.id
        /\ page.row = old.row
        /\ page.entries = I!EntriesUpTo(entries[old.id], old.user, old.row.version)
    BY <2>2 DEF TicketPage
  <2>6. SoundPage(page, tickets, entries)
    BY <2>1, <2>4, <2>5 DEF SoundPage
  <2>7. pages' = [pages EXCEPT ![p] = page] /\ UNCHANGED <<tickets, entries>>
    BY <1>4 DEF I!Load
  <2> HIDE DEF page
  <2> QED
    BY <2>6, <2>7 DEF TicketInv
<1>5. ASSUME NEW p \in Support.pages, I!Begin(p) PROVE TicketInv' /\ logged
  <2> DEFINE old  == pages[p]
             page == [old EXCEPT !.stage = "begun", !.row = tickets[old.id]]
  <2>1. SoundPage(old, tickets, entries) /\ old # I!Blank /\ old.stage = "shown"
    BY <1>5 DEF TicketInv, I!Begin, I!Blank
  <2>2. old \in TicketPage /\ old.id \in Support.tickets
    BY <2>1 DEF SoundPage, TicketPage
  <2>3. old.row.version = tickets[old.id].version
    BY <1>5 DEF I!Begin
  <2>4. /\ tickets[old.id] \in I!Ticket
        /\ tickets[old.id].version \in 1..Len(entries[old.id])
        /\ StatusAt(entries[old.id], tickets[old.id].status, tickets[old.id].version)
        /\ old.entries = I!EntriesUpTo(entries[old.id], old.user, tickets[old.id].version)
    <3>1. tickets[old.id].version \in 1..Len(entries[old.id])
      BY <2>1, <2>3 DEF SoundPage
    <3>2. SoundTicket(tickets[old.id], entries[old.id]) /\ tickets[old.id] # I!Absent
      BY <2>2, <3>1 DEF TicketInv, I!Absent
    <3> QED
      BY <2>1, <2>3, <3>1, <3>2 DEF SoundTicket, SoundPage
  <2>5. page \in TicketPage
    BY <2>2, <2>4 DEF TicketPage
  <2>6. /\ page.stage = "begun" /\ page.user = old.user /\ page.id = old.id
        /\ page.row = tickets[old.id] /\ page.entries = old.entries
    BY <2>2 DEF TicketPage
  <2>7. SoundPage(page, tickets, entries)
    BY <2>4, <2>5, <2>6 DEF SoundPage
  <2>8. pages' = [pages EXCEPT ![p] = page] /\ UNCHANGED <<tickets, entries>>
    BY <1>5, <2>2 DEF I!Begin, TicketPage, TicketInv
  <2> HIDE DEF page
  <2> QED
    BY <2>7, <2>8 DEF TicketInv
<1>6. ASSUME NEW p \in Support.pages, I!Conflict(p) PROVE TicketInv' /\ logged
  BY <1>6 DEF I!Conflict, TicketInv, SoundPage
<1>7. ASSUME NEW p \in Support.pages, I!reply(p) \/ I!action(p) \/ I!triage(p)
      PROVE  TicketInv' /\ logged
  <2>1. pages[p].id \in Support.tickets
    BY <1>7, ClaimedIsCurrent DEF TicketPage, I!reply, I!action, I!triage
  <2> QED
    BY <1>7, <2>1, ReplyKeeps, ActionKeeps, TriageKeeps
<1> QED
  BY <1>1, <1>2, <1>3, <1>4, <1>5, <1>6, <1>7 DEF I!Next

LEMMA TicketsInvariant == Spec => []TicketInv
<1>1. Init => TicketInv
  BY TicketsStart DEF Init
<1>2. TicketInv /\ [Next]_vars => TicketInv'
  BY PartsMove, TicketsKeep
<1> QED
  BY <1>1, <1>2, PTL DEF Spec

\* The files of a ticket stay within the limit, counted after the lock and before the entry is
\* written, and its timestamps agree with its status through every way to end and reopen it
\* (it-support.service.ts).
THEOREM TicketsStayConsistent == Spec => []TicketIsConsistent
<1>1. TicketInv => TicketIsConsistent
  <2> SUFFICES ASSUME TicketInv, NEW t \in I!Filed
               PROVE  /\ I!Cardinality(I!Files(t)) <= Support.fileLimit
                      /\ tickets[t].closed <=> tickets[t].status \in I!ended
                      /\ tickets[t].status = "RESOLVED" => tickets[t].resolved
                      /\ tickets[t].status \in I!openStatuses => ~tickets[t].resolved
    BY DEF TicketIsConsistent, I!TicketIsConsistent
  <2>1. SoundTicket(tickets[t], entries[t]) /\ tickets[t] # I!Absent
    BY DEF TicketInv, I!Filed
  <2>2. I!Files(t) = FilesOf(entries[t])
    BY DEF I!Files, FilesOf
  <2>3. I!Cardinality(FilesOf(entries[t])) = Cardinality(FilesOf(entries[t]))
    BY DEF I!Cardinality, Cardinality
  <2> QED
    BY <2>1, <2>2, <2>3 DEF SoundTicket, SoundStamps
<1> QED
  BY <1>1, TicketsInvariant, PTL

\* A page that is put together from two reads, with changes between them, shows the ticket as
\* it was at its first read: its status is that of the last change of status it shows, and it
\* shows nothing that its reader may not see (it-support.service.ts, page).
THEOREM PagesShowOneVersion == Spec => []PageShowsOneVersion
<1>1. TicketInv => PageShowsOneVersion
  <2> SUFFICES ASSUME TicketInv, NEW p \in Support.pages, pages[p].stage = "shown"
               PROVE  LET page    == pages[p]
                          log     == entries[page.id]
                          changes == {i \in page.entries : log[i].status # None}
                      IN  /\ \A i \in page.entries : I!Visible(page.user, log[i])
                          /\ \E i \in changes : /\ \A j \in changes : j <= i
                                                /\ log[i].status = page.row.status
    BY DEF PageShowsOneVersion, I!PageShowsOneVersion
  <2> DEFINE page    == pages[p]
             log     == entries[page.id]
             changes == {i \in page.entries : log[i].status # None}
             v       == page.row.version
  <2>1. SoundPage(page, tickets, entries) /\ page # I!Blank
    BY DEF TicketInv, I!Blank
  <2>2. page \in TicketPage /\ v \in 1..Len(log) /\ StatusAt(log, page.row.status, v)
        /\ page.entries = I!EntriesUpTo(log, page.user, v)
    BY <2>1 DEF SoundPage
  <2>3. SoundLog(log)
    BY <2>2 DEF TicketPage, TicketInv, SoundTicket
  <2>4. page.row.status # None
    BY <2>2, OfficeParameters DEF TicketPage, I!Ticket, I!ItAssumption
  <2>5. Len(log) \in Nat /\ DOMAIN log = 1..Len(log)
    BY <2>3, LenProperties DEF SoundLog
  <2> HIDE DEF log, v, page
  <2>6. PICK i \in 1..v : log[i].status = page.row.status
                          /\ \A j \in i + 1 .. v : log[j].status = None
    BY <2>2 DEF StatusAt
  <2>7. i \in changes
    BY <2>2, <2>3, <2>4, <2>5, <2>6 DEF SoundLog, I!EntriesUpTo, I!Visible
  <2>8. ASSUME NEW j \in changes PROVE j <= i
    <3>1. j \in 1..v /\ log[j].status # None
      BY <2>2, <2>3, <2>5 DEF SoundLog, I!EntriesUpTo
    <3> QED
      BY <2>6, <3>1
  <2>9. \A j \in page.entries : I!Visible(page.user, log[j])
    BY <2>2 DEF I!EntriesUpTo
  <2> QED
    BY <2>6, <2>7, <2>8, <2>9 DEF log, page
<1> QED
  BY <1>1, TicketsInvariant, PTL

LEMMA CountsOn ==
    ASSUME NEW n \in Nat
    PROVE  Append([i \in 1..n |-> i - 1], n) = [i \in 1..n + 1 |-> i - 1]
<1> DEFINE before == [i \in 1..n |-> i - 1]
           longer == Append(before, n)
<1>1. before \in Seq(Nat) /\ Len(before) = n /\ \A i \in 1..n : before[i] = i - 1
  <2>1. before \in [1..n -> Nat]
    OBVIOUS
  <2>2. \A i \in 1..n : before[i] = i - 1
    OBVIOUS
  <2> HIDE DEF before
  <2>3. before \in Seq(Nat)
    BY <2>1, SeqDef
  <2> QED
    BY <2>1, <2>2, <2>3, LenProperties
<1> HIDE DEF before
<1>2. /\ longer \in Seq(Nat) /\ Len(longer) = n + 1
      /\ \A i \in 1..n : longer[i] = before[i]
      /\ longer[n + 1] = n
  BY <1>1, AppendProperties
<1> HIDE DEF longer
<1>3. longer \in [1..n + 1 -> Nat]
  BY <1>2, LenProperties
<1>4. \A i \in 1..n + 1 : longer[i] = i - 1
  BY <1>1, <1>2
<1>5. longer = [i \in 1..n + 1 |-> i - 1]
  BY <1>3, <1>4
<1> QED
  BY <1>5 DEF longer, before

\* Every change of a ticket names the version it was made from, which is the number of those
\* before it.
LEMMA TicketsRefine ==
    ASSUME TicketInv, [I!Next]_(I!vars)
    PROVE  [I!Record!Next]_TicketHistory
<1>1. CASE UNCHANGED entries
  BY <1>1 DEF TicketHistory
<1>2. ASSUME NEW t \in Support.tickets, NEW entry, entries' = I!Logged(t, entry),
             entry.seen = Len(entries[t])
      PROVE  I!Record!Next
  <2> DEFINE log == Append(entries[t], entry)
             seen(s) == [i \in DOMAIN s |-> s[i].seen]
  <2>1. entries' = [entries EXCEPT ![t] = log]
    BY <1>2 DEF I!Logged
  <2>2. entries[t] \in Seq(I!Entry) /\ DOMAIN entries = Support.tickets
    BY DEF TicketInv
  <2>3. Len(entries[t]) \in Nat /\ DOMAIN entries[t] = 1..Len(entries[t])
    BY <2>2, LenProperties
  <2>4. seen(log) = Append(seen(entries[t]), Len(seen(entries[t])))
    <3> DEFINE old == entries[t]
               n   == Len(old)
               S   == I!Entry \cup {entry}
    <3>1. /\ log \in Seq(S) /\ Len(log) = n + 1
          /\ \A i \in 1..n : log[i] = old[i]
          /\ log[n + 1] = entry
      <4>1. old \in Seq(S) /\ entry \in S
        BY <2>2
      <4> HIDE DEF S
      <4> QED
        BY <4>1, AppendProperties
    <3>2. DOMAIN log = 1..n + 1
      BY <3>1, LenProperties
    <3>3. SoundLog(old)
      BY DEF TicketInv, SoundTicket
    <3>4. seen(old) = [i \in 1..n |-> i - 1]
      BY <2>3, <3>3 DEF SoundLog
    <3>5. seen(log) = [i \in 1..n + 1 |-> i - 1]
      <4>1. \A i \in 1..n + 1 : log[i].seen = i - 1
        BY <1>2, <2>3, <3>1, <3>3 DEF SoundLog
      <4> HIDE DEF log
      <4> QED
        BY <3>2, <4>1
    <3>6. seen(old) \in Seq(Nat) /\ Len(seen(old)) = n
      <4> HIDE DEF old, seen
      <4>1. n \in Nat
        BY <2>3 DEF old
      <4>2. [i \in 1..n |-> i - 1] \in [1..n -> Nat]
        BY <4>1
      <4> QED
        BY <3>4, <4>1, <4>2, SeqDef, LenProperties
    <3>7. Append([i \in 1..n |-> i - 1], n) = [i \in 1..n + 1 |-> i - 1]
      BY <2>3, CountsOn
    <3> HIDE DEF seen, log, old, n
    <3>8. seen(log) = Append(seen(old), Len(seen(old)))
      BY <3>4, <3>5, <3>6, <3>7
    <3> QED
      BY <3>8 DEF old
  <2>5. TicketHistory' = [TicketHistory EXCEPT ![t] = seen(log)]
    BY <2>1, <2>2 DEF TicketHistory
  <2>6. TicketHistory[t] = seen(entries[t])
    BY DEF TicketHistory
  <2> QED
    BY <2>4, <2>5, <2>6 DEF I!Record!Next, I!Record!Save, TicketHistory
<1> QED
  BY <1>1, <1>2, TicketsKeep

LEMMA TicketsImplement == Spec => I!ImplementsRecord
<1>1. Init => I!Record!Init
  BY DEF Init, I!Init, I!Record!Init
<1>2. TicketInv /\ [Next]_vars => [I!Record!Next]_TicketHistory
  BY PartsMove, TicketsRefine
<1> QED
  BY <1>1, <1>2, TicketsInvariant, PTL
     DEF Spec, I!ImplementsRecord, I!Record!Spec, TicketHistory

------------------------------------------------------------------------------
(* The digital team.                                                          *)

TeamProject == [assigned: [D!Slots -> Team.members \cup {None}],
                activities: Seq({"CREATED", "UPDATED", "NOTE"})]

\* One write at a time, which has read the rows as they are.
TeamInv ==
    /\ members \in [Team.members -> D!Member \cup {D!Absent}]
    /\ projects \in [Team.projects -> TeamProject \cup {D!Blank}]
    /\ DOMAIN teamCalls = Team.requests
    /\ \A r \in Team.requests : D!Writes(r) =>
         /\ teamCalls[r].members = members
         /\ teamCalls[r].projects = projects
         /\ \A s \in Team.requests \ {r} : ~D!Writes(s)

LEMMA TeamStarts == D!Init => TeamInv
  BY DEF D!Init, TeamInv, D!Writes, D!Idle

\* The end of a write, whatever it has written.
LEMMA TeamCommits ==
    ASSUME TeamInv, NEW r \in Team.requests, D!Writes(r), D!Commit(r),
           members' \in [Team.members -> D!Member \cup {D!Absent}],
           projects' \in [Team.projects -> TeamProject \cup {D!Blank}]
    PROVE  TeamInv'
<1>1. teamCalls' = [teamCalls EXCEPT ![r] = D!Idle]
  BY DEF D!Commit
<1>2. \A s \in Team.requests : ~D!Writes(s)'
  BY <1>1 DEF TeamInv, D!Writes, D!Idle
<1> QED
  BY <1>1, <1>2 DEF TeamInv

LEMMA TeamKeeps ==
    ASSUME TeamInv, [D!Next]_(D!vars)
    PROVE  TeamInv'
<1>1. CASE UNCHANGED D!vars
  BY <1>1 DEF D!vars, TeamInv, D!Writes
<1>2. ASSUME NEW r \in Team.requests, D!Submit(r) PROVE TeamInv'
  BY <1>2 DEF D!Submit, TeamInv, D!Writes
<1>3. ASSUME NEW r \in Team.requests, D!Lock(r) PROVE TeamInv'
  BY <1>3 DEF D!Lock, D!Start, TeamInv, D!Writes
<1>4. ASSUME NEW r \in Team.requests, D!Rollback(r) PROVE TeamInv'
  BY <1>4, TeamCommits DEF D!Rollback, TeamInv
<1>5. ASSUME NEW r \in Team.requests, D!createMember(r) \/ D!updateMember(r) PROVE TeamInv'
  <2>1. members' \in [Team.members -> D!Member \cup {D!Absent}]
    <3>1. \E m \in Team.members : \E row \in D!Member : members' = [members EXCEPT ![m] = row]
      <4>1. CASE D!createMember(r)
        <5>1. PICK m \in Team.members, active \in BOOLEAN, account \in Team.accounts \cup {None} :
                members' = [members EXCEPT ![m] =
                  [active |-> active, account |-> account, version |-> 1]]
          BY <4>1 DEF D!createMember
        <5>2. [active |-> active, account |-> account, version |-> 1] \in D!Member
          BY OfficeParameters DEF D!Member, D!DigitalAssumption
        <5> QED
          BY <5>1, <5>2
      <4>2. CASE D!updateMember(r)
        <5>1. PICK m \in Team.members, active \in BOOLEAN, account \in Team.accounts \cup {None} :
                /\ members[m] # D!Absent
                /\ members[m].version < Team.maxSaves
                /\ members' = [members EXCEPT ![m] =
                     [active |-> active, account |-> account, version |-> members[m].version + 1]]
          BY <4>2 DEF D!updateMember, TeamInv
        <5>2. members[m].version \in 1..Team.maxSaves
          BY <5>1 DEF TeamInv, D!Member
        <5>3. [active |-> active, account |-> account, version |-> members[m].version + 1] \in D!Member
          BY <5>1, <5>2, OfficeParameters DEF D!Member, D!DigitalAssumption
        <5> QED
          BY <5>1, <5>3
      <4> QED
        BY <1>5, <4>1, <4>2
    <3> QED
      BY <3>1 DEF TeamInv
  <2> QED
    BY <1>5, <2>1, TeamCommits DEF D!createMember, D!updateMember, TeamInv
<1>6. ASSUME NEW r \in Team.requests,
             D!createProject(r) \/ D!updateProject(r) \/ D!addUpdate(r)
      PROVE  TeamInv'
  <2>1. projects' \in [Team.projects -> TeamProject \cup {D!Blank}]
    <3>1. CASE D!createProject(r)
      BY <3>1 DEF D!createProject, TeamInv, TeamProject
    <3>2. ASSUME NEW p \in Team.projects, D!Current(r, p), D!Writes(r)
          PROVE  projects[p] \in TeamProject
      BY <3>2 DEF D!Current, TeamInv
    <3>3. CASE D!updateProject(r)
      BY <3>2, <3>3 DEF D!updateProject, TeamInv, TeamProject
    <3>4. CASE D!addUpdate(r)
      <4>1. PICK p \in Team.projects :
              /\ D!Current(r, p)
              /\ projects' = [projects EXCEPT ![p].activities = Append(projects[p].activities, "NOTE")]
        BY <3>4 DEF D!addUpdate
      <4>2. projects[p] \in TeamProject
        BY <3>2, <3>4, <4>1 DEF D!addUpdate
      <4>3. [projects[p] EXCEPT !.activities = Append(projects[p].activities, "NOTE")] \in TeamProject
        <5>1. Append(projects[p].activities, "NOTE") \in Seq({"CREATED", "UPDATED", "NOTE"})
          <6>1. projects[p].activities \in Seq({"CREATED", "UPDATED", "NOTE"})
            BY <4>2 DEF TeamProject
          <6> HIDE <4>2
          <6> QED
            BY <6>1, AppendProperties
        <5> QED
          BY <4>2, <5>1 DEF TeamProject
      <4> QED
        BY <4>1, <4>3 DEF TeamInv
    <3> QED
      BY <1>6, <3>1, <3>3, <3>4
  <2> QED
    BY <1>6, <2>1, TeamCommits DEF D!createProject, D!updateProject, D!addUpdate, TeamInv
<1> QED
  BY <1>1, <1>2, <1>3, <1>4, <1>5, <1>6 DEF D!Next

\* Whoever gets an assignment was active when the rows were read, and they are as they were.
LEMMA TeamAssigns ==
    ASSUME TeamInv, [D!Next]_(D!vars), NEW p \in Team.projects, NEW s \in D!Slots,
           projects'[p] # D!Blank, projects'[p].assigned[s] # None
    PROVE  \/ projects[p] # D!Blank /\ projects[p].assigned[s] = projects'[p].assigned[s]
           \/ members'[projects'[p].assigned[s]].active
<1> DEFINE goal == \/ projects[p] # D!Blank /\ projects[p].assigned[s] = projects'[p].assigned[s]
                   \/ members'[projects'[p].assigned[s]].active
<1>1. CASE projects'[p] = projects[p]
  BY <1>1
<1>2. ASSUME NEW r \in Team.requests, D!createProject(r) PROVE goal
  <2>1. PICK q \in Team.projects, assigned \in [D!Slots -> Team.members \cup {None}] :
          /\ D!memberReferences(r, assigned, D!Unassigned)
          /\ projects' = [projects EXCEPT ![q] =
               [assigned |-> assigned, activities |-> <<"CREATED">>]]
    BY <1>2 DEF D!createProject
  <2>2. CASE q = p
    <3>1. projects'[p].assigned = assigned
      BY <2>1, <2>2 DEF TeamInv
    <3> QED
      BY <1>2, <2>1, <3>1 DEF D!createProject, D!memberReferences, D!Unassigned, TeamInv
  <2> QED
    BY <1>1, <2>1, <2>2 DEF TeamInv
<1>3. ASSUME NEW r \in Team.requests, D!updateProject(r) PROVE goal
  <2>1. PICK q \in Team.projects, assigned \in [D!Slots -> Team.members \cup {None}] :
          /\ D!Current(r, q)
          /\ D!memberReferences(r, assigned, teamCalls[r].projects[q].assigned)
          /\ projects' = [projects EXCEPT ![q] =
               [assigned |-> assigned, activities |-> Append(projects[q].activities, "UPDATED")]]
    BY <1>3 DEF D!updateProject
  <2>2. CASE q = p
    <3>1. projects'[p].assigned = assigned
      BY <2>1, <2>2 DEF TeamInv
    <3> QED
      BY <1>3, <2>1, <2>2, <3>1 DEF D!updateProject, D!memberReferences, D!Current, TeamInv
  <2> QED
    BY <1>1, <2>1, <2>2 DEF TeamInv
<1>4. ASSUME NEW r \in Team.requests, D!addUpdate(r) PROVE goal
  <2>1. PICK q \in Team.projects :
          /\ D!Current(r, q)
          /\ projects' = [projects EXCEPT ![q].activities = Append(projects[q].activities, "NOTE")]
    BY <1>4 DEF D!addUpdate
  <2>2. projects[q] \in TeamProject
    BY <1>4, <2>1 DEF D!Current, D!addUpdate, TeamInv
  <2>3. CASE q = p
    BY <2>1, <2>2, <2>3, <1>4 DEF TeamProject, TeamInv, D!Current, D!addUpdate
  <2> QED
    BY <1>1, <2>1, <2>3 DEF TeamInv
<1>5. CASE UNCHANGED projects
  BY <1>1, <1>5
<1> QED
  BY <1>2, <1>3, <1>4, <1>5
     DEF D!Next, D!vars, D!Submit, D!Lock, D!Start, D!Rollback, D!createMember, D!updateMember

\* Whoever gets an assignment he had not before is active when it is saved, although a project
\* and a member have versions of their own (digital-team.service.ts, memberReferences).
THEOREM AssigneesAreActive == Spec => NewAssignmentsAreActive
<1>1. Init => TeamInv
  BY TeamStarts DEF Init
<1>2. TeamInv /\ [Next]_vars => TeamInv'
  BY PartsMove, TeamKeeps
<1>3. TeamInv /\ [Next]_vars =>
        [\A p \in Team.projects, s \in D!Slots :
           LET m == projects'[p].assigned[s]
           IN  projects'[p] # D!Blank /\ m # None =>
                 \/ projects[p] # D!Blank /\ projects[p].assigned[s] = m
                 \/ members'[m].active]_(D!vars)
  BY PartsMove, TeamAssigns
<1> QED
  BY <1>1, <1>2, <1>3, PTL DEF Spec, NewAssignmentsAreActive, D!NewAssignmentsAreActive

------------------------------------------------------------------------------
(* The organisation chart.  Its two parts are two charts with different       *)
(* parameters, of which this much holds alike.                                *)

Node(chart) == O(chart)!OrgChartNode

\* Of what the holder of the lock has read, only an occupant may be gone meanwhile.
Kept(seen, now) ==
    /\ seen = [version |-> 0] <=> now = [version |-> 0]
    /\ now.version = seen.version
    /\ seen # [version |-> 0] => /\ now.parent = seen.parent
                                 /\ now.status = seen.status
                                 /\ now.revision = seen.revision
                                 /\ now.assignee \in {seen.assignee, None}

\* An acknowledgement is by the occupant, if there is one, and of the present revision.
Acknowledged(row) ==
    row.ack # None => /\ row.assignee \in {row.ack.user, None}
                      /\ row.ack.revision = row.revision

\* A revision is a change, so the bound on these bounds both.
ChartInv(chart) ==
    /\ nodes \in [chart.nodes -> Node(chart) \cup {O(chart)!Absent}]
    /\ DOMAIN nodeCalls = chart.requests
    /\ \A r \in chart.requests :
         /\ nodeCalls[r].state \in {"sent", "writing"} => nodeCalls[r].id \in chart.nodes
         /\ nodeCalls[r].state = "writing" =>
              /\ nodeCalls[r].seen \in [chart.nodes -> Node(chart) \cup {O(chart)!Absent}]
              /\ \A n \in chart.nodes : Kept(nodeCalls[r].seen[n], nodes[n])
              /\ \A s \in chart.requests \ {r} : nodeCalls[s].state # "writing"
    /\ \A n \in chart.nodes : nodes[n] # O(chart)!Absent =>
         Acknowledged(nodes[n]) /\ nodes[n].revision <= nodes[n].version

LEMMA ChartStarts == ASSUME NEW chart, O(chart)!Init PROVE ChartInv(chart)
  BY DEF O!Init, O!Idle, ChartInv

LEMMA AbsentIsNoNode == \A chart : O(chart)!Absent \notin Node(chart)
  BY DEF O!Absent, Node, O!OrgChartNode

\* A write leaves a row that is acknowledged by its occupant or not at all.
LEMMA ChartWrites ==
    ASSUME NEW chart, ChartInv(chart), NEW r \in chart.requests,
           nodeCalls[r].state = "writing", O(chart)!Commit(r),
           NEW o \in chart.nodes, NEW row \in Node(chart),
           Acknowledged(row), row.revision <= row.version,
           nodes' = [nodes EXCEPT ![o] = row]
    PROVE  ChartInv(chart)'
<1>1. nodeCalls' = [nodeCalls EXCEPT ![r] = O(chart)!Idle]
  BY DEF O!Commit
<1>2. \A s \in chart.requests : nodeCalls'[s].state # "writing"
  BY <1>1 DEF ChartInv, O!Idle
<1>3. \A s \in chart.requests : nodeCalls'[s].state = "sent" => nodeCalls'[s] = nodeCalls[s]
  BY <1>1 DEF ChartInv, O!Idle
<1>4. nodes' \in [chart.nodes -> Node(chart) \cup {O(chart)!Absent}]
  BY DEF ChartInv
<1>5. \A n \in chart.nodes : nodes'[n] # O(chart)!Absent =>
        Acknowledged(nodes'[n]) /\ nodes'[n].revision <= nodes'[n].version
  BY DEF ChartInv
<1> QED
  BY <1>1, <1>2, <1>3, <1>4, <1>5 DEF ChartInv

LEMMA ChartChanges ==
    ASSUME NEW chart, ChartInv(chart), NEW r \in chart.requests, O(chart)!Changes(r)
    PROVE  /\ nodeCalls[r].state = "writing"
           /\ O(chart)!Of(r) \in chart.nodes
           /\ O(chart)!Before(r) \in Node(chart)
           /\ nodes[O(chart)!Of(r)] \in Node(chart)
           /\ O(chart)!Before(r).parent = nodes[O(chart)!Of(r)].parent
           /\ O(chart)!Before(r).status = nodes[O(chart)!Of(r)].status
           /\ O(chart)!Before(r).revision = nodes[O(chart)!Of(r)].revision
           /\ nodes[O(chart)!Of(r)].assignee \in {O(chart)!Before(r).assignee, None}
           /\ Acknowledged(nodes[O(chart)!Of(r)])
           /\ nodes[O(chart)!Of(r)].revision <= nodes[O(chart)!Of(r)].version
           /\ nodes[O(chart)!Of(r)].version < chart.maxVersion
<1>1. /\ nodeCalls[r].state = "writing" /\ O(chart)!Before(r) # O(chart)!Absent
      /\ O(chart)!Before(r).version < chart.maxVersion
  BY DEF O!Changes
<1>2. O(chart)!Of(r) \in chart.nodes /\ O(chart)!Before(r) \in Node(chart)
      /\ Kept(O(chart)!Before(r), nodes[O(chart)!Of(r)])
  BY <1>1 DEF ChartInv, O!Of, O!Before
<1>3. nodes[O(chart)!Of(r)] # O(chart)!Absent
  BY <1>1, <1>2 DEF Kept, O!Absent
<1> QED
  BY <1>1, <1>2, <1>3 DEF ChartInv, Kept, O!Absent

LEMMA ChartSaves ==
    ASSUME NEW chart, O(chart)!OrganizationAssumption, ChartInv(chart),
           NEW r \in chart.requests, O(chart)!Changes(r),
           NEW node \in Node(chart), Acknowledged(node),
           node.revision <= nodes[O(chart)!Of(r)].version + 1, O(chart)!Save(r, node)
    PROVE  ChartInv(chart)'
<1> DEFINE o   == O(chart)!Of(r)
           row == [node EXCEPT !.version = nodes[o].version + 1]
<1>1. /\ nodeCalls[r].state = "writing" /\ o \in chart.nodes /\ nodes[o] \in Node(chart)
      /\ nodes[o].version < chart.maxVersion
  BY ChartChanges
<1>2. nodes' = [nodes EXCEPT ![o] = row] /\ O(chart)!Commit(r)
  BY DEF O!Save
<1>3. nodes[o].version + 1 \in 1..chart.maxVersion
  BY <1>1 DEF Node, O!OrgChartNode, O!OrganizationAssumption
<1>4. row \in Node(chart) /\ row.ack = node.ack /\ row.assignee = node.assignee
      /\ row.revision = node.revision /\ row.version = nodes[o].version + 1
  BY <1>3 DEF Node, O!OrgChartNode
<1> HIDE DEF row
<1>5. Acknowledged(row) /\ row.revision <= row.version
  BY <1>4 DEF Acknowledged
<1> HIDE DEF o
<1> QED
  BY <1>1, <1>2, <1>4, <1>5, ChartWrites

\* The account of an occupant is deleted.
LEMMA FreedRows ==
    ASSUME NEW chart, ChartInv(chart), NEW u \in chart.people, O(chart)!deletePerson(u),
           NEW n \in chart.nodes
    PROVE  \/ nodes'[n] = nodes[n]
           \/ /\ nodes[n] # O(chart)!Absent /\ nodes'[n] # O(chart)!Absent
              /\ nodes'[n] \in Node(chart) /\ Acknowledged(nodes'[n])
              /\ nodes'[n].assignee = None
              /\ nodes'[n].parent = nodes[n].parent
              /\ nodes'[n].status = nodes[n].status
              /\ nodes'[n].version = nodes[n].version
              /\ nodes'[n].revision = nodes[n].revision
<1> SUFFICES ASSUME nodes[n] # O(chart)!Absent, nodes'[n] = [nodes[n] EXCEPT !.assignee = None]
             PROVE  /\ nodes'[n] # O(chart)!Absent
                    /\ nodes'[n] \in Node(chart) /\ Acknowledged(nodes'[n])
                    /\ nodes'[n].assignee = None
                    /\ nodes'[n].parent = nodes[n].parent
                    /\ nodes'[n].status = nodes[n].status
                    /\ nodes'[n].version = nodes[n].version
                    /\ nodes'[n].revision = nodes[n].revision
  BY DEF O!deletePerson
<1> DEFINE row   == nodes[n]
           freed == [row EXCEPT !.assignee = None]
<1>1. nodes'[n] = freed /\ row \in Node(chart) /\ Acknowledged(row)
  BY DEF ChartInv
<1>2. /\ freed \in Node(chart) /\ freed.assignee = None /\ freed.ack = row.ack
      /\ freed.parent = row.parent /\ freed.status = row.status
      /\ freed.version = row.version /\ freed.revision = row.revision
  <2> HIDE DEF row
  <2> QED
    BY <1>1 DEF Node, O!OrgChartNode
<1> HIDE DEF freed
<1>3. Acknowledged(freed)
  BY <1>1, <1>2 DEF Acknowledged
<1> QED
  BY <1>1, <1>2, <1>3, AbsentIsNoNode

LEMMA ChartKeeps ==
    ASSUME NEW chart, O(chart)!OrganizationAssumption, ChartInv(chart),
           [O(chart)!Next]_(O(chart)!vars)
    PROVE  ChartInv(chart)'
<1>1. CASE UNCHANGED O(chart)!vars
  BY <1>1 DEF O!vars, ChartInv
<1>2. ASSUME NEW r \in chart.requests, O(chart)!Submit(r) PROVE ChartInv(chart)'
  BY <1>2 DEF O!Submit, O!Idle, ChartInv
<1>3. ASSUME NEW r \in chart.requests, O(chart)!Lock(r) PROVE ChartInv(chart)'
  <2>1. \A n \in chart.nodes : Kept(nodes[n], nodes[n])
    BY DEF Kept
  <2> QED
    BY <1>3, <2>1 DEF O!Lock, O!Start, ChartInv
<1>4. ASSUME NEW r \in chart.requests, O(chart)!Rollback(r) PROVE ChartInv(chart)'
  BY <1>4 DEF O!Rollback, O!Commit, O!Idle, ChartInv
<1>5. ASSUME NEW r \in chart.requests, O(chart)!create(r) PROVE ChartInv(chart)'
  <2>1. PICK parent \in chart.nodes \cup {None}, kind \in {"POSITION", "UNIT"} :
          nodes' = [nodes EXCEPT ![O(chart)!Of(r)] =
            [parent |-> parent, kind |-> kind, status |-> "DRAFT", assignee |-> None,
             revision |-> 1, version |-> 1, ack |-> None]]
    BY <1>5 DEF O!create
  <2> DEFINE row == [parent |-> parent, kind |-> kind, status |-> "DRAFT", assignee |-> None,
                     revision |-> 1, version |-> 1, ack |-> None]
  <2>2. row \in Node(chart) /\ Acknowledged(row) /\ row.revision <= row.version
    BY DEF Node, O!OrgChartNode, O!OrganizationAssumption, Acknowledged
  <2>3. nodeCalls[r].state = "writing" /\ O(chart)!Commit(r) /\ O(chart)!Of(r) \in chart.nodes
    BY <1>5 DEF O!create, O!Of, ChartInv
  <2> HIDE DEF row
  <2>4. nodes' = [nodes EXCEPT ![O(chart)!Of(r)] = row]
    BY <2>1 DEF row
  <2> QED
    BY <2>2, <2>3, <2>4, ChartWrites
<1>6. ASSUME NEW r \in chart.requests,
             \/ O(chart)!update(r) \/ O(chart)!assign(r) \/ O(chart)!approve(r)
             \/ O(chart)!acknowledge(r) \/ O(chart)!archive(r) \/ O(chart)!restore(r)
      PROVE  ChartInv(chart)'
  <2> DEFINE before == O(chart)!Before(r)
             old    == nodes[O(chart)!Of(r)]
  <2>1. /\ O(chart)!Changes(r) /\ old \in Node(chart) /\ before \in Node(chart)
        /\ Acknowledged(old) /\ old.revision <= old.version /\ old.version < chart.maxVersion
        /\ before.revision = old.revision /\ old.assignee \in {before.assignee, None}
    <3>1. O(chart)!Changes(r)
      BY <1>6, Zenon DEF O!update, O!assign, O!approve, O!acknowledge, O!archive, O!restore
    <3> QED
      BY <3>1, ChartChanges
  <2>2. /\ old.revision \in 1..chart.maxVersion /\ old.version \in 1..chart.maxVersion
        /\ chart.maxVersion \in Nat
    BY <2>1 DEF Node, O!OrgChartNode, O!OrganizationAssumption
  <2>3. CASE O(chart)!update(r)
    <3>1. PICK parent \in chart.nodes \cup {None}, kind \in {"POSITION", "UNIT"} :
            O(chart)!Save(r, [old EXCEPT !.parent = parent, !.kind = kind, !.status = "DRAFT",
                                         !.ack = None, !.revision = @ + 1])
      BY <2>3, Zenon DEF O!update, O!Save
    <3> DEFINE node == [old EXCEPT !.parent = parent, !.kind = kind, !.status = "DRAFT",
                                   !.ack = None, !.revision = @ + 1]
    <3>2. node \in Node(chart) /\ node.ack = None /\ node.revision = old.revision + 1
      <4>1. old.revision + 1 \in 1..chart.maxVersion
        BY <2>1, <2>2
      <4> HIDE DEF old
      <4> QED
        BY <2>1, <4>1 DEF Node, O!OrgChartNode
    <3>3. O(chart)!Save(r, node)
      BY <3>1
    <3> HIDE DEF node
    <3>4. Acknowledged(node) /\ node.revision <= old.version + 1
      BY <2>1, <2>2, <3>2 DEF Acknowledged
    <3> QED
      BY <2>1, <3>2, <3>3, <3>4, ChartSaves
  <2>4. CASE O(chart)!assign(r)
    <3>1. PICK user \in chart.people \cup {None} :
            O(chart)!Save(r, [old EXCEPT !.assignee = user, !.ack = None])
      BY <2>4, Zenon DEF O!assign, O!Save
    <3> DEFINE node == [old EXCEPT !.assignee = user, !.ack = None]
    <3>2. node \in Node(chart) /\ node.ack = None /\ node.revision = old.revision
      BY <2>1 DEF Node, O!OrgChartNode
    <3>3. O(chart)!Save(r, node)
      BY <3>1
    <3> HIDE DEF node
    <3>4. Acknowledged(node) /\ node.revision <= old.version + 1
      BY <2>1, <2>2, <3>2 DEF Acknowledged
    <3> QED
      BY <2>1, <3>2, <3>3, <3>4, ChartSaves
  <2>5. CASE O(chart)!approve(r) \/ O(chart)!archive(r)
    <3>1. PICK status \in {"APPROVED", "ARCHIVED"} :
            O(chart)!Save(r, [old EXCEPT !.status = status])
      BY <2>5 DEF O!approve, O!archive, O!Save
    <3> DEFINE node == [old EXCEPT !.status = status]
    <3>2. node \in Node(chart) /\ node.ack = old.ack /\ node.assignee = old.assignee
          /\ node.revision = old.revision
      BY <2>1 DEF Node, O!OrgChartNode
    <3>3. O(chart)!Save(r, node)
      BY <3>1
    <3> HIDE DEF node
    <3>4. Acknowledged(node) /\ node.revision <= old.version + 1
      BY <2>1, <2>2, <3>2 DEF Acknowledged
    <3> QED
      BY <2>1, <3>2, <3>3, <3>4, ChartSaves
  \* By whoever had the position when it was read, and it has been vacated at most since.
  <2>6. CASE O(chart)!acknowledge(r)
    <3> DEFINE ack  == [user |-> before.assignee, revision |-> before.revision]
               node == [old EXCEPT !.ack = ack]
    <3>1. ack \in [user: chart.people, revision: 1..chart.maxVersion]
      BY <2>1, <2>6 DEF O!acknowledge, Node, O!OrgChartNode
    <3>2. node \in Node(chart) /\ node.ack = ack /\ node.assignee = old.assignee
          /\ node.revision = old.revision
      <4> HIDE DEF ack
      <4> QED
        BY <2>1, <3>1 DEF Node, O!OrgChartNode
    <3>3. O(chart)!Save(r, node)
      BY <2>6 DEF O!acknowledge, O!Save
    <3> HIDE DEF node
    <3>4. Acknowledged(node) /\ node.revision <= old.version + 1
      BY <2>1, <2>2, <3>2 DEF Acknowledged
    <3> QED
      BY <2>1, <3>2, <3>3, <3>4, ChartSaves
  <2>7. CASE O(chart)!restore(r)
    <3> DEFINE node == [old EXCEPT !.status = "DRAFT", !.ack = None]
    <3>1. node \in Node(chart) /\ node.ack = None /\ node.revision = old.revision
      BY <2>1 DEF Node, O!OrgChartNode
    <3>2. O(chart)!Save(r, node)
      BY <2>7 DEF O!restore, O!Save
    <3> HIDE DEF node
    <3>3. Acknowledged(node) /\ node.revision <= old.version + 1
      BY <2>1, <2>2, <3>1 DEF Acknowledged
    <3> QED
      BY <2>1, <3>1, <3>2, <3>3, ChartSaves
  <2> QED
    BY <1>6, <2>3, <2>4, <2>5, <2>6, <2>7
<1>7. ASSUME NEW u \in chart.people, O(chart)!deletePerson(u) PROVE ChartInv(chart)'
  <2>1. ASSUME NEW n \in chart.nodes, nodes'[n] # nodes[n]
        PROVE  /\ nodes[n] # O(chart)!Absent /\ nodes'[n] # O(chart)!Absent
               /\ nodes'[n] \in Node(chart) /\ Acknowledged(nodes'[n])
               /\ nodes'[n].assignee = None
               /\ nodes'[n].parent = nodes[n].parent
               /\ nodes'[n].status = nodes[n].status
               /\ nodes'[n].version = nodes[n].version
               /\ nodes'[n].revision = nodes[n].revision
    BY <1>7, <2>1, FreedRows
  <2>2. nodes' \in [chart.nodes -> Node(chart) \cup {O(chart)!Absent}]
    <3>1. DOMAIN nodes' = chart.nodes /\ nodes' = [n \in DOMAIN nodes' |-> nodes'[n]]
      BY <1>7 DEF O!deletePerson
    <3>2. \A n \in chart.nodes : nodes'[n] \in Node(chart) \cup {O(chart)!Absent}
      BY <2>1 DEF ChartInv
    <3> QED
      BY <3>1, <3>2
  <2>3. \A n \in chart.nodes : nodes'[n] # O(chart)!Absent =>
          Acknowledged(nodes'[n]) /\ nodes'[n].revision <= nodes'[n].version
    BY <2>1 DEF ChartInv
  <2>4. ASSUME NEW seen, NEW n \in chart.nodes, Kept(seen, nodes[n]) PROVE Kept(seen, nodes'[n])
    BY <2>1, <2>4 DEF Kept, O!Absent
  <2>5. nodeCalls' = nodeCalls
    BY <1>7 DEF O!deletePerson
  <2> QED
    BY <2>2, <2>3, <2>4, <2>5 DEF ChartInv
<1> QED
  BY <1>1, <1>2, <1>3, <1>4, <1>5, <1>6, <1>7 DEF O!Next

NoOrphan == \A n \in O(Tree)!Current : nodes[n].parent \in O(Tree)!Current \cup {None}

\* Leads(S, n): going up from n never leaves S.
Leads(S, n) == \A k \in (S \cap O(Tree)!Recorded) \cup {n} : nodes[k].parent \in S \cup {None}

\* What is above a record is within a set without it.
NoCycle == \A n \in O(Tree)!Current : \E S \in SUBSET Tree.nodes : n \notin S /\ Leads(S, n)

TreeInv ==
    /\ ChartInv(Tree)
    /\ NoOrphan
    /\ NoCycle

LEMMA TreeStarts == O(Tree)!Init => TreeInv
  BY ChartStarts DEF O!Init, O!Idle, TreeInv, NoOrphan, NoCycle, O!Current, O!Recorded

\* A change that leaves the lines and what is archived as they are.
LEMMA TreeStands ==
    ASSUME TreeInv,
           \A n \in Tree.nodes :
             /\ nodes'[n] = O(Tree)!Absent <=> nodes[n] = O(Tree)!Absent
             /\ nodes[n] # O(Tree)!Absent =>
                  /\ nodes'[n].parent = nodes[n].parent
                  /\ nodes'[n].status = "ARCHIVED" <=> nodes[n].status = "ARCHIVED"
    PROVE  NoOrphan' /\ NoCycle'
<1>1. O(Tree)!Recorded' = O(Tree)!Recorded /\ O(Tree)!Current' = O(Tree)!Current
  BY DEF O!Recorded, O!Current
<1>2. \A n \in O(Tree)!Recorded : n \in Tree.nodes /\ nodes'[n].parent = nodes[n].parent
  BY DEF O!Recorded
<1>3. O(Tree)!Current \subseteq O(Tree)!Recorded
  BY DEF O!Current
<1>4. NoOrphan'
  BY <1>1, <1>2, <1>3 DEF TreeInv, NoOrphan
<1>5. ASSUME NEW S, NEW n \in O(Tree)!Current, Leads(S, n) PROVE Leads(S, n)'
  BY <1>1, <1>2, <1>3, <1>5 DEF Leads
<1>6. NoCycle'
  BY <1>1, <1>5 DEF TreeInv, NoCycle
<1> QED
  BY <1>4, <1>6

\* What a holder of the lock reads.
LEMMA TreeReads ==
    ASSUME TreeInv, NEW r \in Tree.requests, nodeCalls[r].state = "writing"
    PROVE  /\ O(Tree)!Of(r) \in Tree.nodes
           /\ \A n \in Tree.nodes : Kept(O(Tree)!Seen(r)[n], nodes[n])
           /\ O(Tree)!SeenLive(r) = O(Tree)!Current
           /\ \A n \in O(Tree)!Current : O(Tree)!Seen(r)[n].parent = nodes[n].parent
           /\ O(Tree)!Before(r) # O(Tree)!Absent => /\ O(Tree)!Before(r) \in Node(Tree)
                                                    /\ nodes[O(Tree)!Of(r)] \in Node(Tree)
<1>1. /\ O(Tree)!Of(r) \in Tree.nodes
      /\ \A n \in Tree.nodes : Kept(O(Tree)!Seen(r)[n], nodes[n])
  BY DEF TreeInv, ChartInv, O!Of, O!Seen
<1>2. O(Tree)!SeenLive(r) = O(Tree)!Current
  BY <1>1 DEF O!SeenLive, O!Current, O!Recorded, Kept, O!Absent
<1>3. \A n \in O(Tree)!Current : O(Tree)!Seen(r)[n].parent = nodes[n].parent
  BY <1>1 DEF O!Current, O!Recorded, Kept, O!Absent
<1>4. O(Tree)!Before(r) # O(Tree)!Absent => O(Tree)!Before(r) \in Node(Tree) /\ nodes[O(Tree)!Of(r)] \in Node(Tree)
  BY <1>1 DEF O!Before, O!Of, O!Seen, Kept, O!Absent, TreeInv, ChartInv
<1> QED
  BY <1>1, <1>2, <1>3, <1>4

\* The line above an accepted parent is live, leads nowhere else, and misses the record.
LEMMA LineLeads ==
    ASSUME TreeInv, NEW r \in Tree.requests, nodeCalls[r].state = "writing",
           NEW parent \in Tree.nodes \cup {None}, O(Tree)!MayReportTo(r, parent)
    PROVE  \E L \in SUBSET O(Tree)!Current :
             /\ parent \in L \cup {None}
             /\ O(Tree)!Of(r) \notin L
             /\ \A k \in L : nodes[k].parent \in L \cup {None}
<1> DEFINE L == O(Tree)!Line(r, parent)
           Closed(S) == /\ parent \in S \cup {None}
                        /\ \A k \in S \cap O(Tree)!Current : nodes[k].parent \in S \cup {None}
<1>1. /\ O(Tree)!SeenLive(r) = O(Tree)!Current
      /\ \A n \in O(Tree)!Current : O(Tree)!Seen(r)[n].parent = nodes[n].parent
  BY TreeReads
<1>2. L = {m \in Tree.nodes : \A S \in SUBSET Tree.nodes : Closed(S) => m \in S}
  BY <1>1 DEF O!Line
<1>3. L \subseteq O(Tree)!Current /\ O(Tree)!Of(r) \notin L
  BY <1>1 DEF O!MayReportTo
<1> HIDE DEF L
<1>4. parent \in L \cup {None}
  BY <1>2
<1>5. ASSUME NEW k \in L, nodes[k].parent # None PROVE nodes[k].parent \in L
  <2>1. nodes[k].parent \in Tree.nodes
    BY <1>3, <1>5 DEF TreeInv, ChartInv, Node, O!OrgChartNode, O!Current, O!Recorded
  <2>2. \A S \in SUBSET Tree.nodes : Closed(S) => nodes[k].parent \in S
    BY <1>2, <1>3, <1>5
  <2> QED
    BY <1>2, <2>1, <2>2
<1> QED
  BY <1>3, <1>4, <1>5

\* A record that is put below such a line, wherever it was before, makes no circle.
LEMMA TreePlaces ==
    ASSUME TreeInv, NEW o \in Tree.nodes, NEW row \in Node(Tree), row.status # "ARCHIVED",
           NEW L \in SUBSET O(Tree)!Current, o \notin L, row.parent \in L \cup {None},
           \A k \in L : nodes[k].parent \in L \cup {None},
           nodes' = [nodes EXCEPT ![o] = row]
    PROVE  NoOrphan' /\ NoCycle'
<1>1. row # O(Tree)!Absent
  BY DEF Node, O!OrgChartNode, O!Absent
<1>2. nodes'[o] = row /\ \A n \in Tree.nodes \ {o} : nodes'[n] = nodes[n]
  BY DEF TreeInv, ChartInv
<1>3. O(Tree)!Recorded' = O(Tree)!Recorded \cup {o} /\ O(Tree)!Current' = O(Tree)!Current \cup {o}
  BY <1>1, <1>2 DEF O!Recorded, O!Current
<1>4. O(Tree)!Current \subseteq O(Tree)!Recorded /\ O(Tree)!Recorded \subseteq Tree.nodes
  BY DEF O!Current, O!Recorded
<1>5. NoOrphan'
  BY <1>2, <1>3, <1>4 DEF TreeInv, NoOrphan
<1>6. ASSUME NEW n \in O(Tree)!Current' PROVE \E S \in SUBSET Tree.nodes : n \notin S /\ Leads(S, n)'
  <2>1. CASE n = o
    <3>1. Leads(L, o)'
      BY <1>2, <1>3, <1>4 DEF Leads
    <3> QED
      BY <1>4, <2>1, <3>1
  <2>2. CASE n # o
    <3>1. n \in O(Tree)!Current
      BY <1>3, <2>2
    <3>2. PICK S \in SUBSET Tree.nodes : n \notin S /\ Leads(S, n)
      BY <3>1 DEF TreeInv, NoCycle
    \* What leads up from n stays within the line, ...
    <3>3. CASE n \in L
      <4>1. Leads(S \cap L, n)'
        BY <1>2, <1>3, <1>4, <2>2, <3>2, <3>3 DEF Leads
      <4> QED
        BY <1>4, <3>2, <4>1
    \* ... or comes to it by way of the record at most.
    <3>4. CASE n \notin L
      <4>1. Leads(S \cup L, n)'
        BY <1>2, <1>3, <1>4, <2>2, <3>1, <3>2 DEF Leads
      <4> QED
        BY <1>4, <3>2, <3>4, <4>1
    <3> QED
      BY <3>3, <3>4
  <2> QED
    BY <2>1, <2>2
<1> QED
  BY <1>5, <1>6 DEF NoCycle

\* The other writes change a record that is there: its place, nothing of its place, or whether
\* it is archived.
LEMMA TreeSaves ==
    ASSUME TreeInv, ChartInv(Tree)', NEW r \in Tree.requests, O(Tree)!Changes(r),
           NEW node \in Node(Tree), O(Tree)!Save(r, node),
           LET row == nodes[O(Tree)!Of(r)]
           IN  \/ node.parent = row.parent /\ (node.status = "ARCHIVED" <=> row.status = "ARCHIVED")
               \/ /\ node.status # "ARCHIVED"
                  /\ \E L \in SUBSET O(Tree)!Current :
                       /\ node.parent \in L \cup {None} /\ O(Tree)!Of(r) \notin L
                       /\ \A k \in L : nodes[k].parent \in L \cup {None}
               \/ /\ node.parent = row.parent /\ node.status = "ARCHIVED"
                  /\ \A n \in O(Tree)!Current : nodes[n].parent # O(Tree)!Of(r)
    PROVE  NoOrphan' /\ NoCycle'
<1> DEFINE o   == O(Tree)!Of(r)
           row == [node EXCEPT !.version = nodes[o].version + 1]
<1>1. /\ o \in Tree.nodes /\ nodes[o] \in Node(Tree) /\ nodes[o] # O(Tree)!Absent
      /\ nodes[o].version < Tree.maxVersion
  BY ChartChanges, AbsentIsNoNode DEF TreeInv
<1>2. nodes[o].version + 1 \in 1..Tree.maxVersion
  BY <1>1, OfficeParameters DEF Node, O!OrgChartNode, O!OrganizationAssumption
<1>3. row \in Node(Tree) /\ row.status = node.status /\ row.parent = node.parent
  BY <1>2 DEF Node, O!OrgChartNode
<1>4. nodes' = [nodes EXCEPT ![o] = row]
  BY DEF O!Save
<1> HIDE DEF row, o
<1>5. row # O(Tree)!Absent
  BY <1>3, AbsentIsNoNode
<1>6. nodes'[o] = row /\ \A n \in Tree.nodes \ {o} : nodes'[n] = nodes[n]
  BY <1>1, <1>4 DEF TreeInv, ChartInv
<1>7. CASE /\ node.parent = nodes[o].parent
           /\ node.status = "ARCHIVED" <=> nodes[o].status = "ARCHIVED"
  BY <1>1, <1>3, <1>5, <1>6, <1>7, TreeStands
<1>8. CASE /\ node.status # "ARCHIVED"
           /\ \E L \in SUBSET O(Tree)!Current :
                /\ node.parent \in L \cup {None} /\ o \notin L
                /\ \A k \in L : nodes[k].parent \in L \cup {None}
  BY <1>1, <1>3, <1>4, <1>8, TreePlaces
<1>9. CASE /\ node.parent = nodes[o].parent /\ node.status = "ARCHIVED"
           /\ \A n \in O(Tree)!Current : nodes[n].parent # o
  <2>1. O(Tree)!Recorded' = O(Tree)!Recorded /\ O(Tree)!Current' = O(Tree)!Current \ {o}
    BY <1>1, <1>3, <1>5, <1>6, <1>9 DEF O!Recorded, O!Current
  <2>2. \A n \in Tree.nodes : nodes'[n].parent = nodes[n].parent
    BY <1>3, <1>6, <1>9
  <2>3. O(Tree)!Current \subseteq Tree.nodes /\ O(Tree)!Recorded \subseteq Tree.nodes
    BY DEF O!Current, O!Recorded
  <2>4. NoOrphan'
    BY <1>9, <2>1, <2>2, <2>3 DEF TreeInv, NoOrphan
  <2>5. ASSUME NEW S, NEW n \in O(Tree)!Current, Leads(S, n) PROVE Leads(S, n)'
    BY <2>1, <2>2, <2>3, <2>5 DEF Leads
  <2>6. NoCycle'
    BY <2>1, <2>5 DEF TreeInv, NoCycle
  <2> QED
    BY <2>4, <2>6
<1> QED
  BY <1>7, <1>8, <1>9 DEF o

LEMMA TreeKeeps ==
    ASSUME TreeInv, [O(Tree)!Next]_(O(Tree)!vars)
    PROVE  TreeInv'
<1>1. ChartInv(Tree)'
  BY ChartKeeps, OfficeParameters DEF TreeInv
<1>2. ASSUME nodes' = nodes PROVE NoOrphan' /\ NoCycle'
  BY <1>2, TreeStands
<1>3. ASSUME NEW r \in Tree.requests, O(Tree)!create(r) PROVE NoOrphan' /\ NoCycle'
  <2>1. PICK parent \in Tree.nodes \cup {None}, kind \in {"POSITION", "UNIT"} :
          /\ O(Tree)!MayReportTo(r, parent)
          /\ nodes' = [nodes EXCEPT ![O(Tree)!Of(r)] =
               [parent |-> parent, kind |-> kind, status |-> "DRAFT", assignee |-> None,
                revision |-> 1, version |-> 1, ack |-> None]]
    BY <1>3 DEF O!create
  <2> DEFINE o   == O(Tree)!Of(r)
             row == [parent |-> parent, kind |-> kind, status |-> "DRAFT", assignee |-> None,
                     revision |-> 1, version |-> 1, ack |-> None]
  <2>2. o \in Tree.nodes
    BY <1>3, TreeReads DEF O!create
  <2>3. row \in Node(Tree) /\ row.status # "ARCHIVED" /\ row.parent = parent
    BY OfficeParameters DEF Node, O!OrgChartNode, O!OrganizationAssumption
  <2>4. PICK L \in SUBSET O(Tree)!Current :
          parent \in L \cup {None} /\ o \notin L /\ \A k \in L : nodes[k].parent \in L \cup {None}
    BY <1>3, <2>1, LineLeads DEF O!create
  <2> HIDE DEF row, o
  <2>5. nodes' = [nodes EXCEPT ![o] = row]
    BY <2>1 DEF row, o
  <2> QED
    BY <2>2, <2>3, <2>4, <2>5, TreePlaces
<1>4. ASSUME NEW r \in Tree.requests,
             \/ O(Tree)!update(r) \/ O(Tree)!assign(r) \/ O(Tree)!approve(r)
             \/ O(Tree)!acknowledge(r) \/ O(Tree)!archive(r) \/ O(Tree)!restore(r)
      PROVE  NoOrphan' /\ NoCycle'
  <2> DEFINE before == O(Tree)!Before(r)
             old    == nodes[O(Tree)!Of(r)]
  <2>1. /\ O(Tree)!Changes(r) /\ nodeCalls[r].state = "writing"
        /\ old \in Node(Tree) /\ before \in Node(Tree)
        /\ old.revision <= old.version /\ old.version < Tree.maxVersion
        /\ before.status = old.status /\ before.revision = old.revision
        /\ before.parent = old.parent
    <3>1. O(Tree)!Changes(r) /\ ChartInv(Tree)
      BY <1>4, Zenon DEF O!update, O!assign, O!approve, O!acknowledge, O!archive, O!restore, TreeInv
    <3> QED
      BY <3>1, ChartChanges
  <2>2. CASE O(Tree)!update(r)
    <3>1. PICK parent \in Tree.nodes \cup {None}, kind \in {"POSITION", "UNIT"} :
            /\ O(Tree)!MayReportTo(r, parent)
            /\ O(Tree)!Save(r, [old EXCEPT !.parent = parent, !.kind = kind, !.status = "DRAFT",
                                           !.ack = None, !.revision = @ + 1])
      BY <2>2, Zenon DEF O!update, O!Save
    <3> DEFINE node == [old EXCEPT !.parent = parent, !.kind = kind, !.status = "DRAFT",
                                   !.ack = None, !.revision = @ + 1]
    <3>2. node \in Node(Tree) /\ node.status # "ARCHIVED" /\ node.parent = parent
      <4>1. old.revision + 1 \in 1..Tree.maxVersion
        BY <2>1, OfficeParameters DEF Node, O!OrgChartNode, O!OrganizationAssumption
      <4> HIDE DEF old
      <4> QED
        BY <2>1, <4>1 DEF Node, O!OrgChartNode
    <3>3. \E L \in SUBSET O(Tree)!Current :
            /\ parent \in L \cup {None} /\ O(Tree)!Of(r) \notin L
            /\ \A k \in L : nodes[k].parent \in L \cup {None}
      BY <2>1, <3>1, LineLeads
    <3>4. O(Tree)!Save(r, node)
      BY <3>1
    <3> HIDE DEF node
    <3> QED
      BY <1>1, <2>1, <3>2, <3>3, <3>4, TreeSaves
  <2>3. CASE O(Tree)!assign(r)
    <3>1. PICK user \in Tree.people \cup {None} :
            O(Tree)!Save(r, [old EXCEPT !.assignee = user, !.ack = None])
      BY <2>3, Zenon DEF O!assign, O!Save
    <3> DEFINE node == [old EXCEPT !.assignee = user, !.ack = None]
    <3>2. node \in Node(Tree) /\ node.parent = old.parent /\ node.status = old.status
      BY <2>1 DEF Node, O!OrgChartNode
    <3>3. O(Tree)!Save(r, node)
      BY <3>1
    <3> HIDE DEF node
    <3> QED
      BY <1>1, <2>1, <3>2, <3>3, TreeSaves
  <2>4. CASE O(Tree)!approve(r)
    <3> DEFINE node == [old EXCEPT !.status = "APPROVED"]
    <3>1. node \in Node(Tree) /\ node.parent = old.parent /\ node.status = "APPROVED"
          /\ old.status = "DRAFT"
      BY <2>1, <2>4 DEF Node, O!OrgChartNode, O!approve
    <3>2. O(Tree)!Save(r, node)
      BY <2>4 DEF O!approve, O!Save
    <3> HIDE DEF node
    <3> QED
      BY <1>1, <2>1, <3>1, <3>2, TreeSaves
  <2>5. CASE O(Tree)!acknowledge(r)
    <3> DEFINE ack  == [user |-> before.assignee, revision |-> before.revision]
               node == [old EXCEPT !.ack = ack]
    <3>1. ack \in [user: Tree.people, revision: 1..Tree.maxVersion]
      BY <2>1, <2>5 DEF O!acknowledge, Node, O!OrgChartNode
    <3>2. node \in Node(Tree) /\ node.parent = old.parent /\ node.status = old.status
      <4> HIDE DEF ack
      <4> QED
        BY <2>1, <3>1 DEF Node, O!OrgChartNode
    <3>3. O(Tree)!Save(r, node)
      BY <2>5 DEF O!acknowledge, O!Save
    <3> HIDE DEF node
    <3> QED
      BY <1>1, <2>1, <3>2, <3>3, TreeSaves
  <2>6. CASE O(Tree)!archive(r)
    <3> DEFINE node == [old EXCEPT !.status = "ARCHIVED"]
    <3>1. node \in Node(Tree) /\ node.parent = old.parent /\ node.status = "ARCHIVED"
      BY <2>1 DEF Node, O!OrgChartNode
    <3>2. \A n \in O(Tree)!Current : nodes[n].parent # O(Tree)!Of(r)
      BY <2>1, <2>6, TreeReads DEF O!archive
    <3>3. O(Tree)!Save(r, node)
      BY <2>6 DEF O!archive, O!Save
    <3> HIDE DEF node
    <3> QED
      BY <1>1, <2>1, <3>1, <3>2, <3>3, TreeSaves
  <2>7. CASE O(Tree)!restore(r)
    <3> DEFINE node == [old EXCEPT !.status = "DRAFT", !.ack = None]
    <3>1. old.status = "ARCHIVED" /\ old.parent \in O(Tree)!Current \cup {None}
      BY <2>1, <2>7, TreeReads DEF O!restore
    <3>2. node \in Node(Tree) /\ node.parent = old.parent /\ node.status # "ARCHIVED"
      BY <2>1 DEF Node, O!OrgChartNode
    <3>3. /\ O(Tree)!Of(r) \notin O(Tree)!Current
          /\ \A k \in O(Tree)!Current : nodes[k].parent \in O(Tree)!Current \cup {None}
      BY <3>1 DEF O!Current, TreeInv, NoOrphan
    <3>4. O(Tree)!Save(r, node)
      BY <2>7 DEF O!restore, O!Save
    <3> HIDE DEF node
    <3> QED
      BY <1>1, <2>1, <3>1, <3>2, <3>3, <3>4, TreeSaves
  <2> QED
    BY <1>4, <2>2, <2>3, <2>4, <2>5, <2>6, <2>7
<1>5. ASSUME NEW u \in Tree.people, O(Tree)!deletePerson(u) PROVE NoOrphan' /\ NoCycle'
  <2>1. ASSUME NEW n \in Tree.nodes
        PROVE  /\ nodes'[n] = O(Tree)!Absent <=> nodes[n] = O(Tree)!Absent
               /\ nodes[n] # O(Tree)!Absent => /\ nodes'[n].parent = nodes[n].parent
                                               /\ nodes'[n].status = nodes[n].status
    BY <1>5, FreedRows DEF TreeInv
  <2> QED
    BY <2>1, TreeStands
<1>6. NoOrphan' /\ NoCycle'
  BY <1>2, <1>3, <1>4, <1>5
     DEF O!Next, O!vars, O!Submit, O!Lock, O!Start, O!Rollback
<1> QED
  BY <1>1, <1>6 DEF TreeInv

LEMMA TreeInvariant == Spec => [](part = "tree" => TreeInv)
<1>1. Init => (part = "tree" => TreeInv)
  BY TreeStarts DEF Init
<1>2. (part = "tree" => TreeInv) /\ [Next]_vars => (part = "tree" => TreeInv)'
  BY PartsMove, TreeKeeps
<1> QED
  BY <1>1, <1>2, PTL DEF Spec

LEMMA TreeIsSound == Spec => [](part = "tree" => O(Tree)!NoCyclesOrOrphans)
<1>1. TreeInv => O(Tree)!NoCyclesOrOrphans
  <2> SUFFICES ASSUME TreeInv, NEW n \in O(Tree)!Current
               PROVE  n \notin O(Tree)!Above(n) /\ (n \in O(Tree)!Roots => nodes[n].parent = None)
    BY DEF O!NoCyclesOrOrphans
  <2>1. n \notin O(Tree)!Above(n)
    BY DEF TreeInv, NoCycle, Leads, O!Above
  <2>2. n \in O(Tree)!Roots => nodes[n].parent = None
    BY DEF TreeInv, NoOrphan, O!Roots
  <2> QED
    BY <2>1, <2>2
<1> QED
  BY <1>1, TreeInvariant, PTL

LEMMA PositionsAreSound == Spec => [](part = "positions" => O(Positions)!AcknowledgedByOccupant)
<1>1. Init => (part = "positions" => ChartInv(Positions))
  BY ChartStarts DEF Init
<1>2. (part = "positions" => ChartInv(Positions)) /\ [Next]_vars
        => (part = "positions" => ChartInv(Positions))'
  BY PartsMove, OfficeParameters, ChartKeeps
<1>3. ChartInv(Positions) => O(Positions)!AcknowledgedByOccupant
  BY DEF ChartInv, Acknowledged, O!AcknowledgedByOccupant, O!Recorded
<1> QED
  BY <1>1, <1>2, <1>3, PTL DEF Spec

------------------------------------------------------------------------------
(* Quality control.                                                           *)

\* Nothing is seeded any more once deletions are remembered.
DeletedInv ==
    /\ deleted \subseteq Q!Defaults
    /\ memo # "done" => deleted = {}
    /\ seeding # Q!Idle => memo = "pending"
    /\ DOMAIN items = Quality.items
    /\ Q!DeletedStaysDeleted

LEMMA QualityStarts == Q!Init => DeletedInv
  BY DEF Q!Init, Q!Idle, DeletedInv, Q!DeletedStaysDeleted

LEMMA QualityKeeps ==
    ASSUME DeletedInv, [Q!Next]_(Q!vars)
    PROVE  DeletedInv'
<1>1. CASE Q!ensureDefaultCards \/ Q!FindCards \/ Q!FindItems \/ Q!SeedingFails \/ Q!Restart
  BY <1>1 DEF Q!ensureDefaultCards, Q!FindCards, Q!FindItems, Q!SeedingFails, Q!Restart,
              Q!Idle, DeletedInv, Q!DeletedStaysDeleted
\* Seeding is under way, so nothing has been deleted since the first list.
<1>2. CASE Q!CreateItems
  BY <1>2 DEF Q!CreateItems, Q!Idle, DeletedInv, Q!DeletedStaysDeleted
<1>3. ASSUME NEW c \in Quality.cards, NEW code \in Quality.codes,
             Q!createCard(c, code) \/ Q!updateCard(c, code)
      PROVE  DeletedInv'
  BY <1>3 DEF Q!createCard, Q!updateCard, DeletedInv, Q!DeletedStaysDeleted
<1>4. ASSUME NEW c \in Quality.cards, NEW i \in Quality.items, NEW title, NEW isChecked,
             Q!createChecklistItem(c, i, title, isChecked)
      PROVE  DeletedInv'
  BY <1>4 DEF Q!createChecklistItem, DeletedInv, Q!DeletedStaysDeleted
<1>5. ASSUME NEW i \in Quality.items, NEW title, NEW isChecked,
             Q!updateChecklistItem(i, title, isChecked)
      PROVE  DeletedInv'
  BY <1>5 DEF Q!updateChecklistItem, DeletedInv, Q!DeletedStaysDeleted
<1>6. ASSUME NEW i \in Quality.items, Q!deleteChecklistItem(i)
      PROVE  DeletedInv'
  BY <1>6 DEF Q!deleteChecklistItem, DeletedInv, Q!DeletedStaysDeleted
<1>7. CASE UNCHANGED <<items, memo, seeding, deleted>>
  BY <1>7 DEF DeletedInv, Q!DeletedStaysDeleted
<1>8. ASSUME NEW c, NEW d, NEW status,
             Q!createDocument(c, d, status) \/ Q!updateDocument(d, status) \/ Q!deleteDocument(d)
      PROVE  UNCHANGED <<items, memo, seeding, deleted>>
  BY <1>8 DEF Q!createDocument, Q!updateDocument, Q!deleteDocument
<1> QED
  BY <1>1, <1>2, <1>3, <1>4, <1>5, <1>6, <1>7, <1>8 DEF Q!Next, Q!vars

\* A default item that was deleted after the first list is not seeded again, however lists,
\* deletions, failures of a seeding and restarts follow each other, as long as the process lives
\* (quality-control.service.ts, ensureDefaultCards).
THEOREM DeletionsLast == Spec => []DeletedStaysDeleted
<1>1. Init => DeletedInv
  BY QualityStarts DEF Init
<1>2. DeletedInv /\ [Next]_vars => DeletedInv'
  BY PartsMove, QualityKeeps
<1>3. DeletedInv => DeletedStaysDeleted
  BY DEF DeletedInv, DeletedStaysDeleted
<1> QED
  BY <1>1, <1>2, <1>3, PTL DEF Spec

QualityTables ==
    /\ cards \in [Quality.cards -> Quality.codes \cup {None}]
    /\ items \in [Quality.items -> Q!QualityChecklistItem \cup {Q!Absent}]
    /\ documents \in [Quality.documents -> Q!QualityDocument \cup {Q!Absent}]
    /\ memo \in {"none", "pending", "done"}
    /\ seeding \in Q!Seeding
    /\ memo = "pending" <=> seeding # Q!Idle
    /\ deleted \subseteq Q!Defaults

LEMMA TablesStart == Q!Init => QualityTables
  BY DEF Q!Init, QualityTables, Q!Seeding

LEMMA TablesKeep ==
    ASSUME QualityTables, [Q!Next]_(Q!vars)
    PROVE  QualityTables'
<1> USE OfficeParameters DEF Q!QualityAssumption
<1>1. CASE Q!ensureDefaultCards
  <2>1. cards' \in [Quality.cards -> Quality.codes \cup {None}]
    BY <1>1 DEF Q!ensureDefaultCards, QualityTables
  <2>2. seeding' = [state |-> "cards"] /\ seeding' \in Q!Seeding /\ seeding' # Q!Idle
    BY <1>1 DEF Q!ensureDefaultCards, Q!Seeding, Q!Idle
  <2> QED
    BY <1>1, <2>1, <2>2 DEF Q!ensureDefaultCards, QualityTables
<1>2. CASE Q!FindCards
  <2>1. seeding' = [state |-> "items", cards |-> cards]
    BY <1>2 DEF Q!FindCards
  <2>2. seeding' \in Q!Seeding /\ seeding' # Q!Idle
    BY <2>1 DEF Q!Seeding, Q!Idle, QualityTables
  <2>3. seeding # Q!Idle
    BY <1>2 DEF Q!FindCards, Q!Idle
  <2> QED
    BY <1>2, <2>2, <2>3 DEF Q!FindCards, QualityTables
<1>3. CASE Q!FindItems
  <2>1. /\ seeding' = [state |-> "missing", rows |-> seeding'.rows]
        /\ seeding'.rows \in SUBSET [id: Q!Defaults, card: Quality.cards, title: Quality.titles]
    BY <1>3 DEF Q!FindItems
  <2>2. seeding' \in Q!Seeding /\ seeding' # Q!Idle
    BY <2>1 DEF Q!Seeding, Q!Idle
  <2>3. seeding # Q!Idle
    BY <1>3 DEF Q!FindItems, Q!Idle
  <2> QED
    BY <1>3, <2>2, <2>3 DEF Q!FindItems, QualityTables
<1>4. CASE Q!CreateItems
  <2>1. seeding.rows \in SUBSET [id: Q!Defaults, card: Quality.cards, title: Quality.titles]
    BY <1>4 DEF Q!CreateItems, QualityTables, Q!Seeding, Q!Idle
  <2>2. items' \in [Quality.items -> Q!QualityChecklistItem \cup {Q!Absent}]
    <3> SUFFICES ASSUME NEW i \in Quality.items, NEW row, row \in seeding.rows
                 PROVE  [card |-> row.card, title |-> row.title, isChecked |-> FALSE]
                          \in Q!QualityChecklistItem
      <4>1. ASSUME NEW i \in Quality.items, \E row \in seeding.rows : row.id = i
            PROVE  (CHOOSE row \in seeding.rows : row.id = i) \in seeding.rows
        BY <4>1
      <4> QED
        BY <1>4, <4>1 DEF Q!CreateItems, QualityTables
    <3> QED
      BY <2>1 DEF Q!QualityChecklistItem
  <2>3. seeding' \in Q!Seeding
    BY <1>4 DEF Q!CreateItems, Q!Seeding
  <2> QED
    BY <1>4, <2>2, <2>3 DEF Q!CreateItems, QualityTables
<1>5. CASE Q!SeedingFails \/ Q!Restart
  <2>1. seeding' \in Q!Seeding
    BY <1>5 DEF Q!SeedingFails, Q!Restart, Q!Seeding
  <2> QED
    BY <1>5, <2>1 DEF Q!SeedingFails, Q!Restart, QualityTables
<1>6. ASSUME NEW c \in Quality.cards, NEW code \in Quality.codes,
             Q!createCard(c, code) \/ Q!updateCard(c, code)
      PROVE  QualityTables'
  BY <1>6 DEF Q!createCard, Q!updateCard, QualityTables
<1>7. ASSUME NEW c \in Quality.cards, NEW i \in Quality.items, NEW title \in Quality.titles,
             NEW isChecked \in BOOLEAN, Q!createChecklistItem(c, i, title, isChecked)
      PROVE  QualityTables'
  <2>1. [card |-> c, title |-> title, isChecked |-> isChecked] \in Q!QualityChecklistItem
    BY DEF Q!QualityChecklistItem
  <2> QED
    BY <1>7, <2>1 DEF Q!createChecklistItem, QualityTables
<1>8. ASSUME NEW i \in Quality.items, NEW title \in Quality.titles, NEW isChecked \in BOOLEAN,
             Q!updateChecklistItem(i, title, isChecked)
      PROVE  QualityTables'
  <2>1. items[i] \in Q!QualityChecklistItem
    BY <1>8 DEF Q!updateChecklistItem, QualityTables
  <2>2. [items[i] EXCEPT !.title = title, !.isChecked = isChecked] \in Q!QualityChecklistItem
    BY <2>1 DEF Q!QualityChecklistItem
  <2> QED
    BY <1>8, <2>2 DEF Q!updateChecklistItem, QualityTables
<1>9. ASSUME NEW i \in Quality.items, Q!deleteChecklistItem(i)
      PROVE  QualityTables'
  BY <1>9 DEF Q!deleteChecklistItem, QualityTables
<1>10. ASSUME NEW c \in Quality.cards, NEW d \in Quality.documents,
              NEW status \in {"ACTIVE", "NEEDS_REVIEW"}, Q!createDocument(c, d, status)
       PROVE  QualityTables'
  <2>1. [card |-> c, status |-> status] \in Q!QualityDocument
    BY DEF Q!QualityDocument
  <2> QED
    BY <1>10, <2>1 DEF Q!createDocument, QualityTables
<1>11. ASSUME NEW d \in Quality.documents, NEW status \in {"ACTIVE", "NEEDS_REVIEW"},
              Q!updateDocument(d, status)
       PROVE  QualityTables'
  <2>1. documents[d] \in Q!QualityDocument
    BY <1>11 DEF Q!updateDocument, QualityTables
  <2>2. [documents[d] EXCEPT !.status = status] \in Q!QualityDocument
    BY <2>1 DEF Q!QualityDocument
  <2> QED
    BY <1>11, <2>2 DEF Q!updateDocument, QualityTables
<1>12. ASSUME NEW d \in Quality.documents, Q!deleteDocument(d)
       PROVE  QualityTables'
  BY <1>12 DEF Q!deleteDocument, QualityTables
<1>13. CASE UNCHANGED Q!vars
  BY <1>13 DEF Q!vars, QualityTables
<1> QED
  BY <1>1, <1>2, <1>3, <1>4, <1>5, <1>6, <1>7, <1>8, <1>9, <1>10, <1>11, <1>12, <1>13 DEF Q!Next

\* What is done of a total, rounded to the nearest percent, is a percentage.
LEMMA RoundedIsPercent ==
    ASSUME NEW total \in Nat \ {0}, NEW done \in 0..total
    PROVE  (200 * done + total) \div (2 * total) \in 0..100
<1> DEFINE n == 200 * done + total
           k == 2 * total
           q == n \div k
<1>1. n \in Nat /\ k \in Nat \ {0} /\ n < 101 * k
  OBVIOUS
<1> HIDE DEF n, k
<1>2. q \in Nat /\ k * q <= n
  BY <1>1
<1>3. q <= 100
  <2> SUFFICES ASSUME q >= 101 PROVE FALSE
    BY <1>2
  <2>1. k * q >= k * 101
    BY <1>1, <1>2
  <2> QED
    BY <1>1, <1>2, <2>1
<1> QED
  BY <1>2, <1>3 DEF n, k

LEMMA QualityTyped == QualityTables => Q!TypeOK
<1> SUFFICES ASSUME QualityTables, NEW c \in Quality.cards
             PROVE  Q!summarizeCard(c).completion \in 0..100
  BY DEF QualityTables, Q!TypeOK
<1> DEFINE list == Q!Checklist(c)
           done == {i \in list : items[i].isChecked}
<1>0. IsFiniteSet(Quality.items)
  BY OfficeParameters DEF Q!QualityAssumption, Q!IsFiniteSet, IsFiniteSet
<1>1. IsFiniteSet(list) /\ done \subseteq list
  BY <1>0, FS_Subset DEF Q!Checklist
<1>2. Cardinality(list) \in Nat /\ Cardinality(done) \in 0..Cardinality(list)
  BY <1>1, FS_Subset, FS_CardinalityType
<1>3. Q!summarizeCard(c).completion =
        IF Cardinality(list) = 0 THEN 0
        ELSE (200 * Cardinality(done) + Cardinality(list)) \div (2 * Cardinality(list))
  BY DEF Q!summarizeCard, Q!Cardinality, Cardinality
<1> HIDE DEF list, done
<1> QED
  BY <1>2, <1>3, RoundedIsPercent

------------------------------------------------------------------------------
(* Improvement cases.                                                         *)

CaseRead    == [state: {"read"}, user: Improvement.users, case: Improvement.cases, seen: C!PdcaCase]
CaseUpdated == [state: {"updated"}, case: Improvement.cases, phase: Improvement.phases]

\* Whoever has read a case finds its row.
CaseInv ==
    /\ cases \in [Improvement.cases -> C!PdcaCase \cup {C!Absent}]
    /\ logs \in [Improvement.cases -> SUBSET Improvement.phases]
    /\ caseCalls \in [Improvement.requests -> {C!Idle} \cup CaseRead \cup CaseUpdated]
    /\ \A r \in Improvement.requests :
         caseCalls[r].state = "read" => cases[caseCalls[r].case] \in C!PdcaCase
    /\ C!PhaseIsLogged

LEMMA CaseStarts == C!Init => CaseInv
  BY DEF C!Init, CaseInv, C!PhaseIsLogged, C!Idle

LEMMA AbsentIsNoCase == C!Absent \notin C!PdcaCase
  BY DEF C!Absent, C!PdcaCase, C!Statuses

\* A request that is not about to log takes another step, and no phase changes.
LEMMA QuietCallKeeps ==
    ASSUME CaseInv, NEW r \in Improvement.requests, caseCalls[r].state # "updated",
           NEW call \in {C!Idle} \cup CaseRead, caseCalls' = [caseCalls EXCEPT ![r] = call],
           call.state = "read" => cases[call.case] \in C!PdcaCase,
           cases' \in [Improvement.cases -> C!PdcaCase \cup {C!Absent}],
           \A k \in Improvement.cases :
              \/ cases'[k] = cases[k]
              \/ cases[k] \in C!PdcaCase /\ cases'[k] \in C!PdcaCase /\ cases'[k].phase = cases[k].phase,
           logs' \in [Improvement.cases -> SUBSET Improvement.phases],
           \A k \in Improvement.cases : logs[k] \subseteq logs'[k],
           failed' = failed
    PROVE  CaseInv'
<1>1. caseCalls' \in [Improvement.requests -> {C!Idle} \cup CaseRead \cup CaseUpdated]
  BY DEF CaseInv
<1>2. ASSUME NEW q \in Improvement.requests, caseCalls'[q].state = "read"
      PROVE  cases'[caseCalls'[q].case] \in C!PdcaCase
  <2>1. cases[caseCalls'[q].case] \in C!PdcaCase
    BY <1>2 DEF CaseInv
  <2>2. caseCalls'[q] \in CaseRead
    BY <1>1, <1>2 DEF C!Idle, CaseUpdated
  <2>3. caseCalls'[q].case \in Improvement.cases
    BY <2>2 DEF CaseRead
  <2> QED
    BY <2>1, <2>3
<1>3. C!PhaseIsLogged'
  <2> SUFFICES ASSUME NEW k \in Improvement.cases \ failed, cases'[k] # C!Absent
               PROVE  \/ cases'[k].phase \in logs'[k]
                      \/ \E q \in Improvement.requests :
                           /\ caseCalls'[q].state = "updated" /\ caseCalls'[q].case = k
                           /\ caseCalls'[q].phase = cases'[k].phase
    BY DEF C!PhaseIsLogged, C!Of
  <2>1. cases[k] # C!Absent /\ cases'[k].phase = cases[k].phase
    BY AbsentIsNoCase
  <2>2. CASE cases[k].phase \in logs[k]
    BY <2>1, <2>2
  <2>3. ASSUME NEW q \in Improvement.requests, caseCalls[q].state = "updated",
               caseCalls[q].case = k, caseCalls[q].phase = cases[k].phase
        PROVE  caseCalls'[q] = caseCalls[q]
    BY <2>3 DEF CaseInv
  <2> QED
    BY <2>1, <2>2, <2>3 DEF CaseInv, C!PhaseIsLogged, C!Of
<1> QED
  BY <1>1, <1>2, <1>3 DEF CaseInv

\* A row is written, and its log entry is what the request does next.
LEMMA UpdateKeeps ==
    ASSUME CaseInv, NEW r \in Improvement.requests, caseCalls[r].state # "updated",
           NEW k \in Improvement.cases, NEW row \in C!PdcaCase,
           cases' = [cases EXCEPT ![k] = row],
           caseCalls' = [caseCalls EXCEPT ![r] =
             [state |-> "updated", case |-> k, phase |-> row.phase]],
           UNCHANGED <<logs, failed>>
    PROVE  CaseInv'
<1> DEFINE call == [state |-> "updated", case |-> k, phase |-> row.phase]
<1>1. call \in CaseUpdated
  BY DEF CaseUpdated, C!PdcaCase
<1>2. caseCalls' \in [Improvement.requests -> {C!Idle} \cup CaseRead \cup CaseUpdated]
  BY <1>1 DEF CaseInv
<1>3. cases' \in [Improvement.cases -> C!PdcaCase \cup {C!Absent}]
  BY DEF CaseInv
<1>4. ASSUME NEW q \in Improvement.requests, caseCalls'[q].state = "read"
      PROVE  cases'[caseCalls'[q].case] \in C!PdcaCase
  BY <1>4 DEF CaseInv
<1>5. C!PhaseIsLogged'
  <2> SUFFICES ASSUME NEW l \in Improvement.cases \ failed, cases'[l] # C!Absent
               PROVE  \/ cases'[l].phase \in logs'[l]
                      \/ \E q \in Improvement.requests :
                           /\ caseCalls'[q].state = "updated" /\ caseCalls'[q].case = l
                           /\ caseCalls'[q].phase = cases'[l].phase
    BY DEF C!PhaseIsLogged, C!Of
  <2>1. CASE l = k
    BY <2>1 DEF CaseInv
  <2>2. CASE l # k
    <3>1. cases'[l] = cases[l]
      BY <2>2 DEF CaseInv
    <3>2. ASSUME NEW q \in Improvement.requests, caseCalls[q].state = "updated"
          PROVE  caseCalls'[q] = caseCalls[q]
      BY <3>2 DEF CaseInv
    <3> QED
      BY <3>1, <3>2 DEF CaseInv, C!PhaseIsLogged, C!Of
  <2> QED
    BY <2>1, <2>2
<1> QED
  BY <1>2, <1>3, <1>4, <1>5 DEF CaseInv

LEMMA ReaderFindsRow ==
    ASSUME CaseInv, NEW r \in Improvement.requests, caseCalls[r].state = "read"
    PROVE  /\ C!Of(r) \in Improvement.cases
           /\ cases[C!Of(r)] \in C!PdcaCase
           /\ C!Seen(r) \in C!PdcaCase
<1>1. caseCalls[r] \in CaseRead
  BY DEF CaseInv, C!Idle, CaseUpdated
<1> QED
  BY <1>1 DEF CaseInv, CaseRead, C!Of, C!Seen

LEMMA CaseKeeps ==
    ASSUME CaseInv, [C!Next]_(C!vars)
    PROVE  CaseInv'
<1>1. CASE UNCHANGED C!vars
  BY <1>1 DEF C!vars, CaseInv, C!PhaseIsLogged, C!Of
<1>2. ASSUME NEW r \in Improvement.requests, C!Read(r) PROVE CaseInv'
  <2>1. PICK k \in Improvement.cases, u \in Improvement.users :
          /\ k \in C!listCases(u)
          /\ caseCalls' = [caseCalls EXCEPT ![r] =
               [state |-> "read", user |-> u, case |-> k, seen |-> cases[k]]]
    BY <1>2 DEF C!Read
  <2> DEFINE call == [state |-> "read", user |-> u, case |-> k, seen |-> cases[k]]
  <2>2. cases[k] \in C!PdcaCase
    BY <2>1 DEF CaseInv, C!listCases
  <2>3. call \in CaseRead
    BY <2>2 DEF CaseRead
  <2>4. /\ UNCHANGED <<cases, logs, failed>>
        /\ caseCalls[r].state # "updated"
        /\ call.case = k
    BY <1>2 DEF C!Read, C!Idle
  <2>5. caseCalls' = [caseCalls EXCEPT ![r] = call]
    BY <2>1
  <2> HIDE DEF call
  <2> QED
    BY <2>2, <2>3, <2>4, <2>5, QuietCallKeeps DEF CaseInv
<1>3. ASSUME NEW r \in Improvement.requests, C!createCase(r) PROVE CaseInv'
  <2>1. PICK k \in Improvement.cases, u \in Improvement.users, phase \in Improvement.phases,
             status \in C!Statuses, owner, assignedTo \in Improvement.users \cup {None} :
          /\ cases' = [cases EXCEPT ![k] =
               [phase |-> phase, status |-> status, closed |-> FALSE,
                owner |-> owner, assignedTo |-> assignedTo, createdBy |-> u]]
          /\ caseCalls' = [caseCalls EXCEPT ![r] =
               [state |-> "updated", case |-> k, phase |-> phase]]
    BY <1>3 DEF C!createCase
  <2> DEFINE row == [phase |-> phase, status |-> status, closed |-> FALSE,
                     owner |-> owner, assignedTo |-> assignedTo, createdBy |-> u]
  <2>3. row \in C!PdcaCase /\ row.phase = phase
    BY DEF C!PdcaCase
  <2>4. /\ cases' = [cases EXCEPT ![k] = row]
        /\ caseCalls' = [caseCalls EXCEPT ![r] =
             [state |-> "updated", case |-> k, phase |-> row.phase]]
    BY <2>1, <2>3
  <2>2. caseCalls[r].state # "updated" /\ UNCHANGED <<logs, failed>>
    BY <1>3 DEF C!createCase, C!Idle
  <2> HIDE DEF row
  <2> QED
    BY <2>2, <2>3, <2>4, UpdateKeeps
<1>4. ASSUME NEW r \in Improvement.requests, caseCalls[r].state = "read",
             NEW row \in C!PdcaCase, C!Update(r, row)
      PROVE  CaseInv'
  BY <1>4, ReaderFindsRow, UpdateKeeps DEF C!Update
\* Fields other than the phase, without an entry.
<1>5. ASSUME NEW r \in Improvement.requests, caseCalls[r].state = "read",
             NEW row \in C!PdcaCase, row.phase = cases[C!Of(r)].phase,
             cases' = [cases EXCEPT ![C!Of(r)] = row],
             caseCalls' = [caseCalls EXCEPT ![r] = C!Idle],
             UNCHANGED <<logs, failed>>
      PROVE  CaseInv'
  <2>1. /\ C!Of(r) \in Improvement.cases /\ cases[C!Of(r)] \in C!PdcaCase
        /\ C!Idle.state # "read"
    BY <1>5, ReaderFindsRow DEF C!Idle
  <2>2. cases' \in [Improvement.cases -> C!PdcaCase \cup {C!Absent}]
    BY <1>5 DEF CaseInv
  <2>3. \A k \in Improvement.cases :
          \/ cases'[k] = cases[k]
          \/ cases[k] \in C!PdcaCase /\ cases'[k] \in C!PdcaCase /\ cases'[k].phase = cases[k].phase
    BY <1>5, <2>1 DEF CaseInv
  <2> QED
    BY <1>5, <2>1, <2>2, <2>3, QuietCallKeeps DEF CaseInv
<1>6. ASSUME NEW r \in Improvement.requests, C!updateCase(r) PROVE CaseInv'
  <2> DEFINE row == cases[C!Of(r)]
  <2>1. caseCalls[r].state = "read" /\ row \in C!PdcaCase
    BY <1>6, ReaderFindsRow DEF C!updateCase
  <2>2. ASSUME NEW status \in C!Statuses, NEW phase \in Improvement.phases, NEW closed \in BOOLEAN
        PROVE  [row EXCEPT !.phase = phase, !.status = status, !.closed = closed] \in C!PdcaCase
    BY <2>1 DEF C!PdcaCase
  <2>3. ASSUME NEW owner \in Improvement.users \cup {None},
               NEW assignedTo \in Improvement.users \cup {None}
        PROVE  LET after == [row EXCEPT !.owner = owner, !.assignedTo = assignedTo]
               IN  after \in C!PdcaCase /\ after.phase = row.phase
    BY <2>1 DEF C!PdcaCase
  <2>4. ASSUME NEW closed \in BOOLEAN
        PROVE  LET after == [row EXCEPT !.closed = closed]
               IN  after \in C!PdcaCase /\ after.phase = row.phase
    BY <2>1 DEF C!PdcaCase
  <2>5. ASSUME NEW status \in C!Statuses
        PROVE  (IF status = "DONE" THEN TRUE
                ELSE IF C!Seen(r).closed THEN FALSE ELSE row.closed) \in BOOLEAN
    BY <2>1 DEF C!PdcaCase
  <2>6. CASE \E status \in C!Statuses, phase \in Improvement.phases :
               C!Update(r, [row EXCEPT !.phase = phase, !.status = status,
                              !.closed = IF status = "DONE" THEN TRUE
                                         ELSE IF C!Seen(r).closed THEN FALSE ELSE row.closed])
    <3>1. PICK status \in C!Statuses, phase \in Improvement.phases :
               C!Update(r, [row EXCEPT !.phase = phase, !.status = status,
                              !.closed = IF status = "DONE" THEN TRUE
                                         ELSE IF C!Seen(r).closed THEN FALSE ELSE row.closed])
      BY <2>6
    <3> DEFINE closed == IF status = "DONE" THEN TRUE
                         ELSE IF C!Seen(r).closed THEN FALSE ELSE row.closed
    <3>2. closed \in BOOLEAN
      BY <2>5
    <3>3. C!Update(r, [row EXCEPT !.phase = phase, !.status = status, !.closed = closed])
      BY <3>1
    <3> HIDE DEF closed, row
    <3> QED
      BY <1>4, <2>1, <2>2, <3>2, <3>3
  <2>7. CASE \E owner, assignedTo \in Improvement.users \cup {None} :
               /\ cases' = [cases EXCEPT ![C!Of(r)] =
                    [row EXCEPT !.owner = owner, !.assignedTo = assignedTo]]
               /\ caseCalls' = [caseCalls EXCEPT ![r] = C!Idle]
               /\ UNCHANGED <<logs, failed>>
    BY <1>5, <2>1, <2>3, <2>7
  <2>8. CASE \E closed \in BOOLEAN :
               /\ cases' = [cases EXCEPT ![C!Of(r)] = [row EXCEPT !.closed = closed]]
               /\ caseCalls' = [caseCalls EXCEPT ![r] = C!Idle]
               /\ UNCHANGED <<logs, failed>>
    BY <1>5, <2>1, <2>4, <2>8
  <2> QED
    BY <1>6, <2>6, <2>7, <2>8 DEF C!updateCase
<1>7. ASSUME NEW r \in Improvement.requests,
             C!updatePhase(r) \/ C!closeCase(r) \/ C!cancelCase(r)
      PROVE  CaseInv'
  <2>1. /\ caseCalls[r].state = "read" /\ cases[C!Of(r)] \in C!PdcaCase
        /\ C!Seen(r) \in C!PdcaCase
    BY <1>7, ReaderFindsRow DEF C!updatePhase, C!closeCase, C!cancelCase
  <2>2. \E row \in C!PdcaCase : C!Update(r, row)
    <3>1. CASE C!updatePhase(r)
      <4>1. PICK phase \in Improvement.phases :
              C!Update(r, [cases[C!Of(r)] EXCEPT !.phase = phase,
                             !.status = IF C!Seen(r).status = "OPEN" THEN "IN_PROGRESS"
                                        ELSE C!Seen(r).status])
        BY <3>1 DEF C!updatePhase
      <4>2. [cases[C!Of(r)] EXCEPT !.phase = phase,
               !.status = IF C!Seen(r).status = "OPEN" THEN "IN_PROGRESS"
                          ELSE C!Seen(r).status] \in C!PdcaCase
        BY <2>1 DEF C!PdcaCase, C!Statuses
      <4> QED
        BY <4>1, <4>2
    <3>2. CASE C!closeCase(r)
      <4>1. [cases[C!Of(r)] EXCEPT !.status = "DONE", !.closed = TRUE] \in C!PdcaCase
        BY <2>1 DEF C!PdcaCase, C!Statuses
      <4> QED
        BY <3>2, <4>1 DEF C!closeCase
    <3>3. CASE C!cancelCase(r)
      <4>1. [cases[C!Of(r)] EXCEPT !.status = "CANCELLED"] \in C!PdcaCase
        BY <2>1 DEF C!PdcaCase, C!Statuses
      <4> QED
        BY <3>3, <4>1 DEF C!cancelCase
    <3> QED
      BY <1>7, <3>1, <3>2, <3>3
  <2> QED
    BY <1>4, <2>1, <2>2
<1>8. ASSUME NEW r \in Improvement.requests, C!addLog(r) PROVE CaseInv'
  <2>1. PICK phases \in {{}} \cup {{phase} : phase \in Improvement.phases} :
          logs' = [logs EXCEPT ![C!Of(r)] = logs[C!Of(r)] \cup phases]
    BY <1>8 DEF C!addLog
  <2>2. /\ logs' \in [Improvement.cases -> SUBSET Improvement.phases]
        /\ \A k \in Improvement.cases : logs[k] \subseteq logs'[k]
    BY <1>8, <2>1, ReaderFindsRow DEF C!addLog, CaseInv
  <2>3. /\ caseCalls' = [caseCalls EXCEPT ![r] = C!Idle] /\ UNCHANGED <<cases, failed>>
        /\ caseCalls[r].state # "updated" /\ C!Idle.state # "read"
    BY <1>8 DEF C!addLog, C!Idle
  <2> QED
    BY <2>2, <2>3, QuietCallKeeps DEF CaseInv
<1>9. ASSUME NEW r \in Improvement.requests, C!Log(r) \/ C!Fail(r) PROVE CaseInv'
  <2>1. /\ caseCalls' = [caseCalls EXCEPT ![r] = C!Idle] /\ cases' = cases
        /\ C!Idle.state \notin {"read", "updated"}
    BY <1>9 DEF C!Log, C!Fail, C!Idle
  <2>2. caseCalls[r].state = "updated" =>
          /\ C!Of(r) \in Improvement.cases
          /\ C!Of(r) \in failed' \/ caseCalls[r].phase \in logs'[C!Of(r)]
    <3>1. caseCalls[r].state = "updated" => caseCalls[r] \in CaseUpdated
      BY DEF CaseInv, CaseRead, C!Idle
    <3> QED
      BY <1>9, <3>1 DEF C!Log, C!Fail, C!Of, CaseUpdated, CaseInv
  <2>3. /\ logs' \in [Improvement.cases -> SUBSET Improvement.phases]
        /\ \A k \in Improvement.cases : logs[k] \subseteq logs'[k]
        /\ failed \subseteq failed'
    <3>1. caseCalls[r].state = "updated" => caseCalls[r] \in CaseUpdated
      BY DEF CaseInv, CaseRead, C!Idle
    <3>2. CASE C!Log(r)
      BY <3>1, <3>2 DEF C!Log, CaseInv, CaseUpdated
    <3>3. CASE C!Fail(r)
      BY <3>3 DEF C!Fail, CaseInv
    <3> QED
      BY <1>9, <3>2, <3>3
  <2>4. C!PhaseIsLogged'
    <3> SUFFICES ASSUME NEW k \in Improvement.cases \ failed', cases[k] # C!Absent,
                        cases[k].phase \notin logs'[k]
                 PROVE  \E q \in Improvement.requests :
                          /\ caseCalls'[q].state = "updated" /\ caseCalls'[q].case = k
                          /\ caseCalls'[q].phase = cases[k].phase
      BY <2>1 DEF C!PhaseIsLogged, C!Of
    <3>1. PICK q \in Improvement.requests :
            /\ caseCalls[q].state = "updated" /\ caseCalls[q].case = k
            /\ caseCalls[q].phase = cases[k].phase
      BY <2>3 DEF CaseInv, C!PhaseIsLogged, C!Of
    <3>2. q # r
      BY <2>2, <3>1 DEF C!Of
    <3> QED
      BY <2>1, <3>1, <3>2 DEF CaseInv
  <2> QED
    BY <2>1, <2>3, <2>4 DEF CaseInv
<1> QED
  BY <1>1, <1>2, <1>3, <1>6, <1>7, <1>8, <1>9 DEF C!Next

\* The phase a case shows is in its log, or on its way there, unless the request that moved it
\* failed in between: of several moves at once none loses its entry (pdca.service.ts).
THEOREM PhasesAreLogged == Spec => []PhaseIsLogged
<1>1. Init => CaseInv
  BY CaseStarts DEF Init
<1>2. CaseInv /\ [Next]_vars => CaseInv'
  BY PartsMove, CaseKeeps
<1>3. CaseInv => PhaseIsLogged
  BY DEF CaseInv, PhaseIsLogged
<1> QED
  BY <1>1, <1>2, <1>3, PTL DEF Spec

------------------------------------------------------------------------------
(* Accounts.                                                                  *)

TypedWork == [createdBy: Staff.users, assignedTo: Staff.users \cup {None}]

\* Whoever created work keeps an account: the restriction on deleting it is looked at in the
\* statement that deletes it, not in the earlier count.
AccountsInv ==
    /\ users \in [Staff.users -> A!User \cup {A!Absent}]
    /\ works \in [Staff.works -> TypedWork \cup {None}]
    /\ A!WorkKeepsItsCreator

LEMMA AbsentIsNoUser == A!Absent \notin A!User
  BY DEF A!Absent, A!User

LEMMA AccountsStart == A!Init => AccountsInv
<1> SUFFICES ASSUME A!Init PROVE AccountsInv
  OBVIOUS
<1>1. PICK u \in Staff.users :
        users = [v \in Staff.users |-> IF v # u THEN A!Absent
                  ELSE [role |-> "ADMIN", isActive |-> TRUE, refreshToken |-> None]]
  BY DEF A!Init
<1>2. [role |-> "ADMIN", isActive |-> TRUE, refreshToken |-> None] \in A!User
  BY OfficeParameters DEF A!AccountsAssumption, A!User
<1>3. users \in [Staff.users -> A!User \cup {A!Absent}]
  BY <1>1, <1>2
<1>4. works = [w \in Staff.works |-> None]
  BY DEF A!Init
<1> QED
  BY <1>3, <1>4 DEF AccountsInv, A!WorkKeepsItsCreator

\* Accounts only change: nobody who has one loses it.
LEMMA StayingUsersKeep ==
    ASSUME AccountsInv, works' = works,
           users' \in [Staff.users -> A!User \cup {A!Absent}],
           \A u \in Staff.users : users[u] # A!Absent => users'[u] # A!Absent
    PROVE  AccountsInv'
  BY DEF AccountsInv, A!WorkKeepsItsCreator, A!Existing, TypedWork

\* A deletion that no work of the user's stops.
LEMMA DeleteKeeps ==
    ASSUME AccountsInv, NEW u, A!Delete(u),
           ~ \E w \in Staff.works : works[w] # None /\ works[w].createdBy = u
    PROVE  AccountsInv'
<1>1. users' \in [Staff.users -> A!User \cup {A!Absent}]
  BY DEF AccountsInv, A!Delete
<1>2. ASSUME NEW w \in Staff.works, works[w] # None
      PROVE  /\ works'[w] \in TypedWork
             /\ works'[w].createdBy = works[w].createdBy
  <2>1. works[w] \in TypedWork
    BY <1>2 DEF AccountsInv
  <2>2. PICK to \in Staff.users \cup {None} : works'[w] = [works[w] EXCEPT !.assignedTo = to]
    BY <1>2, <2>1 DEF A!Delete, TypedWork
  <2> QED
    BY <2>1, <2>2 DEF TypedWork
<1>3. ASSUME NEW w \in Staff.works, works[w] = None
      PROVE  works'[w] = None
  BY <1>3 DEF A!Delete
<1>4. works' \in [Staff.works -> TypedWork \cup {None}]
  BY <1>2, <1>3 DEF A!Delete
<1>5. ASSUME NEW w \in Staff.works, works'[w] # None
      PROVE  users'[works'[w].createdBy] # A!Absent
  <2>1. works[w] # None /\ works'[w].createdBy = works[w].createdBy
    BY <1>2, <1>3, <1>5
  <2>2. works[w].createdBy \in Staff.users /\ users[works[w].createdBy] # A!Absent
    BY <2>1 DEF AccountsInv, A!WorkKeepsItsCreator, A!Existing
  <2> QED
    BY <2>1, <2>2 DEF A!Delete, AccountsInv
<1>6. A!WorkKeepsItsCreator'
  BY <1>2, <1>3, <1>5 DEF A!WorkKeepsItsCreator, A!Existing, AccountsInv, TypedWork
<1> QED
  BY <1>1, <1>4, <1>6 DEF AccountsInv

\* Work is created and assigned by whoever is in.
LEMMA AssignKeeps ==
    ASSUME AccountsInv, NEW w \in Staff.works, NEW by \in Staff.users,
           NEW to \in Staff.users \cup {None}, A!assignWork(w, by, to)
    PROVE  AccountsInv'
<1>1. users' = users /\ users[by] # A!Absent
  BY DEF A!assignWork, A!validate, A!Existing
<1>2. CASE works[w] = None
  <2>1. works' = [works EXCEPT ![w] = [createdBy |-> by, assignedTo |-> to]]
    BY <1>2 DEF A!assignWork, AccountsInv
  <2>2. [createdBy |-> by, assignedTo |-> to] \in TypedWork
    BY DEF TypedWork
  <2> QED
    BY <1>1, <2>1, <2>2 DEF AccountsInv, A!WorkKeepsItsCreator, A!Existing, TypedWork
<1>3. CASE works[w] # None
  <2>1. works[w] \in TypedWork
    BY <1>3 DEF AccountsInv
  <2> DEFINE row == [works[w] EXCEPT !.assignedTo = to]
  <2>2. row \in TypedWork /\ row.createdBy = works[w].createdBy
    BY <2>1 DEF TypedWork
  <2>3. works' = [works EXCEPT ![w] = row]
    BY <1>3 DEF A!assignWork, AccountsInv
  <2> HIDE DEF row
  <2> QED
    BY <1>1, <1>3, <2>2, <2>3 DEF AccountsInv, A!WorkKeepsItsCreator, A!Existing, TypedWork
<1> QED
  BY <1>2, <1>3

LEMMA AccountsKeep ==
    ASSUME AccountsInv, [A!Next]_(A!vars)
    PROVE  AccountsInv'
<1>1. ASSUME NEW u \in Staff.users, NEW token \in Staff.tokens, A!login(u, token)
      PROVE  AccountsInv'
  <2>1. users[u] \in A!User
    BY <1>1 DEF A!login, A!validate, A!Existing, AccountsInv
  <2>2. [users[u] EXCEPT !.refreshToken = token] \in A!User
    BY <2>1 DEF A!User
  <2>3. users' = [users EXCEPT ![u] = [users[u] EXCEPT !.refreshToken = token]]
    BY <1>1 DEF A!login, AccountsInv
  <2> QED
    BY <1>1, <2>2, <2>3, StayingUsersKeep, AbsentIsNoUser DEF A!login, AccountsInv
<1>2. ASSUME NEW u \in Staff.users, NEW r \in Staff.roles, A!create(u, r)
      PROVE  AccountsInv'
  <2>1. [role |-> r, isActive |-> TRUE, refreshToken |-> None] \in A!User
    BY DEF A!User
  <2> QED
    BY <1>2, <2>1, StayingUsersKeep, AbsentIsNoUser DEF A!create, AccountsInv
<1>3. ASSUME NEW u \in Staff.users, NEW r \in Staff.roles, NEW isActive \in BOOLEAN,
             A!update(u, r, isActive)
      PROVE  AccountsInv'
  <2>1. users[u] \in A!User
    BY <1>3 DEF A!update, AccountsInv
  <2>2. [users[u] EXCEPT !.role = r, !.isActive = isActive] \in A!User
    BY <2>1 DEF A!User
  <2>3. users' = [users EXCEPT ![u] = [users[u] EXCEPT !.role = r, !.isActive = isActive]]
    BY <1>3 DEF A!update, AccountsInv
  <2> QED
    BY <1>3, <2>2, <2>3, StayingUsersKeep, AbsentIsNoUser DEF A!update, AccountsInv
<1>4. ASSUME NEW u \in Staff.users, A!deactivate(u)
      PROVE  AccountsInv'
  <2>1. users[u] \in A!User
    BY <1>4 DEF A!deactivate, AccountsInv
  <2>2. [users[u] EXCEPT !.isActive = FALSE] \in A!User
    BY <2>1 DEF A!User
  <2>3. users' = [users EXCEPT ![u] = [users[u] EXCEPT !.isActive = FALSE]]
    BY <1>4 DEF A!deactivate, AccountsInv
  <2> QED
    BY <1>4, <2>2, <2>3, StayingUsersKeep, AbsentIsNoUser DEF A!deactivate, AccountsInv
<1>5. CASE UNCHANGED <<users, works>>
  BY <1>5, StayingUsersKeep DEF AccountsInv
<1>6. ASSUME NEW r \in Staff.requests, A!deleteUser(r) PROVE AccountsInv'
  <2> DEFINE u == accountCalls[r].user
  <2>1. CASE users[u] = A!Absent \/ A!Restricted(u)
    BY <1>5, <1>6, <2>1 DEF A!deleteUser
  <2>2. CASE ~(users[u] = A!Absent \/ A!Restricted(u))
    <3>1. A!Delete(u) /\ ~ \E w \in Staff.works : works[w] # None /\ works[w].createdBy = u
      BY <1>6, <2>2 DEF A!deleteUser, A!Restricted
    <3> HIDE DEF u
    <3> QED
      BY <3>1, DeleteKeeps
  <2> QED
    BY <2>1, <2>2
<1>7. ASSUME NEW r \in Staff.requests, A!forceDeleteUser(r) PROVE AccountsInv'
  <2> DEFINE u == accountCalls[r].user
  <2>1. \/ UNCHANGED <<users, works>>
        \/ /\ A!Delete(u)
           /\ ~ \E w \in Staff.works : works[w] # None /\ works[w].createdBy = u
    BY <1>7 DEF A!forceDeleteUser
  <2> HIDE DEF u
  <2> QED
    BY <1>5, <2>1, DeleteKeeps
<1>8. ASSUME NEW w \in Staff.works, NEW by \in Staff.users, NEW to \in Staff.users \cup {None},
             A!assignWork(w, by, to)
      PROVE  AccountsInv'
  BY <1>8, AssignKeeps
<1>9. ASSUME NEW r, NEW admin, NEW u,
             \/ A!CheckBlockers(r, admin, u) \/ A!CountWork(r, admin, u)
             \/ A!DeleteNotices(r) \/ A!Abandon(r)
      PROVE  AccountsInv'
  BY <1>5, <1>9 DEF A!CheckBlockers, A!CountWork, A!DeleteNotices, A!Abandon
<1>10. ASSUME NEW x, NEW u, A!addRow(x, u)
       PROVE  AccountsInv'
  BY <1>5, <1>10 DEF A!addRow
<1> QED
  BY <1>1, <1>2, <1>3, <1>4, <1>5, <1>6, <1>7, <1>8, <1>9, <1>10 DEF A!Next, A!vars

AccountTables ==
    /\ rows \in [Staff.rows -> Staff.users \cup {None}]
    /\ accountCalls \in [Staff.requests ->
                          {A!Idle} \cup [state: {"unblocked", "cleared"}, user: Staff.users]
                                  \cup [state: {"counted"}, user: Staff.users, admin: Staff.users]]

LEMMA AccountTablesStart == A!Init => AccountTables
  BY DEF A!Init, AccountTables

LEMMA AccountTablesKeep ==
    ASSUME AccountTables, [A!Next]_(A!vars)
    PROVE  AccountTables'
<1>1. CASE UNCHANGED <<rows, accountCalls>>
  BY <1>1 DEF AccountTables
<1>2. ASSUME NEW r \in Staff.requests, NEW admin \in Staff.users, NEW u \in Staff.users,
             A!CheckBlockers(r, admin, u) \/ A!CountWork(r, admin, u)
      PROVE  AccountTables'
  BY <1>2 DEF A!CheckBlockers, A!CountWork, AccountTables
<1>3. ASSUME NEW r \in Staff.requests, A!DeleteNotices(r) PROVE AccountTables'
  <2>1. accountCalls[r] \in [state: {"unblocked", "cleared"}, user: Staff.users]
    BY <1>3 DEF A!DeleteNotices, AccountTables, A!Idle
  <2>2. [accountCalls[r] EXCEPT !.state = "cleared"]
          \in [state: {"unblocked", "cleared"}, user: Staff.users]
    BY <2>1
  <2> QED
    BY <1>3, <2>2 DEF A!DeleteNotices, AccountTables
<1>4. ASSUME NEW r \in Staff.requests, A!deleteUser(r) \/ A!Abandon(r) PROVE AccountTables'
  BY <1>4 DEF A!deleteUser, A!Abandon, AccountTables
<1>5. ASSUME NEW r \in Staff.requests, A!forceDeleteUser(r) PROVE AccountTables'
  <2>1. accountCalls[r].admin \in Staff.users
    BY <1>5 DEF A!forceDeleteUser, AccountTables, A!Idle
  <2> QED
    BY <1>5, <2>1 DEF A!forceDeleteUser, AccountTables
<1>6. ASSUME NEW x \in Staff.rows, NEW u \in Staff.users, A!addRow(x, u) PROVE AccountTables'
  BY <1>6 DEF A!addRow, AccountTables
<1>7. ASSUME NEW u, NEW r, NEW isActive, NEW token,
             A!login(u, token) \/ A!create(u, r) \/ A!update(u, r, isActive) \/ A!deactivate(u)
      PROVE  AccountTables'
  BY <1>1, <1>7 DEF A!login, A!create, A!update, A!deactivate
<1>8. ASSUME NEW w, NEW by, NEW to, A!assignWork(w, by, to)
      PROVE  AccountTables'
  BY <1>1, <1>8 DEF A!assignWork
<1> QED
  BY <1>1, <1>2, <1>3, <1>4, <1>5, <1>6, <1>7, <1>8 DEF A!Next, A!vars

LEMMA AccountsTyped == AccountsInv /\ AccountTables => A!TypeOK
  BY AbsentIsNoUser, OfficeParameters
     DEF AccountsInv, AccountTables, A!TypeOK, A!Existing, TypedWork, A!AccountsAssumption

\* Work never loses who created it, whichever way that account is deleted and whatever is
\* assigned meanwhile (users.controller.ts).
THEOREM CreatorsAreKept == Spec => []WorkKeepsItsCreator
<1>1. Init => AccountsInv
  BY AccountsStart DEF Init
<1>2. AccountsInv /\ [Next]_vars => AccountsInv'
  BY PartsMove, AccountsKeep
<1>3. AccountsInv => WorkKeepsItsCreator
  BY DEF AccountsInv, WorkKeepsItsCreator
<1> QED
  BY <1>1, <1>2, <1>3, PTL DEF Spec

------------------------------------------------------------------------------
(* The digital map.                                                           *)

\* How many levels of boxes a kind can hold.
Rank(k) == CASE k = "CLOUD"   -> 4
             [] k = "SERVER"  -> 3
             [] k = "MACHINE" -> 2
             [] k = "SERVICE" -> 1
             [] OTHER         -> 0

\* A drawing on its way into the document has been checked, and images stay.
MapInv ==
    /\ document # M!NoDocument => /\ document.drawing \in Landscape.drawings
                                  /\ M!validateDigitalMap(document.drawing)
                                  /\ M!ImagesOf(document.drawing) \subseteq images
    /\ DOMAIN mapCalls = Landscape.requests
    /\ \A r \in Landscape.requests : mapCalls[r].state = "saving" =>
         /\ mapCalls[r].drawing \in Landscape.drawings
         /\ M!validateDigitalMap(mapCalls[r].drawing)
         /\ M!ImagesOf(mapCalls[r].drawing) \subseteq images
    /\ drawn \in Seq(Nat)
    /\ document.version = Len(drawn)

MapHistory == [d \in {"dnd-digital-map"} |-> drawn]

LEMMA MapStarts == M!Init => MapInv
  BY DEF M!Init, MapInv, M!Idle, M!NoDocument

LEMMA MapKeeps ==
    ASSUME MapInv, [M!Next]_(M!vars)
    PROVE  MapInv' /\ [M!Record!Next]_MapHistory
<1>1. CASE UNCHANGED M!vars
  BY <1>1 DEF M!vars, MapInv, MapHistory
<1>2. ASSUME NEW i \in Landscape.images, M!upload(i)
      PROVE  MapInv' /\ UNCHANGED drawn
  BY <1>2 DEF M!upload, MapInv
<1>3. ASSUME NEW r \in Landscape.requests, M!get(r) \/ M!Leave(r)
      PROVE  MapInv' /\ UNCHANGED drawn
  BY <1>3 DEF M!get, M!Leave, M!Idle, MapInv
<1>4. ASSUME NEW r \in Landscape.requests, M!check(r)
      PROVE  MapInv' /\ UNCHANGED drawn
  BY <1>4 DEF M!check, MapInv
<1>5. ASSUME NEW r \in Landscape.requests, M!save(r)
      PROVE  MapInv' /\ (UNCHANGED drawn \/ drawn' = Append(drawn, Len(drawn)))
  <2>1. Len(drawn) \in Nat
    BY LenProperties DEF MapInv
  <2>2. CASE document.version = mapCalls[r].version
    <3> DEFINE n == Len(drawn)
    <3>1. /\ document' = [version |-> n + 1, drawing |-> mapCalls[r].drawing]
          /\ drawn' = Append(drawn, n)
          /\ mapCalls' = [mapCalls EXCEPT ![r] = M!Idle]
          /\ images' = images
      BY <1>5, <2>2 DEF M!save, MapInv
    <3>2. Append(drawn, n) \in Seq(Nat) /\ Len(Append(drawn, n)) = n + 1
      BY <2>1, AppendProperties DEF MapInv
    <3>3. mapCalls[r].state = "saving"
      BY <1>5 DEF M!save
    <3> HIDE DEF n
    <3>4. MapInv'
      BY <3>1, <3>2, <3>3 DEF MapInv, M!Idle
    <3> QED
      BY <3>1, <3>4 DEF n
  <2>3. CASE document.version # mapCalls[r].version
    BY <1>5, <2>3 DEF M!save, MapInv, M!Idle
  <2> QED
    BY <2>2, <2>3
<1>6. drawn' = Append(drawn, Len(drawn)) => M!Record!Next
  BY DEF M!Record!Next, M!Record!Save
<1> QED
  BY <1>1, <1>2, <1>3, <1>4, <1>5, <1>6 DEF M!Next, MapHistory

MapTables ==
    /\ document \in {M!NoDocument} \cup [version: 1..Landscape.maxVersion, drawing: Landscape.drawings]
    /\ images \subseteq Landscape.images
    /\ mapCalls \in [Landscape.requests ->
                      {M!Idle} \cup [state: {"open"}, version: 0..Landscape.maxVersion]
                              \cup [state: {"saving"}, version: 0..Landscape.maxVersion,
                                    drawing: Landscape.drawings]]
    /\ drawn \in Seq(0..Landscape.maxVersion)

LEMMA MapTablesStart == M!Init => MapTables
  BY DEF M!Init, MapTables

LEMMA MapTablesKeep ==
    ASSUME MapTables, [M!Next]_(M!vars)
    PROVE  MapTables'
<1>0. Landscape.maxVersion \in Nat /\ document.version \in 0..Landscape.maxVersion
  BY OfficeParameters DEF M!DigitalMapAssumption, MapTables, M!NoDocument
<1>1. CASE UNCHANGED M!vars
  BY <1>1 DEF M!vars, MapTables
<1>2. ASSUME NEW i \in Landscape.images, M!upload(i) PROVE MapTables'
  BY <1>2 DEF M!upload, MapTables
<1>3. ASSUME NEW r \in Landscape.requests, M!get(r) \/ M!Leave(r) PROVE MapTables'
  BY <1>0, <1>3 DEF M!get, M!Leave, MapTables
<1>4. ASSUME NEW r \in Landscape.requests, M!check(r) PROVE MapTables'
  <2>1. mapCalls[r].version \in 0..Landscape.maxVersion
    BY <1>4 DEF M!check, MapTables, M!Idle
  <2>2. PICK drawing \in Landscape.drawings : mapCalls' = [mapCalls EXCEPT ![r] =
          [state |-> "saving", version |-> mapCalls[r].version, drawing |-> drawing]]
    BY <1>4 DEF M!check
  <2> QED
    BY <1>4, <2>1, <2>2 DEF M!check, MapTables
<1>5. ASSUME NEW r \in Landscape.requests, M!save(r) PROVE MapTables'
  <2>1. mapCalls[r].version \in 0..Landscape.maxVersion /\ mapCalls[r].drawing \in Landscape.drawings
    BY <1>5 DEF M!save, MapTables, M!Idle
  <2>2. mapCalls' \in [Landscape.requests ->
                      {M!Idle} \cup [state: {"open"}, version: 0..Landscape.maxVersion]
                              \cup [state: {"saving"}, version: 0..Landscape.maxVersion,
                                    drawing: Landscape.drawings]]
    <3>1. mapCalls' = [mapCalls EXCEPT ![r] = M!Idle]
      BY <1>5 DEF M!save
    <3> QED
      BY <3>1 DEF MapTables
  <2>3. CASE document.version = mapCalls[r].version
    <3>1. document.version + 1 \in 1..Landscape.maxVersion
      BY <1>0, <1>5 DEF M!save
    <3>2. Append(drawn, mapCalls[r].version) \in Seq(0..Landscape.maxVersion)
      BY <2>1, AppendProperties DEF MapTables
    <3>3. [version |-> document.version + 1, drawing |-> mapCalls[r].drawing]
            \in [version: 1..Landscape.maxVersion, drawing: Landscape.drawings]
      BY <2>1, <3>1
    <3>4. /\ document' = [version |-> document.version + 1, drawing |-> mapCalls[r].drawing]
          /\ drawn' = Append(drawn, mapCalls[r].version)
          /\ images' = images
      BY <1>5, <2>3 DEF M!save
    <3>5. document' \in [version: 1..Landscape.maxVersion, drawing: Landscape.drawings]
      BY <3>3, <3>4, Zenon
    <3>6. drawn' \in Seq(0..Landscape.maxVersion)
      BY <3>2, <3>4, Zenon
    <3>7. images' \subseteq Landscape.images
      BY <3>4, Zenon DEF MapTables
    <3> QED
      BY <2>2, <3>5, <3>6, <3>7, Zenon DEF MapTables
  <2>4. CASE document.version # mapCalls[r].version
    BY <1>5, <2>2, <2>4 DEF M!save, MapTables
  <2> QED
    BY <2>3, <2>4
<1> QED
  BY <1>1, <1>2, <1>3, <1>4, <1>5 DEF M!Next

LEMMA MapTyped == MapTables => M!TypeOK
  BY DEF MapTables, M!TypeOK

\* A box holds only boxes of lower kinds.
LEMMA BoxesAreLower ==
    ASSUME NEW drawing, M!validateDigitalMap(drawing), NEW n \in DOMAIN drawing.nodes
    PROVE  LET m == drawing.nodes[n].parent
           IN  m # None => /\ m \in DOMAIN drawing.nodes
                           /\ Rank(drawing.nodes[n].kind) < Rank(drawing.nodes[m].kind)
<1> SUFFICES ASSUME drawing.nodes[n].parent # None
             PROVE  /\ drawing.nodes[n].parent \in DOMAIN drawing.nodes
                    /\ Rank(drawing.nodes[n].kind)
                         < Rank(drawing.nodes[drawing.nodes[n].parent].kind)
  OBVIOUS
<1> DEFINE k == drawing.nodes[n].kind
           c == drawing.nodes[drawing.nodes[n].parent].kind
<1>1. drawing.nodes[n].parent \in DOMAIN drawing.nodes /\ k \in M!CONTAINER_CHILDREN(c)
  BY DEF M!validateDigitalMap
<1> HIDE DEF k, c
<1>2. Rank(k) < Rank(c)
  BY <1>1 DEF Rank, M!CONTAINER_CHILDREN, M!Leaves
<1> QED
  BY <1>1, <1>2 DEF k, c

\* The boxes of a drawing that was accepted nest at most five deep, none in itself.
LEMMA AcceptedCanBeDrawn ==
    ASSUME NEW drawing \in Landscape.drawings, M!validateDigitalMap(drawing),
           NEW n \in DOMAIN drawing.nodes
    PROVE  LET Container(m) == IF m \in DOMAIN drawing.nodes THEN drawing.nodes[m].parent ELSE None
           IN  Container(Container(Container(Container(Container(n))))) = None
<1> DEFINE Container(m) == IF m \in DOMAIN drawing.nodes THEN drawing.nodes[m].parent ELSE None
           R(m) == Rank(drawing.nodes[m].kind)
<1>1. \A m \in DOMAIN drawing.nodes :
        Container(m) # None => /\ Container(m) \in DOMAIN drawing.nodes
                               /\ R(m) < R(Container(m))
  BY BoxesAreLower
<1>2. Container(None) = None
  BY OfficeParameters DEF M!DigitalMapAssumption
<1>3. \A m : R(m) \in 0..4
  BY DEF Rank
<1> HIDE DEF Container, R
<1>4. Container(Container(Container(Container(Container(n))))) = None
  BY <1>1, <1>2, <1>3
<1> QED
  BY <1>4 DEF Container

LEMMA MapInvariant == Spec => []MapInv
<1>1. Init => MapInv
  BY MapStarts DEF Init
<1>2. MapInv /\ [Next]_vars => MapInv'
  BY PartsMove, MapKeeps
<1> QED
  BY <1>1, <1>2, PTL DEF Spec

LEMMA MapIsDrawable == Spec => []M!MapCanBeDrawn
<1>1. MapInv => M!MapCanBeDrawn
  BY AcceptedCanBeDrawn DEF MapInv, M!MapCanBeDrawn, M!validateDigitalMap
<1> QED
  BY <1>1, MapInvariant, PTL

LEMMA MapImplements == Spec => M!ImplementsRecord
<1>1. Init => M!Record!Init
  BY DEF Init, M!Init, M!Record!Init
<1>2. MapInv /\ [Next]_vars => [M!Record!Next]_MapHistory
  BY PartsMove, MapKeeps
<1> QED
  BY <1>1, <1>2, MapInvariant, PTL
     DEF Spec, M!ImplementsRecord, M!Record!Spec, MapHistory

------------------------------------------------------------------------------
(* Notifications.                                                             *)

\* There may be as many notifications as there are ids.
CountOf == [user: Notices.users,
            unread: {None} \cup {B!Cardinality(mine) : mine \in SUBSET Notices.notes}]

\* Every count that has been made is a number of now or of since the counts were started.
NoteInv ==
    /\ notes \in [Notices.notes -> B!Notification \cup {B!Absent}]
    /\ pushes \in [Notices.pushes -> CountOf \cup {B!Idle}]
    /\ DOMAIN badge = Notices.users
    /\ \A u \in Notices.users : emitted[u] => badge[u] # None /\ badge[u] \in since[u]
    /\ \A p \in Notices.pushes :
         pushes[p] # B!Idle /\ pushes[p].unread # None => pushes[p].unread \in since[pushes[p].user]

LEMMA NoteStarts == OfficeParameters /\ B!Init => NoteInv
  BY DEF B!Init, NoteInv, B!Idle

\* A step that leaves the numbers of those alone for whom no count is started.
LEMMA ObserveKeeps ==
    ASSUME NoteInv, B!Observe,
           notes' \in [Notices.notes -> B!Notification \cup {B!Absent}],
           pushes' \in [Notices.pushes -> CountOf \cup {B!Idle}],
           DOMAIN badge' = Notices.users,
           \A u \in Notices.users :
              B!Unread(u)' = B!Unread(u) \/ B!Pushing(u)',
           \* A count is emitted, or nothing is.
           \A u \in Notices.users :
              \/ badge'[u] = badge[u] \/ badge'[u] = None
              \/ badge[u] = None /\ ~(\E p \in Notices.pushes : pushes[p].user = u /\ pushes'[p] = B!Idle)
              \/ \E p \in Notices.pushes : /\ pushes[p] # B!Idle /\ pushes[p].user = u
                                           /\ pushes[p].unread # None /\ badge'[u] = pushes[p].unread,
           \A p \in Notices.pushes :
              pushes'[p] # B!Idle /\ pushes'[p].unread # None =>
                /\ pushes[p] # B!Idle /\ pushes[p].user = pushes'[p].user
                /\ \/ pushes'[p].unread = pushes[p].unread
                   \/ pushes'[p].unread = B!Unread(pushes[p].user)'
    PROVE  NoteInv'
<1>1. None \notin Notices.users
  BY OfficeParameters DEF B!NotificationsAssumption
<1>2. \A u \in Notices.users :
         /\ B!Pushing(u) => since'[u] = since[u] \cup {B!Unread(u)'}
         /\ ~B!Pushing(u) /\ ~B!Pushing(u)' /\ B!Unread(u)' = B!Unread(u) => since'[u] = since[u]
  BY DEF B!Observe
<1>3. \A u \in Notices.users : emitted'[u] =>
         /\ badge'[u] # None
         /\ \/ emitted[u] /\ (B!Pushing(u) \/ ~B!Pushing(u)')
            \/ \E p \in Notices.pushes : /\ pushes[p].user = u /\ pushes'[p] = B!Idle
                                         /\ badge'[u] = pushes[p].unread
  BY DEF B!Observe
<1>4. ASSUME NEW u \in Notices.users, emitted'[u]
      PROVE  badge'[u] \in since'[u]
  <2>1. CASE \E p \in Notices.pushes : /\ pushes[p].user = u /\ pushes[p].unread # None
                                       /\ badge'[u] = pushes[p].unread
    <3>1. PICK p \in Notices.pushes : /\ pushes[p].user = u /\ pushes[p].unread # None
                                      /\ badge'[u] = pushes[p].unread
      BY <2>1
    <3>2. pushes[p] # B!Idle /\ B!Pushing(u)
      BY <1>1, <3>1 DEF B!Idle, B!Pushing
    <3> QED
      BY <1>2, <3>1, <3>2 DEF NoteInv
  <2>2. CASE emitted[u] /\ badge'[u] = badge[u] /\ (B!Pushing(u) \/ ~B!Pushing(u)')
    <3>1. badge[u] \in since[u]
      BY <2>2 DEF NoteInv
    <3> QED
      BY <1>2, <2>2, <3>1
  <2>3. badge'[u] # None /\ (emitted[u] => badge[u] # None)
    BY <1>3, <1>4 DEF NoteInv
  <2> QED
    BY <1>3, <1>4, <2>1, <2>2, <2>3
<1>5. ASSUME NEW p \in Notices.pushes, pushes'[p] # B!Idle, pushes'[p].unread # None
      PROVE  pushes'[p].unread \in since'[pushes'[p].user]
  <2>1. PICK u \in Notices.users : u = pushes'[p].user
    BY <1>5 DEF CountOf
  <2>2. pushes[p].user = u /\ pushes[p] # B!Idle /\ B!Pushing(u)
    BY <1>5, <2>1 DEF B!Pushing
  <2>3. since'[u] = since[u] \cup {B!Unread(u)'}
    BY <1>2, <2>2
  <2>4. pushes'[p].unread = pushes[p].unread => pushes'[p].unread \in since[u]
    BY <1>5, <2>2 DEF NoteInv
  <2>5. pushes'[p].unread = pushes[p].unread \/ pushes'[p].unread = B!Unread(u)'
    BY <1>5, <2>1
  <2> QED
    BY <2>1, <2>3, <2>4, <2>5
<1> QED
  BY <1>3, <1>4, <1>5 DEF NoteInv

\* The number of a user is of his notifications only.
LEMMA UnreadIsOfHis ==
    ASSUME NEW u,
           \A n \in Notices.notes :
              notes[n].user = u \/ notes'[n].user = u => notes'[n] = notes[n]
    PROVE  B!Unread(u)' = B!Unread(u)
<1>1. {n \in B!Mine(u) : ~notes[n].isRead}' = {n \in B!Mine(u) : ~notes[n].isRead}
  BY DEF B!Mine
<1> QED
  BY <1>1 DEF B!Unread

\* Counts are started in slots of their own.
LEMMA PushesStart ==
    ASSUME NoteInv, NEW whom \in SUBSET Notices.users, B!StartPush(whom)
    PROVE  /\ pushes' \in [Notices.pushes -> CountOf \cup {B!Idle}]
           /\ \A p \in Notices.pushes :
                \/ pushes'[p] = pushes[p]
                \/ pushes[p] = B!Idle /\ pushes'[p].unread = None
           /\ \A u \in whom : B!Pushing(u)'
           /\ \A p \in Notices.pushes : pushes[p] # B!Idle => pushes'[p] = pushes[p]
<1>1. PICK slot :
        /\ \A u \in whom : slot[u] \in Notices.pushes /\ pushes[slot[u]] = B!Idle
        /\ \A u, v \in whom : u # v => slot[u] # slot[v]
        /\ pushes' = [p \in Notices.pushes |->
                        IF \E u \in whom : slot[u] = p
                        THEN [user |-> CHOOSE u \in whom : slot[u] = p, unread |-> None]
                        ELSE pushes[p]]
  BY DEF B!StartPush
<1>2. \A u \in whom : (CHOOSE v \in whom : slot[v] = slot[u]) = u
  BY <1>1
<1>3. \A u \in whom : pushes'[slot[u]].user = u /\ pushes'[slot[u]].unread = None
  BY <1>1, <1>2
<1>10. \A u \in whom : /\ slot[u] \in Notices.pushes /\ pushes[slot[u]] = B!Idle
                       /\ pushes'[slot[u]] = [user |-> u, unread |-> None]
  BY <1>1, <1>2
<1>4. \A p \in Notices.pushes : (\E u \in whom : slot[u] = p) \/ pushes'[p] = pushes[p]
  BY <1>1
<1>5. \A u \in whom : [user |-> u, unread |-> None] \in CountOf
  BY DEF CountOf
<1>6. pushes' \in [Notices.pushes -> CountOf \cup {B!Idle}]
  <2>1. ASSUME NEW p \in Notices.pushes PROVE pushes'[p] \in CountOf \cup {B!Idle}
    <3>1. CASE pushes'[p] = pushes[p]
      BY <3>1 DEF NoteInv
    <3>2. ASSUME NEW u \in whom, slot[u] = p PROVE pushes'[p] \in CountOf
      BY <1>10, <1>5, <3>2
    <3> QED
      BY <1>4, <3>1, <3>2
  <2>2. pushes' = [p \in Notices.pushes |-> pushes'[p]]
    BY <1>1
  <2> QED
    BY <2>1, <2>2
<1>7. ASSUME NEW p \in Notices.pushes
      PROVE  \/ pushes'[p] = pushes[p]
             \/ pushes[p] = B!Idle /\ pushes'[p].unread = None
  <2>1. ASSUME NEW u \in whom, slot[u] = p PROVE pushes[p] = B!Idle /\ pushes'[p].unread = None
    BY <1>1, <1>3, <2>1
  <2> QED
    BY <1>4, <2>1
<1>8. ASSUME NEW u \in whom PROVE B!Pushing(u)'
  <2>1. pushes'[slot[u]].user = u
    BY <1>3
  <2> QED
    BY <1>1, <2>1 DEF B!Pushing
<1>9. ASSUME NEW p \in Notices.pushes, pushes[p] # B!Idle PROVE pushes'[p] = pushes[p]
  BY <1>1, <1>4, <1>9
<1> QED
  BY <1>6, <1>7, <1>8, <1>9

\* A request changes notifications, and starts counts of those whose they are.
LEMMA ChangeKeeps ==
    ASSUME NoteInv, NEW whom \in SUBSET Notices.users,
           NEW after \in [Notices.notes -> B!Notification \cup {B!Absent}],
           \A n \in Notices.notes : \A u \in Notices.users \ whom :
              notes[n].user = u \/ after[n].user = u => after[n] = notes[n],
           B!Change(whom, after)
    PROVE  NoteInv'
<1>1. /\ notes' = after /\ badge' = badge /\ B!StartPush(whom) /\ B!Observe
  BY DEF B!Change
<1>2. \A u \in Notices.users : B!Unread(u)' = B!Unread(u) \/ B!Pushing(u)'
  BY <1>1, PushesStart, UnreadIsOfHis
<1> QED
  BY <1>1, <1>2, PushesStart, ObserveKeeps DEF NoteInv

LEMMA NotePresent == B!Absent \notin B!Notification
  BY DEF B!Absent, B!Notification

LEMMA NoteKeeps ==
    ASSUME NoteInv, [B!Next]_(B!vars)
    PROVE  NoteInv'
<1>0. None \notin Notices.users
  BY OfficeParameters DEF B!NotificationsAssumption
<1>1. CASE UNCHANGED B!vars
  BY <1>1 DEF B!vars, NoteInv
<1>2. ASSUME NEW u \in Notices.users, NEW n \in B!Mine(u)
      PROVE  /\ n \in Notices.notes /\ notes[n].user = u /\ notes[n] \in B!Notification
             /\ \A isRead \in BOOLEAN : [notes[n] EXCEPT !.isRead = isRead] \in B!Notification
             /\ \A isRead \in BOOLEAN : [notes[n] EXCEPT !.isRead = isRead].user = u
  <2>1. n \in Notices.notes /\ notes[n].user = u
    BY <1>2 DEF B!Mine
  <2>2. notes[n] \in B!Notification
    BY <1>0, <2>1 DEF NoteInv, B!Absent
  <2> QED
    BY <2>1, <2>2 DEF B!Notification
\* The row of a user's notification becomes "row".
<1>3. ASSUME NEW u \in Notices.users, NEW n \in Notices.notes, notes[n].user \in {u, None},
             NEW row \in B!Notification \cup {B!Absent}, row.user \in {u, None},
             B!Change({u}, [notes EXCEPT ![n] = row])
      PROVE  NoteInv'
  <2> DEFINE after == [notes EXCEPT ![n] = row]
  <2>1. after \in [Notices.notes -> B!Notification \cup {B!Absent}]
    BY DEF NoteInv
  <2>2. \A m \in Notices.notes : \A v \in Notices.users \ {u} :
          notes[m].user = v \/ after[m].user = v => after[m] = notes[m]
    BY <1>0, <1>3 DEF NoteInv
  <2> HIDE DEF after
  <2>3. B!Change({u}, after)
    BY <1>3 DEF after
  <2> QED
    BY <2>1, <2>2, <2>3, ChangeKeeps
<1>4. ASSUME NEW u \in Notices.users, B!createForUser(u) PROVE NoteInv'
  <2>1. [user |-> u, isRead |-> FALSE] \in B!Notification
    BY DEF B!Notification
  <2>2. PICK n \in Notices.notes : /\ notes[n] = B!Absent
                                   /\ B!Change({u}, [notes EXCEPT ![n] = [user |-> u, isRead |-> FALSE]])
    BY <1>4 DEF B!createForUser
  <2> DEFINE row == [user |-> u, isRead |-> FALSE]
  <2>3. notes[n].user = None /\ row.user = u /\ row \in B!Notification
    BY <2>1, <2>2 DEF B!Absent
  <2> HIDE DEF row
  <2>4. B!Change({u}, [notes EXCEPT ![n] = row])
    BY <2>2 DEF row
  <2> QED
    BY <1>3, <2>3, <2>4
<1>5. ASSUME NEW u \in Notices.users, B!markRead(u) \/ B!markUnread(u) PROVE NoteInv'
  <2>1. PICK n \in B!Mine(u), isRead \in BOOLEAN :
          B!Change({u}, [notes EXCEPT ![n] = [notes[n] EXCEPT !.isRead = isRead]])
    BY <1>5 DEF B!markRead, B!markUnread
  <2> DEFINE row == [notes[n] EXCEPT !.isRead = isRead]
  <2>2. n \in Notices.notes /\ notes[n].user = u /\ row \in B!Notification /\ row.user = u
    BY <1>2
  <2> HIDE DEF row
  <2>3. B!Change({u}, [notes EXCEPT ![n] = row])
    BY <2>1 DEF row
  <2> QED
    BY <1>3, <2>2, <2>3
<1>6. ASSUME NEW u \in Notices.users, B!remove(u) PROVE NoteInv'
  <2>1. PICK n \in B!Mine(u) : B!Change({u}, [notes EXCEPT ![n] = B!Absent])
    BY <1>6 DEF B!remove
  <2>2. n \in Notices.notes /\ notes[n].user = u /\ B!Absent.user = None
    BY <1>2 DEF B!Absent
  <2> QED
    BY <1>3, <2>1, <2>2
<1>7. ASSUME NEW u \in Notices.users, B!markAllRead(u) PROVE NoteInv'
  <2> DEFINE after == [n \in Notices.notes |-> IF n \in B!Mine(u) THEN [notes[n] EXCEPT !.isRead = TRUE]
                                               ELSE notes[n]]
  <2>1. after \in [Notices.notes -> B!Notification \cup {B!Absent}]
    BY <1>2 DEF NoteInv
  <2>2. \A m \in Notices.notes : \A v \in Notices.users \ {u} :
          notes[m].user = v \/ after[m].user = v => after[m] = notes[m]
    BY <1>2
  <2>3. B!Change({u}, after)
    BY <1>7 DEF B!markAllRead
  <2> HIDE DEF after
  <2> QED
    BY <2>1, <2>2, <2>3, ChangeKeeps
<1>8. ASSUME NEW u \in Notices.users, B!removeAllRead(u) PROVE NoteInv'
  <2> DEFINE after == [n \in Notices.notes |-> IF n \in B!Mine(u) /\ notes[n].isRead THEN B!Absent
                                               ELSE notes[n]]
  <2>1. after \in [Notices.notes -> B!Notification \cup {B!Absent}]
    BY DEF NoteInv
  <2>2. \A m \in Notices.notes : \A v \in Notices.users \ {u} :
          notes[m].user = v \/ after[m].user = v => after[m] = notes[m]
    BY <1>0, <1>2 DEF B!Absent
  <2>3. B!Change({u}, after)
    BY <1>8 DEF B!removeAllRead
  <2> HIDE DEF after
  <2> QED
    BY <2>1, <2>2, <2>3, ChangeKeeps
<1>9. ASSUME NEW whom \in SUBSET Notices.users, B!createManyForUsers(whom) PROVE NoteInv'
  <2>1. PICK id \in [whom -> {n \in Notices.notes : notes[n] = B!Absent}] :
          /\ \A u, v \in whom : u # v => id[u] # id[v]
          /\ B!Change(whom, [n \in Notices.notes |->
                                IF \E u \in whom : id[u] = n
                                THEN [user |-> CHOOSE u \in whom : id[u] = n, isRead |-> FALSE]
                                ELSE notes[n]])
    BY <1>9 DEF B!createManyForUsers
  <2> DEFINE after == [n \in Notices.notes |->
                                IF \E u \in whom : id[u] = n
                                THEN [user |-> CHOOSE u \in whom : id[u] = n, isRead |-> FALSE]
                                ELSE notes[n]]
  <2>2. \A n \in Notices.notes :
          \/ /\ ~(\E u \in whom : id[u] = n) /\ after[n] = notes[n]
          \/ \E u \in whom : /\ notes[n] = B!Absent
                             /\ after[n] = [user |-> u, isRead |-> FALSE]
    BY <2>1
  <2>3. \A u \in whom : [user |-> u, isRead |-> FALSE] \in B!Notification
    BY DEF B!Notification
  <2>4. after \in [Notices.notes -> B!Notification \cup {B!Absent}]
    <3>1. \A n \in Notices.notes : after[n] \in B!Notification \cup {B!Absent}
      BY <2>2, <2>3 DEF NoteInv
    <3> QED
      BY <3>1
  <2>5. \A m \in Notices.notes : \A v \in Notices.users \ whom :
          notes[m].user = v \/ after[m].user = v => after[m] = notes[m]
    BY <1>0, <2>2 DEF B!Absent
  <2>6. B!Change(whom, after)
    BY <2>1
  <2> HIDE DEF after
  <2> QED
    BY <2>4, <2>5, <2>6, ChangeKeeps
<1>10. \A u \in Notices.users : notes' = notes => B!Unread(u)' = B!Unread(u)
  BY UnreadIsOfHis
<1>11. ASSUME NEW u \in Notices.users, B!handleConnection(u) PROVE NoteInv'
  <2>1. /\ badge[u] = None /\ badge' = [badge EXCEPT ![u] = 0] /\ notes' = notes
        /\ B!StartPush({u}) /\ B!Observe
    BY <1>11 DEF B!handleConnection
  <2>2. \A p \in Notices.pushes : pushes[p].user = u => pushes'[p] = pushes[p] /\ pushes[p] # B!Idle
    BY <1>0, <2>1, PushesStart DEF B!Idle
  <2>3. \A v \in Notices.users :
           \/ badge'[v] = badge[v]
           \/ badge[v] = None /\ ~(\E p \in Notices.pushes : pushes[p].user = v /\ pushes'[p] = B!Idle)
    BY <2>1, <2>2 DEF NoteInv
  <2> QED
    BY <1>10, <2>1, <2>3, PushesStart, ObserveKeeps DEF NoteInv
<1>12. ASSUME NEW u \in Notices.users, B!handleDisconnect(u) PROVE NoteInv'
  BY <1>10, <1>12, ObserveKeeps DEF B!handleDisconnect, NoteInv
<1>13. ASSUME NEW p \in Notices.pushes, B!CountUnread(p) PROVE NoteInv'
  <2> DEFINE count == B!Unread(pushes[p].user)
             push  == [pushes[p] EXCEPT !.unread = count]
  <2>1. /\ pushes[p] \in CountOf /\ pushes[p].user \in Notices.users
    BY <1>13 DEF B!CountUnread, NoteInv, CountOf
  <2>2. push \in CountOf /\ push.user = pushes[p].user /\ push.unread = count
    <3>1. count \in {B!Cardinality(mine) : mine \in SUBSET Notices.notes}
      BY DEF B!Unread, B!Mine
    <3> HIDE DEF count
    <3> QED
      BY <2>1, <3>1 DEF CountOf
  <2>3. notes' = notes /\ badge' = badge /\ B!Observe /\ pushes' = [pushes EXCEPT ![p] = push]
    BY <1>13 DEF B!CountUnread
  <2>4. PICK u \in Notices.users : u = pushes[p].user
    BY <2>1
  <2>5. count = B!Unread(u)'
    BY <1>10, <2>3, <2>4
  <2> HIDE DEF count, push
  <2>6. pushes[p] # B!Idle
    BY <1>13 DEF B!CountUnread
  <2>7. pushes'[p] = push /\ \A q \in Notices.pushes \ {p} : pushes'[q] = pushes[q]
    BY <2>3 DEF NoteInv
  <2>8. pushes' \in [Notices.pushes -> CountOf \cup {B!Idle}]
    BY <2>2, <2>3 DEF NoteInv
  <2>9. pushes'[p].unread = B!Unread(pushes[p].user)'
    BY <2>2, <2>4, <2>5, <2>7
  <2> QED
    BY <1>10, <2>2, <2>3, <2>6, <2>7, <2>8, <2>9, ObserveKeeps DEF NoteInv
<1>14. ASSUME NEW p \in Notices.pushes, B!emitUnreadCount(p) PROVE NoteInv'
  <2>1. /\ pushes[p] \in CountOf /\ pushes[p] # B!Idle /\ pushes[p].unread # None
        /\ pushes' = [pushes EXCEPT ![p] = B!Idle] /\ notes' = notes /\ B!Observe
        /\ badge' = [badge EXCEPT ![pushes[p].user] = IF badge[pushes[p].user] = None THEN None
                                                      ELSE pushes[p].unread]
    BY <1>14 DEF B!emitUnreadCount, NoteInv
  <2>2. \A u \in Notices.users :
           \/ badge'[u] = badge[u] \/ badge'[u] = None
           \/ \E q \in Notices.pushes : /\ pushes[q] # B!Idle /\ pushes[q].user = u
                                        /\ pushes[q].unread # None /\ badge'[u] = pushes[q].unread
    BY <2>1 DEF NoteInv
  <2> QED
    BY <1>10, <2>1, <2>2, ObserveKeeps DEF NoteInv
<1>15. ASSUME NEW p \in Notices.pushes, B!CountFailed(p) PROVE NoteInv'
  BY <1>10, <1>15, ObserveKeeps DEF B!CountFailed, NoteInv
<1> QED
  BY <1>1, <1>4, <1>5, <1>6, <1>7, <1>8, <1>9, <1>11, <1>12, <1>13, <1>14, <1>15 DEF B!Next

LEMMA CountsAreNumbers ==
    ASSUME NEW mine \in SUBSET Notices.notes
    PROVE  B!Cardinality(mine) \in Nat
<1>1. IsFiniteSet(Notices.notes)
  BY OfficeParameters DEF B!NotificationsAssumption, B!IsFiniteSet, IsFiniteSet
<1>2. Cardinality(mine) \in Nat
  BY <1>1, FS_Subset, FS_CardinalityType
<1> QED
  BY <1>2 DEF B!Cardinality, Cardinality

BadgeTables ==
    /\ badge \in [Notices.users -> Nat \cup {None}]
    /\ since \in [Notices.users -> SUBSET Nat]
    /\ emitted \in [Notices.users -> BOOLEAN]

LEMMA BadgeTablesStart == B!Init => BadgeTables
  BY DEF B!Init, BadgeTables

LEMMA BadgeTablesKeep ==
    ASSUME NoteInv, BadgeTables, [B!Next]_(B!vars)
    PROVE  BadgeTables'
<1>1. CASE UNCHANGED B!vars
  BY <1>1 DEF B!vars, BadgeTables
<1>2. ASSUME B!Observe PROVE since' \in [Notices.users -> SUBSET Nat] /\ emitted' \in [Notices.users -> BOOLEAN]
  <2>1. \A u \in Notices.users : B!Unread(u)' \in Nat
    <3> SUFFICES ASSUME NEW u \in Notices.users PROVE B!Unread(u)' \in Nat
      OBVIOUS
    <3> DEFINE mine == {n \in B!Mine(u)' : ~notes'[n].isRead}
    <3>1. B!Unread(u)' = B!Cardinality(mine) /\ mine \in SUBSET Notices.notes
      BY DEF B!Unread, B!Mine
    <3> HIDE DEF mine
    <3> QED
      BY <3>1, CountsAreNumbers
  <2> QED
    BY <1>2, <2>1 DEF B!Observe, BadgeTables
<1>3. CASE B!Observe /\ badge' = badge
  BY <1>2, <1>3 DEF BadgeTables
<1>4. ASSUME NEW u \in Notices.users, B!handleConnection(u) \/ B!handleDisconnect(u)
      PROVE  BadgeTables'
  BY <1>2, <1>4 DEF B!handleConnection, B!handleDisconnect, BadgeTables
<1>5. ASSUME NEW p \in Notices.pushes, B!emitUnreadCount(p) PROVE BadgeTables'
  <2>1. pushes[p] \in CountOf /\ pushes[p].unread # None
    BY <1>5 DEF B!emitUnreadCount, NoteInv
  <2>2. pushes[p].unread \in Nat
    BY <2>1, CountsAreNumbers DEF CountOf
  <2> QED
    BY <1>2, <1>5, <2>2 DEF B!emitUnreadCount, BadgeTables
<1>6. ASSUME NEW p, B!CountUnread(p) \/ B!CountFailed(p) PROVE BadgeTables'
  BY <1>3, <1>6 DEF B!CountUnread, B!CountFailed
<1>7. ASSUME NEW whom, NEW after, B!Change(whom, after) PROVE BadgeTables'
  BY <1>3, <1>7 DEF B!Change
<1>8. ASSUME NEW u, \/ B!createForUser(u) \/ B!markRead(u) \/ B!markUnread(u) \/ B!markAllRead(u)
                    \/ B!remove(u) \/ B!removeAllRead(u)
      PROVE  BadgeTables'
  BY <1>7, <1>8 DEF B!createForUser, B!markRead, B!markUnread, B!markAllRead, B!remove, B!removeAllRead
<1>9. ASSUME NEW whom, B!createManyForUsers(whom) PROVE BadgeTables'
  BY <1>7, <1>9 DEF B!createManyForUsers
<1> QED
  BY <1>1, <1>4, <1>5, <1>6, <1>8, <1>9 DEF B!Next

LEMMA NotesTyped == NoteInv /\ BadgeTables => B!TypeOK
<1> SUFFICES ASSUME NoteInv, BadgeTables PROVE B!TypeOK
  OBVIOUS
<1>1. CountOf \subseteq B!Push
  BY CountsAreNumbers DEF CountOf, B!Push
<1> QED
  BY <1>1 DEF NoteInv, BadgeTables, B!TypeOK

\* A badge shows a number the user has had since his last changes, however counts overtake each
\* other; those who are told of an item are filtered by who may read it, however transactions
\* interleave (NotificationsService.pushUnreadCount, TasksService.log).
THEOREM NotificationsStaySound == Spec => []NotificationsAreSound
<1>1. Init => WorkPartsInv /\ NoteInv
  BY WorkPartsStart, NoteStarts, OfficeParameters DEF Init
<1>2. WorkPartsInv /\ NoteInv /\ [Next]_vars => WorkPartsInv' /\ NoteInv'
  BY WorkPartsKeep, PartsMove, NoteKeeps
<1>3. WorkPartsInv /\ NoteInv => NotificationsAreSound
  BY DEF WorkPartsInv, NoteInv, NotificationsAreSound, B!BadgeIsRecent, F!FilterInv, P!FilterInv
<1> QED
  BY <1>1, <1>2, <1>3, PTL DEF Spec

------------------------------------------------------------------------------
(* What two components promise together.                                      *)

\* No tree write makes a circle or an orphan, although each checks only what it has read and
\* compares the version of one record; a position counts as acknowledged only by its present
\* occupant in its present revision; an accepted map nests no box in itself, and its images stay
\* (org-chart.service.ts, digital-map.service.ts).
THEOREM ChartStaysSound == Spec => []ChartIsSound
  BY TreeIsSound, PositionsAreSound, MapIsDrawable, PTL DEF ChartIsSound

\* Nobody saves over a change of a ticket or of the map that his page does not show: both
\* implement VersionedRecord (it-support.service.ts, mutate; digital-map.service.ts, save).
THEOREM VersionedRecordsAreImplemented == Spec => VersionedRecords
  BY TicketsImplement, MapImplements, PTL DEF VersionedRecords

------------------------------------------------------------------------------
(* The shapes of the rows.                                                    *)

CaseTables == failed \subseteq Improvement.cases

LEMMA CaseTablesKeep ==
    ASSUME CaseInv, CaseTables, [C!Next]_(C!vars)
    PROVE  CaseTables'
<1>1. CASE UNCHANGED failed
  BY <1>1 DEF CaseTables
<1>2. ASSUME NEW r \in Improvement.requests, C!Fail(r) PROVE CaseTables'
  <2>1. caseCalls[r].state = "updated" => caseCalls[r].case \in Improvement.cases
    BY DEF CaseInv, CaseRead, CaseUpdated, C!Idle
  <2> QED
    BY <1>2, <2>1 DEF C!Fail, C!Of, CaseTables
<1> QED
  BY <1>1, <1>2
     DEF C!Next, C!vars, C!Read, C!createCase, C!updateCase, C!updatePhase, C!closeCase,
         C!cancelCase, C!addLog, C!Log, C!Update

LEMMA WorkTyped ==
    ASSUME WorkPartsInv
    PROVE  /\ part = "work" => T!TypeOK
           /\ part = "files" => F!TypeOK
           /\ part = "circles" => U!TypeOK
           /\ part = "projects" => P!TypeOK
  BY DEF WorkPartsInv, T!GoodWork, T!WorkInv, F!FilterInv, F!GoodWork, F!WorkInv, U!GoodWork,
         U!WorkInv, P!FilterInv, P!GoodWork, P!WorkInv

LEMMA TeamTyped == TeamInv => D!TypeOK
  BY DEF TeamInv, TeamProject, D!TypeOK, D!Project

LEMMA CasesTyped == CaseInv /\ CaseTables => C!TypeOK
  BY DEF CaseInv, CaseTables, C!TypeOK

\* The rows of the office components keep the shape of their tables, whatever requests
\* interleave (prisma/schema.prisma).
THEOREM RowsHaveShape == Spec => []TypeOK
<1> DEFINE Tables == /\ WorkPartsInv /\ TicketInv /\ TeamInv
                     /\ part = "tree" => ChartInv(Tree)
                     /\ part = "positions" => ChartInv(Positions)
                     /\ QualityTables /\ CaseInv /\ CaseTables /\ AccountsInv /\ AccountTables
                     /\ MapTables /\ NoteInv /\ BadgeTables
<1>1. Init => Tables
  <2> SUFFICES ASSUME Init PROVE Tables
    OBVIOUS
  <2>1. WorkPartsInv /\ TicketInv /\ TeamInv /\ QualityTables
    BY WorkPartsStart, TicketsStart, TeamStarts, TablesStart DEF Init
  <2>2. CaseInv /\ CaseTables /\ AccountsInv /\ AccountTables
    BY CaseStarts, AccountsStart, AccountTablesStart DEF Init, C!Init, CaseTables
  <2>3. MapTables /\ NoteInv /\ BadgeTables
    BY MapTablesStart, NoteStarts, BadgeTablesStart, OfficeParameters DEF Init
  <2>4. /\ part = "tree" => ChartInv(Tree)
        /\ part = "positions" => ChartInv(Positions)
    BY ChartStarts DEF Init
  <2> QED
    BY <2>1, <2>2, <2>3, <2>4
<1>2. Tables /\ [Next]_vars => Tables'
  <2> SUFFICES ASSUME Tables, [Next]_vars PROVE Tables'
    OBVIOUS
  <2>1. WorkPartsInv' /\ TicketInv' /\ TeamInv' /\ QualityTables'
    BY PartsMove, WorkPartsKeep, TicketsKeep, TeamKeeps, TablesKeep
  <2>2. CaseInv' /\ CaseTables' /\ AccountsInv' /\ AccountTables'
    BY PartsMove, CaseKeeps, CaseTablesKeep, AccountsKeep, AccountTablesKeep
  <2>3. MapTables' /\ NoteInv' /\ BadgeTables'
    BY PartsMove, MapTablesKeep, NoteKeeps, BadgeTablesKeep
  <2>4. (part = "tree" => ChartInv(Tree))'
    BY PartsMove, OfficeParameters, ChartKeeps
  <2>5. (part = "positions" => ChartInv(Positions))'
    BY PartsMove, OfficeParameters, ChartKeeps
  <2> QED
    BY <2>1, <2>2, <2>3, <2>4, <2>5
<1>3. Tables => TypeOK
  <2> SUFFICES ASSUME Tables PROVE TypeOK
    OBVIOUS
  <2>1. I!TypeOK
    BY DEF TicketInv, SoundTicket, SoundLog, I!TypeOK
  <2>2. part = "tree" => O(Tree)!TypeOK
    BY DEF ChartInv, Node, O!TypeOK
  <2>3. part = "positions" => O(Positions)!TypeOK
    BY DEF ChartInv, Node, O!TypeOK
  <2> QED
    BY <2>1, <2>2, <2>3, WorkTyped, TeamTyped, QualityTyped, CasesTyped, AccountsTyped, MapTyped,
       NotesTyped DEF TypeOK
<1> HIDE DEF Tables
<1> QED
  BY <1>1, <1>2, <1>3, PTL DEF Spec
=============================================================================

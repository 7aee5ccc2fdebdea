---------------------------- MODULE QualityControl ----------------------------
(***************************************************************************)
(* Quality control (QualityControlService): process cards with their       *)
(* checklists and documents, and the default cards and checklist items     *)
(* that each process of the service puts in the database before its first  *)
(* list is answered.                                                       *)
(*                                                                         *)
(* The promise of that seeding is kept in memory: whoever asks meanwhile   *)
(* waits for it, a failure forgets it, a restart too.  The seeding itself  *)
(* is four statements, between which users edit.                           *)
(*                                                                         *)
(* Left out: who may use the module (four roles, the same for every        *)
(* operation), the texts, dates and order, and the log, which is written   *)
(* after the row and outside its transaction as in Pdca.                   *)
(***************************************************************************)
EXTENDS Integers, FiniteSets

CONSTANTS Cards, Codes, Items, Titles, Documents,
          DEFAULT_CARDS,               \* the default cards: [card -> code]
          DEFAULT_QUALITY_CHECKLISTS,  \* the default items: [item -> [code, title]]
          None

QualityAssumption ==
    /\ DOMAIN DEFAULT_CARDS \subseteq Cards
    /\ \A c \in DOMAIN DEFAULT_CARDS : DEFAULT_CARDS[c] \in Codes
    /\ DOMAIN DEFAULT_QUALITY_CHECKLISTS \subseteq Items
    /\ \A i \in DOMAIN DEFAULT_QUALITY_CHECKLISTS :
         DEFAULT_QUALITY_CHECKLISTS[i] \in [code: Codes, title: Titles]
    /\ IsFiniteSet(Items)
    /\ None \notin Cards \cup Codes \cup Titles

VARIABLES cards,      \* the code of each card, or None
          items, documents,
          memo,       \* defaultDataPromise: "none", "pending" or "done"
          seeding,    \* what the running seeding has read
          deleted     \* default items deleted since this process answered its first list

vars == <<cards, items, documents, memo, seeding, deleted>>

Absent   == [card |-> None]
Idle     == [state |-> "idle"]
Defaults == DOMAIN DEFAULT_QUALITY_CHECKLISTS

QualityChecklistItem == [card: Cards, title: Titles, isChecked: BOOLEAN]
QualityDocument      == [card: Cards, status: {"ACTIVE", "NEEDS_REVIEW"}]

\* Before each of the statements of a seeding, with what it has read by then.
Seeding == {Idle, [state |-> "cards"]}
             \cup [state: {"items"}, cards: [Cards -> Codes \cup {None}]]
             \cup [state: {"missing"}, rows: SUBSET [id: Defaults, card: Cards, title: Titles]]

Recorded      == {c \in Cards : cards[c] # None}
UsedCodes     == {cards[c] : c \in Recorded}
Checklist(c)  == {i \in Items : items[i].card = c}

\* One card of listCards; a percentage is rounded to the nearest.
summarizeCard(c) ==
    LET total == Cardinality(Checklist(c))
        done  == Cardinality({i \in Checklist(c) : items[i].isChecked})
    IN  [checklistTotal |-> total, checklistDone |-> done,
         documentsNeedReview |-> Cardinality(
             {d \in Documents : documents[d] = [card |-> c, status |-> "NEEDS_REVIEW"]}),
         completion |-> IF total = 0 THEN 0 ELSE (200 * done + total) \div (2 * total)]

TypeOK ==
    /\ cards \in [Cards -> Codes \cup {None}]
    /\ items \in [Items -> QualityChecklistItem \cup {Absent}]
    /\ documents \in [Documents -> QualityDocument \cup {Absent}]
    /\ memo \in {"none", "pending", "done"}
    /\ seeding \in Seeding
    /\ memo = "pending" <=> seeding # Idle
    /\ deleted \subseteq Defaults
    /\ \A c \in Cards : summarizeCard(c).completion \in 0..100

Init ==
    /\ cards = [c \in Cards |-> None]
    /\ items = [i \in Items |-> Absent]
    /\ documents = [d \in Documents |-> Absent]
    /\ memo = "none" /\ seeding = Idle /\ deleted = {}

-----------------------------------------------------------------------------
(* Seeding (seedDefaultData).                                              *)

\* Faulty variant: every list seeds.
ensureEachTime ==
    /\ memo # "pending"
    /\ memo' = "pending"
    /\ seeding' = [state |-> "cards"]
    /\ UNCHANGED <<cards, items, documents, deleted>>

\* The first list of a process begins it with the cards whose id and code are both unused.
ensureDefaultCards ==
    /\ memo = "none"
    /\ memo' = "pending"
    /\ seeding' = [state |-> "cards"]
    /\ cards' = [c \in Cards |->
         IF /\ c \in DOMAIN DEFAULT_CARDS
            /\ cards[c] = None
            /\ DEFAULT_CARDS[c] \notin UsedCodes
         THEN DEFAULT_CARDS[c] ELSE cards[c]]
    /\ UNCHANGED <<items, documents, deleted>>

\* Which card has which code by now.
FindCards ==
    /\ seeding.state = "cards"
    /\ seeding' = [state |-> "items", cards |-> cards]
    /\ UNCHANGED <<cards, items, documents, memo, deleted>>

\* The items those cards lack, by id and by title.
FindItems ==
    /\ seeding.state = "items"
    /\ LET wanted(i) == DEFAULT_QUALITY_CHECKLISTS[i]
           card(i)   == {c \in Cards : seeding.cards[c] = wanted(i).code}
           found(i)  == {j \in Items : items[j].card \in card(i)
                                       /\ (j = i \/ items[j].title = wanted(i).title)}
       IN  seeding' = [state |-> "missing",
                       rows |-> {row \in [id: Defaults, card: Cards, title: Titles] :
                                   /\ row.card \in card(row.id) /\ found(row.id) = {}
                                   /\ row.title = wanted(row.id).title}]
    /\ UNCHANGED <<cards, items, documents, memo, deleted>>

\* createMany with skipDuplicates: an id that exists is left as it is.
CreateItems ==
    /\ seeding.state = "missing"
    /\ items' = [i \in Items |->
         IF items[i] = Absent /\ \E row \in seeding.rows : row.id = i
         THEN LET row == CHOOSE row \in seeding.rows : row.id = i
              IN  [card |-> row.card, title |-> row.title, isChecked |-> FALSE]
         ELSE items[i]]
    /\ memo' = "done" /\ seeding' = Idle
    /\ UNCHANGED <<cards, documents, deleted>>

\* Faulty variant: the failed promise is kept.
SeedingFailsForGood ==
    /\ memo = "pending"
    /\ seeding' = Idle
    /\ UNCHANGED <<cards, items, documents, memo, deleted>>

\* A statement fails: the next list tries again.
SeedingFails ==
    /\ memo = "pending"
    /\ memo' = "none" /\ seeding' = Idle
    /\ UNCHANGED <<cards, items, documents, deleted>>

Restart ==
    /\ memo # "none"
    /\ memo' = "none" /\ seeding' = Idle /\ deleted' = {}
    /\ UNCHANGED <<cards, items, documents>>

-----------------------------------------------------------------------------
(* Users.  An item or document of another card is not found; one that is   *)
(* deleted between the look-up and the write makes the write fail.         *)

createCard(c, code) ==
    /\ cards[c] = None /\ c \notin DOMAIN DEFAULT_CARDS
    /\ code \notin UsedCodes
    /\ cards' = [cards EXCEPT ![c] = code]
    /\ UNCHANGED <<items, documents, memo, seeding, deleted>>

updateCard(c, code) ==
    /\ cards[c] # None
    /\ code \notin UsedCodes
    /\ cards' = [cards EXCEPT ![c] = code]
    /\ UNCHANGED <<items, documents, memo, seeding, deleted>>

createChecklistItem(c, i, title, isChecked) ==
    /\ cards[c] # None
    /\ items[i] = Absent /\ i \notin Defaults
    /\ items' = [items EXCEPT ![i] = [card |-> c, title |-> title, isChecked |-> isChecked]]
    /\ UNCHANGED <<cards, documents, memo, seeding, deleted>>

updateChecklistItem(i, title, isChecked) ==
    /\ items[i] # Absent
    /\ items' = [items EXCEPT ![i] = [@ EXCEPT !.title = title, !.isChecked = isChecked]]
    /\ UNCHANGED <<cards, documents, memo, seeding, deleted>>

deleteChecklistItem(i) ==
    /\ items[i] # Absent
    /\ items' = [items EXCEPT ![i] = Absent]
    /\ deleted' = IF memo = "done" /\ i \in Defaults THEN deleted \cup {i} ELSE deleted
    /\ UNCHANGED <<cards, documents, memo, seeding>>

createDocument(c, d, status) ==
    /\ cards[c] # None
    /\ documents[d] = Absent
    /\ documents' = [documents EXCEPT ![d] = [card |-> c, status |-> status]]
    /\ UNCHANGED <<cards, items, memo, seeding, deleted>>

updateDocument(d, status) ==
    /\ documents[d] # Absent
    /\ documents' = [documents EXCEPT ![d] = [@ EXCEPT !.status = status]]
    /\ UNCHANGED <<cards, items, memo, seeding, deleted>>

deleteDocument(d) ==
    /\ documents[d] # Absent
    /\ documents' = [documents EXCEPT ![d] = Absent]
    /\ UNCHANGED <<cards, items, memo, seeding, deleted>>

Next ==
    \/ ensureDefaultCards \/ FindCards \/ FindItems \/ CreateItems \/ SeedingFails \/ Restart
    \/ \E c \in Cards, code \in Codes : createCard(c, code) \/ updateCard(c, code)
    \/ \E c \in Cards, i \in Items, title \in Titles, isChecked \in BOOLEAN :
         createChecklistItem(c, i, title, isChecked)
    \/ \E i \in Items, title \in Titles, isChecked \in BOOLEAN :
         updateChecklistItem(i, title, isChecked)
    \/ \E i \in Items : deleteChecklistItem(i)
    \/ \E c \in Cards, d \in Documents, status \in {"ACTIVE", "NEEDS_REVIEW"} :
         createDocument(c, d, status)
    \/ \E d \in Documents, status \in {"ACTIVE", "NEEDS_REVIEW"} : updateDocument(d, status)
    \/ \E d \in Documents : deleteDocument(d)

Spec == Init /\ [][Next]_vars

-----------------------------------------------------------------------------
(* Properties.                                                             *)

\* A default item that is deleted after the process has answered its first list does not
\* come back while the process lives, whoever lists the cards and whatever codes they get;
\* nothing in the database remembers the deletion.
DeletedStaysDeleted == \A i \in deleted : items[i] = Absent
=============================================================================

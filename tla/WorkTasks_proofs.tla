--------------------------- MODULE WorkTasks_proofs ---------------------------
(***************************************************************************)
(* For any items, projects, users and requests: finished work stands on    *)
(* finished work, no circle of items waits for itself, and those who are   *)
(* told of an item are filtered by who may read it.                        *)
(*                                                                         *)
(* All relate several rows, each changed under a check of rows read        *)
(* before.  What makes that enough is the lock: one transaction at a time  *)
(* works on a project (OneRequestPerKey), no relation leaves a project     *)
(* (WithinProject), and so what a transaction has read of its items is     *)
(* still so when it commits (SeenIsPresent).                               *)
(***************************************************************************)
EXTENDS WorkTasks, TLAPS

\* Ticking an item moves one from "open" to "done".
ChecksFit(w) == \A t \in Items(w) : w.tasks[t].checks.open + w.tasks[t].checks.done <= MaxChecks

Active == {r \in Requests : calls[r] # Idle}

OneRequestPerKey == \A r, s \in Active : calls[r].key = calls[s].key => r = s

Keyed(key) == {t \in Items(work) : work.tasks[t].project = key}

\* All of the row but its watchers, who need no lock.
SeenIsPresent ==
    \A r \in Active :
        /\ Items(Seen(r)) = Keyed(calls[r].key)
        /\ \A t \in Items(Seen(r)) : work.tasks[t] = Watched(t, Seen(r).tasks[t])
        /\ Seen(r).blockers = {e \in work.blockers : e[1] \in Keyed(calls[r].key)}

WithinProject ==
    \A e \in Edges(work) : /\ e[1] \in Items(work) /\ e[2] \in Items(work)
                           /\ work.tasks[e[1]].project = work.tasks[e[2]].project

WorkInv ==
    /\ TypeOK
    /\ ChecksFit(work) /\ \A r \in Active : ChecksFit(Seen(r))
    /\ OneRequestPerKey
    /\ SeenIsPresent
    /\ WithinProject

-----------------------------------------------------------------------------
(* The rows, and those a transaction has read.                             *)

LEMMA RowIsPresent ==
    ASSUME NEW row \in Task
    PROVE  row # Absent
<1>1. "parent" \in DOMAIN row
  BY DEF Task
<1>2. "parent" \notin DOMAIN Absent
  BY DEF Absent
<1> QED
  BY <1>1, <1>2

LEMMA ItemIsTask ==
    ASSUME NEW w \in Work, NEW t \in Items(w)
    PROVE  t \in Tasks /\ w.tasks[t] \in Task
  BY DEF Work, Items

\* The transaction of a request that acts has read an actor, a key and rows.
LEMMA CallIsTyped ==
    ASSUME TypeOK, NEW r \in Requests, Acts(r)
    PROVE  /\ Actor(r) \in Users /\ Seen(r) \in Work /\ calls[r].key \in Projects \cup {None}
           /\ r \in Active
  BY DEF TypeOK, Acts, Actor, Seen, Call, Active

\* What has been read of an item is so, its watchers apart.
LEMMA ReadIsSo ==
    ASSUME WorkInv, NEW r \in Requests, Acts(r), NEW t \in Items(Seen(r))
    PROVE  LET row == Row(Seen(r), t)
               now == Row(work, t)
           IN  /\ t \in Tasks /\ t \in Items(work) /\ row \in Task /\ now \in Task
               /\ now.project = calls[r].key
               /\ now.project = row.project /\ now.parent = row.parent
               /\ now.status = row.status /\ now.checks = row.checks
               /\ now.assignee = row.assignee /\ now.creator = row.creator
               /\ now.archived = row.archived /\ now.files = row.files
               /\ row.checks.open + row.checks.done <= MaxChecks
<1>1. Seen(r) \in Work /\ r \in Active
  BY CallIsTyped DEF WorkInv
<1>2. Row(Seen(r), t) \in Task /\ t \in Tasks
  BY <1>1, ItemIsTask DEF Row
<1>3. t \in Keyed(calls[r].key) /\ work.tasks[t] = Watched(t, Seen(r).tasks[t])
  BY <1>1 DEF WorkInv, SeenIsPresent
<1>4. Row(work, t) \in Task
  BY <1>3, ItemIsTask DEF Row, Keyed, WorkInv, TypeOK
<1>5. Seen(r).tasks[t].checks.open + Seen(r).tasks[t].checks.done <= MaxChecks
  BY <1>1 DEF WorkInv, ChecksFit
<1> QED
  BY <1>2, <1>3, <1>4, <1>5 DEF Row, Keyed, Watched, Task

\* All the relations of an item it has read.
LEMMA ReadRelations ==
    ASSUME WorkAssumption, WorkInv, NEW r \in Requests, Acts(r), NEW t \in Items(Seen(r))
    PROVE  /\ Blockers(Seen(r), t) = Blockers(work, t)
           /\ Children(Seen(r), t) = Children(work, t)
           /\ Dependents(Seen(r), t) = Dependents(work, t)
           /\ Row(work, t).parent # None => Row(work, t).parent \in Items(Seen(r))
           /\ Blockers(work, t) \cup Children(work, t) \cup Dependents(work, t)
                \subseteq Items(Seen(r))
<1> DEFINE key == calls[r].key
<1>1. Seen(r) \in Work /\ r \in Active /\ work \in Work
  BY CallIsTyped DEF WorkInv, TypeOK
<1>2. /\ Items(Seen(r)) = Keyed(key)
      /\ Seen(r).blockers = {e \in work.blockers : e[1] \in Keyed(key)}
  BY <1>1 DEF WorkInv, SeenIsPresent
<1>3. \A e \in Edges(work) : e[1] \in Keyed(key) <=> e[2] \in Keyed(key)
  BY DEF WorkInv, WithinProject, Keyed
<1>4. t \in Items(work) /\ t \in Keyed(key)
  BY <1>2 DEF Keyed
<1>5. work.blockers \subseteq Edges(work)
  BY DEF Edges
<1>6. \A c \in Items(work) : Row(work, c).parent # None => <<Row(work, c).parent, c>> \in Edges(work)
  BY DEF Edges
<1>7. \A c \in Items(work) : Row(work, c).parent # None =>
         (Row(work, c).parent \in Keyed(key) <=> c \in Keyed(key))
  BY <1>3, <1>6
<1>8. \A c \in Items(Seen(r)) : Row(Seen(r), c).parent = Row(work, c).parent
  BY ReadIsSo
<1>9. t # None
  BY <1>1, <1>4, ItemIsTask DEF WorkAssumption
<1>10. Blockers(Seen(r), t) = Blockers(work, t)
  BY <1>2, <1>4 DEF Blockers
<1>11. Children(Seen(r), t) = Children(work, t)
  BY <1>2, <1>4, <1>7, <1>8, <1>9 DEF Children, Keyed
<1>12. Dependents(Seen(r), t) = Dependents(work, t)
  BY <1>2, <1>3, <1>4, <1>5 DEF Dependents
<1>13. Blockers(work, t) \cup Children(work, t) \cup Dependents(work, t) \subseteq Items(Seen(r))
  BY <1>2, <1>3, <1>4, <1>5, <1>7, <1>9 DEF Blockers, Children, Dependents
<1> QED
  BY <1>2, <1>4, <1>7, <1>10, <1>11, <1>12, <1>13

-----------------------------------------------------------------------------
(* Circles.                                                                *)

Acyclic(edges) == \A e \in edges : ~Reaches(edges, e[2], e[1])

LEMMA FewerEdges ==
    ASSUME NEW edges, NEW fewer \in SUBSET edges, Acyclic(edges)
    PROVE  Acyclic(fewer)
  BY DEF Acyclic, Reaches

\* An edge whose start cannot be reached from its end closes no circle.
LEMMA OneMoreEdge ==
    ASSUME NEW edges, Acyclic(edges), NEW t, NEW b, ~Reaches(edges, b, t)
    PROVE  Acyclic(edges \cup {<<t, b>>})
<1> DEFINE more == edges \cup {<<t, b>>}
<1>1. PICK S \in SUBSET Tasks : /\ b \in S /\ t \notin S
                                /\ \A e \in edges : e[1] \in S => e[2] \in S
  BY DEF Reaches
<1> SUFFICES ASSUME NEW e \in more
             PROVE  \E W \in SUBSET Tasks : /\ e[2] \in W /\ e[1] \notin W
                                            /\ \A f \in more : f[1] \in W => f[2] \in W
  BY DEF Acyclic, Reaches
<1>2. CASE e = <<t, b>>
  BY <1>1, <1>2
<1>3. CASE e \in edges
  <2>1. PICK W \in SUBSET Tasks : /\ e[2] \in W /\ e[1] \notin W
                                  /\ \A f \in edges : f[1] \in W => f[2] \in W
    BY <1>3 DEF Acyclic, Reaches
  <2>2. CASE e[1] \in S
    <3>1. e[2] \in S \cap W /\ e[1] \notin S \cap W /\ t \notin S \cap W
      BY <1>1, <1>3, <2>1, <2>2
    <3>2. \A f \in more : f[1] \in S \cap W => f[2] \in S \cap W
      BY <1>1, <2>1
    <3> QED
      BY <3>1, <3>2
  <2>3. CASE e[1] \notin S
    <3>1. e[2] \in S \cup W /\ e[1] \notin S \cup W /\ b \in S \cup W
      BY <1>1, <2>1, <2>3
    <3>2. \A f \in more : f[1] \in S \cup W => f[2] \in S \cup W
      BY <1>1, <2>1
    <3> QED
      BY <3>1, <3>2
  <2> QED
    BY <2>2, <2>3
<1> QED
  BY <1>2, <1>3

\* What cannot be reached in what has been read cannot be reached: no relation leaves
\* the project.
LEMMA ReadCircle ==
    ASSUME WorkAssumption, WorkInv, NEW r \in Requests, Acts(r),
           NEW t \in Items(Seen(r)), NEW b \in Items(Seen(r)),
           ~Reaches(Edges(Seen(r)), b, t)
    PROVE  ~Reaches(Edges(work), b, t)
<1> DEFINE mine == Items(Seen(r))
<1>1. PICK S \in SUBSET Tasks : /\ b \in S /\ t \notin S
                                /\ \A e \in Edges(Seen(r)) : e[1] \in S => e[2] \in S
  BY DEF Reaches
<1>2. \A e \in Edges(work) : e[1] \in mine => e \in Edges(Seen(r)) /\ e[2] \in mine
  <2> SUFFICES ASSUME NEW e \in Edges(work), e[1] \in mine
               PROVE  e \in Edges(Seen(r)) /\ e[2] \in mine
    OBVIOUS
  <2>1. CASE e \in work.blockers
    <3>1. e[2] \in Blockers(work, e[1])
      BY <2>1 DEF Blockers
    <3>2. e \in Seen(r).blockers
      BY <2>1, CallIsTyped DEF WorkInv, SeenIsPresent
    <3> QED
      BY <3>1, <3>2, ReadRelations DEF Edges
  <2>2. ASSUME NEW c \in Items(work), Row(work, c).parent # None, e = <<Row(work, c).parent, c>>
        PROVE  e \in Edges(Seen(r)) /\ e[2] \in mine
    <3>1. c \in Children(work, e[1]) /\ e[1] = Row(work, c).parent /\ e[2] = c
      BY <2>2 DEF Children
    <3>2. c \in mine
      BY <3>1, ReadRelations
    <3>3. Row(Seen(r), c).parent = Row(work, c).parent
      BY <3>2, ReadIsSo
    <3> QED
      BY <2>2, <3>1, <3>2, <3>3 DEF Edges
  <2> QED
    BY <2>1, <2>2 DEF Edges
<1>3. b \in S \cap mine /\ t \notin S \cap mine
  BY <1>1
<1>4. \A e \in Edges(work) : e[1] \in S \cap mine => e[2] \in S \cap mine
  BY <1>1, <1>2
<1> QED
  BY <1>3, <1>4 DEF Reaches

-----------------------------------------------------------------------------
(* The commit of a transaction that stays in its project.                  *)

Rows == [Tasks -> Task \cup {Absent}]

FitsAll(tasks) ==
    \A t \in Tasks : tasks[t] # Absent => tasks[t].checks.open + tasks[t].checks.done <= MaxChecks

\* No row goes or moves, and what is new or changed is of the project.
StaysInProject(r, tasks, blockers) ==
    /\ \A t \in Items(work) : /\ tasks[t] # Absent
                              /\ tasks[t].project = work.tasks[t].project
                              /\ t \notin Keyed(calls[r].key) => tasks[t] = work.tasks[t]
    /\ \A t \in Tasks \ Items(work) : tasks[t] # Absent => tasks[t].project = calls[r].key
    /\ \A e \in work.blockers \cup blockers :
         e[1] \notin Keyed(calls[r].key) => e \in work.blockers \cap blockers

LEMMA CommitKeeps ==
    ASSUME WorkAssumption, WorkInv, NEW r \in Requests, Acts(r), NEW tasks \in Rows,
           NEW blockers \in SUBSET (Tasks \X Tasks),
           NEW projects \in [Projects -> Project \cup {NoProject}],
           NEW users \in SUBSET (Users \X Tasks),
           Commit(r, tasks, blockers, projects, users),
           FitsAll(tasks), StaysInProject(r, tasks, blockers), WithinProject'
    PROVE  WorkInv'
<1>1. /\ work' = [tasks |-> tasks, blockers |-> blockers, projects |-> projects]
      /\ told' = users
      /\ calls' = [calls EXCEPT ![r] = Idle]
  BY DEF Commit
<1>2. TypeOK'
  <2>1. work' \in Work
    BY <1>1 DEF Work, Rows
  <2>2. calls' \in [Requests -> Call \cup {Idle}]
    BY <1>1 DEF WorkInv, TypeOK
  <2> QED
    BY <1>1, <2>1, <2>2 DEF TypeOK
<1>3. ChecksFit(work)'
  BY <1>1 DEF ChecksFit, FitsAll, Items
<1>4. /\ Active' = Active \ {r}
      /\ \A s \in Active' : s \in Active /\ s # r /\ calls'[s] = calls[s] /\ Seen(s)' = Seen(s)
  BY <1>1 DEF Active, Seen, WorkInv, TypeOK
<1>5. \A s \in Active' : ChecksFit(Seen(s))'
  BY <1>4 DEF WorkInv, ChecksFit, Items
<1>6. OneRequestPerKey'
  BY <1>4 DEF WorkInv, OneRequestPerKey
<1>7. SeenIsPresent'
  <2> SUFFICES ASSUME NEW s \in Active'
               PROVE  /\ Items(Seen(s)) = Keyed(calls[s].key)'
                      /\ \A t \in Items(Seen(s)) : work'.tasks[t] = Watched(t, Seen(s).tasks[t])'
                      /\ Seen(s).blockers = {e \in work'.blockers : e[1] \in Keyed(calls[s].key)'}
    BY <1>4 DEF SeenIsPresent, Items
  <2>1. r \in Active /\ calls[s].key # calls[r].key
    BY <1>4, CallIsTyped DEF WorkInv, OneRequestPerKey
  <2>2. \A t \in Tasks : work.tasks[t].project = calls[s].key /\ t \in Items(work) =>
           work'.tasks[t] = work.tasks[t]
    BY <1>1, <2>1 DEF StaysInProject, Keyed, Items
  <2>3. Keyed(calls[s].key)' = Keyed(calls[s].key)
    <3>1. \A t \in Tasks : t \in Keyed(calls[s].key) => t \in Keyed(calls[s].key)'
      BY <1>4, <2>2 DEF Keyed, Items
    <3>2. \A t \in Tasks : t \in Keyed(calls[s].key)' => t \in Keyed(calls[s].key)
      BY <1>1, <1>4, <2>1 DEF Keyed, Items, StaysInProject
    <3> QED
      BY <3>1, <3>2 DEF Keyed, Items
  <2>4. /\ Items(Seen(s)) = Keyed(calls[s].key)
        /\ \A t \in Items(Seen(s)) : work.tasks[t] = Watched(t, Seen(s).tasks[t])
        /\ Seen(s).blockers = {e \in work.blockers : e[1] \in Keyed(calls[s].key)}
    BY <1>4 DEF WorkInv, SeenIsPresent
  <2>5. \A t \in Items(Seen(s)) : work'.tasks[t] = work.tasks[t]
    BY <2>2, <2>4 DEF Keyed, Items
  <2>6. \A e : e[1] \in Keyed(calls[s].key) => (e \in work'.blockers <=> e \in work.blockers)
    BY <1>1, <2>1 DEF StaysInProject, Keyed
  <2>7. \A t \in Items(Seen(s)) : Watched(t, Seen(s).tasks[t])' = Watched(t, Seen(s).tasks[t])
    BY <1>4, <2>5 DEF Watched
  <2>8. \A t \in Items(Seen(s)) : work'.tasks[t] = Watched(t, Seen(s).tasks[t])'
    BY <2>4, <2>5, <2>7
  <2>9. Seen(s).blockers = {e \in work'.blockers : e[1] \in Keyed(calls[s].key)'}
    BY <2>3, <2>4, <2>6
  <2> QED
    BY <2>3, <2>4, <2>8, <2>9
<1> QED
  BY <1>2, <1>3, <1>5, <1>6, <1>7 DEF WorkInv

-----------------------------------------------------------------------------
(* What a transaction may make of its items.                               *)

GoodWork == WorkInv /\ NoCircularWork /\ CompletedIsFinished

LEMMA CirclesAreEdges == NoCircularWork <=> Acyclic(Edges(work))
  BY DEF NoCircularWork, Acyclic

WaitsFor(t) == Blockers(work, t) \cup Children(work, t)

\* The rows of "ids" become "rows", at the same place of the same project, so that
\* finished work stays finished: what is done among them waits for nothing open, and what
\* is reopened holds back nothing that stays done.
Edits(ids, rows) ==
    \A t \in ids :
        LET row == rows[t]
            now == Row(work, t)
        IN  /\ row \in Task /\ row.project = now.project /\ row.parent = now.parent
            /\ row.checks.open + row.checks.done <= MaxChecks
            /\ row.status = "DONE" =>
                 /\ row.checks.open = 0
                 /\ \A b \in WaitsFor(t) \ ids : ~Open(work, b)
                 /\ \A b \in WaitsFor(t) \cap ids : rows[b].status # "OPEN"
            /\ row.status = "OPEN" /\ ~Open(work, t) =>
                 \A d \in Items(work) \ ids : t \in WaitsFor(d) => Row(work, d).status # "DONE"

Edited(ids, rows) == [t \in Tasks |-> IF t \in ids THEN rows[t] ELSE work.tasks[t]]

\* Work of which no row goes and no relation is added is as good as before.
LEMMA RelationsKeep ==
    ASSUME WorkAssumption, GoodWork, Items(work)' = Items(work), work'.blockers \subseteq work.blockers,
           \A t \in Items(work) : /\ work'.tasks[t].parent = work.tasks[t].parent
                                  /\ work'.tasks[t].project = work.tasks[t].project
    PROVE  /\ Edges(work)' \subseteq Edges(work)
           /\ WithinProject' /\ NoCircularWork'
           /\ \A t \in Items(work) : /\ Blockers(work, t)' \subseteq Blockers(work, t)
                                     /\ Children(work, t)' = Children(work, t)
<1>1. Edges(work)' \subseteq Edges(work)
  BY DEF Edges, Row
<1>2. WithinProject'
  BY <1>1 DEF GoodWork, WorkInv, WithinProject
<1>3. NoCircularWork'
  BY <1>1, FewerEdges DEF GoodWork, NoCircularWork, Acyclic
<1>4. \A t \in Items(work) : /\ Blockers(work, t)' \subseteq Blockers(work, t)
                             /\ Children(work, t)' = Children(work, t)
  BY DEF Blockers, Children, Row
<1> QED
  BY <1>1, <1>2, <1>3, <1>4

LEMMA OpenOrClosed ==
    ASSUME NEW row \in Task
    PROVE  row.status \notin closedStatuses <=> row.status = "OPEN"
  BY DEF Task, Statuses, closedStatuses

LEMMA WaitsForItems ==
    ASSUME GoodWork, NEW t \in Items(work)
    PROVE  WaitsFor(t) \subseteq Items(work)
<1>1. Blockers(work, t) \subseteq Items(work)
  BY DEF GoodWork, WorkInv, WithinProject, Edges, Blockers
<1> QED
  BY <1>1 DEF WaitsFor, Children

LEMMA FinishedStaysFinished ==
    ASSUME WorkAssumption, GoodWork, NEW ids \in SUBSET Items(work), NEW rows, Edits(ids, rows),
           work'.tasks = Edited(ids, rows), work'.blockers \subseteq work.blockers,
           Items(work)' = Items(work)
    PROVE  CompletedIsFinished'
<1>1. work \in Work /\ Items(work) \subseteq Tasks
  BY DEF GoodWork, WorkInv, TypeOK, Items
<1>2. \A t \in Items(work) : /\ work'.tasks[t] = IF t \in ids THEN rows[t] ELSE work.tasks[t]
                             /\ work.tasks[t] \in Task
  BY <1>1, ItemIsTask DEF Edited
<1>3. \A t \in Items(work) : /\ work'.tasks[t].parent = work.tasks[t].parent
                             /\ work'.tasks[t].project = work.tasks[t].project
                             /\ work'.tasks[t] \in Task
  BY <1>2 DEF Edits, Row
<1>4. \A t \in Items(work) : (Blockers(work, t) \cup Children(work, t))' \subseteq WaitsFor(t)
  BY <1>3, RelationsKeep DEF WaitsFor
<1> SUFFICES ASSUME NEW t \in Items(work), work'.tasks[t].status = "DONE"
             PROVE  /\ work'.tasks[t].checks.open = 0
                    /\ \A b \in WaitsFor(t) : work'.tasks[b].status # "OPEN"
  <2>1. \A b \in Items(work) : Open(work, b)' <=> work'.tasks[b].status = "OPEN"
    BY <1>3, OpenOrClosed DEF Open, Row
  <2> QED
    BY <1>4, <2>1, WaitsForItems DEF CompletedIsFinished, canComplete, Row
<1>5. \A b \in Items(work) : Open(work, b) <=> work.tasks[b].status = "OPEN"
  BY <1>2, OpenOrClosed DEF Open, Row
<1>6. WaitsFor(t) \subseteq Items(work)
  BY WaitsForItems
<1>7. CASE t \in ids
  BY <1>2, <1>5, <1>6, <1>7 DEF Edits
<1>8. CASE t \notin ids
  <2>1. canComplete(work, t) /\ Row(work, t).status = "DONE"
    BY <1>2, <1>8 DEF GoodWork, CompletedIsFinished, Row
  <2>2. \A b \in WaitsFor(t) : ~Open(work, b)
    BY <2>1 DEF canComplete, WaitsFor
  <2>3. \A b \in WaitsFor(t) \cap ids : work'.tasks[b].status # "OPEN"
    BY <1>2, <1>6, <1>8, <2>1, <2>2 DEF Edits
  <2> QED
    BY <1>2, <1>5, <1>6, <1>8, <2>1, <2>2, <2>3 DEF canComplete, Row
<1> QED
  BY <1>7, <1>8


LEMMA EditsKeep ==
    ASSUME WorkAssumption, GoodWork, NEW r \in Requests, Acts(r),
           NEW ids \in SUBSET Items(Seen(r)), NEW rows, Edits(ids, rows),
           NEW blockers \in SUBSET work.blockers,
           \A e \in work.blockers \ blockers : e[1] \in Keyed(calls[r].key),
           NEW projects \in [Projects -> Project \cup {NoProject}],
           NEW users \in SUBSET (Users \X Tasks),
           Commit(r, Edited(ids, rows), blockers, projects, users)
    PROVE  GoodWork'
<1> DEFINE tasks == Edited(ids, rows)
<1>1. work' = [tasks |-> tasks, blockers |-> blockers, projects |-> projects]
  BY DEF Commit
<1>2. work \in Work /\ r \in Active
  BY CallIsTyped DEF GoodWork, WorkInv, TypeOK
<1>3. ids \subseteq Keyed(calls[r].key) /\ ids \subseteq Items(work)
  BY <1>2 DEF GoodWork, WorkInv, SeenIsPresent, Keyed
<1>4. /\ \A t \in ids : tasks[t] = rows[t] /\ rows[t] \in Task
      /\ \A t \in Tasks \ ids : tasks[t] = work.tasks[t]
  BY <1>2, <1>3 DEF Edited, Edits, Items
<1>5. tasks \in Rows
  BY <1>2 DEF Rows, Edited, Edits, Work
<1>6. Items(work)' = Items(work)
  BY <1>1, <1>3, <1>4, RowIsPresent DEF Items
<1>7. \A t \in Items(work) : /\ tasks[t].parent = work.tasks[t].parent
                             /\ tasks[t].project = work.tasks[t].project
  BY <1>4 DEF Edits, Row, Items
<1>8. WithinProject' /\ NoCircularWork'
  BY <1>1, <1>6, <1>7, RelationsKeep
<1>9. CompletedIsFinished'
  BY <1>1, <1>3, <1>6, FinishedStaysFinished
<1>10. FitsAll(tasks)
  BY <1>4 DEF FitsAll, Edits, GoodWork, WorkInv, ChecksFit, Items
<1>11. StaysInProject(r, tasks, blockers)
  BY <1>1, <1>3, <1>4, <1>6, <1>7 DEF StaysInProject, Items
<1>12. blockers \in SUBSET (Tasks \X Tasks)
  BY <1>2 DEF Work
<1> QED
  BY <1>5, <1>8, <1>9, <1>10, <1>11, <1>12, CommitKeeps DEF GoodWork

\* ... a change of the project's own row, or a refusal, among them.
LEMMA NoEditKeeps ==
    ASSUME WorkAssumption, GoodWork, NEW r \in Requests, Acts(r),
           NEW blockers \in SUBSET work.blockers,
           \A e \in work.blockers \ blockers : e[1] \in Keyed(calls[r].key),
           NEW projects \in [Projects -> Project \cup {NoProject}],
           Commit(r, work.tasks, blockers, projects, {})
    PROVE  GoodWork'
<1>1. work.tasks = Edited({}, work.tasks)
  BY DEF GoodWork, WorkInv, TypeOK, Work, Edited
<1>2. Edits({}, work.tasks)
  BY DEF Edits
<1> QED
  BY <1>1, <1>2, EditsKeep

\* What becomes of the row of one item that has been read.
MayBecome(r, t, row) ==
    LET now == Row(Seen(r), t)
    IN  /\ row \in Task /\ row.project = now.project /\ row.parent = now.parent
        /\ row.checks.open + row.checks.done <= MaxChecks
        /\ row.status = "DONE" =>
             /\ row.checks.open = 0
             /\ now.status = "DONE" \/ canComplete(Seen(r), t)
        /\ row.status = "OPEN" => Open(Seen(r), t) \/ mayReopen(Seen(r), t)

LEMMA WatchedIsTask ==
    ASSUME TypeOK, NEW t \in Items(work), NEW row \in Task
    PROVE  /\ Watched(t, row) \in Task
           /\ Watched(t, row).project = row.project /\ Watched(t, row).parent = row.parent
           /\ Watched(t, row).status = row.status /\ Watched(t, row).checks = row.checks
<1>1. work.tasks[t].watchers \in SUBSET Followers
  BY ItemIsTask DEF TypeOK, Task
<1> QED
  BY <1>1 DEF Watched, Task

\* A transaction knows which of its items are open, and what they wait for.
LEMMA ReadStatuses ==
    ASSUME WorkAssumption, WorkInv, NEW r \in Requests, Acts(r), NEW t \in Items(Seen(r))
    PROVE  /\ Open(Seen(r), t) <=> Open(work, t)
           /\ Open(work, t) <=> Row(work, t).status = "OPEN"
           /\ canComplete(Seen(r), t) <=> canComplete(work, t)
           /\ mayReopen(Seen(r), t) <=> mayReopen(work, t)
<1>1. \A b \in Items(Seen(r)) : /\ Row(Seen(r), b).status = Row(work, b).status
                                /\ Open(Seen(r), b) <=> Open(work, b)
  BY ReadIsSo DEF Open
<1>2. Open(work, t) <=> Row(work, t).status = "OPEN"
  BY ReadIsSo, OpenOrClosed DEF Open
<1>3. canComplete(Seen(r), t) <=> canComplete(work, t)
  BY <1>1, ReadIsSo, ReadRelations DEF canComplete
<1>4. mayReopen(Seen(r), t) <=> mayReopen(work, t)
  BY <1>1, ReadIsSo, ReadRelations DEF mayReopen
<1> QED
  BY <1>1, <1>2, <1>3, <1>4

\* Those an item that may be reopened holds back are not done.
LEMMA ReopensNothingDone ==
    ASSUME WorkAssumption, WorkInv, NEW t \in Items(work), mayReopen(work, t),
           NEW d \in Items(work), t \in WaitsFor(d)
    PROVE  Row(work, d).status # "DONE"
<1>1. d # None
  BY ItemIsTask DEF WorkInv, TypeOK, WorkAssumption
<1>2. CASE t \in Blockers(work, d)
  BY <1>2 DEF Blockers, Dependents, mayReopen
<1>3. CASE t \in Children(work, d)
  BY <1>1, <1>3 DEF Children, mayReopen
<1> QED
  BY <1>2, <1>3 DEF WaitsFor

LEMMA RowKeeps ==
    ASSUME WorkAssumption, GoodWork, NEW r \in Requests, Acts(r), NEW t \in Items(Seen(r)),
           NEW row, MayBecome(r, t, row), NEW users \in SUBSET (Users \X Tasks),
           Commit(r, [work.tasks EXCEPT ![t] = Watched(t, row)], work.blockers, work.projects, users)
    PROVE  GoodWork'
<1> DEFINE rows == [u \in {t} |-> Watched(t, row)]
           now  == Row(work, t)
<1>1. /\ t \in Items(work) /\ now.project = Row(Seen(r), t).project
      /\ now.parent = Row(Seen(r), t).parent /\ now.status = Row(Seen(r), t).status
  BY ReadIsSo DEF GoodWork
<1>2. row \in Task /\ work \in Work
  BY DEF MayBecome, GoodWork, WorkInv, TypeOK
<1>3. /\ Watched(t, row) \in Task
      /\ Watched(t, row).project = row.project /\ Watched(t, row).parent = row.parent
      /\ Watched(t, row).status = row.status /\ Watched(t, row).checks = row.checks
  BY <1>1, <1>2, WatchedIsTask DEF GoodWork, WorkInv
<1>4. row.status = "DONE" => /\ row.checks.open = 0
                             /\ \A b \in WaitsFor(t) : ~Open(work, b)
  BY <1>1, ReadStatuses DEF MayBecome, GoodWork, CompletedIsFinished, canComplete, WaitsFor
<1>5. row.status = "OPEN" /\ ~Open(work, t) =>
        \A d \in Items(work) : t \in WaitsFor(d) => Row(work, d).status # "DONE"
  BY <1>1, ReadStatuses, ReopensNothingDone DEF MayBecome, GoodWork
<1>6. Edits({t}, rows)
  BY <1>1, <1>3, <1>4, <1>5 DEF Edits, MayBecome
<1>7. [work.tasks EXCEPT ![t] = Watched(t, row)] = Edited({t}, rows)
  BY <1>2 DEF Edited, Work
<1>8. work.projects \in [Projects -> Project \cup {NoProject}]
  BY <1>2 DEF Work
<1> QED
  BY <1>6, <1>7, <1>8, EditsKeep

\* The items of what is told, and who is told it.
LEMMA LoggedIsTyped ==
    ASSUME NEW r, NEW t \in Tasks, NEW row
    PROVE  Logged(r, t, row) \in SUBSET (Users \X Tasks)
  BY DEF Logged, Candidates

LEMMA MutateKeeps ==
    ASSUME WorkAssumption, GoodWork, NEW r \in Requests, Acts(r), NEW t \in Readable(r),
           NEW row, MayBecome(r, t, row), Mutate(r, t, row) \/ MutateQuietly(r, t, row)
    PROVE  GoodWork'
<1>1. t \in Items(Seen(r)) /\ t \in Tasks
  BY DEF Readable, Items
<1> QED
  BY <1>1, RowKeeps, LoggedIsTyped DEF Mutate, MutateQuietly, Writes

\* A row that keeps its status, and its place.
LEMMA KeepsStatus ==
    ASSUME WorkInv, NEW r \in Requests, Acts(r), NEW t \in Items(Seen(r)), NEW row \in Task,
           row.project = Row(Seen(r), t).project, row.parent = Row(Seen(r), t).parent,
           row.status = Row(Seen(r), t).status,
           row.checks.open + row.checks.done <= MaxChecks,
           row.status = "DONE" => row.checks.open = 0
    PROVE  MayBecome(r, t, row)
  BY OpenOrClosed, ReadIsSo DEF MayBecome, Open

-----------------------------------------------------------------------------
(* The requests about one item.                                            *)

LEMMA DoneIsChecked ==
    ASSUME GoodWork, NEW r \in Requests, Acts(r), NEW t \in Items(Seen(r)),
           Row(Seen(r), t).status = "DONE"
    PROVE  Row(Seen(r), t).checks.open = 0
  BY ReadIsSo DEF GoodWork, CompletedIsFinished, canComplete

LEMMA UpdateKeeps ==
    ASSUME WorkAssumption, GoodWork, NEW r \in Requests, update(r)
    PROVE  GoodWork'
<1>1. PICK t \in Readable(r), status \in Statuses, u \in Users \cup {None} :
        /\ status = "DONE" => canComplete(Seen(r), t)
        /\ status = "OPEN" /\ ~Open(Seen(r), t) => mayReopen(Seen(r), t)
        /\ Mutate(r, t, [Row(Seen(r), t) EXCEPT !.status = status, !.assignee = u])
  BY DEF update
<1> DEFINE row == [Row(Seen(r), t) EXCEPT !.status = status, !.assignee = u]
<1>2. Acts(r) /\ t \in Items(Seen(r))
  BY DEF update, Readable
<1>3. Row(Seen(r), t) \in Task
  BY <1>2, ReadIsSo DEF GoodWork
<1>4. /\ row \in Task /\ row.project = Row(Seen(r), t).project
      /\ row.parent = Row(Seen(r), t).parent /\ row.checks = Row(Seen(r), t).checks
      /\ row.status = status
  BY <1>3 DEF Task
<1>5. MayBecome(r, t, row)
  BY <1>1, <1>2, <1>4, ReadIsSo DEF MayBecome, canComplete, GoodWork
<1> QED
  BY <1>1, <1>2, <1>5, MutateKeeps

LEMMA ArchiveKeeps ==
    ASSUME WorkAssumption, GoodWork, NEW r \in Requests, archive(r)
    PROVE  GoodWork'
<1>1. PICK t \in Readable(r), archived \in BOOLEAN :
        Writes(r, t, Watched(t, [Row(Seen(r), t) EXCEPT !.archived = archived]))
  BY DEF archive
<1> DEFINE row == [Row(Seen(r), t) EXCEPT !.archived = archived]
<1>2. Acts(r) /\ t \in Items(Seen(r)) /\ t \in Tasks
  BY DEF archive, Readable, Items
<1>3. Row(Seen(r), t) \in Task
  BY <1>2, ReadIsSo DEF GoodWork
<1>4. /\ row \in Task /\ row.project = Row(Seen(r), t).project
      /\ row.parent = Row(Seen(r), t).parent /\ row.checks = Row(Seen(r), t).checks
      /\ row.status = Row(Seen(r), t).status
  BY <1>3 DEF Task
<1>5. /\ row.checks.open + row.checks.done <= MaxChecks
      /\ row.status = "DONE" => row.checks.open = 0
  BY <1>2, <1>4, ReadIsSo, DoneIsChecked DEF GoodWork
<1> HIDE DEF row
<1>6. MayBecome(r, t, row)
  BY <1>2, <1>4, <1>5, KeepsStatus DEF GoodWork
<1> USE DEF row
<1> QED
  BY <1>1, <1>2, <1>6, RowKeeps, LoggedIsTyped DEF Writes

LEMMA CommentKeeps ==
    ASSUME WorkAssumption, GoodWork, NEW r \in Requests, comment(r) \/ time(r)
    PROVE  GoodWork'
<1>1. PICK t \in Readable(r) : \/ Mutate(r, t, Row(Seen(r), t))
                               \/ MutateQuietly(r, t, Row(Seen(r), t))
  BY DEF comment, time
<1>2. Acts(r) /\ t \in Items(Seen(r))
  BY DEF comment, time, Readable
<1>3. MayBecome(r, t, Row(Seen(r), t))
  BY <1>2, ReadIsSo, KeepsStatus, DoneIsChecked DEF GoodWork
<1> QED
  BY <1>1, <1>2, <1>3, MutateKeeps

\* Files, and the items of a checklist.
LEMMA PartsOfRow ==
    ASSUME WorkAssumption, GoodWork, NEW r \in Requests, Acts(r), NEW t \in Items(Seen(r)),
           NEW files \in 0..MaxFiles, NEW open \in 0..MaxChecks, NEW done \in 0..MaxChecks,
           open + done <= MaxChecks, Row(Seen(r), t).status = "DONE" => open = 0
    PROVE  MayBecome(r, t, [Row(Seen(r), t) EXCEPT !.files = files,
                                                   !.checks = [open |-> open, done |-> done]])
<1> DEFINE row == [Row(Seen(r), t) EXCEPT !.files = files,
                                          !.checks = [open |-> open, done |-> done]]
<1>1. Row(Seen(r), t) \in Task
  BY ReadIsSo DEF GoodWork
<1>2. /\ row \in Task /\ row.project = Row(Seen(r), t).project
      /\ row.parent = Row(Seen(r), t).parent /\ row.checks = [open |-> open, done |-> done]
      /\ row.status = Row(Seen(r), t).status
  BY <1>1 DEF Task
<1>3. /\ row.checks.open + row.checks.done <= MaxChecks
      /\ row.status = "DONE" => row.checks.open = 0
  BY <1>2
<1> HIDE DEF row
<1>4. MayBecome(r, t, row)
  BY <1>2, <1>3, KeepsStatus DEF GoodWork
<1> QED
  BY <1>4 DEF row

LEMMA ReadParts ==
    ASSUME WorkAssumption, GoodWork, NEW r \in Requests, Acts(r), NEW t \in Items(Seen(r))
    PROVE  LET row == Row(Seen(r), t)
           IN  /\ row.files \in 0..MaxFiles /\ row.checks.open \in 0..MaxChecks
               /\ row.checks.done \in 0..MaxChecks
               /\ row.checks.open + row.checks.done <= MaxChecks
               /\ MaxChecks \in Nat /\ MaxFiles \in Nat
               /\ row.checks = [open |-> row.checks.open, done |-> row.checks.done]
               /\ row.status = "DONE" => row.checks.open = 0
               /\ row \in Task
  BY ReadIsSo, DoneIsChecked DEF GoodWork, Task, WorkAssumption

LEMMA ChecksKeep ==
    ASSUME WorkAssumption, GoodWork, NEW r \in Requests, Acts(r), NEW t \in Readable(r),
           NEW open \in 0..MaxChecks, NEW done \in 0..MaxChecks,
           open + done <= MaxChecks, Row(Seen(r), t).status = "DONE" => open = 0,
           MutateQuietly(r, t, [Row(Seen(r), t) EXCEPT !.checks = [open |-> open, done |-> done]])
    PROVE  GoodWork'
<1> DEFINE row == Row(Seen(r), t)
<1>1. t \in Items(Seen(r))
  BY DEF Readable
<1>2. row \in Task /\ row.files \in 0..MaxFiles
  BY <1>1, ReadParts
<1>3. MayBecome(r, t, [row EXCEPT !.files = row.files, !.checks = [open |-> open, done |-> done]])
  BY <1>1, <1>2, PartsOfRow
<1>4. [row EXCEPT !.files = row.files, !.checks = [open |-> open, done |-> done]]
        = [row EXCEPT !.checks = [open |-> open, done |-> done]]
  BY <1>2 DEF Task
<1> QED
  BY <1>3, <1>4, MutateKeeps

LEMMA FilesKeep ==
    ASSUME WorkAssumption, GoodWork, NEW r \in Requests, Acts(r), NEW t \in Readable(r),
           NEW files \in 0..MaxFiles,
           \/ Mutate(r, t, [Row(Seen(r), t) EXCEPT !.files = files])
           \/ MutateQuietly(r, t, [Row(Seen(r), t) EXCEPT !.files = files])
    PROVE  GoodWork'
<1> DEFINE row == Row(Seen(r), t)
<1>1. t \in Items(Seen(r))
  BY DEF Readable
<1>2. /\ row \in Task /\ row.checks = [open |-> row.checks.open, done |-> row.checks.done]
      /\ row.checks.open \in 0..MaxChecks /\ row.checks.done \in 0..MaxChecks
      /\ row.checks.open + row.checks.done <= MaxChecks
      /\ row.status = "DONE" => row.checks.open = 0
  BY <1>1, ReadParts
<1>3. MayBecome(r, t, [row EXCEPT !.files = files,
                                  !.checks = [open |-> row.checks.open, done |-> row.checks.done]])
  BY <1>1, <1>2, PartsOfRow
<1>4. [row EXCEPT !.files = files, !.checks = [open |-> row.checks.open, done |-> row.checks.done]]
        = [row EXCEPT !.files = files]
  BY <1>2 DEF Task
<1> QED
  BY <1>3, <1>4, MutateKeeps

LEMMA ChecklistKeeps ==
    ASSUME WorkAssumption, GoodWork, NEW r \in Requests, checklist(r)
    PROVE  GoodWork'
<1>1. PICK t \in Readable(r), done \in BOOLEAN, new \in BOOLEAN :
        LET row == Row(Seen(r), t)
            c   == row.checks
        IN  /\ row.status = "DONE" => done
            /\ IF new THEN c.open + c.done < MaxChecks
               ELSE IF done THEN c.open > 0 ELSE c.done > 0
            /\ MutateQuietly(r, t, [row EXCEPT !.checks =
                 [open |-> IF done THEN c.open - (IF new THEN 0 ELSE 1) ELSE c.open + 1,
                  done |-> IF done THEN c.done + 1 ELSE c.done - (IF new THEN 0 ELSE 1)]])
  BY DEF checklist
<1> DEFINE c == Row(Seen(r), t).checks
           o == IF done THEN c.open - (IF new THEN 0 ELSE 1) ELSE c.open + 1
           d == IF done THEN c.done + 1 ELSE c.done - (IF new THEN 0 ELSE 1)
<1>2. Acts(r) /\ t \in Items(Seen(r))
  BY DEF checklist, Readable
<1>3. /\ c.open \in 0..MaxChecks /\ c.done \in 0..MaxChecks /\ c.open + c.done <= MaxChecks
      /\ MaxChecks \in Nat
      /\ Row(Seen(r), t).status = "DONE" => c.open = 0
  BY <1>2, ReadParts
<1>4. /\ o \in 0..MaxChecks /\ d \in 0..MaxChecks /\ o + d <= MaxChecks
      /\ Row(Seen(r), t).status = "DONE" => o = 0
  BY <1>1, <1>3
<1> QED
  BY <1>1, <1>2, <1>4, ChecksKeep

LEMMA UploadKeeps ==
    ASSUME WorkAssumption, GoodWork, NEW r \in Requests, upload(r)
    PROVE  GoodWork'
<1>1. PICK t \in Readable(r) :
        /\ Row(Seen(r), t).files < MaxFiles
        /\ Mutate(r, t, [Row(Seen(r), t) EXCEPT !.files = Row(Seen(r), t).files + 1])
  BY DEF upload
<1>2. Acts(r) /\ t \in Items(Seen(r))
  BY DEF upload, Readable
<1>3. Row(Seen(r), t).files \in 0..MaxFiles /\ MaxFiles \in Nat
  BY <1>2, ReadParts
<1>4. Row(Seen(r), t).files + 1 \in 0..MaxFiles
  BY <1>1, <1>3
<1> QED
  BY <1>1, <1>2, <1>4, FilesKeep

LEMMA RemoveKeeps ==
    ASSUME WorkAssumption, GoodWork, NEW r \in Requests, removePart(r)
    PROVE  GoodWork'
<1>1. PICK t \in Readable(r) :
        LET row == Row(Seen(r), t)
        IN  \/ \E b \in Blockers(Seen(r), t) :
                 Commit(r, work.tasks, work.blockers \ {<<t, b>>}, work.projects, {})
            \/ row.checks.open > 0 /\ MutateQuietly(r, t, [row EXCEPT !.checks.open = row.checks.open - 1])
            \/ row.checks.done > 0 /\ MutateQuietly(r, t, [row EXCEPT !.checks.done = row.checks.done - 1])
            \/ row.files > 0 /\ MutateQuietly(r, t, [row EXCEPT !.files = row.files - 1])
  BY DEF removePart
<1> DEFINE row == Row(Seen(r), t)
           c   == row.checks
<1>2. Acts(r) /\ t \in Items(Seen(r))
  BY DEF removePart, Readable
<1>3. /\ row \in Task /\ row.files \in 0..MaxFiles
      /\ c = [open |-> c.open, done |-> c.done]
      /\ c.open \in 0..MaxChecks /\ c.done \in 0..MaxChecks /\ c.open + c.done <= MaxChecks
      /\ MaxChecks \in Nat /\ MaxFiles \in Nat
      /\ row.status = "DONE" => c.open = 0
  BY <1>2, ReadParts
<1>4. ASSUME NEW b, Commit(r, work.tasks, work.blockers \ {<<t, b>>}, work.projects, {})
      PROVE  GoodWork'
  <2>1. t \in Keyed(calls[r].key)
    BY <1>2, CallIsTyped DEF GoodWork, WorkInv, SeenIsPresent
  <2>2. \A e \in work.blockers \ (work.blockers \ {<<t, b>>}) : e[1] \in Keyed(calls[r].key)
    BY <2>1
  <2>3. work.projects \in [Projects -> Project \cup {NoProject}]
    BY DEF GoodWork, WorkInv, TypeOK, Work
  <2> QED
    BY <1>2, <1>4, <2>2, <2>3, NoEditKeeps
<1>5. CASE c.open > 0 /\ MutateQuietly(r, t, [row EXCEPT !.checks.open = c.open - 1])
  <2>1. [row EXCEPT !.checks.open = c.open - 1]
          = [row EXCEPT !.checks = [open |-> c.open - 1, done |-> c.done]]
    BY <1>3 DEF Task
  <2>2. /\ c.open - 1 \in 0..MaxChecks
        /\ (c.open - 1) + c.done <= MaxChecks
        /\ row.status = "DONE" => c.open - 1 = 0
    BY <1>3, <1>5
  <2> QED
    BY <1>2, <1>3, <1>5, <2>1, <2>2, ChecksKeep
<1>6. CASE c.done > 0 /\ MutateQuietly(r, t, [row EXCEPT !.checks.done = c.done - 1])
  <2>1. [row EXCEPT !.checks.done = c.done - 1]
          = [row EXCEPT !.checks = [open |-> c.open, done |-> c.done - 1]]
    BY <1>3 DEF Task
  <2>2. c.done - 1 \in 0..MaxChecks /\ c.open + (c.done - 1) <= MaxChecks
    BY <1>3, <1>6
  <2> QED
    BY <1>2, <1>3, <1>6, <2>1, <2>2, ChecksKeep
<1>7. CASE row.files > 0 /\ MutateQuietly(r, t, [row EXCEPT !.files = row.files - 1])
  <2>1. row.files - 1 \in 0..MaxFiles
    BY <1>3, <1>7
  <2> QED
    BY <1>2, <1>7, <2>1, FilesKeep
<1> QED
  BY <1>1, <1>4, <1>5, <1>6, <1>7

-----------------------------------------------------------------------------
(* Several items at once.                                                  *)

\* The row of a bulk change.
After(r, t, status, u) ==
    [Row(Seen(r), t) EXCEPT !.status = IF status = None THEN @ ELSE status,
                            !.assignee = IF u = "same" THEN @ ELSE u]

LEMMA AfterIsTask ==
    ASSUME GoodWork, NEW r \in Requests, Acts(r), NEW t \in Items(Seen(r)),
           NEW status \in Statuses \cup {None}, NEW u \in Users \cup {None, "same"}
    PROVE  LET row == After(r, t, status, u)
           IN  /\ row \in Task
               /\ row.project = Row(Seen(r), t).project /\ row.parent = Row(Seen(r), t).parent
               /\ row.checks = Row(Seen(r), t).checks
               /\ row.status = IF status = None THEN Row(Seen(r), t).status ELSE status
<1>1. Row(Seen(r), t) \in Task
  BY ReadIsSo DEF GoodWork
<1>2. (IF status = None THEN Row(Seen(r), t).status ELSE status) \in Statuses
  BY <1>1 DEF Task
<1>3. (IF u = "same" THEN Row(Seen(r), t).assignee ELSE u) \in Users \cup {None}
  BY <1>1 DEF Task
<1> QED
  BY <1>1, <1>2, <1>3 DEF After, Task

LEMMA BulkKeeps ==
    ASSUME WorkAssumption, GoodWork, NEW r \in Requests, bulk(r)
    PROVE  GoodWork'
<1> DEFINE w == Seen(r)
<1>1. PICK ids \in SUBSET Readable(r), status \in Statuses \cup {None}, u \in Users \cup {None, "same"} :
        LET after == [t \in Tasks |-> IF t \in ids THEN Watched(t, After(r, t, status, u))
                                      ELSE Row(w, t)]
            now   == [w EXCEPT !.tasks = after]
        IN  /\ status = "DONE" =>
                 \A t \in ids : /\ Row(w, t).checks.open = 0
                                /\ \A b \in (Blockers(w, t) \cup Children(w, t)) \ ids : ~Open(w, b)
            /\ status = "OPEN" =>
                 \A t \in {t \in ids : ~Open(w, t)} :
                    \A d \in (Dependents(w, t) \cup ({Row(w, t).parent} \ {None})) \ ids :
                       Row(w, d).status # "DONE"
            /\ Commit(r, [t \in Tasks |-> IF t \in ids THEN after[t] ELSE work.tasks[t]],
                      work.blockers, work.projects,
                      {e \in Users \X ids : /\ e[1] \in Candidates(after[e[2]], Actor(r))
                                            /\ Audience(now, w.tasks, e[2], e[1])})
  BY DEF bulk, After
<1> DEFINE rows == [t \in Tasks |-> IF t \in ids THEN Watched(t, After(r, t, status, u)) ELSE Row(w, t)]
<1>2. Acts(r) /\ ids \subseteq Items(w) /\ ids \subseteq Tasks /\ work \in Work
  BY DEF bulk, Readable, Items, GoodWork, WorkInv, TypeOK
<1>3. \A t \in ids : rows[t] = Watched(t, After(r, t, status, u))
  BY <1>2
<1> HIDE DEF rows
<1>4. \A t \in ids :
        /\ t \in Items(work) /\ rows[t] \in Task
        /\ rows[t].project = Row(work, t).project /\ rows[t].parent = Row(work, t).parent
        /\ rows[t].checks = Row(work, t).checks
        /\ rows[t].status = IF status = None THEN Row(work, t).status ELSE status
  <2> SUFFICES ASSUME NEW t \in ids
               PROVE  /\ t \in Items(work) /\ rows[t] \in Task
                      /\ rows[t].project = Row(work, t).project /\ rows[t].parent = Row(work, t).parent
                      /\ rows[t].checks = Row(work, t).checks
                      /\ rows[t].status = IF status = None THEN Row(work, t).status ELSE status
    OBVIOUS
  <2>1. /\ t \in Items(w) /\ t \in Items(work)
        /\ Row(w, t).project = Row(work, t).project /\ Row(w, t).parent = Row(work, t).parent
        /\ Row(w, t).checks = Row(work, t).checks /\ Row(w, t).status = Row(work, t).status
    BY <1>2, ReadIsSo DEF GoodWork
  <2>2. /\ After(r, t, status, u) \in Task
        /\ After(r, t, status, u).project = Row(w, t).project
        /\ After(r, t, status, u).parent = Row(w, t).parent
        /\ After(r, t, status, u).checks = Row(w, t).checks
        /\ After(r, t, status, u).status = IF status = None THEN Row(w, t).status ELSE status
    BY <1>2, <2>1, AfterIsTask
  <2> QED
    BY <1>3, <2>1, <2>2, WatchedIsTask DEF GoodWork, WorkInv
<1>5. \A t \in ids : rows[t].checks.open + rows[t].checks.done <= MaxChecks
  BY <1>4 DEF GoodWork, WorkInv, ChecksFit, Row
<1>6. \A t \in ids : rows[t].status = "DONE" =>
        /\ rows[t].checks.open = 0
        /\ \A b \in WaitsFor(t) \ ids : ~Open(work, b)
        /\ \A b \in WaitsFor(t) \cap ids : rows[b].status # "OPEN"
  <2> SUFFICES ASSUME NEW t \in ids, rows[t].status = "DONE"
               PROVE  /\ rows[t].checks.open = 0
                      /\ \A b \in WaitsFor(t) \ ids : ~Open(work, b)
                      /\ \A b \in WaitsFor(t) \cap ids : rows[b].status # "OPEN"
    OBVIOUS
  <2>1. CASE status = None
    <3>1. canComplete(work, t)
      BY <1>4, <2>1 DEF GoodWork, CompletedIsFinished
    <3>2. \A b \in WaitsFor(t) : ~Open(work, b)
      BY <3>1 DEF canComplete, WaitsFor
    <3>3. \A b \in ids : ~Open(work, b) => Row(work, b).status # "OPEN"
      BY <1>2, ReadStatuses DEF GoodWork
    <3> QED
      BY <1>4, <2>1, <3>1, <3>2, <3>3 DEF canComplete
  <2>2. CASE status # None
    <3>1. status = "DONE"
      BY <1>4, <2>2
    <3>2. Row(w, t).checks.open = 0 /\ Row(w, t).checks = Row(work, t).checks
      BY <1>1, <1>2, <3>1, ReadIsSo DEF GoodWork
    <3>3. \A b \in WaitsFor(t) \ ids : ~Open(w, b) /\ b \in Items(w)
      BY <1>1, <1>2, <3>1, ReadRelations DEF GoodWork, WaitsFor
    <3>4. \A b \in WaitsFor(t) \ ids : ~Open(work, b)
      BY <1>2, <3>3, ReadStatuses DEF GoodWork
    <3> QED
      BY <1>4, <2>2, <3>1, <3>2, <3>4
  <2> QED
    BY <2>1, <2>2
<1>7. \A t \in ids : rows[t].status = "OPEN" /\ ~Open(work, t) =>
        \A d \in Items(work) \ ids : t \in WaitsFor(d) => Row(work, d).status # "DONE"
  <2> SUFFICES ASSUME NEW t \in ids, rows[t].status = "OPEN", ~Open(work, t),
                      NEW d \in Items(work) \ ids, t \in WaitsFor(d)
               PROVE  Row(work, d).status # "DONE"
    OBVIOUS
  <2>1. status = "OPEN" /\ ~Open(w, t)
    BY <1>2, <1>4, ReadStatuses DEF GoodWork
  <2>2. \A c \in (Dependents(w, t) \cup ({Row(w, t).parent} \ {None})) \ ids : Row(w, c).status # "DONE"
    BY <1>1, <2>1
  <2>3. d # None
    BY ItemIsTask DEF GoodWork, WorkInv, TypeOK, WorkAssumption
  <2>4. d \in Dependents(work, t) \/ Row(work, t).parent = d
    BY DEF WaitsFor, Blockers, Dependents, Children
  <2>5. /\ d \in Items(w) /\ d \in Dependents(w, t) \cup ({Row(w, t).parent} \ {None})
    BY <1>2, <2>3, <2>4, ReadRelations, ReadIsSo DEF GoodWork
  <2> QED
    BY <1>2, <2>2, <2>5, ReadIsSo DEF GoodWork
<1>8. Edits(ids, rows)
  BY <1>4, <1>5, <1>6, <1>7 DEF Edits
<1>9. PICK users \in SUBSET (Users \X ids) :
        Commit(r, Edited(ids, rows), work.blockers, work.projects, users)
  BY <1>1 DEF Edited, rows
<1> QED
  BY <1>2, <1>8, <1>9, EditsKeep DEF Work

-----------------------------------------------------------------------------
(* New relations.                                                          *)

\* One more relation between two items of the project, which keeps all that is finished.
LEMMA DependencyKeeps ==
    ASSUME WorkAssumption, GoodWork, NEW r \in Requests, dependency(r)
    PROVE  GoodWork'
<1>1. PICK t \in Readable(r), b \in Readable(r) :
        /\ Row(Seen(r), t).status = "DONE" => ~Open(Seen(r), b)
        /\ ~Reaches(Edges(Seen(r)), b, t)
        /\ Commit(r, work.tasks, work.blockers \cup {<<t, b>>}, work.projects,
                  Logged(r, t, Watched(t, Row(Seen(r), t))))
  BY DEF dependency, wouldCycle
<1> DEFINE blockers == work.blockers \cup {<<t, b>>}
<1>2. /\ Acts(r) /\ t \in Items(Seen(r)) /\ b \in Items(Seen(r)) /\ r \in Active
      /\ work \in Work /\ t \in Tasks /\ b \in Tasks
  BY CallIsTyped DEF dependency, Readable, Items, GoodWork, WorkInv, TypeOK
<1>3. /\ work'.tasks = work.tasks /\ work'.blockers = blockers
      /\ Items(work)' = Items(work)
  BY <1>1 DEF Commit, Items
<1>4. /\ t \in Keyed(calls[r].key) /\ b \in Keyed(calls[r].key)
      /\ t \in Items(work) /\ b \in Items(work)
      /\ work.tasks[t].project = work.tasks[b].project
  BY <1>2 DEF GoodWork, WorkInv, SeenIsPresent, Keyed
<1>5. Edges(work)' = Edges(work) \cup {<<t, b>>}
  BY <1>3 DEF Edges, Row
<1>6. NoCircularWork'
  <2>1. ~Reaches(Edges(work), b, t)
    BY <1>1, <1>2, ReadCircle DEF GoodWork
  <2>2. Acyclic(Edges(work) \cup {<<t, b>>})
    BY <2>1, OneMoreEdge, CirclesAreEdges DEF GoodWork
  <2> QED
    BY <1>5, <2>2 DEF NoCircularWork, Acyclic
<1>7. WithinProject'
  BY <1>3, <1>4, <1>5 DEF GoodWork, WorkInv, WithinProject
<1>8. CompletedIsFinished'
  <2>1. Row(work, t).status = "DONE" => ~Open(work, b)
    BY <1>1, <1>2, ReadIsSo, ReadStatuses DEF GoodWork
  <2>2. \A u \in Items(work) :
          /\ Children(work, u)' = Children(work, u)
          /\ Blockers(work, u)' \subseteq Blockers(work, u) \cup (IF u = t THEN {b} ELSE {})
          /\ Row(work, u)' = Row(work, u) /\ Open(work, u)' = Open(work, u)
    BY <1>3 DEF Children, Blockers, Row, Open
  <2>3. \A u \in Items(work) : WaitsFor(u) \subseteq Items(work)
    BY WaitsForItems
  <2> SUFFICES ASSUME NEW u \in Items(work), Row(work, u).status = "DONE"
               PROVE  /\ \A c \in Blockers(work, u)' \cup Children(work, u)' : ~Open(work, c)'
                      /\ Row(work, u).checks.open = 0
    BY <1>3, <2>2 DEF CompletedIsFinished, canComplete
  <2>4. canComplete(work, u)
    BY DEF GoodWork, CompletedIsFinished
  <2>5. \A c \in Blockers(work, u)' \cup Children(work, u)' : c \in Items(work) /\ ~Open(work, c)
    BY <1>4, <2>1, <2>2, <2>3, <2>4 DEF canComplete, WaitsFor
  <2> QED
    BY <2>2, <2>4, <2>5 DEF canComplete
<1>9. StaysInProject(r, work.tasks, blockers)
  BY <1>4 DEF StaysInProject, Items
<1>10. work.tasks \in Rows /\ FitsAll(work.tasks) /\ blockers \in SUBSET (Tasks \X Tasks)
       /\ work.projects \in [Projects -> Project \cup {NoProject}]
  BY <1>2 DEF Rows, Work, FitsAll, GoodWork, WorkInv, ChecksFit, Items
<1>11. WorkInv'
  BY <1>1, <1>2, <1>7, <1>9, <1>10, CommitKeeps, LoggedIsTyped DEF GoodWork
<1> QED
  BY <1>6, <1>8, <1>11 DEF GoodWork

\* A new item waits for nothing, and its parent is open.
LEMMA CreateKeeps ==
    ASSUME WorkAssumption, GoodWork, NEW r \in Requests, create(r)
    PROVE  GoodWork'
<1>1. PICK t \in Tasks, parent \in Readable(r) \cup {None}, u \in Users \cup {None},
           status \in Statuses :
        LET row == [project |-> calls[r].key, parent |-> parent, status |-> status,
                    assignee |-> u, creator |-> Actor(r), archived |-> FALSE,
                    checks |-> [open |-> 0, done |-> 0], files |-> 0, watchers |-> {}]
        IN  /\ work.tasks[t] = Absent
            /\ parent # None => Open(Seen(r), parent)
            /\ Commit(r, [work.tasks EXCEPT ![t] = row], work.blockers, work.projects,
                      Logged(r, t, row))
  BY DEF create, Writes
<1> DEFINE row == [project |-> calls[r].key, parent |-> parent, status |-> status,
                   assignee |-> u, creator |-> Actor(r), archived |-> FALSE,
                   checks |-> [open |-> 0, done |-> 0], files |-> 0, watchers |-> {}]
           tasks == [work.tasks EXCEPT ![t] = row]
<1>2. /\ Acts(r) /\ r \in Active /\ work \in Work /\ Actor(r) \in Users
      /\ calls[r].key \in Projects \cup {None}
  BY CallIsTyped DEF create, GoodWork, WorkInv, TypeOK
<1>3. parent # None => /\ parent \in Items(Seen(r)) /\ parent \in Items(work)
                       /\ work.tasks[parent].project = calls[r].key
                       /\ Row(work, parent).status = "OPEN"
  BY <1>1, <1>2, ReadIsSo, ReadStatuses DEF Readable, GoodWork, Row
<1>4. row \in Task
  <2>1. parent \in Tasks \cup {None}
    BY <1>3 DEF Items
  <2> QED
    BY <1>2, <2>1 DEF Task, WorkAssumption
<1>5. t \notin Items(work) /\ parent # t /\ row # Absent
  BY <1>1, <1>3, <1>4, ItemIsTask, RowIsPresent DEF Items, WorkAssumption
<1>6. work'.tasks = tasks /\ work'.blockers = work.blockers
  BY <1>1 DEF Commit
<1>7. /\ tasks \in Rows /\ tasks[t] = row
      /\ \A v \in Items(work) : v # t /\ tasks[v] = work.tasks[v]
  BY <1>2, <1>4, <1>5 DEF Work, Rows, Items
<1> HIDE DEF row, tasks
<1>8. row.project = calls[r].key /\ row.parent = parent /\ row.status = status
      /\ row.checks = [open |-> 0, done |-> 0]
  BY DEF row
<1>9. Items(work)' = Items(work) \cup {t}
  BY <1>2, <1>5, <1>6, <1>7 DEF Items, tasks, Work
<1>10. \A e \in Edges(work) : e[1] \in Items(work) /\ e[2] \in Items(work)
  BY DEF GoodWork, WorkInv, WithinProject
<1>11. Edges(work)' = Edges(work) \cup (IF parent = None THEN {} ELSE {<<parent, t>>})
  BY <1>5, <1>6, <1>7, <1>8, <1>9 DEF Edges, Row
<1>12. NoCircularWork'
  <2>1. Acyclic(Edges(work))
    BY CirclesAreEdges DEF GoodWork
  <2>2. ~Reaches(Edges(work), t, parent)
    <3>1. t \in {t} /\ parent \notin {t} /\ \A e \in Edges(work) : e[1] \in {t} => e[2] \in {t}
      BY <1>5, <1>10
    <3> QED
      BY <3>1 DEF Reaches
  <2>3. Acyclic(Edges(work) \cup {<<parent, t>>})
    BY <2>1, <2>2, OneMoreEdge
  <2> QED
    BY <1>11, <2>1, <2>3 DEF NoCircularWork, Acyclic
<1>13. WithinProject'
  BY <1>3, <1>6, <1>7, <1>8, <1>9, <1>10, <1>11 DEF GoodWork, WorkInv, WithinProject
<1>14. CompletedIsFinished'
  <2>1. \A v \in Items(work) :
          /\ Row(work, v)' = Row(work, v) /\ Open(work, v)' = Open(work, v)
          /\ Blockers(work, v)' = Blockers(work, v)
          /\ Children(work, v)' = Children(work, v) \cup (IF v = parent THEN {t} ELSE {})
    BY <1>5, <1>6, <1>7, <1>8, <1>9 DEF Row, Open, Blockers, Children
  <2>2. Blockers(work, t)' = {}
    BY <1>5, <1>6, <1>10 DEF Blockers, Edges
  <2>3. Children(work, t)' = {}
    <3>1. ASSUME NEW c \in Items(work), Row(work, c).parent = t
          PROVE  FALSE
      <4>1. t # None
        BY DEF WorkAssumption
      <4>2. <<t, c>> \in Edges(work)
        BY <3>1, <4>1 DEF Edges
      <4> QED
        BY <1>5, <1>10, <4>2
    <3> QED
      BY <1>5, <1>6, <1>7, <1>8, <1>9, <2>1, <3>1 DEF Children, Row
  <2>4. canComplete(work, t)'
    BY <1>6, <1>7, <1>8, <2>2, <2>3 DEF canComplete, Row
  <2>5. ASSUME NEW v \in Items(work), Row(work, v).status = "DONE"
        PROVE  canComplete(work, v)'
    <3>1. canComplete(work, v) /\ v # parent
      BY <1>3, <1>5, <2>5, ItemIsTask DEF GoodWork, CompletedIsFinished, WorkAssumption, WorkInv, TypeOK
    <3>2. WaitsFor(v) \subseteq Items(work)
      BY WaitsForItems
    <3> QED
      BY <2>1, <3>1, <3>2 DEF canComplete, WaitsFor
  <2> QED
    BY <1>9, <2>1, <2>4, <2>5 DEF CompletedIsFinished
<1>15. StaysInProject(r, tasks, work.blockers)
  BY <1>2, <1>7, <1>8, <1>9, <1>5, <1>6, RowIsPresent DEF StaysInProject, Items
<1>16. FitsAll(tasks)
  BY <1>2, <1>6, <1>7, <1>8, <1>9 DEF FitsAll, GoodWork, WorkInv, ChecksFit, Items, WorkAssumption
<1>17. /\ work.blockers \in SUBSET (Tasks \X Tasks)
       /\ work.projects \in [Projects -> Project \cup {NoProject}]
  BY <1>2 DEF Work
<1>18. WorkInv'
  BY <1>1, <1>2, <1>7, <1>13, <1>15, <1>16, <1>17, CommitKeeps, LoggedIsTyped DEF GoodWork, tasks, row
<1> QED
  BY <1>12, <1>14, <1>18 DEF GoodWork

-----------------------------------------------------------------------------
(* Projects, the lock and followers.                                       *)

LEMMA ProjectKeeps ==
    ASSUME WorkAssumption, GoodWork, NEW r \in Requests, updateProject(r) \/ archiveProject(r)
    PROVE  GoodWork'
<1> DEFINE key == calls[r].key
<1>1. Acts(r) /\ key \in Projects
  BY CallIsTyped DEF updateProject, archiveProject, ManagesProject, GoodWork, WorkInv
<1>2. Seen(r).projects[key] \in Project
  <2>1. Seen(r).projects[key] \in Project \cup {NoProject}
    BY <1>1, CallIsTyped DEF GoodWork, WorkInv, Work
  <2>2. Seen(r).projects[key] # NoProject
    BY DEF updateProject, archiveProject, ManagesProject, ReadsProject
  <2> QED
    BY <2>1, <2>2
<1>3. PICK project \in Project : SavesProject(r, project)
  <2>1. CASE updateProject(r)
    <3>1. PICK member \in Members : SavesProject(r, [Seen(r).projects[key] EXCEPT !.member = member])
      BY <2>1 DEF updateProject
    <3>2. [Seen(r).projects[key] EXCEPT !.member = member] \in Project
      BY <1>2 DEF Project, Members
    <3> QED
      BY <3>1, <3>2
  <2>2. CASE archiveProject(r)
    <3>1. PICK archived \in BOOLEAN :
            SavesProject(r, [Seen(r).projects[key] EXCEPT !.archived = archived])
      BY <2>2 DEF archiveProject
    <3>2. [Seen(r).projects[key] EXCEPT !.archived = archived] \in Project
      BY <1>2 DEF Project
    <3> QED
      BY <3>1, <3>2
  <2> QED
    BY <2>1, <2>2
<1> DEFINE projects == [work.projects EXCEPT ![key] = project]
<1>4. projects \in [Projects -> Project \cup {NoProject}]
  BY DEF GoodWork, WorkInv, TypeOK, Work
<1>5. Commit(r, work.tasks, work.blockers, projects, {})
  BY <1>3 DEF SavesProject
<1> QED
  BY <1>1, <1>4, <1>5, NoEditKeeps

LEMMA RollbackKeeps ==
    ASSUME WorkAssumption, GoodWork, NEW r \in Requests, Rollback(r)
    PROVE  GoodWork'
<1>1. work.projects \in [Projects -> Project \cup {NoProject}]
  BY DEF GoodWork, WorkInv, TypeOK, Work
<1> QED
  BY <1>1, NoEditKeeps DEF Rollback

\* The items, blockers and rows of a project the transaction is about to change.
LEMMA ViewIsSo ==
    ASSUME TypeOK, NEW key \in Projects \cup {None}
    PROVE  /\ View(key) \in Work
           /\ Items(View(key)) = Keyed(key)
           /\ \A t \in Keyed(key) : View(key).tasks[t] = work.tasks[t]
           /\ View(key).blockers = {e \in work.blockers : work.tasks[e[1]].project = key}
<1>1. View(key) \in Work
  BY DEF View, Work, TypeOK
<1> QED
  BY <1>1 DEF View, Items, Keyed

LEMMA LockKeeps ==
    ASSUME WorkAssumption, GoodWork, NEW r \in Requests, NEW u \in Users,
           NEW key \in Projects \cup {None}, Lock(r, u, key)
    PROVE  GoodWork'
<1> DEFINE call == [user |-> u, key |-> key, read |-> View(key)]
<1>1. /\ calls[r] = Idle /\ calls' = [calls EXCEPT ![r] = call]
      /\ told' = {} /\ work' = work
      /\ \A s \in Active : calls[s].key # key
  BY DEF Lock, Start, Active
<1>2. /\ View(key) \in Work /\ Items(View(key)) = Keyed(key)
      /\ \A t \in Keyed(key) : View(key).tasks[t] = work.tasks[t]
      /\ View(key).blockers = {e \in work.blockers : work.tasks[e[1]].project = key}
  BY ViewIsSo DEF GoodWork, WorkInv
<1>3. call \in Call /\ call # Idle
  BY <1>2 DEF Call, Idle, WorkAssumption
<1>4. TypeOK'
  BY <1>1, <1>3 DEF GoodWork, WorkInv, TypeOK
<1>5. /\ Active' = Active \cup {r} /\ r \notin Active
      /\ \A s \in Active : calls'[s] = calls[s] /\ Seen(s)' = Seen(s)
      /\ calls'[r] = call /\ Seen(r)' = View(key)
  BY <1>1, <1>3 DEF Active, Seen, GoodWork, WorkInv, TypeOK
<1>6. OneRequestPerKey'
  BY <1>1, <1>5 DEF GoodWork, WorkInv, OneRequestPerKey
<1>7. ChecksFit(work)' /\ \A s \in Active' : ChecksFit(Seen(s))'
  <2>1. ChecksFit(View(key))
    BY <1>2 DEF ChecksFit, Keyed, GoodWork, WorkInv
  <2> QED
    BY <1>1, <1>5, <2>1 DEF ChecksFit, Items, GoodWork, WorkInv
<1>8. SeenIsPresent'
  <2>1. \A s \in Active :
          /\ Items(Seen(s))' = Keyed(calls[s].key)'
          /\ \A t \in Items(Seen(s))' : work'.tasks[t] = Watched(t, Seen(s).tasks[t])'
          /\ Seen(s)'.blockers = {e \in work'.blockers : e[1] \in Keyed(calls[s].key)'}
    BY <1>1, <1>5 DEF GoodWork, WorkInv, SeenIsPresent, Keyed, Items, Watched
  <2>2. Keyed(calls[r].key)' = Keyed(key) /\ Items(Seen(r))' = Keyed(key)
    BY <1>1, <1>2, <1>5 DEF Keyed, Items
  <2>3. \A t \in Keyed(key) : work'.tasks[t] = Watched(t, Seen(r).tasks[t])'
    <3>1. \A t \in Keyed(key) : work.tasks[t] \in Task
      BY ItemIsTask DEF Keyed, GoodWork, WorkInv, TypeOK
    <3>2. \A t \in Keyed(key) : [work.tasks[t] EXCEPT !.watchers = work.tasks[t].watchers] = work.tasks[t]
      BY <3>1 DEF Task
    <3> QED
      BY <1>1, <1>2, <1>5, <3>2 DEF Watched
  <2>4. Seen(r)'.blockers = {e \in work'.blockers : e[1] \in Keyed(key)}
    BY <1>1, <1>2, <1>5 DEF GoodWork, WorkInv, WithinProject, Edges, Keyed
  <2> QED
    BY <1>5, <2>1, <2>2, <2>3, <2>4 DEF SeenIsPresent
<1>9. WithinProject' /\ NoCircularWork' /\ CompletedIsFinished'
  BY <1>1 DEF GoodWork, WorkInv, WithinProject, NoCircularWork, CompletedIsFinished,
              Edges, Items, Row, canComplete, Blockers, Children, Open
<1> QED
  BY <1>4, <1>6, <1>7, <1>8, <1>9 DEF GoodWork, WorkInv

\* Nobody relates, or waits for, the row of a project or a follower.
LEMMA CreateProjectKeeps ==
    ASSUME WorkAssumption, GoodWork, NEW u \in Users, createProject(u)
    PROVE  GoodWork'
<1>1. PICK p \in Projects, member \in Members :
        /\ work' = [work EXCEPT !.projects[p] = [owner |-> u, member |-> member, archived |-> FALSE]]
        /\ told' = {} /\ calls' = calls
  BY DEF createProject
<1>2. [owner |-> u, member |-> member, archived |-> FALSE] \in Project
  BY DEF Project, Members
<1>3. work \in Work
  BY DEF GoodWork, WorkInv, TypeOK
<1>4. /\ work' \in Work /\ work'.tasks = work.tasks /\ work'.blockers = work.blockers
  BY <1>1, <1>2, <1>3 DEF Work
<1>5. TypeOK'
  BY <1>1, <1>4 DEF GoodWork, WorkInv, TypeOK
<1>6. Active' = Active /\ \A r \in Active : Seen(r)' = Seen(r) /\ calls'[r] = calls[r]
  BY <1>1 DEF Active, Seen
<1>7. OneRequestPerKey' /\ ChecksFit(work)' /\ \A r \in Active' : ChecksFit(Seen(r))'
  BY <1>4, <1>6 DEF GoodWork, WorkInv, OneRequestPerKey, ChecksFit, Items
<1>8. SeenIsPresent'
  BY <1>4, <1>6 DEF GoodWork, WorkInv, SeenIsPresent, Keyed, Items, Watched
<1>9. WithinProject' /\ NoCircularWork' /\ CompletedIsFinished'
  BY <1>4 DEF GoodWork, WorkInv, WithinProject, NoCircularWork, CompletedIsFinished,
              Edges, Items, Row, canComplete, Blockers, Children, Open
<1> QED
  BY <1>5, <1>7, <1>8, <1>9 DEF GoodWork, WorkInv

LEMMA WatchKeeps ==
    ASSUME WorkAssumption, GoodWork, NEW u \in Followers, watch(u)
    PROVE  GoodWork'
<1>1. PICK t \in Items(work), watching \in BOOLEAN :
        /\ work' = [work EXCEPT !.tasks[t].watchers =
                      IF watching THEN work.tasks[t].watchers \cup {u}
                                  ELSE work.tasks[t].watchers \ {u}]
        /\ told' = {} /\ calls' = calls
  BY DEF watch
<1> DEFINE watchers == IF watching THEN work.tasks[t].watchers \cup {u}
                                   ELSE work.tasks[t].watchers \ {u}
<1>2. work \in Work /\ t \in Tasks /\ work.tasks[t] \in Task
  BY ItemIsTask DEF GoodWork, WorkInv, TypeOK
<1> DEFINE row == [work.tasks[t] EXCEPT !.watchers = watchers]
<1>3. /\ work' \in Work /\ work'.blockers = work.blockers
      /\ work'.tasks = [work.tasks EXCEPT ![t] = row]
      /\ row \in Task
  <2>1. watchers \in SUBSET Followers
    BY <1>1, <1>2 DEF Task
  <2>2. row \in Task
    BY <1>2, <2>1 DEF Task
  <2> QED
    BY <1>1, <1>2, <2>2 DEF Work
<1>4. /\ Items(work)' = Items(work)
      /\ \A v \in Items(work) : /\ work'.tasks[v].parent = work.tasks[v].parent
                                /\ work'.tasks[v].project = work.tasks[v].project
                                /\ work'.tasks[v].status = work.tasks[v].status
                                /\ work'.tasks[v].checks = work.tasks[v].checks
                                /\ v # t => work'.tasks[v] = work.tasks[v]
  BY <1>2, <1>3, RowIsPresent DEF Items, Work, Task
<1>5. TypeOK'
  BY <1>1, <1>3 DEF GoodWork, WorkInv, TypeOK
<1>6. Active' = Active /\ \A r \in Active : Seen(r)' = Seen(r) /\ calls'[r] = calls[r]
  BY <1>1 DEF Active, Seen
<1>7. OneRequestPerKey' /\ ChecksFit(work)' /\ \A r \in Active' : ChecksFit(Seen(r))'
  BY <1>4, <1>6 DEF GoodWork, WorkInv, OneRequestPerKey, ChecksFit, Items
<1>8. SeenIsPresent'
  <2> SUFFICES ASSUME NEW r \in Active
               PROVE  /\ Items(Seen(r)) = Keyed(calls[r].key)'
                      /\ \A v \in Items(Seen(r)) : work'.tasks[v] = Watched(v, Seen(r).tasks[v])'
                      /\ Seen(r).blockers = {e \in work'.blockers : e[1] \in Keyed(calls[r].key)'}
    BY <1>6 DEF SeenIsPresent, Items
  <2>1. Keyed(calls[r].key)' = Keyed(calls[r].key)
    BY <1>4, <1>6 DEF Keyed
  <2>2. ASSUME NEW v \in Items(Seen(r))
        PROVE  work'.tasks[v] = [Seen(r).tasks[v] EXCEPT !.watchers = work'.tasks[v].watchers]
    <3>1. /\ work.tasks[v] = [Seen(r).tasks[v] EXCEPT !.watchers = work.tasks[v].watchers]
          /\ v \in Items(work) /\ Seen(r).tasks[v] \in Task
      BY <2>2, ReadIsSo DEF GoodWork, WorkInv, SeenIsPresent, Watched, Active, Acts, Row
    <3>2. CASE v = t
      <4>1. work'.tasks[v] = [work.tasks[v] EXCEPT !.watchers = watchers]
        BY <1>2, <1>3, <3>2 DEF Work
      <4> QED
        BY <3>1, <4>1 DEF Task
    <3>3. CASE v # t
      BY <1>4, <3>1, <3>3
    <3> QED
      BY <3>2, <3>3
  <2>3. \A v \in Items(Seen(r)) : work'.tasks[v] = Watched(v, Seen(r).tasks[v])'
    BY <1>6, <2>2 DEF Watched
  <2> QED
    BY <1>3, <2>1, <2>3 DEF GoodWork, WorkInv, SeenIsPresent
<1>9. WithinProject' /\ NoCircularWork'
  BY <1>3, <1>4, RelationsKeep
<1>10. CompletedIsFinished'
  BY <1>3, <1>4 DEF GoodWork, WorkInv, CompletedIsFinished, Items, Row, canComplete,
                    Blockers, Children, Open, WithinProject, Edges
<1> QED
  BY <1>5, <1>7, <1>8, <1>9, <1>10 DEF GoodWork, WorkInv

-----------------------------------------------------------------------------
(* The theorems.                                                           *)

LEMMA InitGood == WorkAssumption /\ Init => GoodWork
<1> SUFFICES ASSUME WorkAssumption, Init
             PROVE  GoodWork
  OBVIOUS
<1>1. work \in Work /\ Items(work) = {} /\ Edges(work) = {} /\ Active = {}
  BY DEF Init, Work, Items, Edges, Active
<1>2. TypeOK
  BY <1>1 DEF Init, TypeOK
<1> QED
  BY <1>1, <1>2 DEF GoodWork, WorkInv, ChecksFit, OneRequestPerKey, SeenIsPresent, WithinProject,
                    NoCircularWork, CompletedIsFinished

LEMMA NextKeeps ==
    ASSUME WorkAssumption, GoodWork, [Next]_vars
    PROVE  GoodWork'
<1>1. CASE UNCHANGED vars
  <2>1. work' = work /\ calls' = calls /\ told' = told
    BY <1>1 DEF vars
  <2>2. TypeOK' /\ OneRequestPerKey' /\ ChecksFit(work)' /\ \A r \in Active' : ChecksFit(Seen(r))'
    BY <2>1 DEF GoodWork, WorkInv, TypeOK, OneRequestPerKey, ChecksFit, Active, Seen, Items
  <2>3. SeenIsPresent'
    BY <2>1 DEF GoodWork, WorkInv, SeenIsPresent, Active, Seen, Items, Keyed, Watched
  <2>4. WithinProject' /\ NoCircularWork'
    BY <2>1 DEF GoodWork, WorkInv, WithinProject, NoCircularWork, Edges, Items, Row
  <2>5. CompletedIsFinished'
    BY <2>1 DEF GoodWork, CompletedIsFinished, Items, Row, canComplete, Blockers, Children, Open
  <2> QED
    BY <2>2, <2>3, <2>4, <2>5 DEF GoodWork, WorkInv
<1>2. ASSUME NEW r \in Requests, NEW u \in Users, NEW key \in Projects \cup {None}, Lock(r, u, key)
      PROVE  GoodWork'
  BY <1>2, LockKeeps
<1>3. ASSUME NEW r \in Requests,
             \/ updateProject(r) \/ archiveProject(r)
             \/ create(r) \/ update(r) \/ archive(r) \/ bulk(r)
             \/ comment(r) \/ time(r) \/ checklist(r) \/ dependency(r)
             \/ upload(r) \/ removePart(r) \/ Rollback(r)
      PROVE  GoodWork'
  BY <1>3, ProjectKeeps, CreateKeeps, UpdateKeeps, ArchiveKeeps, BulkKeeps, CommentKeeps,
     ChecklistKeeps, DependencyKeeps, UploadKeeps, RemoveKeeps, RollbackKeeps
<1>4. ASSUME NEW u \in Users, createProject(u)
      PROVE  GoodWork'
  BY <1>4, CreateProjectKeeps
<1>5. ASSUME NEW u \in Followers, watch(u)
      PROVE  GoodWork'
  BY <1>5, WatchKeeps
<1> QED
  BY <1>1, <1>2, <1>3, <1>4, <1>5 DEF Next

\* The inductive invariant: whoever holds the lock of a project has read its items and their
\* relations as they are now, and no relation leaves a project (TasksService.write, mutation).
THEOREM WorkInvariant ==
    ASSUME WorkAssumption
    PROVE  Spec => []GoodWork
<1>1. Init => GoodWork
  BY InitGood
<1>2. GoodWork /\ [Next]_vars => GoodWork'
  BY NextKeeps
<1> QED
  BY <1>1, <1>2, PTL DEF Spec

\* However requests about different items interleave, completed work keeps no open subtask,
\* dependency or checklist item (TasksService.update, bulk, create, checklist, dependency).
THEOREM CompletedWorkIsFinished ==
    ASSUME WorkAssumption
    PROVE  Spec => []CompletedIsFinished
<1>1. GoodWork => CompletedIsFinished
  BY DEF GoodWork
<1> QED
  BY <1>1, WorkInvariant, PTL

\* However many items and requests there are, no chain of dependencies and subtasks comes
\* back to where it started (TasksService.dependency, wouldCycle).
THEOREM WorkIsNotCircular ==
    ASSUME WorkAssumption
    PROVE  Spec => []NoCircularWork
<1>1. GoodWork => NoCircularWork
  BY DEF GoodWork
<1> QED
  BY <1>1, WorkInvariant, PTL

-----------------------------------------------------------------------------
(* Who is told.                                                            *)

\* The project of an item exists, and a transaction that works on items has read it as it is:
\* only the lock of a project that did not exist yet keeps nobody from creating it.
ProjectsInv ==
    /\ \A t \in Items(work) :
         Row(work, t).project # None => work.projects[Row(work, t).project] # NoProject
    /\ \A r \in Active :
         calls[r].key # None =>
           \/ Seen(r).projects[calls[r].key] = work.projects[calls[r].key]
           \/ /\ Seen(r).projects[calls[r].key] = NoProject
              /\ Items(Seen(r)) = {}

FilterInv == GoodWork /\ ProjectsInv /\ ToldIsFiltered

LEMMA ProjectIsPresent ==
    ASSUME NEW project \in Project
    PROVE  project # NoProject
<1>1. "archived" \in DOMAIN project
  BY DEF Project
<1>2. "archived" \notin DOMAIN NoProject
  BY DEF NoProject
<1> QED
  BY <1>1, <1>2

\* Whoever belongs to the audience in the rows "w" reads an item that is, with its parent and its
\* project, as in "w".
LEMMA AudienceReads ==
    ASSUME NEW w, NEW asked, NEW now, NEW u \in Users, NEW t \in Items(now),
           Audience(w, asked, t, u),
           asked[t].project = Row(now, t).project,
           Row(w, t) = Row(now, t),
           Row(now, t).parent # None =>
             /\ Row(w, Row(now, t).parent).assignee = Row(now, Row(now, t).parent).assignee
             /\ Row(w, Row(now, t).parent).creator = Row(now, Row(now, t).parent).creator,
           Row(now, t).project # None =>
             /\ w.projects[Row(now, t).project] = now.projects[Row(now, t).project]
             /\ now.projects[Row(now, t).project] # NoProject
    PROVE  Reads(now, u, t) \/ (role[u] = "CALLCENTER" /\ Row(now, t).project # None)
<1>1. CASE Row(now, t).project = None
  BY <1>1 DEF Audience, Reads, Concerned
<1>2. CASE Row(now, t).project # None
  BY <1>2 DEF Audience, Reads, ReadsProject, Member
<1> QED
  BY <1>1, <1>2

\* A transaction that leaves the projects alone.
LEMMA ProjectsKeep ==
    ASSUME GoodWork, ProjectsInv, NEW r \in Requests, Acts(r), NEW tasks, NEW blockers, NEW users,
           Commit(r, tasks, blockers, work.projects, users),
           \A t \in Tasks : tasks[t] # Absent =>
              \/ t \in Items(work) /\ tasks[t].project = work.tasks[t].project
              \/ /\ tasks[t].project = calls[r].key
                 /\ calls[r].key # None => work.projects[calls[r].key] # NoProject
    PROVE  ProjectsInv'
<1>1. /\ work' = [tasks |-> tasks, blockers |-> blockers, projects |-> work.projects]
      /\ calls' = [calls EXCEPT ![r] = Idle]
  BY DEF Commit
<1>2. \A s \in Active' : s \in Active /\ calls'[s] = calls[s] /\ Seen(s)' = Seen(s)
  BY <1>1 DEF Active, Seen, GoodWork, WorkInv, TypeOK
<1>3. \A t \in Items(work') :
         Row(work', t).project # None => work'.projects[Row(work', t).project] # NoProject
  BY <1>1 DEF Items, Row, ProjectsInv
<1>4. \A s \in Active' : Items(Seen(s))' = Items(Seen(s))
  BY <1>2 DEF Items
<1>5. \A s \in Active' :
         calls'[s].key # None =>
           \/ Seen(s)'.projects[calls'[s].key] = work'.projects[calls'[s].key]
           \/ /\ Seen(s)'.projects[calls'[s].key] = NoProject
              /\ Items(Seen(s))' = {}
  BY <1>1, <1>2, <1>4 DEF ProjectsInv
<1> QED
  BY <1>3, <1>5 DEF ProjectsInv

\* What a transaction knows of the project whose item it works on.
LEMMA ReadProject ==
    ASSUME GoodWork, ProjectsInv, NEW r \in Requests, Acts(r), NEW t \in Items(Seen(r)),
           calls[r].key # None
    PROVE  /\ Seen(r).projects[calls[r].key] = work.projects[calls[r].key]
           /\ work.projects[calls[r].key] # NoProject
<1>1. r \in Active
  BY DEF Active, Acts
<1>2. t \in Items(work) /\ Row(work, t).project = calls[r].key
  BY ReadIsSo DEF GoodWork
<1> QED
  BY <1>1, <1>2 DEF ProjectsInv

LEMMA SilenceIsFiltered == told' = {} => ToldIsFiltered'
  BY DEF ToldIsFiltered

\* The row of an item changes, and those are told whom log finds.
LEMMA RowFilters ==
    ASSUME WorkAssumption, GoodWork, GoodWork', ProjectsInv, NEW r \in Requests, Acts(r),
           NEW t \in Items(Seen(r)), NEW row, row # Absent,
           row.project = Row(Seen(r), t).project, row.parent = Row(Seen(r), t).parent,
           NEW blockers, NEW users \in SUBSET Logged(r, t, row),
           Commit(r, [work.tasks EXCEPT ![t] = row], blockers, work.projects, users)
    PROVE  ProjectsInv' /\ ToldIsFiltered'
<1> DEFINE w == [Seen(r) EXCEPT !.tasks[t] = row]
<1>1. /\ t \in Tasks /\ t \in Items(work) /\ Row(work, t).project = row.project
      /\ Row(work, t).parent = row.parent /\ row.project = calls[r].key
  BY ReadIsSo DEF GoodWork
<1>2. /\ work \in Work /\ Seen(r) \in Work
  BY CallIsTyped DEF GoodWork, WorkInv, TypeOK
<1>3. /\ work'.tasks = [work.tasks EXCEPT ![t] = row] /\ work'.projects = work.projects
      /\ told' = users
  BY DEF Commit
<1>4. ProjectsInv'
  <2>1. \A v \in Tasks : [work.tasks EXCEPT ![t] = row][v] # Absent =>
           v \in Items(work) /\ [work.tasks EXCEPT ![t] = row][v].project = work.tasks[v].project
    BY <1>1, <1>2 DEF Items, Work, Row
  <2> QED
    BY <2>1, ProjectsKeep
<1>5. t \in Items(work') /\ Row(work', t) = row
  BY <1>1, <1>2, <1>3 DEF Items, Row, Work
<1>6. w.tasks[t] = row /\ w.projects = Seen(r).projects
      /\ \A v \in Tasks \ {t} : w.tasks[v] = Seen(r).tasks[v]
  BY <1>1, <1>2 DEF Work
<1>7. row.parent # None =>
        /\ Row(w, row.parent).assignee = Row(work', row.parent).assignee
        /\ Row(w, row.parent).creator = Row(work', row.parent).creator
  <2> SUFFICES ASSUME row.parent # None, row.parent # t
               PROVE  /\ Row(w, row.parent).assignee = Row(work', row.parent).assignee
                      /\ Row(w, row.parent).creator = Row(work', row.parent).creator
    BY <1>5, <1>6 DEF Row
  <2>1. row.parent \in Items(Seen(r))
    BY <1>1, ReadRelations DEF GoodWork
  <2>2. /\ row.parent \in Tasks
        /\ Row(work, row.parent).assignee = Row(Seen(r), row.parent).assignee
        /\ Row(work, row.parent).creator = Row(Seen(r), row.parent).creator
    BY <2>1, ReadIsSo DEF GoodWork
  <2>3. work'.tasks[row.parent] = work.tasks[row.parent]
    BY <1>2, <1>3, <2>2 DEF Work
  <2> QED
    BY <1>6, <2>2, <2>3 DEF Row
<1>8. row.project # None => /\ w.projects[row.project] = work'.projects[row.project]
                            /\ work'.projects[row.project] # NoProject
  BY <1>1, <1>3, <1>6, ReadProject
<1>9. ASSUME NEW e \in users
      PROVE  /\ e[2] \in Items(work')
             /\ \/ Reads(work', e[1], e[2])
                \/ role[e[1]] = "CALLCENTER" /\ Row(work', e[2]).project # None
  <2>1. e[2] = t /\ e[1] \in Users /\ Audience(w, w.tasks, t, e[1])
    BY DEF Logged, Candidates
  <2>2. Row(w, t) = row /\ w.tasks[t].project = row.project
    BY <1>5, <1>6 DEF Row
  <2> HIDE DEF w
  <2>3. Reads(work', e[1], t) \/ (role[e[1]] = "CALLCENTER" /\ Row(work', t).project # None)
    <3> DEFINE now == work'
               asked == w.tasks
               v == e[1]
    <3>1. t \in Items(now) /\ v \in Users /\ Audience(w, asked, t, v)
      BY <1>5, <2>1
    <3>2. asked[t].project = Row(now, t).project
      BY <1>5, <2>2
    <3>3. Row(w, t) = Row(now, t)
      BY <1>5, <2>2
    <3>4. Row(now, t).parent # None =>
             /\ Row(w, Row(now, t).parent).assignee = Row(now, Row(now, t).parent).assignee
             /\ Row(w, Row(now, t).parent).creator = Row(now, Row(now, t).parent).creator
      BY <1>5, <1>7
    <3>5. Row(now, t).project # None =>
             /\ w.projects[Row(now, t).project] = now.projects[Row(now, t).project]
             /\ now.projects[Row(now, t).project] # NoProject
      BY <1>5, <1>8
    <3> HIDE DEF now, asked, v
    <3>6. Reads(now, v, t) \/ (role[v] = "CALLCENTER" /\ Row(now, t).project # None)
      BY <3>1, <3>2, <3>3, <3>4, <3>5, AudienceReads
    <3> QED
      BY <3>6 DEF now, v
  <2> QED
    BY <1>5, <2>1, <2>3
<1>10. ToldIsFiltered'
  BY <1>3, <1>9 DEF ToldIsFiltered
<1> QED
  BY <1>4, <1>10

\* ... of the item itself.
LEMMA MutationFilters ==
    ASSUME WorkAssumption, GoodWork, GoodWork', ProjectsInv, NEW r \in Requests, Acts(r),
           NEW t \in Items(Seen(r)), NEW row, "parent" \in DOMAIN row,
           row.project = Row(Seen(r), t).project, row.parent = Row(Seen(r), t).parent,
           \/ Writes(r, t, Watched(t, row)) \/ Mutate(r, t, row) \/ MutateQuietly(r, t, row)
    PROVE  ProjectsInv' /\ ToldIsFiltered'
<1> DEFINE new == Watched(t, row)
<1>1. new.project = row.project /\ new.parent = row.parent /\ "parent" \in DOMAIN new
  BY DEF Watched
<1>2. new # Absent
  BY <1>1 DEF Absent
<1>3. PICK users \in SUBSET Logged(r, t, new) :
        Commit(r, [work.tasks EXCEPT ![t] = new], work.blockers, work.projects, users)
  BY DEF Writes, Mutate, MutateQuietly
<1> HIDE DEF new
<1> QED
  BY <1>1, <1>2, <1>3, RowFilters

LEMMA RequestFilters ==
    ASSUME WorkAssumption, GoodWork, GoodWork', ProjectsInv, NEW r \in Requests,
           update(r) \/ archive(r) \/ comment(r) \/ time(r) \/ checklist(r) \/ upload(r)
    PROVE  ProjectsInv' /\ ToldIsFiltered'
<1>1. Acts(r)
  BY DEF update, archive, comment, time, checklist, upload
<1>2. \A t \in Readable(r) : t \in Items(Seen(r)) /\ Row(Seen(r), t) \in Task
  BY <1>1, ReadIsSo DEF Readable, GoodWork
<1>3. ASSUME NEW t \in Readable(r), NEW row, "parent" \in DOMAIN row,
             row.project = Row(Seen(r), t).project, row.parent = Row(Seen(r), t).parent,
             \/ Writes(r, t, Watched(t, row)) \/ Mutate(r, t, row) \/ MutateQuietly(r, t, row)
      PROVE  ProjectsInv' /\ ToldIsFiltered'
  BY <1>1, <1>2, <1>3, MutationFilters
<1>4. CASE update(r)
  <2>1. PICK t \in Readable(r), status \in Statuses, u \in Users \cup {None} :
          Mutate(r, t, [Row(Seen(r), t) EXCEPT !.status = status, !.assignee = u])
    BY <1>4 DEF update
  <2> DEFINE row == [Row(Seen(r), t) EXCEPT !.status = status, !.assignee = u]
  <2>2. /\ "parent" \in DOMAIN row /\ row.project = Row(Seen(r), t).project
        /\ row.parent = Row(Seen(r), t).parent
    BY <1>2 DEF Task
  <2> QED
    BY <1>3, <2>1, <2>2
<1>5. CASE archive(r)
  <2>1. PICK t \in Readable(r), archived \in BOOLEAN :
          Writes(r, t, Watched(t, [Row(Seen(r), t) EXCEPT !.archived = archived]))
    BY <1>5 DEF archive
  <2> DEFINE row == [Row(Seen(r), t) EXCEPT !.archived = archived]
  <2>2. /\ "parent" \in DOMAIN row /\ row.project = Row(Seen(r), t).project
        /\ row.parent = Row(Seen(r), t).parent
    BY <1>2 DEF Task
  <2> QED
    BY <1>3, <2>1, <2>2
<1>6. CASE comment(r) \/ time(r)
  <2>1. PICK t \in Readable(r) : \/ Mutate(r, t, Row(Seen(r), t))
                                 \/ MutateQuietly(r, t, Row(Seen(r), t))
    BY <1>6 DEF comment, time
  <2>2. "parent" \in DOMAIN Row(Seen(r), t)
    BY <1>2 DEF Task
  <2> QED
    BY <1>3, <2>1, <2>2
<1>7. CASE checklist(r)
  <2>1. PICK t \in Readable(r) : \E checks :
          MutateQuietly(r, t, [Row(Seen(r), t) EXCEPT !.checks = checks])
    BY <1>7 DEF checklist
  <2>3. PICK checks : MutateQuietly(r, t, [Row(Seen(r), t) EXCEPT !.checks = checks])
    BY <2>1
  <2> DEFINE row == [Row(Seen(r), t) EXCEPT !.checks = checks]
  <2>2. /\ "parent" \in DOMAIN row /\ row.project = Row(Seen(r), t).project
        /\ row.parent = Row(Seen(r), t).parent
    BY <1>2 DEF Task
  <2> QED
    BY <1>3, <2>2, <2>3
<1>8. CASE upload(r)
  <2>1. PICK t \in Readable(r) :
          Mutate(r, t, [Row(Seen(r), t) EXCEPT !.files = Row(Seen(r), t).files + 1])
    BY <1>8 DEF upload
  <2> DEFINE row == [Row(Seen(r), t) EXCEPT !.files = Row(Seen(r), t).files + 1]
  <2>2. /\ "parent" \in DOMAIN row /\ row.project = Row(Seen(r), t).project
        /\ row.parent = Row(Seen(r), t).parent
    BY <1>2 DEF Task
  <2> QED
    BY <1>3, <2>1, <2>2
<1> QED
  BY <1>4, <1>5, <1>6, <1>7, <1>8

\* A dependency, or a part that goes.
LEMMA RelationFilters ==
    ASSUME WorkAssumption, GoodWork, GoodWork', ProjectsInv, NEW r \in Requests,
           dependency(r) \/ removePart(r)
    PROVE  ProjectsInv' /\ ToldIsFiltered'
<1>1. Acts(r)
  BY DEF dependency, removePart
<1>2. \A t \in Readable(r) : /\ t \in Items(Seen(r)) /\ Row(Seen(r), t) \in Task
                             /\ work.tasks[t] = Watched(t, Row(Seen(r), t))
  BY <1>1, ReadIsSo DEF Readable, GoodWork, WorkInv, SeenIsPresent, Row, Active, Acts
<1>3. work \in Work
  BY DEF GoodWork, WorkInv, TypeOK
\* The rows stay as they are.
<1>4. ASSUME NEW t \in Readable(r), NEW blockers,
             NEW users \in SUBSET Logged(r, t, Watched(t, Row(Seen(r), t))),
             Commit(r, work.tasks, blockers, work.projects, users)
      PROVE  ProjectsInv' /\ ToldIsFiltered'
  <2> DEFINE row == Watched(t, Row(Seen(r), t))
  <2>1. [work.tasks EXCEPT ![t] = row] = work.tasks
    BY <1>2, <1>3 DEF Work
  <2>2. row.project = Row(Seen(r), t).project /\ row.parent = Row(Seen(r), t).parent
    BY <1>2 DEF Watched, Task
  <2>3. "parent" \in DOMAIN row /\ row # Absent
    BY <1>2 DEF Watched, Task, Absent
  <2>4. Commit(r, [work.tasks EXCEPT ![t] = row], blockers, work.projects, users)
    BY <1>4, <2>1
  <2> HIDE DEF row
  <2>5. users \in SUBSET Logged(r, t, row)
    BY DEF row
  <2> QED
    BY <1>1, <1>2, <2>2, <2>3, <2>4, <2>5, RowFilters
<1>5. CASE dependency(r)
  BY <1>4, <1>5 DEF dependency
<1>6. CASE removePart(r)
  <2>1. PICK t \in Readable(r) :
          LET row == Row(Seen(r), t)
          IN  \/ \E b \in Blockers(Seen(r), t) :
                   Commit(r, work.tasks, work.blockers \ {<<t, b>>}, work.projects, {})
              \/ MutateQuietly(r, t, [row EXCEPT !.checks.open = row.checks.open - 1])
              \/ MutateQuietly(r, t, [row EXCEPT !.checks.done = row.checks.done - 1])
              \/ MutateQuietly(r, t, [row EXCEPT !.files = row.files - 1])
    BY <1>6 DEF removePart
  <2> DEFINE row == Row(Seen(r), t)
  <2>2. ASSUME NEW new, "parent" \in DOMAIN new, new.project = row.project, new.parent = row.parent,
               MutateQuietly(r, t, new)
        PROVE  ProjectsInv' /\ ToldIsFiltered'
    BY <1>1, <1>2, <2>2, MutationFilters
  <2>3. CASE MutateQuietly(r, t, [row EXCEPT !.checks.open = row.checks.open - 1])
    <3> DEFINE new == [row EXCEPT !.checks.open = row.checks.open - 1]
    <3>1. "parent" \in DOMAIN new /\ new.project = row.project /\ new.parent = row.parent
      BY <1>2 DEF Task
    <3> QED
      BY <2>2, <2>3, <3>1
  <2>4. CASE MutateQuietly(r, t, [row EXCEPT !.checks.done = row.checks.done - 1])
    <3> DEFINE new == [row EXCEPT !.checks.done = row.checks.done - 1]
    <3>1. "parent" \in DOMAIN new /\ new.project = row.project /\ new.parent = row.parent
      BY <1>2 DEF Task
    <3> QED
      BY <2>2, <2>4, <3>1
  <2>5. CASE MutateQuietly(r, t, [row EXCEPT !.files = row.files - 1])
    <3> DEFINE new == [row EXCEPT !.files = row.files - 1]
    <3>1. "parent" \in DOMAIN new /\ new.project = row.project /\ new.parent = row.parent
      BY <1>2 DEF Task
    <3> QED
      BY <2>2, <2>5, <3>1
  <2>6. CASE \E b \in Blockers(Seen(r), t) :
               Commit(r, work.tasks, work.blockers \ {<<t, b>>}, work.projects, {})
    BY <1>4, <2>6
  <2> QED
    BY <2>1, <2>3, <2>4, <2>5, <2>6
<1> QED
  BY <1>5, <1>6

\* A new item: of a project that has been read.
LEMMA CreateFilters ==
    ASSUME WorkAssumption, GoodWork, GoodWork', ProjectsInv, NEW r \in Requests, create(r)
    PROVE  ProjectsInv' /\ ToldIsFiltered'
<1>1. PICK t \in Tasks, parent \in Readable(r) \cup {None}, u \in Users \cup {None},
           status \in Statuses :
        LET row == [project |-> calls[r].key, parent |-> parent, status |-> status,
                    assignee |-> u, creator |-> Actor(r), archived |-> FALSE,
                    checks |-> [open |-> 0, done |-> 0], files |-> 0, watchers |-> {}]
        IN  /\ work.tasks[t] = Absent
            /\ Commit(r, [work.tasks EXCEPT ![t] = row], work.blockers, work.projects,
                      Logged(r, t, row))
  BY DEF create, Writes
<1> DEFINE key == calls[r].key
           row == [project |-> key, parent |-> parent, status |-> status,
                   assignee |-> u, creator |-> Actor(r), archived |-> FALSE,
                   checks |-> [open |-> 0, done |-> 0], files |-> 0, watchers |-> {}]
           w   == [Seen(r) EXCEPT !.tasks[t] = row]
           tasks == [work.tasks EXCEPT ![t] = row]
<1>2. /\ Acts(r) /\ r \in Active /\ work \in Work /\ Seen(r) \in Work
      /\ key # None => Seen(r).projects[key] # NoProject
  BY CallIsTyped DEF create, ReadsProject, GoodWork, WorkInv, TypeOK
<1>3. /\ Commit(r, tasks, work.blockers, work.projects, Logged(r, t, row))
      /\ work.tasks[t] = Absent
      /\ row.project = key /\ row.parent = parent /\ "parent" \in DOMAIN row
  BY <1>1
<1>4. parent # None =>
        /\ parent \in Tasks /\ parent # t
        /\ Row(work, parent).assignee = Row(Seen(r), parent).assignee
        /\ Row(work, parent).creator = Row(Seen(r), parent).creator
  BY <1>2, <1>3, ReadIsSo DEF Readable, GoodWork, Items
<1>5. /\ w.tasks[t] = row /\ w.projects = Seen(r).projects
      /\ \A v \in Tasks \ {t} : w.tasks[v] = Seen(r).tasks[v]
  BY <1>2 DEF Work
<1>6. row # Absent
  BY <1>3 DEF Absent
<1> HIDE DEF row
<1>7. /\ work'.tasks[t] = row /\ \A v \in Tasks \ {t} : work'.tasks[v] = work.tasks[v]
      /\ work'.projects = work.projects /\ told' = Logged(r, t, row)
  BY <1>2, <1>3 DEF Commit, Work
<1>8. key # None => /\ Seen(r).projects[key] = work.projects[key]
                    /\ work.projects[key] # NoProject
  BY <1>2 DEF ProjectsInv
<1>9. ProjectsInv'
  <2>1. \A v \in Tasks : tasks[v] # Absent =>
           \/ v \in Items(work) /\ tasks[v].project = work.tasks[v].project
           \/ /\ tasks[v].project = key
              /\ key # None => work.projects[key] # NoProject
    BY <1>2, <1>3, <1>8 DEF Items, Work
  <2> HIDE DEF tasks
  <2> QED
    BY <1>2, <1>3, <2>1, ProjectsKeep
<1>10. t \in Items(work') /\ Row(work', t) = row /\ Row(w, t) = row
  BY <1>5, <1>6, <1>7 DEF Items, Row
<1>11. parent # None =>
        /\ Row(w, parent).assignee = Row(work', parent).assignee
        /\ Row(w, parent).creator = Row(work', parent).creator
  BY <1>4, <1>5, <1>7 DEF Row
<1>12. ASSUME NEW e \in told'
       PROVE  /\ e[2] \in Items(work')
              /\ \/ Reads(work', e[1], e[2])
                 \/ role[e[1]] = "CALLCENTER" /\ Row(work', e[2]).project # None
  <2>1. e[2] = t /\ e[1] \in Users /\ Audience(w, w.tasks, t, e[1])
    BY <1>7 DEF Logged, Candidates
  <2>2. key # None => /\ w.projects[key] = work'.projects[key]
                      /\ work'.projects[key] # NoProject
    BY <1>5, <1>7, <1>8
  <2> HIDE DEF w
  <2>3. w.tasks[t].project = row.project
    BY <1>10 DEF Row
  <2>4. Reads(work', e[1], t) \/ (role[e[1]] = "CALLCENTER" /\ Row(work', t).project # None)
    <3> DEFINE now == work'
               asked == w.tasks
               v == e[1]
    <3>1. t \in Items(now) /\ v \in Users /\ Audience(w, asked, t, v)
      BY <1>10, <2>1
    <3>2. asked[t].project = Row(now, t).project
      BY <1>10, <2>3
    <3>3. Row(w, t) = Row(now, t)
      BY <1>10
    <3>4. Row(now, t).parent # None =>
             /\ Row(w, Row(now, t).parent).assignee = Row(now, Row(now, t).parent).assignee
             /\ Row(w, Row(now, t).parent).creator = Row(now, Row(now, t).parent).creator
      BY <1>3, <1>10, <1>11
    <3>5. Row(now, t).project # None =>
             /\ w.projects[Row(now, t).project] = now.projects[Row(now, t).project]
             /\ now.projects[Row(now, t).project] # NoProject
      BY <1>3, <1>10, <2>2
    <3> HIDE DEF now, asked, v
    <3>6. Reads(now, v, t) \/ (role[v] = "CALLCENTER" /\ Row(now, t).project # None)
      BY <3>1, <3>2, <3>3, <3>4, <3>5, AudienceReads
    <3> QED
      BY <3>6 DEF now, v
  <2> QED
    BY <1>10, <2>1, <2>4
<1> QED
  BY <1>9, <1>12 DEF ToldIsFiltered

\* Several items: those who are told are looked for in the rows of before.
LEMMA BulkFilters ==
    ASSUME WorkAssumption, GoodWork, GoodWork', ProjectsInv, NEW r \in Requests, bulk(r)
    PROVE  ProjectsInv' /\ ToldIsFiltered'
<1>1. PICK ids \in SUBSET Readable(r), status \in Statuses \cup {None}, u \in Users \cup {None, "same"} :
        LET after == [t \in Tasks |-> IF t \in ids THEN Watched(t, After(r, t, status, u))
                                      ELSE Row(Seen(r), t)]
            now   == [Seen(r) EXCEPT !.tasks = after]
        IN  Commit(r, [t \in Tasks |-> IF t \in ids THEN after[t] ELSE work.tasks[t]],
                   work.blockers, work.projects,
                   {e \in Users \X ids : /\ e[1] \in Candidates(after[e[2]], Actor(r))
                                         /\ Audience(now, Seen(r).tasks, e[2], e[1])})
  BY DEF bulk, After
<1> DEFINE after == [t \in Tasks |-> IF t \in ids THEN Watched(t, After(r, t, status, u))
                                     ELSE Row(Seen(r), t)]
           w == [Seen(r) EXCEPT !.tasks = after]
           tasks == [t \in Tasks |-> IF t \in ids THEN after[t] ELSE work.tasks[t]]
           users == {e \in Users \X ids : /\ e[1] \in Candidates(after[e[2]], Actor(r))
                                          /\ Audience(w, Seen(r).tasks, e[2], e[1])}
<1>2. /\ Acts(r) /\ work \in Work /\ Seen(r) \in Work
      /\ \A t \in ids : t \in Items(Seen(r))
  BY CallIsTyped DEF bulk, GoodWork, WorkInv, TypeOK, Readable
<1>3. Commit(r, tasks, work.blockers, work.projects, users)
  BY <1>1
<1>4. \A t \in ids : /\ t \in Tasks /\ t \in Items(work) /\ Row(work, t).project = calls[r].key
                     /\ Row(Seen(r), t).project = calls[r].key
                     /\ Row(Seen(r), t).parent = Row(work, t).parent
  BY <1>2, ReadIsSo DEF GoodWork
<1>5. \A t \in ids : /\ after[t] = Watched(t, After(r, t, status, u))
                     /\ after[t] \in Task
                     /\ after[t].project = Row(Seen(r), t).project
                     /\ after[t].parent = Row(Seen(r), t).parent
  BY <1>2, <1>4, AfterIsTask, WatchedIsTask DEF GoodWork, WorkInv
<1>6. /\ w.projects = Seen(r).projects
      /\ \A t \in Tasks : Row(w, t) = after[t]
      /\ \A t \in Tasks \ ids : after[t] = Row(Seen(r), t)
  BY <1>2 DEF Work, Row
<1> HIDE DEF after
<1>7. /\ \A t \in ids : tasks[t] = after[t] /\ tasks[t] # Absent
      /\ \A t \in Tasks \ ids : tasks[t] = work.tasks[t]
  BY <1>4, <1>5, RowIsPresent
<1> HIDE DEF w, tasks
<1>8. work'.tasks = tasks /\ work'.projects = work.projects /\ told' = users
  BY <1>3 DEF Commit
<1>9. ProjectsInv'
  <2>1. \A t \in Tasks : tasks[t] # Absent =>
           t \in Items(work) /\ tasks[t].project = work.tasks[t].project
    BY <1>4, <1>5, <1>7 DEF Items, Row
  <2> HIDE DEF users
  <2> QED
    BY <1>2, <1>3, <2>1, ProjectsKeep
<1>10. ASSUME NEW e \in users
       PROVE  /\ e[2] \in Items(work')
              /\ \/ Reads(work', e[1], e[2])
                 \/ role[e[1]] = "CALLCENTER" /\ Row(work', e[2]).project # None
  <2> DEFINE now == work'
             asked == Seen(r).tasks
             v == e[1]
             t == e[2]
             row == after[t]
  <2>1. v \in Users /\ t \in ids /\ Audience(w, asked, t, v)
    OBVIOUS
  <2>2. t \in Items(now) /\ Row(now, t) = row /\ Row(w, t) = row
    BY <1>4, <1>6, <1>7, <1>8, <2>1 DEF Items, Row
  <2>3. asked[t].project = row.project
    BY <1>5, <2>1 DEF Row
  <2>4. row.parent # None =>
          /\ Row(w, row.parent).assignee = Row(now, row.parent).assignee
          /\ Row(w, row.parent).creator = Row(now, row.parent).creator
    <3> DEFINE p == row.parent
    <3> SUFFICES ASSUME p # None
                 PROVE  /\ Row(w, p).assignee = Row(now, p).assignee
                        /\ Row(w, p).creator = Row(now, p).creator
      OBVIOUS
    <3>1. p = Row(work, t).parent
      BY <1>4, <1>5, <2>1
    <3> HIDE DEF p
    <3>2. p \in Items(Seen(r))
      BY <1>2, <2>1, <3>1, ReadRelations DEF GoodWork
    <3>3. /\ p \in Tasks
          /\ Row(work, p).assignee = Row(Seen(r), p).assignee
          /\ Row(work, p).creator = Row(Seen(r), p).creator
      BY <1>2, <3>2, ReadIsSo DEF GoodWork
    <3> QED
      BY <1>6, <1>7, <1>8, <3>3 DEF Row
  <2>5. row.project # None => /\ w.projects[row.project] = now.projects[row.project]
                              /\ now.projects[row.project] # NoProject
    BY <1>2, <1>4, <1>5, <1>6, <1>8, <2>1, ReadProject
  <2> HIDE DEF now, asked, v, t, row
  <2>6. /\ asked[t].project = Row(now, t).project /\ Row(w, t) = Row(now, t)
        /\ Row(now, t).parent # None =>
             /\ Row(w, Row(now, t).parent).assignee = Row(now, Row(now, t).parent).assignee
             /\ Row(w, Row(now, t).parent).creator = Row(now, Row(now, t).parent).creator
        /\ Row(now, t).project # None =>
             /\ w.projects[Row(now, t).project] = now.projects[Row(now, t).project]
             /\ now.projects[Row(now, t).project] # NoProject
    BY <2>2, <2>3, <2>4, <2>5
  <2>7. Reads(now, v, t) \/ (role[v] = "CALLCENTER" /\ Row(now, t).project # None)
    BY <2>1, <2>2, <2>6, AudienceReads
  <2> QED
    BY <2>2, <2>7 DEF now, v, t
<1> QED
  BY <1>8, <1>9, <1>10 DEF ToldIsFiltered

\* A project is saved by whoever has its lock, and has read it.
LEMMA ProjectFilters ==
    ASSUME WorkAssumption, GoodWork, ProjectsInv, NEW r \in Requests,
           updateProject(r) \/ archiveProject(r) \/ Rollback(r)
    PROVE  ProjectsInv' /\ ToldIsFiltered'
<1> DEFINE key == calls[r].key
<1>1. Acts(r) /\ r \in Active
  BY DEF updateProject, archiveProject, ManagesProject, Rollback, Active, Acts
<1>2. CASE Rollback(r)
  <2>1. Commit(r, work.tasks, work.blockers, work.projects, {})
    BY <1>2 DEF Rollback
  <2>2. told' = {}
    BY <2>1 DEF Commit
  <2> QED
    BY <1>1, <2>1, <2>2, ProjectsKeep, SilenceIsFiltered DEF Items
<1>3. CASE updateProject(r) \/ archiveProject(r)
  <2>1. /\ key \in Projects
        /\ Seen(r).projects[key] \in Project
    <3>1. /\ key \in Projects /\ Seen(r).projects[key] \in Project \cup {NoProject}
      BY <1>1, <1>3, CallIsTyped
      DEF updateProject, archiveProject, ManagesProject, GoodWork, WorkInv, Work
    <3> QED
      BY <1>3, <3>1 DEF updateProject, archiveProject, ManagesProject, ReadsProject
  <2>2. PICK project \in Project : SavesProject(r, project)
    <3>1. CASE updateProject(r)
      <4>1. PICK member \in Members :
              SavesProject(r, [Seen(r).projects[key] EXCEPT !.member = member])
        BY <3>1 DEF updateProject
      <4>2. [Seen(r).projects[key] EXCEPT !.member = member] \in Project
        BY <2>1 DEF Project, Members
      <4> QED
        BY <4>1, <4>2
    <3>2. CASE archiveProject(r)
      <4>1. PICK archived \in BOOLEAN :
              SavesProject(r, [Seen(r).projects[key] EXCEPT !.archived = archived])
        BY <3>2 DEF archiveProject
      <4>2. [Seen(r).projects[key] EXCEPT !.archived = archived] \in Project
        BY <2>1 DEF Project
      <4> QED
        BY <4>1, <4>2
    <3> QED
      BY <1>3, <3>1, <3>2
  <2>3. /\ work'.tasks = work.tasks
        /\ work'.projects = [work.projects EXCEPT ![key] = project]
        /\ calls' = [calls EXCEPT ![r] = Idle]
        /\ told' = {}
    BY <2>2 DEF SavesProject, Commit
  <2>4. project # NoProject
    BY ProjectIsPresent
  <2>5. \A t \in Items(work') :
           Row(work', t).project # None => work'.projects[Row(work', t).project] # NoProject
    BY <2>3, <2>4 DEF Items, Row, ProjectsInv, GoodWork, WorkInv, TypeOK, Work
  <2>6. \A s \in Active' : /\ s \in Active /\ calls'[s] = calls[s] /\ Seen(s)' = Seen(s)
                           /\ calls[s].key # key
    BY <1>1, <2>3 DEF Active, Seen, GoodWork, WorkInv, TypeOK, OneRequestPerKey
  <2>7. \A s \in Active' : Items(Seen(s))' = Items(Seen(s))
    BY <2>6 DEF Items
  <2>8. \A s \in Active' : work'.projects[calls[s].key] = work.projects[calls[s].key]
    BY <2>3, <2>6 DEF GoodWork, WorkInv, TypeOK, Work
  <2>9. \A s \in Active' :
          calls'[s].key # None =>
            \/ Seen(s)'.projects[calls'[s].key] = work'.projects[calls'[s].key]
            \/ /\ Seen(s)'.projects[calls'[s].key] = NoProject
               /\ Items(Seen(s))' = {}
    BY <2>6, <2>7, <2>8 DEF ProjectsInv
  <2> QED
    BY <2>3, <2>5, <2>9, SilenceIsFiltered DEF ProjectsInv
<1> QED
  BY <1>2, <1>3 DEF updateProject, archiveProject, Rollback

\* Outside the transactions.
LEMMA OthersFilter ==
    ASSUME WorkAssumption, GoodWork, ProjectsInv,
           \/ \E r \in Requests, u \in Users, key \in Projects \cup {None} : Lock(r, u, key)
           \/ \E u \in Users : createProject(u)
           \/ \E u \in Followers : watch(u)
    PROVE  ProjectsInv' /\ ToldIsFiltered'
<1>1. told' = {}
  BY DEF Lock, Start, createProject, watch
<1>2. work \in Work
  BY DEF GoodWork, WorkInv, TypeOK
<1>3. ASSUME NEW r \in Requests, NEW u \in Users, NEW key \in Projects \cup {None}, Lock(r, u, key)
      PROVE  ProjectsInv'
  <2> DEFINE call == [user |-> u, key |-> key, read |-> View(key)]
  <2>1. work' = work /\ calls' = [calls EXCEPT ![r] = call]
    BY <1>3 DEF Lock, Start
  <2>2. \A s \in Active' : s # r => s \in Active /\ calls'[s] = calls[s]
    BY <2>1 DEF Active, GoodWork, WorkInv, TypeOK
  <2>3. calls'[r] = call
    BY <2>1 DEF GoodWork, WorkInv, TypeOK
  <2>4. key \in Projects => View(key).projects[key] = work.projects[key]
    BY DEF View
  <2>5. \A s \in Active' :
          calls'[s].key # None =>
            \/ calls'[s].read.projects[calls'[s].key] = work'.projects[calls'[s].key]
            \/ /\ calls'[s].read.projects[calls'[s].key] = NoProject
               /\ Items(calls'[s].read) = {}
    <3>1. call.key = key /\ call.read = View(key)
      OBVIOUS
    <3> HIDE DEF call
    <3> SUFFICES ASSUME NEW s \in Active', calls'[s].key # None
                 PROVE  \/ calls'[s].read.projects[calls'[s].key] = work'.projects[calls'[s].key]
                        \/ /\ calls'[s].read.projects[calls'[s].key] = NoProject
                           /\ Items(calls'[s].read) = {}
      OBVIOUS
    <3>2. CASE s = r
      BY <2>1, <2>3, <2>4, <3>1, <3>2
    <3>3. CASE s # r
      BY <2>1, <2>2, <3>3 DEF ProjectsInv, Seen
    <3> QED
      BY <3>2, <3>3
  <2> QED
    BY <2>1, <2>5 DEF ProjectsInv, Seen, Items, Row
<1>4. ASSUME NEW u \in Users, createProject(u) PROVE ProjectsInv'
  <2>1. PICK p \in Projects, member \in Members :
          /\ work.projects[p] = NoProject
          /\ work' = [work EXCEPT !.projects[p] = [owner |-> u, member |-> member, archived |-> FALSE]]
          /\ calls' = calls
    BY <1>4 DEF createProject
  <2> DEFINE project == [owner |-> u, member |-> member, archived |-> FALSE]
  <2>2. project \in Project /\ project # NoProject
    BY ProjectIsPresent DEF Project, Members
  <2>3. /\ work'.tasks = work.tasks
        /\ work'.projects = [work.projects EXCEPT ![p] = project]
    BY <1>2, <2>1 DEF Work
  <2> HIDE DEF project
  <2>4. \A t \in Items(work') :
           Row(work', t).project # None => work'.projects[Row(work', t).project] # NoProject
    BY <1>2, <2>2, <2>3 DEF Items, Row, ProjectsInv, Work
  <2>5. Active' = Active /\ \A s \in Active : Seen(s)' = Seen(s) /\ calls'[s] = calls[s]
    BY <2>1 DEF Active, Seen
\* Nobody who has read the items of the project has read that it did not exist.
  <2>6. ASSUME NEW s \in Active, calls[s].key # None
        PROVE  \/ Seen(s).projects[calls[s].key] = work'.projects[calls[s].key]
               \/ Seen(s).projects[calls[s].key] = NoProject /\ Items(Seen(s)) = {}
    <3>1. CASE calls[s].key # p
      <4>1. work'.projects[calls[s].key] = work.projects[calls[s].key]
        BY <1>2, <2>3, <3>1 DEF Work
      <4> QED
        BY <2>6, <4>1 DEF ProjectsInv
    <3>2. CASE calls[s].key = p
      <4>1. Seen(s).projects[p] = NoProject
        BY <2>1, <2>6, <3>2 DEF ProjectsInv
      <4>2. Items(Seen(s)) = {t \in Items(work) : work.tasks[t].project = p}
        BY <2>6, <3>2 DEF GoodWork, WorkInv, SeenIsPresent, Keyed
      <4>3. Items(Seen(s)) = {}
        BY <2>1, <2>6, <3>2, <4>2 DEF ProjectsInv, Row
      <4> QED
        BY <3>2, <4>1, <4>3
    <3> QED
      BY <3>1, <3>2
  <2> QED
    BY <2>4, <2>5, <2>6 DEF ProjectsInv, Items
<1>5. ASSUME NEW u \in Followers, watch(u) PROVE ProjectsInv'
  <2>1. PICK t \in Items(work) : \E watchers :
          work' = [work EXCEPT !.tasks[t].watchers = watchers] /\ calls' = calls
    BY <1>5 DEF watch
  <2>2. PICK watchers : work' = [work EXCEPT !.tasks[t].watchers = watchers]
    BY <2>1
  <2>3. t \in Tasks /\ work.tasks[t] \in Task
    BY <1>2, ItemIsTask
  <2>4. /\ work'.projects = work.projects
        /\ Items(work') = Items(work)
        /\ \A v \in Items(work) : Row(work', v).project = Row(work, v).project
    <3> DEFINE row == [work.tasks[t] EXCEPT !.watchers = watchers]
    <3>1. work'.projects = work.projects /\ work'.tasks = [work.tasks EXCEPT ![t] = row]
      BY <1>2, <2>2, <2>3 DEF Work
    <3>2. "parent" \in DOMAIN row /\ row.project = work.tasks[t].project
      BY <2>3 DEF Task
    <3>3. row # Absent
      BY <3>2 DEF Absent
    <3> HIDE DEF row
    <3> QED
      BY <1>2, <3>1, <3>2, <3>3 DEF Items, Row, Work
  <2>5. Active' = Active /\ \A s \in Active : Seen(s)' = Seen(s) /\ calls'[s] = calls[s]
    BY <2>1 DEF Active, Seen
  <2> QED
    BY <2>4, <2>5 DEF ProjectsInv, Items
<1> QED
  BY <1>1, <1>3, <1>4, <1>5, SilenceIsFiltered

LEMMA InitFilters == WorkAssumption /\ Init => FilterInv
<1> SUFFICES ASSUME WorkAssumption, Init PROVE FilterInv
  OBVIOUS
<1>1. GoodWork
  BY InitGood
<1>2. Items(work) = {} /\ Active = {} /\ told = {}
  BY DEF Init, Items, Active
<1> QED
  BY <1>1, <1>2 DEF FilterInv, ProjectsInv, ToldIsFiltered

LEMMA NextFilters ==
    ASSUME WorkAssumption, FilterInv, [Next]_vars
    PROVE  FilterInv'
<1>1. GoodWork /\ GoodWork' /\ ProjectsInv
  BY NextKeeps DEF FilterInv
<1>2. CASE UNCHANGED vars
  BY <1>1, <1>2 DEF FilterInv, vars, ProjectsInv, ToldIsFiltered, Items, Row, Active, Seen,
                    Reads, ReadsProject, Member, Concerned
<1>3. ASSUME NEW r \in Requests,
             \/ updateProject(r) \/ archiveProject(r)
             \/ create(r) \/ update(r) \/ archive(r) \/ bulk(r)
             \/ comment(r) \/ time(r) \/ checklist(r) \/ dependency(r)
             \/ upload(r) \/ removePart(r) \/ Rollback(r)
      PROVE  FilterInv'
  BY <1>1, <1>3, RequestFilters, RelationFilters, CreateFilters, BulkFilters, ProjectFilters
  DEF FilterInv
<1>4. CASE \/ \E r \in Requests, u \in Users, key \in Projects \cup {None} : Lock(r, u, key)
           \/ \E u \in Users : createProject(u)
           \/ \E u \in Followers : watch(u)
  BY <1>1, <1>4, OthersFilter DEF FilterInv
<1> QED
  BY <1>2, <1>3, <1>4 DEF Next

\* Whoever is told of an item may read it when the transaction commits, whatever other
\* transactions do; only a user who reads just what is assigned to him may have lost it
\* (TasksService.log, notificationAudience, accessWhere).
THEOREM NotificationsAreFiltered ==
    ASSUME WorkAssumption
    PROVE  Spec => []ToldIsFiltered
<1>1. Init => FilterInv
  BY InitFilters
<1>2. FilterInv /\ [Next]_vars => FilterInv'
  BY NextFilters
<1>3. FilterInv => ToldIsFiltered
  BY DEF FilterInv
<1> QED
  BY <1>1, <1>2, <1>3, PTL DEF Spec
=============================================================================

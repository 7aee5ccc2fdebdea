---------------------------- MODULE Notifications ----------------------------
(***************************************************************************)
(* The notifications of users (NotificationsService) and the number of     *)
(* unread ones that NotificationsGateway sends to their browsers.          *)
(*                                                                         *)
(* Every request that changes notifications then counts the unread ones    *)
(* and emits the number: the change, the count and the emission are three  *)
(* steps, between which other requests run.  A browser that connects asks  *)
(* for the number (GET unread-count), which is a count and an answer.      *)
(*                                                                         *)
(* Left out: texts and links, and the events notification:new, :read and   *)
(* :deleted, which carry no number.                                        *)
(***************************************************************************)
EXTENDS FiniteSets, Naturals

CONSTANTS Notes,  \* ids of Notification rows
          Users,
          Pushes, \* counts under way, each reused when it has been emitted
          None

NotificationsAssumption == IsFiniteSet(Notes) /\ None \notin Users \cup Nat

VARIABLES notes,   \* Notification, by id
          pushes,  \* counts under way
          badge,   \* the number each user's browser shows, None when not connected
          since,   \* auxiliary, see Observe
          emitted  \* auxiliary, see Observe

vars == <<notes, pushes, badge, since, emitted>>

Notification == [user: Users, isRead: BOOLEAN]
Absent == [user |-> None]

\* Before and after pushUnreadCount's query.
Push == [user: Users, unread: Nat \cup {None}]
Idle == [user |-> None]

TypeOK ==
    /\ notes \in [Notes -> Notification \cup {Absent}]
    /\ pushes \in [Pushes -> Push \cup {Idle}]
    /\ badge \in [Users -> Nat \cup {None}]
    /\ since \in [Users -> SUBSET Nat]
    /\ emitted \in [Users -> BOOLEAN]

Mine(u)   == {n \in Notes : notes[n].user = u}
Unread(u) == Cardinality({n \in Mine(u) : ~notes[n].isRead})
Pushing(u) == \E p \in Pushes : pushes[p].user = u

Init ==
    /\ notes = [n \in Notes |-> Absent]
    /\ pushes = [p \in Pushes |-> Idle]
    /\ badge = [u \in Users |-> None]
    /\ since = [u \in Users |-> {0}]
    /\ emitted = [u \in Users |-> FALSE]

\* since[u]: the numbers of unread notifications u has had since the first of the counts
\* under way, or of the last ones, was started; emitted[u]: one of these has arrived.
Observe ==
    /\ since' = [u \in Users |->
                   IF Pushing(u) THEN since[u] \cup {Unread(u)'}
                   ELSE IF Pushing(u)' \/ Unread(u) # Unread(u)' THEN {Unread(u)'}
                   ELSE since[u]]
    /\ emitted' = [u \in Users |->
                     /\ badge'[u] # None
                     /\ \/ emitted[u] /\ (Pushing(u) \/ ~Pushing(u)')
                        \/ \E p \in Pushes : /\ pushes[p].user = u /\ pushes'[p] = Idle
                                             /\ badge'[u] = pushes[p].unread]

-----------------------------------------------------------------------------
(* The number.                                                             *)

\* pushUnreadCount for each of the users, concurrently.
StartPush(users) ==
    \E slot \in [users -> {p \in Pushes : pushes[p] = Idle}] :
        /\ \A u, v \in users : u # v => slot[u] # slot[v]
        /\ pushes' = [p \in Pushes |-> IF \E u \in users : slot[u] = p
                                       THEN [user |-> CHOOSE u \in users : slot[u] = p,
                                             unread |-> None]
                                       ELSE pushes[p]]

CountUnread(p) ==
    /\ pushes[p] # Idle
    /\ pushes[p].unread = None
    /\ pushes' = [pushes EXCEPT ![p].unread = Unread(pushes[p].user)]
    /\ UNCHANGED <<notes, badge>>
    /\ Observe

\* To the user's room: whoever is not connected misses it.
emitUnreadCount(p) ==
    /\ pushes[p] # Idle
    /\ pushes[p].unread # None
    /\ badge' = [badge EXCEPT ![pushes[p].user] = IF @ = None THEN None ELSE pushes[p].unread]
    /\ pushes' = [pushes EXCEPT ![p] = Idle]
    /\ UNCHANGED notes
    /\ Observe

\* The query fails: the request does too, after its change has been committed.
CountFailed(p) ==
    /\ pushes[p] # Idle
    /\ pushes[p].unread = None
    /\ pushes' = [pushes EXCEPT ![p] = Idle]
    /\ UNCHANGED <<notes, badge>>
    /\ Observe

\* handleConnection, with the page's request for unreadCount.
handleConnection(u) ==
    /\ badge[u] = None
    /\ badge' = [badge EXCEPT ![u] = 0]
    /\ StartPush({u})
    /\ UNCHANGED notes
    /\ Observe

handleDisconnect(u) ==
    /\ badge[u] # None
    /\ badge' = [badge EXCEPT ![u] = None]
    /\ UNCHANGED <<notes, pushes>>
    /\ Observe

-----------------------------------------------------------------------------
(* Requests.                                                               *)

\* The notifications change, and a count is started for the users.
Change(users, after) ==
    /\ notes' = after
    /\ StartPush(users)
    /\ UNCHANGED badge
    /\ Observe

createForUser(u) ==
    \E n \in Notes : /\ notes[n] = Absent
                     /\ Change({u}, [notes EXCEPT ![n] = [user |-> u, isRead |-> FALSE]])

\* In one transaction; nobody is notified twice.
createManyForUsers(users) ==
    \E id \in [users -> {n \in Notes : notes[n] = Absent}] :
        /\ \A u, v \in users : u # v => id[u] # id[v]
        /\ Change(users, [n \in Notes |->
                            IF \E u \in users : id[u] = n
                            THEN [user |-> CHOOSE u \in users : id[u] = n, isRead |-> FALSE]
                            ELSE notes[n]])

\* Faulty variant: the number is not sent.
markReadSilently(u) ==
    \E n \in Mine(u) : /\ notes' = [notes EXCEPT ![n].isRead = TRUE]
                       /\ UNCHANGED <<pushes, badge>>
                       /\ Observe

\* Of a notification that is read already only the number is sent.
markRead(u) ==
    \E n \in Mine(u) : Change({u}, [notes EXCEPT ![n].isRead = TRUE])

markUnread(u) ==
    \E n \in Mine(u) : Change({u}, [notes EXCEPT ![n].isRead = FALSE])

markAllRead(u) ==
    Change({u}, [n \in Notes |-> IF n \in Mine(u) THEN [notes[n] EXCEPT !.isRead = TRUE]
                                 ELSE notes[n]])

remove(u) ==
    \E n \in Mine(u) : Change({u}, [notes EXCEPT ![n] = Absent])

removeAllRead(u) ==
    Change({u}, [n \in Notes |-> IF n \in Mine(u) /\ notes[n].isRead THEN Absent ELSE notes[n]])

Next ==
    \/ \E u \in Users : \/ handleConnection(u) \/ handleDisconnect(u)
                        \/ createForUser(u)
                        \/ markRead(u) \/ markUnread(u) \/ markAllRead(u)
                        \/ remove(u) \/ removeAllRead(u)
    \/ \E users \in SUBSET Users : users # {} /\ createManyForUsers(users)
    \/ \E p \in Pushes : CountUnread(p) \/ emitUnreadCount(p) \/ CountFailed(p)

Spec == Init /\ [][Next]_vars

-----------------------------------------------------------------------------
(* Properties.                                                             *)

\* The number a browser shows, once one has arrived for the last changes, is a number of
\* unread notifications the user has had since the first of them; after a single change
\* it is the present one.  (Of several at once the older number may arrive last.)
BadgeIsRecent ==
    \A u \in Users : badge[u] # None /\ emitted[u] => badge[u] \in since[u]
=============================================================================

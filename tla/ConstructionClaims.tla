-------------------------- MODULE ConstructionClaims --------------------------
(***************************************************************************)
(* The progress claims (hakedis) of one contractor in one project, as      *)
(* ConstructionService edits them.  A claim carries forward what its       *)
(* predecessor had accepted, so a claim is closed as soon as a later       *)
(* period exists: editing it afterwards would falsify what was carried.    *)
(*                                                                         *)
(* Every request is one transaction at READ COMMITTED.  Its statements are *)
(* actions of their own up to the conditional update of the version; from  *)
(* there to the commit the transaction holds the row of the claim and is   *)
(* one action.  Requests of the other contractors and projects touch other *)
(* claims.  Prices, units and measurements travel with the quantities and  *)
(* are left out; the adjustment and the deduction are "adjusted".            *)
(***************************************************************************)
EXTENDS Naturals, FiniteSets

CONSTANTS Requests,   \* requests of administrators, each reused when it has ended
          Claims, NoClaim,
          Lines,      \* work items, by position
          NoLine,
          Numbers,    \* claim numbers
          Rates,      \* tax rates
          PreviousQuantities, AcceptedQuantities, \* quantities a form may contain
          MaxPeriod,  \* bound on the periods
          MaxVersion  \* bound on the version of a claim

ASSUME ClaimsAssumption ==
    /\ NoClaim \notin Claims
    /\ NoLine \notin Lines
    /\ PreviousQuantities \subseteq Nat
    /\ AcceptedQuantities \subseteq Nat
    /\ MaxPeriod \in Nat
    /\ MaxVersion \in Nat

VARIABLES claims,   \* ConstructionClaim with its lines
          requests, \* where each request is, and what it has read
          activity  \* the ConstructionActivity row the last step has written

vars == <<claims, requests, activity>>

Line == [previous: Nat, accepted: Nat]

Terms == [rate: Rates, adjusted: BOOLEAN]

\* What the next period starts from.
Carried(line) == line.previous + line.accepted

\* "opened" is auxiliary: the quantities the claim was created with.  "base" is the
\* claim it was created from.
Document == [period: Nat \ {0}, number: Numbers, version: Nat, terms: Terms,
             lines: [Lines -> Line],
             base: Claims \cup {NoClaim}, opened: [Lines -> Nat]]

Absent    == [period |-> 0]
Exists(c) == claims[c] # Absent
Newer(c)  == \E d \in Claims : Exists(d) /\ claims[d].period > claims[c].period

Operations == {"updateClaimLine", "updateClaim", "createClaim"}
Idle == [op |-> "none"]

\* A request: the claim and line it is about, the version its page had shown, and
\* what it has read so far.
Request == [op: Operations, next: {"parent", "lines", "latest", "write"},
            claim: Claims, line: Lines \cup {NoLine}, seen: Nat,
            read: [Lines -> Line], terms: Terms]

NoActivity == [claim |-> NoClaim, line |-> NoLine]

TypeOK ==
    /\ claims \in [Claims -> Document \cup {Absent}]
    /\ requests \in [Requests -> Request \cup {Idle}]
    /\ activity.claim \in Claims \cup {NoClaim}

\* The import leaves one claim.
Init ==
    /\ \E c \in Claims, number \in Numbers, terms \in Terms,
          lines \in [Lines -> [previous: PreviousQuantities, accepted: AcceptedQuantities]] :
         claims = [d \in Claims |->
                     IF d = c THEN [period |-> 1, number |-> number, version |-> 1,
                                    terms |-> terms, lines |-> lines, base |-> NoClaim,
                                    opened |-> [l \in Lines |-> lines[l].previous]]
                     ELSE Absent]
    /\ requests = [r \in Requests |-> Idle]
    /\ activity = NoActivity

-----------------------------------------------------------------------------
(* The statements that read.  A page can show any version up to the        *)
(* present one.                                                            *)

Continue(r, request) ==
    /\ requests' = [requests EXCEPT ![r] = request]
    /\ activity' = NoActivity
    /\ UNCHANGED claims

\* A conflict, a refusal, a lost right or a failing statement: the transaction is
\* rolled back and the request is over.
Refused(r) ==
    /\ requests[r] # Idle
    /\ Continue(r, Idle)

\* updateClaimLine: the line ...
ReadLine(r) ==
    /\ requests[r] = Idle
    /\ \E c \in Claims, l \in Lines :
         /\ Exists(c)
         /\ \E seen \in 1..claims[c].version :
              Continue(r, [op |-> "updateClaimLine", next |-> "parent", claim |-> c, line |-> l,
                           seen |-> seen, read |-> claims[c].lines, terms |-> claims[c].terms])

\* ... and, in a statement of its own, the claim it belongs to.
ReadParent(r) ==
    /\ requests[r] # Idle
    /\ requests[r].next = "parent"
    /\ claims[requests[r].claim].version = requests[r].seen
    /\ Continue(r, [requests[r] EXCEPT !.next = "latest"])

\* updateClaim does not compare the version here.
ReadClaim(r) ==
    /\ requests[r] = Idle
    /\ \E c \in Claims :
         /\ Exists(c)
         /\ \E seen \in 1..claims[c].version :
              Continue(r, [op |-> "updateClaim", next |-> "latest", claim |-> c, line |-> NoLine,
                           seen |-> seen, read |-> claims[c].lines, terms |-> claims[c].terms])

\* createClaim: the base ...
ReadBase(r) ==
    /\ requests[r] = Idle
    /\ \E c \in Claims :
         /\ Exists(c)
         /\ Continue(r, [op |-> "createClaim", next |-> "lines", claim |-> c, line |-> NoLine,
                         seen |-> claims[c].version,
                         read |-> claims[c].lines, terms |-> claims[c].terms])

\* ... and, in a statement of its own, its lines.
ReadLines(r) ==
    /\ requests[r] # Idle
    /\ requests[r].next = "lines"
    /\ Continue(r, [[requests[r] EXCEPT !.next = "latest"]
                       EXCEPT !.read = claims[requests[r].claim].lines])

\* assertLatestClaim, and the query for a newer claim in createClaim.
assertLatestClaim(r) ==
    /\ requests[r] # Idle
    /\ requests[r].next = "latest"
    /\ ~Newer(requests[r].claim)
    /\ Continue(r, [requests[r] EXCEPT !.next = "write"])

-----------------------------------------------------------------------------
(* The statements that write, to the commit.                               *)

\* Faulty variant: the version is raised but not compared.
MayWriteOver(r, op) ==
    /\ requests[r] # Idle
    /\ requests[r].op = op
    /\ requests[r].next = "write"
    /\ claims[requests[r].claim].version < MaxVersion

\* updateMany({ where: { id, version } }) finds its row.
MayWrite(r, op) ==
    /\ requests[r] # Idle
    /\ requests[r].op = op
    /\ requests[r].next = "write"
    /\ claims[requests[r].claim].version = requests[r].seen
    /\ claims[requests[r].claim].version < MaxVersion

Audited(c, l, before, after) ==
    activity' = [claim |-> c, line |-> l, before |-> before, after |-> after]

\* Faulty variant: the version counts the edits of the document itself only.
LineEdited(claim, l, line) == [claim EXCEPT !.lines = [@ EXCEPT ![l] = line]]

\* An edit of a line or of the terms, which raises the version of the claim.
EditedLine(claim, l, line) ==
    [[claim EXCEPT !.lines = [@ EXCEPT ![l] = line]] EXCEPT !.version = @ + 1]
EditedTerms(claim, terms) ==
    [[claim EXCEPT !.terms = terms] EXCEPT !.version = @ + 1]

updateClaimLine(r) ==
    /\ MayWrite(r, "updateClaimLine")
    /\ \E previous \in PreviousQuantities, accepted \in AcceptedQuantities :
         LET c == requests[r].claim
             l == requests[r].line
             line == [previous |-> previous, accepted |-> accepted]
         IN /\ claims' = [claims EXCEPT ![c] = EditedLine(claims[c], l, line)]
            /\ Audited(c, l, requests[r].read[l], line)
    /\ requests' = [requests EXCEPT ![r] = Idle]

updateClaim(r) ==
    /\ MayWrite(r, "updateClaim")
    /\ \E terms \in Terms :
         LET c == requests[r].claim
         IN /\ claims' = [claims EXCEPT ![c] = EditedTerms(claims[c], terms)]
            /\ Audited(c, NoLine, requests[r].terms, terms)
    /\ requests' = [requests EXCEPT ![r] = Idle]

\* Faulty variant: the base keeps its version.
OpenedQuietly(claim) == claim

\* What opening the next period does to the base.
Opened(claim) == [claim EXCEPT !.version = @ + 1]

\* The draft that createClaim makes of the lines it has read.
Draft(number, period, rate, base, lines) ==
    [period |-> period, number |-> number, version |-> 1,
     terms |-> [rate |-> rate, adjusted |-> FALSE],
     lines |-> [l \in Lines |-> [previous |-> Carried(lines[l]), accepted |-> 0]],
     base |-> base, opened |-> [l \in Lines |-> Carried(lines[l])]]

\* A number in use is refused, by the query for it or by the unique index.
createClaim(r) ==
    /\ MayWrite(r, "createClaim")
    /\ \E d \in Claims, number \in Numbers, period \in 1..MaxPeriod :
         LET c == requests[r].claim
         IN /\ ~Exists(d)
            /\ period > claims[c].period
            /\ \A e \in Claims : Exists(e) => claims[e].number # number
            /\ claims' = [[claims EXCEPT ![c] = Opened(claims[c])]
                             EXCEPT ![d] = Draft(number, period, requests[r].terms.rate, c,
                                                 requests[r].read)]
            /\ activity' = [claim |-> d, line |-> NoLine]
    /\ requests' = [requests EXCEPT ![r] = Idle]

-----------------------------------------------------------------------------
Step(r) ==
    \/ ReadLine(r) \/ ReadParent(r) \/ ReadClaim(r) \/ ReadBase(r) \/ ReadLines(r)
    \/ assertLatestClaim(r) \/ Refused(r)
    \/ updateClaimLine(r) \/ updateClaim(r) \/ createClaim(r)

Next == \E r \in Requests : Step(r)

Spec == Init /\ [][Next]_vars

-----------------------------------------------------------------------------
(* Properties.                                                             *)

\* docs: "Creating that period locks its predecessor against edits to protect carried
\* quantities": what a claim was opened with is what its base adds up to, for ever.
CarriedForward ==
    \A c \in Claims : Exists(c) /\ claims[c].base # NoClaim =>
        \A l \in Lines : claims[c].opened[l] = Carried(claims[claims[c].base].lines[l])

\* The claims of a contractor are one chain: no two share a period, none has two
\* successors.
OneNextPeriod ==
    \A c, d \in Claims : Exists(c) /\ Exists(d) /\ c # d =>
        /\ claims[c].period # claims[d].period
        /\ claims[c].base # NoClaim => claims[c].base # claims[d].base

\* A claim with a later period is not edited, also by a request that looked before
\* the later period was opened.
ClosedPeriodStays ==
    [][\A c \in Claims : Exists(c) /\ Newer(c) =>
          claims'[c].lines = claims[c].lines /\ claims'[c].terms = claims[c].terms]_vars

\* The history is exact: an edit is recorded with the values it really replaced,
\* although they were read before the row was locked.
HistoryIsExact ==
    [][\A c \in Claims : Exists(c) =>
          /\ \A l \in Lines : claims'[c].lines[l] # claims[c].lines[l] =>
                activity' = [claim |-> c, line |-> l, before |-> claims[c].lines[l],
                             after |-> claims'[c].lines[l]]
          /\ claims'[c].terms # claims[c].terms =>
                activity' = [claim |-> c, line |-> NoLine, before |-> claims[c].terms,
                             after |-> claims'[c].terms]]_vars

-----------------------------------------------------------------------------
(* The inductive invariant behind these properties.                        *)

\* A claim is later than its base.
BasesAreEarlier ==
    \A c \in Claims : Exists(c) /\ claims[c].base # NoClaim =>
        Exists(claims[c].base) /\ claims[claims[c].base].period < claims[c].period

\* While the version is still the one a request has seen, what it has read holds.
Informed(request) ==
    /\ Exists(request.claim)
    /\ request.seen <= claims[request.claim].version
    /\ request.seen = claims[request.claim].version =>
         /\ request.terms = claims[request.claim].terms
         /\ request.next # "lines" => request.read = claims[request.claim].lines
         /\ request.next = "write" => ~Newer(request.claim)

RequestsInformed == \A r \in Requests : requests[r] # Idle => Informed(requests[r])

ClaimsInv ==
    /\ TypeOK
    /\ CarriedForward
    /\ OneNextPeriod
    /\ BasesAreEarlier
    /\ RequestsInformed
=============================================================================

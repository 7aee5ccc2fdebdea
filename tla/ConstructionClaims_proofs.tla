---------------------- MODULE ConstructionClaims_proofs ----------------------
(* Theorems about ConstructionClaims: what a claim carries forward stays what  *)
(* its base adds up to, the claims form one chain, and the history is exact,   *)
(* for any number of requests, claims, lines and periods.                      *)
EXTENDS ConstructionClaims, TLAPS

LEMMA ExistingTyped ==
    ASSUME TypeOK, NEW c \in Claims, Exists(c)
    PROVE  /\ claims[c] \in Document
           /\ claims[c].lines \in [Lines -> Line] /\ claims[c].terms \in Terms
           /\ claims[c].version \in Nat /\ claims[c].period \in Nat
BY DEF TypeOK, Exists, Document

LEMMA DocumentExists ==
    ASSUME NEW document \in Document
    PROVE  document # Absent
BY DEF Document, Absent

LEMMA RequestIsBusy ==
    ASSUME NEW request \in Request
    PROVE  request # Idle
BY DEF Request, Idle, Operations

\* A request that is under way knows what Informed says.
LEMMA BusyTyped ==
    ASSUME ClaimsInv, NEW r \in Requests, requests[r] # Idle
    PROVE  /\ requests[r] \in Request /\ Informed(requests[r])
           /\ requests[r].claim \in Claims /\ Exists(requests[r].claim)
           /\ claims[requests[r].claim] \in Document
<1>1. requests[r] \in Request BY DEF ClaimsInv, TypeOK
<1>2. Informed(requests[r]) BY DEF ClaimsInv, RequestsInformed
<1>3. requests[r].claim \in Claims BY <1>1 DEF Request
<1>4. Exists(requests[r].claim) BY <1>2 DEF Informed
<1>5. QED BY <1>1, <1>2, <1>3, <1>4, ExistingTyped DEF ClaimsInv

-----------------------------------------------------------------------------
(* The initial state and the statements that read.                         *)

LEMMA ClaimsInit == Init => ClaimsInv
<1> SUFFICES ASSUME Init PROVE ClaimsInv OBVIOUS
<1>1. PICK c \in Claims, number \in Numbers, terms \in Terms,
           lines \in [Lines -> [previous: PreviousQuantities, accepted: AcceptedQuantities]] :
        claims = [d \in Claims |->
                    IF d = c THEN [period |-> 1, number |-> number, version |-> 1,
                                   terms |-> terms, lines |-> lines, base |-> NoClaim,
                                   opened |-> [l \in Lines |-> lines[l].previous]]
                    ELSE Absent]
  BY DEF Init
<1> DEFINE first == [period |-> 1, number |-> number, version |-> 1,
                     terms |-> terms, lines |-> lines, base |-> NoClaim,
                     opened |-> [l \in Lines |-> lines[l].previous]]
<1>2. lines \in [Lines -> Line] /\ [l \in Lines |-> lines[l].previous] \in [Lines -> Nat]
  BY ClaimsAssumption DEF Line
<1>3. first \in Document /\ first.base = NoClaim
  BY <1>2 DEF Document
<1> HIDE DEF first
<1>4. claims = [d \in Claims |-> IF d = c THEN first ELSE Absent]
  BY <1>1 DEF first
<1>5. TypeOK BY <1>3, <1>4 DEF Init, TypeOK, NoActivity
<1>6. \A d \in Claims : Exists(d) <=> d = c
  BY <1>3, <1>4, DocumentExists DEF Exists
<1>7. CarriedForward /\ OneNextPeriod /\ BasesAreEarlier
  BY <1>3, <1>4, <1>6 DEF CarriedForward, OneNextPeriod, BasesAreEarlier
<1>8. RequestsInformed BY DEF Init, RequestsInformed
<1>9. QED BY <1>5, <1>7, <1>8 DEF ClaimsInv

LEMMA ContinueKeeps ==
    ASSUME ClaimsInv, NEW r \in Requests, NEW request, Continue(r, request),
           request = Idle \/ (request \in Request /\ Informed(request))
    PROVE  ClaimsInv'
<1>1. /\ requests' = [requests EXCEPT ![r] = request] /\ activity' = NoActivity
      /\ claims' = claims
  BY DEF Continue
<1>2. TypeOK' BY <1>1 DEF ClaimsInv, TypeOK, NoActivity
<1>3. CarriedForward' /\ OneNextPeriod' /\ BasesAreEarlier'
  BY <1>1 DEF ClaimsInv, CarriedForward, OneNextPeriod, BasesAreEarlier, Exists
<1>4. RequestsInformed'
  <2> SUFFICES ASSUME NEW q \in Requests, requests'[q] # Idle PROVE Informed(requests[q])'
    BY DEF RequestsInformed
  <2>1. Informed(requests'[q])
    BY <1>1 DEF ClaimsInv, TypeOK, RequestsInformed
  <2>2. QED BY <1>1, <2>1 DEF Informed, Exists, Newer
<1>5. QED BY <1>2, <1>3, <1>4 DEF ClaimsInv

LEMMA ReadsKeep ==
    ASSUME ClaimsInv, NEW r \in Requests,
           \/ ReadLine(r) \/ ReadParent(r) \/ ReadClaim(r) \/ ReadBase(r) \/ ReadLines(r)
           \/ assertLatestClaim(r) \/ Refused(r)
    PROVE  ClaimsInv'
<1>1. ASSUME NEW c \in Claims, Exists(c), NEW op \in Operations, NEW line \in Lines \cup {NoLine},
             NEW next \in {"parent", "lines", "latest"}, NEW seen \in Nat,
             seen <= claims[c].version,
             Continue(r, [op |-> op, next |-> next, claim |-> c, line |-> line, seen |-> seen,
                          read |-> claims[c].lines, terms |-> claims[c].terms])
      PROVE  ClaimsInv'
  <2> DEFINE new == [op |-> op, next |-> next, claim |-> c, line |-> line, seen |-> seen,
                     read |-> claims[c].lines, terms |-> claims[c].terms]
  <2>1. claims[c].lines \in [Lines -> Line] /\ claims[c].terms \in Terms
    BY <1>1, ExistingTyped DEF ClaimsInv
  <2>2. new \in Request BY <1>1, <2>1 DEF Request
  <2>3. Informed(new) BY <1>1 DEF Informed
  <2> HIDE DEF new
  <2>4. Continue(r, new) BY <1>1 DEF new
  <2>5. QED BY <2>2, <2>3, <2>4, ContinueKeeps
<1>2. CASE ReadLine(r)
  <2>1. PICK c \in Claims, l \in Lines :
          /\ Exists(c)
          /\ \E seen \in 1..claims[c].version :
               Continue(r, [op |-> "updateClaimLine", next |-> "parent", claim |-> c, line |-> l,
                            seen |-> seen, read |-> claims[c].lines, terms |-> claims[c].terms])
    BY <1>2 DEF ReadLine
  <2>2. PICK seen \in 1..claims[c].version :
          Continue(r, [op |-> "updateClaimLine", next |-> "parent", claim |-> c, line |-> l,
                       seen |-> seen, read |-> claims[c].lines, terms |-> claims[c].terms])
    BY <2>1
  <2>3. claims[c].version \in Nat BY <2>1, ExistingTyped DEF ClaimsInv
  <2>4. seen \in Nat /\ seen <= claims[c].version BY <2>3
  <2>5. QED BY <1>1, <2>1, <2>2, <2>4 DEF Operations
<1>3. CASE ReadClaim(r)
  <2>1. PICK c \in Claims :
          /\ Exists(c)
          /\ \E seen \in 1..claims[c].version :
               Continue(r, [op |-> "updateClaim", next |-> "latest", claim |-> c, line |-> NoLine,
                            seen |-> seen, read |-> claims[c].lines, terms |-> claims[c].terms])
    BY <1>3 DEF ReadClaim
  <2>2. PICK seen \in 1..claims[c].version :
          Continue(r, [op |-> "updateClaim", next |-> "latest", claim |-> c, line |-> NoLine,
                       seen |-> seen, read |-> claims[c].lines, terms |-> claims[c].terms])
    BY <2>1
  <2>3. claims[c].version \in Nat BY <2>1, ExistingTyped DEF ClaimsInv
  <2>4. seen \in Nat /\ seen <= claims[c].version BY <2>3
  <2>5. QED BY <1>1, <2>1, <2>2, <2>4 DEF Operations
<1>4. CASE ReadBase(r)
  <2>1. PICK c \in Claims :
          /\ Exists(c)
          /\ Continue(r, [op |-> "createClaim", next |-> "lines", claim |-> c, line |-> NoLine,
                          seen |-> claims[c].version,
                          read |-> claims[c].lines, terms |-> claims[c].terms])
    BY <1>4 DEF ReadBase
  <2>2. claims[c].version \in Nat BY <2>1, ExistingTyped DEF ClaimsInv
  <2>3. QED BY <1>1, <2>1, <2>2 DEF Operations
<1>5. CASE ReadParent(r)
  <2> DEFINE new == [requests[r] EXCEPT !.next = "latest"]
  <2>1. /\ requests[r] \in Request /\ Informed(requests[r]) /\ requests[r].next = "parent"
        /\ Continue(r, new)
    BY <1>5, BusyTyped DEF ReadParent
  <2>2. new \in Request BY <2>1 DEF Request
  <2>3. Informed(new) BY <2>1 DEF Informed, Request
  <2> HIDE DEF new
  <2>4. QED BY <2>1, <2>2, <2>3, ContinueKeeps
<1>6. CASE ReadLines(r)
  <2> DEFINE c == requests[r].claim
             new == [[requests[r] EXCEPT !.next = "latest"] EXCEPT !.read = claims[c].lines]
  <2>1. /\ requests[r] \in Request /\ Informed(requests[r]) /\ requests[r].next = "lines"
        /\ Continue(r, new) /\ c \in Claims /\ Exists(c)
    BY <1>6, BusyTyped DEF ReadLines
  <2>2. claims[c].lines \in [Lines -> Line] BY <2>1, ExistingTyped DEF ClaimsInv
  <2>3. new \in Request BY <2>1, <2>2 DEF Request
  <2>4. Informed(new) BY <2>1 DEF Informed, Request
  <2> HIDE DEF new
  <2>5. QED BY <2>1, <2>3, <2>4, ContinueKeeps
<1>7. CASE assertLatestClaim(r)
  <2> DEFINE new == [requests[r] EXCEPT !.next = "write"]
  <2>1. /\ requests[r] \in Request /\ Informed(requests[r]) /\ requests[r].next = "latest"
        /\ Continue(r, new) /\ ~Newer(requests[r].claim)
    BY <1>7, BusyTyped DEF assertLatestClaim
  <2>2. new \in Request BY <2>1 DEF Request
  <2>3. Informed(new) BY <2>1 DEF Informed, Request
  <2> HIDE DEF new
  <2>4. QED BY <2>1, <2>2, <2>3, ContinueKeeps
<1>8. CASE Refused(r) BY <1>8, ContinueKeeps DEF Refused
<1>9. QED BY <1>2, <1>3, <1>4, <1>5, <1>6, <1>7, <1>8

-----------------------------------------------------------------------------
(* The statements that write.                                              *)

\* Who may write sees the claim as it is, and it is the latest.
LEMMA WriterIsInformed ==
    ASSUME ClaimsInv, NEW r \in Requests, NEW op \in Operations, MayWrite(r, op)
    PROVE  LET c == requests[r].claim
           IN /\ c \in Claims /\ Exists(c) /\ ~Newer(c) /\ claims[c] \in Document
              /\ requests[r] \in Request
              /\ requests[r].read = claims[c].lines
              /\ requests[r].terms = claims[c].terms
BY BusyTyped DEF MayWrite, Informed

\* An edit of the latest claim.
LEMMA EditKeeps ==
    ASSUME ClaimsInv, NEW r \in Requests, NEW c \in Claims, Exists(c), ~Newer(c),
           NEW document \in Document,
           document.period = claims[c].period, document.base = claims[c].base,
           document.opened = claims[c].opened, document.version = claims[c].version + 1,
           claims' = [claims EXCEPT ![c] = document],
           requests' = [requests EXCEPT ![r] = Idle], activity'.claim \in Claims
    PROVE  ClaimsInv'
<1> USE DEF ClaimsInv
<1>1. document # Absent BY DocumentExists
<1>2. TypeOK' BY DEF TypeOK
<1>3. \A d \in Claims : /\ Exists(d)' <=> Exists(d)
                        /\ claims'[d].period = claims[d].period
                        /\ claims'[d].base = claims[d].base
                        /\ claims'[d].opened = claims[d].opened
                        /\ d # c => claims'[d] = claims[d]
  BY <1>1 DEF Exists, TypeOK
<1>4. \A d \in Claims : Newer(d)' <=> Newer(d) BY <1>3 DEF Newer
<1>5. OneNextPeriod' BY <1>3 DEF OneNextPeriod
<1>6. BasesAreEarlier'
  <2> SUFFICES ASSUME NEW d \in Claims, Exists(d)', claims'[d].base # NoClaim
               PROVE  Exists(claims[d].base)' /\ claims'[claims'[d].base].period < claims'[d].period
    BY DEF BasesAreEarlier
  <2>1. Exists(d) /\ claims[d].base = claims'[d].base BY <1>3
  <2>2. claims[d].base \in Claims BY <2>1, ExistingTyped DEF Document
  <2>3. QED BY <1>3, <2>1, <2>2 DEF BasesAreEarlier
<1>7. CarriedForward'
  <2> SUFFICES ASSUME NEW d \in Claims, Exists(d)', claims'[d].base # NoClaim, NEW l \in Lines
               PROVE  claims'[d].opened[l] = Carried(claims'[claims'[d].base].lines[l])
    BY DEF CarriedForward
  <2>1. Exists(d) /\ claims[d].base = claims'[d].base BY <1>3
  <2>2. claims[d].base \in Claims BY <2>1, ExistingTyped DEF Document
  <2>3. claims[claims[d].base].period < claims[d].period BY <2>1 DEF BasesAreEarlier
  <2>4. claims[d].base # c
    <3>1. claims[c].period \in Nat /\ claims[d].period \in Nat BY <2>1, ExistingTyped
    <3>2. QED BY <2>1, <2>3, <3>1 DEF Newer
  <2>5. QED BY <1>3, <2>1, <2>2, <2>4 DEF CarriedForward
<1>8. RequestsInformed'
  <2> SUFFICES ASSUME NEW q \in Requests, requests'[q] # Idle PROVE Informed(requests[q])'
    BY DEF RequestsInformed
  <2>1. requests'[q] = requests[q] BY DEF TypeOK
  <2>2. requests[q] \in Request /\ Informed(requests[q]) /\ requests[q].claim \in Claims
    BY <2>1, BusyTyped
  <2>3. CASE requests[q].claim = c
    <3>1. claims[c].version \in Nat /\ requests[q].seen \in Nat
      BY <2>2, ExistingTyped DEF Request
    <3>2. requests[q].seen < claims'[c].version /\ Exists(c)'
      BY <1>3, <2>2, <2>3, <3>1 DEF Informed, TypeOK
    <3>3. QED BY <2>1, <2>3, <3>1, <3>2 DEF Informed, TypeOK
  <2>4. CASE requests[q].claim # c
    BY <1>3, <1>4, <2>1, <2>2, <2>4 DEF Informed
  <2>5. QED BY <2>3, <2>4
<1>9. QED BY <1>2, <1>5, <1>6, <1>7, <1>8

LEMMA EditsKeep ==
    ASSUME ClaimsInv, NEW r \in Requests, updateClaimLine(r) \/ updateClaim(r)
    PROVE  ClaimsInv'
<1> DEFINE c == requests[r].claim
<1>1. CASE updateClaimLine(r)
  <2> DEFINE l == requests[r].line
  <2>1. PICK previous \in PreviousQuantities, accepted \in AcceptedQuantities :
          claims' = [claims EXCEPT ![c] = EditedLine(claims[c], l, [previous |-> previous, accepted |-> accepted])]
    BY <1>1 DEF updateClaimLine
  <2> DEFINE line == [previous |-> previous, accepted |-> accepted]
             lines == [claims[c].lines EXCEPT ![l] = line]
             half == [claims[c] EXCEPT !.lines = lines]
             document == [half EXCEPT !.version = @ + 1]
  <2>2. c \in Claims /\ Exists(c) /\ ~Newer(c) /\ claims[c] \in Document
    BY <1>1, WriterIsInformed DEF updateClaimLine, Operations
  <2>3. line \in Line BY ClaimsAssumption DEF Line
  <2>4. lines \in [Lines -> Line]
    <3> HIDE DEF line
    <3>1. QED BY <2>2, <2>3 DEF Document
  <2>5. /\ half \in Document /\ half.period = claims[c].period /\ half.base = claims[c].base
        /\ half.opened = claims[c].opened /\ half.version = claims[c].version
    <3> HIDE DEF lines
    <3>1. QED BY <2>2, <2>4 DEF Document
  <2>6. /\ document \in Document /\ document.period = claims[c].period
        /\ document.base = claims[c].base /\ document.opened = claims[c].opened
        /\ document.version = claims[c].version + 1
    <3> HIDE DEF half
    <3>1. QED BY <2>5 DEF Document
  <2>7. claims' = [claims EXCEPT ![c] = document] BY <2>1 DEF EditedLine
  <2>8. requests' = [requests EXCEPT ![r] = Idle] /\ activity'.claim \in Claims
    BY <1>1, <2>2 DEF updateClaimLine, Audited
  <2> HIDE DEF document, c
  <2>9. QED BY <2>2, <2>6, <2>7, <2>8, EditKeeps
<1>2. CASE updateClaim(r)
  <2>1. PICK terms \in Terms : claims' = [claims EXCEPT ![c] = EditedTerms(claims[c], terms)]
    BY <1>2 DEF updateClaim
  <2> DEFINE half == [claims[c] EXCEPT !.terms = terms]
             document == [half EXCEPT !.version = @ + 1]
  <2>2. c \in Claims /\ Exists(c) /\ ~Newer(c) /\ claims[c] \in Document
    BY <1>2, WriterIsInformed DEF updateClaim, Operations
  <2>3. /\ half \in Document /\ half.period = claims[c].period /\ half.base = claims[c].base
        /\ half.opened = claims[c].opened /\ half.version = claims[c].version
    BY <2>2 DEF Document
  <2>4. /\ document \in Document /\ document.period = claims[c].period
        /\ document.base = claims[c].base /\ document.opened = claims[c].opened
        /\ document.version = claims[c].version + 1
    <3> HIDE DEF half
    <3>1. QED BY <2>3 DEF Document
  <2>5. claims' = [claims EXCEPT ![c] = document] BY <2>1 DEF EditedTerms
  <2>6. requests' = [requests EXCEPT ![r] = Idle] /\ activity'.claim \in Claims
    BY <1>2, <2>2 DEF updateClaim, Audited
  <2> HIDE DEF document, c
  <2>7. QED BY <2>2, <2>4, <2>5, <2>6, EditKeeps
<1>3. QED BY <1>1, <1>2

LEMMA CreateKeeps ==
    ASSUME ClaimsInv, NEW r \in Requests, createClaim(r)
    PROVE  ClaimsInv'
<1> USE DEF ClaimsInv
<1>0. PICK c : c = requests[r].claim OBVIOUS
<1>1. /\ c \in Claims /\ Exists(c) /\ ~Newer(c) /\ claims[c] \in Document
      /\ requests[r] \in Request /\ requests[r].read = claims[c].lines
  BY <1>0, WriterIsInformed DEF createClaim, Operations
<1>2. PICK d \in Claims, number \in Numbers, period \in 1..MaxPeriod :
        /\ ~Exists(d) /\ period > claims[c].period
        /\ claims' = [[claims EXCEPT ![c] = Opened(claims[c])]
                         EXCEPT ![d] = Draft(number, period, requests[r].terms.rate, c,
                                             requests[r].read)]
        /\ activity' = [claim |-> d, line |-> NoLine]
  BY <1>0 DEF createClaim
<1>3. requests' = [requests EXCEPT ![r] = Idle] BY DEF createClaim
<1> DEFINE opened == Opened(claims[c])
           draft == Draft(number, period, requests[r].terms.rate, c, requests[r].read)
<1>4. c # d BY <1>1, <1>2
<1>5. /\ opened \in Document /\ opened.version = claims[c].version + 1
      /\ opened.period = claims[c].period /\ opened.base = claims[c].base
      /\ opened.lines = claims[c].lines /\ opened.opened = claims[c].opened
      /\ opened.terms = claims[c].terms
  BY <1>1 DEF Document, Opened
<1>6. /\ draft \in Document /\ draft.period = period /\ draft.base = c
      /\ \A l \in Lines : draft.opened[l] = Carried(claims[c].lines[l])
  <2> DEFINE lines == [l \in Lines |-> [previous |-> Carried(requests[r].read[l]), accepted |-> 0]]
             carried == [l \in Lines |-> Carried(requests[r].read[l])]
             terms == [rate |-> requests[r].terms.rate, adjusted |-> FALSE]
  <2>1. requests[r].read \in [Lines -> Line] /\ requests[r].terms \in Terms
    BY <1>1 DEF Request
  <2>2. \A l \in Lines : Carried(requests[r].read[l]) \in Nat BY <2>1 DEF Carried, Line
  <2>3. lines \in [Lines -> Line] BY <2>2 DEF Line
  <2>4. carried \in [Lines -> Nat] BY <2>2
  <2>5. terms \in Terms BY <2>1 DEF Terms
  <2>6. period \in Nat \ {0} BY ClaimsAssumption
  <2>7. draft = [period |-> period, number |-> number, version |-> 1, terms |-> terms,
                 lines |-> lines, base |-> c, opened |-> carried]
    BY DEF Draft
  <2>8. \A l \in Lines : carried[l] = Carried(claims[c].lines[l]) BY <1>1
  <2> HIDE DEF lines, carried, terms, draft
  <2>9. draft \in Document BY <1>1, <2>3, <2>4, <2>5, <2>6, <2>7 DEF Document
  <2>10. QED BY <2>7, <2>8, <2>9
<1>7. /\ claims' \in [Claims -> Document \cup {Absent}]
      /\ claims'[c] = opened /\ claims'[d] = draft
      /\ \A e \in Claims \ {c, d} : claims'[e] = claims[e]
  <2> HIDE DEF opened, draft
  <2>1. claims' = [[claims EXCEPT ![c] = opened] EXCEPT ![d] = draft] BY <1>2 DEF opened, draft
  <2>2. QED BY <1>1, <1>4, <1>5, <1>6, <2>1 DEF TypeOK
<1> HIDE DEF opened, draft
<1>8. /\ Exists(c)' /\ Exists(d)'
      /\ \A e \in Claims \ {d} : /\ Exists(e)' <=> Exists(e)
                                 /\ claims'[e].period = claims[e].period
                                 /\ claims'[e].base = claims[e].base
                                 /\ claims'[e].opened = claims[e].opened
                                 /\ claims'[e].lines = claims[e].lines
                                 /\ claims'[e].terms = claims[e].terms
  <2>1. Exists(c)' /\ Exists(d)' BY <1>5, <1>6, <1>7, DocumentExists DEF Exists
  <2>2. ASSUME NEW e \in Claims \ {d}
        PROVE  /\ Exists(e)' <=> Exists(e)
               /\ claims'[e].period = claims[e].period
               /\ claims'[e].base = claims[e].base
               /\ claims'[e].opened = claims[e].opened
               /\ claims'[e].lines = claims[e].lines
               /\ claims'[e].terms = claims[e].terms
    <3>1. CASE e = c
      <4>1. claims'[e] = opened BY <1>7, <3>1
      <4>2. Exists(e)' /\ Exists(e) BY <1>1, <2>1, <3>1
      <4>3. QED BY <1>5, <3>1, <4>1, <4>2
    <3>2. CASE e # c BY <1>7, <3>2 DEF Exists
    <3>3. QED BY <3>1, <3>2
  <2>3. QED BY <2>1, <2>2
<1>9. TypeOK' BY <1>2, <1>3, <1>7 DEF TypeOK
<1>10. \A e \in Claims : Exists(e) => /\ claims[e].period \in Nat /\ claims[e].period <= claims[c].period
                                      /\ claims[e].period < period
                                      /\ claims[e].base \in Claims \cup {NoClaim}
  <2> SUFFICES ASSUME NEW e \in Claims, Exists(e)
               PROVE  /\ claims[e].period \in Nat /\ claims[e].period <= claims[c].period
                      /\ claims[e].period < period
                      /\ claims[e].base \in Claims \cup {NoClaim}
    OBVIOUS
  <2>1. claims[e].period \in Nat /\ claims[c].period \in Nat /\ claims[e].base \in Claims \cup {NoClaim}
    BY <1>1, ExistingTyped DEF Document
  <2>2. ~(claims[e].period > claims[c].period) BY <1>1 DEF Newer
  <2>3. QED BY <1>2, <2>1, <2>2
<1>11. \A e \in Claims : Exists(e) => claims[e].base # c
  <2> SUFFICES ASSUME NEW e \in Claims, Exists(e), claims[e].base = c PROVE FALSE
    OBVIOUS
  <2>1. claims[c].period < claims[e].period
    BY <1>1, ClaimsAssumption DEF BasesAreEarlier
  <2>2. QED BY <1>1, <1>10, <2>1
<1>12. OneNextPeriod'
  <2> SUFFICES ASSUME NEW e \in Claims, NEW f \in Claims, Exists(e)', Exists(f)', e # f
               PROVE  /\ claims'[e].period # claims'[f].period
                      /\ claims'[e].base # NoClaim => claims'[e].base # claims'[f].base
    BY DEF OneNextPeriod
  <2>1. CASE e = d
    <3>1. Exists(f) /\ claims'[f].period = claims[f].period /\ claims'[f].base = claims[f].base
      BY <1>8, <2>1
    <3>2. claims'[e].period = period /\ claims'[e].base = c BY <1>6, <1>7, <2>1
    <3>3. QED BY <1>10, <1>11, <3>1, <3>2
  <2>2. CASE f = d
    <3>1. Exists(e) /\ claims'[e].period = claims[e].period /\ claims'[e].base = claims[e].base
      BY <1>8, <2>2
    <3>2. claims'[f].period = period /\ claims'[f].base = c BY <1>6, <1>7, <2>2
    <3>3. QED BY <1>10, <1>11, <3>1, <3>2
  <2>3. CASE e # d /\ f # d BY <1>8, <2>3 DEF OneNextPeriod
  <2>4. QED BY <2>1, <2>2, <2>3
<1>13. BasesAreEarlier' /\ CarriedForward'
  <2> SUFFICES ASSUME NEW e \in Claims, Exists(e)', claims'[e].base # NoClaim
               PROVE  /\ claims'[claims'[e].base] # Absent
                      /\ claims'[claims'[e].base].period < claims'[e].period
                      /\ \A l \in Lines : claims'[e].opened[l] = Carried(claims'[claims'[e].base].lines[l])
    BY DEF BasesAreEarlier, CarriedForward, Exists
  <2>1. CASE e = d
    <3>1. claims'[e] = draft BY <1>7, <2>1
    <3>2. claims'[c].period = claims[c].period /\ claims'[c].lines = claims[c].lines
      BY <1>5, <1>7
    <3>3. claims[c].period < period BY <1>1, <1>10
    <3>4. claims'[e].base = c /\ claims'[c] # Absent
      BY <1>6, <1>8, <3>1 DEF Exists
    <3>5. claims'[c].period < claims'[e].period BY <1>6, <3>1, <3>2, <3>3
    <3>6. \A l \in Lines : claims'[e].opened[l] = Carried(claims'[c].lines[l])
      BY <1>6, <3>1, <3>2
    <3>7. QED BY <3>4, <3>5, <3>6
  <2>2. CASE e # d
    <3>1. Exists(e) /\ claims'[e].base = claims[e].base BY <1>8, <2>2
    <3>2. claims[e].base \in Claims /\ Exists(claims[e].base)
      BY <1>10, <2>2, <3>1 DEF BasesAreEarlier
    <3>3. claims[e].base # d BY <1>2, <3>2
    <3>4. QED BY <1>8, <2>2, <3>1, <3>2, <3>3 DEF BasesAreEarlier, CarriedForward, Exists
  <2>3. QED BY <2>1, <2>2
<1>14. RequestsInformed'
  <2> SUFFICES ASSUME NEW q \in Requests, requests'[q] # Idle PROVE Informed(requests[q])'
    BY DEF RequestsInformed
  <2>1. requests'[q] = requests[q] BY <1>3 DEF TypeOK
  <2>2. requests[q] \in Request /\ Informed(requests[q]) /\ requests[q].claim \in Claims
        /\ Exists(requests[q].claim)
    BY <2>1, BusyTyped
  <2>0. PICK e : e = requests[q].claim OBVIOUS
  <2>3. claims[e].version \in Nat /\ requests[q].seen \in Nat
    BY <2>0, <2>2, ExistingTyped DEF Request
  <2>4. CASE e = c
    <3>1. requests[q].seen < claims'[e].version BY <2>0, <1>5, <1>7, <2>2, <2>3, <2>4 DEF Informed
    <3>2. claims'[e].version \in Nat BY <2>0, <1>5, <1>7, <2>3, <2>4
    <3>3. Exists(e)' BY <2>0, <1>8, <2>4
    <3>4. QED BY <2>0, <2>1, <2>3, <3>1, <3>2, <3>3 DEF Informed
  <2>5. CASE e # c
    <3>1. e # d /\ claims'[e] = claims[e] BY <2>0, <1>2, <1>7, <2>2, <2>5
    <3>2. Newer(e)
      <4>1. claims[e].period # claims[c].period BY <2>0, <1>1, <2>2, <2>5 DEF OneNextPeriod
      <4>2. claims[e].period < claims[c].period BY <2>0, <1>1, <1>10, <2>2, <4>1
      <4>3. QED BY <2>0, <1>1, <1>10, <2>2, <4>2 DEF Newer
    <3>3. QED BY <2>0, <1>8, <2>1, <2>2, <3>1, <3>2 DEF Informed
  <2>6. QED BY <2>0, <2>4, <2>5
<1>15. QED BY <1>9, <1>12, <1>13, <1>14

\* What a step may change, and what it records about it.
LEMMA StepIsHonest ==
    ASSUME ClaimsInv, NEW r \in Requests, Step(r), NEW c \in Claims, Exists(c)
    PROVE  /\ Newer(c) => /\ claims'[c].lines = claims[c].lines
                          /\ claims'[c].terms = claims[c].terms
           /\ \A l \in Lines : claims'[c].lines[l] # claims[c].lines[l] =>
                activity' = [claim |-> c, line |-> l, before |-> claims[c].lines[l],
                             after |-> claims'[c].lines[l]]
           /\ claims'[c].terms # claims[c].terms =>
                activity' = [claim |-> c, line |-> NoLine, before |-> claims[c].terms,
                             after |-> claims'[c].terms]
<1> USE DEF ClaimsInv
<1> DEFINE w == requests[r].claim
<1>1. CASE claims' = claims BY <1>1
<1>2. CASE updateClaimLine(r)
  <2> DEFINE l == requests[r].line
  <2>1. /\ w \in Claims /\ ~Newer(w) /\ claims[w] \in Document /\ l \in Lines \cup {NoLine}
        /\ requests[r].read = claims[w].lines
    BY <1>2, WriterIsInformed DEF updateClaimLine, Operations, Request
  <2>2. PICK previous \in PreviousQuantities, accepted \in AcceptedQuantities :
          /\ claims' = [claims EXCEPT ![w] = EditedLine(claims[w], l, [previous |-> previous, accepted |-> accepted])]
          /\ activity' = [claim |-> w, line |-> l, before |-> requests[r].read[l],
                          after |-> [previous |-> previous, accepted |-> accepted]]
    BY <1>2 DEF updateClaimLine, Audited
  <2> DEFINE line == [previous |-> previous, accepted |-> accepted]
             new == EditedLine(claims[w], l, line)
  <2>3. /\ new.terms = claims[w].terms
        /\ new.lines = [claims[w].lines EXCEPT ![l] = line]
    <3> HIDE DEF line
    <3>1. QED BY <2>1 DEF EditedLine, Document
  <2>4. claims[w].lines \in [Lines -> Line] BY <2>1 DEF Document
  <2> HIDE DEF new, line
  <2>5. claims' = [claims EXCEPT ![w] = new]
        /\ activity' = [claim |-> w, line |-> l, before |-> claims[w].lines[l], after |-> line]
    BY <2>1, <2>2 DEF new, line
  <2>6. CASE c = w
    <3>1. claims'[c] = new BY <2>5, <2>6 DEF TypeOK
    <3>2. \A k \in Lines : new.lines[k] = IF k = l THEN line ELSE claims[w].lines[k]
      BY <2>3, <2>4
    <3>3. QED BY <2>1, <2>3, <2>5, <2>6, <3>1, <3>2
  <2>7. CASE c # w BY <2>5, <2>7 DEF TypeOK
  <2>8. QED BY <2>6, <2>7
<1>3. CASE updateClaim(r)
  <2>1. /\ w \in Claims /\ ~Newer(w) /\ claims[w] \in Document
        /\ requests[r].terms = claims[w].terms
    BY <1>3, WriterIsInformed DEF updateClaim, Operations
  <2>2. PICK terms \in Terms :
          /\ claims' = [claims EXCEPT ![w] = EditedTerms(claims[w], terms)]
          /\ activity' = [claim |-> w, line |-> NoLine, before |-> requests[r].terms, after |-> terms]
    BY <1>3 DEF updateClaim, Audited
  <2>3. /\ EditedTerms(claims[w], terms).lines = claims[w].lines
        /\ EditedTerms(claims[w], terms).terms = terms
    BY <2>1 DEF EditedTerms, Document
  <2>4. CASE c = w
    <3>1. claims'[c] = EditedTerms(claims[w], terms) BY <2>2, <2>4 DEF TypeOK
    <3>2. QED BY <2>1, <2>2, <2>3, <2>4, <3>1
  <2>5. CASE c # w BY <2>2, <2>5 DEF TypeOK
  <2>6. QED BY <2>4, <2>5
<1>4. CASE createClaim(r)
  <2>1. w \in Claims /\ claims[w] \in Document
    BY <1>4, WriterIsInformed DEF createClaim, Operations
  <2>2. PICK d \in Claims :
          \E draft :
             /\ ~Exists(d)
             /\ claims' = [[claims EXCEPT ![w] = Opened(claims[w])] EXCEPT ![d] = draft]
    BY <1>4 DEF createClaim
  <2>3. c # d /\ claims'[c] = (IF c = w THEN Opened(claims[w]) ELSE claims[c])
    BY <2>2 DEF TypeOK
  <2>4. Opened(claims[w]).lines = claims[w].lines /\ Opened(claims[w]).terms = claims[w].terms
    BY <2>1 DEF Opened, Document
  <2>5. QED BY <2>3, <2>4
<1>5. QED BY <1>1, <1>2, <1>3, <1>4
      DEF Step, ReadLine, ReadParent, ReadClaim, ReadBase, ReadLines, assertLatestClaim, Refused,
          Continue

LEMMA ClaimsStep == ClaimsInv /\ [Next]_vars => ClaimsInv'
<1> SUFFICES ASSUME ClaimsInv, [Next]_vars PROVE ClaimsInv' OBVIOUS
<1>1. ASSUME NEW r \in Requests, Step(r) PROVE ClaimsInv'
  BY <1>1, ReadsKeep, EditsKeep, CreateKeeps DEF Step
<1>2. CASE UNCHANGED vars
  BY <1>2 DEF vars, ClaimsInv, TypeOK, CarriedForward, OneNextPeriod, BasesAreEarlier,
              RequestsInformed, Informed, Exists, Newer
<1>3. QED BY <1>1, <1>2 DEF Next

-----------------------------------------------------------------------------
\* The conditional update of the version in every writer keeps the claims in order.
THEOREM ClaimsInvariant == Spec => []ClaimsInv
<1>1. QED BY ClaimsInit, ClaimsStep, PTL DEF Spec

\* A closed period is not edited, and the ConstructionActivity row of an edit holds the
\* values that were really replaced.
THEOREM HistoryIsKept == Spec => ClosedPeriodStays /\ HistoryIsExact
<1> DEFINE Honest == \A c \in Claims : Exists(c) =>
              /\ Newer(c) => /\ claims'[c].lines = claims[c].lines
                             /\ claims'[c].terms = claims[c].terms
              /\ \A l \in Lines : claims'[c].lines[l] # claims[c].lines[l] =>
                   activity' = [claim |-> c, line |-> l, before |-> claims[c].lines[l],
                                after |-> claims'[c].lines[l]]
              /\ claims'[c].terms # claims[c].terms =>
                   activity' = [claim |-> c, line |-> NoLine, before |-> claims[c].terms,
                                after |-> claims'[c].terms]
<1>1. ClaimsInv /\ [Next]_vars => [Honest]_vars
  <2> SUFFICES ASSUME ClaimsInv, Next PROVE Honest OBVIOUS
  <2>1. PICK r \in Requests : Step(r) BY DEF Next
  <2>2. QED BY <2>1, StepIsHonest
<1>2. [Honest]_vars =>
        /\ [\A c \in Claims : Exists(c) /\ Newer(c) =>
               claims'[c].lines = claims[c].lines /\ claims'[c].terms = claims[c].terms]_vars
        /\ [\A c \in Claims : Exists(c) =>
               /\ \A l \in Lines : claims'[c].lines[l] # claims[c].lines[l] =>
                     activity' = [claim |-> c, line |-> l, before |-> claims[c].lines[l],
                                  after |-> claims'[c].lines[l]]
               /\ claims'[c].terms # claims[c].terms =>
                     activity' = [claim |-> c, line |-> NoLine, before |-> claims[c].terms,
                                  after |-> claims'[c].terms]]_vars
  OBVIOUS
<1> HIDE DEF Honest
<1>3. QED BY <1>1, <1>2, ClaimsInvariant, PTL DEF Spec, ClosedPeriodStays, HistoryIsExact

\* assertLatestClaim looks before the row is locked, and still a period that has a
\* successor is not edited.
THEOREM ClosedPeriodsStay == Spec => ClosedPeriodStays
<1>1. QED BY HistoryIsKept

\* createClaim carries previous + accepted quantities forward, and no later edit of the
\* base can falsify what was carried.
THEOREM QuantitiesAreCarried == Spec => []CarriedForward
<1>1. ClaimsInv => CarriedForward BY DEF ClaimsInv
<1>2. QED BY <1>1, ClaimsInvariant, PTL

\* Two administrators who open the next period at once do not fork the chain.
THEOREM ChainIsOne == Spec => []OneNextPeriod
<1>1. ClaimsInv => OneNextPeriod BY DEF ClaimsInv
<1>2. QED BY <1>1, ClaimsInvariant, PTL
=============================================================================

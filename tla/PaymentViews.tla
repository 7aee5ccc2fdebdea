----------------------------- MODULE PaymentViews ------------------------------
(***************************************************************************)
(* What the payment screens compute from an accepted snapshot of the       *)
(* source: the list of tracked cases (paymentList), one case with the      *)
(* other currencies of its unit (describe), the collection report          *)
(* (buildCollectionReport), the installment table (buildInstallmentTable), *)
(* and the snapshot a salesperson is shown (salesLedgerSnapshot).          *)
(*                                                                         *)
(* A source row is one obligation; a case is all rows of a customer, unit  *)
(* and currency; a portfolio is all cases of a customer and unit.  Unknown *)
(* amounts and dates are None and are never zero.                          *)
(*                                                                         *)
(* The state is the snapshot, row after row, and the follow-up dates; the  *)
(* views are operators over it.  A date is a day number, a month has       *)
(* MonthDays days.  Left out: names and free text, the filters that have   *)
(* the form of those below (broker, customer, unit, assignee, invoice      *)
(* date), option lists, and the rounding of percentages.                   *)
(***************************************************************************)
EXTENDS Integers, Sequences, FiniteSets, FiniteSetsExt, SequencesExt

CONSTANTS
    Rows,          \* what a source row may be: [identity, kind, group, dueDate, amount, paid]
    Identities,    \* sequence of [customer, unit, currency], in the order of their keys
    Currencies,    \* sequence of the currencies, in their order; None, unknown, is not in it
    invoice,       \* identity -> [representatives, status, hasBlank, codes, invoiceOk]
    unitProject,   \* unit -> project group its code names, or None
    codeOwner,     \* representative -> the user it is mapped to, or None
    Salespeople,   \* users that read the snapshot in their own scope
    asOf, FollowUpDates, None,
    MonthDays, Months, PageSize, MaxRows

PaymentViewsAssumption ==
    /\ Identities \in Seq(Range(Identities)) /\ Currencies \in Seq(Range(Currencies))
    /\ asOf \in Nat /\ MonthDays \in Nat \ {0} /\ Months \in Nat \ {0} /\ PageSize \in Nat \ {0}
    /\ MaxRows \in Nat
    /\ \A r \in Rows : /\ r.identity \in Range(Identities)
                       /\ r.dueDate \in Nat \cup {None}
                       /\ {r.amount, r.paid} \subseteq Int \cup {None}
                       /\ r.kind # "all"
    /\ \A i \in Range(Identities) : /\ IsFiniteSet(invoice[i].representatives)
                                    /\ i.currency # "__ALL__"
    /\ None \notin Int \cup Range(Currencies) \cup Salespeople

VARIABLES rows,   \* the snapshot: the rows of the source, in order
          states  \* identity -> follow-up date stored for the case, or None

vars == <<rows, states>>

TypeOK == rows \in Seq(Rows) /\ Len(rows) <= MaxRows
          /\ states \in [Range(Identities) -> FollowUpDates \cup {None}]

Init == rows = <<>> /\ states = [i \in Range(Identities) |-> None]

\* The next read of the source finds one more row.
SourceGrows ==
    /\ Len(rows) < MaxRows
    /\ \E r \in Rows : rows' = Append(rows, r)
    /\ UNCHANGED states

-----------------------------------------------------------------------------
(* Sums and ranges over values that may be unknown.                        *)

\* The known part; unknown when nothing is known, zero when there is nothing.
sumKnown(value) ==
    LET known == {x \in DOMAIN value : value[x] # None}
    IN IF known = {} /\ DOMAIN value # {} THEN None ELSE SumFunctionOnSet(value, known)

\* One unknown makes the sum unknown.
sumExact(value) ==
    IF \E x \in DOMAIN value : value[x] = None THEN None
    ELSE SumFunction(value)

InRange(value, min, max) ==
    IF min = None /\ max = None THEN TRUE
    ELSE /\ value # None
         /\ min # None => value >= min
         /\ max # None => value <= max

Later(d, e) == IF d = None THEN e ELSE IF e = None THEN d ELSE IF d > e THEN d ELSE e
First(dates) == IF dates = {} THEN None ELSE Min(dates)
Month(d) == d \div MonthDays

-----------------------------------------------------------------------------
(* From rows to cases.                                                     *)

outstanding(r) ==
    IF r.amount = None \/ r.paid = None THEN None
    ELSE IF r.amount > r.paid THEN r.amount - r.paid ELSE 0

statusOf(r) ==
    IF outstanding(r) = None THEN "unknown"
    ELSE IF outstanding(r) = 0 THEN "paid"
    ELSE IF r.dueDate = None THEN "unknown"
    ELSE IF r.dueDate < asOf THEN "overdue"
    ELSE IF r.dueDate = asOf THEN "today" ELSE "upcoming"

\* A row, with its number in the snapshot: equal rows are separate obligations.
normalizedRow(n) ==
    LET r == rows[n]
        timedUnknown == statusOf(r) = "unknown" IN
    [sequence |-> n, identity |-> r.identity, kind |-> r.kind, group |-> r.group,
     dueDate |-> r.dueDate, amount |-> r.amount, paid |-> r.paid,
     outstanding |-> outstanding(r), status |-> statusOf(r),
     incomplete |-> None \in {r.amount, r.paid, r.dueDate, r.identity.currency},
     overdueAmount |-> IF timedUnknown THEN None
                       ELSE IF statusOf(r) = "overdue" THEN outstanding(r) ELSE 0,
     overdueDays |-> IF statusOf(r) = "overdue" THEN asOf - r.dueDate ELSE 0]

OpenDates(L) == {l.dueDate : l \in {m \in L : m.dueDate # None /\ m.outstanding # None /\ m.outstanding > 0}}

\* A case over the rows L; overdueOf is what the caller takes for the overdue part of each row.
CaseOver(i, L, overdueOf) ==
    [identity |-> i, installments |-> L,
     incompleteRows |-> Cardinality({l \in L : l.incomplete}),
     amount |-> sumKnown([l \in L |-> l.amount]),
     paid |-> sumKnown([l \in L |-> l.paid]),
     outstanding |-> sumKnown([l \in L |-> l.outstanding]),
     overdueAmount |-> sumKnown(overdueOf),
     oldestDueDate |-> First(OpenDates(L)),
     nextDueDate |-> First({d \in OpenDates(L) : d >= asOf}),
     overdueDays |-> Max({l.overdueDays : l \in L})]

sourceCase(i, L) == CaseOver(i, L, [l \in L |-> l.overdueAmount])

\* All cases of the snapshot.
Cases ==
    LET lines == {normalizedRow(n) : n \in DOMAIN rows}
    IN {sourceCase(i, {l \in lines : l.identity = i}) : i \in {l.identity : l \in lines}}

timedAmount(l, status) ==
    IF l.outstanding = None \/ (l.outstanding > 0 /\ l.dueDate = None) THEN None
    ELSE IF l.status = status THEN l.outstanding ELSE 0

\* The same case, of the rows of one payment kind only; nothing when it has none.
selectPaymentKind(c, kind) ==
    LET L == {l \in c.installments : l.kind = kind}
    IN IF kind = "all" THEN {c}
       ELSE IF L = {} THEN {}
       ELSE {CaseOver(c.identity, L, [l \in L |-> timedAmount(l, "overdue")])}

-----------------------------------------------------------------------------
(* Portfolios: closure, project, and what a salesperson may see.           *)

Portfolio(cases, c) ==
    {d \in cases : d.identity.customer = c.identity.customer /\ d.identity.unit = c.identity.unit}

\* Faulty variant: what is known is paid.
PaidAsFarAsKnown(c) == c.identity.currency # None /\ c.outstanding = 0

CompleteAndPaid(c) ==
    /\ c.identity.currency # None
    /\ c.amount # None /\ c.paid # None
    /\ c.outstanding = 0
    /\ c.incompleteRows = 0

\* A portfolio is closed when every case of it is, in each currency.
isPortfolioClosed(c, cases) == \A d \in Portfolio(cases, c) : CompleteAndPaid(d)

\* The project the unit's code names, unless a row of the portfolio names another.
paymentProjectGroups(c, cases) ==
    LET p == unitProject[c.identity.unit]
        named == {l.group : l \in UNION {d.installments : d \in Portfolio(cases, c)}}
    IN IF p = None \/ ~(named \subseteq {None, p}) THEN "UNKNOWN" ELSE p

Meta(c) == invoice[c.identity]

invoiceOkToken(c) ==
    LET m == Meta(c) IN
    IF m.status # "matched" \/ m.invoiceOk = {} THEN "unknown"
    ELSE IF Cardinality(m.invoiceOk) > 1 THEN "mixed"
    ELSE IF None \in m.invoiceOk THEN "blank" ELSE CHOOSE v \in m.invoiceOk : TRUE

matchesInvoiceOk(c, filter) == filter = "all" \/ invoiceOkToken(c) = filter

matchesAuthorization(c, selected) ==
    LET m == Meta(c) IN
    CASE selected = "all"       -> TRUE
      [] selected = "coded"     -> m.codes # {}
      [] selected = "blank"     -> m.status = "matched" /\ m.hasBlank /\ m.codes = {}
      [] selected = "mixed"     -> m.status = "matched" /\ m.hasBlank /\ m.codes # {}
      [] selected = "unmatched" -> m.status = "unmatched"
      [] selected = "multiple"  -> Cardinality(m.codes) > 1

\* The cases a salesperson is shown, or a supervisor (None) in the sales ledger.
salesLedgerSnapshot(actor) ==
    {c \in Cases :
        /\ \/ actor = None
           \/ Meta(c).representatives # {} /\ \A n \in Meta(c).representatives : codeOwner[n] = actor
        /\ matchesInvoiceOk(c, "DND")
        /\ matchesAuthorization(c, "blank")}

-----------------------------------------------------------------------------
(* The list.                                                               *)

trackingRow(c, date, fullyPaid, group) ==
    LET effective == Later(c.oldestDueDate, date)
        status == IF c.outstanding = None THEN "unknown"
                  ELSE IF c.outstanding = 0
                       THEN (IF c.incompleteRows = 0 THEN "paid" ELSE "unknown")
                  ELSE IF effective = None THEN "unknown"
                  ELSE IF effective < asOf THEN "overdue"
                  ELSE IF effective = asOf THEN "today"
                  ELSE IF date # None /\ date > asOf
                          /\ c.oldestDueDate # None /\ date > c.oldestDueDate
                       THEN "deferred" ELSE "upcoming"
    IN [source |-> c, identity |-> c.identity, fullyPaid |-> fullyPaid, group |-> group,
        effectiveDueDate |-> effective, trackingStatus |-> status,
        trackingOverdueDays |-> IF status = "overdue" THEN asOf - effective ELSE 0]

isActionable(row) == row.trackingStatus \in {"overdue", "today"}

paymentState(c) ==
    IF c.incompleteRows > 0 \/ None \in {c.amount, c.paid, c.outstanding} THEN "unknown"
    ELSE IF c.outstanding = 0 THEN "paid" ELSE IF c.paid = 0 THEN "unpaid"
    ELSE IF c.paid > 0 THEN "partial" ELSE "unknown"

\* What a query may ask.  Amounts of different currencies are not compared.
parsePaymentQuery(q) ==
    /\ q.dueFrom # None /\ q.dueTo # None => q.dueFrom <= q.dueTo
    /\ q.overdueAmountMin # None /\ q.overdueAmountMax # None => q.overdueAmountMin <= q.overdueAmountMax
    /\ q.currency = "__ALL__" => q.overdueAmountMin = None /\ q.overdueAmountMax = None

\* The rows of a currency ("__ALL__": of each) and a payment kind.
CurrencyRows(cases, q) ==
    UNION {{trackingRow(k, states[c.identity], isPortfolioClosed(c, cases),
                        paymentProjectGroups(c, cases)) :
                k \in selectPaymentKind(c, q.paymentKind)} :
           c \in {d \in cases : q.currency \in {"__ALL__", d.identity.currency}}}

Base(cases, q) ==
    {row \in CurrencyRows(cases, q) :
        LET c == row.source
            ranged == q.overdueAmountMin # None \/ q.overdueAmountMax # None IN
        /\ q.projectGroup \in {"", row.group}
        /\ matchesInvoiceOk(c, q.invoiceOk)
        /\ matchesAuthorization(c, q.authorizationState)
        /\ q.representative \in {""} \cup Meta(c).representatives
        /\ InRange(c.oldestDueDate, q.dueFrom, q.dueTo)
        /\ ranged => c.incompleteRows = 0
        /\ InRange(c.overdueAmount, q.overdueAmountMin, q.overdueAmountMax)
        /\ q.paymentState \in {"all", paymentState(c)}
        /\ q.deferral # "all" => (q.deferral = "exists") = (states[c.identity] # None)}

Positive(v) == v # None /\ v > 0

InScope(row, scope) ==
    CASE scope = "all"        -> TRUE
      [] scope = "closed"     -> row.fullyPaid
      [] scope = "actionable" -> isActionable(row)
      [] scope = "overdue"    -> Positive(row.source.overdueAmount)
      [] scope = "open"       -> Positive(row.source.outstanding)
      [] OTHER                -> row.trackingStatus = scope

Filtered(cases, q) == {row \in Base(cases, q) : InScope(row, q.scope)}

Place(seq, x) == IF \E n \in DOMAIN seq : seq[n] = x
                 THEN CHOOSE n \in DOMAIN seq : seq[n] = x ELSE Len(seq) + 1

\* a comes before b: closed last, currencies apart, unknown last, then by key.
Before(q, a, b) ==
    LET money == q.sortBy \in {"amount", "paid", "outstanding", "overdueAmount"}
        x == a.source[q.sortBy]
        y == b.source[q.sortBy]
        cx == Place(Currencies, a.identity.currency)
        cy == Place(Currencies, b.identity.currency) IN
    IF q.scope = "all" /\ a.fullyPaid # b.fullyPaid THEN b.fullyPaid
    ELSE IF q.currency = "__ALL__" /\ money /\ cx # cy THEN cx < cy
    ELSE IF x # y /\ None \in {x, y} THEN y = None
    ELSE IF x # y THEN (IF q.sortDir = "asc" THEN x < y ELSE x > y)
    ELSE Place(Identities, a.identity) < Place(Identities, b.identity)

\* The rows S in that order: none stands after one it comes before.
Listings(q, S) ==
    {list \in SetToSeqs(S) : \A m, n \in DOMAIN list : m < n => ~Before(q, list[n], list[m])}

Sorted(cases, q) == CHOOSE list \in Listings(q, Filtered(cases, q)) : TRUE

TotalPages(total) == Max({1, (total + PageSize - 1) \div PageSize})

\* The rows of a page; a page past the end is the last one.
Page(list, page) ==
    LET p == Min({page, TotalPages(Len(list))})
    IN SubSeq(list, (p - 1) * PageSize + 1, Min({p * PageSize, Len(list)}))

summarizeRows(S, includeMoney) ==
    LET actionable == {row \in S : isActionable(row)} IN
    [closedCount |-> Cardinality({row \in S : row.fullyPaid}),
     openCount |-> Cardinality({row \in S : Positive(row.source.outstanding)}),
     overdueCount |-> Cardinality({row \in S : Positive(row.source.overdueAmount)}),
     actionableCount |-> Cardinality(actionable),
     outstanding |-> IF includeMoney THEN sumKnown([row \in S |-> row.source.outstanding]) ELSE None,
     overdueAmount |-> IF includeMoney THEN sumKnown([row \in S |-> row.source.overdueAmount]) ELSE None,
     actionableAmount |-> IF includeMoney THEN sumKnown([row \in actionable |-> row.source.outstanding])
                          ELSE None,
     incompleteRows |-> SumFunction([row \in S |-> row.source.incompleteRows])]

paymentList(cases, q) ==
    LET S == Filtered(cases, q) IN
    [rows |-> Page(Sorted(cases, q), q.page),
     total |-> Cardinality(S),
     totalPages |-> TotalPages(Cardinality(S)),
     summary |-> summarizeRows(Base(cases, q), q.currency # "__ALL__"),
     filteredSummary |-> summarizeRows(S, q.currency # "__ALL__"),
     currencyBreakdown |->
       [u \in {c.identity.currency : c \in cases} |->
          summarizeRows({row \in S : row.identity.currency = u}, TRUE)]]

\* The whole list, page after page.
exportAll(cases, q) ==
    FlattenSeq([p \in 1..paymentList(cases, q).totalPages |->
                  paymentList(cases, [q EXCEPT !.page = p]).rows])

\* One case: its row, and all the cases of its portfolio.
describe(cases, c) ==
    LET portfolio == Portfolio(cases, c)
        row(d) == trackingRow(d, states[d.identity], isPortfolioClosed(c, portfolio),
                              paymentProjectGroups(d, portfolio))
    IN [item |-> row(c), portfolio |-> {row(d) : d \in portfolio}]

\* A case may be deferred while something is open, and to later than today and its due date.
defer ==
    /\ \E c \in Cases, d \in FollowUpDates :
         /\ None \notin {c.identity.customer, c.identity.unit, c.identity.currency}
         /\ Positive(c.outstanding)
         /\ c.oldestDueDate # None /\ d > c.oldestDueDate /\ d > asOf
         /\ states' = [states EXCEPT ![c.identity] = d]
    /\ UNCHANGED rows

-----------------------------------------------------------------------------
(* The collection report.  q.startMonth None is the month after asOf.      *)

\* Faulty variant: what is due today is overdue.
overdueAmountToday(l) ==
    IF l.outstanding = 0 THEN 0
    ELSE IF l.dueDate = None THEN None
    ELSE IF l.dueDate <= asOf THEN l.outstanding ELSE 0

overdueAmount(l) ==
    IF l.outstanding = 0 THEN 0
    ELSE IF l.dueDate = None THEN None
    ELSE IF l.dueDate < asOf THEN l.outstanding ELSE 0

totals(L) ==
    [scheduled |-> sumKnown([l \in L |-> l.amount]),
     paidToDate |-> sumKnown([l \in L |-> l.paid]),
     outstanding |-> sumKnown([l \in L |-> l.outstanding]),
     overdue |-> sumKnown([l \in L |-> overdueAmount(l)]),
     caseCount |-> Cardinality({l.identity : l \in L}),
     installmentCount |-> Cardinality(L),
     incompleteRows |-> Cardinality({l \in L : l.incomplete})]

\* The share collected, where every amount is known and none is negative.
performanceTotals(L) ==
    LET t == totals(L)
        complete == t.incompleteRows = 0 /\ \A l \in L : l.amount >= 0 /\ l.paid >= 0
    IN [totals |-> t,
        completion |-> IF complete /\ t.scheduled > 0 THEN <<t.paidToDate, t.scheduled>> ELSE None]

isOverdue(l) ==
    /\ l.dueDate # None
    /\ l.dueDate < asOf
    /\ l.outstanding = None \/ l.outstanding > 0

AGING_KEYS == {"1_30", "31_60", "61_90", "90_plus"}

agingKey(l) ==
    LET days == asOf - l.dueDate IN
    IF days <= 30 THEN "1_30" ELSE IF days <= 60 THEN "31_60" ELSE IF days <= 90 THEN "61_90" ELSE "90_plus"

\* Faulty variant: a case is counted once for each of its representatives.
representativeGroupEach(i) ==
    IF invoice[i].representatives = {} THEN {"unassigned"} ELSE invoice[i].representatives

\* A case belongs to one group: that of its only representative, or of those with several or none.
representativeGroup(i) ==
    LET names == invoice[i].representatives IN
    IF Cardinality(names) = 1 THEN names
    ELSE IF names = {} THEN {"unassigned"} ELSE {"multiple"}

Start(q) == IF q.startMonth = None THEN Month(asOf) + 1 ELSE q.startMonth
Periods(q) == Start(q) .. (Start(q) + Months - 1)
InMonth(L, m) == {l \in L : l.dueDate # None /\ Month(l.dueDate) = m}

TotalsOf(parts) == [k \in DOMAIN parts |-> totals(parts[k])]
PerformanceOf(parts) == [k \in DOMAIN parts |-> performanceTotals(parts[k])]

breakdown(L, q) ==
    [totals |-> TotalsOf([overdue |-> {l \in L : isOverdue(l)},
                          nextMonth |-> InMonth(L, Month(asOf) + 1)]),
     performance |-> PerformanceOf([m \in Periods(q) |-> InMonth(L, m)]),
     period |-> performanceTotals(UNION {InMonth(L, m) : m \in Periods(q)})]

\* Known exactly, or not at all.
exactOutstanding(L) ==
    IF \E l \in L : l.incomplete THEN None ELSE sumKnown([l \in L |-> l.outstanding])

ReportCases(all, q) ==
    {c \in UNION {selectPaymentKind(d, q.paymentKind) :
                    d \in {e \in all : q.currency \in {"__ALL__", e.identity.currency}}} :
        /\ q.projectGroup \in {"", paymentProjectGroups(c, all)}
        /\ q.representative \in {""} \cup Meta(c).representatives
        /\ matchesAuthorization(c, q.authorizationState)
        /\ matchesInvoiceOk(c, q.invoiceOk)}

\* The block of one currency.  "project" gives the project of each identity.
byCurrency(q, cases, currency, project) ==
    LET L == UNION {c.installments : c \in {d \in cases : d.identity.currency = currency}}
        dated == {l \in L : l.dueDate # None}
        overdue == {l \in dated : isOverdue(l)}
        past == {m \in {Month(l.dueDate) : l \in dated} : m < Month(asOf)} IN
    [totals |-> TotalsOf(
       [summary |-> L,
        overdue |-> overdue,
        undated |-> L \ dated,
        beforeWindow |-> {l \in dated : Month(l.dueDate) < Start(q)},
        afterWindow |-> {l \in dated : Month(l.dueDate) > Start(q) + Months - 1},
        currentMonthRemaining |-> {l \in InMonth(L, Month(asOf)) : l.dueDate >= asOf}]),
     aging |-> TotalsOf([k \in AGING_KEYS |-> {l \in overdue : agingKey(l) = k}]),
     period |-> performanceTotals(UNION {InMonth(L, m) : m \in Periods(q)}),
     monthly |-> PerformanceOf([m \in Periods(q) |-> InMonth(L, m)]),
     historical |-> PerformanceOf([m \in past |-> InMonth(L, m)]),
     projectInsights |-> [p \in {project[l.identity] : l \in L} |->
                            exactOutstanding({l \in overdue : project[l.identity] = p})],
     projectBreakdown |-> [p \in {project[l.identity] : l \in L} |->
                             breakdown({l \in L : project[l.identity] = p}, q)],
     representativeBreakdown |->
       [g \in UNION {representativeGroup(l.identity) : l \in L} |->
          breakdown({l \in L : g \in representativeGroup(l.identity)}, q)]]

\* The cases behind a figure.
Details(q, cases) ==
    LET included(l) ==
          CASE q.detailScope = "overdue" -> isOverdue(l)
            [] q.detailScope = "period"  -> l.dueDate # None /\ Month(l.dueDate) \in Periods(q)
            [] q.detailScope = "undated" -> l.dueDate = None
            [] OTHER -> l.dueDate # None /\ Month(l.dueDate) = Month(asOf) + 1
        L == {l \in UNION {c.installments : c \in cases} : included(l)}
    IN {[identity |-> i, totals |-> totals({l \in L : l.identity = i})] : i \in {l.identity : l \in L}}

Report(q, cases, project) ==
    [byCurrency |-> [u \in {c.identity.currency : c \in cases} |-> byCurrency(q, cases, u, project)],
     detail |-> Details(q, cases)]

buildCollectionReport(all, q) ==
    Report(q, ReportCases(all, q),
           [i \in {c.identity : c \in all} |-> paymentProjectGroups([identity |-> i], all)])

-----------------------------------------------------------------------------
(* The installment table: sale rows of the DND cases without a code.       *)

totalsFor(L) ==
    [count |-> Cardinality(L),
     amount |-> sumExact([l \in L |-> l.amount]),
     paid |-> sumExact([l \in L |-> l.paid]),
     outstanding |-> sumExact([l \in L |-> l.outstanding])]

buildInstallmentTable(all, currency, status) ==
    LET eligible == {c \in all : matchesInvoiceOk(c, "DND") /\ matchesAuthorization(c, "blank")}
        L == {l \in UNION {c.installments : c \in eligible} :
                /\ l.kind = "sale"
                /\ l.identity.currency = currency
                /\ CASE status = "all"     -> TRUE
                     [] status = "open"    -> Positive(l.outstanding)
                     [] status = "paid"    -> l.outstanding = 0
                     [] status = "overdue" -> l.status = "overdue"}
        months == {Month(l.dueDate) : l \in {k \in L : k.dueDate # None}} IN
    [rows |-> L,
     overall |-> totalsFor(L),
     throughPreviousMonth |-> totalsFor({l \in L : l.dueDate # None /\ Month(l.dueDate) < Month(asOf)}),
     undated |-> totalsFor({l \in L : l.dueDate = None}),
     months |-> [m \in months |-> totalsFor(InMonth(L, m))]]

-----------------------------------------------------------------------------
Next == SourceGrows \/ defer

Spec == Init /\ [][Next]_vars

-----------------------------------------------------------------------------
(* Properties.                                                             *)

Query == [currency |-> "__ALL__", paymentKind |-> "all", projectGroup |-> "", invoiceOk |-> "all",
          authorizationState |-> "all", representative |-> "", dueFrom |-> None, dueTo |-> None,
          overdueAmountMin |-> None, overdueAmountMax |-> None, paymentState |-> "all",
          deferral |-> "all", scope |-> "all", sortBy |-> "outstanding", sortDir |-> "desc",
          page |-> 1, startMonth |-> None, detailScope |-> "overdue"]

CurrencyQueries == {[Query EXCEPT !.currency = u] : u \in {c.identity.currency : c \in Cases}}
Kinds == {r.kind : r \in Rows}

ListQueries ==
    {p \in {[Query EXCEPT !.sortBy = s, !.sortDir = d, !.scope = c, !.currency = u, !.overdueAmountMin = m] :
              s \in {"overdueAmount", "oldestDueDate"}, d \in {"asc", "desc"},
              c \in {"all", "open"}, u \in {"__ALL__", None}, m \in {None, 1}} :
       parsePaymentQuery(p)}

Plus(x, y) == IF x = None THEN y ELSE IF y = None THEN x ELSE x + y

Sum(parts, f) == SumFunction([k \in DOMAIN parts |-> parts[k][f]])

BlockAddsUp(b, detail, f) ==
    LET t == b.totals IN
    /\ t.summary[f] = t.undated[f] + t.beforeWindow[f] + b.period.totals[f] + t.afterWindow[f]
    /\ b.period.totals[f] = Sum([m \in DOMAIN b.monthly |-> b.monthly[m].totals], f)
    /\ t.overdue[f] = Sum(b.aging, f)
    /\ t.overdue[f] = Sum(detail, f)
    /\ \A split \in {b.projectBreakdown, b.representativeBreakdown} :
         t.overdue[f] = Sum([k \in DOMAIN split |-> split[k].totals.overdue], f)

MoneyAddsUp(b, f) ==
    Plus(b.totals.summary[f], 0) =
        Plus(Plus(b.totals.undated[f], b.totals.beforeWindow[f]),
             Plus(b.period.totals[f], Plus(b.totals.afterWindow[f], 0)))

\* The parts of a report make up the whole: rows without a date, before, in and after the
\* window; the ages of what is overdue; its projects; its representatives, where a case of
\* several is counted once; and the details behind the figure (docs/payment-tracking.md).
ReportAddsUp ==
    \A q \in {[Query EXCEPT !.paymentKind = k, !.startMonth = s] :
                k \in {"all", "sale"}, s \in {None, Month(asOf) - 1}} :
      \A report \in {buildCollectionReport(Cases, q)} :
        \A u \in DOMAIN report.byCurrency :
          LET detail == {d \in report.detail : d.identity.currency = u} IN
          /\ \A f \in {"installmentCount", "incompleteRows"} :
               BlockAddsUp(report.byCurrency[u],
                           [i \in {d.identity : d \in detail} |->
                              (CHOOSE d \in detail : d.identity = i).totals], f)
          /\ \A f \in {"overdue", "outstanding"} : MoneyAddsUp(report.byCurrency[u], f)

\* What the list calls overdue, in a currency and of a kind, is what the report calls overdue,
\* and what the installment table shows of it: three computations over the same rows.
ListIsReport(listed, totalled) ==
    /\ listed.outstanding = totalled.outstanding
    /\ listed.incompleteRows = totalled.incompleteRows
    /\ listed.overdueAmount # None => listed.overdueAmount = totalled.overdue

ViewsAgree ==
    \A all \in {Cases} : \A q \in CurrencyQueries :
      /\ \A k \in Kinds \cup {"all"} :
           \A p \in {[q EXCEPT !.paymentKind = k]} :
             \A b \in {r.byCurrency : r \in {buildCollectionReport(all, p)}} :
               q.currency \in DOMAIN b =>
                 ListIsReport(paymentList(all, p).filteredSummary, b[q.currency].totals.summary)
      /\ \A tabled \in {l.filteredSummary :
             l \in {paymentList(all, [q EXCEPT !.paymentKind = "sale", !.invoiceOk = "DND",
                                               !.authorizationState = "blank"])}} :
           tabled.overdueAmount # None =>
             tabled.overdueAmount = buildInstallmentTable(all, q.currency, "overdue").overall.outstanding

\* The kinds of payment divide a case: nothing is lost between them or counted twice, and
\* the oldest date of the case is the oldest of its kinds.
KindsDivideCases ==
    \A c \in Cases :
      LET parts == UNION {selectPaymentKind(c, k) : k \in Kinds}
          Whole(f) == Plus(c[f], 0) = Plus(sumKnown([k \in parts |-> k[f]]), 0) IN
      /\ \A f \in {"amount", "paid", "outstanding", "overdueAmount", "incompleteRows"} : Whole(f)
      /\ c.oldestDueDate = First({k.oldestDueDate : k \in parts} \ {None})
      /\ \A k \in parts : k.oldestDueDate \in OpenDates(k.installments) \cup {None}

\* A file shown as paid off has nothing open or unknown in any currency or kind, whatever
\* the list is filtered by, and its detail says the same.
ClosedIsPaidOff ==
    \A all \in {Cases}, q \in CurrencyQueries, k \in Kinds :
      \A row \in CurrencyRows(all, [q EXCEPT !.paymentKind = k]) :
        LET same == {n \in DOMAIN rows : rows[n].identity.customer = row.identity.customer
                                         /\ rows[n].identity.unit = row.identity.unit} IN
        /\ row.fullyPaid <=> \A n \in same : outstanding(rows[n]) = 0 /\ rows[n].dueDate # None
                                             /\ rows[n].identity.currency # None
        /\ \A c \in all : c.identity = row.identity => describe(all, c).item.fullyPaid = row.fullyPaid

\* The pages of the list, one after the other, are the list: each case once, and in order.
PagesAreTheList ==
    \A all \in {Cases} : \A q \in ListQueries :
      \A list \in {exportAll(all, q)} :
        /\ Range(list) = Filtered(all, q)
        /\ Len(list) = Cardinality(Range(list))
        /\ \A m, n \in DOMAIN list : m < n => Before(q, list[m], list[n])
=============================================================================

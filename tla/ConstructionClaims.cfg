SPECIFICATION Spec
CONSTANTS
    NoClaim = NoClaim
    NoLine = NoLine
    Requests = {r1, r2}
    Claims = {c1, c2, c3}
    Lines = {l1}
    Numbers = {n1, n2, n3}
    Rates = {5}
    PreviousQuantities = {0}
    AcceptedQuantities = {0, 1}
    MaxPeriod = 3
    MaxVersion = 3
SYMMETRY Symmetry
INVARIANTS
    CarriedForward
PROPERTIES
    ClosedPeriodStays
    HistoryIsExact

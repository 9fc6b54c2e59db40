\* Two sales through timeouts, overlapping retries, a crash and a factory reset.
CONSTANTS
    s1 = s1
    s2 = s2
    v1 = v1
    v2 = v2
    Sales <- TwoSales
    Variants <- OneVariant
    Cart <- UnitCarts
    OpeningStock <- OneEach
    MaxCrashes = 1
    MaxFaults = 0
    MaxRefusals = 0
    MaxResets = 1
    MaxOtherMoves = 0
SYMMETRY SameSales
SPECIFICATION Spec
\* a wiped terminal has nothing left to do
CHECK_DEADLOCK FALSE
INVARIANT SaleKept
INVARIANT NoConflict
PROPERTY SentIsFinal
PROPERTY ImplementsLedger

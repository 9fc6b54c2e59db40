\* One sale with every kind of failure: crash, failed write, refused pull, reset.
CONSTANTS
    s1 = s1
    s2 = s2
    v1 = v1
    v2 = v2
    Sales <- OneSale
    Variants <- OneVariant
    Cart <- UnitCarts
    OpeningStock <- TwoEach
    MaxCrashes = 1
    MaxFaults = 1
    MaxRefusals = 1
    MaxResets = 1
    MaxOtherMoves = 1
SPECIFICATION Spec
\* a wiped terminal has nothing left to do
CHECK_DEADLOCK FALSE
INVARIANT SaleKept

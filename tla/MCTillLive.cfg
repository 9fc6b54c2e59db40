\* Liveness: a sale, a crash, an unreliable network; no local write fails.
CONSTANTS
    s1 = s1
    s2 = s2
    v1 = v1
    v2 = v2
    Sales <- OneSale
    Variants <- OneVariant
    Cart <- UnitCarts
    OpeningStock <- TwoEach
    MaxCrashes = 1
    MaxFaults = 0
    MaxRefusals = 0
    MaxResets = 0
    MaxOtherMoves = 0
SPECIFICATION FairSpec
PROPERTY SaleEventuallyResolved

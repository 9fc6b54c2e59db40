\* Another till sells the last unit too: the branch stock goes below zero.
CONSTANTS
    s1 = s1
    s2 = s2
    v1 = v1
    v2 = v2
    Sales <- TwoSales
    Variants <- TwoVariants
    Cart <- SplitCarts
    OpeningStock <- OneEach
    MaxCrashes = 0
    MaxFaults = 0
    MaxRefusals = 0
    MaxResets = 0
    MaxOtherMoves = 1
SPECIFICATION FairSpec
PROPERTY SaleEventuallyResolved

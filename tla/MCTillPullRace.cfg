\* A sale between the second look at the outbox and the pull.
CONSTANTS
    s1 = s1
    s2 = s2
    v1 = v1
    v2 = v2
    Sales <- TwoSales
    Variants <- OneVariant
    Cart <- UnitCarts
    OpeningStock <- TwoEach
    MaxCrashes = 0
    MaxFaults = 0
    MaxRefusals = 0
    MaxResets = 0
    MaxOtherMoves = 0
SPECIFICATION Spec
PROPERTY PullKeepsReservations

SPECIFICATION Spec
CONSTANTS
    Branches = {b1, b2}
    v1 = v1
    v2 = v2
    Variants = {v1, v2}
    TransferIds = {t1, t2}
    Keys = {k1, k2, k3, k4}
    MaxQty = 2
    Orders <- SmallOrders
    OpeningStock = 2
    MaxSold = 1
    NoRoute = NoRoute
SYMMETRY Interchangeable
INVARIANTS
    UnitsConserved
    LedgersReconcile
    DatabaseAgrees
PROPERTIES
    UsedKeysAreInert
CHECK_DEADLOCK FALSE

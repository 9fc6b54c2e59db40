\* A cash sale that reads its shift while it is open and commits after close.
CONSTANTS
    s1 = s1
    s2 = s2
    r1 = r1
    r2 = r2
    u1 = u1
    u2 = u2
    c1 = c1
    Sales <- TwoSales
    Returns <- NoReturns
    Staff <- OneStaff
    Customers <- OneCustomer
    Cash <- TwoSales
    Qty <- TwoPieces
    Buyer <- NoBuyers
    Original <- OfFirst
    Back <- TwoAndOne
    MaxShifts = 1
SPECIFICATION Spec
\* the branch may stop serving customers
CHECK_DEADLOCK FALSE
INVARIANT ClosedShiftReconciled

\* Two tills, two returns of one line, two managers, one customer, two shifts.
CONSTANTS
    s1 = s1
    s2 = s2
    r1 = r1
    r2 = r2
    u1 = u1
    u2 = u2
    c1 = c1
    Sales <- TwoSales
    Returns <- TwoReturns
    Staff <- TwoStaff
    Customers <- OneCustomer
    Cash <- TwoSales
    Qty <- TwoPieces
    Buyer <- SameBuyer
    Original <- OfFirst
    Back <- TwoAndOne
    MaxShifts = 2
SPECIFICATION Spec
\* the branch may stop serving customers
CHECK_DEADLOCK FALSE
INVARIANT OneOpenShift
INVARIANT ReturnsWithinSale
PROPERTY ClosedShiftOnlyGrows

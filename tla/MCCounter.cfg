\* The till as the cashier meets it, one part at a time.
SPECIFICATION Spec
CONSTANTS
    Nobody = Nobody
    Cashiers = {ana, bo}
    Tills = {t1, t2}
    Shifts = {s1, s2}
    MaxCalls = 2
    MaxBadWrites = 1
    Goods = {"g1"}
    OnShelf <- TwoOnShelf
    MaxHeld = 1
    MaxScans = 1
    MaxInFlight = 1
    MaxPayments = 2
    MaxTaken = 2
    MaxCarts = 2
    Pages = 2
    Units = 2
    MaxLoads <- FewLoads
    MaxOpenings = 2
    MaxReturns = 2
    Releases <- FiveReleases
    Legacy = 2
    FreshFor = 0
    StaleFor = 1
    MaxUnsent = 2
    MaxReleases = 2
    Dirs <- ThreeDirs
    OldSales <- OneSaleEach
    MaxSales = 1
    MaxStops = 2
SYMMETRY Mirror
INVARIANTS
    ContextOwned
    OneSalePerCart
    PaymentsWatched
    PagesAndReturnsHonest
    LegacyTakenWhole
PROPERTY UpdateSafe
CHECK_DEADLOCK FALSE

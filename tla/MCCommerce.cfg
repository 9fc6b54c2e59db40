SPECIFICATION Spec
CONSTANTS
    Books = {"b1", "b2"}
    BookScopes = {"s"}
    Clerks = {"ana", "bo"}
    BookCalls = {c1, c2}
    MaxEdits = 4
    Pricers = {"ana", "bo"}
    Publishers = {"ana"}
    UnitPrices = {0, 5}
    EntryCalls = {c1, c2}
    MaxVersion = 3
    MaxEntryCalls = 4
    CodeIds = {"t1", "t2"}
    CodeNames = {"VAT", "ALT"}
    Rates = {14, 15}
    TaxClerks = {ana, bo}
    TaxCalls = {c1, c2}
    MaxTaxCalls = 4
    Staff = {"ana", "bo", "cy"}
    Trusted = {"ana"}
    Quotations <- OneQuotation
    Limits <- TwoLimits
    Asked = {3, 33}
    RowIds = {"r1", "r2"}
    ExcCalls = {c1, c2}
    MaxExcCalls = 3
    PromoIds = {"p1"}
    BundleIds = {"u1", "u2"}
    Marketers = {"ana", "bo"}
    PromoCalls = {c1, c2}
    MaxPromoCalls = 3
    MaxContent = 1
    Keys = {"k1", "k2"}
    Shoppers = {"sh", "ot"}
    ShopperOf <- OneShopper
    CouponShapes <- Shapes
    NewCaps = {1, 3}
    CouponSlots = {c1, c2}
    MaxAttempts = 3
    MaxUpdates = 2
    EntryPool <- Pool
    Amounts = {0, 1, 2, 3, 4, 5, 7, 10, 25, 33, 50, 99, 100}
    TaxRates = {0, 5, 14}
    Quantities = {1, 2, 3, 5}
    Benefits <- SevenBenefits
    Running <- FourRunning
    Lines <- SmallLines
    BundlePrices = {0, 1, 2, 3, 5, 10, 99}
    BundleSizes = {1, 2, 3, 4}
    Standalone = {0, 1, 2, 3}
    CatalogueSlots = {c1, c2, c3}
    RowKeys = {"k1", "k2"}
    EntityIds = {1, 2}
    MaxConversions = 5
    MaxOffers = 3
    Tenants = {"a", "b"}
    ListSlots = {l1, l2}
    Writes = {w1}
    MaxCounts = 3
    CacheLimit = 1
    CountTtl = 1
    LastMoment = 1
    s1 = s1
    s2 = s2
    n1 = n1
    Variants = {1, 2}
    Suppliers = {s1, s2}
    Papers <- SmallPapers
    LegacyPapers <- OldPapers
    Commands = {m1, m2}
    NoCommand = NoCommand
    NoNumber = NoNumber
    Actors <- Buyers
    HomeBranch = b1
    b1 = b1
    b2 = b2
    OpeningStock = 1
    OpeningCost = 70
    MaxSteps = 5
SYMMETRY Mirror
INVARIANTS
    OneInForce
    LiveOffersComplete
    CouponCounted
    QuoteSound
    CatalogueSound
    TotalsFresh
    ReceiptBookedOnce
    CentsExact
    ReversalUndoesReceipt
    CostLedgerSound
PROPERTIES
    EvidenceKept
    OneLifecycle
CHECK_DEADLOCK FALSE

SPECIFICATION Spec
CONSTANTS
    Identities = {i1, i2, i3, i4}
    Founders = {i1, i2}
    Emails = {e1}
    Offers <- SmallOffers
    NewRoles = {"tenant_owner", "cashier"}
    Slots = {s1, s2}
    NoScope = NoScope
    MaxRequests = 4
    Versions = {1, 2, 3}
    Instances = {"old", "new1", "new2"}
    ReleaseOf <- Rollout
    Modes = {"metadata_only", "read_only"}
    MaxGrantTime = 1
    Tabs = {t1, t2}
    MaxTokens = 3
    Users = {"mona", "ali"}
    Capabilities = {"users.manage"}
    RoleOf <- Roles
    RoleGrants <- ManagerGrants
    BranchOf <- OneBranch
    Ttl = 2
    SlowestLookup = 1
    MaxClock = 4
    Devices = {d1, d2}
    Branches = {"b1", "b2"}
    HomeBranch = "b1"
    Desks = {k1, k2}
    MaxCodes = 2
    Sellers = {"sami"}
    Sales <- OneSale
    Plans <- SmallPlans
    Default <- StartPlan
    Closers = {c1, c2}
    LastDay = 1
    MaxChanges = 2
    ConfirmDelay = 1
    ConfirmWindow = 1
    Hash <- SomeHashes
    Attempts = {1, 6, 7}
    MaxOnWire = 1
    LastTick = 2
SYMMETRY Mirror
INVARIANTS
    MembershipSafe
    SessionSafe
    RightsTakeEffect
    TerminalCredential
    CommissionReproducible
    FailureVerdict
PROPERTY PolicyForward
CHECK_DEADLOCK FALSE

SPECIFICATION MCCustomerSpec
CONSTANTS
    Listings = {l1}
    Addons = {"staging"}
    Included <- TwoPlans
    RolloverCap <- TwoCaps
    ListingCost = 3
    DefaultCost = 2
    AddonCost <- OneAddon
    BundleCost = 2
    TopUps = {e1}
    TopUpSize = 2
    Adjustments = {}
    Requests = {p1, p2}
    MaxLedger = 7
    Invoices = {v1}
    MaxDeliveries = 1
    l1 = l1
    e1 = e1
    p1 = p1
    p2 = p2
    v1 = v1
INVARIANTS TypeOK PoolsAddUp LedgerChains
PROPERTIES GrantedFirst
CHECK_DEADLOCK FALSE

SPECIFICATION MCSpec
CONSTANTS
    Listings = {l1}
    Addons = {"staging"}
    Included <- OnePlan
    RolloverCap <- OneCap
    ListingCost = 3
    DefaultCost = 2
    AddonCost <- OneAddon
    BundleCost = 2
    TopUps = {}
    TopUpSize = 2
    Adjustments = {1}
    Requests = {p1, p2}
    MaxLedger = 5
    Invoices = {}
    MaxDeliveries = 1
    l1 = l1
    p1 = p1
    p2 = p2
INVARIANTS ListingRefundedOnce AddonChargedOnce
SYMMETRY Interchangeable
CHECK_DEADLOCK FALSE

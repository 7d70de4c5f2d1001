CONSTANTS
    r1 = r1
    r2 = r2
    r3 = r3
    key = key
    tenant = tenant
    Unlimited = Unlimited
    Request <- TwoRequests
    Scope <- KeyAndTenant
    Rank <- RankOf
    Guards <- BothKeys
    Limit <- MixedCaps
    RateHard = {key}
    BudgetHard = {key, tenant}
    Threshold <- AlertAtHalf
    Usage <- UnitUsage
    EpochOf <- Calendar
    CountMask = 2
    MaxClock = 2
    MaxArrivals = 4
SYMMETRY Symmetry
SPECIFICATION Spec
INVARIANTS
    RequestsExact
    OvershootBounded
    AlertsOncePerWindow
    CrossingAnnounced
CHECK_DEADLOCK FALSE

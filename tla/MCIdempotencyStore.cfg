CONSTANTS
    r1 = r1
    r2 = r2
    r3 = r3
    k1 = k1
    k2 = k2
    b1 = b1
    b2 = b2
    Request <- ThreeRequests
    Tenant <- TwoTenants
    ClientKey <- TwoKeys
    Body <- TwoBodies
    Asks <- MixedAsks
    TTL = 1
    MaxEntries = 2
    MaxClock = 1
SPECIFICATION FairSpec
INVARIANTS
    SingleFlight
    ChargedOnce
    ReplayFaithful
PROPERTIES
    FairEviction
    NotPinnedForever
CHECK_DEADLOCK FALSE

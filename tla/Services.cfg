CONSTANTS
    p1 = p1
    p2 = p2
    None = None
    Producer <- TwoProducers
    NumTenants = 3
    INGEST_CHANNEL_CAPACITY = 3
    MAX_RETAINED_EVENTS = 2
    MaxEvents = 3
    Tasks = {"t1", "t2"}
    Clients = {"r1", "r2", "r3"}
    Handler <- MCHandler
    Source <- MCSource
    SlotOf <- MCSlotOf
    Threshold = 2
    FailureMask = 3
    MaxEpoch = 1
    Emails = {"a"}
    SecretFromEnv = TRUE
    MaxVersion = 2
    ConsoleBoots = 3
    TenantList <- MCTenantList
    Keys <- MCKeys
    BudgetBytes = 19
    MaxWriteRetention = 8
    KeyOverhead = 1
    MaxEntryBytes = 4
    Bodies = {1, 4, 5}
    Ttls = {1, 2}
    MaxTime = 1
    Chats = {"c1"}
    Calls <- MCCalls
    Asks <- MCAsks
    BuiltIns = {9}
    Globals <- MCGlobals
    AllowPrivate = TRUE
    MaxBoots = 2
    ReqCap = {0, 5}
    MicroCap = {0, 1, 7}
    AuthoredCap = {0, 1, 3}
    FxRate = {0, 1, 3}
    Micro = 4
    CountMask = 6
    MaxReplicas = 3
    Jobs <- MCJobs
    BuiltInNames = {"x"}
    CellOf <- MCCellOf
    FpOf <- MCFpOf
    UNTIL_MASK = 3
    MaxJobs = 4
    Requests = {1, 2}
    Replicas = {"east", "west"}
    Specs <- MCSpecs
    Limit <- MCLimit
    ReplicaShare <- MCShare
    Hard = {"key", "tenant"}
    Fallbacks = {"open", "closed"}
    Window = 2
    Grace = 2
    Timeout = 1
    MaxClock = 4
SPECIFICATION ServicesSpec
INVARIANTS
    UsageBooks
    NothingLearnedIsLost
    SessionsEnd
    CacheWithinShare
    RegistryIsDurable
    CapsKeepTheirMeaning
PROPERTIES
    UsageSettlesOnce
CHECK_DEADLOCK FALSE

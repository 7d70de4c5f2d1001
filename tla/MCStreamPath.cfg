SPECIFICATION Spec
CONSTANTS
    NTargets = 3
    Pooled = {2}
    PoolSize <- Pools
    MaxRetries = 1
    OnStatus = {"RateLimited", "Upstream5xx"}
    Tokens = {1, 2}
    MaxChunks = 3
INVARIANTS
    AccountedOnce
    EvidenceOnly
CHECK_DEADLOCK FALSE

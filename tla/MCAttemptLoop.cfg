SPECIFICATION Spec
CONSTANTS
    NTargets = 3
    Pooled = {2}
    PoolSize <- Pools
    TargetTimeout <- Timeouts
    MaxRetries = 1
    OnStatus = {"RateLimited", "Upstream5xx"}
    Backoffs = {0, 1}
    RetryAfters = {0, 2}
    Budget = 3
    PerAttempt = 2
    ClientCaps = {0,1,2}
    Hedges = {0,1,2}
    HedgeDelay = 1
    Slack = 1
INVARIANTS WithholdOnly NoFaultHidden PoolFeedsOnce NoTargetSkipped RetryAfterHonoured DeadlineKept

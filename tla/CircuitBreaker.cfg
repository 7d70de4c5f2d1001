CONSTANTS
    Task = {t1, t2}
    FailureThreshold = 2
    SuccessThreshold = 1
    Cooldown = 1
    MaxClock = 2
SPECIFICATION FairSpec
INVARIANTS
    GaugeBalanced
    ProbeCap
    TrippedIsTransient
    HealedIsTransient
PROPERTIES
    SelfHeals

CONSTANTS
    Producer = {p1, p2}
    Flusher = {f1}
    NumLanes = 2
    LaneCapacity = 1
    WriterBudget = 3
    Cost = {1, 2}
    MaxOps = 1
SPECIFICATION FairSpec
INVARIANTS
    LaneBooks
    FifoExactlyOnce
PROPERTIES
    FlushIsABarrier
    PendingApplied
CHECK_DEADLOCK FALSE

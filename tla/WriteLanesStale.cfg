CONSTANTS
    Producer = {p1}
    Flusher = {}
    NumLanes = 1
    LaneCapacity = 2
    WriterBudget = 3
    Cost = {1}
    MaxOps = 3
SPECIFICATION Spec
INVARIANT
    NothingStranded
CHECK_DEADLOCK FALSE

SPECIFICATION BoundedSpec
CONSTANTS
    Hierarchies <- WriteBackCaches
    LineSize = 2
    Addresses <- ThreeLines
    Instructions <- ThreeLines
    Data = {0}
    InitData = 0
    FreedFlags = {TRUE, FALSE}
    CounterMax = 20
    HistoryMax = 1
    MaxCalls = 4
INVARIANTS
    ModifiedEvictionsCounted

SPECIFICATION BoundedSpec
CONSTANTS
    Hierarchies <- TwoLineCaches
    LineSize = 2
    Addresses <- FourAddresses
    Instructions <- ThreeLines
    Data = {0}
    InitData = 0
    FreedFlags = {FALSE}
    CounterMax = 20
    HistoryMax = 2
    MaxCalls = 5
INVARIANTS
    MemoryTraffic
    MemoryWritebacks
    L2Requests
    WriteAllocations

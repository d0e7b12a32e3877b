SPECIFICATION Spec
CONSTANTS
    Hierarchies <- OneLineCaches
    LineSize = 2
    Addresses <- ThreeLines
    Instructions <- TwoLines
    Data <- TwoValues
    InitData = 0
    FreedFlags = {FALSE}
    CounterMax = 0
    HistoryMax = 1
INVARIANTS
    TypeOK
    CleanLinesMatch
    StoreHitsAreWrittenThrough
PROPERTIES
    ImplementsMemory

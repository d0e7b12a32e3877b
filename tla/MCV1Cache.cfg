SPECIFICATION Spec
CONSTANTS
    Configs <- AllConfigs
    LineSize = 2
    PageSize = 12
    Threshold = 2
    HistoryMax = 2
    Addresses <- FourLines
INVARIANTS
    TypeOK
    CleanLinesMatch
    FullKeepsStores
    OrderMatchesTable
    NeverFails
CHECK_DEADLOCK FALSE

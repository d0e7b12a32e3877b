SPECIFICATION Spec
CONSTANTS
    Configs <- WithoutPrefetching
    LineSize = 2
    PageSize = 12
    Threshold = 2
    HistoryMax = 2
    Addresses <- FourLines
INVARIANTS
    NoStoreIsLost
CHECK_DEADLOCK FALSE

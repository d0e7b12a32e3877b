SPECIFICATION LinkedSpec
CONSTANTS
    Config <- MCConfig
    Addresses <- MCAddresses
    MaxUses = 6
    Nodes = {n1, n2, n3, n4, n5}
    NULL = NULL
INVARIANTS
    TypeOK
    RecencyOrder
    KeepsMostRecent
    ListsAreSound
PROPERTIES
    NoSilentLoss
    ImplementsLru
SYMMETRY NodeSymmetry

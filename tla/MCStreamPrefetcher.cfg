SPECIFICATION StreamSpec
CONSTANTS
    Nodes = {n1, n2, n3, n4, n5}
    NULL = NULL
    Accessed <- MCAddresses
    AddressSpace = 16
    LineSize = 2
    PageSize = 8
    MaxSize = 4
    SeqThreshold = 3
INVARIANTS
    StreamTypeOK
    HoldsLastAccesses
    FollowsStreams
    AscendsWithinPage
SYMMETRY NodeSymmetry

SPECIFICATION Spec
CONSTANTS
    Versions = {1, 2}
    Ips = {i1, i2}
    Addresses <- SixLines
    AddressSpace = 24
    IntSpace = 12
    LineSize = 2
    MaxStride = 2
    MinOccurence = 4
    MaxTableSize = 1
    AbsOfIntMin = {TRUE, FALSE}
INVARIANTS
    TypeOK
    OccurenceCounts
    FollowsSteadyMoves
PROPERTIES
    MissesNoSteadyMove
SYMMETRY InstructionSymmetry
CHECK_DEADLOCK FALSE

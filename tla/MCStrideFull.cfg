SPECIFICATION Spec
CONSTANTS
    Versions = {2}
    Ips = {i1, i2, i3}
    Addresses <- FourLines
    AddressSpace = 32
    IntSpace = 16
    LineSize = 2
    MaxStride = 2
    MinOccurence = 3
    MaxTableSize = 2
    AbsOfIntMin = {FALSE}
INVARIANTS
    AlwaysMakesRoom
SYMMETRY InstructionSymmetry
CHECK_DEADLOCK FALSE

SPECIFICATION Spec
CONSTANTS
    main = main
    worker = worker
    i1 = i1
    i2 = i2
    i3 = i3
    Threads = {main, worker}
    MainThread = main
    Instructions = {i1, i2, i3}
    Programs <- TwoThreads
    Operands <- TwoOperands
    Category <- Categories
    NoThread = NoThread
    Translated <- NoneYet
    CostFiles <- AllFiles
    Junk = {0, 5}
    NoFile = NoFile
    NoNumber = NoNumber
    NotANumber = NotANumber
    Comment = Comment
INVARIANTS
    TypeOK
    MissesArePaired
    OnlyRacesLoseCycles
    CostsAreTheLastListed

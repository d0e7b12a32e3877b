SPECIFICATION Spec
CONSTANTS
    main = main
    worker = worker
    i1 = i1
    i2 = i2
    i3 = i3
    Threads = {main, worker}
    MainThread = main
    Instructions = {i1, i2, i3}
    Programs <- TwoThreads
    Operands <- TwoOperands
    Category <- Categories
    NoThread = NoThread
    Translated <- NoneYet
    CostFiles = {NoFile}
    Junk = {0}
    NoFile = NoFile
    NoNumber = NoNumber
    NotANumber = NotANumber
    Comment = Comment
INVARIANTS
    CyclesConserved

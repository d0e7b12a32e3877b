SPECIFICATION Spec
CONSTANTS
    t1 = t1
    t2 = t2
    i1 = i1
    i2 = i2
    i3 = i3
    NoThread = NoThread
    NoFile = NoFile
    NoNumber = NoNumber
    NotANumber = NotANumber
    Comment = Comment
    Threads = {t1, t2}
    Instructions = {i1, i2, i3}
    Programs <- TwoThreads
    Operands <- TwoOperands
    Category <- Categories
    Translated <- FirstRan
    CostFiles = {NoFile}
    Junk = {0}
INVARIANTS
    TypeOK
    MissesArePaired
    MutexKeepsCycles
    UnsharedMissesNameTheirThread
PROPERTIES
    ThreadsFinish
CHECK_DEADLOCK FALSE

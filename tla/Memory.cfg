\* Three processes, one of them init, and memory for two of them and part of a third.
CONSTANTS
    Procs = {1, 2, 3}
    InitProc = 1
    NFrames = 16
    PGSIZE = 2
    KERNBASE = 8
    UintMod = 16
    PTSpan = 3
    NKern = 1
    Programs <- AllPrograms
    Amounts <- SomeAmounts
    MaxPipes = 4
    StorePages = {1, 2}
SPECIFICATION Spec
INVARIANTS FramesAccounted NoPanic ExecEndsItsOp
PROPERTIES ImplementsAddressSpaces

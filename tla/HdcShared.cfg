CONSTANTS
    p1 = p1
    p2 = p2
    NoProc = NoProc
    Procs <- TwoUsers
    Cmds <- SharedCmds
    NHdc = 2
    Width = 1
    QCap = 2
    WriteLimit = 2
    PenMin = 1
    PenMax = 1
    QueuePenCap = 1
    ColMax = 1
    LockReady = 1
SPECIFICATION Spec
SYMMETRY Symmetric
CHECK_DEADLOCK TRUE
INVARIANTS
    NoSharedHdc
    ContextsAccounted

    

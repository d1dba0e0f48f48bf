CONSTANTS
    p1 = p1
    p2 = p2
    NoProc = NoProc
    Procs <- OneUser
    Cmds <- AllCmds
    NHdc = 1
    Width = 2
    QCap = 2
    WriteLimit = 3
    PenMin = 1
    PenMax = 2
    QueuePenCap = 1
    ColMax = 1
    LockReady = 0
SPECIFICATION FairSpec
CHECK_DEADLOCK TRUE
INVARIANTS
    TypeOK
PROPERTIES
    LockReleased

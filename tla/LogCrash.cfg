CONSTANTS
    p1 = p1
    p2 = p2
    b1 = b1
    b2 = b2
    Boot = Boot
    NotCached = NotCached
    Procs <- TwoProcs
    Blocks <- TwoBlocks
    Vals <- TwoVals
    Zero = 0
    MaxOpBlocks = 3
    LogSize = 6
    LogBlocks = 6
    OpBlocks = 1
    CanCrash = TRUE
SPECIFICATION FairSpec
INVARIANTS
    SpaceReserved
    QuietMeansDurable
PROPERTIES
    ImplementsAtomicDisk
    SleepersWake

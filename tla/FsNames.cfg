CONSTANTS
    Procs = {p1, p2}
    NoProc = NoProc
    Names = {"a", "d"}
    NInodes = 3
    NINODE = 4
    NFILE = 1
    NOFILE = 2
    Calls <- DirCalls
SPECIFICATION Spec
SYMMETRY Symmetric
CHECK_DEADLOCK FALSE
INVARIANTS RefsArePointers CacheCoherent NoLostInode

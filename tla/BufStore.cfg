\* Two buffers for three blocks; two processes hold up to two each and one block
\* is pinned by the log.
CONSTANTS
    Procs = {p1, p2}
    NoProc = NoProc
    NBUF = 2
    Blocks = {1, 2, 3}
    NoBlock = NoBlock
    Vals = {0, 1}
    Zero = 0
    MaxHold = 2
    MaxDirty = 1
    ReadStatus = {TRUE}
SPECIFICATION FairSpec
INVARIANTS RefcntIsUsers SleepersHaveWaker
PROPERTIES ImplementsBlockStore DiskAnswers

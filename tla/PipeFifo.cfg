\* Two processes that both write and one of which reads, killed at any moment;
\* the counters wrap after two laps of the buffer.
CONSTANTS
    w1 = w1
    r1 = r1
    Procs = {w1, r1}
    NoProc = NoProc
    Ends <- SharedEnds
    PIPESIZE = 2
    UintMod = 4
    MaxLen = 3
    Bytes = {0, 1}
    Killable = {w1, r1}
SPECIFICATION FairSpec
INVARIANTS SleepersMissNothing NoUseAfterFree
PROPERTIES DeliversInOrder CloseReleases
CHECK_DEADLOCK FALSE

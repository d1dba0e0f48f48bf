\* Init and one child at a time: sleep over a wrap of ticks, failing forks, kill, under fairness.
CONSTANTS
    NPROC = 2
    CPUs = {c0, c1}
    BootCpu = c0
    NoCpu = NoCpu
    TickMod = 3
    MaxPid = 3
    Calls = {"fork", "exit", "wait", "sleep", "kill", "fault"}
    KillPids = {0, 2}
    Naps = {2}
    Failures = {"kstack", "copyuvm"}
SPECIFICATION FairSpec
INVARIANTS SleepersMissNoTick
PROPERTIES KilledExits InitReaps

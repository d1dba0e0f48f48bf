\* Four slots, two CPUs: a process that exits leaves a zombie of its own to init; forks may
\* fail, and kill may name the pid that a failed fork left in a free slot.
CONSTANTS
    NPROC = 4
    CPUs = {c0, c1}
    BootCpu = c0
    NoCpu = NoCpu
    TickMod = 1
    MaxPid = 4
    Calls = {"fork", "exit", "wait", "kill"}
    KillPids = {2}
    Naps = {}
    Failures = {"kstack", "copyuvm"}
SPECIFICATION Spec
INVARIANTS RunsOnce ParentsAlive WaitersMissNothing

-------------------------------- MODULE Proc --------------------------------
(***************************************************************************)
(* The process table and the per-CPU schedulers: proc.c, with the trap and *)
(* sleep system call code that drives them (trap.c, sysproc.c).            *)
(*                                                                         *)
(* Processes run arbitrary programs: at label "user" a process may make    *)
(* any system call of Calls, or compute until the next timer interrupt;    *)
(* only the first process, init.c, does not fault or sleep, and exits only *)
(* when a fork fails or it is killed.                                      *)
(* ptable.lock is explicit because it is held across a context switch: the *)
(* scheduler takes it, the process it switches to gives it back, and a     *)
(* process that leaves the CPU takes it again for the scheduler.  Any      *)
(* other critical section of it is one step that finds it free.            *)
(*                                                                         *)
(* chan is the sleeping channel: the slot of a process in wait(), or       *)
(* TickChan for &ticks.  Open files and memory are left out, but for the   *)
(* kernel stack and the two allocations that make fork fail.               *)
(***************************************************************************)
EXTENDS Integers, FiniteSets

CONSTANTS
    NPROC,     \* slots of ptable.proc
    CPUs,      \* processors
    BootCpu,   \* cpuid() 0, the one that counts ticks
    NoCpu,     \* the null cpu pointer of a free spinlock
    TickMod,   \* 2^32, the modulus of ticks
    MaxPid,    \* bound on the pids handed out
    Calls,     \* system calls user programs make, a subset of AllCalls
    KillPids,  \* arguments of kill
    Naps,      \* arguments of sleep
    Failures   \* allocations of fork that may fail, a subset of {"kstack", "copyuvm"}

Slots    == 1..NPROC
NoSlot   == 0
InitSlot == 1                \* initproc
NoChan   == 0
TickChan == NPROC + 1
AllCalls == {"fork", "exit", "wait", "kill", "sleep", "fault"}

ASSUME ProcAssumption ==
    /\ NPROC \in Nat \ {0} /\ TickMod \in Nat \ {0} /\ MaxPid \in Nat
    /\ BootCpu \in CPUs /\ NoCpu \notin CPUs
    /\ Calls \subseteq AllCalls /\ KillPids \subseteq Int /\ Naps \subseteq Int
    /\ Failures \subseteq {"kstack", "copyuvm"}

VARIABLES
    proc,       \* ptable.proc
    nextpid,    \* int nextpid
    ptlock,     \* holder of ptable.lock
    tickslock,  \* holder of tickslock
    ticks,      \* uint ticks
    on,         \* cpu->proc: the slot each CPU runs, NoSlot in its scheduler
    scan,       \* the scheduler's position in the table
    intr,       \* timer interrupt in progress on a CPU
    pc,         \* what the process of a slot is executing
    yielded,    \* the process was preempted at pc, inside yield()
    np,         \* fork's new slot
    nap,        \* sys_sleep's n and ticks0
    panicked    \* a kernel panic stops every CPU

vars == <<proc, nextpid, ptlock, tickslock, ticks, on, scan, intr, pc, yielded,
          np, nap, panicked>>

\* All but the process table, its lock and the position of a process.
rest == <<nextpid, tickslock, ticks, scan, intr, yielded, np, nap, panicked>>

FreeSlot == [state |-> "UNUSED", pid |-> 0, parent |-> NoSlot, killed |-> 0,
             chan |-> NoChan, kstack |-> FALSE]
NoNap    == [n |-> 0, ticks0 |-> 0]

-----------------------------------------------------------------------------
(* Control *)

\* CPU c executes the process of slot s at the given label.
At(c, s, label) ==
    /\ ~panicked /\ intr[c] = "none"
    /\ on[c] = s /\ proc[s].state = "RUNNING" /\ ~yielded[s]
    /\ pc[s] = label

Goto(s, label) == pc' = [pc EXCEPT ![s] = label]

\* Labels at which the process holds no lock, so that interrupts are on.
Preemptible == {"user", "fork_kstack", "fork_copy", "fork_ready", "exit_close",
                "exit_lock", "sl_relock"}

Interruptible(c) ==
    /\ ~panicked
    /\ intr[c] = "none"
    /\ IF on[c] = NoSlot THEN ptlock # c
                         ELSE ~yielded[on[c]] /\ pc[on[c]] \in Preemptible

\* Mutant: the lock is given back before the switch.
SchedUnlocked(c) == ptlock' = NoCpu /\ UNCHANGED on

\* sched() is entered with ptable.lock held and the state changed ...
Sched(c) == ptlock' = c /\ UNCHANGED on

\* ... and the CPU leaves the process's stack for its scheduler, which goes on
\* with the lock held.
Swtch(c) ==
    /\ ~panicked /\ on[c] # NoSlot
    /\ proc[on[c]].state # "RUNNING"
    /\ on' = [on EXCEPT ![c] = NoSlot]
    /\ UNCHANGED <<proc, nextpid, ptlock, tickslock, ticks, scan, intr, pc, yielded, np, nap,
                   panicked>>

\* wakeup1 for each of a set of channels.
Woken(table, chans) ==
    [q \in Slots |-> IF table[q].state = "SLEEPING" /\ table[q].chan \in chans
                       THEN [table[q] EXCEPT !.state = "RUNNABLE"] ELSE table[q]]

-----------------------------------------------------------------------------
(* scheduler *)

SchedLock(c) ==
    /\ ~panicked /\ intr[c] = "none" /\ on[c] = NoSlot /\ ptlock = NoCpu
    /\ ptlock' = c
    /\ scan' = [scan EXCEPT ![c] = 1]
    /\ UNCHANGED <<proc, nextpid, tickslock, ticks, on, intr, pc, yielded, np, nap, panicked>>

\* The RUNNABLE slots that the loop of CPU c has not passed yet.
Ahead(c) == {q \in Slots : q >= scan[c] /\ proc[q].state = "RUNNABLE"}

SchedRun(c) ==
    /\ ~panicked /\ on[c] = NoSlot /\ ptlock = c
    /\ \E s \in Ahead(c) :
          /\ \A q \in Ahead(c) : s <= q
          /\ on' = [on EXCEPT ![c] = s]
          /\ proc' = [proc EXCEPT ![s].state = "RUNNING"]
          /\ scan' = [scan EXCEPT ![c] = s + 1]
    /\ UNCHANGED <<nextpid, ptlock, tickslock, ticks, intr, pc, yielded, np, nap, panicked>>

SchedDone(c) ==
    /\ ~panicked /\ on[c] = NoSlot /\ ptlock = c
    /\ Ahead(c) = {}
    /\ ptlock' = NoCpu
    /\ scan' = [scan EXCEPT ![c] = 1]
    /\ UNCHANGED <<proc, nextpid, tickslock, ticks, on, intr, pc, yielded, np, nap, panicked>>

-----------------------------------------------------------------------------
(* The timer interrupt *)

\* trap() on the boot CPU: ticks++ under tickslock ...
TickCount(c) ==
    /\ c = BootCpu
    /\ Interruptible(c)
    /\ tickslock = NoCpu
    /\ tickslock' = c
    /\ ticks' = (ticks + 1) % TickMod
    /\ intr' = [intr EXCEPT ![c] = "wake"]
    /\ UNCHANGED <<proc, nextpid, ptlock, on, scan, pc, yielded, np, nap, panicked>>

\* ... and wakeup(&ticks); an interrupted scheduler just goes on.
TickWake(c) ==
    /\ intr[c] = "wake" /\ ~panicked
    /\ ptlock = NoCpu
    /\ proc' = Woken(proc, {TickChan})
    /\ tickslock' = NoCpu
    /\ intr' = [intr EXCEPT ![c] = IF on[c] = NoSlot THEN "none" ELSE "yield"]
    /\ UNCHANGED <<nextpid, ptlock, ticks, on, scan, pc, yielded, np, nap, panicked>>

\* Mutant: the trap handler does not look.
KilledUnnoticed(s) == FALSE

\* A killed process caught in user mode exits instead of yielding.
KilledInUser(s) == pc[s] = "user" /\ proc[s].killed = 1

\* The interrupt ends in yield().
Yield(c) ==
    /\ ~panicked /\ on[c] # NoSlot
    /\ intr[c] = "yield" \/ (c # BootCpu /\ Interruptible(c))
    /\ ~KilledInUser(on[c])
    /\ ptlock = NoCpu
    /\ proc' = [proc EXCEPT ![on[c]].state = "RUNNABLE"]
    /\ yielded' = [yielded EXCEPT ![on[c]] = TRUE]
    /\ Sched(c)
    /\ intr' = [intr EXCEPT ![c] = "none"]
    /\ UNCHANGED <<nextpid, tickslock, ticks, scan, pc, np, nap, panicked>>

\* Back from yield(): release the lock the scheduler took.
YieldReturn(c) ==
    /\ ~panicked /\ on[c] # NoSlot
    /\ proc[on[c]].state = "RUNNING" /\ yielded[on[c]]
    /\ yielded' = [yielded EXCEPT ![on[c]] = FALSE]
    /\ ptlock' = NoCpu
    /\ UNCHANGED <<proc, nextpid, tickslock, ticks, on, scan, intr, pc, np, nap, panicked>>

\* forkret, the first thing a new process does.
Forkret(c, s) ==
    /\ At(c, s, "forkret")
    /\ ptlock' = NoCpu
    /\ Goto(s, "user")
    /\ UNCHANGED <<proc, on, rest>>

\* Whichever trap a killed process takes next, it calls exit().
KilledExit(c, s) ==
    /\ ~panicked /\ on[c] = s /\ ~yielded[s] /\ intr[c] \in {"none", "yield"}
    /\ KilledInUser(s)
    /\ Goto(s, "exit_close")
    /\ intr' = [intr EXCEPT ![c] = "none"]
    /\ UNCHANGED <<proc, nextpid, ptlock, tickslock, ticks, on, scan, yielded, np, nap, panicked>>

\* A system call entered by a process that is not killed.
Syscall(c, s, call) == At(c, s, "user") /\ proc[s].killed = 0 /\ call \in Calls

\* A trap that is the process's own fault: trap() marks it killed.
Fault(c, s) ==
    /\ Syscall(c, s, "fault") /\ s # InitSlot
    /\ proc' = [proc EXCEPT ![s].killed = 1]
    /\ UNCHANGED <<nextpid, ptlock, tickslock, ticks, on, scan, intr, pc, yielded, np, nap, panicked>>

-----------------------------------------------------------------------------
(* fork *)

Unused == {q \in Slots : proc[q].state = "UNUSED"}

\* Where a fork that has failed leaves its caller: init.c exits.
ForkFailed(s) == IF s = InitSlot THEN "exit_close" ELSE "user"

\* allocproc: the first free slot ...
ForkAlloc(c, s) ==
    /\ Syscall(c, s, "fork")
    /\ nextpid <= MaxPid
    /\ ptlock = NoCpu
    /\ \E q \in Unused :
          /\ \A r \in Unused : q <= r
          /\ proc' = [proc EXCEPT ![q].state = "EMBRYO", ![q].pid = nextpid]
          /\ np' = [np EXCEPT ![s] = q]
          /\ Goto(s, "fork_kstack")
    /\ nextpid' = nextpid + 1
    /\ UNCHANGED <<ptlock, tickslock, ticks, on, scan, intr, yielded, nap, panicked>>

\* ... or none, and the call fails.
ForkNoSlot(c, s) ==
    /\ Syscall(c, s, "fork")
    /\ ptlock = NoCpu
    /\ Unused = {}
    /\ Goto(s, ForkFailed(s))
    /\ UNCHANGED <<proc, ptlock, on, rest>>

\* allocproc goes on without the lock: the kernel stack.  On failure the slot
\* is given back with its pid still in it.
ForkKstack(c, s) ==
    /\ At(c, s, "fork_kstack")
    /\ \/ /\ proc' = [proc EXCEPT ![np[s]].kstack = TRUE]
          /\ Goto(s, "fork_copy")
          /\ UNCHANGED np
       \/ /\ "kstack" \in Failures
          /\ proc' = [proc EXCEPT ![np[s]].state = "UNUSED"]
          /\ np' = [np EXCEPT ![s] = NoSlot]
          /\ Goto(s, ForkFailed(s))
    /\ UNCHANGED <<nextpid, ptlock, tickslock, ticks, on, scan, intr, yielded, nap, panicked>>

\* copyuvm, then the fields of the child; on failure the slot is given back.
ForkCopy(c, s) ==
    /\ At(c, s, "fork_copy")
    /\ \/ /\ proc' = [proc EXCEPT ![np[s]].parent = s]
          /\ Goto(s, "fork_ready")
          /\ UNCHANGED np
       \/ /\ "copyuvm" \in Failures
          /\ proc' = [proc EXCEPT ![np[s]].kstack = FALSE, ![np[s]].state = "UNUSED"]
          /\ np' = [np EXCEPT ![s] = NoSlot]
          /\ Goto(s, ForkFailed(s))
    /\ UNCHANGED <<nextpid, ptlock, tickslock, ticks, on, scan, intr, yielded, nap, panicked>>

\* The child starts in forkret, with the context allocproc built.
ForkReady(c, s) ==
    /\ At(c, s, "fork_ready")
    /\ ptlock = NoCpu
    /\ proc' = [proc EXCEPT ![np[s]].state = "RUNNABLE"]
    /\ np' = [np EXCEPT ![s] = NoSlot]
    /\ pc' = [pc EXCEPT ![s] = "user", ![np[s]] = "forkret"]
    /\ UNCHANGED <<nextpid, ptlock, tickslock, ticks, on, scan, intr, yielded, nap, panicked>>

-----------------------------------------------------------------------------
(* exit *)

SysExit(c, s) ==
    /\ Syscall(c, s, "exit") /\ s # InitSlot
    /\ Goto(s, "exit_close")
    /\ UNCHANGED <<proc, ptlock, on, rest>>

\* Close files and release the working directory; init must not get here.
ExitClose(c, s) ==
    /\ At(c, s, "exit_close")
    /\ \/ s = InitSlot /\ panicked' = TRUE /\ UNCHANGED pc
       \/ s # InitSlot /\ Goto(s, "exit_lock") /\ UNCHANGED panicked
    /\ UNCHANGED <<proc, nextpid, ptlock, tickslock, ticks, on, scan, intr, yielded, np, nap>>

Children(s) == {q \in Slots : proc[q].parent = s}

\* Mutant: the children keep their dead parent.
AfterExitOrphans(s) ==
    LET chans == {proc[s].parent}
    IN  [Woken(proc, chans) EXCEPT ![s].state = "ZOMBIE"]

\* Mutant: nobody is woken.
AfterExitSilent(s) ==
    [q \in Slots |-> IF q = s THEN [proc[q] EXCEPT !.state = "ZOMBIE"]
                     ELSE IF q \in Children(s) THEN [proc[q] EXCEPT !.parent = InitSlot]
                     ELSE proc[q]]

\* Mutant: init is not told of the zombies it inherits.
AfterExitZombiesUntold(s) ==
    LET adopted == [q \in Slots |-> IF q \in Children(s)
                                      THEN [proc[q] EXCEPT !.parent = InitSlot] ELSE proc[q]]
    IN  [Woken(adopted, {proc[s].parent}) EXCEPT ![s].state = "ZOMBIE"]

\* The table after exit(): the parent is woken, the children go to init, which
\* is woken if one of them is a zombie, and the process becomes one itself.
AfterExit(s) ==
    LET zombies == {q \in Children(s) : proc[q].state = "ZOMBIE"}
        chans   == {proc[s].parent} \cup (IF zombies = {} THEN {} ELSE {InitSlot})
        adopted == [q \in Slots |-> IF q \in Children(s)
                                      THEN [proc[q] EXCEPT !.parent = InitSlot] ELSE proc[q]]
    IN  [Woken(adopted, chans) EXCEPT ![s].state = "ZOMBIE"]

\* The lock is held until this CPU is off the dying process's stack.
Exit(c, s) ==
    /\ At(c, s, "exit_lock")
    /\ ptlock = NoCpu
    /\ proc' = AfterExit(s)
    /\ Goto(s, "dead")
    /\ Sched(c)
    /\ UNCHANGED rest

-----------------------------------------------------------------------------
(* wait *)

SysWait(c, s) ==
    /\ Syscall(c, s, "wait")
    /\ ptlock = NoCpu
    /\ ptlock' = c
    /\ Goto(s, "wait_scan")
    /\ UNCHANGED <<proc, on, rest>>

ZombieChildren(s) == {q \in Children(s) : proc[q].state = "ZOMBIE"}

\* A zombie's slot once wait() has freed it.
Reaped(d) == [FreeSlot EXCEPT !.chan = d.chan]

\* The first zombie child is freed; without one the call fails when there are
\* no children or the caller is killed, and otherwise sleeps, ptable.lock
\* passing to the scheduler.
WaitScan(c, s) ==
    /\ At(c, s, "wait_scan")
    /\ \/ \E q \in ZombieChildren(s) :
             /\ \A r \in ZombieChildren(s) : q <= r
             /\ proc' = [proc EXCEPT ![q] = Reaped(@)]
             /\ ptlock' = NoCpu
             /\ Goto(s, "user")
             /\ UNCHANGED on
       \/ /\ ZombieChildren(s) = {}
          /\ Children(s) = {} \/ proc[s].killed = 1
          /\ ptlock' = NoCpu
          /\ Goto(s, "user")
          /\ UNCHANGED <<proc, on>>
       \/ /\ ZombieChildren(s) = {}
          /\ Children(s) # {} /\ proc[s].killed = 0
          /\ proc' = [proc EXCEPT ![s].chan = s, ![s].state = "SLEEPING"]
          /\ Goto(s, "wait_resume")
          /\ Sched(c)
    /\ UNCHANGED rest

\* sleep() returns with ptable.lock held and the scan starts again.
WaitResume(c, s) ==
    /\ At(c, s, "wait_resume")
    /\ proc' = [proc EXCEPT ![s].chan = NoChan]
    /\ Goto(s, "wait_scan")
    /\ UNCHANGED <<ptlock, on, rest>>

-----------------------------------------------------------------------------
(* kill *)

\* The first slot with this pid, whatever its state; a sleeper is woken.
Kill(c, s, pid) ==
    LET match == {q \in Slots : proc[q].pid = pid}
    IN  /\ Syscall(c, s, "kill")
        /\ ptlock = NoCpu
        /\ \E q \in match :
              /\ \A r \in match : q <= r
              /\ proc' = [proc EXCEPT ![q].killed = 1,
                             ![q].state = IF @ = "SLEEPING" THEN "RUNNABLE" ELSE @]
        /\ UNCHANGED <<nextpid, ptlock, tickslock, ticks, on, scan, intr, pc, yielded, np, nap, panicked>>

-----------------------------------------------------------------------------
(* sys_sleep *)

\* ticks - ticks0 as a uint.
Elapsed(s) == (ticks - nap[s].ticks0) % TickMod

\* ticks - ticks0 < n, n converted to unsigned.
StillAsleep(s) == Elapsed(s) < nap[s].n % TickMod

SysSleep(c, s, n) ==
    /\ Syscall(c, s, "sleep") /\ s # InitSlot
    /\ tickslock = NoCpu
    /\ tickslock' = c
    /\ nap' = [nap EXCEPT ![s] = [n |-> n, ticks0 |-> ticks]]
    /\ Goto(s, "sl_check")
    /\ UNCHANGED <<proc, nextpid, ptlock, ticks, on, scan, intr, yielded, np, panicked>>

\* Mutant: sleep() gives up tickslock before it has ptable.lock.
SleepCheckReleases(c, s) ==
    /\ At(c, s, "sl_check")
    /\ tickslock' = NoCpu
    /\ \/ /\ ~StillAsleep(s) \/ proc[s].killed = 1
          /\ nap' = [nap EXCEPT ![s] = NoNap]
          /\ Goto(s, "user")
       \/ /\ StillAsleep(s) /\ proc[s].killed = 0
          /\ Goto(s, "sl_sleep")
          /\ UNCHANGED nap
    /\ UNCHANGED <<proc, nextpid, ptlock, ticks, on, scan, intr, yielded, np, panicked>>

\* The loop's test, under tickslock.
SleepCheck(c, s) ==
    /\ At(c, s, "sl_check")
    /\ \/ /\ ~StillAsleep(s) \/ proc[s].killed = 1
          /\ tickslock' = NoCpu
          /\ nap' = [nap EXCEPT ![s] = NoNap]
          /\ Goto(s, "user")
       \/ /\ StillAsleep(s) /\ proc[s].killed = 0
          /\ Goto(s, "sl_sleep")
          /\ UNCHANGED <<tickslock, nap>>
    /\ UNCHANGED <<proc, nextpid, ptlock, ticks, on, scan, intr, yielded, np, panicked>>

\* sleep(&ticks, &tickslock): tickslock is released once ptable.lock is held.
Sleep(c, s) ==
    /\ At(c, s, "sl_sleep")
    /\ ptlock = NoCpu
    /\ tickslock' = NoCpu
    /\ proc' = [proc EXCEPT ![s].chan = TickChan, ![s].state = "SLEEPING"]
    /\ Goto(s, "sl_resume")
    /\ Sched(c)
    /\ UNCHANGED <<nextpid, ticks, scan, intr, yielded, np, nap, panicked>>

SleepResume(c, s) ==
    /\ At(c, s, "sl_resume")
    /\ proc' = [proc EXCEPT ![s].chan = NoChan]
    /\ ptlock' = NoCpu
    /\ Goto(s, "sl_relock")
    /\ UNCHANGED <<on, rest>>

SleepRelock(c, s) ==
    /\ At(c, s, "sl_relock")
    /\ tickslock = NoCpu
    /\ tickslock' = c
    /\ Goto(s, "sl_check")
    /\ UNCHANGED <<proc, nextpid, ptlock, ticks, on, scan, intr, yielded, np, nap, panicked>>

-----------------------------------------------------------------------------
(* Specification *)

\* userinit has made the first process; every CPU is in its scheduler.
Init ==
    /\ proc = [q \in Slots |-> IF q = InitSlot
                 THEN [FreeSlot EXCEPT !.state = "RUNNABLE", !.pid = 1, !.kstack = TRUE]
                 ELSE FreeSlot]
    /\ nextpid = 2
    /\ ptlock = NoCpu /\ tickslock = NoCpu
    /\ ticks = 0
    /\ on = [c \in CPUs |-> NoSlot]
    /\ scan = [c \in CPUs |-> 1]
    /\ intr = [c \in CPUs |-> "none"]
    /\ pc = [q \in Slots |-> IF q = InitSlot THEN "forkret" ELSE "dead"]
    /\ yielded = [q \in Slots |-> FALSE]
    /\ np = [q \in Slots |-> NoSlot]
    /\ nap = [q \in Slots |-> NoNap]
    /\ panicked = FALSE

Scheduler(c) == SchedLock(c) \/ SchedRun(c) \/ SchedDone(c) \/ Swtch(c)
Timer(c)     == TickWake(c) \/ Yield(c) \/ YieldReturn(c)

\* Steps of the kernel on behalf of the process in slot s.
Kernel(c, s) ==
    \/ Forkret(c, s) \/ KilledExit(c, s)
    \/ ForkKstack(c, s) \/ ForkCopy(c, s) \/ ForkReady(c, s)
    \/ ExitClose(c, s) \/ Exit(c, s)
    \/ WaitScan(c, s) \/ WaitResume(c, s)
    \/ SleepCheck(c, s) \/ Sleep(c, s) \/ SleepResume(c, s) \/ SleepRelock(c, s)

\* What a user program may do next.
User(c, s) ==
    \/ ForkAlloc(c, s) \/ ForkNoSlot(c, s) \/ SysExit(c, s) \/ SysWait(c, s) \/ Fault(c, s)
    \/ \E pid \in KillPids : Kill(c, s, pid)
    \/ \E n \in Naps : SysSleep(c, s, n)

\* Nothing moves after a panic.
Halted == panicked /\ UNCHANGED vars

Next ==
    \/ Halted
    \/ \E c \in CPUs :
          \/ Scheduler(c) \/ TickCount(c) \/ Timer(c)
          \/ \E s \in Slots : Kernel(c, s) \/ User(c, s)

Spec == Init /\ [][Next]_vars

\* CPUs execute, timer interrupts keep coming and leave a process time to make
\* a step between two of them, spinlocks are obtained in the end, and init
\* goes on calling wait (init.c).
FairSpec ==
    /\ Spec
    /\ \A c \in CPUs : SF_vars(Scheduler(c)) /\ SF_vars(Timer(c)) /\ SF_vars(TickCount(c))
    /\ \A s \in Slots : SF_vars(\E c \in CPUs : Kernel(c, s))
    /\ SF_vars(\E c \in CPUs : SysWait(c, InitSlot))

-----------------------------------------------------------------------------
(* Properties *)

States == {"UNUSED", "EMBRYO", "SLEEPING", "RUNNABLE", "RUNNING", "ZOMBIE"}
Labels == {"user", "forkret", "dead", "fork_kstack", "fork_copy", "fork_ready", "exit_close",
           "exit_lock", "wait_scan", "wait_resume", "sl_check", "sl_sleep", "sl_resume",
           "sl_relock"}
Entries == [state : States, pid : Nat, parent : Slots \cup {NoSlot}, killed : {0, 1},
            chan : Slots \cup {NoChan, TickChan}, kstack : BOOLEAN]

\* Every variable has the type its C declaration gives it.
TypeOK ==
    /\ proc \in [Slots -> Entries]
    /\ nextpid \in Nat
    /\ ptlock \in CPUs \cup {NoCpu} /\ tickslock \in CPUs \cup {NoCpu}
    /\ ticks \in 0..(TickMod - 1)
    /\ on \in [CPUs -> Slots \cup {NoSlot}]
    /\ scan \in [CPUs -> 1..(NPROC + 1)]
    /\ intr \in [CPUs -> {"none", "wake", "yield"}]
    /\ pc \in [Slots -> Labels]
    /\ yielded \in [Slots -> BOOLEAN]
    /\ np \in [Slots -> Slots \cup {NoSlot}]
    /\ nap \in [Slots -> [n : Int, ticks0 : 0..(TickMod - 1)]]
    /\ panicked \in BOOLEAN

\* A process is on at most one CPU, it is RUNNING or about to leave it with
\* ptable.lock held, and its kernel stack is still there: a process that stops
\* keeps the lock until the CPU has left its stack.
RunsOnce ==
    /\ \A c, d \in CPUs : c # d /\ on[c] # NoSlot => on[c] # on[d]
    /\ \A c \in CPUs : on[c] # NoSlot =>
          /\ proc[on[c]].kstack
          /\ proc[on[c]].state = "RUNNING" \/ ptlock = c

Alive == {s \in Slots : proc[s].state \notin {"UNUSED", "EMBRYO", "ZOMBIE"}}

\* Every process but init has a living parent that can wait for it: exit()
\* "pass[es] abandoned children to init".
ParentsAlive ==
    ~panicked => \A s \in Slots : proc[s].state \notin {"UNUSED", "EMBRYO"} /\ s # InitSlot
        => proc[s].parent \in Alive

\* A process asleep in wait() has something to wait for and has missed
\* nothing: it has children, none of them is a zombie, and it is not killed.
WaitersMissNothing ==
    \A s \in Slots : proc[s].state = "SLEEPING" /\ proc[s].chan = s
        => Children(s) # {} /\ ZombieChildren(s) = {} /\ proc[s].killed = 0

\* A process asleep in sys_sleep has not missed the tick it waits for, unless
\* the interrupt that counted it has yet to call wakeup ("Once we hold
\* ptable.lock, we can be guaranteed that we won't miss any wakeup").
SleepersMissNoTick ==
    intr[BootCpu] # "wake" =>
        \A s \in Slots : proc[s].state = "SLEEPING" /\ proc[s].chan = TickChan => StillAsleep(s)

\* A killed process exits in the end, also when it was about to go to sleep.
KilledExits ==
    \A s \in Slots : proc[s].killed = 1 /\ s \in Alive
        ~> panicked \/ proc[s].state \in {"ZOMBIE", "UNUSED"}

\* A zombie whose parent is init is freed in the end.
InitReaps ==
    \A s \in Slots : proc[s].state = "ZOMBIE" /\ proc[s].parent = InitSlot
        ~> panicked \/ proc[s].state # "ZOMBIE"

=============================================================================

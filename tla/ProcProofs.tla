------------------------------ MODULE ProcProofs ------------------------------
(***************************************************************************)
(* Proofs about Proc for any number of slots, CPUs and pids.               *)
(*                                                                         *)
(* Everything rests on what a label says of a process's state and of who   *)
(* holds ptable.lock: a process that is not RUNNING is on a CPU only while *)
(* that CPU holds the lock, and comes back at a label that releases it.    *)
(***************************************************************************)
EXTENDS Proc, TLAPS

Forking == {"fork_kstack", "fork_copy", "fork_ready"}

\* Where a process is when the scheduler switches to it, if it did not yield.
Resuming == {"forkret", "wait_resume", "sl_resume"}

Locked(s) == yielded[s] \/ pc[s] \in Resuming \cup {"wait_scan"}

\* What the state of a slot says of its label.
StateInv ==
    \A s \in Slots :
        /\ pc[s] = "dead" <=> proc[s].state \in {"UNUSED", "EMBRYO", "ZOMBIE"}
        /\ yielded[s] => pc[s] \in Preemptible /\ proc[s].state \in {"RUNNABLE", "RUNNING"}
        /\ proc[s].state = "RUNNABLE" => yielded[s] \/ pc[s] \in Resuming
        /\ proc[s].state = "SLEEPING" => \/ pc[s] = "wait_resume" /\ proc[s].chan = s
                                         \/ pc[s] = "sl_resume" /\ proc[s].chan = TickChan
        /\ proc[s].state \notin {"UNUSED", "EMBRYO"} => proc[s].kstack
        /\ proc[s].state = "UNUSED" => proc[s].parent = NoSlot

\* A fork under way has a slot of its own, as far built as its label says.
ForkInv ==
    /\ \A s \in Slots :
        /\ pc[s] \in Forking => np[s] \in Slots /\ proc[np[s]].state = "EMBRYO"
        /\ pc[s] \in {"fork_kstack", "fork_copy"} => proc[np[s]].parent = NoSlot
        /\ pc[s] \in {"fork_copy", "fork_ready"} => proc[np[s]].kstack
        /\ pc[s] = "fork_ready" => proc[np[s]].parent = s
    /\ \A s, t \in Slots : pc[s] \in Forking /\ pc[t] \in Forking /\ np[s] = np[t] => s = t

\* Who is on a CPU, and when that CPU has ptable.lock.
CpuInv ==
    /\ \A c, d \in CPUs : c # d /\ on[c] # NoSlot => on[c] # on[d]
    /\ \A c \in CPUs : on[c] # NoSlot =>
        /\ proc[on[c]].state \notin {"UNUSED", "EMBRYO"}
        /\ proc[on[c]].state # "RUNNING" => ptlock = c
        /\ proc[on[c]].state = "RUNNING" /\ Locked(on[c]) => ptlock = c

\* An interrupt in progress holds no ptable.lock and will yield a running process.
IntrInv ==
    \A c \in CPUs :
        /\ intr[c] # "none" =>
             IF on[c] = NoSlot THEN intr[c] = "wake" /\ ptlock # c
             ELSE ~yielded[on[c]] /\ pc[on[c]] \in Preemptible /\ proc[on[c]].state = "RUNNING"
        /\ intr[c] = "wake" => c = BootCpu /\ tickslock = c

\* Init lives, and with it everybody's parent.
FamilyInv ==
    /\ InitSlot \in Alive /\ pc[InitSlot] # "exit_lock"
    /\ proc[InitSlot].parent = NoSlot /\ \A s \in Slots : proc[s].parent # s
    /\ \A s \in Slots : proc[s].state \notin {"UNUSED", "EMBRYO"} /\ s # InitSlot
                            => proc[s].parent \in Alive

\* sys_sleep tests and goes to sleep under tickslock.
SleepInv ==
    \A s \in Slots :
        /\ pc[s] \in {"sl_check", "sl_sleep"} =>
             tickslock \in CPUs /\ on[tickslock] = s /\ proc[s].state = "RUNNING"
        /\ pc[s] = "sl_sleep" => StillAsleep(s)

PInv ==
    /\ TypeOK /\ StateInv /\ ForkInv /\ CpuInv /\ IntrInv /\ FamilyInv /\ SleepInv
    /\ WaitersMissNothing /\ SleepersMissNoTick

-----------------------------------------------------------------------------
(* Types *)

\* The initial table.
LEMMA InitType ==
    ASSUME Init
    PROVE  TypeOK
<1> USE DEF Init, Slots, InitSlot, NoSlot, NoChan, TickChan
<1>1. proc \in [Slots -> Entries]
  <2>1. FreeSlot \in Entries
    BY DEF FreeSlot, Entries, States
  <2>2. [FreeSlot EXCEPT !.state = "RUNNABLE", !.pid = 1, !.kstack = TRUE] \in Entries
    BY DEF FreeSlot, Entries, States
  <2> QED
    BY <2>1, <2>2
<1>2. ticks \in 0..(TickMod - 1)
  BY ProcAssumption
<1>3. /\ nextpid \in Nat /\ ptlock \in CPUs \cup {NoCpu} /\ tickslock \in CPUs \cup {NoCpu}
      /\ on \in [CPUs -> Slots \cup {NoSlot}]
      /\ scan \in [CPUs -> 1..(NPROC + 1)]
      /\ intr \in [CPUs -> {"none", "wake", "yield"}]
      /\ pc \in [Slots -> Labels]
  BY ProcAssumption DEF Labels
<1>4. /\ yielded \in [Slots -> BOOLEAN] /\ np \in [Slots -> Slots \cup {NoSlot}]
  OBVIOUS
<1>5. nap \in [Slots -> [n : Int, ticks0 : 0..(TickMod - 1)]]
  BY ProcAssumption DEF NoNap
<1>6. panicked \in BOOLEAN
  OBVIOUS
<1> QED
  BY <1>1, <1>2, <1>3, <1>4, <1>5, <1>6 DEF TypeOK

\* A field of a slot is set.
LEMMA Fields ==
    ASSUME TypeOK, NEW q \in Slots
    PROVE  /\ \A x \in States : [proc EXCEPT ![q].state = x] \in [Slots -> Entries]
           /\ \A x \in {0, 1} : [proc EXCEPT ![q].killed = x] \in [Slots -> Entries]
           /\ \A x \in Slots \cup {NoChan, TickChan} : [proc EXCEPT ![q].chan = x] \in [Slots -> Entries]
           /\ \A x \in Slots \cup {NoSlot} : [proc EXCEPT ![q].parent = x] \in [Slots -> Entries]
           /\ \A x \in BOOLEAN : [proc EXCEPT ![q].kstack = x] \in [Slots -> Entries]
<1> USE DEF TypeOK
<1>0. proc[q] \in Entries
  OBVIOUS
<1>1. \A x \in States : [proc[q] EXCEPT !.state = x] \in Entries
  BY <1>0 DEF Entries
<1>2. \A x \in {0, 1} : [proc[q] EXCEPT !.killed = x] \in Entries
  BY <1>0 DEF Entries
<1>3. \A x \in Slots \cup {NoChan, TickChan} : [proc[q] EXCEPT !.chan = x] \in Entries
  BY <1>0 DEF Entries
<1>4. \A x \in Slots \cup {NoSlot} : [proc[q] EXCEPT !.parent = x] \in Entries
  BY <1>0 DEF Entries
<1>5. \A x \in BOOLEAN : [proc[q] EXCEPT !.kstack = x] \in Entries
  BY <1>0 DEF Entries
<1> QED
  BY <1>0, <1>1, <1>2, <1>3, <1>4, <1>5

\* wakeup keeps the table's type, and all of a slot but the state of a sleeper.
LEMMA WokenTable ==
    ASSUME NEW t \in [Slots -> Entries], NEW chans
    PROVE  /\ Woken(t, chans) \in [Slots -> Entries]
           /\ \A q \in Slots :
                 /\ Woken(t, chans)[q].pid = t[q].pid /\ Woken(t, chans)[q].parent = t[q].parent
                 /\ Woken(t, chans)[q].killed = t[q].killed /\ Woken(t, chans)[q].chan = t[q].chan
                 /\ Woken(t, chans)[q].kstack = t[q].kstack
                 /\ Woken(t, chans)[q].state = IF t[q].state = "SLEEPING" /\ t[q].chan \in chans
                                                 THEN "RUNNABLE" ELSE t[q].state
<1>1. ASSUME NEW q \in Slots
      PROVE  /\ Woken(t, chans)[q] \in Entries
             /\ Woken(t, chans)[q].pid = t[q].pid /\ Woken(t, chans)[q].parent = t[q].parent
             /\ Woken(t, chans)[q].killed = t[q].killed /\ Woken(t, chans)[q].chan = t[q].chan
             /\ Woken(t, chans)[q].kstack = t[q].kstack
             /\ Woken(t, chans)[q].state = IF t[q].state = "SLEEPING" /\ t[q].chan \in chans
                                             THEN "RUNNABLE" ELSE t[q].state
  <2>1. PICK r : r = [t[q] EXCEPT !.state = "RUNNABLE"]
    OBVIOUS
  <2>2. /\ r \in Entries /\ r.pid = t[q].pid /\ r.parent = t[q].parent /\ r.killed = t[q].killed
        /\ r.chan = t[q].chan /\ r.kstack = t[q].kstack /\ r.state = "RUNNABLE"
    BY <2>1 DEF Entries, States
  <2>3. Woken(t, chans)[q] = IF t[q].state = "SLEEPING" /\ t[q].chan \in chans THEN r ELSE t[q]
    BY <2>1 DEF Woken
  <2> QED
    BY <2>2, <2>3
<1>2. Woken(t, chans) \in [Slots -> Entries]
  BY <1>1 DEF Woken
<1> QED
  BY <1>1, <1>2

\* What exit does to each slot.
LEMMA ExitTable ==
    ASSUME TypeOK, NEW s \in Slots, proc' = AfterExit(s)
    PROVE  \E chans :
             /\ chans = {proc[s].parent} \cup (IF ZombieChildren(s) = {} THEN {} ELSE {InitSlot})
             /\ proc' \in [Slots -> Entries]
             /\ \A q \in Slots :
                 /\ proc'[q].pid = proc[q].pid /\ proc'[q].killed = proc[q].killed
                 /\ proc'[q].chan = proc[q].chan /\ proc'[q].kstack = proc[q].kstack
                 /\ proc'[q].parent = IF proc[q].parent = s THEN InitSlot ELSE proc[q].parent
                 /\ proc'[q].state = IF q = s THEN "ZOMBIE"
                                            ELSE IF proc[q].state = "SLEEPING" /\ proc[q].chan \in chans
                                                   THEN "RUNNABLE" ELSE proc[q].state
<1> DEFINE chans   == {proc[s].parent} \cup (IF ZombieChildren(s) = {} THEN {} ELSE {InitSlot})
           adopted == [q \in Slots |-> IF q \in Children(s)
                                         THEN [proc[q] EXCEPT !.parent = InitSlot] ELSE proc[q]]
           woken   == Woken(adopted, chans)
<1>1. proc' = [woken EXCEPT ![s].state = "ZOMBIE"]
  BY DEF AfterExit, ZombieChildren
<1>2. /\ adopted \in [Slots -> Entries]
      /\ \A q \in Slots :
           /\ adopted[q].pid = proc[q].pid /\ adopted[q].killed = proc[q].killed
           /\ adopted[q].chan = proc[q].chan /\ adopted[q].kstack = proc[q].kstack
           /\ adopted[q].parent = (IF proc[q].parent = s THEN InitSlot ELSE proc[q].parent)
           /\ adopted[q].state = proc[q].state
  <2>1. ASSUME NEW q \in Slots
        PROVE  /\ adopted[q] \in Entries
               /\ adopted[q].pid = proc[q].pid /\ adopted[q].killed = proc[q].killed
               /\ adopted[q].chan = proc[q].chan /\ adopted[q].kstack = proc[q].kstack
               /\ adopted[q].parent = (IF proc[q].parent = s THEN InitSlot ELSE proc[q].parent)
               /\ adopted[q].state = proc[q].state
    <3>1. PICK r : r = [proc[q] EXCEPT !.parent = InitSlot]
      OBVIOUS
    <3>2. proc[q] \in Entries /\ InitSlot \in Slots
      BY ProcAssumption DEF TypeOK, InitSlot, Slots
    <3>3. /\ r \in Entries /\ r.pid = proc[q].pid /\ r.parent = InitSlot /\ r.killed = proc[q].killed
          /\ r.chan = proc[q].chan /\ r.kstack = proc[q].kstack /\ r.state = proc[q].state
      BY <3>1, <3>2 DEF Entries
    <3>4. adopted[q] = IF proc[q].parent = s THEN r ELSE proc[q]
      BY <3>1 DEF Children
    <3> HIDE DEF adopted
    <3> QED
      BY <3>2, <3>3, <3>4
  <2>2. adopted \in [Slots -> Entries]
    BY <2>1
  <2> HIDE DEF adopted
  <2> QED
    BY <2>1, <2>2
<1> HIDE DEF adopted, chans
<1>3. /\ woken \in [Slots -> Entries]
      /\ \A q \in Slots :
           /\ woken[q].pid = adopted[q].pid /\ woken[q].parent = adopted[q].parent
           /\ woken[q].killed = adopted[q].killed /\ woken[q].chan = adopted[q].chan
           /\ woken[q].kstack = adopted[q].kstack
           /\ woken[q].state = IF adopted[q].state = "SLEEPING" /\ adopted[q].chan \in chans
                                 THEN "RUNNABLE" ELSE adopted[q].state
  BY <1>2, WokenTable
<1> HIDE DEF woken
<1>4. PICK r : r = [woken[s] EXCEPT !.state = "ZOMBIE"]
  OBVIOUS
<1>5. /\ r \in Entries /\ r.pid = woken[s].pid /\ r.parent = woken[s].parent /\ r.killed = woken[s].killed
      /\ r.chan = woken[s].chan /\ r.kstack = woken[s].kstack /\ r.state = "ZOMBIE"
  BY <1>3, <1>4 DEF Entries, States
<1>6. proc' = [woken EXCEPT ![s] = r]
  BY <1>1, <1>3, <1>4
<1>7. \A q \in Slots : proc'[q] = IF q = s THEN r ELSE woken[q]
  BY <1>3, <1>6
<1>8. proc' \in [Slots -> Entries]
  BY <1>3, <1>5, <1>6
<1> QED
  <2>1. chans = {proc[s].parent} \cup (IF ZombieChildren(s) = {} THEN {} ELSE {InitSlot})
    BY DEF chans
  <2>2. ASSUME NEW q \in Slots
        PROVE  /\ proc'[q].pid = proc[q].pid /\ proc'[q].killed = proc[q].killed
               /\ proc'[q].chan = proc[q].chan /\ proc'[q].kstack = proc[q].kstack
               /\ proc'[q].parent = (IF proc[q].parent = s THEN InitSlot ELSE proc[q].parent)
               /\ proc'[q].state = IF q = s THEN "ZOMBIE"
                                          ELSE IF proc[q].state = "SLEEPING" /\ proc[q].chan \in chans
                                                 THEN "RUNNABLE" ELSE proc[q].state
    <3>1. CASE q = s
      BY <1>2, <1>3, <1>5, <1>7, <3>1
    <3>2. CASE q # s
      BY <1>2, <1>3, <1>7, <3>2
    <3> QED
      BY <3>1, <3>2
  <2> QED
    BY <1>8, <2>1, <2>2, SMTT(30)

-----------------------------------------------------------------------------
(* A running process goes on *)

\* What such a step may do with the locks; of the table, it may change its own channel.
Moves(c, s, m) ==
    /\ on[c] = s /\ proc[s].state = "RUNNING" /\ ~yielded[s] /\ intr[c] # "wake"
    /\ m \in Labels \ (Forking \cup Resuming \cup {"dead"})
    /\ s = InitSlot => m # "exit_lock"
    /\ pc' = [pc EXCEPT ![s] = m] /\ intr' = [intr EXCEPT ![c] = "none"]
    /\ UNCHANGED <<on, yielded, np, ticks>>
    /\ \A t \in Slots : t # s => nap'[t] = nap[t] /\ proc'[t] = proc[t]
    /\ proc'[s].state = "RUNNING" /\ proc'[s].parent = proc[s].parent
    /\ proc'[s].kstack = proc[s].kstack
    /\ \/ ptlock = NoCpu /\ ptlock' = c
       \/ ptlock = c /\ ptlock' = NoCpu /\ m # "wait_scan"
       \/ ptlock' = ptlock /\ (m = "wait_scan" => ptlock = c)
    /\ \/ tickslock = NoCpu /\ tickslock' = c
       \/ tickslock = c /\ tickslock' = NoCpu /\ m \notin {"sl_check", "sl_sleep"}
       \/ tickslock' = tickslock /\ (m \in {"sl_check", "sl_sleep"} => tickslock = c)
    /\ m = "sl_sleep" => StillAsleep(s)'

LEMMA MoveInv ==
    ASSUME PInv, NEW c \in CPUs, NEW s \in Slots, NEW m, Moves(c, s, m), TypeOK'
    PROVE  PInv'
<1> USE DEF PInv
<1>1. /\ on[c] = s /\ s # NoSlot /\ proc[s].state = "RUNNING" /\ ~yielded[s] /\ intr[c] # "wake"
      /\ on' = on /\ yielded' = yielded /\ np' = np /\ ticks' = ticks
      /\ proc'[s].state = "RUNNING" /\ proc'[s].parent = proc[s].parent
      /\ proc'[s].kstack = proc[s].kstack /\ \A t \in Slots : t # s => proc'[t] = proc[t]
      /\ pc'[s] = m /\ \A t \in Slots : t # s => pc'[t] = pc[t] /\ nap'[t] = nap[t]
      /\ intr'[c] = "none" /\ \A d \in CPUs : d # c => intr'[d] = intr[d]
      /\ m \notin Forking \cup Resuming \cup {"dead"}
      /\ s = InitSlot => m # "exit_lock"
  BY DEF Moves, TypeOK, NoSlot, Slots
<1>2. /\ \/ ptlock = NoCpu /\ ptlock' = c
         \/ ptlock = c /\ ptlock' = NoCpu /\ m # "wait_scan"
         \/ ptlock' = ptlock /\ (m = "wait_scan" => ptlock = c)
      /\ \/ tickslock = NoCpu /\ tickslock' = c
         \/ tickslock = c /\ tickslock' = NoCpu /\ m \notin {"sl_check", "sl_sleep"}
         \/ tickslock' = tickslock /\ (m \in {"sl_check", "sl_sleep"} => tickslock = c)
      /\ m = "sl_sleep" => StillAsleep(s)'
  BY DEF Moves
<1>3. \A d \in CPUs : d # c => on[d] # s
  BY <1>1 DEF CpuInv
<1>4. StateInv'
  BY <1>1 DEF StateInv, Resuming
<1>5. ForkInv'
  <2>1. \A t \in Slots : pc[t] \in Forking => np[t] \in Slots /\ np[t] # s
    BY <1>1 DEF ForkInv
  <2> QED
    BY <1>1, <2>1 DEF ForkInv, Forking
<1>6. CpuInv'
  <2>1. ASSUME NEW d \in CPUs, on[d] # NoSlot
        PROVE  /\ proc'[on[d]].state \notin {"UNUSED", "EMBRYO"}
               /\ proc'[on[d]].state # "RUNNING" => ptlock' = d
               /\ proc'[on[d]].state = "RUNNING" /\ Locked(on[d])' => ptlock' = d
    <3>1. CASE d = c
      BY <1>1, <1>2, <3>1 DEF CpuInv, Locked, Resuming
    <3>2. CASE d # c
      <4>1. on[d] \in Slots /\ on[d] # s
        BY <1>3, <2>1, <3>2 DEF TypeOK
      <4>2. Locked(on[d])' <=> Locked(on[d])
        BY <1>1, <4>1 DEF Locked
      <4> QED
        BY <1>1, <1>2, <2>1, <3>2, <4>1, <4>2, ProcAssumption DEF CpuInv
    <3> QED
      BY <3>1, <3>2
  <2> QED
    BY <1>1, <2>1 DEF CpuInv, Locked
<1>7. IntrInv'
  <2>1. ASSUME NEW d \in CPUs
        PROVE  IntrInv!(d)'
    <3>1. CASE d = c
      BY <1>1, <3>1
    <3>2. CASE d # c
      <4>1. on[d] # NoSlot => on[d] \in Slots /\ on[d] # s
        BY <1>3, <3>2 DEF TypeOK
      <4> QED
        BY <1>1, <1>2, <3>2, <4>1, ProcAssumption DEF IntrInv
    <3> QED
      BY <3>1, <3>2
  <2> QED
    BY <2>1 DEF IntrInv
<1>8. FamilyInv'
  BY <1>1 DEF FamilyInv, Alive
<1>9. SleepInv'
  <2>1. ASSUME NEW t \in Slots
        PROVE  SleepInv!(t)'
    <3>1. CASE t = s
      BY <1>1, <1>2, <3>1
    <3>2. CASE t # s
      <4>1. StillAsleep(t)' <=> StillAsleep(t)
        BY <1>1, <3>2 DEF StillAsleep, Elapsed
      <4> QED
        BY <1>1, <1>2, <3>2, <4>1, ProcAssumption DEF SleepInv
    <3> QED
      BY <3>1, <3>2
  <2> QED
    BY <2>1 DEF SleepInv
<1>10. WaitersMissNothing'
  <2>1. \A t \in Slots : Children(t)' = Children(t) /\ ZombieChildren(t)' = ZombieChildren(t)
    BY <1>1 DEF Children, ZombieChildren
  <2> QED
    BY <1>1, <2>1 DEF WaitersMissNothing
<1>11. SleepersMissNoTick'
  <2>1. \A t \in Slots : t # s => (StillAsleep(t)' <=> StillAsleep(t))
    BY <1>1 DEF StillAsleep, Elapsed
  <2>2. intr'[BootCpu] # "wake" => intr[BootCpu] # "wake"
    BY <1>1, ProcAssumption
  <2> QED
    BY <1>1, <2>1, <2>2 DEF SleepersMissNoTick
<1> QED
  BY <1>4, <1>5, <1>6, <1>7, <1>8, <1>9, <1>10, <1>11

\* A label is a change of pc.
LEMMA PcType ==
    ASSUME TypeOK, NEW s \in Slots, NEW m \in Labels
    PROVE  [pc EXCEPT ![s] = m] \in [Slots -> Labels]
BY DEF TypeOK

LEMMA ForkretInv ==
    ASSUME PInv, NEW c \in CPUs, NEW s \in Slots, Forkret(c, s)
    PROVE  PInv'
<1>1. TypeOK'
  <2>1. pc' \in [Slots -> Labels]
    BY PcType DEF Forkret, Goto, PInv, Labels
  <2> QED
    BY <2>1 DEF Forkret, rest, PInv, TypeOK
<1>2. Moves(c, s, "user")
  <2>1. ptlock = c
    BY DEF Forkret, At, PInv, CpuInv, Locked, Resuming, NoSlot, Slots
  <2> QED
    BY <2>1 DEF Forkret, At, Goto, rest, Moves, PInv, TypeOK, Labels, Forking, Resuming
<1> QED
  BY <1>1, <1>2, MoveInv

LEMMA KilledExitInv ==
    ASSUME PInv, NEW c \in CPUs, NEW s \in Slots, KilledExit(c, s)
    PROVE  PInv'
<1>1. TypeOK'
  <2>1. pc' \in [Slots -> Labels]
    BY PcType DEF KilledExit, Goto, PInv, Labels
  <2> QED
    BY <2>1 DEF KilledExit, PInv, TypeOK
<1>2. Moves(c, s, "exit_close")
  <2>1. proc[s].state = "RUNNING"
    BY DEF KilledExit, KilledInUser, PInv, TypeOK, StateInv, CpuInv, NoSlot, Slots, Entries, States, Resuming
  <2> QED
    BY <2>1 DEF KilledExit, Goto, Moves, PInv, TypeOK, Labels, Forking, Resuming
<1> QED
  BY <1>1, <1>2, MoveInv

LEMMA SysExitInv ==
    ASSUME PInv, NEW c \in CPUs, NEW s \in Slots, SysExit(c, s)
    PROVE  PInv'
<1>1. TypeOK'
  <2>1. pc' \in [Slots -> Labels]
    BY PcType DEF SysExit, Goto, PInv, Labels
  <2> QED
    BY <2>1 DEF SysExit, rest, PInv, TypeOK
<1>2. Moves(c, s, "exit_close")
  BY DEF SysExit, Syscall, At, Goto, rest, Moves, PInv, TypeOK, Labels, Forking, Resuming
<1> QED
  BY <1>1, <1>2, MoveInv

LEMMA ExitCloseInv ==
    ASSUME PInv, NEW c \in CPUs, NEW s \in Slots, ExitClose(c, s)
    PROVE  PInv'
<1>1. CASE s = InitSlot
  <2>1. UNCHANGED <<proc, nextpid, ptlock, tickslock, ticks, on, scan, intr, pc, yielded, np, nap>>
        /\ panicked' \in BOOLEAN
    BY <1>1 DEF ExitClose
  <2>2. TypeOK' /\ StateInv' /\ ForkInv' /\ FamilyInv' /\ WaitersMissNothing'
    BY <2>1 DEF PInv, TypeOK, StateInv, ForkInv, FamilyInv, Alive, WaitersMissNothing, Children, ZombieChildren
  <2>3. CpuInv' /\ IntrInv' /\ SleepInv' /\ SleepersMissNoTick'
    BY <2>1 DEF PInv, CpuInv, Locked, IntrInv, SleepInv, SleepersMissNoTick, StillAsleep, Elapsed
  <2> QED
    BY <2>2, <2>3 DEF PInv
<1>2. CASE s # InitSlot
  <2>1. pc' = [pc EXCEPT ![s] = "exit_lock"] /\ panicked' = panicked
    BY <1>2 DEF ExitClose, Goto
  <2>2. TypeOK'
    <3>1. pc' \in [Slots -> Labels]
      BY <2>1, PcType DEF PInv, Labels
    <3> QED
      BY <2>1, <3>1 DEF ExitClose, PInv, TypeOK
  <2>3. Moves(c, s, "exit_lock")
    BY <1>2, <2>1 DEF ExitClose, At, Moves, PInv, TypeOK, Labels, Forking, Resuming
  <2> QED
    BY <2>2, <2>3, MoveInv
<1> QED
  BY <1>1, <1>2

LEMMA SysWaitInv ==
    ASSUME PInv, NEW c \in CPUs, NEW s \in Slots, SysWait(c, s)
    PROVE  PInv'
<1>1. TypeOK'
  <2>1. pc' \in [Slots -> Labels]
    BY PcType DEF SysWait, Goto, PInv, Labels
  <2> QED
    BY <2>1 DEF SysWait, rest, PInv, TypeOK
<1>2. Moves(c, s, "wait_scan")
  BY DEF SysWait, Syscall, At, Goto, rest, Moves, PInv, TypeOK, Labels, Forking, Resuming
<1> QED
  BY <1>1, <1>2, MoveInv

LEMMA SysSleepInv ==
    ASSUME PInv, NEW c \in CPUs, NEW s \in Slots, NEW n \in Naps, SysSleep(c, s, n)
    PROVE  PInv'
<1>1. TypeOK'
  <2>1. pc' \in [Slots -> Labels]
    BY PcType DEF SysSleep, Goto, PInv, Labels
  <2>2. nap' \in [Slots -> [n : Int, ticks0 : 0..(TickMod - 1)]]
    BY ProcAssumption DEF SysSleep, PInv, TypeOK
  <2> QED
    BY <2>1, <2>2 DEF SysSleep, PInv, TypeOK
<1>2. Moves(c, s, "sl_check")
  BY DEF SysSleep, Syscall, At, Goto, Moves, PInv, TypeOK, Labels, Forking, Resuming
<1> QED
  BY <1>1, <1>2, MoveInv

LEMMA SleepCheckInv ==
    ASSUME PInv, NEW c \in CPUs, NEW s \in Slots, SleepCheck(c, s)
    PROVE  PInv'
<1>0. on[c] = s /\ tickslock = c
  BY ProcAssumption DEF SleepCheck, At, PInv, SleepInv, CpuInv, NoSlot, Slots
<1>1. CASE ~StillAsleep(s) \/ proc[s].killed = 1
  <2>1. /\ pc' = [pc EXCEPT ![s] = "user"] /\ tickslock' = NoCpu /\ nap' = [nap EXCEPT ![s] = NoNap]
        /\ UNCHANGED <<proc, nextpid, ptlock, ticks, on, scan, intr, yielded, np, panicked>>
    BY <1>1 DEF SleepCheck, Goto
  <2>2. TypeOK'
    <3>1. pc' \in [Slots -> Labels]
      BY <2>1, PcType DEF PInv, Labels
    <3>2. nap' \in [Slots -> [n : Int, ticks0 : 0..(TickMod - 1)]]
      BY <2>1, ProcAssumption DEF PInv, TypeOK, NoNap
    <3> QED
      BY <2>1, <3>1, <3>2 DEF PInv, TypeOK
  <2>3. Moves(c, s, "user")
    BY <1>0, <2>1 DEF SleepCheck, At, Moves, PInv, TypeOK, Labels, Forking, Resuming
  <2> QED
    BY <2>2, <2>3, MoveInv
<1>2. CASE StillAsleep(s) /\ proc[s].killed = 0
  <2>1. /\ pc' = [pc EXCEPT ![s] = "sl_sleep"] /\ tickslock' = tickslock /\ nap' = nap
        /\ UNCHANGED <<proc, nextpid, ptlock, ticks, on, scan, intr, yielded, np, panicked>>
    BY <1>2 DEF SleepCheck, Goto
  <2>2. TypeOK'
    <3>1. pc' \in [Slots -> Labels]
      BY <2>1, PcType DEF PInv, Labels
    <3> QED
      BY <2>1, <3>1 DEF PInv, TypeOK
  <2>3. Moves(c, s, "sl_sleep")
    <3>1. StillAsleep(s)'
      BY <1>2, <2>1 DEF StillAsleep, Elapsed
    <3> QED
      BY <1>0, <2>1, <3>1 DEF SleepCheck, At, Moves, PInv, TypeOK, Labels, Forking, Resuming
  <2> QED
    BY <2>2, <2>3, MoveInv
<1> QED
  BY <1>1, <1>2 DEF SleepCheck

LEMMA SleepRelockInv ==
    ASSUME PInv, NEW c \in CPUs, NEW s \in Slots, SleepRelock(c, s)
    PROVE  PInv'
<1>1. TypeOK'
  <2>1. pc' \in [Slots -> Labels]
    BY PcType DEF SleepRelock, Goto, PInv, Labels
  <2> QED
    BY <2>1 DEF SleepRelock, PInv, TypeOK
<1>2. Moves(c, s, "sl_check")
  BY DEF SleepRelock, At, Goto, Moves, PInv, TypeOK, Labels, Forking, Resuming
<1> QED
  BY <1>1, <1>2, MoveInv

-----------------------------------------------------------------------------
(* The first state, and the steps that leave the table alone *)

LEMMA InitInv ==
    ASSUME Init
    PROVE  PInv
<1>1. TypeOK
  BY InitType
<1>2. /\ proc[InitSlot].state = "RUNNABLE" /\ proc[InitSlot].killed = 0 /\ proc[InitSlot].kstack
      /\ proc[InitSlot].parent = NoSlot
      /\ \A q \in Slots : q # InitSlot => /\ proc[q].state = "UNUSED" /\ proc[q].killed = 0
                                          /\ proc[q].pid = 0 /\ proc[q].parent = NoSlot
  BY ProcAssumption DEF Init, FreeSlot, Slots, InitSlot
<1>3. /\ InitSlot \in Slots /\ pc[InitSlot] = "forkret"
      /\ \A q \in Slots : q # InitSlot => pc[q] = "dead"
      /\ \A q \in Slots : ~yielded[q]
      /\ \A c \in CPUs : on[c] = NoSlot /\ intr[c] = "none"
  BY ProcAssumption DEF Init, Slots, InitSlot
<1>4. StateInv /\ ForkInv
  BY <1>2, <1>3 DEF StateInv, ForkInv, Forking, Resuming
<1>5. CpuInv /\ IntrInv /\ SleepInv
  BY <1>3 DEF CpuInv, IntrInv, SleepInv
<1>6. FamilyInv /\ WaitersMissNothing /\ SleepersMissNoTick
  BY <1>2, <1>3, ProcAssumption DEF Slots, NoSlot, InitSlot, FamilyInv, Alive, WaitersMissNothing, SleepersMissNoTick
<1> QED
  BY <1>1, <1>4, <1>5, <1>6 DEF PInv

\* The invariants that speak of the table, labels and forks only.
LEMMA TableKept ==
    ASSUME PInv, UNCHANGED <<proc, pc, np>>, \A q \in Slots : yielded'[q] => yielded[q],
           \A q \in Slots : yielded[q] /\ ~yielded'[q] => proc[q].state = "RUNNING"
    PROVE  StateInv' /\ ForkInv' /\ FamilyInv' /\ WaitersMissNothing'
<1>1. StateInv'
  BY DEF PInv, StateInv
<1>2. ForkInv'
  BY DEF PInv, ForkInv
<1> QED
  BY <1>1, <1>2 DEF PInv, FamilyInv, Alive, WaitersMissNothing, Children, ZombieChildren

LEMMA SchedLockInv ==
    ASSUME PInv, NEW c \in CPUs, SchedLock(c)
    PROVE  PInv'
<1>1. /\ on[c] = NoSlot /\ ptlock = NoCpu /\ ptlock' = c /\ intr[c] = "none"
      /\ UNCHANGED <<proc, nextpid, tickslock, ticks, on, intr, pc, yielded, np, nap, panicked>>
  BY DEF SchedLock
<1>2. TypeOK'
  <2>1. scan' \in [CPUs -> 1..(NPROC + 1)]
    BY ProcAssumption DEF SchedLock, PInv, TypeOK
  <2> QED
    BY <1>1, <2>1 DEF PInv, TypeOK
<1>3. StateInv' /\ ForkInv' /\ FamilyInv' /\ WaitersMissNothing'
  BY <1>1, TableKept
<1>4. CpuInv' /\ IntrInv'
  BY <1>1, ProcAssumption DEF PInv, CpuInv, Locked, IntrInv
<1>5. SleepInv' /\ SleepersMissNoTick'
  BY <1>1 DEF PInv, SleepInv, SleepersMissNoTick, StillAsleep, Elapsed
<1> QED
  BY <1>2, <1>3, <1>4, <1>5 DEF PInv

LEMMA SchedDoneInv ==
    ASSUME PInv, NEW c \in CPUs, SchedDone(c)
    PROVE  PInv'
<1>1. /\ on[c] = NoSlot /\ ptlock = c /\ ptlock' = NoCpu
      /\ UNCHANGED <<proc, nextpid, tickslock, ticks, on, intr, pc, yielded, np, nap, panicked>>
  BY DEF SchedDone
<1>2. TypeOK'
  <2>1. scan' \in [CPUs -> 1..(NPROC + 1)]
    BY ProcAssumption DEF SchedDone, PInv, TypeOK
  <2> QED
    BY <1>1, <2>1 DEF PInv, TypeOK
<1>3. StateInv' /\ ForkInv' /\ FamilyInv' /\ WaitersMissNothing'
  BY <1>1, TableKept
<1>4. CpuInv' /\ IntrInv'
  BY <1>1, ProcAssumption DEF PInv, CpuInv, Locked, IntrInv
<1>5. SleepInv' /\ SleepersMissNoTick'
  BY <1>1 DEF PInv, SleepInv, SleepersMissNoTick, StillAsleep, Elapsed
<1> QED
  BY <1>2, <1>3, <1>4, <1>5 DEF PInv

LEMMA SwtchInv ==
    ASSUME PInv, NEW c \in CPUs, Swtch(c)
    PROVE  PInv'
<1>1. /\ on[c] # NoSlot /\ proc[on[c]].state # "RUNNING"
      /\ UNCHANGED <<proc, nextpid, ptlock, tickslock, ticks, scan, intr, pc, yielded, np, nap,
                     panicked>>
  BY DEF Swtch
<1>2. on'[c] = NoSlot /\ \A d \in CPUs : d # c => on'[d] = on[d]
  BY DEF Swtch, PInv, TypeOK
<1>3. intr[c] = "none"
  BY <1>1 DEF PInv, IntrInv
<1>4. TypeOK'
  <2>1. on' \in [CPUs -> Slots \cup {NoSlot}]
    BY DEF Swtch, PInv, TypeOK
  <2> QED
    BY <1>1, <2>1 DEF PInv, TypeOK
<1>5. StateInv' /\ ForkInv' /\ FamilyInv' /\ WaitersMissNothing'
  BY <1>1, TableKept
<1>6. CpuInv'
  BY <1>1, <1>2 DEF PInv, CpuInv, Locked
<1>7. IntrInv'
  BY <1>1, <1>2, <1>3 DEF PInv, IntrInv
<1>8. SleepInv'
  <2>1. \A s \in Slots : StillAsleep(s)' <=> StillAsleep(s)
    BY <1>1 DEF StillAsleep, Elapsed
  <2>2. ASSUME NEW s \in Slots, pc[s] \in {"sl_check", "sl_sleep"}
        PROVE  tickslock # c
    BY <1>1, <2>2 DEF PInv, SleepInv
  <2> QED
    BY <1>1, <1>2, <2>1, <2>2 DEF PInv, SleepInv
<1>9. SleepersMissNoTick'
  BY <1>1 DEF PInv, SleepersMissNoTick, StillAsleep, Elapsed
<1> QED
  BY <1>4, <1>5, <1>6, <1>7, <1>8, <1>9 DEF PInv

LEMMA YieldReturnInv ==
    ASSUME PInv, NEW c \in CPUs, YieldReturn(c)
    PROVE  PInv'
<1>1. /\ on[c] \in Slots /\ on[c] # NoSlot /\ proc[on[c]].state = "RUNNING" /\ yielded[on[c]] /\ ptlock' = NoCpu
      /\ UNCHANGED <<proc, nextpid, tickslock, ticks, on, scan, intr, pc, np, nap, panicked>>
      /\ ~yielded'[on[c]] /\ \A t \in Slots : t # on[c] => yielded'[t] = yielded[t]
  BY DEF YieldReturn, PInv, TypeOK
<1>2. ptlock = c /\ pc[on[c]] \in Preemptible
  BY <1>1 DEF PInv, CpuInv, Locked, StateInv
<1>3. TypeOK'
  <2>1. yielded' \in [Slots -> BOOLEAN]
    BY DEF YieldReturn, PInv, TypeOK
  <2> QED
    BY <1>1, <2>1 DEF PInv, TypeOK
<1>4. StateInv' /\ ForkInv' /\ FamilyInv' /\ WaitersMissNothing'
  BY <1>1, TableKept
<1>5. CpuInv'
  <2>1. ASSUME NEW d \in CPUs, on[d] # NoSlot
        PROVE  /\ proc[on[d]].state \notin {"UNUSED", "EMBRYO"}
               /\ proc[on[d]].state # "RUNNING" => ptlock' = d
               /\ proc[on[d]].state = "RUNNING" /\ Locked(on[d])' => ptlock' = d
    <3>1. CASE d = c
      BY <1>1, <1>2, <3>1 DEF Locked, Preemptible, Resuming
    <3>2. CASE d # c
      <4>1. on[d] \in Slots /\ on[d] # on[c]
        BY <2>1, <3>2 DEF PInv, TypeOK, CpuInv
      <4>2. Locked(on[d])' <=> Locked(on[d])
        BY <1>1, <4>1 DEF Locked
      <4> QED
        BY <1>1, <1>2, <2>1, <3>2, <4>2 DEF PInv, CpuInv
    <3> QED
      BY <3>1, <3>2
  <2> QED
    BY <1>1, <2>1 DEF PInv, CpuInv, Locked
<1>6. IntrInv'
  <2>1. ASSUME NEW d \in CPUs
        PROVE  IntrInv!(d)'
    <3>1. on[d] # NoSlot => on[d] \in Slots
      BY DEF PInv, TypeOK
    <3> QED
      BY <1>1, <3>1, ProcAssumption DEF PInv, IntrInv
  <2> QED
    BY <2>1 DEF IntrInv
<1>7. SleepInv' /\ SleepersMissNoTick'
  BY <1>1 DEF PInv, SleepInv, SleepersMissNoTick, StillAsleep, Elapsed
<1> QED
  BY <1>3, <1>4, <1>5, <1>6, <1>7 DEF PInv

\* The tick may end a sleep, but the wakeup is under way.
LEMMA TickCountInv ==
    ASSUME PInv, NEW c \in CPUs, TickCount(c)
    PROVE  PInv'
<1>1. /\ c = BootCpu /\ Interruptible(c) /\ tickslock = NoCpu /\ tickslock' = c
      /\ ticks' = (ticks + 1) % TickMod
      /\ UNCHANGED <<proc, nextpid, ptlock, on, scan, pc, yielded, np, nap, panicked>>
  BY DEF TickCount
<1>2. intr'[c] = "wake" /\ \A d \in CPUs : d # c => intr'[d] = intr[d]
  BY DEF TickCount, PInv, TypeOK
<1>3. TypeOK'
  <2>1. intr' \in [CPUs -> {"none", "wake", "yield"}]
    BY DEF TickCount, PInv, TypeOK
  <2>2. ticks' \in 0..(TickMod - 1)
    BY <1>1, ProcAssumption DEF PInv, TypeOK
  <2> QED
    BY <1>1, <2>1, <2>2 DEF PInv, TypeOK
<1>4. StateInv' /\ ForkInv' /\ FamilyInv' /\ WaitersMissNothing'
  BY <1>1, TableKept
<1>5. CpuInv'
  BY <1>1 DEF PInv, CpuInv, Locked
<1>6. IntrInv'
  <2>1. on[c] # NoSlot => on[c] \in Slots /\ proc[on[c]].state = "RUNNING"
    <3>1. ASSUME on[c] # NoSlot
          PROVE  on[c] \in Slots /\ ~yielded[on[c]] /\ pc[on[c]] \in Preemptible
                 /\ proc[on[c]].state \notin {"UNUSED", "EMBRYO"} /\ proc[on[c]].state \in States
      BY <1>1, <3>1 DEF Interruptible, PInv, TypeOK, CpuInv, Entries
    <3> QED
      BY <3>1 DEF PInv, StateInv, Preemptible, Resuming, States
  <2> QED
    BY <1>1, <1>2, <2>1, ProcAssumption DEF PInv, IntrInv, Interruptible
<1>7. SleepInv'
  BY <1>1, ProcAssumption DEF PInv, SleepInv
<1>8. SleepersMissNoTick'
  BY <1>1, <1>2 DEF SleepersMissNoTick
<1> QED
  BY <1>3, <1>4, <1>5, <1>6, <1>7, <1>8 DEF PInv

-----------------------------------------------------------------------------
(* Steps that change the state of a slot *)

\* A state is set: all else stays.
LEMMA SetState ==
    ASSUME TypeOK, NEW q \in Slots, NEW x \in States, proc' = [proc EXCEPT ![q].state = x]
    PROVE  /\ proc' \in [Slots -> Entries]
           /\ proc'[q].state = x /\ proc'[q].pid = proc[q].pid /\ proc'[q].parent = proc[q].parent
           /\ proc'[q].killed = proc[q].killed /\ proc'[q].chan = proc[q].chan
           /\ proc'[q].kstack = proc[q].kstack
           /\ \A t \in Slots : t # q => proc'[t] = proc[t]
<1>1. PICK r : r = [proc[q] EXCEPT !.state = x]
  OBVIOUS
<1>2. proc[q] \in Entries
  BY DEF TypeOK
<1>3. /\ r \in Entries /\ r.pid = proc[q].pid /\ r.parent = proc[q].parent /\ r.killed = proc[q].killed
      /\ r.chan = proc[q].chan /\ r.kstack = proc[q].kstack /\ r.state = x
  BY <1>1, <1>2 DEF Entries
<1>4. proc' = [proc EXCEPT ![q] = r]
  BY <1>1
<1> QED
  BY <1>3, <1>4 DEF TypeOK

\* killed is set, and a sleeper made RUNNABLE.
LEMMA SetKilled ==
    ASSUME TypeOK, NEW q \in Slots, NEW x \in States,
           proc' = [proc EXCEPT ![q].killed = 1, ![q].state = x]
    PROVE  /\ proc' \in [Slots -> Entries]
           /\ proc'[q].state = x /\ proc'[q].pid = proc[q].pid /\ proc'[q].parent = proc[q].parent
           /\ proc'[q].killed = 1 /\ proc'[q].chan = proc[q].chan
           /\ proc'[q].kstack = proc[q].kstack
           /\ \A t \in Slots : t # q => proc'[t] = proc[t]
<1>1. PICK r : r = [proc[q] EXCEPT !.killed = 1, !.state = x]
  OBVIOUS
<1>2. proc[q] \in Entries
  BY DEF TypeOK
<1>3. /\ r \in Entries /\ r.pid = proc[q].pid /\ r.parent = proc[q].parent /\ r.killed = 1
      /\ r.chan = proc[q].chan /\ r.kstack = proc[q].kstack /\ r.state = x
  BY <1>1, <1>2 DEF Entries
<1>4. proc' = [proc EXCEPT ![q] = r]
  BY <1>1 DEF TypeOK
<1>5. proc'[q] = r /\ \A t \in Slots : t # q => proc'[t] = proc[t]
  BY <1>4 DEF TypeOK
<1>6. proc' \in [Slots -> Entries]
  BY <1>3, <1>4 DEF TypeOK
<1> QED
  BY <1>3, <1>5, <1>6

\* A process goes to sleep.
FallsAsleep(q, x) == proc' = [proc EXCEPT ![q].chan = x, ![q].state = "SLEEPING"]

LEMMA SetSleeping ==
    ASSUME TypeOK, NEW q \in Slots, NEW x \in Slots \cup {NoChan, TickChan}, FallsAsleep(q, x)
    PROVE  /\ proc' \in [Slots -> Entries]
           /\ proc'[q].state = "SLEEPING" /\ proc'[q].pid = proc[q].pid
           /\ proc'[q].parent = proc[q].parent
           /\ proc'[q].killed = proc[q].killed /\ proc'[q].chan = x
           /\ proc'[q].kstack = proc[q].kstack
           /\ \A t \in Slots : t # q => proc'[t] = proc[t]
<1>1. PICK r : r = [proc[q] EXCEPT !.chan = x, !.state = "SLEEPING"]
  OBVIOUS
<1>2. proc[q] \in Entries
  BY DEF TypeOK
<1>3. /\ r \in Entries /\ r.pid = proc[q].pid /\ r.parent = proc[q].parent
      /\ r.killed = proc[q].killed
      /\ r.chan = x /\ r.kstack = proc[q].kstack /\ r.state = "SLEEPING"
  BY <1>1, <1>2 DEF Entries, States
<1>4. proc' = [proc EXCEPT ![q] = r]
  BY <1>1 DEF TypeOK, FallsAsleep
<1>5. proc'[q] = r /\ \A t \in Slots : t # q => proc'[t] = proc[t]
  BY <1>4 DEF TypeOK
<1>6. proc' \in [Slots -> Entries]
  BY <1>3, <1>4 DEF TypeOK
<1> QED
  BY <1>3, <1>5, <1>6

\* A process forgets its channel.
LEMMA SetChan ==
    ASSUME TypeOK, NEW q \in Slots, proc' = [proc EXCEPT ![q].chan = NoChan]
    PROVE  /\ proc' \in [Slots -> Entries]
           /\ proc'[q].state = proc[q].state /\ proc'[q].pid = proc[q].pid
           /\ proc'[q].parent = proc[q].parent
           /\ proc'[q].killed = proc[q].killed
           /\ proc'[q].kstack = proc[q].kstack
           /\ \A t \in Slots : t # q => proc'[t] = proc[t]
<1>1. PICK r : r = [proc[q] EXCEPT !.chan = NoChan]
  OBVIOUS
<1>2. proc[q] \in Entries
  BY DEF TypeOK
<1>3. /\ r \in Entries /\ r.pid = proc[q].pid /\ r.parent = proc[q].parent
      /\ r.killed = proc[q].killed
      /\ r.kstack = proc[q].kstack /\ r.state = proc[q].state
  BY <1>1, <1>2 DEF Entries
<1>4. proc' = [proc EXCEPT ![q] = r]
  BY <1>1 DEF TypeOK
<1>5. proc'[q] = r /\ \A t \in Slots : t # q => proc'[t] = proc[t]
  BY <1>4 DEF TypeOK
<1>6. proc' \in [Slots -> Entries]
  BY <1>3, <1>4 DEF TypeOK
<1> QED
  BY <1>3, <1>5, <1>6

\* The scheduler that has the lock switches to a RUNNABLE process.
LEMMA SchedRunInv ==
    ASSUME PInv, NEW c \in CPUs, SchedRun(c)
    PROVE  PInv'
<1>0. PICK s \in Ahead(c) :
         /\ on' = [on EXCEPT ![c] = s]
         /\ proc' = [proc EXCEPT ![s].state = "RUNNING"]
         /\ scan' = [scan EXCEPT ![c] = s + 1]
  BY DEF SchedRun
<1>1. /\ on[c] = NoSlot /\ ptlock = c /\ s \in Slots /\ s # NoSlot /\ proc[s].state = "RUNNABLE"
      /\ UNCHANGED <<nextpid, ptlock, tickslock, ticks, intr, pc, yielded, np, nap, panicked>>
  BY <1>0 DEF SchedRun, Ahead, Slots, NoSlot
<1>2. /\ proc' \in [Slots -> Entries]
      /\ proc'[s].state = "RUNNING" /\ proc'[s].parent = proc[s].parent
      /\ proc'[s].killed = proc[s].killed /\ proc'[s].kstack = proc[s].kstack
      /\ \A t \in Slots : t # s => proc'[t] = proc[t]
  BY <1>0, <1>1, SetState DEF PInv, States
<1>3. on'[c] = s /\ \A d \in CPUs : d # c => on'[d] = on[d]
  BY <1>0 DEF PInv, TypeOK
<1>4. \A d \in CPUs : on[d] # s
  BY <1>1 DEF PInv, CpuInv
<1>5. TypeOK'
  <2>1. on' \in [CPUs -> Slots \cup {NoSlot}]
    BY <1>0, <1>1 DEF PInv, TypeOK
  <2>2. s + 1 \in 1..(NPROC + 1)
    BY <1>1, ProcAssumption DEF Slots
  <2>3. scan' \in [CPUs -> 1..(NPROC + 1)]
    BY <1>0, <2>2 DEF PInv, TypeOK
  <2> QED
    BY <1>1, <1>2, <2>1, <2>3 DEF PInv, TypeOK
<1>6. StateInv'
  BY <1>1, <1>2 DEF PInv, StateInv
<1>7. ForkInv'
  <2>1. \A t \in Slots : pc[t] \in Forking => np[t] \in Slots /\ np[t] # s
    BY <1>1 DEF PInv, ForkInv
  <2> QED
    BY <1>1, <1>2, <2>1 DEF PInv, ForkInv, Forking
<1>8. CpuInv'
  <2>1. ASSUME NEW d \in CPUs, on'[d] # NoSlot
        PROVE  /\ proc'[on'[d]].state \notin {"UNUSED", "EMBRYO"}
               /\ proc'[on'[d]].state # "RUNNING" => ptlock' = d
               /\ proc'[on'[d]].state = "RUNNING" /\ Locked(on[d])' => ptlock' = d
    <3>1. CASE d = c
      BY <1>1, <1>2, <1>3, <3>1
    <3>2. CASE d # c
      <4>1. on'[d] = on[d] /\ on[d] \in Slots /\ on[d] # s
        BY <1>3, <1>4, <2>1, <3>2 DEF PInv, TypeOK
      <4>2. Locked(on[d])' <=> Locked(on[d])
        BY <1>1, <4>1 DEF Locked
      <4> QED
        BY <1>1, <1>2, <2>1, <3>2, <4>1, <4>2 DEF PInv, CpuInv
    <3> QED
      BY <3>1, <3>2
  <2>2. \A d, e \in CPUs : d # e /\ on'[d] # NoSlot => on'[d] # on'[e]
    BY <1>1, <1>3, <1>4 DEF PInv, CpuInv
  <2> QED
    BY <2>1, <2>2 DEF CpuInv, Locked
<1>9. IntrInv'
  <2>1. ASSUME NEW d \in CPUs
        PROVE  IntrInv!(d)'
    <3>1. CASE d = c
      BY <1>1, <1>3, <3>1 DEF PInv, IntrInv
    <3>2. CASE d # c
      <4>1. on'[d] = on[d] /\ (on[d] # NoSlot => on[d] \in Slots /\ on[d] # s)
        BY <1>3, <1>4, <3>2 DEF PInv, TypeOK
      <4> QED
        BY <1>1, <1>2, <3>2, <4>1 DEF PInv, IntrInv
    <3> QED
      BY <3>1, <3>2
  <2> QED
    BY <2>1 DEF IntrInv
<1>10. FamilyInv'
  BY <1>1, <1>2 DEF PInv, FamilyInv, Alive
<1>11. SleepInv'
  <2>1. \A t \in Slots : StillAsleep(t)' <=> StillAsleep(t)
    BY <1>1 DEF StillAsleep, Elapsed
  <2>2. \A t \in Slots : pc[t] \in {"sl_check", "sl_sleep"} => tickslock # c
    BY <1>1 DEF PInv, SleepInv, Slots, NoSlot
  <2> QED
    BY <1>1, <1>2, <1>3, <2>1, <2>2 DEF PInv, SleepInv
<1>12. WaitersMissNothing'
  <2>1. \A t \in Slots : Children(t)' = Children(t) /\ ZombieChildren(t)' = ZombieChildren(t)
    BY <1>1, <1>2 DEF Children, ZombieChildren
  <2> QED
    BY <1>1, <1>2, <2>1 DEF PInv, WaitersMissNothing
<1>13. SleepersMissNoTick'
  <2>1. \A t \in Slots : StillAsleep(t)' <=> StillAsleep(t)
    BY <1>1 DEF StillAsleep, Elapsed
  <2> QED
    BY <1>1, <1>2, <2>1 DEF PInv, SleepersMissNoTick
<1> QED
  BY <1>5, <1>6, <1>7, <1>8, <1>9, <1>10, <1>11, <1>12, <1>13 DEF PInv

\* Sleepers are woken and processes killed, and nothing else changes in the table.
Wakes ==
    /\ proc' \in [Slots -> Entries] /\ UNCHANGED <<on, ptlock, pc, yielded, np>>
    /\ \A q \in Slots :
         /\ proc'[q].parent = proc[q].parent /\ proc'[q].chan = proc[q].chan
         /\ proc'[q].kstack = proc[q].kstack
         /\ \/ proc'[q].state = proc[q].state
            \/ proc[q].state = "SLEEPING" /\ proc'[q].state = "RUNNABLE"
         /\ proc'[q].state = "SLEEPING" => proc'[q].killed = proc[q].killed

LEMMA WakesInv ==
    ASSUME PInv, Wakes
    PROVE  StateInv' /\ ForkInv' /\ CpuInv' /\ FamilyInv' /\ WaitersMissNothing'
<1>1. /\ UNCHANGED <<on, ptlock, pc, yielded, np>>
      /\ \A q \in Slots :
         /\ proc'[q].parent = proc[q].parent /\ proc'[q].chan = proc[q].chan
         /\ proc'[q].kstack = proc[q].kstack
         /\ \/ proc'[q].state = proc[q].state
            \/ proc[q].state = "SLEEPING" /\ proc'[q].state = "RUNNABLE"
         /\ proc'[q].state = "SLEEPING" => proc'[q].killed = proc[q].killed
  BY DEF Wakes
<1>2. StateInv'
  BY <1>1 DEF PInv, StateInv, Resuming
<1>3. ForkInv'
  <2>1. \A t \in Slots : pc[t] \in Forking => np[t] \in Slots
    BY DEF PInv, ForkInv
  <2> QED
    BY <1>1, <2>1 DEF PInv, ForkInv, Forking
<1>4. CpuInv'
  <2>1. \A d \in CPUs : on[d] # NoSlot => on[d] \in Slots
    BY DEF PInv, TypeOK
  <2>2. \A q \in Slots : Locked(q)' <=> Locked(q)
    BY <1>1 DEF Locked
  <2>3. ASSUME NEW d \in CPUs, on[d] # NoSlot
        PROVE  /\ proc'[on[d]].state \notin {"UNUSED", "EMBRYO"}
               /\ proc'[on[d]].state # "RUNNING" => ptlock = d
               /\ proc'[on[d]].state = "RUNNING" /\ Locked(on[d]) => ptlock = d
    BY <1>1, <2>1, <2>3 DEF PInv, CpuInv
  <2> QED
    BY <1>1, <2>1, <2>2, <2>3 DEF PInv, CpuInv
<1>5. FamilyInv'
  BY <1>1, ProcAssumption DEF PInv, FamilyInv, Alive
<1>6. WaitersMissNothing'
  <2>1. \A t \in Slots : Children(t)' = Children(t) /\ ZombieChildren(t)' = ZombieChildren(t)
    BY <1>1 DEF Children, ZombieChildren
  <2> QED
    BY <1>1, <2>1 DEF PInv, WaitersMissNothing
<1> QED
  BY <1>2, <1>3, <1>4, <1>5, <1>6

\* Neither do the invariants about interrupts and sys_sleep notice, if no lock moves.
LEMMA WakesAlone ==
    ASSUME PInv, Wakes, UNCHANGED <<intr, tickslock, ticks, nap>>
    PROVE  IntrInv' /\ SleepInv' /\ SleepersMissNoTick'
<1>1. /\ UNCHANGED <<on, ptlock, pc, yielded, np>>
      /\ \A q \in Slots :
         /\ proc'[q].chan = proc[q].chan
         /\ \/ proc'[q].state = proc[q].state
            \/ proc[q].state = "SLEEPING" /\ proc'[q].state = "RUNNABLE"
  BY DEF Wakes
<1>2. \A t \in Slots : StillAsleep(t)' <=> StillAsleep(t)
  BY DEF StillAsleep, Elapsed
<1>3. \A d \in CPUs : on[d] # NoSlot => on[d] \in Slots
  BY DEF PInv, TypeOK
<1>4. IntrInv'
  BY <1>1, <1>3 DEF PInv, IntrInv
<1>5. SleepInv'
  BY <1>1, <1>2 DEF PInv, SleepInv
<1>6. SleepersMissNoTick'
  BY <1>1, <1>2 DEF PInv, SleepersMissNoTick
<1> QED
  BY <1>4, <1>5, <1>6

LEMMA TickWakeInv ==
    ASSUME PInv, NEW c \in CPUs, TickWake(c)
    PROVE  PInv'
<1>1. /\ intr[c] = "wake" /\ ptlock = NoCpu /\ tickslock' = NoCpu
      /\ UNCHANGED <<nextpid, ptlock, ticks, on, scan, pc, yielded, np, nap, panicked>>
  BY DEF TickWake
<1>2. c = BootCpu /\ tickslock = c
  BY <1>1 DEF PInv, IntrInv
<1>3. /\ proc' \in [Slots -> Entries]
      /\ \A q \in Slots :
           /\ proc'[q].parent = proc[q].parent /\ proc'[q].killed = proc[q].killed
           /\ proc'[q].chan = proc[q].chan /\ proc'[q].kstack = proc[q].kstack
           /\ proc'[q].state = IF proc[q].state = "SLEEPING" /\ proc[q].chan \in {TickChan}
                                 THEN "RUNNABLE" ELSE proc[q].state
  <2>1. proc \in [Slots -> Entries] /\ proc' = Woken(proc, {TickChan})
    BY DEF TickWake, PInv, TypeOK
  <2> QED
    BY <2>1, WokenTable
<1>4. /\ intr'[c] = (IF on[c] = NoSlot THEN "none" ELSE "yield")
      /\ \A d \in CPUs : d # c => intr'[d] = intr[d]
  BY DEF TickWake, PInv, TypeOK
<1>5. TypeOK'
  <2>1. intr' \in [CPUs -> {"none", "wake", "yield"}]
    BY DEF TickWake, PInv, TypeOK
  <2> QED
    BY <1>1, <1>3, <2>1 DEF PInv, TypeOK
<1>6. Wakes
  BY <1>1, <1>3 DEF Wakes
<1>7. StateInv' /\ ForkInv' /\ CpuInv' /\ FamilyInv' /\ WaitersMissNothing'
  BY <1>6, WakesInv
<1>8. IntrInv'
  <2>1. \A d \in CPUs : on[d] # NoSlot => on[d] \in Slots
    BY DEF PInv, TypeOK
  <2> QED
    BY <1>1, <1>2, <1>3, <1>4, <2>1, ProcAssumption DEF PInv, IntrInv
<1>9. SleepInv'
  <2>1. \A t \in Slots : pc[t] \notin {"sl_check", "sl_sleep"}
    <3>1. ASSUME NEW t \in Slots, pc[t] \in {"sl_check", "sl_sleep"}
          PROVE  FALSE
      <4>1. on[c] = t /\ t # NoSlot
        BY <1>2, <3>1 DEF PInv, SleepInv, Slots, NoSlot
      <4> QED
        BY <1>1, <3>1, <4>1 DEF PInv, IntrInv, Preemptible
    <3> QED
      BY <3>1
  <2> QED
    BY <1>1, <2>1 DEF SleepInv
<1>10. SleepersMissNoTick'
  BY <1>3 DEF SleepersMissNoTick
<1> QED
  BY <1>5, <1>7, <1>8, <1>9, <1>10 DEF PInv

LEMMA FaultInv ==
    ASSUME PInv, NEW c \in CPUs, NEW s \in Slots, Fault(c, s)
    PROVE  PInv'
<1>1. /\ proc[s].state = "RUNNING" /\ proc' = [proc EXCEPT ![s].killed = 1]
      /\ UNCHANGED <<nextpid, ptlock, tickslock, ticks, on, scan, intr, pc, yielded, np, nap, panicked>>
  BY DEF Fault, Syscall, At
<1>2. proc[s] \in Entries
  BY DEF PInv, TypeOK
<1>3. proc' = [proc EXCEPT ![s].killed = 1, ![s].state = "RUNNING"]
  <2>1. [proc[s] EXCEPT !.killed = 1] = [proc[s] EXCEPT !.killed = 1, !.state = "RUNNING"]
    BY <1>1, <1>2 DEF Entries
  <2> QED
    BY <1>1, <2>1 DEF PInv, TypeOK
<1>4. /\ proc' \in [Slots -> Entries]
      /\ proc'[s].state = "RUNNING" /\ proc'[s].parent = proc[s].parent
      /\ proc'[s].killed = 1 /\ proc'[s].chan = proc[s].chan /\ proc'[s].kstack = proc[s].kstack
      /\ \A t \in Slots : t # s => proc'[t] = proc[t]
  BY <1>3, SetKilled DEF PInv, States
<1>5. Wakes
  BY <1>1, <1>4 DEF Wakes
<1>6. TypeOK'
  BY <1>1, <1>2, <1>4 DEF PInv, TypeOK, Entries
<1> QED
  BY <1>1, <1>5, <1>6, WakesInv, WakesAlone DEF PInv

LEMMA KillInv ==
    ASSUME PInv, NEW c \in CPUs, NEW s \in Slots, NEW pid \in KillPids, Kill(c, s, pid)
    PROVE  PInv'
<1>0. PICK q \in Slots :
         /\ proc[q].pid = pid
         /\ proc' = [proc EXCEPT ![q].killed = 1,
                        ![q].state = IF @ = "SLEEPING" THEN "RUNNABLE" ELSE @]
  BY DEF Kill
<1>1. UNCHANGED <<nextpid, ptlock, tickslock, ticks, on, scan, intr, pc, yielded, np, nap, panicked>>
  BY DEF Kill
<1>2. PICK x : x = IF proc[q].state = "SLEEPING" THEN "RUNNABLE" ELSE proc[q].state
  OBVIOUS
<1>3. x \in States /\ proc[q] \in Entries
  BY <1>2 DEF PInv, TypeOK, Entries, States
<1>4. proc' = [proc EXCEPT ![q].killed = 1, ![q].state = x]
  <2>1. [proc[q] EXCEPT !.killed = 1].state = proc[q].state
    BY <1>3 DEF Entries
  <2> QED
    BY <1>0, <1>2, <2>1 DEF PInv, TypeOK
<1>5. /\ proc' \in [Slots -> Entries]
      /\ proc'[q].state = x /\ proc'[q].parent = proc[q].parent
      /\ proc'[q].chan = proc[q].chan /\ proc'[q].kstack = proc[q].kstack
      /\ \A t \in Slots : t # q => proc'[t] = proc[t]
  BY <1>3, <1>4, SetKilled DEF PInv
<1>6. Wakes
  BY <1>1, <1>2, <1>5 DEF Wakes
<1>7. TypeOK'
  BY <1>1, <1>5, ProcAssumption DEF PInv, TypeOK
<1> QED
  BY <1>1, <1>6, <1>7, WakesInv, WakesAlone DEF PInv

-----------------------------------------------------------------------------
(* A running process stops *)

\* It leaves RUNNING, its CPU keeping ptable.lock for the scheduler; others may be woken.
Stops(c, s) ==
    /\ on[c] = s /\ on' = on /\ intr[c] # "wake" /\ proc[s].state = "RUNNING"
    /\ ptlock \in {NoCpu, c} /\ ptlock' = c
    /\ proc'[s].state \in {"RUNNABLE", "SLEEPING", "ZOMBIE"}
    /\ pc'[s] \notin {"sl_check", "sl_sleep"}
    /\ proc'[s].state = "SLEEPING" /\ proc'[s].chan = TickChan => StillAsleep(s)
    /\ intr' = [intr EXCEPT ![c] = "none"]
    /\ tickslock' = tickslock \/ tickslock = c
    /\ UNCHANGED <<ticks, nap>>
    /\ \A t \in Slots : t # s =>
         /\ pc'[t] = pc[t] /\ yielded'[t] = yielded[t] /\ proc'[t].chan = proc[t].chan
         /\ \/ proc'[t].state = proc[t].state
            \/ proc[t].state = "SLEEPING" /\ proc'[t].state = "RUNNABLE"

LEMMA StopsInv ==
    ASSUME PInv, NEW c \in CPUs, NEW s \in Slots, Stops(c, s)
    PROVE  CpuInv' /\ IntrInv' /\ SleepInv' /\ SleepersMissNoTick'
<1>1. /\ on[c] = s /\ s # NoSlot /\ on' = on /\ intr[c] # "wake" /\ proc[s].state = "RUNNING"
      /\ ptlock \in {NoCpu, c} /\ ptlock' = c
      /\ proc'[s].state \in {"RUNNABLE", "SLEEPING", "ZOMBIE"}
      /\ pc'[s] \notin {"sl_check", "sl_sleep"}
      /\ proc'[s].state = "SLEEPING" /\ proc'[s].chan = TickChan => StillAsleep(s)
      /\ tickslock' = tickslock \/ tickslock = c
      /\ UNCHANGED <<ticks, nap>>
      /\ \A t \in Slots : t # s =>
           /\ pc'[t] = pc[t] /\ yielded'[t] = yielded[t] /\ proc'[t].chan = proc[t].chan
           /\ \/ proc'[t].state = proc[t].state
              \/ proc[t].state = "SLEEPING" /\ proc'[t].state = "RUNNABLE"
  BY DEF Stops, Slots, NoSlot
<1>2. intr'[c] = "none" /\ \A d \in CPUs : d # c => intr'[d] = intr[d]
  BY DEF Stops, PInv, TypeOK
<1>3. ASSUME NEW d \in CPUs, d # c, on[d] # NoSlot
      PROVE  /\ on[d] \in Slots /\ on[d] # s /\ proc[on[d]].state = "RUNNING"
             /\ proc'[on[d]].state = "RUNNING" /\ ~Locked(on[d])
  <2>1. on[d] \in Slots /\ on[d] # s
    BY <1>1, <1>3 DEF PInv, TypeOK, CpuInv
  <2>2. ptlock # d
    BY <1>1, <1>3, ProcAssumption
  <2>3. proc[on[d]].state = "RUNNING" /\ ~Locked(on[d])
    BY <1>3, <2>2 DEF PInv, CpuInv
  <2> QED
    BY <1>1, <2>1, <2>3
<1>4. \A t \in Slots : StillAsleep(t)' <=> StillAsleep(t)
  BY <1>1 DEF StillAsleep, Elapsed
<1>5. CpuInv'
  <2>1. ASSUME NEW d \in CPUs, on[d] # NoSlot
        PROVE  /\ proc'[on[d]].state \notin {"UNUSED", "EMBRYO"}
               /\ proc'[on[d]].state # "RUNNING" => ptlock' = d
               /\ proc'[on[d]].state = "RUNNING" /\ Locked(on[d])' => ptlock' = d
    <3>1. CASE d = c
      BY <1>1, <3>1
    <3>2. CASE d # c
      <4>1. Locked(on[d])' <=> Locked(on[d])
        BY <1>1, <1>3, <2>1, <3>2 DEF Locked
      <4> QED
        BY <1>3, <2>1, <3>2, <4>1
    <3> QED
      BY <3>1, <3>2
  <2> QED
    BY <1>1, <2>1 DEF PInv, CpuInv, Locked
<1>6. IntrInv'
  <2>1. ASSUME NEW d \in CPUs
        PROVE  IntrInv!(d)'
    <3>1. CASE d = c
      BY <1>2, <3>1
    <3>2. CASE d # c /\ on[d] = NoSlot
      BY <1>1, <1>2, <3>2 DEF PInv, IntrInv
    <3>3. CASE d # c /\ on[d] # NoSlot
      BY <1>1, <1>2, <1>3, <3>3 DEF PInv, IntrInv
    <3> QED
      BY <3>1, <3>2, <3>3
  <2> QED
    BY <2>1 DEF IntrInv
<1>7. SleepInv'
  <2>1. ASSUME NEW t \in Slots
        PROVE  SleepInv!(t)'
    <3>1. CASE t = s
      BY <1>1, <3>1
    <3>2. CASE t # s
      BY <1>1, <1>4, <3>2 DEF PInv, SleepInv
    <3> QED
      BY <3>1, <3>2
  <2> QED
    BY <2>1 DEF SleepInv
<1>8. SleepersMissNoTick'
  <2>1. intr'[BootCpu] # "wake" => intr[BootCpu] # "wake"
    BY <1>1, <1>2, ProcAssumption
  <2> QED
    BY <1>1, <1>4, <2>1 DEF PInv, SleepersMissNoTick
<1> QED
  BY <1>5, <1>6, <1>7, <1>8

LEMMA YieldInv ==
    ASSUME PInv, NEW c \in CPUs, Yield(c)
    PROVE  PInv'
<1>0. PICK s \in Slots : s = on[c] /\ s # NoSlot
  BY DEF Yield, PInv, TypeOK
<1>1. /\ intr[c] = "yield" \/ Interruptible(c)
      /\ ptlock = NoCpu /\ ptlock' = c /\ on' = on
      /\ proc' = [proc EXCEPT ![s].state = "RUNNABLE"]
      /\ UNCHANGED <<nextpid, tickslock, ticks, scan, pc, np, nap, panicked>>
  BY <1>0 DEF Yield, Sched
<1>2. yielded'[s] /\ \A t \in Slots : t # s => yielded'[t] = yielded[t]
  BY <1>0 DEF Yield, PInv, TypeOK
<1>3. ~yielded[s] /\ pc[s] \in Preemptible
  BY <1>0, <1>1 DEF PInv, IntrInv, Interruptible
<1>4. proc[s].state = "RUNNING"
  BY <1>0, <1>1, ProcAssumption DEF PInv, CpuInv
<1>5. /\ proc' \in [Slots -> Entries]
      /\ proc'[s].state = "RUNNABLE" /\ proc'[s].parent = proc[s].parent
      /\ proc'[s].killed = proc[s].killed /\ proc'[s].chan = proc[s].chan
      /\ proc'[s].kstack = proc[s].kstack
      /\ \A t \in Slots : t # s => proc'[t] = proc[t]
  BY <1>1, SetState DEF PInv, States
<1>6. TypeOK'
  <2>1. intr' \in [CPUs -> {"none", "wake", "yield"}] /\ yielded' \in [Slots -> BOOLEAN]
    BY DEF Yield, PInv, TypeOK
  <2> QED
    BY <1>1, <1>5, <2>1 DEF PInv, TypeOK
<1>7. StateInv'
  <2>1. pc[s] # "dead"
    BY <1>3 DEF Preemptible
  <2> QED
    BY <1>1, <1>2, <1>3, <1>4, <1>5, <2>1 DEF PInv, StateInv
<1>8. ForkInv'
  <2>1. \A t \in Slots : pc[t] \in Forking => np[t] \in Slots /\ np[t] # s
    BY <1>4 DEF PInv, ForkInv
  <2> QED
    BY <1>1, <1>5, <2>1 DEF PInv, ForkInv, Forking
<1>9. FamilyInv'
  BY <1>1, <1>4, <1>5 DEF PInv, FamilyInv, Alive
<1>10. WaitersMissNothing'
  <2>1. \A t \in Slots : Children(t)' = Children(t) /\ ZombieChildren(t)' = ZombieChildren(t)
    BY <1>4, <1>5 DEF Children, ZombieChildren
  <2> QED
    BY <1>1, <1>5, <2>1 DEF PInv, WaitersMissNothing
<1>11. Stops(c, s)
  <2>1. intr[c] # "wake" /\ intr' = [intr EXCEPT ![c] = "none"]
    BY <1>1 DEF Yield, Interruptible
  <2>2. pc[s] \notin {"sl_check", "sl_sleep"}
    BY <1>3 DEF Preemptible
  <2> QED
    BY <1>0, <1>1, <1>2, <1>4, <1>5, <2>1, <2>2 DEF Stops
<1>12. CpuInv' /\ IntrInv' /\ SleepInv' /\ SleepersMissNoTick'
  BY <1>11, StopsInv
<1> QED
  BY <1>6, <1>7, <1>8, <1>9, <1>10, <1>12 DEF PInv

LEMMA SleepStepInv ==
    ASSUME PInv, NEW c \in CPUs, NEW s \in Slots, Sleep(c, s)
    PROVE  PInv'
<1>1. /\ on[c] = s /\ proc[s].state = "RUNNING" /\ ~yielded[s] /\ pc[s] = "sl_sleep" /\ intr[c] = "none"
      /\ ptlock = NoCpu /\ ptlock' = c /\ on' = on /\ tickslock' = NoCpu
      /\ proc' = [proc EXCEPT ![s].chan = TickChan, ![s].state = "SLEEPING"]
      /\ pc' = [pc EXCEPT ![s] = "sl_resume"]
      /\ UNCHANGED <<nextpid, ticks, scan, intr, yielded, np, nap, panicked>>
  BY DEF Sleep, At, Goto, Sched
<1>2. pc'[s] = "sl_resume" /\ \A t \in Slots : t # s => pc'[t] = pc[t]
  BY <1>1 DEF PInv, TypeOK
<1>3. tickslock = c /\ StillAsleep(s)
  BY <1>1 DEF PInv, SleepInv, CpuInv, Slots, NoSlot
<1>4. /\ proc' \in [Slots -> Entries]
      /\ proc'[s].state = "SLEEPING" /\ proc'[s].parent = proc[s].parent
      /\ proc'[s].killed = proc[s].killed /\ proc'[s].chan = TickChan
      /\ proc'[s].kstack = proc[s].kstack
      /\ \A t \in Slots : t # s => proc'[t] = proc[t]
  <2>1. TickChan \in Slots \cup {NoChan, TickChan} /\ FallsAsleep(s, TickChan)
    BY <1>1 DEF FallsAsleep
  <2> QED
    BY <2>1, SetSleeping DEF PInv
<1>5. TypeOK'
  <2>1. pc' \in [Slots -> Labels]
    BY <1>1, PcType DEF PInv, Labels
  <2> QED
    BY <1>1, <1>4, <2>1 DEF PInv, TypeOK
<1>6. StateInv'
  BY <1>1, <1>2, <1>4 DEF PInv, StateInv
<1>7. ForkInv'
  <2>1. \A t \in Slots : pc[t] \in Forking => np[t] \in Slots /\ np[t] # s
    BY <1>1 DEF PInv, ForkInv
  <2> QED
    BY <1>1, <1>2, <1>4, <2>1 DEF PInv, ForkInv, Forking
<1>8. FamilyInv'
  BY <1>1, <1>2, <1>4 DEF PInv, FamilyInv, Alive
<1>9. WaitersMissNothing'
  <2>1. \A t \in Slots : Children(t)' = Children(t) /\ ZombieChildren(t)' = ZombieChildren(t)
    BY <1>1, <1>4 DEF Children, ZombieChildren
  <2>2. s # TickChan
    BY ProcAssumption DEF Slots, TickChan
  <2> QED
    BY <1>1, <1>4, <2>1, <2>2 DEF PInv, WaitersMissNothing
<1>10. Stops(c, s)
  <2>1. intr' = [intr EXCEPT ![c] = "none"]
    BY <1>1 DEF PInv, TypeOK
  <2> QED
    BY <1>1, <1>2, <1>3, <1>4, <2>1 DEF Stops
<1>11. CpuInv' /\ IntrInv' /\ SleepInv' /\ SleepersMissNoTick'
  BY <1>10, StopsInv
<1> QED
  BY <1>5, <1>6, <1>7, <1>8, <1>9, <1>11 DEF PInv

-----------------------------------------------------------------------------
(* Back from sleep, wait and exit *)

LEMMA WaitResumeInv ==
    ASSUME PInv, NEW c \in CPUs, NEW s \in Slots, WaitResume(c, s)
    PROVE  PInv'
<1>1. /\ on[c] = s /\ proc[s].state = "RUNNING" /\ ~yielded[s] /\ pc[s] = "wait_resume" /\ intr[c] = "none"
      /\ proc' = [proc EXCEPT ![s].chan = NoChan]
      /\ pc' = [pc EXCEPT ![s] = "wait_scan"]
      /\ UNCHANGED <<ptlock, on, nextpid, tickslock, ticks, scan, intr, yielded, np, nap, panicked>>
  BY DEF WaitResume, At, Goto, rest
<1>2. ptlock = c
  BY <1>1 DEF PInv, CpuInv, Locked, Resuming, NoSlot, Slots
<1>3. /\ proc' \in [Slots -> Entries]
      /\ proc'[s].state = "RUNNING" /\ proc'[s].parent = proc[s].parent
      /\ proc'[s].kstack = proc[s].kstack /\ \A t \in Slots : t # s => proc'[t] = proc[t]
  BY <1>1, SetChan DEF PInv
<1>4. TypeOK'
  <2>1. pc' \in [Slots -> Labels]
    BY <1>1, PcType DEF PInv, Labels
  <2> QED
    BY <1>1, <1>3, <2>1 DEF PInv, TypeOK
<1>5. Moves(c, s, "wait_scan")
  BY <1>1, <1>2, <1>3 DEF Moves, PInv, TypeOK, Labels, Forking, Resuming
<1> QED
  BY <1>4, <1>5, MoveInv

LEMMA SleepResumeInv ==
    ASSUME PInv, NEW c \in CPUs, NEW s \in Slots, SleepResume(c, s)
    PROVE  PInv'
<1>1. /\ on[c] = s /\ proc[s].state = "RUNNING" /\ ~yielded[s] /\ pc[s] = "sl_resume" /\ intr[c] = "none"
      /\ proc' = [proc EXCEPT ![s].chan = NoChan] /\ ptlock' = NoCpu
      /\ pc' = [pc EXCEPT ![s] = "sl_relock"]
      /\ UNCHANGED <<on, nextpid, tickslock, ticks, scan, intr, yielded, np, nap, panicked>>
  BY DEF SleepResume, At, Goto, rest
<1>2. ptlock = c
  BY <1>1 DEF PInv, CpuInv, Locked, Resuming, NoSlot, Slots
<1>3. /\ proc' \in [Slots -> Entries]
      /\ proc'[s].state = "RUNNING" /\ proc'[s].parent = proc[s].parent
      /\ proc'[s].kstack = proc[s].kstack /\ \A t \in Slots : t # s => proc'[t] = proc[t]
  BY <1>1, SetChan DEF PInv
<1>4. TypeOK'
  <2>1. pc' \in [Slots -> Labels]
    BY <1>1, PcType DEF PInv, Labels
  <2> QED
    BY <1>1, <1>3, <2>1 DEF PInv, TypeOK
<1>5. Moves(c, s, "sl_relock")
  BY <1>1, <1>2, <1>3 DEF Moves, PInv, TypeOK, Labels, Forking, Resuming
<1> QED
  BY <1>4, <1>5, MoveInv

\* Without a zombie and with somebody to wait for, wait sleeps.
LEMMA WaitSleepInv ==
    ASSUME PInv, NEW c \in CPUs, NEW s \in Slots, At(c, s, "wait_scan"),
           ZombieChildren(s) = {}, Children(s) # {}, proc[s].killed = 0,
           FallsAsleep(s, s), Goto(s, "wait_resume"), Sched(c), UNCHANGED rest
    PROVE  PInv'
<1>1. /\ on[c] = s /\ proc[s].state = "RUNNING" /\ ~yielded[s] /\ pc[s] = "wait_scan" /\ intr[c] = "none"
      /\ ptlock' = c /\ on' = on
      /\ pc' = [pc EXCEPT ![s] = "wait_resume"]
      /\ UNCHANGED <<nextpid, tickslock, ticks, scan, intr, yielded, np, nap, panicked>>
  BY DEF At, Goto, Sched, rest
<1>2. pc'[s] = "wait_resume" /\ \A t \in Slots : t # s => pc'[t] = pc[t]
  BY <1>1 DEF PInv, TypeOK
<1>3. ptlock = c
  BY <1>1 DEF PInv, CpuInv, Locked, Slots, NoSlot
<1>4. /\ proc' \in [Slots -> Entries]
      /\ proc'[s].state = "SLEEPING" /\ proc'[s].parent = proc[s].parent
      /\ proc'[s].killed = proc[s].killed /\ proc'[s].chan = s
      /\ proc'[s].kstack = proc[s].kstack
      /\ \A t \in Slots : t # s => proc'[t] = proc[t]
  <2>1. s \in Slots \cup {NoChan, TickChan}
    OBVIOUS
  <2> QED
    BY <2>1, SetSleeping DEF PInv
<1>5. TypeOK'
  <2>1. pc' \in [Slots -> Labels]
    BY <1>1, PcType DEF PInv, Labels
  <2> QED
    BY <1>1, <1>4, <2>1 DEF PInv, TypeOK
<1>6. StateInv'
  BY <1>1, <1>2, <1>4 DEF PInv, StateInv
<1>7. ForkInv'
  <2>1. \A t \in Slots : pc[t] \in Forking => np[t] \in Slots /\ np[t] # s
    BY <1>1 DEF PInv, ForkInv
  <2> QED
    BY <1>1, <1>2, <1>4, <2>1 DEF PInv, ForkInv, Forking
<1>8. FamilyInv'
  BY <1>1, <1>2, <1>4 DEF PInv, FamilyInv, Alive
<1>9. WaitersMissNothing'
  <2>1. \A t \in Slots : Children(t)' = Children(t) /\ ZombieChildren(t)' = ZombieChildren(t)
    BY <1>1, <1>4 DEF Children, ZombieChildren
  <2> QED
    BY <1>1, <1>4, <2>1 DEF PInv, WaitersMissNothing
<1>10. Stops(c, s)
  <2>1. intr' = [intr EXCEPT ![c] = "none"]
    BY <1>1 DEF PInv, TypeOK
  <2>2. s # TickChan
    BY ProcAssumption DEF Slots, TickChan
  <2> QED
    BY <1>1, <1>2, <1>3, <1>4, <2>1, <2>2 DEF Stops
<1>11. CpuInv' /\ IntrInv' /\ SleepInv' /\ SleepersMissNoTick'
  BY <1>10, StopsInv
<1> QED
  BY <1>5, <1>6, <1>7, <1>8, <1>9, <1>11 DEF PInv

\* The zombie that wait frees is on no CPU, because the lock is held here.
LEMMA WaitReapInv ==
    ASSUME PInv, NEW c \in CPUs, NEW s \in Slots, At(c, s, "wait_scan"),
           NEW q \in ZombieChildren(s),
           proc' = [proc EXCEPT ![q] = Reaped(@)], ptlock' = NoCpu, Goto(s, "user"),
           on' = on, UNCHANGED rest
    PROVE  PInv'
<1>1. /\ on[c] = s /\ proc[s].state = "RUNNING" /\ ~yielded[s] /\ pc[s] = "wait_scan" /\ intr[c] = "none"
      /\ q \in Slots /\ q # s /\ proc[q].state = "ZOMBIE" /\ proc[q].parent = s
      /\ pc' = [pc EXCEPT ![s] = "user"]
      /\ UNCHANGED <<nextpid, tickslock, ticks, scan, intr, yielded, np, nap, panicked>>
  BY DEF At, Goto, rest, ZombieChildren, Children
<1>2. pc'[s] = "user" /\ \A t \in Slots : t # s => pc'[t] = pc[t]
  BY <1>1 DEF PInv, TypeOK
<1>3. ptlock = c
  BY <1>1 DEF PInv, CpuInv, Locked, Slots, NoSlot
<1>4. /\ proc' \in [Slots -> Entries]
      /\ proc'[q].state = "UNUSED" /\ proc'[q].parent = NoSlot
      /\ \A t \in Slots : t # q => proc'[t] = proc[t]
  <2>1. PICK r : r = Reaped(proc[q])
    OBVIOUS
  <2>2. proc[q] \in Entries
    BY <1>1 DEF PInv, TypeOK
  <2>3. r \in Entries /\ r.state = "UNUSED" /\ r.parent = NoSlot
    BY <2>1, <2>2 DEF Reaped, FreeSlot, Entries, States
  <2>4. proc' = [proc EXCEPT ![q] = r]
    BY <2>1
  <2> QED
    BY <1>1, <2>3, <2>4 DEF PInv, TypeOK
<1>5. ASSUME NEW d \in CPUs, on[d] # NoSlot
      PROVE  on[d] \in Slots /\ on[d] # q
  BY <1>1, <1>3, <1>5 DEF PInv, TypeOK, CpuInv
<1>6. ASSUME NEW d \in CPUs, on[d] # NoSlot, d # c
      PROVE  on[d] # s
  BY <1>1, <1>6 DEF PInv, CpuInv
<1>7. \A t \in Slots : StillAsleep(t)' <=> StillAsleep(t)
  BY <1>1 DEF StillAsleep, Elapsed
<1>8. TypeOK'
  <2>1. pc' \in [Slots -> Labels]
    BY <1>1, PcType DEF PInv, Labels
  <2> QED
    BY <1>1, <1>4, <2>1 DEF PInv, TypeOK
<1>9. StateInv'
  <2>1. pc[q] = "dead" /\ ~yielded[q]
    BY <1>1 DEF PInv, StateInv
  <2> QED
    BY <1>1, <1>2, <1>4, <2>1 DEF PInv, StateInv
<1>10. ForkInv'
  <2>1. \A t \in Slots : pc[t] \in Forking => np[t] \in Slots /\ np[t] # q
    BY <1>1 DEF PInv, ForkInv
  <2> QED
    BY <1>1, <1>2, <1>4, <2>1 DEF PInv, ForkInv, Forking
<1>11. CpuInv'
  <2>1. ASSUME NEW d \in CPUs, on[d] # NoSlot
        PROVE  /\ proc'[on[d]].state \notin {"UNUSED", "EMBRYO"}
               /\ proc'[on[d]].state # "RUNNING" => ptlock' = d
               /\ proc'[on[d]].state = "RUNNING" /\ Locked(on[d])' => ptlock' = d
    <3>1. CASE d = c
      BY <1>1, <1>2, <1>4, <3>1 DEF Locked, Resuming
    <3>2. CASE d # c
      <4>1. Locked(on[d])' <=> Locked(on[d])
        BY <1>1, <1>2, <1>5, <1>6, <2>1, <3>2 DEF Locked
      <4> QED
        BY <1>3, <1>4, <1>5, <2>1, <3>2, <4>1 DEF PInv, CpuInv
    <3> QED
      BY <3>1, <3>2
  <2> QED
    BY <2>1 DEF PInv, CpuInv, Locked
<1>12. IntrInv'
  <2>1. ASSUME NEW d \in CPUs
        PROVE  IntrInv!(d)'
    <3>1. CASE d = c
      BY <1>1, <3>1
    <3>2. CASE d # c /\ on[d] = NoSlot
      BY <1>1, <3>2, ProcAssumption DEF PInv, IntrInv
    <3>3. CASE d # c /\ on[d] # NoSlot
      BY <1>1, <1>2, <1>4, <1>5, <1>6, <3>3 DEF PInv, IntrInv
    <3> QED
      BY <3>1, <3>2, <3>3
  <2> QED
    BY <2>1 DEF IntrInv
<1>13. FamilyInv'
  <2>1. q # InitSlot
    BY <1>1 DEF PInv, FamilyInv, Alive
  <2> QED
    BY <1>1, <1>2, <1>4, <2>1, ProcAssumption DEF PInv, FamilyInv, Alive, Slots, NoSlot
<1>14. SleepInv'
  BY <1>1, <1>2, <1>4, <1>7 DEF PInv, SleepInv
<1>15. WaitersMissNothing'
  <2>1. ASSUME NEW t \in Slots, proc'[t].state = "SLEEPING", proc'[t].chan = t
        PROVE  Children(t)' # {} /\ ZombieChildren(t)' = {} /\ proc'[t].killed = 0
    <3>1. t # q /\ t # s /\ proc'[t] = proc[t]
      BY <1>1, <1>4, <2>1
    <3>2. Children(t)' = Children(t) /\ ZombieChildren(t)' = ZombieChildren(t)
      BY <1>1, <1>4, <3>1 DEF Children, ZombieChildren, Slots, NoSlot
    <3> QED
      BY <2>1, <3>1, <3>2 DEF PInv, WaitersMissNothing
  <2> QED
    BY <2>1 DEF WaitersMissNothing
<1>16. SleepersMissNoTick'
  BY <1>1, <1>4, <1>7 DEF PInv, SleepersMissNoTick
<1> QED
  BY <1>8, <1>9, <1>10, <1>11, <1>12, <1>13, <1>14, <1>15, <1>16 DEF PInv

LEMMA WaitScanInv ==
    ASSUME PInv, NEW c \in CPUs, NEW s \in Slots, WaitScan(c, s)
    PROVE  PInv'
<1>1. At(c, s, "wait_scan") /\ UNCHANGED rest
  BY DEF WaitScan
<1>2. CASE /\ ZombieChildren(s) # {}
           /\ \E q \in ZombieChildren(s) :
                 proc' = [proc EXCEPT ![q] = Reaped(@)] /\ ptlock' = NoCpu /\ Goto(s, "user") /\ on' = on
  BY <1>1, <1>2, WaitReapInv
<1>3. CASE proc' = proc /\ on' = on /\ ptlock' = NoCpu /\ Goto(s, "user")
  <2>1. TypeOK'
    <3>1. pc' \in [Slots -> Labels]
      BY <1>3, PcType DEF Goto, PInv, Labels
    <3> QED
      BY <1>1, <1>3, <3>1 DEF rest, PInv, TypeOK
  <2>2. Moves(c, s, "user")
    <3>1. ptlock = c
      BY <1>1 DEF At, PInv, CpuInv, Locked, Slots, NoSlot
    <3> QED
      BY <1>1, <1>3, <3>1 DEF At, Goto, rest, Moves, PInv, TypeOK, Labels, Forking, Resuming
  <2> QED
    BY <2>1, <2>2, MoveInv
<1>4. CASE /\ ZombieChildren(s) = {} /\ Children(s) # {} /\ proc[s].killed = 0
           /\ FallsAsleep(s, s) /\ Goto(s, "wait_resume") /\ Sched(c)
  BY <1>1, <1>4, WaitSleepInv
<1> QED
  BY <1>2, <1>3, <1>4 DEF WaitScan, FallsAsleep

LEMMA ExitInv ==
    ASSUME PInv, NEW c \in CPUs, NEW s \in Slots, Exit(c, s)
    PROVE  PInv'
<1>1. /\ on[c] = s /\ proc[s].state = "RUNNING" /\ ~yielded[s] /\ pc[s] = "exit_lock" /\ intr[c] = "none"
      /\ ptlock = NoCpu /\ ptlock' = c /\ on' = on
      /\ pc' = [pc EXCEPT ![s] = "dead"]
      /\ UNCHANGED <<nextpid, tickslock, ticks, scan, intr, yielded, np, nap, panicked>>
  BY DEF Exit, At, Goto, Sched, rest
<1>2. pc'[s] = "dead" /\ \A t \in Slots : t # s => pc'[t] = pc[t]
  BY <1>1 DEF PInv, TypeOK
<1>3. PICK chans :
         /\ chans = {proc[s].parent} \cup (IF ZombieChildren(s) = {} THEN {} ELSE {InitSlot})
         /\ proc' \in [Slots -> Entries]
         /\ \A q \in Slots :
             /\ proc'[q].pid = proc[q].pid /\ proc'[q].killed = proc[q].killed
             /\ proc'[q].chan = proc[q].chan /\ proc'[q].kstack = proc[q].kstack
             /\ proc'[q].parent = IF proc[q].parent = s THEN InitSlot ELSE proc[q].parent
             /\ proc'[q].state = IF q = s THEN "ZOMBIE"
                                 ELSE IF proc[q].state = "SLEEPING" /\ proc[q].chan \in chans
                                        THEN "RUNNABLE" ELSE proc[q].state
  <2>1. proc' = AfterExit(s)
    BY DEF Exit
  <2> QED
    BY <2>1, ExitTable DEF PInv
<1>4. s # InitSlot /\ InitSlot \in Slots /\ s # NoSlot
  BY <1>1, ProcAssumption DEF PInv, FamilyInv, InitSlot, Slots, NoSlot
<1>5. TypeOK'
  <2>1. pc' \in [Slots -> Labels]
    BY <1>1, PcType DEF PInv, Labels
  <2> QED
    BY <1>1, <1>3, <2>1 DEF PInv, TypeOK
<1>6. StateInv'
  <2>1. ASSUME NEW t \in Slots
        PROVE  StateInv!(t)'
    <3>1. CASE t = s
      BY <1>1, <1>2, <1>3, <3>1 DEF PInv, StateInv
    <3>2. CASE t # s
      BY <1>1, <1>2, <1>3, <1>4, <3>2 DEF PInv, StateInv, Resuming
    <3> QED
      BY <3>1, <3>2
  <2> QED
    BY <2>1 DEF StateInv
<1>7. ForkInv'
  <2>1. \A t \in Slots : pc[t] \in Forking => np[t] \in Slots /\ np[t] # s
    BY <1>1 DEF PInv, ForkInv
  <2>2. ASSUME NEW t \in Slots, pc'[t] \in Forking
        PROVE  /\ np[t] \in Slots /\ proc'[np[t]].state = "EMBRYO" /\ proc'[np[t]].kstack = proc[np[t]].kstack
               /\ pc[t] = "fork_ready" => proc'[np[t]].parent = t
               /\ pc[t] \in {"fork_kstack", "fork_copy"} => proc'[np[t]].parent = NoSlot
    <3>1. t # s /\ pc[t] \in Forking
      BY <1>2, <2>2 DEF Forking
    <3>2. np[t] \in Slots /\ np[t] # s /\ proc[np[t]].state = "EMBRYO"
      BY <2>1, <3>1 DEF PInv, ForkInv
    <3>3. /\ pc[t] = "fork_ready" => proc[np[t]].parent = t
          /\ pc[t] \in {"fork_kstack", "fork_copy"} => proc[np[t]].parent = NoSlot
      BY DEF PInv, ForkInv
    <3> QED
      BY <1>3, <1>4, <3>1, <3>2, <3>3
  <2> QED
    BY <1>1, <1>2, <2>2 DEF PInv, ForkInv, Forking
<1>8. FamilyInv'
  <2>1. InitSlot \in Alive' /\ pc'[InitSlot] # "exit_lock"
    BY <1>2, <1>3, <1>4 DEF PInv, FamilyInv, Alive
  <2>2. \A t \in Alive : t # s => t \in Alive'
    BY <1>3 DEF Alive
  <2>3. ASSUME NEW t \in Slots, proc'[t].state \notin {"UNUSED", "EMBRYO"}, t # InitSlot
        PROVE  proc'[t].parent \in Alive'
    <3>1. proc[t].parent \in Alive
      BY <1>1, <1>3, <2>3 DEF PInv, FamilyInv
    <3> QED
      BY <1>3, <2>1, <2>2, <3>1
  <2>4. proc'[InitSlot].parent = NoSlot /\ \A t \in Slots : proc'[t].parent # t
    BY <1>3, <1>4 DEF PInv, FamilyInv
  <2> QED
    BY <2>1, <2>3, <2>4 DEF FamilyInv
<1>9. WaitersMissNothing'
  <2>1. ASSUME NEW t \in Slots, proc'[t].state = "SLEEPING", proc'[t].chan = t
        PROVE  Children(t)' # {} /\ ZombieChildren(t)' = {} /\ proc'[t].killed = 0
    <3>1. t # s /\ proc[t].state = "SLEEPING" /\ proc[t].chan = t /\ t \notin chans
      BY <1>3, <2>1
    <3>2. Children(t) # {} /\ ZombieChildren(t) = {} /\ proc[t].killed = 0
      BY <3>1 DEF PInv, WaitersMissNothing
    <3>3. \A u \in Slots : u \in Children(t) => u \in Children(t)'
      BY <1>3, <3>1 DEF Children
    <3>4. ASSUME NEW u \in ZombieChildren(t)'
          PROVE  FALSE
      <4>1. u \in Slots /\ proc'[u].parent = t /\ proc'[u].state = "ZOMBIE"
        BY DEF ZombieChildren, Children
      <4>2. proc[s].parent # s /\ proc[s].parent # t
        BY <1>3, <3>1 DEF PInv, FamilyInv
      <4>3. u # s
        BY <1>3, <4>1, <4>2, <3>1
      <4>4. proc[u].state = "ZOMBIE"
        BY <1>3, <4>1, <4>3
      <4>5. CASE proc[u].parent = s
        <5>1. t = InitSlot /\ u \in ZombieChildren(s)
          BY <1>3, <4>1, <4>4, <4>5 DEF ZombieChildren, Children
        <5> QED
          BY <1>3, <3>1, <5>1
      <4>6. CASE proc[u].parent # s
        BY <1>3, <3>2, <4>1, <4>4, <4>6 DEF ZombieChildren, Children
      <4> QED
        BY <4>5, <4>6
    <3>5. Children(t)' # {}
      BY <3>2, <3>3 DEF Children
    <3> QED
      BY <1>3, <3>2, <3>4, <3>5
  <2> QED
    BY <2>1 DEF WaitersMissNothing
<1>10. Stops(c, s)
  <2>1. intr' = [intr EXCEPT ![c] = "none"]
    BY <1>1 DEF PInv, TypeOK
  <2> QED
    BY <1>1, <1>2, <1>3, <2>1 DEF Stops
<1>11. CpuInv' /\ IntrInv' /\ SleepInv' /\ SleepersMissNoTick'
  BY <1>10, StopsInv
<1> QED
  BY <1>5, <1>6, <1>7, <1>8, <1>9, <1>11 DEF PInv

-----------------------------------------------------------------------------
(* fork *)

\* One step in the making of a child, which is nobody's concern yet.
Builds(c, s, q, m) ==
    /\ on[c] = s /\ proc[s].state = "RUNNING" /\ ~yielded[s] /\ pc[s] \in Forking \cup {"user"}
    /\ proc[q].state \in {"UNUSED", "EMBRYO"} /\ proc[q].parent = NoSlot
    /\ proc'[q].state \in {"UNUSED", "EMBRYO"} /\ proc'[q].parent \in {NoSlot, s}
    /\ proc'[q].state = "UNUSED" => proc'[q].parent = NoSlot
    /\ \A t \in Slots : t # q => proc'[t] = proc[t]
    /\ m \in Forking \cup {"user", "exit_close"} /\ pc' = [pc EXCEPT ![s] = m]
    /\ UNCHANGED <<ptlock, tickslock, ticks, on, intr, yielded, nap>>

LEMMA BuildsInv ==
    ASSUME PInv, NEW c \in CPUs, NEW s \in Slots, NEW q \in Slots, NEW m, Builds(c, s, q, m)
    PROVE  StateInv' /\ CpuInv' /\ IntrInv' /\ FamilyInv' /\ SleepInv' /\ WaitersMissNothing'
             /\ SleepersMissNoTick'
<1>1. /\ on[c] = s /\ proc[s].state = "RUNNING" /\ ~yielded[s] /\ pc[s] \in Forking \cup {"user"}
      /\ proc[q].state \in {"UNUSED", "EMBRYO"} /\ proc[q].parent = NoSlot
      /\ proc'[q].state \in {"UNUSED", "EMBRYO"} /\ proc'[q].parent \in {NoSlot, s}
      /\ proc'[q].state = "UNUSED" => proc'[q].parent = NoSlot
      /\ \A t \in Slots : t # q => proc'[t] = proc[t]
      /\ m \in Forking \cup {"user", "exit_close"} /\ s # NoSlot
      /\ UNCHANGED <<ptlock, tickslock, ticks, on, intr, yielded, nap>>
  BY DEF Builds, Slots, NoSlot
<1>2. pc'[s] = m /\ \A t \in Slots : t # s => pc'[t] = pc[t]
  BY DEF Builds, PInv, TypeOK
<1>3. q # s /\ q # InitSlot /\ pc'[q] = "dead" /\ ~yielded[q]
  BY <1>1, <1>2 DEF PInv, StateInv, FamilyInv, Alive
<1>4. ASSUME NEW d \in CPUs, on[d] # NoSlot
      PROVE  on[d] \in Slots /\ on[d] # q /\ proc'[on[d]] = proc[on[d]]
  BY <1>1, <1>4 DEF PInv, TypeOK, CpuInv
<1>5. \A t \in Slots : StillAsleep(t)' <=> StillAsleep(t)
  BY <1>1 DEF StillAsleep, Elapsed
<1>6. StateInv'
  <2>1. ASSUME NEW t \in Slots
        PROVE  StateInv!(t)'
    <3>1. CASE t = s
      BY <1>1, <1>2, <1>3, <3>1 DEF PInv, StateInv, Forking
    <3>2. CASE t = q
      BY <1>1, <1>2, <1>3, <3>2
    <3>3. CASE t # s /\ t # q
      BY <1>1, <1>2, <3>3 DEF PInv, StateInv
    <3> QED
      BY <3>1, <3>2, <3>3
  <2> QED
    BY <2>1 DEF StateInv
<1>7. CpuInv'
  <2>1. ASSUME NEW d \in CPUs, on[d] # NoSlot
        PROVE  /\ proc'[on[d]].state \notin {"UNUSED", "EMBRYO"}
               /\ proc'[on[d]].state # "RUNNING" => ptlock = d
               /\ proc'[on[d]].state = "RUNNING" /\ Locked(on[d])' => ptlock = d
    <3>1. CASE on[d] = s
      BY <1>1, <1>2, <1>3, <3>1 DEF Locked, Resuming, Forking
    <3>2. CASE on[d] # s
      <4>1. Locked(on[d])' <=> Locked(on[d])
        BY <1>1, <1>2, <1>4, <2>1, <3>2 DEF Locked
      <4> QED
        BY <1>4, <2>1, <4>1 DEF PInv, CpuInv
    <3> QED
      BY <3>1, <3>2
  <2> QED
    BY <1>1, <2>1 DEF PInv, CpuInv, Locked
<1>8. IntrInv'
  <2>1. ASSUME NEW d \in CPUs
        PROVE  IntrInv!(d)'
    <3>1. CASE on[d] = NoSlot
      BY <1>1, <3>1 DEF PInv, IntrInv
    <3>2. CASE on[d] # NoSlot
      <4>1. m \in Preemptible
        BY <1>1 DEF Forking, Preemptible
      <4> QED
        BY <1>1, <1>2, <1>4, <3>2, <4>1 DEF PInv, IntrInv
    <3> QED
      BY <3>1, <3>2
  <2> QED
    BY <2>1 DEF IntrInv
<1>9. FamilyInv'
  <2>1. Alive' = Alive
    BY <1>1 DEF Alive
  <2> QED
    BY <1>1, <1>2, <1>3, <2>1, ProcAssumption DEF PInv, FamilyInv, Forking, InitSlot, NoSlot, Slots
<1>10. SleepInv'
  <2>1. \A t \in Slots : pc'[t] \in {"sl_check", "sl_sleep"} => t # s /\ t # q
    BY <1>1, <1>2, <1>3 DEF Forking
  <2> QED
    BY <1>1, <1>2, <1>5, <2>1 DEF PInv, SleepInv
<1>11. WaitersMissNothing'
  <2>1. ASSUME NEW t \in Slots, proc'[t].state = "SLEEPING", proc'[t].chan = t
        PROVE  Children(t)' # {} /\ ZombieChildren(t)' = {} /\ proc'[t].killed = 0
    <3>1. t # q /\ t # s /\ t # NoSlot /\ proc'[t] = proc[t]
      BY <1>1, <1>3, <2>1 DEF Slots, NoSlot
    <3>2. Children(t)' = Children(t) /\ ZombieChildren(t)' = ZombieChildren(t)
      BY <1>1, <3>1 DEF Children, ZombieChildren
    <3> QED
      BY <2>1, <3>1, <3>2 DEF PInv, WaitersMissNothing
  <2> QED
    BY <2>1 DEF WaitersMissNothing
<1>12. SleepersMissNoTick'
  BY <1>1, <1>5 DEF PInv, SleepersMissNoTick
<1> QED
  BY <1>6, <1>7, <1>8, <1>9, <1>10, <1>11, <1>12

LEMMA ForkAllocInv ==
    ASSUME PInv, NEW c \in CPUs, NEW s \in Slots, ForkAlloc(c, s)
    PROVE  PInv'
<1>0. PICK q \in Slots :
         /\ proc[q].state = "UNUSED"
         /\ proc' = [proc EXCEPT ![q].state = "EMBRYO", ![q].pid = nextpid]
         /\ np' = [np EXCEPT ![s] = q] /\ pc' = [pc EXCEPT ![s] = "fork_kstack"]
  BY DEF ForkAlloc, Unused, Goto
<1>1. /\ on[c] = s /\ proc[s].state = "RUNNING" /\ ~yielded[s] /\ pc[s] = "user"
      /\ nextpid' = nextpid + 1
      /\ UNCHANGED <<ptlock, tickslock, ticks, on, scan, intr, yielded, nap, panicked>>
  BY DEF ForkAlloc, Syscall, At
<1>2. /\ proc' \in [Slots -> Entries] /\ proc'[q].state = "EMBRYO" /\ proc'[q].parent = proc[q].parent
      /\ \A t \in Slots : t # q => proc'[t] = proc[t]
  <2>1. PICK r : r = [proc[q] EXCEPT !.state = "EMBRYO", !.pid = nextpid]
    OBVIOUS
  <2>2. r \in Entries /\ r.state = "EMBRYO" /\ r.parent = proc[q].parent
    <3>1. proc[q] \in Entries /\ nextpid \in Nat
      BY DEF PInv, TypeOK
    <3> QED
      BY <2>1, <3>1 DEF Entries, States
  <2>3. proc' = [proc EXCEPT ![q] = r]
    BY <1>0, <2>1 DEF PInv, TypeOK
  <2> QED
    BY <2>2, <2>3 DEF PInv, TypeOK
<1>3. np'[s] = q /\ \A t \in Slots : t # s => np'[t] = np[t]
  BY <1>0 DEF PInv, TypeOK
<1>4. pc'[s] = "fork_kstack" /\ \A t \in Slots : t # s => pc'[t] = pc[t]
  BY <1>0 DEF PInv, TypeOK
<1>5. proc[q].parent = NoSlot
  BY <1>0 DEF PInv, StateInv
<1>6. TypeOK'
  <2>1. pc' \in [Slots -> Labels]
    BY <1>0, PcType DEF PInv, Labels
  <2>2. np' \in [Slots -> Slots \cup {NoSlot}]
    BY <1>0 DEF PInv, TypeOK
  <2> QED
    BY <1>1, <1>2, <2>1, <2>2 DEF PInv, TypeOK
<1>7. ForkInv'
  <2>1. \A t \in Slots : pc[t] \in Forking => np[t] \in Slots /\ np[t] # q
    BY <1>0 DEF PInv, ForkInv
  <2>2. ASSUME NEW t \in Slots, t # s, pc'[t] \in Forking
        PROVE  np'[t] = np[t] /\ np[t] \in Slots /\ np[t] # q /\ proc'[np[t]] = proc[np[t]]
    BY <1>2, <1>3, <1>4, <2>1, <2>2
  <2> QED
    BY <1>2, <1>3, <1>4, <1>5, <2>2 DEF PInv, ForkInv, Forking
<1>8. Builds(c, s, q, "fork_kstack")
  BY <1>0, <1>1, <1>2, <1>5 DEF Builds, Forking
<1> QED
  BY <1>6, <1>7, <1>8, BuildsInv DEF PInv

\* A fork without a free slot.
LEMMA ForkNoSlotInv ==
    ASSUME PInv, NEW c \in CPUs, NEW s \in Slots, ForkNoSlot(c, s)
    PROVE  PInv'
<1>0. ForkFailed(s) \in {"user", "exit_close"}
  BY DEF ForkFailed
<1>1. TypeOK'
  <2>1. pc' \in [Slots -> Labels]
    BY <1>0, PcType DEF ForkNoSlot, Goto, PInv, Labels
  <2> QED
    BY <2>1 DEF ForkNoSlot, rest, PInv, TypeOK
<1>2. Moves(c, s, ForkFailed(s))
  BY <1>0 DEF ForkNoSlot, Syscall, At, Goto, rest, Moves, PInv, TypeOK, Labels, Forking, Resuming
<1> QED
  BY <1>1, <1>2, MoveInv

\* The parts of a fork that succeed.
LEMMA ForkGoesOn ==
    ASSUME PInv, NEW c \in CPUs, NEW s \in Slots, NEW q \in Slots, NEW m, Builds(c, s, q, m),
           pc[s] \in Forking, q = np[s], np' = np, m \in Forking, proc' \in [Slots -> Entries],
           proc'[q].state = "EMBRYO",
           m \in {"fork_kstack", "fork_copy"} => proc'[q].parent = NoSlot,
           m \in {"fork_copy", "fork_ready"} => proc'[q].kstack,
           m = "fork_ready" => proc'[q].parent = s,
           UNCHANGED <<nextpid, scan, panicked>>
    PROVE  PInv'
<1>1. pc'[s] = m /\ \A t \in Slots : t # s => pc'[t] = pc[t]
  BY DEF Builds, PInv, TypeOK
<1>2. \A t \in Slots : t # q => proc'[t] = proc[t]
  BY DEF Builds
<1>3. TypeOK'
  <2>1. pc' \in [Slots -> Labels]
    BY PcType DEF Builds, PInv, Labels, Forking
  <2> QED
    BY <2>1 DEF Builds, PInv, TypeOK
<1>4. ForkInv'
  <2>1. ASSUME NEW t \in Slots, t # s, pc'[t] \in Forking
        PROVE  np[t] \in Slots /\ np[t] # q /\ proc'[np[t]] = proc[np[t]]
    BY <1>1, <1>2, <2>1 DEF PInv, ForkInv
  <2> QED
    BY <1>1, <2>1 DEF PInv, ForkInv, Forking
<1> QED
  BY <1>3, <1>4, BuildsInv DEF PInv

\* A fork that fails gives the slot back.
LEMMA ForkGivesUp ==
    ASSUME PInv, NEW c \in CPUs, NEW s \in Slots, NEW q \in Slots, NEW m, Builds(c, s, q, m),
           m = ForkFailed(s),
           pc[s] \in Forking, q = np[s], np' = [np EXCEPT ![s] = NoSlot], proc' \in [Slots -> Entries],
           UNCHANGED <<nextpid, scan, panicked>>
    PROVE  PInv'
<1>0. m \in {"user", "exit_close"}
  BY DEF ForkFailed
<1>1. pc'[s] = m /\ \A t \in Slots : t # s => pc'[t] = pc[t] /\ np'[t] = np[t]
  BY DEF Builds, PInv, TypeOK
<1>2. \A t \in Slots : t # q => proc'[t] = proc[t]
  BY DEF Builds
<1>3. TypeOK'
  <2>1. pc' \in [Slots -> Labels]
    BY <1>0, PcType DEF Builds, PInv, Labels
  <2>2. np' \in [Slots -> Slots \cup {NoSlot}]
    BY DEF PInv, TypeOK
  <2> QED
    BY <2>1, <2>2 DEF Builds, PInv, TypeOK
<1>4. ForkInv'
  <2>1. ASSUME NEW t \in Slots, pc'[t] \in Forking
        PROVE  t # s /\ np'[t] = np[t] /\ np[t] \in Slots /\ np[t] # q /\ proc'[np[t]] = proc[np[t]]
    <3>1. t # s
      BY <1>0, <1>1, <2>1 DEF Forking
    <3> QED
      BY <1>1, <1>2, <2>1, <3>1 DEF PInv, ForkInv
  <2> QED
    BY <1>1, <2>1 DEF PInv, ForkInv, Forking
<1> QED
  BY <1>3, <1>4, BuildsInv DEF PInv

LEMMA ForkKstackInv ==
    ASSUME PInv, NEW c \in CPUs, NEW s \in Slots, ForkKstack(c, s)
    PROVE  PInv'
<1>1. /\ on[c] = s /\ proc[s].state = "RUNNING" /\ ~yielded[s] /\ pc[s] = "fork_kstack"
      /\ UNCHANGED <<nextpid, ptlock, tickslock, ticks, on, scan, intr, yielded, nap, panicked>>
  BY DEF ForkKstack, At
<1>2. PICK q \in Slots : q = np[s] /\ proc[q].state = "EMBRYO" /\ proc[q].parent = NoSlot
  BY <1>1 DEF PInv, ForkInv, Forking
<1>3. proc[q] \in Entries
  BY DEF PInv, TypeOK
<1>4. CASE proc' = [proc EXCEPT ![np[s]].kstack = TRUE] /\ Goto(s, "fork_copy") /\ np' = np
  <2>1. /\ proc' \in [Slots -> Entries] /\ proc'[q].state = "EMBRYO" /\ proc'[q].parent = NoSlot
        /\ proc'[q].kstack /\ \A t \in Slots : t # q => proc'[t] = proc[t]
    <3>1. PICK r : r = [proc[q] EXCEPT !.kstack = TRUE]
      OBVIOUS
    <3>2. r \in Entries /\ r.state = "EMBRYO" /\ r.parent = NoSlot /\ r.kstack = TRUE
      BY <1>2, <1>3, <3>1 DEF Entries
    <3>3. proc' = [proc EXCEPT ![q] = r]
      BY <1>2, <1>4, <3>1
    <3> QED
      BY <3>2, <3>3 DEF PInv, TypeOK
  <2>2. Builds(c, s, q, "fork_copy")
    BY <1>1, <1>2, <1>4, <2>1 DEF Builds, Forking, Goto
  <2> QED
    BY <1>1, <1>2, <1>4, <2>1, <2>2, ForkGoesOn DEF Forking
<1>5. CASE /\ proc' = [proc EXCEPT ![np[s]].state = "UNUSED"]
           /\ np' = [np EXCEPT ![s] = NoSlot] /\ Goto(s, ForkFailed(s))
  <2>1. /\ proc' \in [Slots -> Entries] /\ proc'[q].state = "UNUSED" /\ proc'[q].parent = NoSlot
        /\ \A t \in Slots : t # q => proc'[t] = proc[t]
    BY <1>2, <1>5, SetState DEF PInv, States
  <2>2. Builds(c, s, q, ForkFailed(s))
    BY <1>1, <1>2, <1>5, <2>1 DEF Builds, Forking, Goto, ForkFailed
  <2> QED
    BY <1>1, <1>2, <1>5, <2>1, <2>2, ForkGivesUp DEF Forking
<1> QED
  BY <1>4, <1>5 DEF ForkKstack

LEMMA ForkCopyInv ==
    ASSUME PInv, NEW c \in CPUs, NEW s \in Slots, ForkCopy(c, s)
    PROVE  PInv'
<1>1. /\ on[c] = s /\ proc[s].state = "RUNNING" /\ ~yielded[s] /\ pc[s] = "fork_copy"
      /\ UNCHANGED <<nextpid, ptlock, tickslock, ticks, on, scan, intr, yielded, nap, panicked>>
  BY DEF ForkCopy, At
<1>2. PICK q \in Slots : q = np[s] /\ proc[q].state = "EMBRYO" /\ proc[q].parent = NoSlot /\ proc[q].kstack
  BY <1>1 DEF PInv, ForkInv, Forking
<1>3. proc[q] \in Entries
  BY DEF PInv, TypeOK
<1>4. CASE proc' = [proc EXCEPT ![np[s]].parent = s] /\ Goto(s, "fork_ready") /\ np' = np
  <2>1. /\ proc' \in [Slots -> Entries] /\ proc'[q].state = "EMBRYO" /\ proc'[q].parent = s
        /\ proc'[q].kstack /\ \A t \in Slots : t # q => proc'[t] = proc[t]
    <3>1. PICK r : r = [proc[q] EXCEPT !.parent = s]
      OBVIOUS
    <3>2. r \in Entries /\ r.state = "EMBRYO" /\ r.parent = s /\ r.kstack = proc[q].kstack
      BY <1>2, <1>3, <3>1 DEF Entries
    <3>3. proc' = [proc EXCEPT ![q] = r]
      BY <1>2, <1>4, <3>1
    <3> QED
      BY <1>2, <3>2, <3>3 DEF PInv, TypeOK
  <2>2. Builds(c, s, q, "fork_ready")
    BY <1>1, <1>2, <1>4, <2>1 DEF Builds, Forking, Goto
  <2> QED
    BY <1>1, <1>2, <1>4, <2>1, <2>2, ForkGoesOn DEF Forking
<1>5. CASE /\ proc' = [proc EXCEPT ![np[s]].kstack = FALSE, ![np[s]].state = "UNUSED"]
           /\ np' = [np EXCEPT ![s] = NoSlot] /\ Goto(s, ForkFailed(s))
  <2>1. /\ proc' \in [Slots -> Entries] /\ proc'[q].state = "UNUSED" /\ proc'[q].parent = NoSlot
        /\ \A t \in Slots : t # q => proc'[t] = proc[t]
    <3>1. PICK r : r = [proc[q] EXCEPT !.kstack = FALSE, !.state = "UNUSED"]
      OBVIOUS
    <3>2. r \in Entries /\ r.state = "UNUSED" /\ r.parent = NoSlot
      BY <1>2, <1>3, <3>1 DEF Entries, States
    <3>3. proc' = [proc EXCEPT ![q] = r]
      BY <1>2, <1>5, <3>1 DEF PInv, TypeOK
    <3> QED
      BY <3>2, <3>3 DEF PInv, TypeOK
  <2>2. Builds(c, s, q, ForkFailed(s))
    BY <1>1, <1>2, <1>5, <2>1 DEF Builds, Forking, Goto, ForkFailed
  <2> QED
    BY <1>1, <1>2, <1>5, <2>1, <2>2, ForkGivesUp DEF Forking
<1> QED
  BY <1>4, <1>5 DEF ForkCopy

\* The child joins the living, its parent among them.
LEMMA ForkReadyInv ==
    ASSUME PInv, NEW c \in CPUs, NEW s \in Slots, ForkReady(c, s)
    PROVE  PInv'
<1>1. /\ on[c] = s /\ proc[s].state = "RUNNING" /\ ~yielded[s] /\ pc[s] = "fork_ready" /\ s # NoSlot
      /\ intr[c] = "none" /\ ptlock = NoCpu
      /\ UNCHANGED <<nextpid, ptlock, tickslock, ticks, on, scan, intr, yielded, nap, panicked>>
  BY DEF ForkReady, At, Slots, NoSlot
<1>2. PICK q \in Slots : q = np[s] /\ proc[q].state = "EMBRYO" /\ proc[q].parent = s /\ proc[q].kstack
  BY <1>1 DEF PInv, ForkInv, Forking
<1>3. /\ proc' \in [Slots -> Entries] /\ proc'[q].state = "RUNNABLE" /\ proc'[q].parent = s
      /\ proc'[q].kstack /\ \A t \in Slots : t # q => proc'[t] = proc[t]
  BY <1>2, SetState DEF ForkReady, PInv, States
<1>4. q # s /\ q # InitSlot /\ ~yielded[q] /\ pc[q] = "dead"
  BY <1>1, <1>2 DEF PInv, StateInv, FamilyInv, Alive
<1>5. /\ pc'[s] = "user" /\ pc'[q] = "forkret"
      /\ \A t \in Slots : t # s /\ t # q => pc'[t] = pc[t]
  BY <1>2, <1>4 DEF ForkReady, PInv, TypeOK
<1>6. \A t \in Slots : t # s => np'[t] = np[t]
  BY DEF ForkReady, PInv, TypeOK
<1>7. ASSUME NEW d \in CPUs, on[d] # NoSlot
      PROVE  on[d] \in Slots /\ on[d] # q /\ proc'[on[d]] = proc[on[d]]
  BY <1>2, <1>3, <1>7 DEF PInv, TypeOK, CpuInv
<1>8. \A t \in Slots : StillAsleep(t)' <=> StillAsleep(t)
  BY <1>1 DEF StillAsleep, Elapsed
<1>9. TypeOK'
  <2>1. pc' \in [Slots -> Labels]
    BY <1>2 DEF ForkReady, PInv, TypeOK, Labels
  <2>2. np' \in [Slots -> Slots \cup {NoSlot}]
    BY DEF ForkReady, PInv, TypeOK
  <2> QED
    BY <1>1, <1>3, <2>1, <2>2 DEF PInv, TypeOK
<1>10. StateInv'
  <2>1. ASSUME NEW t \in Slots
        PROVE  StateInv!(t)'
    <3>1. CASE t = s
      BY <1>1, <1>3, <1>4, <1>5, <3>1 DEF PInv, StateInv
    <3>2. CASE t = q
      BY <1>1, <1>3, <1>4, <1>5, <3>2 DEF Resuming
    <3>3. CASE t # s /\ t # q
      BY <1>1, <1>3, <1>5, <3>3 DEF PInv, StateInv
    <3> QED
      BY <3>1, <3>2, <3>3
  <2> QED
    BY <2>1 DEF StateInv
<1>11. ForkInv'
  <2>1. ASSUME NEW t \in Slots, pc'[t] \in Forking
        PROVE  /\ t # s /\ pc'[t] = pc[t] /\ np'[t] = np[t] /\ np[t] \in Slots /\ np[t] # q
               /\ proc'[np[t]] = proc[np[t]]
    <3>1. t # s /\ t # q
      BY <1>5, <2>1 DEF Forking
    <3>2. pc'[t] = pc[t] /\ np'[t] = np[t] /\ pc[t] \in Forking
      BY <1>5, <1>6, <2>1, <3>1
    <3>3. pc[s] \in Forking
      BY <1>1 DEF Forking
    <3>4. np[t] \in Slots /\ np[t] # q
      BY <1>2, <3>1, <3>2, <3>3 DEF PInv, ForkInv
    <3> QED
      BY <1>3, <3>1, <3>2, <3>4
  <2> QED
    BY <2>1 DEF PInv, ForkInv, Forking
<1>12. CpuInv'
  <2>1. ASSUME NEW d \in CPUs, on[d] # NoSlot
        PROVE  /\ proc'[on[d]].state \notin {"UNUSED", "EMBRYO"}
               /\ proc'[on[d]].state # "RUNNING" => ptlock = d
               /\ proc'[on[d]].state = "RUNNING" /\ Locked(on[d])' => ptlock = d
    <3>1. CASE on[d] = s
      BY <1>1, <1>3, <1>4, <1>5, <3>1 DEF Locked, Resuming
    <3>2. CASE on[d] # s
      <4>1. Locked(on[d])' <=> Locked(on[d])
        BY <1>1, <1>5, <1>7, <2>1, <3>2 DEF Locked
      <4> QED
        BY <1>7, <2>1, <4>1 DEF PInv, CpuInv
    <3> QED
      BY <3>1, <3>2
  <2> QED
    BY <1>1, <2>1 DEF PInv, CpuInv, Locked
<1>13. IntrInv'
  <2>1. ASSUME NEW d \in CPUs
        PROVE  IntrInv!(d)'
    <3>1. CASE on[d] = NoSlot
      BY <1>1, <3>1 DEF PInv, IntrInv
    <3>2. CASE on[d] # NoSlot
      <4>1. "user" \in Preemptible
        BY DEF Preemptible
      <4> QED
        BY <1>1, <1>5, <1>7, <3>2, <4>1 DEF PInv, IntrInv
    <3> QED
      BY <3>1, <3>2
  <2> QED
    BY <2>1 DEF IntrInv
<1>14. FamilyInv'
  <2>1. Alive \subseteq Alive' /\ s \in Alive
    BY <1>1, <1>2, <1>3 DEF Alive
  <2>2. InitSlot \in Slots /\ InitSlot \in Alive'
    BY <2>1, ProcAssumption DEF PInv, FamilyInv, InitSlot, Slots
  <2>3. pc'[InitSlot] # "exit_lock" /\ proc'[InitSlot].parent = NoSlot
    BY <1>3, <1>4, <1>5, <2>2 DEF PInv, FamilyInv
  <2>4. \A t \in Slots : proc'[t].parent # t
    BY <1>3, <1>4 DEF PInv, FamilyInv
  <2>5. \A t \in Slots : proc'[t].state \notin {"UNUSED", "EMBRYO"} /\ t # InitSlot
                            => proc'[t].parent \in Alive'
    BY <1>3, <2>1 DEF PInv, FamilyInv
  <2> QED
    BY <2>2, <2>3, <2>4, <2>5 DEF FamilyInv
<1>15. SleepInv'
  <2>1. \A t \in Slots : pc'[t] \in {"sl_check", "sl_sleep"} => t # s /\ t # q
    BY <1>5
  <2> QED
    BY <1>1, <1>3, <1>5, <1>8, <2>1 DEF PInv, SleepInv
<1>16. WaitersMissNothing'
  <2>1. \A t \in Slots : Children(t)' = Children(t) /\ ZombieChildren(t)' = ZombieChildren(t)
    BY <1>2, <1>3 DEF Children, ZombieChildren
  <2> QED
    BY <1>3, <2>1 DEF PInv, WaitersMissNothing
<1>17. SleepersMissNoTick'
  BY <1>1, <1>3, <1>8 DEF PInv, SleepersMissNoTick
<1> QED
  BY <1>9, <1>10, <1>11, <1>12, <1>13, <1>14, <1>15, <1>16, <1>17 DEF PInv

-----------------------------------------------------------------------------
(* The theorems *)

LEMMA NextInv ==
    ASSUME PInv, [Next]_vars
    PROVE  PInv'
<1>1. CASE UNCHANGED vars \/ Halted
  <2>1. /\ proc' = proc /\ nextpid' = nextpid /\ ptlock' = ptlock /\ tickslock' = tickslock
        /\ ticks' = ticks /\ on' = on /\ scan' = scan /\ intr' = intr /\ pc' = pc
        /\ yielded' = yielded /\ np' = np /\ nap' = nap /\ panicked' = panicked
    BY <1>1 DEF vars, Halted
  <2>2. TypeOK' /\ StateInv' /\ ForkInv' /\ CpuInv' /\ IntrInv'
    BY <2>1 DEF PInv, TypeOK, StateInv, ForkInv, CpuInv, Locked, IntrInv
  <2>3. FamilyInv' /\ SleepInv' /\ WaitersMissNothing' /\ SleepersMissNoTick'
    BY <2>1 DEF PInv, FamilyInv, Alive, SleepInv, WaitersMissNothing, Children, ZombieChildren,
                SleepersMissNoTick, StillAsleep, Elapsed
  <2> QED
    BY <2>2, <2>3 DEF PInv
<1>2. ASSUME NEW c \in CPUs, Scheduler(c) \/ TickCount(c) \/ Timer(c)
      PROVE  PInv'
  BY <1>2, SchedLockInv, SchedRunInv, SchedDoneInv, SwtchInv, TickCountInv, TickWakeInv, YieldInv,
     YieldReturnInv DEF Scheduler, Timer
<1>3. ASSUME NEW c \in CPUs, NEW s \in Slots, Kernel(c, s)
      PROVE  PInv'
  BY <1>3, ForkretInv, KilledExitInv, ForkKstackInv, ForkCopyInv, ForkReadyInv, ExitCloseInv, ExitInv,
     WaitScanInv, WaitResumeInv, SleepCheckInv, SleepStepInv, SleepResumeInv, SleepRelockInv
     DEF Kernel
<1>4. ASSUME NEW c \in CPUs, NEW s \in Slots, User(c, s)
      PROVE  PInv'
  BY <1>4, ForkAllocInv, ForkNoSlotInv, SysExitInv, SysWaitInv, FaultInv, KillInv, SysSleepInv DEF User
<1> QED
  BY <1>1, <1>2, <1>3, <1>4 DEF Next

LEMMA Invariance == Spec => []PInv
<1>1. Init => PInv
  BY InitInv
<1>2. PInv /\ [Next]_vars => PInv'
  BY NextInv
<1> QED
  BY <1>1, <1>2, PTL DEF Spec

\* A process is on at most one CPU, and it is RUNNING there or that CPU holds
\* ptable.lock until it has left the process's stack, which still exists: what
\* sched, scheduler, exit and wait promise each other (proc.c).
THEOREM NoSharedStack == Spec => []RunsOnce
<1>1. PInv => RunsOnce
  <2> SUFFICES ASSUME PInv
               PROVE  RunsOnce
    OBVIOUS
  <2>1. \A c \in CPUs : on[c] # NoSlot => on[c] \in Slots
    BY DEF PInv, TypeOK
  <2> QED
    BY <2>1 DEF PInv, CpuInv, StateInv, RunsOnce
<1> QED
  BY <1>1, Invariance, PTL

\* Whatever exits in whatever order, every process and every zombie but init has
\* a living parent: exit passes the children on to init, which never exits.
THEOREM NoOrphan == Spec => []ParentsAlive
<1>1. PInv => ParentsAlive
  BY DEF PInv, FamilyInv, ParentsAlive
<1> QED
  BY <1>1, Invariance, PTL

\* wait never sleeps through the exit of a child, a kill, or the arrival of a zombie
\* that init inherits, though the test and the sleep are apart (proc.c wait, exit).
THEOREM WaitWakes == Spec => []WaitersMissNothing
<1>1. PInv => WaitersMissNothing
  BY DEF PInv
<1> QED
  BY <1>1, Invariance, PTL

\* sys_sleep never sleeps through the tick it waits for: tickslock is given up only
\* once ptable.lock is held (proc.c sleep, trap.c).
THEOREM SleepWakes == Spec => []SleepersMissNoTick
<1>1. PInv => SleepersMissNoTick
  BY DEF PInv
<1> QED
  BY <1>1, Invariance, PTL

\* The type invariant.
THEOREM TypeCorrect == Spec => []TypeOK
<1>1. PInv => TypeOK
  BY DEF PInv
<1> QED
  BY <1>1, Invariance, PTL
=============================================================================

-------------------------------- MODULE Log ---------------------------------
(***************************************************************************)
(* The file system's write-ahead log: log.c.                               *)
(*                                                                         *)
(* A system call runs between begin_op and end_op and logs the blocks it   *)
(* changes; the last one to end commits for all of them: log blocks, then  *)
(* the header (the commit point), then the home locations, then an empty   *)
(* header.  initlog replays the log after a crash.  Regions under log.lock *)
(* are one step; every disk write is a step, and the machine may stop      *)
(* between any two.  The buffer cache appears as what it holds: a block    *)
(* not pinned by B_DIRTY may be recycled at any time and is read again     *)
(* from the disk.                                                          *)
(***************************************************************************)
EXTENDS Naturals, Sequences, FiniteSets

CONSTANTS
    Procs,        \* processes that make file system calls
    Boot,         \* the first process, which runs initlog
    Blocks,       \* home blocks
    Vals, Zero,   \* block contents; Zero is what mkfs leaves
    NotCached,    \* no buffer holds the block
    MaxOpBlocks,  \* MAXOPBLOCKS (10): log space begin_op reserves per call
    LogSize,      \* LOGSIZE (30): entries of logheader.block
    LogBlocks,    \* log.size (30): blocks of the log on disk, header included
    OpBlocks,     \* most distinct blocks one call logs
    CanCrash      \* whether the machine may stop

ASSUME LogAssumption ==
    /\ Boot \notin Procs /\ IsFiniteSet(Procs) /\ IsFiniteSet(Blocks)
    /\ Zero \in Vals /\ NotCached \notin Vals
    /\ MaxOpBlocks \in Nat \ {0} /\ LogSize \in Nat /\ LogBlocks \in Nat \ {0} /\ OpBlocks \in Nat
    /\ CanCrash \in BOOLEAN

VARIABLES
    home,         \* disk: home blocks
    logdata,      \* disk: log blocks behind the header
    head,         \* disk: block numbers in the header, <<>> when n is 0
    lh,           \* log.lh
    outstanding,  \* log.outstanding
    committing,   \* log.committing
    cache,        \* buffer contents
    dirty,        \* blocks whose buffer is B_DIRTY
    pc,           \* where each process is
    tail,         \* loop counter of write_log and install_trans
    wrote,        \* blocks the current call of a process has logged
    pend,         \* the block a process is inside log_write with, as a set
    panicked      \* a panic stops the machine

disk == <<home, logdata, head>>
logv == <<lh, outstanding, committing>>
bufs == <<cache, dirty>>
work == <<wrote, pend>>
vars == <<disk, logv, bufs, pc, tail, work, panicked>>

Actors == Procs \cup {Boot}

-----------------------------------------------------------------------------
(* Helpers *)

At(a, label) == ~panicked /\ pc[a] = label
Goto(a, label) == pc' = [pc EXCEPT ![a] = label]
Booted == pc[Boot] = "booted"

\* Mutant: nobody is woken.
WakeNone(a, label) == pc' = [pc EXCEPT ![a] = label]

\* wakeup(&log): every process asleep on the log tries again; a moves to label.
WakeAnd(a, label) ==
    pc' = [x \in Actors |-> IF x = a THEN label
                            ELSE IF pc[x] = "asleep" THEN "begin" ELSE pc[x]]

\* bread: the buffer if there is one, the disk otherwise.
Mem == [b \in Blocks |-> IF cache[b] = NotCached THEN home[b] ELSE cache[b]]

\* The blocks once the header on disk has been replayed.
Logged(b) == \E i \in 1..Len(head) : head[i] = b
Recovered ==
    [b \in Blocks |-> IF Logged(b) THEN logdata[CHOOSE i \in 1..Len(head) : head[i] = b]
                      ELSE home[b]]

-----------------------------------------------------------------------------
(* Recovery: initlog, recover_from_log *)

ReadHead ==
    /\ At(Boot, "read_head")
    /\ lh' = head
    /\ tail' = [tail EXCEPT ![Boot] = 0]
    /\ Goto(Boot, IF head = <<>> THEN "clear" ELSE "install")
    /\ UNCHANGED <<disk, outstanding, committing, bufs, work, panicked>>

-----------------------------------------------------------------------------
(* begin_op, log_write, end_op *)

\* In the loop of begin_op, from user mode or awake again.
Calling(p) == At(p, "begin") \/ (At(p, "idle") /\ Booted)

\* Mutant: log space is not reserved.
MustWaitCommitOnly == committing

MustWait == committing \/ Len(lh) + (outstanding + 1) * MaxOpBlocks > LogSize

BeginOpSleep(p) ==
    /\ Calling(p)
    /\ MustWait
    /\ Goto(p, "asleep")
    /\ UNCHANGED <<disk, logv, bufs, tail, work, panicked>>

BeginOp(p) ==
    /\ Calling(p)
    /\ ~MustWait
    /\ outstanding' = outstanding + 1
    /\ Goto(p, "inop")
    /\ wrote' = [wrote EXCEPT ![p] = {}]
    /\ UNCHANGED <<disk, lh, committing, bufs, tail, pend, panicked>>

\* The two panics of log_write.
LogFull == Len(lh) >= LogSize \/ Len(lh) >= LogBlocks - 1

\* Log absorption: a block already in the log keeps its place.
Absorb(b) == IF \E i \in 1..Len(lh) : lh[i] = b THEN lh ELSE Append(lh, b)

\* A block whose buffer some process has locked (sleep-lock held, refcnt > 0).
Locked == UNION {pend[p] : p \in Procs}

\* bread, change the buffer, enter log_write: its panics test the log without
\* holding log.lock.
LogCheck(p, b, v) ==
    /\ At(p, "inop")
    /\ pend[p] = {}
    /\ b \notin Locked
    /\ Cardinality(wrote[p] \cup {b}) <= OpBlocks
    /\ cache' = [cache EXCEPT ![b] = v]
    /\ panicked' = (LogFull \/ outstanding < 1)
    /\ pend' = [pend EXCEPT ![p] = {b}]
    /\ UNCHANGED <<disk, logv, dirty, pc, tail, wrote>>

\* The rest of log_write, under log.lock, and brelse.
LogWrite(p) ==
    \E b \in pend[p] :
        /\ At(p, "inop")
        /\ lh' = Absorb(b)
        /\ dirty' = dirty \cup {b}
        /\ wrote' = [wrote EXCEPT ![p] = @ \cup {b}]
        /\ pend' = [pend EXCEPT ![p] = {}]
        /\ UNCHANGED <<disk, outstanding, committing, cache, pc, tail, panicked>>

\* Mutant: the last call out leaves the commit to somebody else.
EndOpNoCommit(p) ==
    /\ At(p, "inop")
    /\ pend[p] = {}
    /\ outstanding' = outstanding - 1
    /\ WakeAnd(p, "idle")
    /\ UNCHANGED <<disk, lh, committing, bufs, tail, work, panicked>>

\* The last call out commits; the others make room for waiters.
EndOp(p) ==
    /\ At(p, "inop")
    /\ pend[p] = {}
    /\ IF committing
         THEN panicked' = TRUE /\ UNCHANGED <<logv, pc, tail>>
         ELSE /\ outstanding' = outstanding - 1
              /\ IF outstanding = 1
                   THEN /\ committing' = TRUE
                        /\ Goto(p, IF lh = <<>> THEN "committed" ELSE "write_log")
                        /\ tail' = [tail EXCEPT ![p] = 0]
                   ELSE /\ WakeAnd(p, "idle")
                        /\ UNCHANGED <<committing, tail>>
              /\ UNCHANGED <<lh, panicked>>
    /\ UNCHANGED <<disk, bufs, work>>

-----------------------------------------------------------------------------
(* commit: one disk write per step *)

WriteLog(p) ==
    LET t == tail[p] + 1
    IN  /\ At(p, "write_log")
        /\ logdata' = [logdata EXCEPT ![t] = Mem[lh[t]]]
        /\ tail' = [tail EXCEPT ![p] = t]
        /\ Goto(p, IF t = Len(lh) THEN "write_head" ELSE "write_log")
        /\ UNCHANGED <<home, head, logv, bufs, work, panicked>>

\* The commit point.
WriteHead(p) ==
    /\ At(p, "write_head")
    /\ head' = lh
    /\ tail' = [tail EXCEPT ![p] = 0]
    /\ Goto(p, "install")
    /\ UNCHANGED <<home, logdata, logv, bufs, work, panicked>>

\* install_trans, shared by commit and recovery.
Install(a) ==
    LET t == tail[a] + 1
        b == lh[t]
    IN  /\ At(a, "install")
        /\ home' = [home EXCEPT ![b] = logdata[t]]
        /\ cache' = [cache EXCEPT ![b] = logdata[t]]
        /\ dirty' = dirty \ {b}
        /\ tail' = [tail EXCEPT ![a] = t]
        /\ Goto(a, IF t = Len(lh) THEN "clear" ELSE "install")
        /\ UNCHANGED <<logdata, head, logv, work, panicked>>

\* lh.n = 0; write_head().
ClearHead(a) ==
    /\ At(a, "clear")
    /\ lh' = <<>>
    /\ head' = <<>>
    /\ Goto(a, IF a = Boot THEN "booted" ELSE "committed")
    /\ UNCHANGED <<home, logdata, outstanding, committing, bufs, tail, work, panicked>>

FinishCommit(p) ==
    /\ At(p, "committed")
    /\ committing' = FALSE
    /\ WakeAnd(p, "idle")
    /\ UNCHANGED <<disk, lh, outstanding, bufs, tail, work, panicked>>

-----------------------------------------------------------------------------
(* The buffer cache and the machine *)

\* Mutant: logged blocks are not pinned.
RecycleDirty(b) ==
    /\ ~panicked
    /\ b \notin Locked
    /\ cache[b] # NotCached
    /\ cache' = [cache EXCEPT ![b] = NotCached]
    /\ UNCHANGED <<disk, logv, dirty, pc, tail, work, panicked>>

\* bget recycles a buffer that is neither in use nor B_DIRTY.
Recycle(b) ==
    /\ ~panicked
    /\ b \notin dirty \cup Locked
    /\ cache[b] # NotCached
    /\ cache' = [cache EXCEPT ![b] = NotCached]
    /\ UNCHANGED <<disk, logv, dirty, pc, tail, work, panicked>>

\* The machine stops and starts again: memory is lost, initlog runs.
Crash ==
    /\ CanCrash
    /\ lh' = <<>>
    /\ outstanding' = 0
    /\ committing' = FALSE
    /\ cache' = [b \in Blocks |-> NotCached]
    /\ dirty' = {}
    /\ pc' = [a \in Actors |-> IF a = Boot THEN "read_head" ELSE "idle"]
    /\ tail' = [a \in Actors |-> 0]
    /\ wrote' = [p \in Procs |-> {}]
    /\ pend' = [p \in Procs |-> {}]
    /\ panicked' = FALSE
    /\ UNCHANGED disk

-----------------------------------------------------------------------------
(* Specification *)

\* A disk made by mkfs: zeroed blocks and an empty log.
Init ==
    /\ home = [b \in Blocks |-> Zero]
    /\ logdata = [i \in 1..LogSize |-> Zero]
    /\ head = <<>>
    /\ lh = <<>>
    /\ outstanding = 0
    /\ committing = FALSE
    /\ cache = [b \in Blocks |-> NotCached]
    /\ dirty = {}
    /\ pc = [a \in Actors |-> IF a = Boot THEN "read_head" ELSE "idle"]
    /\ tail = [a \in Actors |-> 0]
    /\ wrote = [p \in Procs |-> {}]
    /\ pend = [p \in Procs |-> {}]
    /\ panicked = FALSE

Recovery == ReadHead \/ Install(Boot) \/ ClearHead(Boot)

Commit(p) ==
    WriteLog(p) \/ WriteHead(p) \/ Install(p) \/ ClearHead(p) \/ FinishCommit(p)

Call(p) ==
    \/ BeginOpSleep(p) \/ BeginOp(p) \/ LogWrite(p) \/ EndOp(p)
    \/ \E b \in Blocks, v \in Vals : LogCheck(p, b, v)

Next ==
    \/ Recovery
    \/ \E p \in Procs : Call(p) \/ Commit(p)
    \/ \E b \in Blocks : Recycle(b)
    \/ Crash

Spec == Init /\ [][Next]_vars

\* A process that is runnable runs, the disk completes its writes, and a system
\* call reaches its end_op: it logs a bounded number of blocks, so it does not
\* enter log_write for ever (strong fairness, EndOp waits for each log_write).
Fairness ==
    /\ WF_vars(Recovery)
    /\ \A p \in Procs :
          /\ WF_vars(pc[p] # "idle" /\ (BeginOpSleep(p) \/ BeginOp(p) \/ LogWrite(p) \/ Commit(p)))
          /\ SF_vars(EndOp(p))

FairSpec == Spec /\ Fairness

-----------------------------------------------------------------------------
(* Properties *)

Labels == {"idle", "begin", "asleep", "inop", "write_log", "write_head", "install", "clear",
           "committed", "read_head", "booted"}

\* Types of the log's variables; the log never holds more blocks than the
\* header and the log area have room for.
TypeOK ==
    /\ home \in [Blocks -> Vals]
    /\ logdata \in [1..LogSize -> Vals]
    /\ lh \in Seq(Blocks) /\ Len(lh) <= LogSize /\ Len(lh) <= LogBlocks - 1
    /\ head \in Seq(Blocks) /\ Len(head) <= LogSize /\ Len(head) <= LogBlocks - 1
    /\ outstanding \in Nat
    /\ committing \in BOOLEAN
    /\ cache \in [Blocks -> Vals \cup {NotCached}]
    /\ dirty \subseteq Blocks
    /\ pc \in [Actors -> Labels]
    /\ tail \in [Actors -> 0..LogSize]
    /\ wrote \in [Procs -> SUBSET Blocks]
    /\ pend \in [Procs -> SUBSET Blocks]
    /\ panicked \in BOOLEAN

\* The log has room for what is in it and for all that the calls under way have not
\* used of their reservations, though blocks of calls that have ended stay in it while
\* others begin; and neither log_write nor end_op panics.
SpaceReserved ==
    LET used == {x \in Procs \X Blocks : pc[x[1]] = "inop" /\ x[2] \in wrote[x[1]]}
    IN  /\ Len(lh) + outstanding * MaxOpBlocks <= LogSize + Cardinality(used)
        /\ ~panicked

\* When no call is open and no commit is under way every change is durable:
\* the blocks after a crash are the blocks the processes see.
QuietMeansDurable ==
    Booted /\ outstanding = 0 /\ ~committing => Recovered = Mem

\* A process put to sleep by begin_op is always woken again.
SleepersWake == \A p \in Procs : pc[p] = "asleep" ~> pc[p] # "asleep"

\* Before recovery has run, what the system will see is the replayed log.
Disk ==
    INSTANCE AtomicDisk WITH
        mem    <- IF Booted THEN Mem ELSE Recovered,
        stable <- Recovered,
        active <- outstanding

\* Crash atomicity: every step of the log is a step of AtomicDisk.
ImplementsAtomicDisk == Disk!Spec
=============================================================================

------------------------------ MODULE BufCache ------------------------------
(***************************************************************************)
(* The buffer cache, its sleep locks and the disk driver: bio.c,           *)
(* sleeplock.c, ide.c.                                                     *)
(*                                                                         *)
(* bget finds or recycles a buffer under bcache.lock and takes its sleep   *)
(* lock only after letting bcache.lock go; brelse drops the sleep lock     *)
(* before it takes bcache.lock to drop the reference.  iderw queues the    *)
(* buffer under idelock and sleeps until ideintr has moved it.  A region   *)
(* under one spinlock is one step.                                         *)
(*                                                                         *)
(* Callers are the file system and the log as they use this interface:     *)
(* they hold at most MaxHold buffers at once, taken in the order log block *)
(* / home block, indirect block / bitmap block, here ascending block       *)
(* numbers.                                                                *)
(***************************************************************************)
EXTENDS Naturals, FiniteSets, Sequences

CONSTANTS
    Procs, NoProc,
    NBUF,          \* buffers in the cache
    Blocks,        \* block numbers of the one disk in use
    NoBlock,       \* dev and blockno of a buffer never used
    Vals, Zero,    \* block contents; Zero is what mkfs leaves
    MaxHold,       \* most buffers a process holds
    MaxDirty,      \* most blocks the log has changed and not yet installed
    ReadStatus     \* what idewait(1) may find after a read; FALSE is an error

ASSUME BufAssumption ==
    /\ IsFiniteSet(Procs) /\ NoProc \notin Procs
    /\ NBUF \in Nat \ {0}
    /\ Blocks \subseteq Nat /\ NoBlock \notin Blocks
    /\ Zero \in Vals
    /\ MaxHold \in Nat /\ MaxDirty \in Nat
    /\ ReadStatus \subseteq BOOLEAN

VARIABLES
    buf,       \* bcache.buf
    lru,       \* the buffers from head.next (most recently used) to head.prev
    idequeue,  \* buffers whose request is active (the first) or waiting
    latch,     \* data the controller took with the active write command
    disk,      \* contents of the disk
    pc,        \* where each process is
    cur,       \* the buffer a process is inside a call with; 0 for none
    panicked   \* a panic stops the machine

vars == <<buf, lru, idequeue, latch, disk, pc, cur, panicked>>

Bufs == 1..NBUF

-----------------------------------------------------------------------------
(* Helpers *)

At(p, label) == ~panicked /\ pc[p] = label
Goto(p, label, i) == pc' = [pc EXCEPT ![p] = label] /\ cur' = [cur EXCEPT ![p] = i]

\* panic stops the machine where it is.
Panic == panicked' = TRUE /\ UNCHANGED <<buf, lru, idequeue, latch, disk, pc, cur>>

\* The buffers whose sleep lock p holds.
Held(p) == {i \in Bufs : buf[i].owner = p}

Dirty == {i \in Bufs : buf[i].dirty}

\* acquiresleep's assignments and releasesleep's; owner is locked and pid in one.
Locked(p, i) == [buf EXCEPT ![i].owner = p]
Unlocked(i) == [buf EXCEPT ![i].owner = NoProc]

\* wakeup(chan): the processes asleep at label with buffer i go to next.
Woken(label, i, next) ==
    [p \in Procs |-> IF pc[p] = label /\ cur[p] = i THEN next ELSE pc[p]]

-----------------------------------------------------------------------------
(* bget, bread *)

\* The first loop of bget.
CachedIn(b) == {i \in Bufs : buf[i].blockno = b}

\* Mutant: a buffer the log has changed may be recycled.
FreeOrDirty(i) == buf[i].refcnt = 0

\* Neither in use nor pinned by the log.
Recyclable(i) == buf[i].refcnt = 0 /\ ~buf[i].dirty

\* The second loop of bget: the least recently used buffer that may be taken.
Victim == CHOOSE k \in 1..NBUF : /\ Recyclable(lru[k])
                                 /\ \A l \in k+1..NBUF : ~Recyclable(lru[l])

Recycled(b) == [buf[lru[Victim]] EXCEPT
                    !.blockno = b, !.valid = FALSE, !.dirty = FALSE, !.refcnt = 1]

Bget(p, b) ==
    /\ At(p, "run")
    /\ Cardinality(Held(p)) < MaxHold
    /\ \A i \in Held(p) : buf[i].blockno < b
    /\ IF CachedIn(b) # {}
         THEN LET i == CHOOSE i \in CachedIn(b) : TRUE
              IN  /\ buf' = [buf EXCEPT ![i].refcnt = @ + 1]
                  /\ Goto(p, "locking", i)
                  /\ UNCHANGED <<lru, idequeue, latch, disk, panicked>>
         ELSE IF \E i \in Bufs : Recyclable(i)
         THEN /\ buf' = [buf EXCEPT ![lru[Victim]] = Recycled(b)]
              /\ Goto(p, "locking", lru[Victim])
              /\ UNCHANGED <<lru, idequeue, latch, disk, panicked>>
         ELSE Panic   \* bget: no buffers

\* acquiresleep, then bread's test of B_VALID, which nobody else changes now.
AcquireSleep(p) ==
    LET i == cur[p]
    IN  /\ At(p, "locking")
        /\ IF buf[i].owner # NoProc
             THEN Goto(p, "lockwait", i) /\ UNCHANGED buf
             ELSE /\ buf' = Locked(p, i)
                  /\ Goto(p, IF buf[i].valid THEN "run" ELSE "io", IF buf[i].valid THEN 0 ELSE i)
        /\ UNCHANGED <<lru, idequeue, latch, disk, panicked>>

-----------------------------------------------------------------------------
(* What a holder does: change the data and log_write or bwrite it *)

\* The caller changes bp->data and calls log_write, which sets B_DIRTY.
LogWrite(p, i, v) ==
    /\ At(p, "run")
    /\ buf[i].owner = p
    /\ Cardinality(Dirty \cup {i}) <= MaxDirty
    /\ buf' = [buf EXCEPT ![i].data = v, ![i].dirty = TRUE]
    /\ UNCHANGED <<lru, idequeue, latch, disk, pc, cur, panicked>>

\* The log changes b->data, or leaves it, and calls bwrite.
Bwrite(p, i, v) ==
    /\ At(p, "run")
    /\ buf[i].owner = p
    /\ buf' = [buf EXCEPT ![i].data = v, ![i].dirty = TRUE]
    /\ Goto(p, "io", i)
    /\ UNCHANGED <<lru, idequeue, latch, disk, panicked>>

\* Mutant: the sleepers on the lock are not woken.
ReleaseSleepNoWake(p, i) ==
    /\ At(p, "run")
    /\ buf[i].owner = p
    /\ buf' = Unlocked(i)
    /\ Goto(p, "releasing", i)
    /\ UNCHANGED <<lru, idequeue, latch, disk, panicked>>

\* brelse: releasesleep first.
ReleaseSleep(p, i) ==
    /\ At(p, "run")
    /\ buf[i].owner = p
    /\ buf' = Unlocked(i)
    /\ pc' = [Woken("lockwait", i, "locking") EXCEPT ![p] = "releasing"]
    /\ cur' = [cur EXCEPT ![p] = i]
    /\ UNCHANGED <<lru, idequeue, latch, disk, panicked>>

\* Move to the head of the MRU list.
ToFront(i) ==
    LET n == CHOOSE n \in 1..NBUF : lru[n] = i
    IN  [k \in 1..NBUF |-> IF k = 1 THEN i ELSE IF k <= n THEN lru[k - 1] ELSE lru[k]]

\* Mutant: a reference is dropped only when the buffer becomes free.
UnreferenceLast(p) ==
    LET i == cur[p]
    IN  /\ At(p, "releasing")
        /\ buf' = [buf EXCEPT ![i].refcnt = IF @ = 1 THEN 0 ELSE @]
        /\ lru' = IF buf[i].refcnt = 1 THEN ToFront(i) ELSE lru
        /\ Goto(p, "run", 0)
        /\ UNCHANGED <<idequeue, latch, disk, panicked>>

\* The rest of brelse, under bcache.lock.
Unreference(p) ==
    LET i == cur[p]
    IN  /\ At(p, "releasing")
        /\ buf' = [buf EXCEPT ![i].refcnt = @ - 1]
        /\ lru' = IF buf[i].refcnt = 1 THEN ToFront(i) ELSE lru
        /\ Goto(p, "run", 0)
        /\ UNCHANGED <<idequeue, latch, disk, panicked>>

-----------------------------------------------------------------------------
(* The disk driver *)

\* idestart: a write command takes the data with it.
Latched(i) == IF buf[i].dirty THEN buf[i].data ELSE Zero

\* iderw up to its first sleep.
Iderw(p) ==
    LET i == cur[p]
    IN  /\ At(p, "io")
        /\ IF buf[i].valid /\ ~buf[i].dirty
             THEN Panic   \* iderw: nothing to do
             ELSE /\ idequeue' = Append(idequeue, i)
                  /\ latch' = IF idequeue = <<>> THEN Latched(i) ELSE latch
                  /\ Goto(p, "iowait", i)
                  /\ UNCHANGED <<buf, lru, disk, panicked>>

\* Mutant: the loop's test is the wrong way round, and it does not sleep.
IderwWokenSpins(p) ==
    LET i == cur[p]
    IN  /\ At(p, "iowoken")
        /\ IF buf[i].valid /\ ~buf[i].dirty THEN Goto(p, "iowoken", i) ELSE Goto(p, "run", 0)
        /\ UNCHANGED <<buf, lru, idequeue, latch, disk, panicked>>

\* iderw's loop after a wakeup.
IderwWoken(p) ==
    LET i == cur[p]
    IN  /\ At(p, "iowoken")
        /\ IF buf[i].valid /\ ~buf[i].dirty THEN Goto(p, "run", 0) ELSE Goto(p, "iowait", i)
        /\ UNCHANGED <<buf, lru, idequeue, latch, disk, panicked>>

\* A kill wakes a sleeper before its time, as often as somebody calls it; acquiresleep
\* and iderw test again and pay no attention to p->killed.
Kill(p) ==
    /\ ~panicked
    /\ \/ pc[p] = "lockwait" /\ Goto(p, "locking", cur[p])
       \/ pc[p] = "iowait" /\ Goto(p, "iowoken", cur[p])
    /\ UNCHANGED <<buf, lru, idequeue, latch, disk, panicked>>

\* The disk has done the active request and interrupts; insl is skipped when the
\* status shows an error.
Ideintr(ok) ==
    LET i == Head(idequeue)
        b == buf[i].blockno
        rest == Tail(idequeue)
    IN  /\ ~panicked
        /\ idequeue # <<>>
        /\ buf' = [buf EXCEPT ![i].data  = IF ~buf[i].dirty /\ ok THEN disk[b] ELSE @,
                              ![i].valid = TRUE,
                              ![i].dirty = FALSE]
        /\ disk' = IF buf[i].dirty THEN [disk EXCEPT ![b] = latch] ELSE disk
        /\ pc' = Woken("iowait", i, "iowoken")
        /\ idequeue' = rest
        /\ latch' = IF rest = <<>> THEN Zero ELSE Latched(Head(rest))
        /\ UNCHANGED <<lru, cur, panicked>>

\* The CPU spins in panic.
Halted == panicked /\ UNCHANGED vars

-----------------------------------------------------------------------------
(* Specification *)

\* binit links the buffers in front of one another.
Init ==
    /\ buf = [i \in Bufs |-> [blockno |-> NoBlock, valid |-> FALSE, dirty |-> FALSE,
                              refcnt |-> 0, data |-> Zero, owner |-> NoProc]]
    /\ lru = [k \in 1..NBUF |-> NBUF + 1 - k]
    /\ idequeue = <<>>
    /\ latch = Zero
    /\ disk = [b \in Blocks |-> Zero]
    /\ pc = [p \in Procs |-> "run"]
    /\ cur = [p \in Procs |-> 0]
    /\ panicked = FALSE

InCall(p) == AcquireSleep(p) \/ Unreference(p) \/ Iderw(p) \/ IderwWoken(p)

Client(p) ==
    \/ \E b \in Blocks : Bget(p, b)
    \/ \E i \in Bufs : ReleaseSleep(p, i)
    \/ \E i \in Bufs, v \in Vals : LogWrite(p, i, v) \/ Bwrite(p, i, v)

Interrupt == \E ok \in ReadStatus : Ideintr(ok)

Next ==
    \/ \E p \in Procs : InCall(p) \/ Client(p) \/ Kill(p)
    \/ Interrupt
    \/ Halted

Spec == Init /\ [][Next]_vars

\* The disk answers every command; a process inside a call runs when it can.
Fairness == WF_vars(Interrupt) /\ \A p \in Procs : WF_vars(InCall(p))

FairSpec == Spec /\ Fairness

-----------------------------------------------------------------------------
(* Properties *)

Labels == {"run", "locking", "lockwait", "io", "iowait", "iowoken", "releasing"}

\* Types of the cache's variables; the list holds every buffer once.
TypeOK ==
    /\ buf \in [Bufs -> [blockno : Blocks \cup {NoBlock}, valid : BOOLEAN, dirty : BOOLEAN,
                         refcnt : Nat, data : Vals, owner : Procs \cup {NoProc}]]
    /\ lru \in [1..NBUF -> Bufs] /\ \A k, l \in 1..NBUF : lru[k] = lru[l] => k = l
    /\ idequeue \in Seq(Bufs)
    /\ latch \in Vals
    /\ disk \in [Blocks -> Vals]
    /\ pc \in [Procs -> Labels]
    /\ cur \in [Procs -> 0..NBUF]
    /\ panicked \in BOOLEAN

\* A process uses the buffer it holds, waits for or is about to give up.
Users(i) == {p \in Procs : buf[i].owner = p \/ (cur[p] = i /\ pc[p] \in {"locking", "lockwait", "releasing"})}

\* refcnt is the number of users, whatever is interleaved with the gaps between
\* the spinlocks of bget and brelse: no buffer is recycled under a user, and
\* none is lost, so bget panics only when every buffer is in use or pinned.
RefcntIsUsers == \A i \in Bufs : buf[i].refcnt = Cardinality(Users(i))

\* No lost wakeup: a sleeper on a buffer's lock has a holder that will wake it,
\* a sleeper in iderw has its buffer, still locked, in the disk's queue.
SleepersHaveWaker ==
    \A p \in Procs :
        /\ pc[p] = "lockwait" => buf[cur[p]].owner \notin {NoProc, p}
        /\ pc[p] = "iowait" => /\ \E k \in 1..Len(idequeue) : idequeue[k] = cur[p]
                               /\ buf[cur[p]].owner = p

\* The buffer through which a block is seen, if its contents are there.
Cached(b) == {i \in Bufs : buf[i].blockno = b /\ (buf[i].valid \/ buf[i].dirty)}

Store ==
    INSTANCE BlockStore WITH
        mem    <- [b \in Blocks |-> IF Cached(b) = {} THEN disk[b]
                                    ELSE buf[CHOOSE i \in Cached(b) : TRUE].data],
        holder <- [b \in Blocks |-> IF Cached(b) = {} THEN NoProc
                                    ELSE buf[CHOOSE i \in Cached(b) : TRUE].owner]

\* bread and brelse behave as a store of blocks without buffers: one holder at a
\* time, and nobody's change is lost, mixed up or seen early.
ImplementsBlockStore == Store!Spec

\* Whoever sleeps in iderw gets the disk's answer and returns, however many
\* requests others queue.
DiskAnswers == \A p \in Procs : pc[p] = "iowait" ~> pc[p] = "run" \/ panicked
=============================================================================

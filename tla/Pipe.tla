-------------------------------- MODULE Pipe --------------------------------
(***************************************************************************)
(* One pipe and the processes that hold its ends: pipe.c, with the         *)
(* reference count of fileclose (file.c) that decides when an end closes.  *)
(*                                                                         *)
(* p->lock is explicit.  sleep(chan, &p->lock) is one step that gives the  *)
(* lock back and goes to sleep (module Proc shows why no wakeup is lost in *)
(* between); the process runs again once woken and once it has the lock.   *)
(* nread and nwrite are uints that never stop counting: they wrap.         *)
(***************************************************************************)
EXTENDS Integers, Sequences, FiniteSets

CONSTANTS
    Procs,     \* processes that inherited ends of the pipe
    NoProc,    \* nobody holds p->lock
    Ends,      \* the ends each process holds at first: Procs -> SUBSET {"r", "w"}
    PIPESIZE,  \* bytes of p->data
    UintMod,   \* 2^32, the modulus of nread and nwrite
    MaxLen,    \* bound: the longest read or write
    Bytes,     \* byte values
    Killable   \* processes somebody kills

ASSUME PipeAssumption ==
    /\ NoProc \notin Procs /\ IsFiniteSet(Procs)
    /\ Ends \in [Procs -> SUBSET {"r", "w"}]
    /\ PIPESIZE \in Nat \ {0} /\ MaxLen \in Nat
    /\ UintMod \in Nat /\ UintMod % PIPESIZE = 0 /\ UintMod > PIPESIZE
    /\ Bytes # {} /\ Killable \subseteq Procs

VARIABLES
    nread, nwrite,  \* p->nread, p->nwrite
    data,           \* p->data
    open,           \* p->readopen and p->writeopen
    freed,          \* the page of the pipe was given back
    lock,           \* holder of p->lock
    ref,            \* references to the struct file of each end
    ends,           \* ends a process has open
    pc, n, i,       \* where a process is, its byte count and its loop counter
    chan,           \* channel a process sleeps on, or "none"
    killed,         \* p->killed
    got             \* last byte copied out by piperead

pipe == <<nread, nwrite, data, open, freed>>
vars == <<pipe, lock, ref, ends, pc, n, i, chan, killed, got>>

Full  == nwrite = (nread + PIPESIZE) % UintMod
Empty == nread = nwrite

At(p, label) == pc[p] = label /\ chan[p] = "none"
Goto(p, label) == pc' = [pc EXCEPT ![p] = label]

\* wakeup(c)
Wakeup(c) == chan' = [p \in Procs |-> IF chan[p] = c THEN "none" ELSE chan[p]]

\* Leave the system call, giving p->lock back.
Done(p) ==
    /\ lock' = NoProc
    /\ Goto(p, "user")
    /\ n' = [n EXCEPT ![p] = 0]
    /\ i' = [i EXCEPT ![p] = 0]

\* A read or write of len bytes: acquire(&p->lock).
Start(p, end, len, label) ==
    /\ At(p, "user") /\ ~killed[p]
    /\ end \in ends[p]
    /\ lock = NoProc
    /\ lock' = p
    /\ n' = [n EXCEPT ![p] = len]
    /\ Goto(p, label)
    /\ UNCHANGED <<pipe, ref, ends, i, chan, killed, got>>

\* A woken process comes back from sleep() once it has the lock.
Resume(p, from, to) ==
    /\ At(p, from)
    /\ lock = NoProc
    /\ lock' = p
    /\ Goto(p, to)
    /\ UNCHANGED <<pipe, ref, ends, n, i, chan, killed, got>>

-----------------------------------------------------------------------------
(* pipewrite *)

\* Mutant: the counter is reduced like an index.
WriteByteNarrow(p) ==
    /\ At(p, "write") /\ i[p] < n[p] /\ ~Full
    /\ \E b \in Bytes : data' = [data EXCEPT ![nwrite % PIPESIZE] = b]
    /\ nwrite' = (nwrite + 1) % PIPESIZE
    /\ i' = [i EXCEPT ![p] = @ + 1]
    /\ UNCHANGED <<nread, open, freed, lock, ref, ends, pc, n, chan, killed, got>>

WriteByte(p) ==
    /\ At(p, "write")
    /\ i[p] < n[p]
    /\ ~Full
    /\ \E b \in Bytes : data' = [data EXCEPT ![nwrite % PIPESIZE] = b]
    /\ nwrite' = (nwrite + 1) % UintMod
    /\ i' = [i EXCEPT ![p] = @ + 1]
    /\ UNCHANGED <<nread, open, freed, lock, ref, ends, pc, n, chan, killed, got>>

\* Mutant: a writer does not notice that nobody reads.
WriteFailsIfKilled(p) ==
    /\ At(p, "write") /\ i[p] < n[p] /\ Full /\ killed[p]
    /\ Done(p)
    /\ UNCHANGED <<pipe, ref, ends, chan, killed, got>>

\* A full pipe nobody reads any more, or a killed writer: return -1.
WriteFails(p) ==
    /\ At(p, "write")
    /\ i[p] < n[p]
    /\ Full
    /\ ~open["r"] \/ killed[p]
    /\ Done(p)
    /\ UNCHANGED <<pipe, ref, ends, chan, killed, got>>

\* A full pipe that is read: the test is over, the process has yet to sleep.
WriteBlocks(p) ==
    /\ At(p, "write")
    /\ i[p] < n[p]
    /\ Full
    /\ open["r"] /\ ~killed[p]
    /\ Goto(p, "write_sleep")
    /\ UNCHANGED <<pipe, lock, ref, ends, n, i, chan, killed, got>>

\* Mutant: the readers are not woken first.
WriteSleepsSilently(p) ==
    /\ At(p, "write_sleep")
    /\ chan' = [chan EXCEPT ![p] = "nwrite"]
    /\ lock' = NoProc
    /\ Goto(p, "write_wait")
    /\ UNCHANGED <<pipe, ref, ends, n, i, killed, got>>

\* wakeup(&p->nread); sleep(&p->nwrite, &p->lock).
WriteSleeps(p) ==
    /\ At(p, "write_sleep")
    /\ chan' = [q \in Procs |-> IF q = p THEN "nwrite"
                                ELSE IF chan[q] = "nread" THEN "none" ELSE chan[q]]
    /\ lock' = NoProc
    /\ Goto(p, "write_wait")
    /\ UNCHANGED <<pipe, ref, ends, n, i, killed, got>>

WriteReturns(p) ==
    /\ At(p, "write")
    /\ i[p] = n[p]
    /\ Wakeup("nread")
    /\ Done(p)
    /\ UNCHANGED <<pipe, ref, ends, killed, got>>

-----------------------------------------------------------------------------
(* piperead *)

ReadFails(p) ==
    /\ At(p, "read")
    /\ Empty /\ open["w"]
    /\ killed[p]
    /\ Done(p)
    /\ UNCHANGED <<pipe, ref, ends, chan, killed, got>>

ReadBlocks(p) ==
    /\ At(p, "read")
    /\ Empty /\ open["w"]
    /\ ~killed[p]
    /\ Goto(p, "read_sleep")
    /\ UNCHANGED <<pipe, lock, ref, ends, n, i, chan, killed, got>>

\* sleep(&p->nread, &p->lock).
ReadSleeps(p) ==
    /\ At(p, "read_sleep")
    /\ chan' = [chan EXCEPT ![p] = "nread"]
    /\ lock' = NoProc
    /\ Goto(p, "read_wait")
    /\ UNCHANGED <<pipe, ref, ends, n, i, killed, got>>

ReadStarts(p) ==
    /\ At(p, "read")
    /\ ~(Empty /\ open["w"])
    /\ Goto(p, "read_copy")
    /\ UNCHANGED <<pipe, lock, ref, ends, n, i, chan, killed, got>>

ReadByte(p) ==
    /\ At(p, "read_copy")
    /\ i[p] < n[p]
    /\ ~Empty
    /\ got' = data[nread % PIPESIZE]
    /\ nread' = (nread + 1) % UintMod
    /\ i' = [i EXCEPT ![p] = @ + 1]
    /\ UNCHANGED <<nwrite, data, open, freed, lock, ref, ends, pc, n, chan, killed>>

ReadReturns(p) ==
    /\ At(p, "read_copy")
    /\ i[p] = n[p] \/ Empty
    /\ Wakeup("nwrite")
    /\ Done(p)
    /\ UNCHANGED <<pipe, ref, ends, killed, got>>

-----------------------------------------------------------------------------
(* Closing an end *)

\* Mutant: every close closes the pipe's end.
CloseAlways(p, end) ==
    /\ At(p, "user") /\ end \in ends[p]
    /\ ends' = [ends EXCEPT ![p] = @ \ {end}]
    /\ ref' = [ref EXCEPT ![end] = @ - 1]
    /\ Goto(p, IF end = "r" THEN "close_r" ELSE "close_w")
    /\ UNCHANGED <<pipe, lock, n, i, chan, killed, got>>

\* fileclose: the last reference calls pipeclose.
Close(p, end) ==
    /\ At(p, "user")
    /\ end \in ends[p]
    /\ ends' = [ends EXCEPT ![p] = @ \ {end}]
    /\ ref' = [ref EXCEPT ![end] = @ - 1]
    /\ Goto(p, IF ref[end] > 1 THEN "user" ELSE IF end = "r" THEN "close_r" ELSE "close_w")
    /\ UNCHANGED <<pipe, lock, n, i, chan, killed, got>>

\* pipeclose, one critical section; the second end to close frees the page.
Pipeclose(p, end, label, c) ==
    /\ At(p, label)
    /\ lock = NoProc
    /\ open' = [open EXCEPT ![end] = FALSE]
    /\ Wakeup(c)
    /\ freed' = ~(open'["r"] \/ open'["w"])
    /\ Goto(p, "user")
    /\ UNCHANGED <<nread, nwrite, data, lock, ref, ends, n, i, killed, got>>

\* kill: takes ptable.lock, not p->lock, so it may come at any moment.
Kill(p) ==
    /\ ~killed[p]
    /\ p \in Killable
    /\ killed' = [killed EXCEPT ![p] = TRUE]
    /\ chan' = [chan EXCEPT ![p] = "none"]
    /\ UNCHANGED <<pipe, lock, ref, ends, pc, n, i, got>>

-----------------------------------------------------------------------------
(* Specification *)

\* pipealloc, and the forks that shared the ends.
Init ==
    /\ nread = 0 /\ nwrite = 0
    /\ data = [k \in 0..(PIPESIZE - 1) |-> CHOOSE b \in Bytes : TRUE]
    /\ open = [e \in {"r", "w"} |-> TRUE]
    /\ freed = FALSE
    /\ lock = NoProc
    /\ ends = Ends
    /\ ref = [e \in {"r", "w"} |-> Cardinality({p \in Procs : e \in Ends[p]})]
    /\ pc = [p \in Procs |-> "user"]
    /\ n = [p \in Procs |-> 0] /\ i = [p \in Procs |-> 0]
    /\ chan = [p \in Procs |-> "none"]
    /\ killed = [p \in Procs |-> FALSE]
    /\ got = CHOOSE b \in Bytes : TRUE

Pipewrite(p) ==
    \/ WriteByte(p) \/ WriteFails(p) \/ WriteBlocks(p) \/ WriteSleeps(p) \/ WriteReturns(p)
    \/ Resume(p, "write_wait", "write")

Piperead(p) ==
    \/ ReadFails(p) \/ ReadBlocks(p) \/ ReadSleeps(p)
    \/ ReadStarts(p) \/ ReadByte(p) \/ ReadReturns(p)
    \/ Resume(p, "read_wait", "read")

Kernel(p) ==
    \/ Pipewrite(p) \/ Piperead(p)
    \/ Pipeclose(p, "r", "close_r", "nwrite") \/ Pipeclose(p, "w", "close_w", "nread")

User(p) ==
    \/ \E len \in 0..MaxLen : Start(p, "w", len, "write") \/ Start(p, "r", len, "read")
    \/ \E end \in {"r", "w"} : Close(p, end)

Next == \E p \in Procs : Kernel(p) \/ User(p) \/ Kill(p)

Spec == Init /\ [][Next]_vars

\* A process in the kernel keeps going and gets the lock in the end.
FairSpec == Spec /\ \A p \in Procs : SF_vars(Kernel(p))

-----------------------------------------------------------------------------
(* Properties *)

Labels == {"user", "write", "write_sleep", "write_wait", "read", "read_sleep", "read_wait",
           "read_copy", "close_r", "close_w"}

\* Every variable has its type, and at most PIPESIZE bytes are in the pipe.
TypeOK ==
    /\ nread \in 0..(UintMod - 1) /\ nwrite \in 0..(UintMod - 1)
    /\ (nwrite - nread) % UintMod <= PIPESIZE
    /\ data \in [0..(PIPESIZE - 1) -> Bytes]
    /\ open \in [{"r", "w"} -> BOOLEAN] /\ freed \in BOOLEAN
    /\ lock \in Procs \cup {NoProc}
    /\ ref \in [{"r", "w"} -> Nat] /\ ends \in [Procs -> SUBSET {"r", "w"}]
    /\ pc \in [Procs -> Labels]
    /\ n \in [Procs -> 0..MaxLen] /\ i \in [Procs -> 0..MaxLen]
    /\ chan \in [Procs -> {"none", "nread", "nwrite"}]
    /\ killed \in [Procs -> BOOLEAN] /\ got \in Bytes

\* The bytes in the pipe, oldest first.
Held == [k \in 1..((nwrite - nread) % UintMod) |-> data[(nread + k - 1) % PIPESIZE]]

Promise == INSTANCE Stream WITH q <- Held, out <- got, Cap <- PIPESIZE

\* The ring buffer delivers the bytes written, in order and once each, also
\* when the counters wrap and when several processes read or write.
DeliversInOrder == Promise!Spec

\* With the lock free, a sleeping reader faces an empty pipe that can still be
\* written and a sleeping writer a full one that can still be read: no wakeup
\* is lost.  A kill excuses it: a killed writer that has filled the pipe returns
\* -1 without waking the reader.
SleepersMissNothing ==
    lock = NoProc /\ (\A p \in Procs : ~killed[p]) => \A p \in Procs :
        /\ chan[p] = "nread"  => Empty /\ open["w"]
        /\ chan[p] = "nwrite" => Full /\ open["r"]

\* The page is freed only when no process can use the pipe any more.
NoUseAfterFree ==
    freed => \A p \in Procs : ends[p] = {} /\ pc[p] = "user"

\* A reader returns once the last writer has closed, and a writer once the
\* last reader has.
CloseReleases ==
    \A p \in Procs :
        /\ (pc[p] \in {"read", "read_sleep", "read_wait"} /\ ~open["w"]) ~> pc[p] = "user"
        /\ (pc[p] \in {"write", "write_sleep", "write_wait"} /\ ~open["r"]) ~> pc[p] = "user"

=============================================================================

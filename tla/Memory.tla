------------------------------- MODULE Memory -------------------------------
(***************************************************************************)
(* Physical pages and address spaces: kalloc.c, vm.c, exec.c, and the      *)
(* memory side of fork, wait, exit and sbrk (proc.c, sysproc.c).           *)
(*                                                                         *)
(* Every kalloc is a step, because another CPU may take the last page      *)
(* before it; so every call can run out of memory at every page and must   *)
(* give back what it has.  kfree needs nobody's help and belongs to the    *)
(* step that calls it.  Free pages are alike, so they are counted, and a   *)
(* page in use is known by the place that points to it and by one value,   *)
(* what was last stored in it: a page freed twice or forgotten makes the   *)
(* count wrong.  Addresses and sizes are in units; a page has PGSIZE.      *)
(***************************************************************************)
EXTENDS Integers, Sequences, FiniteSets

CONSTANTS
    Procs, InitProc,  \* slots of ptable, and the one of initproc
    NFrames,          \* physical pages between the kernel's end and PHYSTOP
    PGSIZE,           \* units of a page
    KERNBASE,         \* first address that is not the user's, in units
    UintMod,          \* addresses are computed modulo this (2^32)
    PTSpan,           \* pages one page table page maps (1024)
    NKern,            \* page table pages the kernel's mappings need
    Programs,         \* what exec finds on the disk, and the size of its arguments
    Amounts,          \* arguments of sbrk
    StorePages,       \* pages that programs store into (a bound)
    MaxPipes          \* pipes open at once (a bound)

ASSUME MemoryAssumption ==
    /\ Procs \subseteq Nat /\ InitProc \in Procs
    /\ PGSIZE \in Nat \ {0} /\ PTSpan \in Nat \ {0} /\ NKern \in Nat
    /\ KERNBASE \in Nat /\ KERNBASE % PGSIZE = 0 /\ KERNBASE > PGSIZE
    /\ UintMod \in Nat /\ UintMod > KERNBASE
    /\ NFrames \in Nat /\ NFrames >= NKern + 4   \* else userinit panics
    /\ Amounts \subseteq Int /\ StorePages \subseteq Nat /\ MaxPipes \in Nat

VARIABLES
    free,     \* length of kmem.freelist
    state, parent, kstack, sz,  \* struct proc
    space,    \* the page table of a process: what is in the page each cell points to
    guard,    \* pages without PTE_U in it
    pipes,    \* pages that hold a struct pipe
    ops,      \* file system calls between begin_op and end_op
    pc,       \* where a process is in its call
    call,     \* the call it is in, with its arguments
    np,       \* fork's new process
    work,     \* the page table copyuvm or exec is building
    mem,      \* the page allocuvm or copyuvm has got and not yet mapped
    a,        \* their loop counter, a page number
    lim,      \* allocuvm's oldsz and newsz
    seg,      \* the segment exec is at
    ip,       \* whether exec has the file locked, inside a transaction
    ret,      \* the call that the last step ended, and whether it succeeded
    panicked

ptable == <<state, parent, kstack, sz, space, guard>>
locals == <<call, np, work, mem, a, lim, seg, ip>>
others == <<pipes, ops>>
vars == <<free, ptable, others, pc, locals, ret, panicked>>

NoPage == "none"   \* a null pointer, or an entry without PTE_P
NPages == KERNBASE \div PGSIZE

\* The cells of a page table: the directory itself, page table pages for the
\* kernel's and the user's half, and the entries of the user's pages.
Dir == <<"dir", 0>>
Kern(k) == <<"kern", k>>
Tab(i) == <<"tab", i \div PTSpan>>
Page(i) == <<"page", i>>
Cells == {Dir} \cup {Kern(k) : k \in 1..NKern}
               \cup {Tab(i) : i \in 0..NPages-1} \cup {Page(i) : i \in 0..NPages-1}

NoSpace == [c \in Cells |-> NoPage]
NoCall == [op |-> "none"]
NoReturn == [op |-> "none", ok |-> TRUE]

-----------------------------------------------------------------------------
(* Pages and page tables *)

At(p, label) == ~panicked /\ state[p] = "live" /\ pc[p] = label
Set(f, p, v) == [f EXCEPT ![p] = v]
Goto(p, label) == pc' = Set(pc, p, label)

\* kalloc returns 0, or a page with the junk that kfree left in it.
OutOfMemory == free = 0
Take(n) == free' = free - n

\* PGROUNDUP, as a page number.
PgUp(n) == (n + PGSIZE - 1) \div PGSIZE

Present(sp, i) == sp[Tab(i)] # NoPage /\ sp[Page(i)] # NoPage

\* A process runs its own code while the page it is in exists: assumes that the TLB keeps
\* no entry of a page that is gone, although sbrk to nothing returns before switchuvm.
Runs(p) == At(p, "user") /\ Present(space[p], 0)

\* The pages deallocuvm visits to bring the size from old to new.
Doomed(sp, old, new) == {i \in PgUp(new)..PgUp(old)-1 : Present(sp, i)}

\* How many it frees, and the page table it leaves: page table pages stay.
Dropped(sp, old, new) == Cardinality(Doomed(sp, old, new))
Dealloc(sp, old, new) ==
    [c \in Cells |-> IF \E i \in Doomed(sp, old, new) : c = Page(i) THEN NoPage ELSE sp[c]]

\* freevm: the user's pages, then every page table page, then the directory.
Freevm(sp) == Dropped(sp, KERNBASE, 0)
              + Cardinality({c \in Cells : c[1] # "page" /\ sp[c] # NoPage})

Kfree(n) == free' = free + n

\* The page table a call of p works on.
Target(p) == IF call[p].op = "sbrk" THEN space[p] ELSE work[p]
SetTarget(p, sp) ==
    IF call[p].op = "sbrk" THEN space' = Set(space, p, sp) /\ UNCHANGED work
    ELSE work' = Set(work, p, sp) /\ UNCHANGED space

Panic == panicked' = TRUE /\ ret' = NoReturn /\ UNCHANGED <<free, ptable, others, pc, locals>>

\* The locals of a call are gone when it returns.
Return(p, ok) ==
    /\ Goto(p, "user")
    /\ ret' = [op |-> call[p].op, ok |-> ok]
    /\ call' = Set(call, p, NoCall) /\ np' = Set(np, p, p)
    /\ work' = Set(work, p, NoSpace) /\ mem' = Set(mem, p, NoPage)
    /\ a' = Set(a, p, 0) /\ lim' = Set(lim, p, <<0, 0>>)
    /\ seg' = Set(seg, p, 0) /\ ip' = Set(ip, p, FALSE)

Continue(p, label) == Goto(p, label) /\ ret' = NoReturn /\ UNCHANGED <<call, np, ip>>

-----------------------------------------------------------------------------
(* Error paths *)

\* fork: give back the kernel stack and the slot; n is what copyuvm gave back.
ForkFails(p, n) ==
    /\ Kfree(n + 1)
    /\ kstack' = Set(kstack, np[p], FALSE)
    /\ state' = Set(state, np[p], "unused")
    /\ Return(p, FALSE)
    /\ UNCHANGED <<parent, sz, space, guard, others, panicked>>

\* Mutant: a cleanupexec that ends the transaction also when exec has done so.
ExecFailsTwice(p, n) ==
    /\ Kfree(n)
    /\ ops' = ops - 1
    /\ Return(p, FALSE)
    /\ UNCHANGED <<pipes, ptable, panicked>>

\* cleanupexec.
ExecFails(p, n) ==
    /\ Kfree(n)
    /\ ops' = IF ip[p] THEN ops - 1 ELSE ops
    /\ Return(p, FALSE)
    /\ UNCHANGED <<pipes, ptable, panicked>>

\* setupkvm returns 0 to copyuvm or exec.
SetupFails(p, n) ==
    \/ call[p].op = "fork" /\ ForkFails(p, n)
    \/ call[p].op = "exec" /\ ExecFails(p, n)

\* Mutant: an allocuvm that leaves the pages it has added when the next one is not to be had.
AllocFailsKeeps(p, n) ==
    \/ /\ call[p].op = "sbrk"
       /\ Kfree(n)
       /\ Return(p, FALSE)
       /\ UNCHANGED <<ptable, others, panicked>>
    \/ call[p].op = "exec" /\ ExecFails(p, n + Freevm(work[p]))

\* allocuvm takes back the pages it has added, and returns 0.
AllocFails(p, n) ==
    LET sp == Target(p)
        took == Dropped(sp, lim[p][2], lim[p][1]) + n
    IN  \/ /\ call[p].op = "sbrk"
           /\ Kfree(took)
           /\ space' = Set(space, p, Dealloc(sp, lim[p][2], lim[p][1]))
           /\ Return(p, FALSE)
           /\ UNCHANGED <<state, parent, kstack, sz, guard, others, panicked>>
        \/ call[p].op = "exec" /\ ExecFails(p, took + Freevm(Dealloc(sp, lim[p][2], lim[p][1])))

-----------------------------------------------------------------------------
(* setupkvm *)

SetupDir(p) ==
    /\ At(p, "setup_dir")
    /\ IF OutOfMemory THEN SetupFails(p, 0)
       ELSE /\ work' = Set(work, p, [NoSpace EXCEPT ![Dir] = "table"])
            /\ Take(1)
            /\ a' = Set(a, p, 1)
            /\ Continue(p, "setup_kern")
            /\ UNCHANGED <<ptable, others, mem, lim, seg, panicked>>

\* mappages of the kernel's part, one page table page at a time.
SetupKern(p) ==
    /\ At(p, "setup_kern")
    /\ a[p] <= NKern
    /\ IF OutOfMemory THEN SetupFails(p, Freevm(work[p]))
       ELSE /\ work' = [work EXCEPT ![p][Kern(a[p])] = "table"]
            /\ Take(1)
            /\ a' = [a EXCEPT ![p] = @ + 1]
            /\ Continue(p, "setup_kern")
            /\ UNCHANGED <<ptable, others, mem, lim, seg, panicked>>

SetupDone(p) ==
    /\ At(p, "setup_kern")
    /\ a[p] > NKern
    /\ a' = Set(a, p, 0)
    /\ Continue(p, IF call[p].op = "fork" THEN "copy" ELSE "exec_seg")
    /\ UNCHANGED <<free, ptable, others, work, mem, lim, seg, panicked>>

-----------------------------------------------------------------------------
(* mappages of one user page: page a[p] of the target is to be mem[p]. *)

\* walkpgdir has made the page table page, if it was missing.
Map(p, next) ==
    LET i == a[p]
        sp == Target(p)
        new == sp[Tab(i)] = NoPage
    IN  /\ SetTarget(p, [sp EXCEPT ![Tab(i)] = "table", ![Page(i)] = mem[p]])
        /\ Take(IF new THEN 1 ELSE 0)
        /\ mem' = Set(mem, p, NoPage)
        /\ a' = Set(a, p, i + 1)
        /\ Continue(p, next)
        /\ UNCHANGED <<state, parent, kstack, sz, guard, others, lim, seg, panicked>>

NoTable(p) == Target(p)[Tab(a[p])] = NoPage /\ OutOfMemory
Remap(p) == Target(p)[Tab(a[p])] # NoPage /\ Target(p)[Page(a[p])] # NoPage

-----------------------------------------------------------------------------
(* fork: allocproc, copyuvm *)

\* allocproc takes the first slot that is free.
Fork(p) ==
    LET unused == {q \in Procs : state[q] = "unused"}
        q == CHOOSE r \in unused : \A x \in unused : r <= x
    IN  /\ Runs(p)
        /\ unused # {}
        /\ state' = Set(state, q, "embryo")
        /\ call' = Set(call, p, [op |-> "fork"])
        /\ np' = Set(np, p, q)
        /\ Goto(p, "fork_kstack")
        /\ ret' = NoReturn
        /\ UNCHANGED <<free, parent, kstack, sz, space, guard, others, work, mem, a, lim, seg, ip, panicked>>

ForkNoSlot(p) ==
    /\ Runs(p)
    /\ \A q \in Procs : state[q] # "unused"
    /\ ret' = [op |-> "fork", ok |-> FALSE]
    /\ UNCHANGED <<free, ptable, others, pc, locals, panicked>>

ForkKstack(p) ==
    /\ At(p, "fork_kstack")
    /\ \/ /\ OutOfMemory
          /\ state' = Set(state, np[p], "unused")
          /\ Return(p, FALSE)
          /\ UNCHANGED <<free, parent, kstack, sz, space, guard, others, panicked>>
       \/ /\ ~OutOfMemory
          /\ kstack' = Set(kstack, np[p], TRUE)
          /\ Take(1)
          /\ Continue(p, "setup_dir")
          /\ UNCHANGED <<state, parent, sz, space, guard, others, work, mem, a, lim, seg, panicked>>

\* copyuvm: one page of the parent.
Copy(p) ==
    /\ At(p, "copy")
    /\ a[p] < PgUp(sz[p])
    /\ IF ~Present(space[p], a[p]) THEN Panic
       ELSE IF OutOfMemory THEN ForkFails(p, Freevm(work[p]))
       ELSE /\ mem' = Set(mem, p, space[p][Page(a[p])])
            /\ Take(1)
            /\ Continue(p, "copy_map")
            /\ UNCHANGED <<ptable, others, work, a, lim, seg, panicked>>

\* Mutant: a copyuvm that forgets the page it could not map.
CopyMapLeaks(p) ==
    /\ At(p, "copy_map")
    /\ IF NoTable(p) THEN ForkFails(p, Freevm(work[p]))
       ELSE IF Remap(p) THEN Panic
       ELSE Map(p, "copy")

CopyMap(p) ==
    /\ At(p, "copy_map")
    /\ IF NoTable(p) THEN ForkFails(p, 1 + Freevm(work[p]))
       ELSE IF Remap(p) THEN Panic
       ELSE Map(p, "copy")

\* The child has the copy and may run.
ForkDone(p) ==
    LET q == np[p]
    IN  /\ At(p, "copy")
        /\ a[p] >= PgUp(sz[p])
        /\ space' = Set(space, q, work[p]) /\ guard' = Set(guard, q, guard[p])
        /\ sz' = Set(sz, q, sz[p]) /\ parent' = Set(parent, q, p)
        /\ state' = Set(state, q, "live")
        /\ Return(p, TRUE)
        /\ UNCHANGED <<free, kstack, others, panicked>>

-----------------------------------------------------------------------------
(* allocuvm *)

\* Its early returns: 0 when the size would reach the kernel, oldsz when it would
\* shrink.
TooBig(new) == new >= KERNBASE
Granted(old, new) == IF new < old THEN old ELSE new

StartAlloc(p, old, new) ==
    /\ lim' = Set(lim, p, <<old, new>>)
    /\ a' = Set(a, p, PgUp(old))

\* Mutant: an allocuvm that hands out a page as kalloc returned it.
AllocDirty(p) ==
    /\ At(p, "alloc")
    /\ a[p] * PGSIZE < lim[p][2]
    /\ IF OutOfMemory THEN AllocFails(p, 0)
       ELSE /\ mem' = Set(mem, p, "junk")
            /\ Take(1)
            /\ Continue(p, "alloc_map")
            /\ UNCHANGED <<ptable, others, work, a, lim, seg, panicked>>

Alloc(p) ==
    /\ At(p, "alloc")
    /\ a[p] * PGSIZE < lim[p][2]
    /\ IF OutOfMemory THEN AllocFails(p, 0)
       ELSE /\ mem' = Set(mem, p, "zero")
            /\ Take(1)
            /\ Continue(p, "alloc_map")
            /\ UNCHANGED <<ptable, others, work, a, lim, seg, panicked>>

AllocMap(p) ==
    /\ At(p, "alloc_map")
    /\ IF NoTable(p) THEN AllocFails(p, 1)
       ELSE IF Remap(p) THEN Panic
       ELSE Map(p, "alloc")

Allocated(p) == At(p, "alloc") /\ a[p] * PGSIZE >= lim[p][2]

-----------------------------------------------------------------------------
(* exec *)

\* begin_op, namei, and ilock of a file that exists.
Exec(p, prog) ==
    /\ Runs(p)
    /\ p = InitProc => guard[p] = {}   \* initcode.S execs init.c, which never does
    /\ ops' = ops + 1
    /\ ip' = Set(ip, p, prog.exists)
    /\ call' = Set(call, p, [op |-> "exec", prog |-> prog])
    /\ seg' = Set(seg, p, 1)
    /\ Goto(p, "exec_head")
    /\ ret' = NoReturn
    /\ UNCHANGED <<pipes, free, ptable, np, work, mem, a, lim, panicked>>

Segs(p) == call[p].prog.segs

\* namei found nothing: end_op, and no cleanup.
ExecNoFile(p) ==
    /\ At(p, "exec_head") /\ ~ip[p]
    /\ ops' = ops - 1
    /\ Return(p, FALSE)
    /\ UNCHANGED <<pipes, free, ptable, panicked>>

ExecHead(p) ==
    /\ At(p, "exec_head") /\ ip[p]
    /\ IF ~call[p].prog.elf THEN ExecFails(p, 0)
       ELSE /\ Continue(p, "setup_dir")
            /\ UNCHANGED <<free, ptable, others, work, mem, a, lim, seg, panicked>>

\* One program header, up to its allocuvm.  Between calls of allocuvm lim holds
\* exec's sz.
ExecSeg(p) ==
    LET s == Segs(p)[seg[p]]
        old == lim[p][1]
        new == (s.vaddr + s.memsz) % UintMod
    IN  /\ At(p, "exec_seg")
        /\ seg[p] <= Len(Segs(p)) /\ s.there /\ s.load
        /\ IF s.memsz < s.filesz \/ new < s.vaddr \/ TooBig(new) THEN ExecFails(p, Freevm(work[p]))
           ELSE /\ StartAlloc(p, old, new)
                /\ Continue(p, "alloc")
                /\ UNCHANGED <<free, ptable, others, work, mem, seg, panicked>>

\* The file ends before the header does.
ExecShort(p) ==
    /\ At(p, "exec_seg")
    /\ seg[p] <= Len(Segs(p)) /\ ~Segs(p)[seg[p]].there
    /\ ExecFails(p, Freevm(work[p]))

\* A header of another type is passed over.
ExecSkip(p) ==
    /\ At(p, "exec_seg")
    /\ seg[p] <= Len(Segs(p)) /\ Segs(p)[seg[p]].there /\ ~Segs(p)[seg[p]].load
    /\ seg' = [seg EXCEPT ![p] = @ + 1]
    /\ Continue(p, "exec_seg")
    /\ UNCHANGED <<free, ptable, others, work, mem, a, lim, panicked>>

\* The pages into which loaduvm reads a segment.
Loaded(s) == {i \in 0..NPages-1 : s.vaddr <= i * PGSIZE /\ i * PGSIZE < s.vaddr + s.filesz}

\* The rest of it: alignment and loaduvm.
ExecLoad(p) ==
    LET s == Segs(p)[seg[p]]
        new == Granted(lim[p][1], lim[p][2])
    IN  /\ Allocated(p)
        /\ call[p].op = "exec" /\ ip[p]
        /\ IF new = 0 \/ s.vaddr % PGSIZE # 0 \/ ~s.whole THEN ExecFails(p, Freevm(work[p]))
           ELSE IF \E i \in Loaded(s) : ~Present(work[p], i) THEN Panic
           ELSE /\ work' = [work EXCEPT ![p] = [c \in Cells |-> IF \E i \in Loaded(s) : c = Page(i)
                                                                THEN "text" ELSE @[c]]]
                /\ lim' = Set(lim, p, <<new, new>>)
                /\ seg' = [seg EXCEPT ![p] = @ + 1]
                /\ Continue(p, "exec_seg")
                /\ UNCHANGED <<free, ptable, others, mem, a, panicked>>

\* iunlockput and end_op after the last segment.
ExecClose(p) ==
    /\ At(p, "exec_seg")
    /\ seg[p] > Len(Segs(p))
    /\ ops' = ops - 1
    /\ ip' = Set(ip, p, FALSE)
    /\ Goto(p, "exec_stack")
    /\ ret' = NoReturn
    /\ UNCHANGED <<pipes, free, ptable, call, np, work, mem, a, lim, seg, panicked>>

ExecStack(p) ==
    LET old == PgUp(lim[p][1]) * PGSIZE
        new == old + 2 * PGSIZE
    IN  /\ At(p, "exec_stack")
        /\ IF TooBig(new) THEN ExecFails(p, Freevm(work[p]))
           ELSE /\ StartAlloc(p, old, new)
                /\ Continue(p, "alloc")
                /\ UNCHANGED <<free, ptable, others, work, mem, seg, panicked>>

\* clearpteu: the page below the stack, of an image of so many pages.
Guarded(top) == {top - 2}

\* copyout fails when the arguments run into it; too many of them fail the same way.
CopyoutFails(prog) == prog.args > PGSIZE

\* The arguments go onto the stack, and the new image replaces the old one.
ExecCommit(p) ==
    LET top == lim[p][2] \div PGSIZE
    IN  /\ Allocated(p)
        /\ call[p].op = "exec" /\ ~ip[p]
        /\ IF CopyoutFails(call[p].prog) THEN ExecFails(p, Freevm(work[p]))
           ELSE /\ Kfree(Freevm(space[p]))
                /\ space' = Set(space, p, [work[p] EXCEPT ![Page(top - 1)] = "args"])
                /\ guard' = Set(guard, p, Guarded(top))
                /\ sz' = Set(sz, p, lim[p][2])
                /\ Return(p, TRUE)
                /\ UNCHANGED <<state, parent, kstack, others, panicked>>

-----------------------------------------------------------------------------
(* sbrk: growproc *)

Grow(p, n) ==
    LET new == (sz[p] + n) % UintMod
    IN  /\ Runs(p) /\ p # InitProc   \* init.c makes no such call
        /\ n > 0 /\ ~TooBig(new) /\ new >= sz[p]
        /\ call' = Set(call, p, [op |-> "sbrk"])
        /\ StartAlloc(p, sz[p], new)
        /\ Goto(p, "alloc")
        /\ ret' = NoReturn
        /\ UNCHANGED <<free, ptable, others, np, work, mem, seg, ip, panicked>>

GrowDone(p) ==
    /\ Allocated(p)
    /\ call[p].op = "sbrk"
    /\ sz' = Set(sz, p, lim[p][2])
    /\ Return(p, TRUE)
    /\ UNCHANGED <<free, state, parent, kstack, space, guard, others, panicked>>

\* allocuvm refuses a size that reaches the kernel; a sum that wraps, or 0, is a call that
\* succeeds and does nothing.
SbrkAtOnce(p, n) ==
    LET new == (sz[p] + n) % UintMod
        refused == n > 0 /\ TooBig(new)
    IN  /\ Runs(p) /\ p # InitProc
        /\ refused \/ n = 0 \/ (n > 0 /\ new < sz[p]) \/ (n < 0 /\ new >= sz[p])
        /\ ret' = [op |-> "sbrk", ok |-> ~refused]
        /\ UNCHANGED <<free, ptable, others, pc, locals, panicked>>

\* A size that would be negative wraps and is no decrease.  A size of 0 is taken
\* for deallocuvm's failure: the pages are gone and sz stays.
Shrink(p, n) ==
    LET new == (sz[p] + n) % UintMod
    IN  /\ Runs(p) /\ p # InitProc
        /\ n < 0 /\ new < sz[p]
        /\ Kfree(Dropped(space[p], sz[p], new))
        /\ space' = Set(space, p, Dealloc(space[p], sz[p], new))
        /\ guard' = [guard EXCEPT ![p] = @ \ Doomed(space[p], sz[p], new)]
        /\ sz' = Set(sz, p, IF new = 0 THEN sz[p] ELSE new)
        /\ ret' = [op |-> "sbrk", ok |-> new # 0]
        /\ UNCHANGED <<state, parent, kstack, others, pc, locals, panicked>>

-----------------------------------------------------------------------------
(* The user's own stores, exit and wait *)

Store(p, i) ==
    /\ Runs(p)
    /\ i < NPages /\ Present(space[p], i) /\ i \notin guard[p]
    /\ space' = [space EXCEPT ![p][Page(i)] = "data"]
    /\ ret' = NoReturn
    /\ UNCHANGED <<free, state, parent, kstack, sz, guard, others, pc, locals, panicked>>

\* pipealloc and the last pipeclose: the other users of kalloc.
PipeAlloc(p) ==
    /\ Runs(p)
    /\ pipes < MaxPipes /\ ~OutOfMemory
    /\ pipes' = pipes + 1
    /\ Take(1)
    /\ ret' = NoReturn
    /\ UNCHANGED <<ptable, ops, pc, locals, panicked>>

PipeFree(p) ==
    /\ Runs(p)
    /\ pipes > 0
    /\ pipes' = pipes - 1
    /\ Kfree(1)
    /\ ret' = NoReturn
    /\ UNCHANGED <<ptable, ops, pc, locals, panicked>>

\* A call, or a fault: a process whose code is gone can do nothing else.
Exit(p) ==
    /\ At(p, "user")
    /\ p # InitProc
    /\ state' = Set(state, p, "zombie")
    /\ ret' = NoReturn
    /\ parent' = [q \in Procs |-> IF parent[q] = p THEN InitProc ELSE parent[q]]
    /\ UNCHANGED <<free, kstack, sz, space, guard, others, pc, locals, panicked>>

Wait(p, q) ==
    /\ Runs(p)
    /\ state[q] = "zombie" /\ parent[q] = p
    /\ Kfree(1 + Freevm(space[q]))
    /\ kstack' = Set(kstack, q, FALSE)
    /\ space' = Set(space, q, NoSpace) /\ guard' = Set(guard, q, {}) /\ sz' = Set(sz, q, 0)
    /\ parent' = Set(parent, q, q)
    /\ state' = Set(state, q, "unused")
    /\ ret' = NoReturn
    /\ UNCHANGED <<others, pc, locals, panicked>>

-----------------------------------------------------------------------------
(* Specification *)

\* The list kinit and freerange make, when userinit has taken a stack, a page table and a page.
FreeAtStart == NFrames - (1 + (2 + NKern) + 1)

\* setupkvm and inituvm.
InitSpace ==
    [c \in Cells |-> IF c[1] \in {"dir", "kern"} \/ c = Tab(0) THEN "table"
                     ELSE IF c = Page(0) THEN "text" ELSE NoPage]

\* userinit has made the first process, of one page.
Init ==
    /\ free = FreeAtStart
    /\ state = [p \in Procs |-> IF p = InitProc THEN "live" ELSE "unused"]
    /\ parent = [p \in Procs |-> p]
    /\ kstack = [p \in Procs |-> p = InitProc]
    /\ sz = [p \in Procs |-> IF p = InitProc THEN PGSIZE ELSE 0]
    /\ space = [p \in Procs |-> IF p = InitProc THEN InitSpace ELSE NoSpace]
    /\ guard = [p \in Procs |-> {}]
    /\ pipes = 0 /\ ops = 0
    /\ pc = [p \in Procs |-> "user"]
    /\ call = [p \in Procs |-> NoCall] /\ np = [p \in Procs |-> p]
    /\ work = [p \in Procs |-> NoSpace] /\ mem = [p \in Procs |-> NoPage]
    /\ a = [p \in Procs |-> 0] /\ lim = [p \in Procs |-> <<0, 0>>]
    /\ seg = [p \in Procs |-> 0] /\ ip = [p \in Procs |-> FALSE]
    /\ ret = NoReturn
    /\ panicked = FALSE

ForkCall(p) == Fork(p) \/ ForkNoSlot(p) \/ ForkKstack(p) \/ Copy(p) \/ CopyMap(p) \/ ForkDone(p)

ExecCall(p) ==
    \/ \E prog \in Programs : Exec(p, prog)
    \/ ExecNoFile(p) \/ ExecHead(p)
    \/ ExecShort(p) \/ ExecSkip(p) \/ ExecSeg(p) \/ ExecLoad(p)
    \/ ExecClose(p) \/ ExecStack(p) \/ ExecCommit(p)

SbrkCall(p) == (\E n \in Amounts : Grow(p, n) \/ Shrink(p, n) \/ SbrkAtOnce(p, n)) \/ GrowDone(p)

Next ==
    \E p \in Procs :
        \/ ForkCall(p) \/ ExecCall(p) \/ SbrkCall(p)
        \/ SetupDir(p) \/ SetupKern(p) \/ SetupDone(p) \/ Alloc(p) \/ AllocMap(p)
        \/ \E i \in StorePages : Store(p, i)
        \/ PipeAlloc(p) \/ PipeFree(p)
        \/ Exit(p)
        \/ \E q \in Procs : Wait(p, q)

Spec == Init /\ [][Next]_vars

-----------------------------------------------------------------------------
(* Properties *)

\* Every physical page is free or in exactly one place - a page table, one that is
\* being built, a kernel stack, a pipe, or the hands of a call - at every step of every call
\* and whichever of its allocations fails: no page is leaked or freed twice.
FramesAccounted ==
    NFrames = free + pipes
                   + Cardinality({x \in Procs \X Cells : space[x[1]][x[2]] # NoPage})
                   + Cardinality({x \in Procs \X Cells : work[x[1]][x[2]] # NoPage})
                   + Cardinality({p \in Procs : kstack[p]})
                   + Cardinality({p \in Procs : mem[p] # NoPage})

\* The size of a process that runs tells which of its pages exist, so fork and exec meet
\* no missing or doubled page: "page not present", "remap" and loaduvm's panic stay away.
NoPanic == ~panicked

\* Whatever way exec ends, at whichever of its dozen exits, the transaction it opened
\* has been closed and closed once; one left open would stop every later commit.
ExecEndsItsOp == ops \in 0..Cardinality({p \in Procs : call[p].op = "exec"})

\* What a process sees of its memory.
Image(p) ==
    IF state[p] \in {"live", "zombie"}
      THEN [i \in {j \in 0..PgUp(sz[p])-1 : Present(space[p], j)} |->
               IF i \in guard[p] THEN "guard" ELSE space[p][Page(i)]]
      ELSE [i \in {} |-> 0]

Spaces == INSTANCE AddressSpaces WITH image <- [p \in Procs |-> Image(p)]

\* Each process has its memory to itself, a call that returns success has done what it
\* says, and one that returns failure has left the memory as it was, whichever of its
\* allocations failed; but for sbrk down to nothing, which takes the pages and reports
\* failure.
ImplementsAddressSpaces == Spaces!Spec
=============================================================================

------------------------------ MODULE HdcTable ------------------------------
(***************************************************************************)
(* The device contexts (HDCs) of the graphics system calls and the Painter *)
(* processes that use them: graphics.c, graphicsQueueables.c, Painter.c.   *)
(*                                                                         *)
(* hdcVals.hdcObjects is a fixed table shared by every process.            *)
(* sys_beginpaint and sys_endpaint touch it under one spinlock that        *)
(* sys_beginpaint itself initialises on first use; every other call takes  *)
(* no lock and relies on each context having one user.                     *)
(*                                                                         *)
(* Data: the screen is one row of Width pixels, so a line or a rectangle   *)
(* is an interval of it (the two-dimensional plotters are not modelled).   *)
(* A colour is one number.  PenMin, PenMax, QueuePenCap and ColMax stand   *)
(* for 16, 255, 50 and 63.  A command draws all its pixels in one step.    *)
(***************************************************************************)
EXTENDS Integers, Sequences

CONSTANTS
    Procs,        \* Painter processes, each on a CPU of its own while in the kernel
    NoProc,       \* the null cpu pointer of a free spinlock
    NHdc,         \* entries of hdcObjects (5)
    Width,        \* pixels of the screen
    QCap,         \* entries of a commandQueue (50)
    WriteLimit,   \* bound: commands a user queues on one context
    PenMin,       \* first pen a user may declare (16)
    PenMax,       \* last pen (255)
    QueuePenCap,  \* cap on the pen index of a queued command (50)
    ColMax,       \* largest colour component (63)
    Cmds,         \* drawing commands typed at the prompt, a set of Command
    LockReady     \* lockinit initially: 0 at boot, 1 once a beginpaint has returned

Slots  == 0..(NHdc - 1)
NoHdc  == -1
Pixels == 0..(Width - 1)
Pens   == 0..PenMax
Ops    == {"pixel", "line", "move", "declare", "pen", "rect"}

\* What the user types: an operation in one of Painter's two modes, or -e.
\* The mode only selects which of the two forms is offered and -toggleMode is
\* always available, so both forms are offered at every prompt.
Command == [mode : {"direct", "queue"}, op : Ops \cup {"square"}, a : Int, b : Int]

ASSUME HdcAssumption ==
    /\ NoProc \notin Procs
    /\ NHdc \in Nat \ {0} /\ Width \in Nat \ {0}
    /\ QCap \in Nat \ {0} /\ WriteLimit \in Nat
    /\ PenMin \in Nat \ {0} /\ PenMax \in Nat /\ QueuePenCap \in Nat /\ ColMax \in Nat
    /\ PenMin <= QueuePenCap /\ QueuePenCap <= PenMax
    /\ LockReady \in {0, 1}
    /\ Cmds \subseteq Command

\* A system call in flight and its arguments.
Syscall == [call : {"beginpaint", "endpaint", "direct", "writeQueue"},
            op : Ops \cup {"none"}, hdc : Int, a : Int, b : Int]

VARIABLES
    lockinit,  \* static int lockinit
    lock,      \* static struct spinlock lock: [locked, cpu]
    hdc,       \* hdcVals.hdcObjects
    pix,       \* frame buffer at 0xA0000
    pal,       \* palette behind ports 0x3C8/0x3C9
    panicked,  \* a kernel panic stops every CPU
    pc,        \* what each process is executing
    todo,      \* system calls left of the command being run, current one first
    cur,       \* Painter's currentHDC
    ret,       \* index found by sys_beginpaint / result of sys_endpaint
    idx,       \* loop counter of sys_endpaint
    leaked     \* contexts whose process was killed before it called endpaint

kernel == <<lockinit, lock, hdc, pix, pal, panicked>>
local  == <<pc, todo, cur, ret, idx, leaked>>
vars   == <<kernel, local>>

-----------------------------------------------------------------------------
(* Values *)

\* ValueCapper and ValueCapperChar: the closest value in 0..capacity.
ValueCapper(v, capacity) == IF v > capacity THEN capacity ELSE IF v < 0 THEN 0 ELSE v

NoCommand == [op |-> "none", hdc |-> 0, a |-> 0, b |-> 0]
Garbage   == [op |-> "garbage", hdc |-> 0, a |-> 0, b |-> 0]
FreeLock  == [locked |-> FALSE, cpu |-> NoProc]

\* A context as beginpaint and endpaint write it.  Both copy a struct whose
\* commandQueue is never assigned, so the old commands stay behind.
Blank(init, queue) ==
    [init |-> init, x |-> 0, pen |-> PenMin - 1, queue |-> queue, queueEnd |-> 0]

\* PixelSetterFunc over a set of pixels: the pen is stored as a uchar.
Plot(screen, points, pen) ==
    [i \in Pixels |-> IF i \in points THEN pen % (PenMax + 1) ELSE screen[i]]

\* The pixels between two positions, in either order (LineDraw).
Line(from, to) == {i \in Pixels : (from <= i /\ i <= to) \/ (to <= i /\ i <= from)}

\* One command run on a context d over screen s and palette m.
Run(st, c) ==
    CASE c.op = "pixel"   -> [st EXCEPT !.s = Plot(st.s, {c.a}, st.pen)]
      [] c.op = "line"    -> [st EXCEPT !.s = Plot(st.s, Line(st.x, c.a), st.pen), !.x = c.a]
      [] c.op = "move"    -> [st EXCEPT !.x = c.a]
      [] c.op = "declare" -> [st EXCEPT !.m[c.a] = c.b]
      [] c.op = "pen"     -> [st EXCEPT !.pen = c.a]
      [] c.op = "rect"    -> [st EXCEPT !.s = Plot(st.s, {i \in Pixels : c.a <= i /\ i <= c.b}, st.pen)]
      [] OTHER            -> st

\* The drawing state of context d.
Drawing(d) == [s |-> pix, m |-> pal, x |-> d.x, pen |-> d.pen]

\* The command a call makes of its arguments: what each path limits them to.
Entry(s, a, b) == [op |-> s.op, hdc |-> s.hdc, a |-> a, b |-> b]

CapQueued(s) ==
    CASE s.op = "declare" -> Entry(s, ValueCapper(s.a, QueuePenCap), ValueCapper(s.b, ColMax))
      [] s.op = "pen"     -> Entry(s, ValueCapper(s.a, QueuePenCap), 0)
      [] OTHER            -> Entry(s, ValueCapper(s.a, Width - 1), ValueCapper(s.b, Width - 1))

\* Mutant: the colour components are not limited.
CapDirectNoColourCap(s) == Entry(s, s.a, s.b)

CapDirect(s) ==
    CASE s.op = "declare" -> Entry(s, s.a, ValueCapper(s.b, ColMax))
      [] s.op = "pen"     -> Entry(s, s.a, 0)
      [] OTHER            -> Entry(s, ValueCapper(s.a, Width - 1), ValueCapper(s.b, Width - 1))

\* The early returns of the direct calls.
Rejected(op, a) ==
    \/ op = "declare" /\ (a < PenMin \/ a > PenMax)
    \/ op = "pen" /\ a > PenMax

-----------------------------------------------------------------------------
(* Control of a process *)

At(p, label) == ~panicked /\ pc[p] = label
Goto(p, label) == pc' = [pc EXCEPT ![p] = label]
Arg(p) == Head(todo[p])

\* Return to Painter, which keeps or drops its current context; the locals of
\* the system call are gone.
Return(p, newCur) ==
    /\ Goto(p, "user")
    /\ todo' = [todo EXCEPT ![p] = Tail(@)]
    /\ cur' = [cur EXCEPT ![p] = newCur]
    /\ ret' = [ret EXCEPT ![p] = NoHdc]
    /\ idx' = [idx EXCEPT ![p] = 0]

\* acquire(&lock): xchg until it was free, then record the cpu.
Acquire(p, from, to) ==
    /\ At(p, from)
    /\ ~lock.locked
    /\ lock' = [locked |-> TRUE, cpu |-> p]
    /\ Goto(p, to)

\* holding(&lock) is what release() insists on.
Holding(p) == lock.locked /\ lock.cpu = p

-----------------------------------------------------------------------------
(* Painter: the prompt.  A command becomes the system calls it makes. *)

Begin == [call |-> "beginpaint", op |-> "none", hdc |-> 0, a |-> 0, b |-> 0]
End(h, executeQueue) ==
    [call |-> "endpaint", op |-> "none", hdc |-> h, a |-> executeQueue, b |-> 0]

Direct(h, op, a, b) == [call |-> "direct", op |-> op, hdc |-> h, a |-> a, b |-> b]
WriteQueue(h, op, a, b) == [call |-> "writeQueue", op |-> op, hdc |-> h, a |-> a, b |-> b]

\* ExampleSquare: there and back along the row, then the cursor is reset.
ExampleSquare(h) ==
    << Direct(h, "move", 0, 0), Direct(h, "line", Width - 1, 0),
       Direct(h, "line", 0, 0), Direct(0, "move", 0, 0) >>

\* -r sorts its coordinates before the call.
Sorted(c) == IF c.op = "rect" /\ c.a > c.b THEN [c EXCEPT !.a = c.b, !.b = c.a] ELSE c

CallsOf(h, command) ==
    LET c == Sorted(command)
    IN  IF c.op = "square" THEN ExampleSquare(h)
        ELSE IF c.mode = "direct" THEN << Direct(h, c.op, c.a, c.b) >>
        ELSE << WriteQueue(h, c.op, c.a, c.b) >>

AtPrompt(p) == At(p, "user") /\ todo[p] = <<>>

Type(p, calls) ==
    /\ todo' = [todo EXCEPT ![p] = calls]
    /\ UNCHANGED <<kernel, pc, cur, ret, idx, leaked>>

NewHdc(p) == AtPrompt(p) /\ cur[p] = NoHdc /\ Type(p, << Begin >>)
Exec(p)   == AtPrompt(p) /\ cur[p] # NoHdc /\ Type(p, << End(cur[p], 1) >>)
Exit(p)   == AtPrompt(p) /\ cur[p] # NoHdc /\ Type(p, << End(cur[p], 0) >>)

Draw(p, c) ==
    /\ AtPrompt(p)
    /\ cur[p] # NoHdc
    /\ c.mode = "queue" => hdc[cur[p]].queueEnd \in 0..(WriteLimit - 1)
    /\ Type(p, CallsOf(cur[p], c))

\* A killed process exits on its way back to user space (trap.c) without
\* calling endpaint; the next Painter takes its place.
Killed(p) ==
    /\ At(p, "user")
    /\ leaked' = IF cur[p] = NoHdc THEN leaked ELSE leaked \cup {cur[p]}
    /\ cur' = [cur EXCEPT ![p] = NoHdc]
    /\ todo' = [todo EXCEPT ![p] = <<>>]
    /\ cur[p] # NoHdc \/ todo[p] # <<>>
    /\ UNCHANGED <<kernel, pc, ret, idx>>

EntryOf(call) ==
    CASE call = "beginpaint" -> "bp_check"
      [] call = "endpaint"   -> "ep_acquire"
      [] call = "direct"     -> "direct"
      [] OTHER               -> "wq_write"

Enter(p) ==
    /\ At(p, "user")
    /\ todo[p] # <<>>
    /\ Goto(p, EntryOf(Arg(p).call))
    /\ UNCHANGED <<kernel, todo, cur, ret, idx, leaked>>

-----------------------------------------------------------------------------
(* sys_beginpaint *)

BeginCheck(p) ==
    /\ At(p, "bp_check")
    /\ Goto(p, IF lockinit # 1 THEN "bp_initlock" ELSE "bp_acquire")
    /\ UNCHANGED <<kernel, todo, cur, ret, idx, leaked>>

BeginInitlock(p) ==
    /\ At(p, "bp_initlock")
    /\ lock' = FreeLock
    /\ Goto(p, "bp_lockinit")
    /\ UNCHANGED <<lockinit, hdc, pix, pal, panicked, todo, cur, ret, idx, leaked>>

BeginSetLockinit(p) ==
    /\ At(p, "bp_lockinit")
    /\ lockinit' = 1
    /\ Goto(p, "bp_acquire")
    /\ UNCHANGED <<lock, hdc, pix, pal, panicked, todo, cur, ret, idx, leaked>>

BeginAcquire(p) ==
    /\ Acquire(p, "bp_acquire", "bp_scan")
    /\ UNCHANGED <<lockinit, hdc, pix, pal, panicked, todo, cur, ret, idx, leaked>>

\* Mutant: an empty queue is taken for a free entry.
FreeByQueue == {h \in Slots : hdc[h].queueEnd = 0}

Free == {h \in Slots : hdc[h].init = 0}

\* The loop stops at the first free entry, or leaves -1.
BeginScan(p) ==
    /\ At(p, "bp_scan")
    /\ \/ /\ Free = {}
          /\ ret' = [ret EXCEPT ![p] = NoHdc]
          /\ Goto(p, "bp_release")
       \/ \E h \in Free :
             /\ \A g \in Free : h <= g
             /\ ret' = [ret EXCEPT ![p] = h]
             /\ Goto(p, "bp_claim")
    /\ UNCHANGED <<kernel, todo, cur, idx, leaked>>

BeginClaim(p) ==
    /\ At(p, "bp_claim")
    /\ hdc' = [hdc EXCEPT ![ret[p]] = Blank(1, @.queue)]
    /\ Goto(p, "bp_release")
    /\ UNCHANGED <<lockinit, lock, pix, pal, panicked, todo, cur, ret, idx, leaked>>

\* release() panics when this cpu is not the recorded holder.
Release(p, newCur) ==
    \/ /\ Holding(p)
       /\ lock' = FreeLock
       /\ Return(p, newCur)
       /\ UNCHANGED panicked
    \/ /\ ~Holding(p)
       /\ panicked' = TRUE
       /\ UNCHANGED <<lock, pc, todo, cur, ret, idx>>

BeginRelease(p) ==
    /\ At(p, "bp_release")
    /\ Release(p, ret[p])
    /\ UNCHANGED <<lockinit, hdc, pix, pal, leaked>>

-----------------------------------------------------------------------------
(* sys_endpaint *)


EndAcquire(p) ==
    /\ Acquire(p, "ep_acquire", IF Arg(p).a = 1 THEN "ep_exec" ELSE "ep_reset")
    /\ idx' = [idx EXCEPT ![p] = 0]
    /\ UNCHANGED <<lockinit, hdc, pix, pal, panicked, todo, cur, ret, leaked>>

\* Mutant: the loop counter is not advanced.
EndExecStuck(p) ==
    /\ At(p, "ep_exec")
    /\ idx[p] < hdc[Arg(p).hdc].queueEnd
    /\ pix' = Run(Drawing(hdc[Arg(p).hdc]), hdc[Arg(p).hdc].queue[idx[p] + 1]).s
    /\ UNCHANGED <<lockinit, lock, hdc, pal, panicked, local>>

\* One queued command.  An entry that no Append* wrote holds no function.
EndExec(p) ==
    LET h == Arg(p).hdc
        c == hdc[h].queue[idx[p] + 1]
        r == Run(Drawing(hdc[c.hdc]), c)
    IN  /\ At(p, "ep_exec")
        /\ idx[p] < hdc[h].queueEnd
        /\ IF idx[p] < QCap /\ c.op # "garbage"
             THEN /\ pix' = r.s
                  /\ pal' = r.m
                  /\ hdc' = [hdc EXCEPT ![c.hdc].x = r.x, ![c.hdc].pen = r.pen]
                  /\ idx' = [idx EXCEPT ![p] = @ + 1]
                  /\ UNCHANGED panicked
             ELSE panicked' = TRUE /\ UNCHANGED <<pix, pal, hdc, idx>>
        /\ UNCHANGED <<lockinit, lock, pc, todo, cur, ret, leaked>>

EndExecDone(p) ==
    /\ At(p, "ep_exec")
    /\ idx[p] >= hdc[Arg(p).hdc].queueEnd
    /\ Goto(p, "ep_reset")
    /\ UNCHANGED <<kernel, todo, cur, ret, idx, leaked>>

\* Mutant: the flag is set to 1 again, as in beginpaint.
EndResetKeepsFlag(p) ==
    LET h == Arg(p).hdc
    IN  /\ At(p, "ep_reset")
        /\ hdc' = [hdc EXCEPT ![h] = Blank(1, @.queue)]
        /\ ret' = [ret EXCEPT ![p] = 0]
        /\ Goto(p, "ep_release")
        /\ UNCHANGED <<lockinit, lock, pix, pal, panicked, todo, cur, idx, leaked>>

EndReset(p) ==
    LET h == Arg(p).hdc
    IN  /\ At(p, "ep_reset")
        /\ IF hdc[h].init = 1
             THEN /\ hdc' = [hdc EXCEPT ![h] = Blank(0, @.queue)]
                  /\ ret' = [ret EXCEPT ![p] = 0]
             ELSE /\ ret' = [ret EXCEPT ![p] = -1]
                  /\ UNCHANGED hdc
        /\ Goto(p, "ep_release")
        /\ UNCHANGED <<lockinit, lock, pix, pal, panicked, todo, cur, idx, leaked>>

\* -exec keeps the context when endpaint failed; -exit leaves Painter anyway.
EndRelease(p) ==
    /\ At(p, "ep_release")
    /\ Release(p, IF ret[p] = 0 \/ Arg(p).a = 0 THEN NoHdc ELSE cur[p])
    /\ UNCHANGED <<lockinit, hdc, pix, pal, leaked>>

-----------------------------------------------------------------------------
(* The calls that take no lock *)

\* setpixel, moveto, selectpen, setpencolour and fillrect; lineto first draws.
DirectCall(p) ==
    LET s == Arg(p)
        r == Run(Drawing(hdc[s.hdc]), CapDirect(s))
    IN  /\ At(p, "direct")
        /\ \/ /\ Rejected(s.op, s.a)
              /\ UNCHANGED <<hdc, pix, pal>>
              /\ Return(p, cur[p])
           \/ /\ ~Rejected(s.op, s.a)
              /\ s.op # "line"
              /\ pix' = r.s
              /\ pal' = r.m
              /\ hdc' = [hdc EXCEPT ![s.hdc].x = r.x, ![s.hdc].pen = r.pen]
              /\ Return(p, cur[p])
           \/ /\ s.op = "line"
              /\ pix' = r.s
              /\ Goto(p, "lineto_move")
              /\ UNCHANGED <<hdc, pal, todo, cur, ret, idx>>
        /\ UNCHANGED <<lockinit, lock, panicked, leaked>>

\* lineto: MovePos after the line.
LinetoMove(p) ==
    LET s == Arg(p)
    IN  /\ At(p, "lineto_move")
        /\ hdc' = [hdc EXCEPT ![s.hdc].x = ValueCapper(s.a, Width - 1)]
        /\ Return(p, cur[p])
        /\ UNCHANGED <<lockinit, lock, pix, pal, panicked, leaked>>

\* Behind commandQueue lie queueEnd and then the next context.  Writing entry
\* QCap replaces queueEnd by a function address (negative as an int) and the
\* next context's init, x, penIndex and first command; all but init (the text
\* of the hdc number) take stack bytes AppendArg never wrote.
Spill(h, x, pen) ==
    [g \in Slots |->
        CASE g = h     -> [hdc[g] EXCEPT !.queueEnd = -2]
          [] g = h + 1 -> [hdc[g] EXCEPT !.init = 48 + h, !.x = x, !.pen = pen,
                                         !.queue[1] = Garbage]
          [] OTHER     -> hdc[g]]

\* sys_writeQueue: Append* stores the command at queueEnd ...
QueueWrite(p) ==
    LET h == Arg(p).hdc
        n == hdc[h].queueEnd
    IN  /\ At(p, "wq_write")
        /\ \/ /\ n < QCap
              /\ hdc' = [hdc EXCEPT ![h].queue[n + 1] = CapQueued(Arg(p))]
           \/ /\ n >= QCap
              /\ \E x \in Pixels, pen \in Pens : hdc' = Spill(h, x, pen)
        /\ Goto(p, "wq_inc")
        /\ UNCHANGED <<lockinit, lock, pix, pal, panicked, todo, cur, ret, idx, leaked>>

\* ... and then counts it.
QueueInc(p) ==
    /\ At(p, "wq_inc")
    /\ hdc' = [hdc EXCEPT ![Arg(p).hdc].queueEnd = @ + 1]
    /\ Return(p, cur[p])
    /\ UNCHANGED <<lockinit, lock, pix, pal, panicked, leaked>>

-----------------------------------------------------------------------------
(* Specification *)

Init ==
    /\ lockinit = LockReady
    /\ lock = FreeLock
    /\ hdc = [h \in Slots |->
                [init |-> 0, x |-> 0, pen |-> 0,
                 queue |-> [i \in 1..QCap |-> NoCommand], queueEnd |-> 0]]
    /\ pix = [i \in Pixels |-> 0]
    /\ pal = [i \in Pens |-> 0]
    /\ panicked = FALSE
    /\ pc = [p \in Procs |-> "user"]
    /\ todo = [p \in Procs |-> <<>>]
    /\ cur = [p \in Procs |-> NoHdc]
    /\ ret = [p \in Procs |-> NoHdc]
    /\ idx = [p \in Procs |-> 0]
    /\ leaked = {}

Beginpaint(p) ==
    \/ BeginCheck(p) \/ BeginInitlock(p) \/ BeginSetLockinit(p)
    \/ BeginAcquire(p) \/ BeginScan(p) \/ BeginClaim(p) \/ BeginRelease(p)

Endpaint(p) ==
    \/ EndAcquire(p) \/ EndExec(p) \/ EndExecDone(p) \/ EndReset(p) \/ EndRelease(p)

Unlocked(p) == DirectCall(p) \/ LinetoMove(p) \/ QueueWrite(p) \/ QueueInc(p)

Prompt(p) ==
    \/ NewHdc(p) \/ Exec(p) \/ Exit(p) \/ Killed(p)
    \/ \E c \in Cmds : Draw(p, c)

Kernel(p) == Enter(p) \/ Beginpaint(p) \/ Endpaint(p) \/ Unlocked(p)

Next == \E p \in Procs : Prompt(p) \/ Kernel(p)

Spec == Init /\ [][Next]_vars

\* A CPU that is inside a system call keeps executing it.
FairSpec == Spec /\ \A p \in Procs : WF_vars(Kernel(p))
-----------------------------------------------------------------------------
(* Properties *)

Labels == {"user", "bp_check", "bp_initlock", "bp_lockinit", "bp_acquire", "bp_scan",
           "bp_claim", "bp_release", "ep_acquire", "ep_exec", "ep_reset", "ep_release",
           "direct", "lineto_move", "wq_write", "wq_inc"}

Entries  == {e \in [op : Ops \cup {"none", "garbage"}, hdc : Slots, a : Int, b : Int] :
                e.op = "declare" => e.b \in 0..ColMax}
Contexts == [init : Int, x : Int, pen : Int, queue : [1..QCap -> Entries], queueEnd : Int]

\* Every variable has the type its C declaration gives it, and the frame buffer
\* only ever holds pen numbers.
TypeOK ==
    /\ lockinit \in {0, 1}
    /\ lock \in [locked : BOOLEAN, cpu : Procs \cup {NoProc}]
    /\ hdc \in [Slots -> Contexts]
    /\ pix \in [Pixels -> Pens]
    /\ pal \in [Pens -> 0..ColMax]
    /\ panicked \in BOOLEAN
    /\ pc \in [Procs -> Labels]
    /\ todo \in [Procs -> Seq(Syscall)]
    /\ cur \in [Procs -> Slots \cup {NoHdc}]
    /\ ret \in [Procs -> Slots \cup {NoHdc}]
    /\ idx \in [Procs -> Nat]
    /\ leaked \subseteq Slots

\* No two processes are ever given the same context, and a context abandoned
\* by a killed process is given to nobody: the purpose of the lock around the
\* table scan of sys_beginpaint ("two cpus gaining the same HDC").
NoSharedHdc ==
    /\ \A p, q \in Procs : p # q /\ cur[p] # NoHdc => cur[p] # cur[q]
    /\ \A p \in Procs : cur[p] \notin leaked

\* Contexts in the hands of a process: returned to it, or claimed and about to be.
Held == {cur[p] : p \in Procs} \cup {ret[p] : p \in {q \in Procs : pc[q] = "bp_release"}}

\* The table forgets no context: one that beginpaint has marked is in the hands of
\* a process or was abandoned by a killed one (endpaint has no other caller, so
\* that nobody frees those: graphics.c), and one in the hands of a process stays
\* marked until its own endpaint has reset it.
ContextsAccounted ==
    /\ \A h \in Slots : hdc[h].init = 1 => h \in Held \cup leaked
    /\ \A p \in Procs : cur[p] # NoHdc /\ pc[p] # "ep_release" => hdc[cur[p]].init # 0

\* A queue that is executed is emptied: the lock taken by endpaint is always
\* given back, so no process spins on it for ever because of one long queue.
LockReleased == \A p \in Procs : lock.cpu = p ~> lock.cpu # p

=============================================================================

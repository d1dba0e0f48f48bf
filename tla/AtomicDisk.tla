----------------------------- MODULE AtomicDisk -----------------------------
(***************************************************************************)
(* What the log promises the file system: system calls change blocks in    *)
(* memory; the blocks that survive a crash change all at once, and only    *)
(* when no system call is half done.                                       *)
(***************************************************************************)
EXTENDS Naturals

CONSTANTS Blocks, Vals, Zero

VARIABLES
    mem,     \* blocks as system calls see them
    stable,  \* blocks as they will be after a crash
    active   \* system calls between begin_op and end_op

Init ==
    /\ mem = [b \in Blocks |-> Zero]
    /\ stable = [b \in Blocks |-> Zero]
    /\ active = 0

BeginOp == active' = active + 1 /\ UNCHANGED <<mem, stable>>

WriteBlock ==
    /\ active > 0
    /\ \E b \in Blocks, v \in Vals : mem' = [mem EXCEPT ![b] = v]
    /\ UNCHANGED <<stable, active>>

EndOp == active > 0 /\ active' = active - 1 /\ UNCHANGED <<mem, stable>>

Commit == active = 0 /\ stable' = mem /\ UNCHANGED <<mem, active>>

Crash == mem' = stable /\ active' = 0 /\ UNCHANGED stable

Next == BeginOp \/ WriteBlock \/ EndOp \/ Commit \/ Crash

Spec == Init /\ [][Next]_<<mem, stable, active>>
=============================================================================

------------------------------ MODULE BlockStore ----------------------------
(***************************************************************************)
(* What the buffer cache promises its callers (the interface comment of    *)
(* bio.c): bread gives one process at a time the contents of a block, and  *)
(* only that process changes them, until brelse.  Neither the recycling of *)
(* buffers nor the disk is visible.                                        *)
(***************************************************************************)
CONSTANTS Procs, Blocks, Vals, Zero, NoProc

VARIABLES
    mem,     \* contents of each block
    holder   \* the process between bread and brelse of a block, or NoProc

Init ==
    /\ mem = [b \in Blocks |-> Zero]
    /\ holder = [b \in Blocks |-> NoProc]

Obtain(p, b) ==
    /\ holder[b] = NoProc
    /\ holder' = [holder EXCEPT ![b] = p]
    /\ UNCHANGED mem

Change(p, b, v) ==
    /\ holder[b] = p
    /\ mem' = [mem EXCEPT ![b] = v]
    /\ UNCHANGED holder

GiveBack(p, b) ==
    /\ holder[b] = p
    /\ holder' = [holder EXCEPT ![b] = NoProc]
    /\ UNCHANGED mem

Next ==
    \E p \in Procs, b \in Blocks :
        Obtain(p, b) \/ GiveBack(p, b) \/ \E v \in Vals : Change(p, b, v)

Spec == Init /\ [][Next]_<<mem, holder>>
=============================================================================

--------------------------- MODULE AddressSpaces ----------------------------
(***************************************************************************)
(* What the kernel promises about user memory: every process has pages of  *)
(* its own, numbered from 0.  They change only by its own stores and       *)
(* calls, a call that succeeds changes them as it should, and one that     *)
(* fails changes nothing.  growproc breaks the last promise once: sbrk     *)
(* down to nothing frees the pages and returns -1 (SbrkToNothing).         *)
(***************************************************************************)
EXTENDS Integers, Sequences, FiniteSets

CONSTANTS Procs, InitProc, PGSIZE, Programs

VARIABLES
    image,   \* the pages of each process; none when there is no process
    ret      \* the call that the last step ended, and whether it succeeded

None == [i \in {} |-> 0]
Size(m) == Cardinality(DOMAIN m)

NoReturn == [op |-> "none", ok |-> TRUE]
Returns(op, ok) == ret' = [op |-> op, ok |-> ok]

Init ==
    /\ image = [p \in Procs |-> IF p = InitProc THEN [i \in {0} |-> "text"] ELSE None]
    /\ ret = NoReturn

\* What may become of the pages of a process, from m to n.
Store(m, n) ==
    \E i \in DOMAIN m : m[i] # "guard" /\ n = [m EXCEPT ![i] = "data"]

\* New pages read as zero.
Grow(m, n) ==
    /\ Size(n) > Size(m)
    /\ n = [i \in 0..Size(n)-1 |-> IF i < Size(m) THEN m[i] ELSE "zero"]

Shrink(m, n) == Size(n) < Size(m) /\ n = [i \in 0..Size(n)-1 |-> m[i]]

\* The segments of a program, a page that cannot be used, and the stack with the
\* arguments.
Headers(prog) == {prog.segs[k] : k \in DOMAIN prog.segs}
Segments(prog) == {s \in Headers(prog) : s.load}
Ends(prog) == {(s.vaddr + s.memsz + PGSIZE - 1) \div PGSIZE : s \in Segments(prog)} \cup {0}
Top(prog) == CHOOSE n \in Ends(prog) : \A m \in Ends(prog) : m <= n
Loaded(prog, i) == \E s \in Segments(prog) :
                       s.vaddr <= i * PGSIZE /\ i * PGSIZE < s.vaddr + s.filesz
Fresh(prog) == [i \in 0..Top(prog)+1 |->
                   IF i = Top(prog) THEN "guard" ELSE IF i > Top(prog) THEN "args"
                   ELSE IF Loaded(prog, i) THEN "text" ELSE "zero"]

\* Of a file that is no sound program nothing is ever run.
Sound(prog) == /\ prog.exists /\ prog.elf /\ prog.args <= PGSIZE
               /\ \A s \in Headers(prog) : s.there
               /\ \A s \in Segments(prog) : /\ s.vaddr % PGSIZE = 0 /\ s.filesz <= s.memsz /\ s.whole
Exec(n) == \E prog \in Programs : Sound(prog) /\ n = Fresh(prog)

Fork(m, n) == m = None /\ \E q \in Procs : n = image[q]

Reap(p, n) == p # InitProc /\ n = None

Succeeds(m, n) ==
    \/ Returns("fork", TRUE) /\ Fork(m, n)
    \/ Returns("exec", TRUE) /\ m # None /\ Exec(n)
    \/ Returns("sbrk", TRUE) /\ m # None /\ n # None /\ (n = m \/ Grow(m, n) \/ Shrink(m, n))

Fails(m, n) == ~ret'.ok /\ n = m

SbrkToNothing(m, n) == Returns("sbrk", FALSE) /\ m # None /\ n = None

\* Steps that end no call; n = m is the inside of one.
Runs(p, m, n) == ret' = NoReturn /\ (n = m \/ Store(m, n) \/ Reap(p, n))

\* The memory of one process at a time, the others keep what they have.
Next == \E p \in Procs :
            /\ LET m == image[p]
                   n == image'[p]
               IN  Runs(p, m, n) \/ Succeeds(m, n) \/ Fails(m, n) \/ SbrkToNothing(m, n)
            /\ \A q \in Procs \ {p} : image'[q] = image[q]

Spec == Init /\ [][Next]_<<image, ret>>
=============================================================================

------------------------------ MODULE MCMemory ------------------------------
(* Programs and bounds for Memory. *)
EXTENDS Memory

S(vaddr, memsz, filesz, whole) ==
    [there |-> TRUE, load |-> TRUE, vaddr |-> vaddr, memsz |-> memsz, filesz |-> filesz, whole |-> whole]
Note == [there |-> TRUE, load |-> FALSE]
Cut == [there |-> FALSE, load |-> FALSE]
P(n, segs) == [exists |-> TRUE, elf |-> TRUE, args |-> n, segs |-> segs]

\* One that fits, the same with too many arguments, one of two segments with a hole
\* between them that leave no room for the stack, and one each with a file that is too
\* short, sizes that disagree, an end that wraps, a segment that is not aligned, a program
\* header cut short, no ELF header, and no file.
AllPrograms ==
    { P(1, <<S(0, 1, 1, TRUE), Note>>),
      P(3, <<S(0, 1, 1, TRUE)>>),
      P(1, <<S(0, 1, 1, TRUE), S(4, 1, 1, TRUE)>>),
      P(1, <<S(0, 1, 1, FALSE)>>),
      P(1, <<S(0, 1, 2, TRUE)>>),
      P(1, <<S(2, 15, 1, TRUE)>>),
      P(1, <<Note, S(1, 1, 1, TRUE)>>),
      P(1, <<S(0, 1, 1, TRUE), Cut>>),
      [exists |-> TRUE, elf |-> FALSE, args |-> 1, segs |-> <<>>],
      [exists |-> FALSE, elf |-> FALSE, args |-> 1, segs |-> <<>>] }

SomeAmounts == {5, -6}
=============================================================================

---------------------------- MODULE MCFileData ------------------------------
(* The image of FileData: one file of two blocks, one inode that is free. *)
EXTENDS FileData, TLC

OneFile == [i \in Inums |-> IF i = 1 THEN 3 ELSE 0]

\* Sound: no property names a process or an open file.
Symmetric == Permutations(Procs) \cup Permutations(Handles)
=============================================================================

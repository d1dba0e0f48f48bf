--------------------------- MODULE MCConsoleInput ---------------------------
(* ConsoleInput for TLC: the readers may be exchanged, as nothing tells them apart. *)
EXTENDS ConsoleInput, TLC

ReaderSymmetry == Permutations(Readers)
=============================================================================

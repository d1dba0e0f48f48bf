------------------------------- MODULE MCPipe -------------------------------
(* An instance of Pipe: who inherits which ends. *)
EXTENDS Pipe

CONSTANTS w1, r1

\* The reader has kept its copy of the write end, like a careless shell.
SharedEnds == [p \in Procs |-> IF p = r1 THEN {"r", "w"} ELSE {"w"}]
=============================================================================

----------------------------- MODULE MCHdcTable -----------------------------
(* Instances of HdcTable: the commands the users of each run type. *)
EXTENDS HdcCanvas, TLC

CONSTANTS p1, p2

OneUser  == {p1}
TwoUsers == {p1, p2}

\* Sound for hdc_shared: it checks no liveness and no property names a process.
Symmetric == Permutations(TwoUsers)

C(mode, op, a, b) == [mode |-> mode, op |-> op, a |-> a, b |-> b]

\* Every operation in both modes, with arguments below, inside and above range.
AllCmds ==
    { C("queue", "line", 9, 0), C("queue", "move", 1, 0), C("queue", "rect", 1, 0),
      C("queue", "pen", 9, 0), C("queue", "pixel", 1, 0), C("queue", "declare", -1, 9),
      C("direct", "line", -1, 0), C("direct", "move", 9, 0), C("direct", "rect", 9, 0),
      C("direct", "pixel", 1, 0), C("direct", "pen", 9, 0),
      C("direct", "declare", 1, 9), C("direct", "declare", 0, 1),
      C("direct", "square", 0, 0) }

\* Two queued commands whose order shows on the screen, and a direct change of
\* the context they start from.
SharedCmds == { C("queue", "line", 9, 0), C("queue", "pen", 1, 0), C("direct", "pen", 0, 0) }

=============================================================================

------------------------------- MODULE MCLog --------------------------------
(* Instances of Log. *)
EXTENDS Log

CONSTANTS p1, p2, b1, b2

TwoProcs  == {p1, p2}
TwoBlocks == {b1, b2}
TwoVals   == {0, 1}
=============================================================================

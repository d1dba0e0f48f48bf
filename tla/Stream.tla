------------------------------- MODULE Stream -------------------------------
(* A bounded first-in first-out stream of bytes: what a pipe promises. *)
EXTENDS Naturals, Sequences

CONSTANTS Bytes,  \* what is sent
          Cap     \* how much is kept

VARIABLES q,      \* bytes sent and not yet received
          out     \* last byte received

Init == q = <<>> /\ out \in Bytes

Put(b) == Len(q) < Cap /\ q' = Append(q, b) /\ UNCHANGED out

Get == q # <<>> /\ out' = Head(q) /\ q' = Tail(q)

Next == Get \/ \E b \in Bytes : Put(b)

Spec == Init /\ [][Next]_<<q, out>>
=============================================================================

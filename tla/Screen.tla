------------------------------- MODULE Screen -------------------------------
(* The text a user is entitled to see: everything printed, in order, as if *)
(* the display had never left text mode.                                   *)
EXTENDS CgaText

VARIABLE page

Init == page = ClearPage
Next == \E c \in Chars : ~OutOfPage(page, c) /\ page' = Putc(page, c)
Spec == Init /\ [][Next]_page
=============================================================================

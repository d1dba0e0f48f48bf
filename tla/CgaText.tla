------------------------------ MODULE CgaText -------------------------------
(***************************************************************************)
(* cgaputc (console.c): what printing one character does to a page of text *)
(* and its cursor.  A page is Rows lines of Cols cells; the last line is   *)
(* never written, the page scrolls when the cursor reaches it.             *)
(***************************************************************************)
EXTENDS Integers

CONSTANTS Cols, Rows,      \* 80 and 25
          Printable        \* characters that are stored in a cell

ASSUME PageAssumption ==
    /\ Cols \in Nat \ {0} /\ Rows \in Nat /\ Rows >= 3
    /\ Printable \cap {"newline", "backspace", "blank", "zero", "noise"} = {}

Chars == Printable \cup {"newline", "backspace"}
Area  == 0..(Rows * Cols - 1)

\* What a cell can show: ' ', the 0 that scrolling leaves, or what graphics
\* left in the video memory.
Glyphs == Printable \cup {"blank", "zero", "noise"}
Pages  == [cells : [Area -> Glyphs], pos : Int]

ClearPage == [cells |-> [k \in Area |-> "zero"], pos |-> 0]

\* Where the cursor goes, and the cell that is written on the way.
Advance(page, c) ==
    CASE c = "newline"   -> [page EXCEPT !.pos = @ + (Cols - (@ % Cols))]
      [] c = "backspace" -> [page EXCEPT !.pos = IF @ > 0 THEN @ - 1 ELSE @]
      [] OTHER           -> [cells |-> [page.cells EXCEPT ![page.pos] = c], pos |-> page.pos + 1]

\* Mutant: the line that scrolls in keeps its old text.
ScrollKeepsTail(page) ==
    IF page.pos \div Cols < Rows - 1 THEN page
    ELSE [cells |-> [k \in Area |-> IF k < (Rows - 2) * Cols THEN page.cells[k + Cols]
                                    ELSE page.cells[k]],
          pos |-> page.pos - Cols]

\* Move all lines up by one and clear from the cursor to the last line.
Scroll(page) ==
    IF page.pos \div Cols < Rows - 1 THEN page
    ELSE LET pos == page.pos - Cols
         IN  [cells |-> [k \in Area |->
                           IF k < (Rows - 2) * Cols THEN page.cells[k + Cols]
                           ELSE IF pos <= k /\ k < (Rows - 1) * Cols THEN "zero"
                           ELSE page.cells[k]],
              pos |-> pos]

\* The panic "pos under/overflow".
OutOfPage(page, c) == LET p == Advance(page, c).pos IN p < 0 \/ p > Rows * Cols

\* The page after printing c.
Putc(page, c) ==
    LET next == Scroll(Advance(page, c))
    IN  [next EXCEPT !.cells[next.pos] = "blank"]
=============================================================================

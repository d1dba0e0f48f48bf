--------------------------- MODULE TerminalProofs ---------------------------
(***************************************************************************)
(* Proofs about Terminal for a screen of any size, any number of printing  *)
(* processes and writes of any length.                                     *)
(*                                                                         *)
(* CursorOnPage needs nothing else: any process may ask for any mode.      *)
(* That the text survives is proved when one process changes modes and     *)
(* asks for modes the driver knows (Ready); otherwise it is false.  It is  *)
(* not inductive, since between Grab and Restore flag, device and buffer   *)
(* disagree.  TInv adds who holds cons.lock, that the mode read before the *)
(* lock is still the current one, and where the text is during a switch.   *)
(***************************************************************************)
EXTENDS Terminal, TLAPS

Modes == Graphics \cup {Text}

\* What the theorems assume of the constants beyond the assumptions of Terminal:
\* a second switcher could act on a mode that is no longer current, and an
\* unknown mode leaves the display as it is but the text in the buffer.
Ready ==
    /\ \A p, q \in Switchers : p = q
    /\ \A m \in Requests : m % 256 \in Modes

WriteLabels  == {"write"}
SwitchLabels == {"vm_grab", "vm_switch", "vm_restore", "vm_unlock"}
Labels == {"user", "vm_lock"} \cup WriteLabels \cup SwitchLabels

TypeOK ==
    /\ hw \in Modes /\ mode \in Modes /\ textdisplayed \in {0, 1}
    /\ crt \in Pages /\ consbuffer \in Pages
    /\ lock \in Procs \cup {NoProc}
    /\ pc \in [Procs -> Labels]
    /\ req \in [Procs -> Int] /\ seen \in [Procs -> Int] /\ left \in [Procs -> Nat]

\* cons.lock is held by whoever is inside, and only a switcher changes modes.
LockInv ==
    \A p \in Procs :
        /\ pc[p] \in WriteLabels \cup SwitchLabels <=> lock = p
        /\ pc[p] \in {"vm_lock"} \cup SwitchLabels => p \in Switchers

\* Somebody is between grabscreentobuffer and outputbuffertoscreen.
Switching == \E p \in Procs : pc[p] \in {"vm_switch", "vm_restore"}

\* How the flag, the device and the locals of videosetmode go together.
ModeInv ==
    /\ mode = hw
    /\ ~Switching => (textdisplayed = 1 <=> hw = Text)
    /\ \A p \in Procs :
        /\ pc[p] \in {"vm_lock", "vm_grab"} => seen[p] = mode
        /\ pc[p] \in {"vm_lock", "vm_grab", "vm_switch"} => req[p] \in Modes
        /\ pc[p] \in {"vm_switch", "vm_restore"} => textdisplayed = 0
        /\ pc[p] = "vm_restore" => hw = Text

-----------------------------------------------------------------------------
(* cgaputc *)

\* The cursor is above the last line and nothing is left over from it on.
Intact(page) ==
    /\ page.pos \in 0..((Rows - 1) * Cols - 1)
    /\ \A k \in Area : k >= page.pos => page.cells[k] \in {"blank", "zero"}

\* The panic never happens and the text is intact, wherever it is.
PageInv == panicked = FALSE /\ Intact(TextPage)

TInv == TypeOK /\ LockInv /\ ModeInv /\ PageInv

\* Division of a position by the line length.
LEMMA Lines ==
    ASSUME NEW pos \in Nat
    PROVE  /\ pos % Cols \in 0..(Cols - 1)
           /\ pos \div Cols \in Nat
           /\ pos = Cols * (pos \div Cols) + (pos % Cols)
BY PageAssumption

\* The sizes that the bounds of cgaputc compare.
LEMMA Sizes ==
    /\ Rows * Cols \in Nat /\ (Rows - 1) * Cols \in Nat /\ (Rows - 2) * Cols \in Nat
    /\ (Rows - 2) * Cols + Cols = (Rows - 1) * Cols
    /\ (Rows - 1) * Cols + Cols = Rows * Cols
    /\ (Rows - 2) * Cols >= Cols
BY PageAssumption

\* Whether the cursor has reached the last line.
LEMMA LastLine ==
    ASSUME NEW pos \in Nat
    PROVE  pos \div Cols < Rows - 1 <=> pos < (Rows - 1) * Cols
BY Lines, Sizes, PageAssumption

\* Where the cursor may be: above the last line.
Above(page) == page.pos \in 0..((Rows - 1) * Cols - 1)

\* Whatever the cells hold, printing never runs into the panic and leaves the
\* cursor above the last line.
LEMMA PutcAbove ==
    ASSUME NEW page \in Pages, Above(page), NEW c \in Chars
    PROVE  /\ ~OutOfPage(page, c)
           /\ Putc(page, c) \in Pages
           /\ Above(Putc(page, c))
<1> DEFINE next == Advance(page, c)
           last == (Rows - 1) * Cols
<1>0. /\ page.pos \in Nat /\ page.pos < last /\ page.cells \in [Area -> Glyphs]
      /\ page = [cells |-> page.cells, pos |-> page.pos]
  BY Sizes DEF Above, Pages
<1>1. next \in Pages /\ next.pos \in Nat /\ next.pos <= last
  <2> HIDE DEF next
  <2>1. CASE c = "newline"
    <3> DEFINE q == page.pos + (Cols - (page.pos % Cols))
    <3>1. next = [cells |-> page.cells, pos |-> q]
      BY <1>0, <2>1 DEF Advance, next
    <3>2. q \in Nat /\ q <= last
      <4> DEFINE line == page.pos \div Cols
      <4>1. line \in Nat /\ line < Rows - 1
        BY <1>0, Lines, LastLine
      <4>2. q = Cols * (line + 1)
        BY <1>0, Lines, <4>1, PageAssumption
      <4>3. Cols * (line + 1) <= Cols * (Rows - 1) /\ Cols * (line + 1) \in Nat
        BY <4>1, PageAssumption
      <4> QED
        BY <4>2, <4>3, PageAssumption
    <3> HIDE DEF q
    <3> QED
      BY <1>0, <3>1, <3>2 DEF Pages
  <2>2. CASE c = "backspace"
    <3> DEFINE q == IF page.pos > 0 THEN page.pos - 1 ELSE page.pos
    <3>1. next = [cells |-> page.cells, pos |-> q]
      BY <1>0, <2>2 DEF Advance, next
    <3>2. q \in Nat /\ q <= last
      BY <1>0, Sizes
    <3> HIDE DEF q
    <3> QED
      BY <1>0, <3>1, <3>2 DEF Pages
  <2>3. CASE c \in Printable
    <3> DEFINE cells == [page.cells EXCEPT ![page.pos] = c]
    <3>1. next = [cells |-> cells, pos |-> page.pos + 1]
      BY <2>3, PageAssumption DEF Advance, next
    <3>2. cells \in [Area -> Glyphs]
      BY <1>0, <2>3 DEF Glyphs
    <3> HIDE DEF cells
    <3> QED
      BY <1>0, <3>1, <3>2, Sizes DEF Pages
  <2> QED
    BY <2>1, <2>2, <2>3 DEF Chars
<1>2. ~OutOfPage(page, c)
  BY <1>1, Sizes, PageAssumption DEF OutOfPage
<1> DEFINE moved == Scroll(next)
<1>3. moved \in Pages /\ moved.pos \in 0..(last - 1)
  <2>0. /\ next = [cells |-> next.cells, pos |-> next.pos] /\ next.cells \in [Area -> Glyphs]
        /\ next.pos \div Cols < Rows - 1 <=> next.pos < last
    BY <1>1, LastLine DEF Pages
  <2>1. CASE next.pos < last
    <3>1. moved = next
      BY <2>0, <2>1 DEF Scroll
    <3> QED
      BY <1>1, <2>1, <3>1, Sizes
  <2>2. CASE next.pos = last
    <3> DEFINE pos == next.pos - Cols
               tail == (Rows - 2) * Cols
               cells == [k \in Area |-> IF k < tail THEN next.cells[k + Cols]
                                        ELSE IF pos <= k /\ k < last THEN "zero" ELSE next.cells[k]]
    <3>1. moved = [cells |-> cells, pos |-> pos]
      BY <2>0, <2>2, Sizes DEF Scroll
    <3>2. pos \in 0..(last - 1)
      BY <2>2, Sizes, PageAssumption
    <3>3. cells \in [Area -> Glyphs]
      <4>1. \A k \in Area : k < tail => k + Cols \in Area
        BY Sizes, PageAssumption DEF Area
      <4> QED
        BY <2>0, <4>1 DEF Glyphs
    <3> HIDE DEF cells, pos
    <3> QED
      BY <3>1, <3>2, <3>3 DEF Pages
  <2> QED
    BY <1>1, <2>1, <2>2, Sizes
<1> HIDE DEF moved, next
<1>4. Putc(page, c) = [moved EXCEPT !.cells[moved.pos] = "blank"]
  BY DEF Putc, moved, next
<1>5. Putc(page, c) = [cells |-> [moved.cells EXCEPT ![moved.pos] = "blank"], pos |-> moved.pos]
  BY <1>3, <1>4 DEF Pages
<1>6. [moved.cells EXCEPT ![moved.pos] = "blank"] \in [Area -> Glyphs]
  BY <1>3 DEF Pages, Glyphs
<1> QED
  BY <1>2, <1>3, <1>5, <1>6 DEF Pages, Above

\* Printing on an intact page never runs into the panic, and leaves an intact
\* page of glyphs.
LEMMA PutcIntact ==
    ASSUME NEW page \in Pages, Intact(page), NEW c \in Chars
    PROVE  /\ ~OutOfPage(page, c)
           /\ Putc(page, c) \in Pages
           /\ Intact(Putc(page, c))
<1> DEFINE next == Advance(page, c)
           last == (Rows - 1) * Cols
<1>0. /\ page.pos \in Nat /\ page.pos < last /\ page.cells \in [Area -> Glyphs]
      /\ page = [cells |-> page.cells, pos |-> page.pos]
      /\ \A k \in Area : k >= page.pos => page.cells[k] \in {"blank", "zero"}
  BY Sizes DEF Intact, Pages
<1>1. /\ next \in Pages
      /\ next.pos \in Nat /\ next.pos <= last
      /\ \A k \in Area : k > next.pos => next.cells[k] \in {"blank", "zero"}
      /\ next.pos = last => \A k \in Area : k >= next.pos => next.cells[k] \in {"blank", "zero"}
  <2> HIDE DEF next
  <2>1. CASE c = "newline"
    <3> DEFINE r == page.pos % Cols
               q == page.pos + (Cols - r)
    <3>1. next = [cells |-> page.cells, pos |-> q]
      BY <1>0, <2>1 DEF Advance, next
    <3>2. r \in 0..(Cols - 1)
      BY <1>0, Lines
    <3>3. q <= last
      <4> DEFINE line == page.pos \div Cols
      <4>1. line \in Nat /\ line < Rows - 1
        BY <1>0, Lines, LastLine
      <4>2. q = Cols * (line + 1)
        BY <1>0, Lines, <4>1, PageAssumption
      <4>3. Cols * (line + 1) <= Cols * (Rows - 1)
        BY <4>1, PageAssumption
      <4> QED
        BY <4>2, <4>3, PageAssumption
    <3> HIDE DEF r
    <3>4. q \in Nat /\ q > page.pos
      BY <1>0, <3>2, PageAssumption
    <3> HIDE DEF q
    <3>5. \A k \in Area : k >= q => k >= page.pos
      BY <1>0, <3>4 DEF Area
    <3>6. \A k \in Area : k >= q => page.cells[k] \in {"blank", "zero"}
      BY <1>0, <3>5
    <3>7. \A k \in Area : k > q => k >= q
      BY <3>4 DEF Area
    <3>8. next \in Pages
      BY <1>0, <3>1, <3>4 DEF Pages
    <3> QED
      BY <3>1, <3>3, <3>4, <3>6, <3>7, <3>8
  <2>2. CASE c = "backspace"
    <3> DEFINE q == IF page.pos > 0 THEN page.pos - 1 ELSE page.pos
    <3>1. next = [cells |-> page.cells, pos |-> q]
      BY <1>0, <2>2 DEF Advance, next
    <3>2. q \in Nat /\ q < last /\ q >= page.pos - 1
      BY <1>0, Sizes
    <3> HIDE DEF q
    <3>3. \A k \in Area : k > q => page.cells[k] \in {"blank", "zero"}
      BY <1>0, <3>2 DEF Area
    <3>4. next \in Pages
      BY <1>0, <3>1, <3>2 DEF Pages
    <3> QED
      BY <3>1, <3>2, <3>3, <3>4, Sizes
  <2>3. CASE c \in Printable
    <3> DEFINE cells == [page.cells EXCEPT ![page.pos] = c]
    <3>1. next = [cells |-> cells, pos |-> page.pos + 1]
      BY <2>3, PageAssumption DEF Advance, next
    <3>2. cells \in [Area -> Glyphs]
      BY <1>0, <2>3 DEF Glyphs
    <3>3. \A k \in Area : k >= page.pos + 1 => cells[k] \in {"blank", "zero"}
      BY <1>0 DEF Area
    <3> HIDE DEF cells
    <3>4. next \in Pages
      BY <1>0, <3>1, <3>2 DEF Pages
    <3>5. \A k \in Area : k > page.pos + 1 => k >= page.pos + 1
      BY <1>0 DEF Area
    <3> QED
      BY <1>0, <3>1, <3>3, <3>4, <3>5, Sizes
  <2> QED
    BY <2>1, <2>2, <2>3 DEF Chars
<1>2. ~OutOfPage(page, c)
  BY <1>1, Sizes, PageAssumption DEF OutOfPage
<1> DEFINE moved == Scroll(next)
<1>3. /\ moved \in Pages
      /\ moved.pos \in 0..(last - 1)
      /\ \A k \in Area : k > moved.pos => moved.cells[k] \in {"blank", "zero"}
  <2>0. /\ next = [cells |-> next.cells, pos |-> next.pos] /\ next.cells \in [Area -> Glyphs]
        /\ next.pos \div Cols < Rows - 1 <=> next.pos < last
    BY <1>1, LastLine DEF Pages
  <2>1. CASE next.pos < last
    <3>1. moved = next
      BY <2>0, <2>1 DEF Scroll
    <3> QED
      BY <1>1, <2>1, <3>1, Sizes
  <2>2. CASE next.pos = last
    <3> DEFINE pos == next.pos - Cols
               tail == (Rows - 2) * Cols
               cells == [k \in Area |-> IF k < tail THEN next.cells[k + Cols]
                                        ELSE IF pos <= k /\ k < last THEN "zero" ELSE next.cells[k]]
    <3>1. moved = [cells |-> cells, pos |-> pos]
      BY <2>0, <2>2, Sizes DEF Scroll
    <3>2. pos = tail /\ pos \in 0..(last - 1)
      BY <2>2, Sizes, PageAssumption
    <3>3. cells \in [Area -> Glyphs]
      <4>1. \A k \in Area : k < tail => k + Cols \in Area
        BY Sizes, PageAssumption DEF Area
      <4> QED
        BY <2>0, <4>1 DEF Glyphs
    <3>4. \A k \in Area : k > pos => cells[k] \in {"blank", "zero"}
      <4> TAKE k \in Area
      <4> HAVE k > pos
      <4>1. k \in Nat /\ (k < tail) = FALSE
        BY <3>2, Sizes DEF Area
      <4>2. CASE k < last
        BY <3>2, <4>1, <4>2
      <4>3. CASE ~(k < last)
        <5>1. k >= next.pos
          BY <2>2, <4>1, <4>3, Sizes
        <5> QED
          BY <1>1, <2>2, <4>1, <4>3, <5>1
      <4> QED
        BY <4>2, <4>3
    <3> HIDE DEF cells, pos
    <3> QED
      BY <3>1, <3>2, <3>3, <3>4 DEF Pages, pos
  <2> QED
    BY <1>1, <2>1, <2>2, Sizes
<1> HIDE DEF moved, next
<1>4. Putc(page, c) = [moved EXCEPT !.cells[moved.pos] = "blank"]
  BY DEF Putc, moved, next
<1>5. Putc(page, c) = [cells |-> [moved.cells EXCEPT ![moved.pos] = "blank"], pos |-> moved.pos]
  BY <1>3, <1>4 DEF Pages
<1>6. [moved.cells EXCEPT ![moved.pos] = "blank"] \in [Area -> Glyphs]
  BY <1>3 DEF Pages, Glyphs
<1>7. moved.pos \in Area
  BY <1>3, Sizes, PageAssumption DEF Area
<1>8. Putc(page, c) \in Pages
  BY <1>3, <1>5, <1>6 DEF Pages
<1>9. ASSUME NEW k \in Area, k >= moved.pos
      PROVE  [moved.cells EXCEPT ![moved.pos] = "blank"][k] \in {"blank", "zero"}
  <2>1. k = moved.pos \/ k > moved.pos
    BY <1>3, <1>7, <1>9 DEF Area
  <2> QED
    BY <1>3, <1>7, <2>1 DEF Pages
<1> QED
  BY <1>2, <1>3, <1>5, <1>8, <1>9 DEF Intact

-----------------------------------------------------------------------------
(* The invariant *)

\* The cleared screen is an intact page.
LEMMA ClearIntact == ClearPage \in Pages /\ Intact(ClearPage)
<1>1. ClearPage.pos = 0 /\ \A k \in Area : ClearPage.cells[k] = "zero"
  BY DEF ClearPage
<1>2. 0 \in 0..((Rows - 1) * Cols - 1)
  BY Sizes, PageAssumption
<1>3. ClearPage \in Pages
  BY DEF ClearPage, Pages, Glyphs
<1> QED
  BY <1>1, <1>2, <1>3 DEF Intact

LEMMA InitInv ==
    ASSUME Init
    PROVE  TInv
<1> USE TerminalAssumption DEF Init
<1>1. TypeOK
  BY ClearIntact DEF TypeOK, Modes, Labels
<1>2. LockInv
  BY DEF LockInv, WriteLabels, SwitchLabels
<1>3. ModeInv
  BY DEF ModeInv, Switching
<1>4. PageInv
  BY ClearIntact DEF PageInv, TextPage
<1> QED
  BY <1>1, <1>2, <1>3, <1>4 DEF TInv

\* consolewrite takes the lock.
LEMMA StartWriteInv ==
    ASSUME TInv, NEW p \in Procs, NEW len \in 1..MaxWrite, StartWrite(p, len)
    PROVE  TInv' /\ UNCHANGED TextPage
<1> USE TerminalAssumption DEF TInv, StartWrite, At, Goto
<1>1. TypeOK'
  BY DEF TypeOK, Labels, WriteLabels
<1>2. LockInv'
  BY DEF LockInv, TypeOK, WriteLabels, SwitchLabels
<1>3. ModeInv'
  BY DEF ModeInv, Switching, TypeOK
<1>4. PageInv' /\ UNCHANGED TextPage
  BY DEF PageInv, TextPage
<1> QED
  BY <1>1, <1>2, <1>3, <1>4

\* A character goes where the text is: the panic does not happen, and the page
\* becomes the one that printing makes of it.
LEMMA PutCharInv ==
    ASSUME TInv, NEW p \in Procs, NEW c \in Chars, PutChar(p, c)
    PROVE  TInv' /\ ~OutOfPage(TextPage, c) /\ TextPage' = Putc(TextPage, c)
<1> USE TerminalAssumption DEF TInv, PutChar, At
<1>1. \A q \in Procs : q # p => pc[q] \notin SwitchLabels
  BY DEF LockInv, WriteLabels, TypeOK
<1>2. ~Switching
  BY <1>1 DEF Switching, SwitchLabels
<1>3. textdisplayed = 1 => hw = Text
  BY <1>2 DEF ModeInv
<1>4. crt \in Pages /\ consbuffer \in Pages /\ textdisplayed \in {0, 1}
  BY DEF TypeOK
<1>5. textdisplayed = 1 => ReadCrt = crt /\ \A page \in Pages : WriteCrt(page) = page
  BY <1>3, <1>4 DEF ReadCrt, WriteCrt, Pages
<1>6. CurrentPage = TextPage /\ TextPage \in Pages
  BY <1>4, <1>5 DEF CurrentPage, TextPage
<1>7. /\ ~OutOfPage(TextPage, c)
      /\ Putc(TextPage, c) \in Pages
      /\ Intact(Putc(TextPage, c))
  BY <1>6, PutcIntact DEF PageInv
<1>8. /\ panicked' = FALSE
      /\ crt' = IF textdisplayed = 1 THEN Putc(TextPage, c) ELSE crt
      /\ consbuffer' = IF textdisplayed = 1 THEN consbuffer ELSE Putc(TextPage, c)
  BY <1>5, <1>6, <1>7 DEF Consputc, PageInv
<1>9. TextPage' = Putc(TextPage, c)
  BY <1>8 DEF TextPage
<1>10. TypeOK'
  <2>1. left' \in [Procs -> Nat]
    BY DEF TypeOK
  <2> QED
    BY <1>4, <1>7, <1>8, <2>1 DEF TypeOK
<1>11. LockInv' /\ ModeInv'
  BY DEF LockInv, ModeInv, Switching
<1>12. PageInv'
  BY <1>7, <1>8, <1>9 DEF PageInv, Intact
<1> QED
  BY <1>7, <1>9, <1>10, <1>11, <1>12

\* consolewrite gives the lock back.
LEMMA EndWriteInv ==
    ASSUME TInv, NEW p \in Procs, EndWrite(p)
    PROVE  TInv' /\ UNCHANGED TextPage
<1> USE TerminalAssumption DEF TInv, EndWrite, At, Goto
<1>1. TypeOK'
  BY DEF TypeOK, Labels
<1>2. LockInv'
  BY DEF LockInv, TypeOK, WriteLabels, SwitchLabels
<1>3. ModeInv'
  BY DEF ModeInv, Switching, TypeOK
<1>4. PageInv' /\ UNCHANGED TextPage
  BY DEF PageInv, TextPage
<1> QED
  BY <1>1, <1>2, <1>3, <1>4

\* videosetmode looks at the current mode before it takes the lock.
LEMMA SetVideoModeInv ==
    ASSUME TInv, Ready, NEW p \in Procs, NEW m \in Requests, SetVideoMode(p, m)
    PROVE  TInv' /\ UNCHANGED TextPage
<1> USE TerminalAssumption DEF TInv, SetVideoMode, At, Goto
<1>0. m % 256 \in Modes /\ m % 256 \in Int /\ mode \in Int
  BY DEF Ready, Modes, Graphics, Text, TypeOK
<1>1. TypeOK'
  BY <1>0 DEF TypeOK, Labels
<1>2. LockInv'
  BY DEF LockInv, TypeOK, WriteLabels, SwitchLabels
<1>3. ModeInv'
  BY <1>0 DEF ModeInv, Switching, TypeOK
<1>4. PageInv' /\ UNCHANGED TextPage
  BY DEF PageInv, TextPage
<1> QED
  BY <1>1, <1>2, <1>3, <1>4

\* The mode that was seen is still the current one when the lock is taken.
LEMMA ModeLockInv ==
    ASSUME TInv, NEW p \in Procs, ModeLock(p)
    PROVE  TInv' /\ UNCHANGED TextPage
<1> USE TerminalAssumption DEF TInv, ModeLock, At, Goto
<1>1. TypeOK'
  BY DEF TypeOK, Labels, SwitchLabels
<1>2. LockInv'
  BY DEF LockInv, TypeOK, WriteLabels, SwitchLabels
<1>3. ModeInv'
  BY DEF ModeInv, Switching, TypeOK
<1>4. PageInv' /\ UNCHANGED TextPage
  BY DEF PageInv, TextPage
<1> QED
  BY <1>1, <1>2, <1>3, <1>4

\* The text moves to the buffer unchanged.
LEMMA GrabInv ==
    ASSUME TInv, NEW p \in Procs, Grab(p)
    PROVE  TInv' /\ UNCHANGED TextPage
<1> USE TerminalAssumption DEF TInv, Grab, At, Goto
<1>0. \A q \in Procs : q # p => pc[q] \notin SwitchLabels
  BY DEF LockInv, SwitchLabels, TypeOK
<1>1. ~Switching /\ seen[p] = hw /\ (textdisplayed = 1 <=> hw = Text)
  BY <1>0 DEF Switching, SwitchLabels, ModeInv
<1>2. ReadCrt = IF hw = Text THEN crt ELSE ReadCrt
  BY DEF ReadCrt, TypeOK, Pages
<1>3. /\ textdisplayed' = 0
      /\ consbuffer' = IF hw = Text THEN crt ELSE consbuffer
  BY <1>1, <1>2 DEF TypeOK
<1>4. TypeOK'
  BY <1>3 DEF TypeOK, Labels, SwitchLabels
<1>5. LockInv'
  BY DEF LockInv, TypeOK, WriteLabels, SwitchLabels
<1>6. ModeInv'
  BY <1>3 DEF ModeInv, Switching, TypeOK
<1>7. UNCHANGED TextPage
  BY <1>1, <1>3 DEF TextPage
<1>8. PageInv'
  BY <1>7 DEF PageInv, Intact
<1> QED
  BY <1>4, <1>5, <1>6, <1>7, <1>8

\* The device changes under the text in the buffer; no other switcher is about.
LEMMA SwitchInv ==
    ASSUME TInv, Ready, NEW p \in Procs, Switch(p)
    PROVE  TInv' /\ UNCHANGED TextPage
<1> USE TerminalAssumption DEF TInv, Switch, At, Goto
<1>0. /\ textdisplayed = 0 /\ req[p] \in Modes
      /\ \A q \in Procs : q # p => pc[q] \notin {"vm_lock"} \cup SwitchLabels
  BY DEF ModeInv, LockInv, SwitchLabels, Ready
<1>1. hw' = req[p] /\ mode' = req[p]
  BY <1>0 DEF Modes
<1>2. crt' \in Pages
  <2>1. [crt EXCEPT !.pos = Cols] \in Pages
    BY PageAssumption DEF TypeOK, Pages
  <2>2. [cells |-> Noise, pos |-> 0] \in Pages
    BY DEF Noise, Pages, Glyphs
  <2> QED
    BY <1>0, <2>1, <2>2 DEF Modes
<1>3. TypeOK'
  BY <1>0, <1>1, <1>2 DEF TypeOK, Labels, SwitchLabels
<1>4. LockInv'
  BY DEF LockInv, TypeOK, WriteLabels, SwitchLabels
<1>5. ModeInv'
  <2>1. CASE req[p] = Text
    <3>1. pc'[p] = "vm_restore" /\ \A q \in Procs : q # p => pc'[q] = pc[q]
      BY <2>1 DEF TypeOK, Graphics, Text
    <3> QED
      BY <1>0, <1>1, <2>1, <3>1 DEF ModeInv, Switching, SwitchLabels
  <2>2. CASE req[p] \in Graphics
    <3>1. pc'[p] = "vm_unlock" /\ \A q \in Procs : q # p => pc'[q] = pc[q]
      BY <2>2 DEF TypeOK, Graphics, Text
    <3>2. req[p] # Text
      BY <2>2 DEF Graphics, Text
    <3> QED
      BY <1>0, <1>1, <2>2, <3>1, <3>2 DEF ModeInv, Switching, SwitchLabels
  <2> QED
    BY <1>0, <2>1, <2>2 DEF Modes
<1>6. UNCHANGED TextPage
  BY <1>0 DEF TextPage
<1>7. PageInv'
  BY <1>6 DEF PageInv, Intact
<1> QED
  BY <1>3, <1>4, <1>5, <1>6, <1>7

\* The text moves back to the screen unchanged.
LEMMA RestoreInv ==
    ASSUME TInv, Ready, NEW p \in Procs, Restore(p)
    PROVE  TInv' /\ UNCHANGED TextPage
<1> USE TerminalAssumption DEF TInv, Restore, At, Goto
<1>0. /\ textdisplayed = 0 /\ hw = Text
      /\ \A q \in Procs : q # p => pc[q] \notin {"vm_lock"} \cup SwitchLabels
  BY DEF ModeInv, LockInv, SwitchLabels, Ready
<1>1. TypeOK'
  BY DEF TypeOK, Labels, SwitchLabels
<1>2. LockInv'
  BY DEF LockInv, TypeOK, WriteLabels, SwitchLabels
<1>3. ModeInv'
  BY <1>0 DEF ModeInv, Switching, SwitchLabels, TypeOK
<1>4. UNCHANGED TextPage
  BY <1>0 DEF TextPage
<1>5. PageInv'
  BY <1>4 DEF PageInv, Intact
<1> QED
  BY <1>1, <1>2, <1>3, <1>4, <1>5

\* videosetmode gives the lock back.
LEMMA ModeUnlockInv ==
    ASSUME TInv, NEW p \in Procs, ModeUnlock(p)
    PROVE  TInv' /\ UNCHANGED TextPage
<1> USE TerminalAssumption DEF TInv, ModeUnlock, At, Goto
<1>1. TypeOK'
  BY DEF TypeOK, Labels
<1>2. LockInv'
  BY DEF LockInv, TypeOK, WriteLabels, SwitchLabels
<1>3. ModeInv'
  BY DEF ModeInv, Switching, TypeOK
<1>4. PageInv' /\ UNCHANGED TextPage
  BY DEF PageInv, TextPage
<1> QED
  BY <1>1, <1>2, <1>3, <1>4

\* Every step keeps the invariant, and changes the text only by printing.
LEMMA NextInv ==
    ASSUME TInv, Ready, [Next]_vars
    PROVE  TInv' /\ [Shown!Next]_TextPage
<1>1. ASSUME NEW p \in Procs, NEW c \in Chars, PutChar(p, c)
      PROVE  TInv' /\ [Shown!Next]_TextPage
  <2>1. TInv' /\ ~OutOfPage(TextPage, c) /\ TextPage' = Putc(TextPage, c)
    BY <1>1, PutCharInv
  <2>2. c \in Shown!Chars /\ Shown!OutOfPage(TextPage, c) = OutOfPage(TextPage, c)
    BY DEF Chars, Shown!Chars, OutOfPage, Shown!OutOfPage, Advance, Shown!Advance
  <2>3. Shown!Putc(TextPage, c) = Putc(TextPage, c)
    BY DEF Putc, Shown!Putc, Scroll, Shown!Scroll, Advance, Shown!Advance, Area, Shown!Area
  <2> QED
    BY <2>1, <2>2, <2>3 DEF Shown!Next
<1>2. ASSUME NEW p \in Procs, Output(p)
      PROVE  TInv' /\ [Shown!Next]_TextPage
  BY <1>1, <1>2, StartWriteInv, EndWriteInv DEF Output
<1>3. ASSUME NEW p \in Procs, Videosetmode(p)
      PROVE  TInv' /\ UNCHANGED TextPage
  BY <1>3, SetVideoModeInv, ModeLockInv, GrabInv, SwitchInv, RestoreInv, ModeUnlockInv DEF Videosetmode
<1>4. ASSUME UNCHANGED vars
      PROVE  TInv' /\ UNCHANGED TextPage
  BY <1>4 DEF vars, TInv, TypeOK, LockInv, ModeInv, Switching, PageInv, Intact, TextPage
<1> QED
  BY <1>2, <1>3, <1>4 DEF Next

-----------------------------------------------------------------------------
(* Any process, any mode *)

\* cgaputc has not panicked, and the cursor of the hardware and the one put aside
\* in consbuffer are both above the last line.
CursorOnPage == ~panicked /\ Above(crt) /\ Above(consbuffer)

CInv == TypeOK /\ panicked = FALSE /\ Above(crt) /\ Above(consbuffer)

LEMMA CursorInit == Init => CInv
<1>1. ClearPage \in Pages /\ Above(ClearPage)
  BY ClearIntact DEF Intact, Above
<1> QED
  BY <1>1 DEF Init, CInv, TypeOK, Modes, Labels, Text

LEMMA CursorNext ==
    ASSUME CInv, [Next]_vars
    PROVE  CInv'
<1> USE DEF CInv
<1>0. Noise \in [Area -> Glyphs]
  BY DEF Noise, Glyphs
<1>1. ReadCrt \in Pages /\ Above(ReadCrt)
  BY <1>0 DEF ReadCrt, TypeOK, Pages, Above
<1>2. \A page \in Pages : Above(page) => WriteCrt(page) \in Pages /\ Above(WriteCrt(page))
  BY DEF WriteCrt, TypeOK, Pages, Above
<1>3. ASSUME NEW p \in Procs, Output(p)
      PROVE  CInv'
  <2>1. ASSUME NEW len \in 1..MaxWrite, StartWrite(p, len)
        PROVE  CInv'
    BY <2>1, TerminalAssumption DEF StartWrite, Goto, TypeOK, Labels, WriteLabels, Above
  <2>2. ASSUME NEW c \in Chars, PutChar(p, c)
        PROVE  CInv'
    <3>1. CurrentPage \in Pages /\ Above(CurrentPage)
      BY <1>1 DEF CurrentPage, TypeOK
    <3>2. ~OutOfPage(CurrentPage, c) /\ Putc(CurrentPage, c) \in Pages /\ Above(Putc(CurrentPage, c))
      BY <3>1, PutcAbove
    <3>3. /\ UNCHANGED <<hw, mode, textdisplayed, lock, pc, req, seen, panicked>>
          /\ left[p] > 0 /\ left' = [left EXCEPT ![p] = @ - 1]
          /\ \/ crt' = WriteCrt(Putc(CurrentPage, c)) /\ UNCHANGED consbuffer
             \/ consbuffer' = Putc(CurrentPage, c) /\ UNCHANGED crt
      BY <2>2, <3>2 DEF PutChar, Consputc
    <3>4. left' \in [Procs -> Nat]
      BY <3>3 DEF TypeOK
    <3>5. crt' \in Pages /\ consbuffer' \in Pages /\ Above(crt') /\ Above(consbuffer')
      BY <1>2, <3>2, <3>3 DEF TypeOK
    <3> QED
      BY <3>3, <3>4, <3>5 DEF TypeOK, Above
  <2>3. CASE EndWrite(p)
    BY <2>3 DEF EndWrite, Goto, TypeOK, Labels, Above
  <2> QED
    BY <1>3, <2>1, <2>2, <2>3 DEF Output
<1>4. ASSUME NEW p \in Procs, Videosetmode(p)
      PROVE  CInv'
  <2>1. ASSUME NEW m \in Requests, SetVideoMode(p, m)
        PROVE  CInv'
    <3>1. m % 256 \in Int /\ mode \in Int
      BY TerminalAssumption DEF TypeOK, Modes, Graphics, Text
    <3> QED
      BY <2>1, <3>1 DEF SetVideoMode, Goto, TypeOK, Labels, Above
  <2>2. CASE ModeLock(p)
    BY <2>2 DEF ModeLock, Goto, TypeOK, Labels, SwitchLabels, Above
  <2>3. CASE Grab(p)
    BY <1>1, <2>3 DEF Grab, Goto, TypeOK, Labels, SwitchLabels, Above
  <2>4. CASE Switch(p)
    <3>1. Cols \in 0..((Rows - 1) * Cols - 1) /\ 0 \in 0..((Rows - 1) * Cols - 1)
      BY Sizes, PageAssumption
    <3>2. crt' \in Pages /\ Above(crt')
      BY <1>0, <2>4, <3>1 DEF Switch, TypeOK, Pages, Above
    <3>3. hw' \in Modes /\ mode' \in Modes /\ pc' \in [Procs -> Labels]
      BY <2>4 DEF Switch, Goto, TypeOK, Modes, Labels, SwitchLabels
    <3> QED
      BY <2>4, <3>2, <3>3 DEF Switch, TypeOK, Above
  <2>5. CASE Restore(p)
    BY <2>5 DEF Restore, Goto, TypeOK, Labels, SwitchLabels, Above
  <2>6. CASE ModeUnlock(p)
    BY <2>6 DEF ModeUnlock, Goto, TypeOK, Labels, Above
  <2> QED
    BY <1>4, <2>1, <2>2, <2>3, <2>4, <2>5, <2>6 DEF Videosetmode
<1>5. CASE UNCHANGED vars
  BY <1>5 DEF vars, TypeOK, Above
<1> QED
  BY <1>3, <1>4, <1>5 DEF Next

-----------------------------------------------------------------------------
(* Theorems *)

\* The inductive invariant holds in every state.
LEMMA Invariance ==
    ASSUME Ready
    PROVE  Spec => []TInv
<1>1. Init => TInv
  BY InitInv
<1>2. TInv /\ [Next]_vars => TInv'
  BY NextInv
<1> QED
  BY <1>1, <1>2, PTL DEF Spec

\* However many processes change modes and whatever they ask for, modes the driver
\* does not know included, no cursor leaves the page and cgaputc never panics.
THEOREM CursorStays == Spec => []CursorOnPage
<1>1. CInv => CursorOnPage
  BY DEF CInv, CursorOnPage
<1> QED
  BY <1>1, CursorInit, CursorNext, PTL DEF Spec

\* cgaputc never panics and the text behind the cursor is always blank, on the
\* screen and in the buffer.
THEOREM NoCursorPanic ==
    ASSUME Ready
    PROVE  Spec => []PageIntact
<1>1. TInv => PageIntact
  BY DEF TInv, PageInv, Intact, PageIntact, Area
<1> QED
  BY <1>1, Invariance, PTL

\* No sequence of mode changes loses, repeats or moves a character: the console
\* implements a screen that never leaves text mode.
THEOREM TextSurvives ==
    ASSUME Ready
    PROVE  Spec => KeepsText
<1>1. Init => Shown!Init
  BY DEF Init, Shown!Init, TextPage, ClearPage, Shown!ClearPage, Area, Shown!Area
<1>2. TInv /\ [Next]_vars => [Shown!Next]_TextPage
  BY NextInv
<1> QED
  BY <1>1, <1>2, Invariance, PTL DEF Spec, KeepsText, Shown!Spec
=============================================================================

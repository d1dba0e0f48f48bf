------------------------------ MODULE Terminal ------------------------------
(***************************************************************************)
(* The display: console output (console.c) and video modes (vga.c).        *)
(*                                                                         *)
(* Text is printed under cons.lock into the video memory, or into          *)
(* consbuffer while textdisplayed is 0.  setvideomode decides what to do   *)
(* from a mode it reads before it takes the lock.                          *)
(*                                                                         *)
(* The VGA device is external: in a graphics mode the text memory at       *)
(* 0xb8000 is not mapped, so reads give noise and writes are lost, and     *)
(* loading the registers of a mode sets the cursor to that table's value.  *)
(* Register values and the font are left out.                              *)
(***************************************************************************)
EXTENDS CgaText

CONSTANTS
    Procs,      \* processes (or interrupt handlers) that print
    NoProc,     \* nobody holds cons.lock
    Switchers,  \* processes that call setvideomode
    Requests,   \* the modes they ask for
    MaxWrite    \* bound: characters of one write

Text == 3       \* 0x03
Graphics == {18, 19}  \* 0x12, 0x13

ASSUME TerminalAssumption ==
    /\ NoProc \notin Procs /\ Switchers \subseteq Procs
    /\ Requests \subseteq Nat /\ MaxWrite \in Nat

VARIABLES
    hw,             \* mode the device is in
    crt,            \* text memory and hardware cursor
    mode,           \* currentVideoMode
    textdisplayed,  \* static int textdisplayed
    consbuffer,     \* static struct consbuffer
    lock,           \* holder of cons.lock
    panicked,
    pc,             \* what each process is executing
    req, seen,      \* videosetmode's argument and its local currentmode
    left            \* characters a write has left

vars == <<hw, crt, mode, textdisplayed, consbuffer, lock, panicked, pc, req, seen, left>>

At(p, label) == ~panicked /\ pc[p] = label
Goto(p, label) == pc' = [pc EXCEPT ![p] = label]

Noise == [k \in Area |-> "noise"]

-----------------------------------------------------------------------------
(* The device *)

\* What the CPU reads at 0xb8000, with the cursor registers.
ReadCrt == [crt EXCEPT !.cells = IF hw = Text THEN @ ELSE Noise]

\* What a write of a page leaves in the device.
WriteCrt(page) == [page EXCEPT !.cells = IF hw = Text THEN @ ELSE crt.cells]

-----------------------------------------------------------------------------
(* Console output *)

\* consolewrite and cprintf: acquire(&cons.lock).
StartWrite(p, len) ==
    /\ At(p, "user")
    /\ lock = NoProc
    /\ lock' = p
    /\ left' = [left EXCEPT ![p] = len]
    /\ Goto(p, "write")
    /\ UNCHANGED <<hw, crt, mode, textdisplayed, consbuffer, panicked, req, seen>>

\* The page cgaputc works on.
CurrentPage == IF textdisplayed = 0 THEN consbuffer ELSE ReadCrt

\* consputc: one character.
Consputc(c) ==
    IF OutOfPage(CurrentPage, c)
      THEN panicked' = TRUE /\ UNCHANGED <<crt, consbuffer>>
      ELSE /\ UNCHANGED panicked
           /\ IF textdisplayed = 1
                THEN crt' = WriteCrt(Putc(CurrentPage, c)) /\ UNCHANGED consbuffer
                ELSE consbuffer' = Putc(CurrentPage, c) /\ UNCHANGED crt

PutChar(p, c) ==
    /\ At(p, "write")
    /\ left[p] > 0
    /\ Consputc(c)
    /\ left' = [left EXCEPT ![p] = @ - 1]
    /\ UNCHANGED <<hw, mode, textdisplayed, lock, pc, req, seen>>

EndWrite(p) ==
    /\ At(p, "write")
    /\ left[p] = 0
    /\ lock' = NoProc
    /\ Goto(p, "user")
    /\ UNCHANGED <<hw, crt, mode, textdisplayed, consbuffer, panicked, req, seen, left>>

-----------------------------------------------------------------------------
(* videosetmode *)

\* The argument is cut to a uchar and compared before the lock is taken.
SetVideoMode(p, m) ==
    /\ At(p, "user")
    /\ p \in Switchers
    /\ m % 256 # mode
    /\ req' = [req EXCEPT ![p] = m % 256]
    /\ seen' = [seen EXCEPT ![p] = mode]
    /\ Goto(p, "vm_lock")
    /\ UNCHANGED <<hw, crt, mode, textdisplayed, consbuffer, lock, panicked, left>>

ModeLock(p) ==
    /\ At(p, "vm_lock")
    /\ lock = NoProc
    /\ lock' = p
    /\ Goto(p, "vm_grab")
    /\ UNCHANGED <<hw, crt, mode, textdisplayed, consbuffer, panicked, req, seen, left>>

\* Mutant: the cursor is not saved.
GrabNoCursor(p) ==
    /\ At(p, "vm_grab")
    /\ IF seen[p] = Text
         THEN /\ consbuffer' = [consbuffer EXCEPT !.cells = ReadCrt.cells]
              /\ textdisplayed' = 0
         ELSE UNCHANGED <<consbuffer, textdisplayed>>
    /\ Goto(p, "vm_switch")
    /\ UNCHANGED <<hw, crt, mode, lock, panicked, req, seen, left>>

\* grabscreentobuffer, if text was displayed when the call looked.
Grab(p) ==
    /\ At(p, "vm_grab")
    /\ IF seen[p] = Text
         THEN consbuffer' = ReadCrt /\ textdisplayed' = 0
         ELSE UNCHANGED <<consbuffer, textdisplayed>>
    /\ Goto(p, "vm_switch")
    /\ UNCHANGED <<hw, crt, mode, lock, panicked, req, seen, left>>

\* writevgaregisters and currentVideoMode; an unknown mode changes nothing.
Switch(p) ==
    /\ At(p, "vm_switch")
    /\ \/ /\ req[p] = Text
          /\ hw' = Text /\ mode' = Text
          /\ crt' = [crt EXCEPT !.pos = Cols]
          /\ Goto(p, "vm_restore")
       \/ /\ req[p] \in Graphics
          /\ hw' = req[p] /\ mode' = req[p]
          /\ crt' = [cells |-> Noise, pos |-> 0]
          /\ Goto(p, "vm_unlock")
       \/ /\ req[p] \notin Graphics \cup {Text}
          /\ Goto(p, "vm_unlock")
          /\ UNCHANGED <<hw, mode, crt>>
    /\ UNCHANGED <<textdisplayed, consbuffer, lock, panicked, req, seen, left>>

\* outputbuffertoscreen.
Restore(p) ==
    /\ At(p, "vm_restore")
    /\ crt' = consbuffer
    /\ textdisplayed' = 1
    /\ Goto(p, "vm_unlock")
    /\ UNCHANGED <<hw, mode, consbuffer, lock, panicked, req, seen, left>>

ModeUnlock(p) ==
    /\ At(p, "vm_unlock")
    /\ lock' = NoProc
    /\ Goto(p, "user")
    /\ req' = [req EXCEPT ![p] = 0]
    /\ seen' = [seen EXCEPT ![p] = 0]
    /\ UNCHANGED <<hw, crt, mode, textdisplayed, consbuffer, panicked, left>>

-----------------------------------------------------------------------------
(* Specification *)

Init ==
    /\ hw = Text /\ mode = Text /\ textdisplayed = 1
    /\ crt = ClearPage /\ consbuffer = ClearPage
    /\ lock = NoProc /\ panicked = FALSE
    /\ pc = [p \in Procs |-> "user"]
    /\ req = [p \in Procs |-> 0] /\ seen = [p \in Procs |-> 0]
    /\ left = [p \in Procs |-> 0]

Output(p) ==
    \/ \E len \in 1..MaxWrite : StartWrite(p, len)
    \/ \E c \in Chars : PutChar(p, c)
    \/ EndWrite(p)

Videosetmode(p) ==
    \/ \E m \in Requests : SetVideoMode(p, m)
    \/ ModeLock(p) \/ Grab(p) \/ Switch(p) \/ Restore(p) \/ ModeUnlock(p)

Next == \E p \in Procs : Output(p) \/ Videosetmode(p)

Spec == Init /\ [][Next]_vars

-----------------------------------------------------------------------------
(* Properties *)

\* Where the text is now.
TextPage == IF textdisplayed = 1 THEN crt ELSE consbuffer

Shown == INSTANCE Screen WITH page <- TextPage

\* Through any sequence of mode changes the text is what printing alone would
\* have made of it: consbuffer is the "Buffer used to store text from screen
\* when we are in a graphics mode".
KeepsText == Shown!Spec

\* The cursor never reaches the last line and nothing is left over behind it:
\* the check of cgaputc never panics.
PageIntact ==
    /\ ~panicked
    /\ TextPage.pos \in 0..((Rows - 1) * Cols - 1)
    /\ \A k \in Area : k > TextPage.pos => TextPage.cells[k] \in {"blank", "zero"}

=============================================================================

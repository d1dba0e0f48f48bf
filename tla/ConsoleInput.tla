---------------------------- MODULE ConsoleInput ----------------------------
(***************************************************************************)
(* Console input (console.c, kbd.c): the keyboard interrupt edits a line   *)
(* in the ring input.buf, consoleread takes finished lines out, and        *)
(* consoleget (the getch call) polls the keyboard itself, with cons.lock   *)
(* held.                                                                   *)
(*                                                                         *)
(* Everything is done under cons.lock; the echo of what is typed is        *)
(* consputc, which Terminal models.  The keyboard controller is external:  *)
(* it holds one scan code.  Keys are told apart by what the maps of kbd.h  *)
(* make of them with and without Control; Shift, Alt and the toggles only  *)
(* choose between characters that are treated alike, so their codes stand  *)
(* with the releases of ordinary keys as "other".                          *)
(***************************************************************************)
EXTENDS Integers, Sequences

CONSTANTS
    Readers,    \* processes that read the console
    Irq,        \* the interrupt handler
    NoProc,     \* nobody holds cons.lock
    INPUT_BUF,  \* 128
    UintMod,    \* r, w and e are computed modulo this (2^32)
    ReadSizes   \* the n of consoleread

ASSUME ConsoleInputAssumption ==
    /\ Irq \notin Readers /\ NoProc \notin Readers \cup {Irq}
    /\ INPUT_BUF \in Nat \ {0} /\ UintMod \in Nat /\ UintMod > INPUT_BUF /\ UintMod % INPUT_BUF = 0
    /\ ReadSizes \subseteq Nat

VARIABLES
    lock,        \* holder of cons.lock
    pc,          \* what each is executing
    code,        \* the scan code in the controller
    down,        \* the Control keys that are held, left and right
    pressed,     \* the Control key that moved last was pressed, not released
    prefixed,    \* the keyboard has sent the prefix of a code and not the code
    shift,       \* static uint shift
    buf, r, w, e,  \* struct input
    want, got,   \* n of a consoleread, 0 after its break, and characters taken
    dst,         \* the character it stored last
    killed,      \* p->killed
    dump,        \* doprocdump
    killing      \* inside the loop of Control-U

input == <<buf, r, w, e>>
device == <<code, down, pressed, prefixed, shift>>
reading == <<want, got, dst, killed>>
handler == <<dump, killing>>
vars == <<lock, pc, device, input, reading, handler>>

Procs == Readers \cup {Irq}

At(p, label) == pc[p] = label
Goto(p, label) == pc' = [pc EXCEPT ![p] = label]
Take(p, label) == lock = NoProc /\ lock' = p /\ Goto(p, label)
Free(p, label) == lock' = NoProc /\ Goto(p, label)

-----------------------------------------------------------------------------
(* The keyboard: kbdgetc *)

Keys == {"a", "u", "d", "p", "h", "m", "enter", "bs"}

\* The keys whose codes have the prefix E0: those of the keypad and the arrows are
\* treated like "a", and the keypad has its own Enter.
Extended == {"a", "enter"}

NoCode == "nothing"

\* The keyboard sends the prefix of a code, and then the code.
Prefix ==
    /\ code = NoCode /\ ~prefixed
    /\ code' = "E0" /\ prefixed' = TRUE
    /\ UNCHANGED <<lock, pc, down, pressed, shift, input, reading, handler>>

Sends(c) == code = NoCode /\ code' = c /\ prefixed' = FALSE

Press(k) ==
    /\ prefixed => k \in Extended
    /\ Sends(k)
    /\ UNCHANGED <<lock, pc, down, pressed, shift, input, reading, handler>>

\* A Control key goes down or up; only the right one has a prefix.
PressCtl(side) ==
    /\ prefixed <=> side = "right"
    /\ Sends(IF side \in down THEN "ctl up" ELSE "ctl down")
    /\ down' = IF side \in down THEN down \ {side} ELSE down \cup {side}
    /\ pressed' = (side \notin down)
    /\ UNCHANGED <<lock, pc, shift, input, reading, handler>>

\* A key without a Control bit is released, or Shift, Alt or a toggle moves.
OtherKey ==
    /\ Sends("other")
    /\ UNCHANGED <<lock, pc, down, pressed, shift, input, reading, handler>>

\* ctlmap and normalmap.
Char(k, ctl) ==
    CASE ctl /\ k = "u"                     -> "kill"
      [] ctl /\ k = "d"                     -> "eof"
      [] ctl /\ k = "p"                     -> "dump"
      [] ctl /\ k = "bs"                    -> "none"
      [] k = "bs" \/ (ctl /\ k = "h")       -> "erase"
      [] k = "enter" \/ (ctl /\ k = "m")    -> "newline"
      [] OTHER                              -> "a"

\* Mutant: a key that is released leaves E0ESC set.
KbdgetcKeepsE0 ==
    CASE code = NoCode     -> [c |-> "empty", shift |-> shift]
      [] code = "E0"       -> [c |-> "none", shift |-> shift \cup {"E0ESC"}]
      [] code = "ctl up"   -> [c |-> "none", shift |-> shift \ {"CTL"}]
      [] code = "ctl down" -> [c |-> "none", shift |-> (shift \ {"E0ESC"}) \cup {"CTL"}]
      [] code = "other"    -> [c |-> "none", shift |-> shift]
      [] OTHER             -> [c |-> Char(code, "CTL" \in shift), shift |-> shift \ {"E0ESC"}]

\* What kbdgetc returns ("empty" is its -1, "none" its 0) and leaves in shift.  Both
\* Control keys set and clear the one bit CTL.
Kbdgetc ==
    CASE code = NoCode     -> [c |-> "empty", shift |-> shift]
      [] code = "E0"       -> [c |-> "none", shift |-> shift \cup {"E0ESC"}]
      [] code = "ctl up"   -> [c |-> "none", shift |-> shift \ {"CTL", "E0ESC"}]
      [] code = "ctl down" -> [c |-> "none", shift |-> (shift \ {"E0ESC"}) \cup {"CTL"}]
      [] code = "other"    -> [c |-> "none", shift |-> shift \ {"E0ESC"}]
      [] OTHER             -> [c |-> Char(code, "CTL" \in shift), shift |-> shift \ {"E0ESC"}]

GotKey == /\ code' = NoCode
          /\ shift' = Kbdgetc.shift
          /\ UNCHANGED <<down, pressed, prefixed>>

-----------------------------------------------------------------------------
(* consoleintr *)

Add(x, d) == (x + d) % UintMod
Cell(x) == x % INPUT_BUF

\* An interrupt: acquire(&cons.lock).
Intr ==
    /\ At(Irq, "user")
    /\ code # NoCode
    /\ Take(Irq, "intr")
    /\ UNCHANGED <<device, input, reading, handler>>

\* wakeup(&input.r): those who sleep go back to acquire(&cons.lock).
Wakeup == pc' = [p \in Procs |-> IF pc[p] = "asleep" THEN "read_lock" ELSE pc[p]]

\* Mutant: a line that ends because the ring is full is not announced.
StoreFullSilent(c) ==
    LET next == Add(e, 1)
    IN  /\ buf' = [buf EXCEPT ![Cell(e)] = c]
        /\ e' = next
        /\ w' = IF c \in {"newline", "eof"} \/ next = Add(r, INPUT_BUF) THEN next ELSE w
        /\ IF c \in {"newline", "eof"} THEN Wakeup ELSE UNCHANGED pc
        /\ UNCHANGED <<r, handler>>

\* A character goes into the ring; the line is finished when it ends or the ring is
\* full.
Store(c) ==
    LET next == Add(e, 1)
    IN  /\ buf' = [buf EXCEPT ![Cell(e)] = c]
        /\ e' = next
        /\ IF c \in {"newline", "eof"} \/ next = Add(r, INPUT_BUF)
             THEN w' = next /\ Wakeup
             ELSE UNCHANGED <<w, pc>>
        /\ UNCHANGED <<r, handler>>

\* Mutant: what a reader may already have seen can be erased.
BackspaceFinished ==
    /\ e # r
    /\ e' = Add(e, -1)
    /\ UNCHANGED <<buf, r, w, pc>>

Backspace ==
    /\ e # w
    /\ e' = Add(e, -1)
    /\ UNCHANGED <<buf, r, w, pc>>

Ignore == UNCHANGED <<input, pc>>

\* One character of the handler's loop.
IntrKey ==
    LET c == Kbdgetc.c
        full == (e - r) % UintMod >= INPUT_BUF
    IN  /\ At(Irq, "intr") /\ ~killing
        /\ c # "empty"
        /\ GotKey
        /\ \/ c = "dump" /\ dump' = TRUE /\ Ignore /\ UNCHANGED killing
           \/ c = "kill" /\ killing' = TRUE /\ Ignore /\ UNCHANGED dump
           \/ c = "erase" /\ (Backspace \/ (e = w /\ Ignore)) /\ UNCHANGED handler
           \/ c = "none" /\ Ignore /\ UNCHANGED handler
           \/ c \notin {"dump", "kill", "erase", "none"} /\ full /\ Ignore /\ UNCHANGED handler
           \/ c \notin {"dump", "kill", "erase", "none"} /\ ~full /\ Store(c)
        /\ UNCHANGED <<lock, reading>>

\* The loop of Control-U.
IntrKill ==
    /\ At(Irq, "intr") /\ killing
    /\ \/ buf[Cell(Add(e, -1))] # "newline" /\ Backspace /\ UNCHANGED killing
       \/ (e = w \/ buf[Cell(Add(e, -1))] = "newline") /\ killing' = FALSE /\ Ignore
    /\ UNCHANGED <<lock, device, reading, dump>>

IntrEnd ==
    /\ At(Irq, "intr") /\ ~killing
    /\ code = NoCode
    /\ Free(Irq, IF dump THEN "dump" ELSE "user")
    /\ dump' = FALSE
    /\ UNCHANGED <<device, input, reading, killing>>

\* procdump prints, after the lock has been released: cprintf takes it again.
Procdump ==
    \/ /\ At(Irq, "dump")
       /\ Take(Irq, "dump_print")
       /\ UNCHANGED <<device, input, reading, handler>>
    \/ /\ At(Irq, "dump_print")
       /\ Free(Irq, "user")
       /\ UNCHANGED <<device, input, reading, handler>>

-----------------------------------------------------------------------------
(* consoleread *)

Read(p, n) ==
    /\ At(p, "user")
    /\ want' = [want EXCEPT ![p] = n]
    /\ Goto(p, "read_lock")
    /\ UNCHANGED <<lock, device, input, got, dst, killed, handler>>

ReadLock(p) ==
    /\ At(p, "read_lock")
    /\ Take(p, "read")
    /\ UNCHANGED <<device, input, reading, handler>>

ReadReturns(p) ==
    /\ Free(p, "user")
    /\ want' = [want EXCEPT ![p] = 0] /\ got' = [got EXCEPT ![p] = 0]
    /\ UNCHANGED <<device, buf, w, e, killed, handler>>

\* Nothing to read: -1 for a process that was killed, otherwise sleep.
ReadEmpty(p) ==
    /\ At(p, "read")
    /\ want[p] > 0 /\ r = w
    /\ \/ killed[p] /\ ReadReturns(p) /\ dst' = "nothing" /\ UNCHANGED r
       \/ /\ ~killed[p]
          /\ Goto(p, "read_sleep")
          /\ dst' = "nothing"
          /\ UNCHANGED <<lock, device, input, want, got, killed, handler>>

\* sleep releases cons.lock; a kill that came after the test does not wake it.
ReadSleep(p) ==
    /\ At(p, "read_sleep")
    /\ Free(p, "asleep")
    /\ UNCHANGED <<device, input, reading, handler>>

\* One character; an end of file after others is left for the next call.
ReadChar(p) ==
    LET c == buf[Cell(r)]
    IN  /\ At(p, "read")
        /\ want[p] > 0 /\ r # w
        /\ \/ c = "eof" /\ got[p] > 0 /\ ReadReturns(p) /\ dst' = "nothing" /\ UNCHANGED r
           \/ /\ ~(c = "eof" /\ got[p] > 0)
              /\ dst' = c /\ r' = Add(r, 1)
              /\ want' = [want EXCEPT ![p] = IF c \in {"eof", "newline"} THEN 0 ELSE @ - 1]
              /\ got' = [got EXCEPT ![p] = @ + 1]
              /\ UNCHANGED <<lock, pc, device, buf, w, e, killed, handler>>

ReadEnd(p) ==
    /\ At(p, "read")
    /\ want[p] = 0
    /\ ReadReturns(p) /\ dst' = "nothing" /\ UNCHANGED r

\* kill: wakes a process that sleeps.
Kill(p) ==
    /\ ~killed[p] /\ pc[p] \in {"read_lock", "read", "read_sleep", "asleep"}
    /\ killed' = [killed EXCEPT ![p] = TRUE]
    /\ pc' = [pc EXCEPT ![p] = IF @ = "asleep" THEN "read_lock" ELSE @]
    /\ UNCHANGED <<lock, device, input, want, got, dst, handler>>

\* Back in user mode a killed process exits; another takes its place.
Exited(p) ==
    /\ At(p, "user") /\ killed[p]
    /\ killed' = [killed EXCEPT ![p] = FALSE]
    /\ UNCHANGED <<lock, pc, device, input, want, got, dst, handler>>

-----------------------------------------------------------------------------
(* consoleget *)

Getch(p) ==
    /\ At(p, "user")
    /\ Take(p, "get")
    /\ UNCHANGED <<device, input, reading, handler>>

\* After a code that is no character, the next one is read and thrown away.
GetPoll(p) ==
    LET c == Kbdgetc.c
    IN  /\ At(p, "get")
        /\ c # "empty"
        /\ GotKey
        /\ \/ c = "none" /\ Goto(p, "get_again") /\ UNCHANGED lock
           \/ c # "none" /\ Free(p, "user")
        /\ UNCHANGED <<input, reading, handler>>

GetAgain(p) ==
    /\ At(p, "get_again")
    /\ GotKey
    /\ Goto(p, "get")
    /\ UNCHANGED <<lock, input, reading, handler>>

-----------------------------------------------------------------------------
(* Specification *)

Init ==
    /\ lock = NoProc /\ pc = [p \in Procs |-> "user"]
    /\ code = NoCode /\ down = {} /\ pressed = FALSE /\ prefixed = FALSE /\ shift = {}
    /\ buf = [k \in 0..INPUT_BUF-1 |-> "zero"]
    /\ r = 0 /\ w = 0 /\ e = 0
    /\ want = [p \in Procs |-> 0] /\ got = [p \in Procs |-> 0]
    /\ dst = "nothing" /\ killed = [p \in Procs |-> FALSE]
    /\ dump = FALSE /\ killing = FALSE

Keyboard ==
    \/ Prefix \/ OtherKey
    \/ \E k \in Keys : Press(k)
    \/ \E side \in {"left", "right"} : PressCtl(side)

Consoleintr == Intr \/ IntrKey \/ IntrKill \/ IntrEnd \/ Procdump

Consoleread(p) ==
    \/ \E n \in ReadSizes : Read(p, n)
    \/ ReadLock(p) \/ ReadEmpty(p) \/ ReadSleep(p) \/ ReadChar(p) \/ ReadEnd(p)

Consoleget(p) == Getch(p) \/ GetPoll(p) \/ GetAgain(p)

Next ==
    \/ Keyboard \/ Consoleintr
    \/ \E p \in Readers : Consoleread(p) \/ Consoleget(p) \/ Kill(p) \/ Exited(p)

Spec == Init /\ [][Next]_vars

-----------------------------------------------------------------------------
(* Properties *)

\* The characters of the ring from x up to y.
Between(x, y) == [i \in 1..((y - x) % UintMod) |-> buf[Cell(Add(x, i - 1))]]

Lines == INSTANCE LineDiscipline
             WITH Capacity <- INPUT_BUF, Typable <- {"a", "newline", "eof"}, Ends <- {"newline", "eof"},
                  ready <- Between(r, w), line <- Between(w, e), out <- dst

\* The ring is an editable line and a queue of finished ones, when its indices wrap
\* and when it is full.
ImplementsLineDiscipline == Lines!Spec

\* Nobody sleeps on finished text, and a reader who is about to has found none.
ReadersMissNothing ==
    \A p \in Readers : pc[p] \in {"read_sleep", "asleep"} => r = w

\* Whoever took the codes out of the controller, interrupt or getch, and wherever it
\* stopped: once everything has been read, kbdgetc's shift is what the Control key that
\* moved last left, no prefix is pending, and Control is not stuck with both keys up.
ShiftFollowsKeys ==
    code = NoCode /\ ~prefixed =>
        /\ shift = IF pressed THEN {"CTL"} ELSE {}
        /\ shift # {} => down # {}
=============================================================================

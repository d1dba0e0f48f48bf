--------------------------- MODULE LineDiscipline ---------------------------
(***************************************************************************)
(* What the console promises to those who read it: what is typed comes out *)
(* in order and once; the line being typed can be edited until it is       *)
(* finished, and finished text no longer.                                  *)
(***************************************************************************)
EXTENDS Integers, Sequences, SequencesExt

CONSTANTS Capacity,   \* characters typed and not yet read
          Typable, Ends

VARIABLES ready,  \* finished text, for the next reader
          line,   \* the line being typed
          out     \* the character a reader was given last

Nothing == "nothing"

Init == ready = <<>> /\ line = <<>> /\ out = Nothing

Full == Len(ready) + Len(line) = Capacity

\* When there is no room for more, the line is finished as it is.
Type(c) ==
    LET finished == c \in Ends \/ Len(ready) + Len(line) + 1 = Capacity
    IN  /\ ~Full
        /\ ready' = IF finished THEN ready \o Append(line, c) ELSE ready
        /\ line' = IF finished THEN <<>> ELSE Append(line, c)
        /\ UNCHANGED out

Erase == line # <<>> /\ line' = Front(line) /\ UNCHANGED <<ready, out>>

Read == ready # <<>> /\ out' = Head(ready) /\ ready' = Tail(ready) /\ UNCHANGED line

\* The reader looks at another character.
Forget == out' = Nothing /\ UNCHANGED <<ready, line>>

Next == (\E c \in Typable : Type(c)) \/ Erase \/ Read \/ Forget

Spec == Init /\ [][Next]_<<ready, line, out>>
=============================================================================

------------------------------- MODULE Canvas -------------------------------
(***************************************************************************)
(* What the queued drawing mode promises: a context collects commands, and *)
(* executing it draws all of them, in order, in one step, with nobody      *)
(* else's commands in between, and disposes of the context.                *)
(***************************************************************************)
EXTENDS Integers, Sequences, SequencesExt

CONSTANTS
    Ids,           \* contexts
    DefaultPen,    \* pen of a new context
    Effect(_, _)   \* a command on [s, m, x, pen]: screen, palette, cursor, pen

VARIABLES
    image,  \* [s, m]: the screen and the palette
    ctx     \* context -> its cursor, pen, commands and user's wish, or closed

Closed == [open |-> FALSE]
Opened == [open |-> TRUE, x |-> 0, pen |-> DefaultPen, cmds |-> <<>>, asked |-> "none"]
State(h) == [s |-> image.s, m |-> image.m, x |-> ctx[h].x, pen |-> ctx[h].pen]

Init == ctx = [h \in Ids |-> Closed]

Open(h) ==
    /\ ~ctx[h].open
    /\ ctx' = [ctx EXCEPT ![h] = Opened]
    /\ UNCHANGED image

\* One more command, behind those already there.
Queue(h) ==
    /\ ctx[h].open
    /\ ctx'[h].open
    /\ Len(ctx'[h].cmds) > 0
    /\ ctx' = [ctx EXCEPT ![h].cmds = Append(@, Last(ctx'[h].cmds))]
    /\ UNCHANGED image

\* A move of the cursor or a change of pen made by a direct call.
Adjust(h) ==
    /\ ctx[h].open
    /\ ctx'[h].open
    /\ ctx' = [ctx EXCEPT ![h].x = ctx'[h].x, ![h].pen = ctx'[h].pen]
    /\ UNCHANGED image

\* The user asks for the context to be executed or dropped, or takes it back.
Ask(h) ==
    /\ ctx[h].open
    /\ \E wish \in {"none", "exec", "drop"} : ctx' = [ctx EXCEPT ![h].asked = wish]
    /\ UNCHANGED image

Execute(h) ==
    /\ ctx[h].open
    /\ ctx[h].asked = "exec"
    /\ LET r == FoldLeft(Effect, State(h), ctx[h].cmds)
       IN  image' = [s |-> r.s, m |-> r.m]
    /\ ctx' = [ctx EXCEPT ![h] = Closed]

Drop(h) ==
    /\ ctx[h].open
    /\ ctx[h].asked = "drop"
    /\ ctx' = [ctx EXCEPT ![h] = Closed]
    /\ UNCHANGED image

Next == \E h \in Ids : Open(h) \/ Queue(h) \/ Adjust(h) \/ Ask(h) \/ Execute(h) \/ Drop(h)

Spec == Init /\ [][Next]_<<image, ctx>>
=============================================================================

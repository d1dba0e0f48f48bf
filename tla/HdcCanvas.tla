----------------------------- MODULE HdcCanvas ------------------------------
(***************************************************************************)
(* HdcTable implements Canvas: as long as drawing is queued, executing a   *)
(* queue is one atomic change of the canvas.  In the mapping a context     *)
(* under execution is already gone and the commands still to run are       *)
(* already on the canvas, so the step of Canvas happens when sys_endpaint  *)
(* acquires the lock.                                                      *)
(***************************************************************************)
EXTENDS HdcTable, SequencesExt

Queued(d) == SubSeq(d.queue, 1, d.queueEnd)

Executing == {p \in Procs : pc[p] = "ep_exec"}

FinalDrawing ==
    IF Executing = {} THEN Drawing(Blank(0, <<>>))
    ELSE LET p == CHOOSE q \in Executing : TRUE
             d == hdc[Arg(p).hdc]
         IN  FoldLeft(Run, Drawing(d), SubSeq(d.queue, idx[p] + 1, d.queueEnd))

Ending(h) == \E p \in Procs : pc[p] \in {"ep_exec", "ep_reset"} /\ Arg(p).hdc = h

\* What the process that holds h has asked endpaint to do.
Asked(h) ==
    LET wishes == {Arg(p).a : p \in {q \in Procs : todo[q] # <<>> /\ Arg(q).call = "endpaint"
                                                                 /\ Arg(q).hdc = h}}
    IN  IF 1 \in wishes THEN "exec" ELSE IF 0 \in wishes THEN "drop" ELSE "none"

Abstract ==
    INSTANCE Canvas WITH
        Ids    <- Slots,
        DefaultPen <- PenMin - 1,
        Effect <- Run,
        image  <- [s |-> FinalDrawing.s, m |-> FinalDrawing.m],
        ctx    <- [h \in Slots |->
                     IF hdc[h].init = 0 \/ Ending(h) THEN [open |-> FALSE]
                     ELSE [open |-> TRUE, x |-> hdc[h].x, pen |-> hdc[h].pen,
                           cmds |-> Queued(hdc[h]), asked |-> Asked(h)]]

=============================================================================

--------------------------- MODULE HdcTableProofs ---------------------------
(***************************************************************************)
(* Proofs about HdcTable for any number of processes, contexts and queue   *)
(* entries, once the lock exists (LockReady = 1).  Queues may overflow     *)
(* into the next context, and processes may be killed.                     *)
(*                                                                         *)
(* NoSharedHdc is not inductive: that beginpaint hands out a context of    *)
(* nobody's rests on the scan and the claim happening under the lock, on   *)
(* init staying set while a context is held, and on endpaint being called  *)
(* only for the caller's own context.  HInv states all three.              *)
(***************************************************************************)
EXTENDS HdcTable, SequenceTheorems, TLAPS

\* What the theorems assume of the constants beyond HdcAssumption.
Ready == LockReady = 1

\* The labels between acquire and release.
InLock(p) == pc[p] \in {"bp_scan", "bp_claim", "bp_release", "ep_exec", "ep_reset", "ep_release"}

\* The lock exists and is held by whoever is between acquire and release.
LockInv ==
    /\ lockinit = 1
    /\ \A p \in Procs : /\ pc[p] \notin {"bp_initlock", "bp_lockinit"}
                        /\ InLock(p) => lock.locked /\ lock.cpu = p

BeginLabels == {"bp_check", "bp_acquire", "bp_scan", "bp_claim", "bp_release"}
EndLabels   == {"ep_acquire", "ep_exec", "ep_reset", "ep_release"}
QueueLabels == {"wq_write", "wq_inc"}
DirectLabels == {"direct", "lineto_move"}

\* A pending call c of p, one of n, names the context p holds; begin and end
\* come alone.
GoodCall(p, c, n) ==
    /\ c.call = "beginpaint" => n = 1 /\ cur[p] = NoHdc
    /\ c.call = "endpaint"   => n = 1 /\ cur[p] # NoHdc /\ c.hdc = cur[p]
    /\ c.call = "writeQueue" => /\ n = 1
                                /\ cur[p] # NoHdc
                                /\ c.hdc = cur[p]
                                /\ c.op \in Ops
                                /\ pc[p] # "wq_inc" => hdc[cur[p]].queueEnd \in Nat
    /\ c.call = "direct"     => c.hdc \in Slots

GoodCalls(p, s) == \A i \in 1..Len(s) : GoodCall(p, s[i], Len(s))

\* The call being executed is the one the program counter says.
PcCall(p) ==
    /\ pc[p] # "user" => todo[p] # <<>>
    /\ pc[p] \in BeginLabels  => Arg(p).call = "beginpaint"
    /\ pc[p] \in EndLabels    => Arg(p).call = "endpaint"
    /\ pc[p] \in QueueLabels  => Arg(p).call = "writeQueue"
    /\ pc[p] \in DirectLabels => Arg(p).call = "direct"

CallOK(p) == GoodCalls(p, todo[p]) /\ PcCall(p)

CallInv == \A p \in Procs : CallOK(p)

\* The init flag of every context that somebody is entitled to.  An overflow of
\* the context before it may have changed it, never to 0 or 1.
FlagInv ==
    /\ \A p \in Procs : cur[p] # NoHdc /\ pc[p] # "ep_release" => hdc[cur[p]].init # 0
    /\ \A h \in leaked : hdc[h].init # 0
    /\ \A p \in Procs : pc[p] = "bp_claim" =>
          /\ ret[p] \in Slots
          /\ ret[p] \notin leaked
          /\ \A q \in Procs : cur[q] # ret[p]
    /\ \A p \in Procs : pc[p] = "ep_release" =>
          /\ hdc[cur[p]].init # 1
          /\ ret[p] # 0 => hdc[cur[p]].init # 0
    /\ \A p \in Procs : pc[p] = "bp_release" /\ ret[p] # NoHdc =>
          /\ hdc[ret[p]].init # 0
          /\ ret[p] \notin leaked
          /\ \A q \in Procs : cur[q] # ret[p]

HInv == TypeOK /\ LockInv /\ CallInv /\ FlagInv /\ NoSharedHdc

-----------------------------------------------------------------------------
(* The drawing operators *)

DrawState == [s : [Pixels -> Pens], m : [Pens -> 0..ColMax], x : Int, pen : Int]

\* A limited value lies between 0 and its capacity.
LEMMA CapperRange ==
    ASSUME NEW v \in Int, NEW capacity \in Nat
    PROVE  ValueCapper(v, capacity) \in 0..capacity
BY DEF ValueCapper

\* Plotting a pen, whatever its number, leaves pen numbers on the screen.
LEMMA PlotType ==
    ASSUME NEW scr \in [Pixels -> Pens], NEW points, NEW pen \in Int
    PROVE  Plot(scr, points, pen) \in [Pixels -> Pens]
<1>1. pen % (PenMax + 1) \in Pens
  BY HdcAssumption DEF Pens
<1> QED
  BY <1>1 DEF Plot

\* Running a command keeps the screen, the palette and the context typed.
LEMMA RunType ==
    ASSUME NEW st \in DrawState, NEW c,
           c.a \in Int, c.op = "declare" => c.b \in 0..ColMax
    PROVE  Run(st, c) \in DrawState
<1>1. /\ st.s \in [Pixels -> Pens] /\ st.m \in [Pens -> 0..ColMax] /\ st.x \in Int /\ st.pen \in Int
      /\ st = [s |-> st.s, m |-> st.m, x |-> st.x, pen |-> st.pen]
  BY DEF DrawState
<1>2. \A points : Plot(st.s, points, st.pen) \in [Pixels -> Pens]
  BY <1>1, PlotType
<1>3. c.op = "declare" => [st.m EXCEPT ![c.a] = c.b] \in [Pens -> 0..ColMax]
  BY <1>1
<1> QED
  BY <1>1, <1>2, <1>3 DEF Run, DrawState

\* What writeQueue stores is a well-formed entry.
LEMMA QueuedType ==
    ASSUME NEW s \in Syscall, s.hdc \in Slots, s.op \in Ops
    PROVE  CapQueued(s) \in Entries
<1>0. s.a \in Int /\ s.b \in Int /\ Width - 1 \in Nat /\ QueuePenCap \in Nat /\ ColMax \in Nat
  BY HdcAssumption DEF Syscall
<1>1. ValueCapper(s.b, ColMax) \in 0..ColMax
  BY <1>0, CapperRange
<1>2. ValueCapper(s.a, QueuePenCap) \in 0..QueuePenCap
  BY <1>0, CapperRange
<1>3. \A v \in Int : ValueCapper(v, Width - 1) \in 0..(Width - 1)
  BY <1>0, CapperRange
<1> QED
  BY <1>0, <1>1, <1>2, <1>3 DEF CapQueued, Entry, Entries, Ops

\* A direct call runs a well-formed command.
LEMMA DirectType ==
    ASSUME NEW s \in Syscall
    PROVE  /\ CapDirect(s).a \in Int
           /\ CapDirect(s).op = "declare" => CapDirect(s).b \in 0..ColMax
<1>0. s.a \in Int /\ s.b \in Int /\ Width - 1 \in Nat /\ ColMax \in Nat
  BY HdcAssumption DEF Syscall
<1>1. ValueCapper(s.b, ColMax) \in 0..ColMax
  BY <1>0, CapperRange
<1>2. ValueCapper(s.a, Width - 1) \in 0..(Width - 1)
  BY <1>0, CapperRange
<1> QED
  BY <1>0, <1>1, <1>2 DEF CapDirect, Entry

\* The drawing state of a context is typed.
LEMMA DrawingType ==
    ASSUME TypeOK, NEW h \in Slots
    PROVE  Drawing(hdc[h]) \in DrawState
BY DEF TypeOK, Contexts, Drawing, DrawState

-----------------------------------------------------------------------------
(* The invariant *)

LEMMA InitInv ==
    ASSUME Ready, Init
    PROVE  HInv
<1> USE HdcAssumption DEF Init, Ready
<1>1. TypeOK
  <2>1. NoCommand \in Entries
    BY DEF NoCommand, Entries, Slots
  <2>2. lock \in [locked : BOOLEAN, cpu : Procs \cup {NoProc}]
    BY DEF FreeLock
  <2>3. pix \in [Pixels -> Pens] /\ pal \in [Pens -> 0..ColMax]
    BY DEF Pens
  <2>4. hdc \in [Slots -> Contexts]
    BY <2>1 DEF Contexts
  <2>5. todo \in [Procs -> Seq(Syscall)]
    OBVIOUS
  <2> QED
    BY <2>2, <2>3, <2>4, <2>5 DEF TypeOK, Labels, Slots, NoHdc
<1>2. LockInv
  BY DEF LockInv, InLock
<1>3. CallInv
  <2> SUFFICES ASSUME NEW q \in Procs PROVE CallOK(q)
    BY DEF CallInv
  <2>1. todo[q] = <<>> /\ pc[q] = "user"
    OBVIOUS
  <2> QED
    BY <2>1 DEF CallOK, GoodCalls, PcCall, BeginLabels, EndLabels, QueueLabels, DirectLabels
<1>4. FlagInv /\ NoSharedHdc
  BY DEF FlagInv, NoSharedHdc
<1> QED
  BY <1>1, <1>2, <1>3, <1>4 DEF HInv

LabelSets == BeginLabels \cup EndLabels \cup QueueLabels \cup DirectLabels

LEMMA UserLabel == "user" \notin LabelSets
BY DEF LabelSets, BeginLabels, EndLabels, QueueLabels, DirectLabels

\* A sequence of one element.
LEMMA Singleton ==
    ASSUME NEW S, NEW e \in S
    PROVE  /\ << e >> \in Seq(S) /\ Len(<< e >>) = 1 /\ << e >>[1] = e
           /\ \A i \in 1..1 : << e >>[i] = e
OBVIOUS

\* A command that is typed becomes calls on the context of its process.
LEMMA TypeCallsInv ==
    ASSUME HInv, NEW p \in Procs, NEW calls \in Seq(Syscall),
           AtPrompt(p), Type(p, calls), GoodCalls(p, calls)
    PROVE  HInv'
<1> USE DEF HInv
<1>0. /\ todo' = [todo EXCEPT ![p] = calls] /\ pc[p] = "user"
      /\ UNCHANGED <<lockinit, lock, hdc, pix, pal, panicked, pc, cur, ret, idx, leaked>>
  BY DEF Type, AtPrompt, At, kernel
<1>1. TypeOK'
  BY <1>0 DEF TypeOK
<1>2. LockInv'
  BY <1>0 DEF LockInv, InLock
<1>3. CallInv'
  <2> SUFFICES ASSUME NEW q \in Procs PROVE CallOK(q)'
    BY DEF CallInv
  <2>1. \A s : GoodCalls(q, s) => GoodCalls(q, s)'
    BY <1>0 DEF GoodCalls, GoodCall
  <2>2. CASE q = p
    BY <1>0, <2>1, <2>2, UserLabel DEF CallOK, PcCall, TypeOK, LabelSets
  <2>3. CASE q # p
    BY <1>0, <2>1, <2>3 DEF CallInv, CallOK, PcCall, Arg, TypeOK
  <2> QED
    BY <2>2, <2>3
<1>4. FlagInv' /\ NoSharedHdc'
  BY <1>0 DEF FlagInv, NoSharedHdc
<1> QED
  BY <1>1, <1>2, <1>3, <1>4

\* One call.
LEMMA TypeOneInv ==
    ASSUME HInv, NEW p \in Procs, NEW c \in Syscall,
           AtPrompt(p), Type(p, << c >>), GoodCall(p, c, 1)
    PROVE  HInv'
<1>1. GoodCalls(p, << c >>)
  BY Singleton DEF GoodCalls
<1> QED
  BY <1>1, Singleton, TypeCallsInv

\* A process that types a command at the prompt or is killed.
LEMMA PromptInv ==
    ASSUME Ready, HInv, NEW p \in Procs, Prompt(p)
    PROVE  HInv'
<1> USE HdcAssumption DEF Ready
<1>c. cur[p] \in Slots \cup {NoHdc} /\ cur[p] \in Int /\ 0 \in Slots
  BY DEF HInv, TypeOK, Slots, NoHdc
<1>2. CASE NewHdc(p)
  <2>1. Begin \in Syscall /\ GoodCall(p, Begin, 1)
    BY <1>2 DEF Begin, Syscall, GoodCall, NewHdc
  <2> QED
    BY <1>2, <2>1, TypeOneInv DEF NewHdc
<1>3. ASSUME NEW n \in {0, 1}, AtPrompt(p), cur[p] # NoHdc, Type(p, << End(cur[p], n) >>)
      PROVE  HInv'
  <2>1. End(cur[p], n) \in Syscall /\ GoodCall(p, End(cur[p], n), 1)
    BY <1>3, <1>c DEF End, Syscall, GoodCall
  <2> QED
    BY <1>3, <2>1, TypeOneInv
<1>4. ASSUME NEW c \in Cmds, Draw(p, c)
      PROVE  HInv'
  <2> DEFINE d == Sorted(c)
  <2>0. /\ d.a \in Int /\ d.b \in Int /\ d.op = c.op /\ d.mode = c.mode
        /\ c.op \in Ops \cup {"square"} /\ c.mode \in {"direct", "queue"}
    <3>1. c \in Command
      OBVIOUS
    <3> QED
      BY <3>1 DEF Sorted, Command
  <2>1. /\ AtPrompt(p) /\ cur[p] \in Slots /\ cur[p] # NoHdc /\ Type(p, CallsOf(cur[p], c))
        /\ c.mode = "queue" => hdc[cur[p]].queueEnd \in 0..(WriteLimit - 1)
    BY <1>4, <1>c DEF Draw
  <2> HIDE DEF d
  <2>2. CASE c.op = "square"
    <3> DEFINE sq == ExampleSquare(cur[p])
    <3>1. \A h \in Int, op \in Ops, a \in Int : Direct(h, op, a, 0) \in Syscall
      <4> TAKE h \in Int, op \in Ops, a \in Int
      <4> QED
        BY DEF Direct, Syscall
    <3>2. sq \in Seq(Syscall)
      <4>1. "move" \in Ops /\ "line" \in Ops /\ Width - 1 \in Int
        BY DEF Ops
      <4> QED
        BY <1>c, <3>1, <4>1 DEF ExampleSquare
    <3>3. Len(sq) = 4 /\ \A i \in 1..4 : sq[i].call = "direct" /\ sq[i].hdc \in Slots
      BY <1>c, <2>1 DEF ExampleSquare, Direct
    <3>4. GoodCalls(p, sq)
      BY <3>3 DEF GoodCalls, GoodCall
    <3>5. CallsOf(cur[p], c) = sq
      BY <2>0, <2>2 DEF CallsOf, d
    <3> QED
      BY <2>1, <3>2, <3>4, <3>5, TypeCallsInv
  <2>3. CASE c.op # "square" /\ c.mode = "direct"
    <3>1. CallsOf(cur[p], c) = << Direct(cur[p], c.op, d.a, d.b) >>
      BY <2>0, <2>3 DEF CallsOf, d
    <3>2. Direct(cur[p], c.op, d.a, d.b) \in Syscall
          /\ GoodCall(p, Direct(cur[p], c.op, d.a, d.b), 1)
      BY <1>c, <2>0, <2>1, <2>3 DEF Direct, Syscall, GoodCall
    <3> QED
      BY <2>1, <3>1, <3>2, TypeOneInv
  <2>4. CASE c.op # "square" /\ c.mode = "queue"
    <3>1. CallsOf(cur[p], c) = << WriteQueue(cur[p], c.op, d.a, d.b) >>
      BY <2>0, <2>4 DEF CallsOf, d
    <3>2. WriteQueue(cur[p], c.op, d.a, d.b) \in Syscall
      BY <1>c, <2>0, <2>1, <2>4 DEF WriteQueue, Syscall
    <3>3. GoodCall(p, WriteQueue(cur[p], c.op, d.a, d.b), 1)
      BY <2>0, <2>1, <2>4 DEF WriteQueue, GoodCall
    <3> QED
      BY <2>1, <3>1, <3>2, <3>3, TypeOneInv
  <2> QED
    BY <2>0, <2>2, <2>3, <2>4
<1>5. CASE Killed(p)
  <2> USE DEF HInv
  <2>0. /\ pc[p] = "user" /\ UNCHANGED <<lockinit, lock, hdc, pix, pal, panicked, pc, ret, idx>>
        /\ leaked' = IF cur[p] = NoHdc THEN leaked ELSE leaked \cup {cur[p]}
        /\ cur' = [cur EXCEPT ![p] = NoHdc]
        /\ todo' = [todo EXCEPT ![p] = <<>>]
    BY <1>5 DEF Killed, At, kernel
  <2>1. TypeOK'
    <3>1. todo' \in [Procs -> Seq(Syscall)]
      BY <2>0 DEF TypeOK
    <3>2. leaked' \subseteq Slots /\ cur' \in [Procs -> Slots \cup {NoHdc}]
      BY <1>c, <2>0 DEF TypeOK
    <3> QED
      BY <2>0, <3>1, <3>2 DEF TypeOK
  <2>2. LockInv'
    BY <2>0 DEF LockInv, InLock
  <2>3. CallInv'
    <3> SUFFICES ASSUME NEW q \in Procs PROVE CallOK(q)'
      BY DEF CallInv
    <3>1. CASE q = p
      <4>1. todo'[p] = <<>> /\ pc'[p] = "user"
        BY <2>0 DEF TypeOK
      <4> QED
        BY <3>1, <4>1, UserLabel DEF CallOK, GoodCalls, PcCall, LabelSets
    <3>2. CASE q # p
      BY <2>0, <3>2 DEF CallInv, CallOK, GoodCalls, GoodCall, PcCall, Arg, TypeOK
    <3> QED
      BY <3>1, <3>2
  <2>4. FlagInv'
    <3>1. cur[p] # NoHdc => hdc[cur[p]].init # 0
      BY <2>0 DEF FlagInv
    <3>2. \A q \in Procs : q # p => cur'[q] = cur[q]
      BY <2>0 DEF TypeOK
    <3>3. cur'[p] = NoHdc
      BY <2>0 DEF TypeOK
    <3>4. \A q \in Procs : pc[q] \in {"bp_claim", "bp_release"} /\ ret[q] # NoHdc => ret[q] \notin leaked'
      BY <2>0 DEF FlagInv
    <3>5. \A q \in Procs : pc[q] = "bp_claim" => ret[q] # NoHdc
      BY DEF FlagInv, Slots, NoHdc
    <3> QED
      BY <2>0, <3>1, <3>2, <3>3, <3>4, <3>5 DEF FlagInv
  <2>5. NoSharedHdc'
    <3>1. NoHdc \notin leaked'
      BY <1>c, <2>0 DEF TypeOK, Slots, NoHdc
    <3> QED
      BY <2>0, <3>1 DEF NoSharedHdc, TypeOK
  <2> QED
    BY <2>1, <2>2, <2>3, <2>4, <2>5
<1> QED
  BY <1>2, <1>3, <1>4, <1>5 DEF Prompt, Exec, Exit

-----------------------------------------------------------------------------
(* Steps inside a system call *)

\* A step of p that stays inside its call: nobody's pending calls change.
LEMMA StayCalls ==
    ASSUME HInv, NEW p \in Procs, NEW label \in Labels,
           pc' = [pc EXCEPT ![p] = label], UNCHANGED <<todo, cur>>,
           PcCall(p)', pc[p] # "wq_inc",
           \A q \in Procs : cur[q] # NoHdc /\ (q # p \/ label # "wq_inc")
                               => hdc'[cur[q]].queueEnd = hdc[cur[q]].queueEnd
    PROVE  CallInv'
<1> SUFFICES ASSUME NEW q \in Procs PROVE CallOK(q)'
  BY DEF CallInv
<1>1. GoodCalls(q, todo[q])'
  <2>1. pc'[q] # "wq_inc" => pc[q] # "wq_inc" /\ (q # p \/ label # "wq_inc")
    BY DEF HInv, TypeOK
  <2>2. GoodCalls(q, todo[q])
    BY DEF HInv, CallInv, CallOK
  <2> QED
    BY <2>1, <2>2 DEF GoodCalls, GoodCall
<1>2. CASE q = p
  BY <1>1, <1>2 DEF CallOK
<1>3. CASE q # p
  BY <1>1, <1>3 DEF HInv, CallInv, CallOK, PcCall, Arg, TypeOK
<1> QED
  BY <1>2, <1>3

\* The call at the head of the list of a process inside the kernel.
LEMMA HeadCall ==
    ASSUME HInv, NEW p \in Procs, todo[p] # <<>>
    PROVE  Arg(p) \in Syscall /\ GoodCall(p, Arg(p), Len(todo[p]))
<1>1. todo[p] \in Seq(Syscall) /\ GoodCalls(p, todo[p])
  BY DEF HInv, TypeOK, CallInv, CallOK
<1>2. 1 \in 1..Len(todo[p]) /\ Head(todo[p]) = todo[p][1] /\ todo[p][1] \in Syscall
  BY <1>1
<1> QED
  BY <1>1, <1>2 DEF Arg, GoodCalls

\* A process inside endpaint works on the context it holds.
LEMMA EndHolds ==
    ASSUME HInv, NEW p \in Procs, pc[p] \in EndLabels
    PROVE  Arg(p).hdc = cur[p] /\ cur[p] \in Slots
<1>1. todo[p] # <<>> /\ Arg(p).call = "endpaint"
  BY DEF HInv, CallInv, CallOK, PcCall, EndLabels
<1>2. GoodCall(p, Arg(p), Len(todo[p]))
  BY <1>1, HeadCall
<1> QED
  BY <1>1, <1>2 DEF GoodCall, HInv, TypeOK

\* A step changes no init flag, or only to what is neither 0 nor 1.
FlagsKept == \A g \in Slots : hdc'[g].init = hdc[g].init \/ hdc'[g].init \notin {0, 1}

Marking == {"bp_claim", "bp_release", "ep_release"}

\* Such a step, to no label that has a say about flags, keeps what the flags mean.
LEMMA KeepFlags ==
    ASSUME HInv, FlagsKept, UNCHANGED leaked,
           \A q \in Procs : /\ cur'[q] = cur[q]
                            /\ \/ pc'[q] = pc[q] /\ ret'[q] = ret[q]
                               \/ pc[q] # "ep_release" /\ pc'[q] \notin Marking
    PROVE  FlagInv' /\ NoSharedHdc'
<1>1. \A q \in Procs : cur[q] \in Slots \cup {NoHdc} /\ ret[q] \in Slots \cup {NoHdc}
  BY DEF HInv, TypeOK
<1>2. \A q \in Procs : cur'[q] # NoHdc /\ pc'[q] # "ep_release" => hdc'[cur'[q]].init # 0
  BY <1>1 DEF HInv, FlagInv, FlagsKept, Marking
<1>3. \A h \in leaked' : hdc'[h].init # 0
  BY DEF HInv, FlagInv, FlagsKept, TypeOK
<1>4. \A q \in Procs : pc'[q] = "bp_claim" =>
          ret'[q] \in Slots /\ ret'[q] \notin leaked' /\ \A o \in Procs : cur'[o] # ret'[q]
  BY DEF HInv, FlagInv, Marking
<1>5. \A q \in Procs : pc'[q] = "ep_release" =>
          hdc'[cur'[q]].init # 1 /\ (ret'[q] # 0 => hdc'[cur'[q]].init # 0)
  <2>1. \A q \in Procs : pc[q] = "ep_release" => cur[q] \in Slots
    BY EndHolds DEF EndLabels
  <2> QED
    BY <2>1 DEF HInv, FlagInv, FlagsKept, Marking
<1>6. \A q \in Procs : pc'[q] = "bp_release" /\ ret'[q] # NoHdc =>
          hdc'[ret'[q]].init # 0 /\ ret'[q] \notin leaked' /\ \A o \in Procs : cur'[o] # ret'[q]
  BY <1>1 DEF HInv, FlagInv, FlagsKept, Marking
<1>7. NoSharedHdc'
  BY DEF HInv, NoSharedHdc
<1> QED
  BY <1>2, <1>3, <1>4, <1>5, <1>6, <1>7 DEF FlagInv

\* After the first pending call only direct calls can follow.
LEMMA TailDirect ==
    ASSUME NEW p \in Procs, NEW s \in Seq(Syscall), s # <<>>, GoodCalls(p, s)
    PROVE  /\ Tail(s) \in Seq(Syscall)
           /\ \A i \in 1..Len(Tail(s)) : Tail(s)[i].call = "direct" /\ Tail(s)[i].hdc \in Slots
<1>1. Tail(s) \in Seq(Syscall) /\ Len(Tail(s)) = Len(s) - 1 /\ Len(s) \in Nat
  OBVIOUS
<1> SUFFICES ASSUME NEW i \in 1..Len(Tail(s))
             PROVE  Tail(s)[i].call = "direct" /\ Tail(s)[i].hdc \in Slots
  BY <1>1
<1>2. i + 1 \in 1..Len(s) /\ Tail(s)[i] = s[i + 1] /\ Len(s) # 1
  BY <1>1
<1>3. s[i + 1] \in Syscall
  BY <1>2
<1>4. GoodCall(p, s[i + 1], Len(s))
  BY <1>2 DEF GoodCalls
<1>5. s[i + 1].call \in {"beginpaint", "endpaint", "direct", "writeQueue"}
  BY <1>3 DEF Syscall
<1> QED
  BY <1>2, <1>4, <1>5 DEF GoodCall

\* A return from a call.
LEMMA ReturnCalls ==
    ASSUME HInv, NEW p \in Procs, NEW c \in Slots \cup {NoHdc}, pc[p] # "user", Return(p, c),
           \A q \in Procs : q # p /\ cur[q] # NoHdc => hdc'[cur[q]].queueEnd = hdc[cur[q]].queueEnd
    PROVE  /\ CallInv'
           /\ pc' \in [Procs -> Labels] /\ todo' \in [Procs -> Seq(Syscall)]
           /\ cur' \in [Procs -> Slots \cup {NoHdc}] /\ ret' \in [Procs -> Slots \cup {NoHdc}]
           /\ idx' \in [Procs -> Nat]
<1> USE DEF Return, Goto
<1>0. /\ todo[p] \in Seq(Syscall) /\ todo[p] # <<>> /\ GoodCalls(p, todo[p])
      /\ "user" \in Labels
  BY DEF HInv, TypeOK, CallInv, CallOK, PcCall, Labels
<1>1. /\ Tail(todo[p]) \in Seq(Syscall)
      /\ \A i \in 1..Len(Tail(todo[p])) :
            Tail(todo[p])[i].call = "direct" /\ Tail(todo[p])[i].hdc \in Slots
  BY <1>0, TailDirect
<1>2. /\ pc' \in [Procs -> Labels] /\ todo' \in [Procs -> Seq(Syscall)]
      /\ cur' \in [Procs -> Slots \cup {NoHdc}] /\ ret' \in [Procs -> Slots \cup {NoHdc}]
      /\ idx' \in [Procs -> Nat]
  BY <1>0, <1>1 DEF HInv, TypeOK
<1>3. ASSUME NEW q \in Procs PROVE CallOK(q)'
  <2>1. CASE q = p
    <3>1. todo'[p] = Tail(todo[p]) /\ pc'[p] = "user"
      BY DEF HInv, TypeOK
    <3>2. GoodCalls(p, todo[p])'
      BY <1>1, <3>1 DEF GoodCalls, GoodCall
    <3>3. PcCall(p)'
      BY <3>1, UserLabel DEF PcCall, LabelSets
    <3> QED
      BY <2>1, <3>2, <3>3 DEF CallOK
  <2>2. CASE q # p
    <3>1. todo'[q] = todo[q] /\ pc'[q] = pc[q] /\ cur'[q] = cur[q]
      BY <2>2 DEF HInv, TypeOK
    <3>2. CallOK(q)
      BY DEF HInv, CallInv
    <3> QED
      BY <2>2, <3>1, <3>2 DEF CallOK, GoodCalls, GoodCall, PcCall, Arg
  <2> QED
    BY <2>1, <2>2
<1> QED
  BY <1>2, <1>3 DEF CallInv

LEMMA EnterInv ==
    ASSUME Ready, HInv, NEW p \in Procs, Enter(p)
    PROVE  HInv'
<1> USE DEF HInv
<1>0. /\ pc[p] = "user" /\ todo[p] # <<>>
      /\ pc' = [pc EXCEPT ![p] = EntryOf(Arg(p).call)]
      /\ UNCHANGED <<lockinit, lock, hdc, pix, pal, panicked, todo, cur, ret, idx, leaked>>
  BY DEF Enter, At, Goto, kernel
<1>1. Arg(p).call \in {"beginpaint", "endpaint", "direct", "writeQueue"}
  BY <1>0, HeadCall DEF Syscall
<1>2. EntryOf(Arg(p).call) \in Labels
      /\ EntryOf(Arg(p).call) \in {"bp_check", "ep_acquire", "direct", "wq_write"}
  BY <1>1 DEF EntryOf, Labels
<1>3. TypeOK'
  BY <1>0, <1>2 DEF TypeOK
<1>4. LockInv'
  BY <1>0, <1>2 DEF LockInv, InLock, TypeOK
<1>5. CallInv'
  <2>1. PcCall(p)'
    BY <1>0, <1>1 DEF PcCall, EntryOf, Arg, TypeOK, BeginLabels, EndLabels, QueueLabels, DirectLabels
  <2> QED
    BY <1>0, <1>2, <2>1, StayCalls
<1>6. FlagInv' /\ NoSharedHdc'
  BY <1>0, <1>2 DEF FlagInv, NoSharedHdc, TypeOK
<1> QED
  BY <1>3, <1>4, <1>5, <1>6

-----------------------------------------------------------------------------
(* sys_beginpaint *)

LEMMA BeginInv ==
    ASSUME Ready, HInv, NEW p \in Procs, Beginpaint(p)
    PROVE  HInv'
<1> USE HdcAssumption DEF HInv, Ready
<1>1. CASE BeginCheck(p)
  <2>0. /\ pc[p] = "bp_check" /\ pc' = [pc EXCEPT ![p] = "bp_acquire"]
        /\ UNCHANGED <<lockinit, lock, hdc, pix, pal, panicked, todo, cur, ret, idx, leaked>>
    BY <1>1 DEF BeginCheck, At, Goto, kernel, LockInv
  <2>1. TypeOK'
    BY <2>0 DEF TypeOK, Labels
  <2>2. LockInv'
    BY <2>0 DEF LockInv, InLock, TypeOK
  <2>3. PcCall(p)'
    BY <2>0 DEF CallInv, CallOK, PcCall, Arg, TypeOK, BeginLabels, EndLabels, QueueLabels, DirectLabels
  <2>4. CallInv'
    BY <2>0, <2>3, StayCalls DEF Labels
  <2>5. FlagInv' /\ NoSharedHdc'
    BY <2>0 DEF FlagInv, NoSharedHdc, TypeOK
  <2> QED
    BY <2>1, <2>2, <2>4, <2>5
<1>2. CASE BeginInitlock(p) \/ BeginSetLockinit(p)
  BY <1>2 DEF BeginInitlock, BeginSetLockinit, At, LockInv
<1>3. CASE BeginAcquire(p)
  <2>0. /\ pc[p] = "bp_acquire" /\ pc' = [pc EXCEPT ![p] = "bp_scan"] /\ ~lock.locked
        /\ lock' = [locked |-> TRUE, cpu |-> p]
        /\ UNCHANGED <<lockinit, hdc, pix, pal, panicked, todo, cur, ret, idx, leaked>>
    BY <1>3 DEF BeginAcquire, Acquire, At, Goto
  <2>1. TypeOK'
    BY <2>0 DEF TypeOK, Labels
  <2>2. LockInv'
    BY <2>0 DEF LockInv, InLock, TypeOK
  <2>3. PcCall(p)'
    BY <2>0 DEF CallInv, CallOK, PcCall, Arg, TypeOK, BeginLabels, EndLabels, QueueLabels, DirectLabels
  <2>4. CallInv'
    BY <2>0, <2>3, StayCalls DEF Labels
  <2>5. FlagInv' /\ NoSharedHdc'
    BY <2>0 DEF FlagInv, NoSharedHdc, TypeOK
  <2> QED
    BY <2>1, <2>2, <2>4, <2>5
<1>4. CASE BeginScan(p)
  <2>0. /\ pc[p] = "bp_scan"
        /\ UNCHANGED <<lockinit, lock, hdc, pix, pal, panicked, todo, cur, idx, leaked>>
    BY <1>4 DEF BeginScan, At, kernel
  <2>1. \/ /\ ret' = [ret EXCEPT ![p] = NoHdc] /\ pc' = [pc EXCEPT ![p] = "bp_release"]
        \/ /\ pc' = [pc EXCEPT ![p] = "bp_claim"]
           /\ \E h \in Slots : hdc[h].init = 0 /\ ret' = [ret EXCEPT ![p] = h]
    BY <1>4 DEF BeginScan, Goto, Free
  <2>2. TypeOK'
    <3>1. pc' \in [Procs -> Labels]
      BY <2>1 DEF TypeOK, Labels
    <3>2. ret' \in [Procs -> Slots \cup {NoHdc}]
      BY <2>1 DEF TypeOK
    <3> QED
      BY <2>0, <3>1, <3>2 DEF TypeOK
  <2>3. LockInv'
    BY <2>0, <2>1 DEF LockInv, InLock, TypeOK
  <2>4. PcCall(p)'
    BY <2>0, <2>1 DEF CallInv, CallOK, PcCall, Arg, TypeOK, BeginLabels, EndLabels, QueueLabels, DirectLabels
  <2>5. CallInv'
    BY <2>0, <2>1, <2>4, StayCalls DEF Labels
  <2>6. FlagInv'
    <3>1. \A q \in Procs : q # p => pc'[q] = pc[q] /\ ret'[q] = ret[q]
      BY <2>1 DEF TypeOK
    <3>2. \/ pc'[p] = "bp_release" /\ ret'[p] = NoHdc
          \/ pc'[p] = "bp_claim" /\ ret'[p] \in Slots /\ hdc[ret'[p]].init = 0
      BY <2>1 DEF TypeOK
    <3>3. pc[p] # "ep_release" /\ pc'[p] # "ep_release"
      BY <2>0, <3>2
    <3>4. \A q \in Procs : pc[q] # "ep_release"
      BY <2>0 DEF LockInv, InLock
    <3>5. \A h \in Slots : hdc[h].init = 0 => h \notin leaked /\ \A q \in Procs : cur[q] # h
      BY <3>4 DEF FlagInv, Slots, NoHdc
    <3> QED
      BY <2>0, <3>1, <3>2, <3>3, <3>5 DEF FlagInv
  <2>7. NoSharedHdc'
    BY <2>0 DEF NoSharedHdc
  <2> QED
    BY <2>2, <2>3, <2>5, <2>6, <2>7
<1>5. CASE BeginClaim(p)
  <2> DEFINE h == ret[p]
  <2>0. /\ pc[p] = "bp_claim" /\ pc' = [pc EXCEPT ![p] = "bp_release"]
        /\ hdc' = [hdc EXCEPT ![h] = Blank(1, hdc[h].queue)]
        /\ UNCHANGED <<lockinit, lock, pix, pal, panicked, todo, cur, ret, idx, leaked>>
    BY <1>5 DEF BeginClaim, At, Goto
  <2>1. h \in Slots
    BY <2>0 DEF FlagInv
  <2>2. Blank(1, hdc[h].queue) \in Contexts /\ Blank(1, hdc[h].queue).init = 1
    BY <2>1 DEF TypeOK, Contexts, Blank
  <2>3. \A q \in Procs : q # p => ~InLock(q)
    BY <2>0 DEF LockInv, InLock
  <2>4. h \notin leaked /\ \A q \in Procs : cur[q] # h
    BY <2>0 DEF FlagInv
  <2>5. TypeOK'
    BY <2>0, <2>1, <2>2 DEF TypeOK, Labels
  <2>6. LockInv'
    BY <2>0 DEF LockInv, InLock, TypeOK
  <2>7. PcCall(p)'
    BY <2>0 DEF CallInv, CallOK, PcCall, Arg, TypeOK, BeginLabels, EndLabels, QueueLabels, DirectLabels
  <2>8. CallInv'
    <3>1. \A q \in Procs : cur[q] # NoHdc => hdc'[cur[q]].queueEnd = hdc[cur[q]].queueEnd
      BY <2>0, <2>4 DEF TypeOK
    <3> QED
      BY <2>0, <2>7, <3>1, StayCalls DEF Labels
  <2>9. FlagInv'
    <3>1. \A g \in Slots : g # h => hdc'[g] = hdc[g]
      BY <2>0 DEF TypeOK
    <3>2. hdc'[h].init = 1
      BY <2>0, <2>1, <2>2 DEF TypeOK
    <3>3. \A q \in Procs : q # p => pc'[q] = pc[q] /\ pc[q] \notin {"bp_claim", "bp_release", "ep_release"}
      BY <2>0, <2>3 DEF InLock, TypeOK
    <3> QED
      BY <2>0, <2>1, <2>4, <3>1, <3>2, <3>3 DEF FlagInv, TypeOK
  <2>10. NoSharedHdc'
    BY <2>0 DEF NoSharedHdc
  <2> QED
    BY <2>5, <2>6, <2>8, <2>9, <2>10
<1>6. CASE BeginRelease(p)
  <2>0. /\ pc[p] = "bp_release" /\ Holding(p) /\ lock' = FreeLock /\ Return(p, ret[p])
        /\ UNCHANGED <<lockinit, hdc, pix, pal, panicked, leaked>>
    BY <1>6 DEF BeginRelease, Release, Holding, At, LockInv, InLock
  <2>1. ret[p] \in Slots \cup {NoHdc} /\ FreeLock \in [locked : BOOLEAN, cpu : Procs \cup {NoProc}]
    BY DEF TypeOK, FreeLock
  <2>2. /\ CallInv'
        /\ pc' \in [Procs -> Labels] /\ todo' \in [Procs -> Seq(Syscall)]
        /\ cur' \in [Procs -> Slots \cup {NoHdc}] /\ ret' \in [Procs -> Slots \cup {NoHdc}]
        /\ idx' \in [Procs -> Nat]
    BY <2>0, <2>1, ReturnCalls
  <2>3. TypeOK'
    BY <2>0, <2>1, <2>2 DEF TypeOK
  <2>4. /\ \A q \in Procs : q # p => ~InLock(q) /\ pc'[q] = pc[q] /\ cur'[q] = cur[q]
        /\ pc'[p] = "user" /\ cur'[p] = ret[p]
    BY <2>0 DEF LockInv, InLock, Return, Goto, TypeOK
  <2>5. LockInv'
    BY <2>0, <2>4 DEF LockInv, InLock
  <2>6. FlagInv'
    BY <2>0, <2>4 DEF FlagInv, InLock
  <2>7. NoSharedHdc'
    <3>1. NoHdc \notin leaked
      BY DEF TypeOK, Slots, NoHdc
    <3> QED
      BY <2>0, <2>4, <3>1 DEF FlagInv, NoSharedHdc
  <2> QED
    BY <2>2, <2>3, <2>5, <2>6, <2>7
<1> QED
  BY <1>1, <1>2, <1>3, <1>4, <1>5, <1>6 DEF Beginpaint

-----------------------------------------------------------------------------
(* sys_endpaint *)

\* Changing cursors and pens only.
CursorStep == /\ hdc' \in [Slots -> Contexts]
              /\ \A g \in Slots : hdc'[g].init = hdc[g].init /\ hdc'[g].queueEnd = hdc[g].queueEnd

\* Running command c moves a cursor or a pen and draws.
LEMMA RunStep ==
    ASSUME TypeOK, NEW h \in Slots, NEW c, c.a \in Int, c.op = "declare" => c.b \in 0..ColMax,
           pix' = Run(Drawing(hdc[h]), c).s, pal' = Run(Drawing(hdc[h]), c).m,
           hdc' = [hdc EXCEPT ![h].x = Run(Drawing(hdc[h]), c).x,
                              ![h].pen = Run(Drawing(hdc[h]), c).pen]
    PROVE  CursorStep /\ pix' \in [Pixels -> Pens] /\ pal' \in [Pens -> 0..ColMax]
<1> DEFINE r == Run(Drawing(hdc[h]), c)
<1>1. r \in DrawState
  BY RunType, DrawingType
<1> HIDE DEF r
<1>2. r.s \in [Pixels -> Pens] /\ r.m \in [Pens -> 0..ColMax] /\ r.x \in Int /\ r.pen \in Int
  BY <1>1 DEF DrawState
<1>3. hdc' = [hdc EXCEPT ![h].x = r.x, ![h].pen = r.pen]
  BY DEF r
<1>4. hdc \in [Slots -> Contexts]
  BY DEF TypeOK
<1>5. CursorStep
  <2>1. hdc[h] \in Contexts
    BY <1>4
  <2>2. hdc' = [hdc EXCEPT ![h] = [hdc[h] EXCEPT !.x = r.x, !.pen = r.pen]]
    BY <1>3, <1>4
  <2>3. [hdc[h] EXCEPT !.x = r.x, !.pen = r.pen] \in Contexts
    BY <1>2, <2>1 DEF Contexts
  <2>4. /\ [hdc[h] EXCEPT !.x = r.x, !.pen = r.pen].init = hdc[h].init
        /\ [hdc[h] EXCEPT !.x = r.x, !.pen = r.pen].queueEnd = hdc[h].queueEnd
    BY <2>1 DEF Contexts
  <2> QED
    BY <1>4, <2>2, <2>3, <2>4 DEF CursorStep
<1>6. pix' = r.s /\ pal' = r.m
  BY DEF r
<1> QED
  BY <1>2, <1>5, <1>6

LEMMA EndInv ==
    ASSUME Ready, HInv, NEW p \in Procs, Endpaint(p)
    PROVE  HInv'
<1> USE HdcAssumption DEF HInv, Ready
<1>1. CASE EndAcquire(p)
  <2>0. /\ pc[p] = "ep_acquire" /\ ~lock.locked
        /\ lock' = [locked |-> TRUE, cpu |-> p]
        /\ idx' = [idx EXCEPT ![p] = 0]
        /\ UNCHANGED <<lockinit, hdc, pix, pal, panicked, todo, cur, ret, leaked>>
    BY <1>1 DEF EndAcquire, Acquire, At
  <2>a. PICK label \in {"ep_exec", "ep_reset"} : pc' = [pc EXCEPT ![p] = label]
    BY <1>1 DEF EndAcquire, Acquire, Goto
  <2>1. TypeOK'
    BY <2>0, <2>a DEF TypeOK, Labels
  <2>2. LockInv'
    BY <2>0, <2>a DEF LockInv, InLock, TypeOK
  <2>3. PcCall(p)'
    BY <2>0, <2>a DEF CallInv, CallOK, PcCall, Arg, TypeOK, BeginLabels, EndLabels, QueueLabels, DirectLabels
  <2>4. CallInv'
    BY <2>0, <2>a, <2>3, StayCalls DEF Labels
  <2>5. FlagInv' /\ NoSharedHdc'
    BY <2>0, <2>a DEF FlagInv, NoSharedHdc, TypeOK
  <2> QED
    BY <2>1, <2>2, <2>4, <2>5
<1>2. CASE EndExec(p)
  <2> DEFINE c == hdc[Arg(p).hdc].queue[idx[p] + 1]
  <2>0. /\ pc[p] = "ep_exec"
        /\ UNCHANGED <<lockinit, lock, pc, todo, cur, ret, leaked>>
    BY <1>2 DEF EndExec, At
  <2>1. /\ CursorStep /\ pix' \in [Pixels -> Pens] /\ pal' \in [Pens -> 0..ColMax]
        /\ idx' \in [Procs -> Nat] /\ panicked' \in BOOLEAN
    <3>1. CASE idx[p] < QCap /\ c.op # "garbage"
      <4>1. idx[p] + 1 \in 1..QCap
        BY <3>1 DEF TypeOK
      <4>2. hdc[Arg(p).hdc].queue \in [1..QCap -> Entries]
        BY <2>0, EndHolds DEF TypeOK, Contexts, EndLabels
      <4>3. c \in Entries
        BY <4>1, <4>2
      <4>4. c.hdc \in Slots /\ c.a \in Int /\ (c.op = "declare" => c.b \in 0..ColMax)
        BY <4>3 DEF Entries
      <4>5. /\ pix' = Run(Drawing(hdc[c.hdc]), c).s
            /\ pal' = Run(Drawing(hdc[c.hdc]), c).m
            /\ hdc' = [hdc EXCEPT ![c.hdc].x = Run(Drawing(hdc[c.hdc]), c).x,
                                  ![c.hdc].pen = Run(Drawing(hdc[c.hdc]), c).pen]
            /\ idx' = [idx EXCEPT ![p] = @ + 1]
            /\ panicked' = panicked
        BY <1>2, <3>1 DEF EndExec
      <4> HIDE DEF c
      <4>6. CursorStep /\ pix' \in [Pixels -> Pens] /\ pal' \in [Pens -> 0..ColMax]
        BY <4>4, <4>5, RunStep
      <4> QED
        BY <4>5, <4>6 DEF TypeOK
    <3>2. CASE ~(idx[p] < QCap /\ c.op # "garbage")
      BY <1>2, <3>2 DEF EndExec, TypeOK, CursorStep
    <3> QED
      BY <3>1, <3>2
  <2>2. TypeOK'
    BY <2>0, <2>1 DEF TypeOK, CursorStep
  <2>3. LockInv'
    BY <2>0 DEF LockInv, InLock
  <2>4. PcCall(p)' /\ pc' = [pc EXCEPT ![p] = "ep_exec"]
    BY <2>0 DEF CallInv, CallOK, PcCall, Arg, TypeOK
  <2>5. CallInv'
    <3>1. \A q \in Procs : cur[q] # NoHdc => hdc'[cur[q]].queueEnd = hdc[cur[q]].queueEnd
      BY <2>1 DEF CursorStep, TypeOK
    <3> QED
      BY <2>0, <2>4, <3>1, StayCalls DEF Labels
  <2>6. FlagInv' /\ NoSharedHdc'
    <3>1. FlagsKept
      BY <2>1 DEF FlagsKept, CursorStep
    <3> QED
      BY <2>0, <3>1, KeepFlags
  <2> QED
    BY <2>2, <2>3, <2>5, <2>6
<1>3. CASE EndExecDone(p)
  <2>0. /\ pc[p] = "ep_exec" /\ pc' = [pc EXCEPT ![p] = "ep_reset"]
        /\ UNCHANGED <<lockinit, lock, hdc, pix, pal, panicked, todo, cur, ret, idx, leaked>>
    BY <1>3 DEF EndExecDone, At, Goto, kernel
  <2>1. TypeOK'
    BY <2>0 DEF TypeOK, Labels
  <2>2. LockInv'
    BY <2>0 DEF LockInv, InLock, TypeOK
  <2>3. PcCall(p)'
    BY <2>0 DEF CallInv, CallOK, PcCall, Arg, TypeOK, BeginLabels, EndLabels, QueueLabels, DirectLabels
  <2>4. CallInv'
    BY <2>0, <2>3, StayCalls DEF Labels
  <2>5. FlagInv' /\ NoSharedHdc'
    BY <2>0 DEF FlagInv, NoSharedHdc, TypeOK
  <2> QED
    BY <2>1, <2>2, <2>4, <2>5
<1>4. CASE EndReset(p)
  <2> DEFINE h == cur[p]
  <2>1. pc[p] = "ep_reset" /\ Arg(p).hdc = h /\ h \in Slots /\ h # NoHdc
    BY <1>4, EndHolds DEF EndReset, At, EndLabels, Slots, NoHdc
  <2>2. hdc[h].init # 0
    BY <2>1 DEF FlagInv
  <2>3. /\ \/ /\ hdc' = [hdc EXCEPT ![h] = Blank(0, hdc[h].queue)]
              /\ ret' = [ret EXCEPT ![p] = 0]
           \/ /\ hdc' = hdc /\ hdc[h].init # 1
              /\ ret' = [ret EXCEPT ![p] = -1]
        /\ pc' = [pc EXCEPT ![p] = "ep_release"]
        /\ UNCHANGED <<lockinit, lock, pix, pal, panicked, todo, cur, idx, leaked>>
    BY <1>4, <2>1 DEF EndReset, Goto
  <2>4. Blank(0, hdc[h].queue) \in Contexts /\ Blank(0, hdc[h].queue).init = 0
    BY <2>1 DEF TypeOK, Contexts, Blank
  <2>5. \A q \in Procs : q # p => ~InLock(q) /\ cur[q] # h
    BY <2>1 DEF LockInv, InLock, NoSharedHdc
  <2>6. TypeOK'
    <3>1. 0 \in Slots /\ -1 \in Slots \cup {NoHdc}
      BY DEF Slots, NoHdc
    <3>2. hdc' \in [Slots -> Contexts] /\ ret' \in [Procs -> Slots \cup {NoHdc}]
      <4>1. hdc \in [Slots -> Contexts] /\ ret \in [Procs -> Slots \cup {NoHdc}]
        BY DEF TypeOK
      <4>2. ret' \in [Procs -> Slots \cup {NoHdc}]
        BY <2>3, <3>1, <4>1
      <4>3. hdc' \in [Slots -> Contexts]
        BY <2>3, <2>4, <4>1
      <4> QED
        BY <4>2, <4>3
    <3> QED
      BY <2>3, <3>2 DEF TypeOK, Labels
  <2>7. LockInv'
    BY <2>1, <2>3 DEF LockInv, InLock, TypeOK
  <2>8. PcCall(p)'
    BY <2>1, <2>3 DEF CallInv, CallOK, PcCall, Arg, TypeOK, BeginLabels, EndLabels, QueueLabels, DirectLabels
  <2>9. CallInv'
    <3> SUFFICES ASSUME NEW q \in Procs PROVE CallOK(q)'
      BY DEF CallInv
    <3>1. CASE q = p
      <4>1. Arg(p).call = "endpaint" /\ todo[p] # <<>>
        BY <2>1 DEF CallInv, CallOK, PcCall, EndLabels
      <4>2. Len(todo[p]) = 1 /\ todo[p] \in Seq(Syscall)
        BY <4>1, HeadCall DEF GoodCall, TypeOK
      <4>3. GoodCalls(p, todo[p]) /\ \A i \in 1..Len(todo[p]) : todo[p][i].call = "endpaint"
        BY <4>1, <4>2 DEF CallInv, CallOK, Arg
      <4>4. GoodCalls(p, todo[p])'
        BY <2>3, <4>3 DEF GoodCalls, GoodCall
      <4> QED
        BY <2>8, <3>1, <4>4 DEF CallOK
    <3>2. CASE q # p
      <4>1. CallOK(q) /\ todo'[q] = todo[q] /\ pc'[q] = pc[q] /\ cur'[q] = cur[q]
        BY <2>3, <3>2 DEF CallInv, TypeOK
      <4>2. cur[q] # NoHdc => hdc'[cur[q]] = hdc[cur[q]]
        BY <2>3, <2>5, <3>2 DEF TypeOK
      <4> QED
        BY <4>1, <4>2 DEF CallOK, GoodCalls, GoodCall, PcCall, Arg
    <3> QED
      BY <3>1, <3>2
  <2>10. FlagInv'
    <3>1. \A g \in Slots : g # h => hdc'[g] = hdc[g]
      BY <2>3 DEF TypeOK
    <3>2. \A q \in Procs : q # p => /\ pc'[q] = pc[q] /\ ret'[q] = ret[q]
                                    /\ pc[q] \notin {"bp_claim", "bp_release", "ep_release"}
      BY <2>3, <2>5 DEF InLock, TypeOK
    <3>3. pc'[p] = "ep_release" /\ h \notin leaked
      BY <2>1, <2>3 DEF TypeOK, NoSharedHdc
    <3>4. hdc'[h].init # 1 /\ (ret'[p] # 0 => hdc'[h].init # 0)
      BY <2>1, <2>2, <2>3, <2>4 DEF TypeOK
    <3>5. \A q \in Procs : q # p /\ cur[q] # NoHdc => hdc'[cur[q]].init # 0
      BY <2>5, <3>1, <3>2 DEF FlagInv, TypeOK
    <3>6. \A g \in leaked : hdc'[g].init # 0
      BY <3>1, <3>3 DEF FlagInv, TypeOK
    <3> QED
      BY <2>3, <3>2, <3>3, <3>4, <3>5, <3>6 DEF FlagInv
  <2>11. NoSharedHdc'
    BY <2>3 DEF NoSharedHdc
  <2> QED
    BY <2>6, <2>7, <2>9, <2>10, <2>11
<1>5. CASE EndRelease(p)
  <2> DEFINE c == IF ret[p] = 0 \/ Arg(p).a = 0 THEN NoHdc ELSE cur[p]
  <2>0. /\ pc[p] = "ep_release" /\ Holding(p) /\ lock' = FreeLock /\ Return(p, c)
        /\ UNCHANGED <<lockinit, hdc, pix, pal, panicked, leaked>>
    BY <1>5 DEF EndRelease, Release, Holding, At, LockInv, InLock
  <2>k. /\ c \in Slots \cup {NoHdc} /\ (c # NoHdc => c = cur[p])
        /\ c # NoHdc => hdc[c].init # 0
    BY <2>0 DEF TypeOK, FlagInv
  <2> HIDE DEF c
  <2>1. FreeLock \in [locked : BOOLEAN, cpu : Procs \cup {NoProc}]
    BY DEF FreeLock
  <2>2. /\ CallInv'
        /\ pc' \in [Procs -> Labels] /\ todo' \in [Procs -> Seq(Syscall)]
        /\ cur' \in [Procs -> Slots \cup {NoHdc}] /\ ret' \in [Procs -> Slots \cup {NoHdc}]
        /\ idx' \in [Procs -> Nat]
    BY <2>0, <2>k, ReturnCalls
  <2>3. TypeOK'
    BY <2>0, <2>1, <2>2 DEF TypeOK
  <2>4. /\ \A q \in Procs : q # p => ~InLock(q) /\ pc'[q] = pc[q] /\ cur'[q] = cur[q]
        /\ pc'[p] = "user" /\ cur'[p] = c
    BY <2>0 DEF LockInv, InLock, Return, Goto, TypeOK
  <2>5. LockInv'
    BY <2>0, <2>4 DEF LockInv, InLock
  <2>6. FlagInv'
    BY <2>0, <2>k, <2>4 DEF FlagInv, InLock
  <2>7. NoSharedHdc'
    <3>1. NoHdc \notin leaked
      BY DEF TypeOK, Slots, NoHdc
    <3> QED
      BY <2>0, <2>k, <2>4, <3>1 DEF NoSharedHdc
  <2> QED
    BY <2>2, <2>3, <2>5, <2>6, <2>7
<1> QED
  BY <1>1, <1>2, <1>3, <1>4, <1>5 DEF Endpaint

-----------------------------------------------------------------------------
(* The calls that take no lock *)

\* A process inside an unlocked call names a context of the table, and in
\* writeQueue its own, whose queue has not wrapped.
LEMMA UnlockedArg ==
    ASSUME HInv, NEW p \in Procs, pc[p] \in DirectLabels \cup QueueLabels
    PROVE  /\ Arg(p) \in Syscall /\ Arg(p).hdc \in Slots
           /\ pc[p] \in QueueLabels => /\ Arg(p).hdc = cur[p] /\ cur[p] # NoHdc
                                       /\ Arg(p).op \in Ops
                                       /\ pc[p] # "wq_inc" => hdc[cur[p]].queueEnd \in Nat
<1>1. todo[p] # <<>> /\ Arg(p).call \in {"direct", "writeQueue"}
      /\ (pc[p] \in QueueLabels => Arg(p).call = "writeQueue")
  BY DEF HInv, CallInv, CallOK, PcCall, DirectLabels, QueueLabels
<1>2. Arg(p) \in Syscall /\ GoodCall(p, Arg(p), Len(todo[p]))
  BY <1>1, HeadCall
<1>3. cur[p] \in Slots \cup {NoHdc}
  BY DEF HInv, TypeOK
<1> QED
  BY <1>1, <1>2, <1>3 DEF GoodCall

\* Such a call returns, having changed no init flag and no queue but its own.
LEMMA UnlockedReturn ==
    ASSUME HInv, NEW p \in Procs, pc[p] \in DirectLabels \cup QueueLabels, Return(p, cur[p]),
           UNCHANGED <<lockinit, lock, panicked, leaked>>,
           pix' \in [Pixels -> Pens], pal' \in [Pens -> 0..ColMax], hdc' \in [Slots -> Contexts],
           \A g \in Slots : hdc'[g].init = hdc[g].init,
           \A q \in Procs : q # p /\ cur[q] # NoHdc => hdc'[cur[q]].queueEnd = hdc[cur[q]].queueEnd
    PROVE  HInv'
<1> USE DEF HInv
<1>1. pc[p] # "user" /\ pc[p] # "ep_release" /\ cur[p] \in Slots \cup {NoHdc}
  BY DEF DirectLabels, QueueLabels, TypeOK
<1>2. /\ CallInv'
      /\ pc' \in [Procs -> Labels] /\ todo' \in [Procs -> Seq(Syscall)]
      /\ cur' \in [Procs -> Slots \cup {NoHdc}] /\ ret' \in [Procs -> Slots \cup {NoHdc}]
      /\ idx' \in [Procs -> Nat]
  BY <1>1, ReturnCalls
<1>3. TypeOK'
  BY <1>2 DEF TypeOK
<1>4. /\ \A q \in Procs : q # p => pc'[q] = pc[q] /\ ret'[q] = ret[q]
      /\ \A q \in Procs : cur'[q] = cur[q]
      /\ pc'[p] = "user"
  BY DEF Return, Goto, TypeOK
<1>5. LockInv'
  BY <1>4 DEF LockInv, InLock
<1>6. FlagInv' /\ NoSharedHdc'
  BY <1>1, <1>4, KeepFlags DEF FlagsKept, Marking
<1> QED
  BY <1>2, <1>3, <1>5, <1>6

\* A command stored behind a full queue: the table keeps its type, the next
\* context is marked, though not by 1, and only the full queue loses its length.
LEMMA SpillStep ==
    ASSUME HInv, NEW h \in Slots,
           \E x \in Pixels, pen \in Pens : hdc' = Spill(h, x, pen)
    PROVE  /\ hdc' \in [Slots -> Contexts]
           /\ FlagsKept
           /\ \A g \in Slots : g # h => hdc'[g].queueEnd = hdc[g].queueEnd
<1>1. PICK x \in Pixels, pen \in Pens : hdc' = Spill(h, x, pen)
  OBVIOUS
<1>2. x \in Int /\ pen \in Int /\ h \in Nat /\ 1 \in 1..QCap
  BY HdcAssumption DEF Pixels, Pens, Slots
<1>3. Garbage \in Entries
  BY HdcAssumption DEF Garbage, Entries, Slots
<1>4. ASSUME NEW g \in Slots
      PROVE  /\ hdc'[g] \in Contexts
             /\ hdc'[g].init = hdc[g].init \/ hdc'[g].init \notin {0, 1}
             /\ g # h => hdc'[g].queueEnd = hdc[g].queueEnd
  <2>1. hdc[g] \in Contexts /\ g \in Nat
    BY HdcAssumption DEF HInv, TypeOK, Slots
  <2>2. CASE g = h
    <3>1. h # h + 1
      BY <1>2
    <3>2. hdc'[h] = [hdc[h] EXCEPT !.queueEnd = -2]
      BY <1>1, <3>1, Zenon DEF Spill
    <3> QED
      BY <2>1, <2>2, <3>2 DEF Contexts
  <2>3. CASE g # h /\ g = h + 1
    <3>1. hdc'[g] = [hdc[g] EXCEPT !.init = 48 + h, !.x = x, !.pen = pen, !.queue[1] = Garbage]
      BY <1>1, <2>3 DEF Spill
    <3>2. [hdc[g].queue EXCEPT ![1] = Garbage] \in [1..QCap -> Entries]
      BY <1>2, <1>3, <2>1 DEF Contexts
    <3>3. 48 + h \in Int /\ 48 + h \notin {0, 1}
      BY <1>2
    <3> QED
      BY <1>2, <2>1, <3>1, <3>2, <3>3 DEF Contexts
  <2>4. CASE g # h /\ g # h + 1
    <3>1. hdc'[g] = hdc[g]
      BY <1>1, <2>4 DEF Spill
    <3> QED
      BY <2>1, <3>1
  <2> QED
    BY <2>2, <2>3, <2>4
<1>5. hdc' = [g \in Slots |-> hdc'[g]]
  BY <1>1 DEF Spill
<1> QED
  BY <1>4, <1>5 DEF FlagsKept

LEMMA UnlockedInv ==
    ASSUME Ready, HInv, NEW p \in Procs, Unlocked(p)
    PROVE  HInv'
<1> USE HdcAssumption DEF HInv, Ready
<1> DEFINE s == Arg(p)
<1>t. /\ hdc \in [Slots -> Contexts] /\ pix \in [Pixels -> Pens] /\ pal \in [Pens -> 0..ColMax]
      /\ \A q \in Procs : cur[q] \in Slots \cup {NoHdc}
  BY DEF TypeOK
<1>1. CASE DirectCall(p)
  <2> DEFINE r == Run(Drawing(hdc[s.hdc]), CapDirect(s))
  <2>0. pc[p] = "direct" /\ UNCHANGED <<lockinit, lock, panicked, leaked>>
    BY <1>1 DEF DirectCall, At
  <2>1. /\ pc[p] \in DirectLabels /\ s \in Syscall /\ s.hdc \in Slots
        /\ CapDirect(s).a \in Int
        /\ CapDirect(s).op = "declare" => CapDirect(s).b \in 0..ColMax
    BY <2>0, UnlockedArg, DirectType DEF DirectLabels
  <2>2. ASSUME UNCHANGED <<hdc, pix, pal>>, Return(p, cur[p])
        PROVE  HInv'
    BY <1>t, <2>0, <2>1, <2>2, UnlockedReturn
  <2>3. ASSUME pix' = r.s, pal' = r.m, Return(p, cur[p]),
               hdc' = [hdc EXCEPT ![s.hdc].x = r.x, ![s.hdc].pen = r.pen]
        PROVE  HInv'
    <3>1. CursorStep /\ pix' \in [Pixels -> Pens] /\ pal' \in [Pens -> 0..ColMax]
      BY <2>1, <2>3, RunStep
    <3>2. \A q \in Procs : cur[q] # NoHdc => hdc'[cur[q]].queueEnd = hdc[cur[q]].queueEnd
      BY <1>t, <3>1 DEF CursorStep
    <3> QED
      BY <2>0, <2>1, <2>3, <3>1, <3>2, UnlockedReturn DEF CursorStep
  <2>4. ASSUME pix' = r.s, Goto(p, "lineto_move"), UNCHANGED <<hdc, pal, todo, cur, ret, idx>>
        PROVE  HInv'
    <3>1. r \in DrawState
      BY <2>1, RunType, DrawingType
    <3>2. pix' \in [Pixels -> Pens]
      BY <2>4, <3>1 DEF DrawState
    <3>3. pc' = [pc EXCEPT ![p] = "lineto_move"]
      BY <2>4 DEF Goto
    <3>4. TypeOK'
      BY <2>0, <2>4, <3>2, <3>3 DEF TypeOK, Labels
    <3>5. LockInv'
      BY <2>0, <3>3 DEF LockInv, InLock, TypeOK
    <3>6. PcCall(p)'
      BY <2>0, <2>4, <3>3 DEF CallInv, CallOK, PcCall, Arg, TypeOK, BeginLabels, EndLabels, QueueLabels, DirectLabels
    <3>7. CallInv'
      BY <2>0, <2>4, <3>3, <3>6, StayCalls DEF Labels
    <3>8. FlagInv' /\ NoSharedHdc'
      BY <2>0, <2>4, <3>3 DEF FlagInv, NoSharedHdc, TypeOK
    <3> QED
      BY <3>4, <3>5, <3>7, <3>8
  <2> QED
    BY <1>1, <2>2, <2>3, <2>4 DEF DirectCall
<1>2. CASE LinetoMove(p)
  <2> DEFINE v == ValueCapper(s.a, Width - 1)
  <2>0. /\ pc[p] = "lineto_move" /\ Return(p, cur[p])
        /\ hdc' = [hdc EXCEPT ![s.hdc].x = v]
        /\ UNCHANGED <<lockinit, lock, pix, pal, panicked, leaked>>
    BY <1>2 DEF LinetoMove, At
  <2>1. pc[p] \in DirectLabels /\ s \in Syscall /\ s.hdc \in Slots
    BY <2>0, UnlockedArg DEF DirectLabels
  <2>2. v \in 0..(Width - 1)
    BY <2>1, CapperRange DEF Syscall
  <2>3. v \in Int
    BY <2>2
  <2> HIDE DEF v
  <2>4. CursorStep
    <3>1. hdc[s.hdc] \in Contexts
      BY <1>t, <2>1
    <3>2. [hdc[s.hdc] EXCEPT !.x = v] \in Contexts
      BY <2>3, <3>1 DEF Contexts
    <3>3. /\ [hdc[s.hdc] EXCEPT !.x = v].init = hdc[s.hdc].init
          /\ [hdc[s.hdc] EXCEPT !.x = v].queueEnd = hdc[s.hdc].queueEnd
      BY <3>1 DEF Contexts
    <3> QED
      BY <1>t, <2>0, <2>1, <3>2, <3>3 DEF CursorStep
  <2>5. \A q \in Procs : cur[q] # NoHdc => hdc'[cur[q]].queueEnd = hdc[cur[q]].queueEnd
    BY <1>t, <2>4 DEF CursorStep
  <2> QED
    BY <1>t, <2>0, <2>1, <2>4, <2>5, UnlockedReturn DEF CursorStep
<1>3. CASE QueueWrite(p)
  <2> DEFINE h == s.hdc
             n == hdc[h].queueEnd
             d == [hdc[h] EXCEPT !.queue = [@ EXCEPT ![n + 1] = CapQueued(s)]]
  <2>0. /\ pc[p] = "wq_write" /\ pc' = [pc EXCEPT ![p] = "wq_inc"]
        /\ UNCHANGED <<lockinit, lock, pix, pal, panicked, todo, cur, ret, idx, leaked>>
    BY <1>3 DEF QueueWrite, At, Goto
  <2>1. s \in Syscall /\ h \in Slots /\ s.op \in Ops /\ n \in Nat /\ h = cur[p]
    BY <2>0, UnlockedArg DEF QueueLabels
  <2>2. hdc[h] \in Contexts
    BY <1>t, <2>1
  <2>3. /\ hdc' \in [Slots -> Contexts]
        /\ FlagsKept
        /\ \A g \in Slots : g # h => hdc'[g].queueEnd = hdc[g].queueEnd
    <3>1. CASE n < QCap
      <4>1. n + 1 \in 1..QCap
        BY <2>1, <3>1
      <4>2. hdc' = [hdc EXCEPT ![h].queue[n + 1] = CapQueued(s)]
        BY <1>3, <2>1, <3>1 DEF QueueWrite
      <4>3. CapQueued(s) \in Entries
        BY <2>1, QueuedType
      <4>4. hdc' = [hdc EXCEPT ![h] = d]
        BY <1>t, <4>2
      <4>5. d \in Contexts /\ d.init = hdc[h].init /\ d.queueEnd = hdc[h].queueEnd
        BY <2>2, <4>3 DEF Contexts
      <4> HIDE DEF d
      <4> QED
        BY <1>t, <2>1, <4>4, <4>5 DEF FlagsKept
    <3>2. CASE n >= QCap
      BY <1>3, <2>1, <3>2, SpillStep DEF QueueWrite
    <3> QED
      BY <2>1, <3>1, <3>2
  <2>4. \A q \in Procs : q # p /\ cur[q] # NoHdc => hdc'[cur[q]].queueEnd = hdc[cur[q]].queueEnd
    BY <1>t, <2>1, <2>3 DEF NoSharedHdc, Slots, NoHdc
  <2>9. TypeOK'
    BY <2>0, <2>3 DEF TypeOK, Labels
  <2>10. LockInv'
    BY <2>0 DEF LockInv, InLock, TypeOK
  <2>11. PcCall(p)'
    BY <2>0 DEF CallInv, CallOK, PcCall, Arg, TypeOK, BeginLabels, EndLabels, QueueLabels, DirectLabels
  <2>13. CallInv'
    BY <2>0, <2>4, <2>11, StayCalls DEF Labels
  <2>14. FlagInv' /\ NoSharedHdc'
    <3>1. pc'[p] = "wq_inc" /\ \A q \in Procs : q # p => pc'[q] = pc[q]
      BY <2>0 DEF TypeOK
    <3> QED
      BY <2>0, <2>3, <3>1, KeepFlags DEF Marking
  <2> QED
    BY <2>9, <2>10, <2>13, <2>14
<1>4. CASE QueueInc(p)
  <2> DEFINE h == s.hdc
             d == [hdc[h] EXCEPT !.queueEnd = hdc[h].queueEnd + 1]
  <2>0. /\ pc[p] = "wq_inc" /\ Return(p, cur[p])
        /\ hdc' = [hdc EXCEPT ![h].queueEnd = @ + 1]
        /\ UNCHANGED <<lockinit, lock, pix, pal, panicked, leaked>>
    BY <1>4 DEF QueueInc, At
  <2>1. pc[p] \in QueueLabels /\ h \in Slots /\ h = cur[p] /\ cur[p] # NoHdc
    BY <2>0, UnlockedArg DEF QueueLabels
  <2>2. hdc[h] \in Contexts
    BY <1>t, <2>1
  <2>3. hdc' = [hdc EXCEPT ![h] = d] /\ d \in Contexts /\ d.init = hdc[h].init
    <3>1. hdc[h].queueEnd + 1 \in Int
      BY <2>2 DEF Contexts
    <3>2. d \in Contexts /\ d.init = hdc[h].init
      BY <2>2, <3>1 DEF Contexts
    <3>3. hdc' = [hdc EXCEPT ![h] = d]
      BY <1>t, <2>0, <2>1
    <3> QED
      BY <3>2, <3>3
  <2> HIDE DEF d
  <2>4. hdc' \in [Slots -> Contexts] /\ \A g \in Slots : hdc'[g].init = hdc[g].init
    BY <1>t, <2>1, <2>3
  <2>5. \A q \in Procs : q # p /\ cur[q] # NoHdc => hdc'[cur[q]].queueEnd = hdc[cur[q]].queueEnd
    BY <1>t, <2>1, <2>3 DEF NoSharedHdc
  <2> QED
    BY <1>t, <2>0, <2>1, <2>4, <2>5, UnlockedReturn
<1> QED
  BY <1>1, <1>2, <1>3, <1>4 DEF Unlocked

-----------------------------------------------------------------------------
(* The theorems *)

LEMMA NextInv ==
    ASSUME Ready, HInv, [Next]_vars
    PROVE  HInv'
<1>1. CASE Next
  BY <1>1, PromptInv, EnterInv, BeginInv, EndInv, UnlockedInv DEF Next, Kernel
<1>2. CASE UNCHANGED vars
  BY <1>2 DEF vars, kernel, local, HInv, TypeOK, LockInv, InLock, CallInv, CallOK, GoodCalls,
              GoodCall, PcCall, Arg, FlagInv, NoSharedHdc
<1> QED
  BY <1>1, <1>2

\* The inductive invariant holds of every behaviour.
LEMMA SpecInv == ASSUME Ready PROVE Spec => []HInv
BY InitInv, NextInv, PTL DEF Spec

\* Every variable keeps its type: no call stores an index outside the table,
\* a pen number the frame buffer cannot hold or a colour above ColMax.
THEOREM TypeCorrect == ASSUME Ready PROVE Spec => []TypeOK
<1>1. HInv => TypeOK
  BY DEF HInv
<1> QED
  BY <1>1, SpecInv, PTL

\* sys_beginpaint never gives a context to two processes, nor one that a
\* killed process left behind.
THEOREM NoSharing == ASSUME Ready PROVE Spec => []NoSharedHdc
<1>1. HInv => NoSharedHdc
  BY DEF HInv
<1> QED
  BY <1>1, SpecInv, PTL

-----------------------------------------------------------------------------
(* What is marked is known to somebody *)

\* The contexts that belong to a process, or to one that was killed.
Owned ==
    {h \in Slots : \/ h \in leaked
                   \/ \E p \in Procs : cur[p] = h \/ (pc[p] = "bp_release" /\ ret[p] = h)}

MarkInv == \A h \in Slots : hdc[h].init = 1 => h \in Owned

\* A step after which everything owned is owned still, and that marks nothing.
LEMMA KeepMarks ==
    ASSUME MarkInv, FlagsKept, \A h \in Slots : hdc[h].init = 1 /\ h \in Owned => h \in Owned'
    PROVE  MarkInv'
BY DEF MarkInv, FlagsKept

\* A step that takes nothing from anybody keeps what is owned.
LEMMA KeepOwners ==
    ASSUME HInv, NEW p \in Procs, leaked' = leaked, cur' = cur,
           pc[p] = "bp_release" => pc'[p] = "bp_release" /\ ret'[p] = ret[p],
           \A q \in Procs : q # p => pc'[q] = pc[q] /\ ret'[q] = ret[q]
    PROVE  Owned \subseteq Owned'
BY DEF Owned

\* The calls that take no lock mark nothing and free nothing.
LEMMA UnlockedFlags ==
    ASSUME HInv, NEW p \in Procs, Unlocked(p)
    PROVE  FlagsKept /\ UNCHANGED <<cur, leaked>>
<1>t. /\ hdc \in [Slots -> Contexts] /\ cur \in [Procs -> Slots \cup {NoHdc}]
      /\ \A g \in Slots : hdc[g] \in Contexts
  BY DEF HInv, TypeOK
<1>0. Arg(p).hdc \in Slots
  BY UnlockedArg DEF Unlocked, DirectCall, LinetoMove, QueueWrite, QueueInc, At,
                     DirectLabels, QueueLabels
<1>1. UNCHANGED <<cur, leaked>>
  BY <1>t DEF Unlocked, DirectCall, LinetoMove, QueueWrite, QueueInc, Return
<1> DEFINE h == Arg(p).hdc
<1>2. CASE DirectCall(p)
  <2> DEFINE r == Run(Drawing(hdc[h]), CapDirect(Arg(p)))
  <2>1. hdc' = hdc \/ hdc' = [hdc EXCEPT ![h].x = r.x, ![h].pen = r.pen]
    BY <1>2 DEF DirectCall
  <2> HIDE DEF r
  <2>2. [hdc[h] EXCEPT !.x = r.x, !.pen = r.pen].init = hdc[h].init
    BY <1>0, <1>t DEF Contexts
  <2>3. hdc' = hdc \/ hdc' = [hdc EXCEPT ![h] = [hdc[h] EXCEPT !.x = r.x, !.pen = r.pen]]
    BY <1>0, <1>t, <2>1
  <2> QED
    BY <1>0, <1>1, <1>t, <2>2, <2>3 DEF FlagsKept
<1>3. CASE LinetoMove(p)
  <2> DEFINE v == ValueCapper(Arg(p).a, Width - 1)
  <2>1. hdc' = [hdc EXCEPT ![h].x = v]
    BY <1>3 DEF LinetoMove
  <2> HIDE DEF v
  <2>2. [hdc[h] EXCEPT !.x = v].init = hdc[h].init
    BY <1>0, <1>t DEF Contexts
  <2> QED
    BY <1>0, <1>1, <1>t, <2>1, <2>2 DEF FlagsKept
<1>4. CASE QueueWrite(p)
  <2> DEFINE n == hdc[h].queueEnd
             e == CapQueued(Arg(p))
  <2>1. hdc' = [hdc EXCEPT ![h].queue[n + 1] = e] \/ \E x \in Pixels, pen \in Pens : hdc' = Spill(h, x, pen)
    BY <1>4 DEF QueueWrite
  <2> HIDE DEF n, e
  <2>2. CASE hdc' = [hdc EXCEPT ![h].queue[n + 1] = e]
    <3>1. [hdc[h] EXCEPT !.queue[n + 1] = e].init = hdc[h].init
      BY <1>0, <1>t DEF Contexts
    <3>2. hdc' = [hdc EXCEPT ![h] = [hdc[h] EXCEPT !.queue[n + 1] = e]]
      BY <1>0, <1>t, <2>2
    <3> QED
      BY <1>0, <1>1, <1>t, <3>1, <3>2 DEF FlagsKept
  <2>3. CASE \E x \in Pixels, pen \in Pens : hdc' = Spill(h, x, pen)
    BY <1>0, <1>1, <2>3, SpillStep
  <2> QED
    BY <2>1, <2>2, <2>3
<1>5. CASE QueueInc(p)
  <2>1. hdc' = [hdc EXCEPT ![h].queueEnd = @ + 1]
    BY <1>5 DEF QueueInc
  <2>2. [hdc[h] EXCEPT !.queueEnd = @ + 1].init = hdc[h].init
    BY <1>0, <1>t DEF Contexts
  <2> QED
    BY <1>0, <1>1, <1>t, <2>1, <2>2 DEF FlagsKept
<1> QED
  BY <1>2, <1>3, <1>4, <1>5 DEF Unlocked

LEMMA MarkNext ==
    ASSUME Ready, HInv, MarkInv, [Next]_vars
    PROVE  MarkInv'
<1>1. CASE UNCHANGED vars
  BY <1>1 DEF vars, kernel, local, MarkInv, Owned
<1>2. ASSUME NEW p \in Procs, Prompt(p)
      PROVE  MarkInv'
  <2>1. FlagsKept
    BY <1>2 DEF Prompt, NewHdc, Exec, Exit, Draw, Killed, Type, kernel, FlagsKept
  <2>2. CASE UNCHANGED <<pc, cur, ret, leaked>>
    BY <2>1, <2>2, KeepMarks DEF Owned
  <2>3. CASE Killed(p)
    <3>1. /\ leaked' = IF cur[p] = NoHdc THEN leaked ELSE leaked \cup {cur[p]}
          /\ \A q \in Procs : q # p => cur'[q] = cur[q]
          /\ UNCHANGED <<pc, ret>>
      BY <2>3 DEF Killed, HInv, TypeOK
    <3>2. NoHdc \notin Slots
      BY HdcAssumption DEF NoHdc, Slots
    <3> QED
      BY <2>1, <3>1, <3>2, KeepMarks DEF Owned
  <2> QED
    BY <1>2, <2>2, <2>3 DEF Prompt, NewHdc, Exec, Exit, Draw, Type
<1>3. ASSUME NEW p \in Procs, Enter(p) \/ Unlocked(p)
      PROVE  MarkInv'
  <2>1. FlagsKept /\ UNCHANGED <<cur, leaked>>
    BY <1>3, UnlockedFlags DEF Enter, kernel, FlagsKept
  <2>2. /\ pc[p] # "bp_release"
        /\ \A q \in Procs : q # p => pc'[q] = pc[q] /\ ret'[q] = ret[q]
    BY <1>3 DEF Enter, Unlocked, DirectCall, LinetoMove, QueueWrite, QueueInc, At, Goto, Return,
                HInv, TypeOK
  <2> QED
    BY <2>1, <2>2, KeepMarks, KeepOwners
<1>4. ASSUME NEW p \in Procs, Beginpaint(p)
      PROVE  MarkInv'
  <2>1. CASE BeginClaim(p)
    <3>1. /\ hdc' = [hdc EXCEPT ![ret[p]] = Blank(1, hdc[ret[p]].queue)]
          /\ pc[p] = "bp_claim" /\ pc' = [pc EXCEPT ![p] = "bp_release"]
          /\ UNCHANGED <<cur, ret, leaked>>
      BY <2>1 DEF BeginClaim, At, Goto
    <3>2. pc'[p] = "bp_release" /\ ret'[p] = ret[p]
          /\ \A q \in Procs : q # p => pc'[q] = pc[q] /\ ret'[q] = ret[q]
      BY <3>1 DEF HInv, TypeOK
    <3>3. \A h \in Slots : h = ret[p] => h \in Owned'
      BY <3>2 DEF Owned
    <3>4. Owned \subseteq Owned'
      BY <3>1, <3>2, KeepOwners
    <3>5. \A h \in Slots : h # ret[p] => hdc'[h] = hdc[h]
      BY <3>1 DEF HInv, TypeOK
    <3> QED
      BY <3>3, <3>4, <3>5 DEF MarkInv
  <2>2. CASE BeginRelease(p)
    <3>1. UNCHANGED <<hdc, leaked>> /\ pc[p] = "bp_release"
      BY <2>2 DEF BeginRelease, At
    <3>2. \/ UNCHANGED <<pc, cur, ret>>
          \/ /\ cur'[p] = ret[p]
             /\ \A q \in Procs : q # p => pc'[q] = pc[q] /\ ret'[q] = ret[q] /\ cur'[q] = cur[q]
      BY <2>2 DEF BeginRelease, Release, Return, Goto, HInv, TypeOK
    <3>3. cur[p] = NoHdc
      BY <3>1, HeadCall DEF HInv, CallInv, CallOK, PcCall, GoodCall, BeginLabels
    <3>4. NoHdc \notin Slots
      BY HdcAssumption DEF NoHdc, Slots
    <3> QED
      BY <3>1, <3>2, <3>3, <3>4 DEF MarkInv, Owned
  <2>3. CASE \/ BeginCheck(p) \/ BeginInitlock(p) \/ BeginSetLockinit(p)
             \/ BeginAcquire(p) \/ BeginScan(p)
    <3>1. FlagsKept /\ UNCHANGED <<cur, leaked>> /\ pc[p] # "bp_release"
      BY <2>3 DEF BeginCheck, BeginInitlock, BeginSetLockinit, BeginAcquire, Acquire, BeginScan, At,
                  kernel, FlagsKept
    <3>2. \A q \in Procs : q # p => pc'[q] = pc[q] /\ ret'[q] = ret[q]
      BY <2>3 DEF BeginCheck, BeginInitlock, BeginSetLockinit, BeginAcquire, Acquire, BeginScan, Goto,
                  HInv, TypeOK
    <3> QED
      BY <3>1, <3>2, KeepMarks, KeepOwners
  <2> QED
    BY <1>4, <2>1, <2>2, <2>3 DEF Beginpaint
<1>5. ASSUME NEW p \in Procs, Endpaint(p)
      PROVE  MarkInv'
  <2>0. pc[p] # "bp_release"
    BY <1>5 DEF Endpaint, EndAcquire, Acquire, EndExec, EndExecDone, EndReset, EndRelease, At
  <2>1. CASE EndRelease(p)
    <3>1. /\ UNCHANGED <<hdc, leaked>> /\ pc[p] = "ep_release"
          /\ \A q \in Procs : q # p => pc'[q] = pc[q] /\ ret'[q] = ret[q] /\ cur'[q] = cur[q]
      BY <2>1 DEF EndRelease, Release, Return, Goto, At, HInv, TypeOK
    <3>2. hdc[cur[p]].init # 1
      BY <3>1 DEF HInv, FlagInv
    <3> QED
      BY <2>0, <3>1, <3>2 DEF MarkInv, Owned
  <2>2. CASE EndAcquire(p) \/ EndExec(p) \/ EndExecDone(p) \/ EndReset(p)
    <3>1. /\ UNCHANGED <<cur, leaked>>
          /\ \A q \in Procs : q # p => pc'[q] = pc[q] /\ ret'[q] = ret[q]
      BY <2>2 DEF EndAcquire, Acquire, EndExec, EndExecDone, EndReset, Goto, HInv, TypeOK
    <3>2. Owned \subseteq Owned'
      BY <2>0, <3>1, KeepOwners
    <3>3. \A h \in Slots : hdc'[h].init = 1 => hdc[h].init = 1
      <4>1. CASE EndAcquire(p) \/ EndExecDone(p)
        BY <4>1 DEF EndAcquire, EndExecDone, kernel
      <4>2. CASE EndExec(p)
        <5>1. hdc' = hdc \/ \E g, x, n : hdc' = [hdc EXCEPT ![g].x = x, ![g].pen = n]
          BY <4>2 DEF EndExec
        <5>2. ASSUME NEW g, NEW x, NEW n, hdc' = [hdc EXCEPT ![g].x = x, ![g].pen = n],
                     NEW h \in Slots
              PROVE  hdc'[h].init = hdc[h].init
          <6>1. hdc \in [Slots -> Contexts] /\ hdc[h] \in Contexts
            BY DEF HInv, TypeOK
          <6>2. [hdc[h] EXCEPT !.x = x, !.pen = n].init = hdc[h].init
            BY <6>1 DEF Contexts
          <6> QED
            BY <5>2, <6>1, <6>2
        <5>3. PICK g, x, n : hdc' = hdc \/ hdc' = [hdc EXCEPT ![g].x = x, ![g].pen = n]
          BY <5>1
        <5> QED
          BY <5>2, <5>3
      <4>3. CASE EndReset(p)
        <5>1. \/ hdc' = hdc
              \/ hdc' = [hdc EXCEPT ![Arg(p).hdc] = Blank(0, hdc[Arg(p).hdc].queue)]
          BY <4>3 DEF EndReset
        <5>2. Blank(0, hdc[Arg(p).hdc].queue).init = 0
          BY DEF Blank
        <5>3. ASSUME NEW h \in Slots, hdc'[h].init = 1
              PROVE  hdc[h].init = 1
          <6>1. hdc \in [Slots -> Contexts]
            BY DEF HInv, TypeOK
          <6>2. CASE h = Arg(p).hdc
            <7>1. hdc'[h] = hdc[h] \/ hdc'[h] = Blank(0, hdc[Arg(p).hdc].queue)
              BY <5>1, <6>1, <6>2
            <7> QED
              BY <5>2, <5>3, <7>1
          <6>3. CASE h # Arg(p).hdc
            BY <5>1, <5>3, <6>1, <6>3
          <6> QED
            BY <6>2, <6>3
        <5> QED
          BY <5>3
      <4> QED
        BY <2>2, <4>1, <4>2, <4>3
    <3> QED
      BY <3>2, <3>3 DEF MarkInv
  <2> QED
    BY <1>5, <2>1, <2>2 DEF Endpaint
<1> QED
  BY <1>1, <1>2, <1>3, <1>4, <1>5 DEF Next, Kernel

\* Every context marked by beginpaint is held by a process or was left behind by
\* a killed one, and nobody's context is unmarked before its endpaint.
THEOREM NothingForgotten == ASSUME Ready PROVE Spec => []ContextsAccounted
<1>1. Init => MarkInv
  BY DEF Init, MarkInv
<1>2. HInv /\ MarkInv /\ [Next]_vars => MarkInv'
  BY MarkNext
<1>3. HInv /\ MarkInv => ContextsAccounted
  BY DEF HInv, FlagInv, MarkInv, Owned, Held, ContextsAccounted
<1> QED
  BY <1>1, <1>2, <1>3, SpecInv, PTL DEF Spec

=============================================================================

----------------------------- MODULE PipeProofs -----------------------------
(***************************************************************************)
(* Proofs about Pipe for any number of processes, any buffer size and any  *)
(* multiple of it as the modulus of the counters.                          *)
(*                                                                         *)
(* NoUseAfterFree rests on the reference counts being the number of        *)
(* holders, on a process inside a call holding the end it uses, and on one *)
(* process at most closing each end.  SleepersMissNothing is not inductive *)
(* either: while the lock is held a sleeper may face a pipe it could use,  *)
(* and then the holder has yet to wake it.                                 *)
(***************************************************************************)
EXTENDS Pipe, FiniteSetTheorems, SequenceTheorems, TLAPS

WriteLabels == {"write", "write_sleep", "write_wait"}
ReadLabels  == {"read", "read_sleep", "read_wait", "read_copy"}

\* Where p->lock is held.
Inside == {"write", "write_sleep", "read", "read_sleep", "read_copy"}

LockInv == \A p \in Procs : pc[p] \in Inside <=> lock = p

\* The processes that have an end open, and where its last one closes it.
Holders(e) == {p \in Procs : e \in ends[p]}
CloseLabel(e) == IF e = "r" THEN "close_r" ELSE "close_w"

\* Who is in a call holds the end of it.
HolderInv ==
    \A p \in Procs : /\ pc[p] \in WriteLabels => "w" \in ends[p]
                     /\ pc[p] \in ReadLabels  => "r" \in ends[p]

\* The count of an end is its holders; an end that is held or being closed is
\* open, and one process at most is closing it.
RefInv ==
    /\ \A e \in {"r", "w"} :
        /\ ref[e] = Cardinality(Holders(e))
        /\ Holders(e) # {} => open[e]
        /\ \A p \in Procs : pc[p] = CloseLabel(e) => open[e] /\ Holders(e) = {}
        /\ \A p, q \in Procs : pc[p] = CloseLabel(e) /\ pc[q] = CloseLabel(e) => p = q
    /\ freed => ~open["r"] /\ ~open["w"]

\* A process about to sleep, or asleep, has reason to: or whoever is inside will
\* wake it before it leaves, unless somebody was killed.
SleepInv ==
    /\ \A p \in Procs :
        /\ chan[p] = "nread"  => pc[p] = "read_wait"
        /\ chan[p] = "nwrite" => pc[p] = "write_wait"
        /\ pc[p] = "read_sleep"  => Empty /\ open["w"]
        /\ pc[p] = "write_sleep" => Full /\ open["r"]
    /\ (\A p \in Procs : ~killed[p]) => \A p \in Procs :
        /\ chan[p] = "nread" =>
             open["w"] /\ (Empty \/ \E q \in Procs : pc[q] \in {"write", "write_sleep"})
        /\ chan[p] = "nwrite" =>
             open["r"] /\ (Full \/ \E q \in Procs : pc[q] = "read_copy")

PInv == TypeOK /\ LockInv /\ HolderInv /\ RefInv /\ SleepInv

-----------------------------------------------------------------------------
(* Arithmetic of the counters *)

\* Division with remainder.
LEMMA ModDiv ==
    ASSUME NEW m \in Nat \ {0}, NEW x \in Int
    PROVE  /\ x % m \in 0..(m - 1)
           /\ x \div m \in Int
           /\ x = m * (x \div m) + (x % m)
OBVIOUS

\* A remainder is unique.
LEMMA ModUnique ==
    ASSUME NEW m \in Nat \ {0}, NEW a \in Int, NEW b \in Int,
           NEW r \in 0..(m - 1), NEW s \in 0..(m - 1), m * a + r = m * b + s
    PROVE  r = s
<1>1. CASE a = b
  BY <1>1
<1>2. CASE a > b
  <2>1. m * (a - b) >= m
    BY <1>2
  <2>2. m * (a - b) = s - r
    OBVIOUS
  <2> QED
    BY <2>1, <2>2
<1>3. CASE a < b
  <2>1. m * (b - a) >= m
    BY <1>3
  <2>2. m * (b - a) = r - s
    OBVIOUS
  <2> QED
    BY <2>1, <2>2
<1> QED
  BY <1>1, <1>2, <1>3

\* Adding a multiple does not change a remainder.
LEMMA ModMultiple ==
    ASSUME NEW m \in Nat \ {0}, NEW x \in Int, NEW k \in Int
    PROVE  (x + m * k) % m = x % m
<1> DEFINE y == x + m * k
<1>1. /\ x % m \in 0..(m - 1) /\ x \div m \in Int
      /\ x = m * (x \div m) + (x % m)
  BY ModDiv
<1>2. y \in Int
  OBVIOUS
<1> HIDE DEF y
<1>3. /\ y % m \in 0..(m - 1) /\ y \div m \in Int
      /\ y = m * (y \div m) + (y % m)
  BY <1>2, ModDiv
<1>4. m * ((x \div m) + k) = m * (x \div m) + m * k
  BY <1>1
<1>5. y = m * ((x \div m) + k) + (x % m)
  BY <1>1, <1>4 DEF y
<1>6. (x \div m) + k \in Int
  BY <1>1
<1>7. y % m = x % m
  BY <1>1, <1>3, <1>5, <1>6, ModUnique
<1> QED
  BY <1>7 DEF y

\* The number of bytes between two counters.
Between(a, b) == (b - a) % UintMod

\* What Empty and Full test is whether 0 or PIPESIZE bytes lie between the
\* counters, also when nwrite has wrapped and nread has not.
LEMMA BetweenTests ==
    ASSUME NEW a \in 0..(UintMod - 1), NEW b \in 0..(UintMod - 1)
    PROVE  /\ Between(a, b) = IF a <= b THEN b - a ELSE b - a + UintMod
           /\ Between(a, b) \in 0..(UintMod - 1)
           /\ a = b <=> Between(a, b) = 0
           /\ b = (a + PIPESIZE) % UintMod <=> Between(a, b) = PIPESIZE
<1>1. UintMod \in Nat \ {0} /\ PIPESIZE \in Nat \ {0} /\ PIPESIZE < UintMod
  BY PipeAssumption
<1>2. Between(a, b) = IF a <= b THEN b - a ELSE b - a + UintMod
  <2> DEFINE d == b - a
  <2>1. d \in Int /\ -UintMod <= d /\ d < UintMod
    BY <1>1
  <2>2. d % UintMod = IF 0 <= d THEN d ELSE d + UintMod
    <3> HIDE DEF d
    <3> QED  BY <1>1, <2>1
  <2> QED
    BY <1>1, <2>2 DEF Between
<1>3. (a + PIPESIZE) % UintMod = IF a + PIPESIZE < UintMod THEN a + PIPESIZE ELSE a + PIPESIZE - UintMod
  <2> DEFINE d == a + PIPESIZE
  <2>1. d \in Int /\ 0 <= d /\ d < 2 * UintMod
    BY <1>1
  <2> HIDE DEF d
  <2>2. d % UintMod = IF d < UintMod THEN d ELSE d - UintMod
    BY <1>1, <2>1
  <2> QED
    BY <1>1, <2>1, <2>2 DEF d
<1> DEFINE full == (a + PIPESIZE) % UintMod
           count == Between(a, b)
<1> HIDE DEF full, count
<1> QED
  BY <1>1, <1>2, <1>3 DEF full, count

\* One byte more and one byte less.
LEMMA BetweenSteps ==
    ASSUME NEW a \in 0..(UintMod - 1), NEW b \in 0..(UintMod - 1)
    PROVE  /\ (a + 1) % UintMod \in 0..(UintMod - 1)
           /\ Between(a, b) < PIPESIZE => Between(a, (b + 1) % UintMod) = Between(a, b) + 1
           /\ Between(a, b) > 0 => Between((a + 1) % UintMod, b) = Between(a, b) - 1
<1>1. UintMod \in Nat \ {0} /\ PIPESIZE \in Nat \ {0} /\ PIPESIZE < UintMod
  BY PipeAssumption
<1>2. ASSUME NEW x \in 0..(UintMod - 1)
      PROVE  /\ (x + 1) % UintMod = IF x + 1 < UintMod THEN x + 1 ELSE 0
             /\ (x + 1) % UintMod \in 0..(UintMod - 1)
  <2>1. x + 1 \in Int /\ 0 <= x + 1 /\ x + 1 < 2 * UintMod
    BY <1>1
  <2>2. (x + 1) % UintMod = IF x + 1 < UintMod THEN x + 1 ELSE x + 1 - UintMod
    BY <1>1, <2>1
  <2> QED
    BY <1>1, <2>2
<1> DEFINE a1 == (a + 1) % UintMod
           b1 == (b + 1) % UintMod
<1>3. /\ a1 = (IF a + 1 < UintMod THEN a + 1 ELSE 0) /\ a1 \in 0..(UintMod - 1)
      /\ b1 = (IF b + 1 < UintMod THEN b + 1 ELSE 0) /\ b1 \in 0..(UintMod - 1)
  BY <1>2
<1> HIDE DEF a1, b1
<1>4. /\ Between(a, b) = (IF a <= b THEN b - a ELSE b - a + UintMod)
      /\ Between(a, b1) = (IF a <= b1 THEN b1 - a ELSE b1 - a + UintMod)
      /\ Between(a1, b) = (IF a1 <= b THEN b - a1 ELSE b - a1 + UintMod)
  BY <1>3, BetweenTests
<1>5. Between(a, b) < PIPESIZE => Between(a, b1) = Between(a, b) + 1
  BY <1>1, <1>3, <1>4
<1>6. Between(a, b) > 0 => Between(a1, b) = Between(a, b) - 1
  BY <1>1, <1>3, <1>4
<1> QED
  BY <1>3, <1>5, <1>6 DEF a1, b1

\* The byte that a counter k places on stands for has the same slot of p->data
\* whether the counter has wrapped or not: PIPESIZE divides 2^32.
LEMMA SlotOfCounter ==
    ASSUME NEW a \in 0..(UintMod - 1), NEW k \in 0..PIPESIZE
    PROVE  ((a + k) % UintMod) % PIPESIZE = (a + k) % PIPESIZE
<1> USE PipeAssumption
<1> DEFINE laps == UintMod \div PIPESIZE
<1>1. UintMod = PIPESIZE * laps /\ laps \in Int
  BY ModDiv
<1> HIDE DEF laps
<1>2. (a + k) % UintMod = IF a + k < UintMod THEN a + k ELSE a + k - UintMod
  OBVIOUS
<1>3. (a + k - UintMod) % PIPESIZE = (a + k) % PIPESIZE
  <2>1. a + k - UintMod \in Int /\ a + k = (a + k - UintMod) + PIPESIZE * laps
    BY <1>1
  <2> QED
    BY <1>1, <2>1, ModMultiple, ZenonT(40)
<1> QED
  BY <1>2, <1>3

\* Counters less than PIPESIZE apart have different slots.
LEMMA SlotsDiffer ==
    ASSUME NEW a \in Nat, NEW j \in 0..(PIPESIZE - 1), NEW k \in 0..(PIPESIZE - 1), j # k
    PROVE  (a + j) % PIPESIZE # (a + k) % PIPESIZE
<1> USE PipeAssumption
<1> SUFFICES ASSUME (a + j) % PIPESIZE = (a + k) % PIPESIZE
             PROVE  FALSE
  OBVIOUS
<1> DEFINE r == (a + j) % PIPESIZE
           x == (a + j) \div PIPESIZE
           y == (a + k) \div PIPESIZE
<1>1. /\ x \in Int /\ y \in Int /\ r \in 0..(PIPESIZE - 1)
      /\ a + j = PIPESIZE * x + r /\ a + k = PIPESIZE * y + r
  <2>1. a + j \in Int /\ a + k \in Int
    OBVIOUS
  <2>2. x \in Int /\ r \in 0..(PIPESIZE - 1) /\ a + j = PIPESIZE * x + r
    BY <2>1, ModDiv
  <2>3. y \in Int /\ a + k = PIPESIZE * y + ((a + k) % PIPESIZE)
    BY <2>1, ModDiv
  <2> QED
    BY <2>2, <2>3
<1> HIDE DEF r, x, y
<1>2. j - k = PIPESIZE * (x - y) /\ k - j = PIPESIZE * (y - x)
  BY <1>1
<1>3. x > y => PIPESIZE * (x - y) >= PIPESIZE
  BY <1>1
<1>4. x < y => PIPESIZE * (y - x) >= PIPESIZE
  BY <1>1
<1>5. x = y => PIPESIZE * (x - y) = 0
  BY <1>1
<1> QED
  BY <1>1, <1>2, <1>3, <1>4, <1>5

-----------------------------------------------------------------------------
(* The invariant *)

\* A full pipe is not empty.
LEMMA FullNotEmpty ==
    ASSUME TypeOK
    PROVE  ~(Full /\ Empty)
<1>1. /\ Empty <=> Between(nread, nwrite) = 0
      /\ Full <=> Between(nread, nwrite) = PIPESIZE
  BY BetweenTests DEF TypeOK, Empty, Full
<1> QED
  BY <1>1, PipeAssumption

LEMMA InitInv ==
    ASSUME Init
    PROVE  PInv
<1> USE PipeAssumption DEF Init
<1>1. TypeOK
  <2>1. \A e \in {"r", "w"} : Cardinality({p \in Procs : e \in Ends[p]}) \in Nat
    BY FS_Subset, FS_CardinalityType
  <2>2. (nwrite - nread) % UintMod = 0
    OBVIOUS
  <2>3. (CHOOSE b \in Bytes : TRUE) \in Bytes
    OBVIOUS
  <2>4. data \in [0..(PIPESIZE - 1) -> Bytes] /\ got \in Bytes
    BY <2>3
  <2>5. ref \in [{"r", "w"} -> Nat] /\ ends \in [Procs -> SUBSET {"r", "w"}]
    BY <2>1
  <2>6. nread \in 0..(UintMod - 1) /\ nwrite \in 0..(UintMod - 1)
    OBVIOUS
  <2>7. /\ pc \in [Procs -> Labels] /\ n \in [Procs -> 0..MaxLen] /\ i \in [Procs -> 0..MaxLen]
        /\ chan \in [Procs -> {"none", "nread", "nwrite"}] /\ killed \in [Procs -> BOOLEAN]
    BY DEF Labels
  <2>8. open \in [{"r", "w"} -> BOOLEAN] /\ freed \in BOOLEAN /\ lock \in Procs \cup {NoProc}
    OBVIOUS
  <2>9. (nwrite - nread) % UintMod <= PIPESIZE
    BY <2>2
  <2> QED
    BY <2>4, <2>5, <2>6, <2>7, <2>8, <2>9 DEF TypeOK
<1>2. LockInv /\ HolderInv
  BY DEF LockInv, HolderInv, Inside, WriteLabels, ReadLabels
<1>3. RefInv
  BY DEF RefInv, Holders, CloseLabel
<1>4. SleepInv
  BY DEF SleepInv
<1> QED
  BY <1>1, <1>2, <1>3, <1>4 DEF PInv

\* A read or write takes the lock.
LEMMA StartInv ==
    ASSUME PInv, NEW p \in Procs, NEW len \in 0..MaxLen,
           Start(p, "w", len, "write") \/ Start(p, "r", len, "read")
    PROVE  PInv'
<1> USE PipeAssumption DEF PInv
<1>0. /\ \/ "w" \in ends[p] /\ pc' = [pc EXCEPT ![p] = "write"]
         \/ "r" \in ends[p] /\ pc' = [pc EXCEPT ![p] = "read"]
      /\ pc[p] = "user" /\ chan[p] = "none" /\ lock = NoProc /\ lock' = p
      /\ n' = [n EXCEPT ![p] = len]
      /\ UNCHANGED <<nread, nwrite, data, open, freed, ref, ends, i, chan, killed, got>>
  BY DEF Start, At, Goto, pipe
<1>1. TypeOK'
  BY <1>0 DEF TypeOK, Labels
<1>2. LockInv'
  BY <1>0 DEF LockInv, TypeOK, Inside
<1>3. HolderInv'
  BY <1>0 DEF HolderInv, TypeOK, WriteLabels, ReadLabels
<1>4. RefInv'
  <2>1. \A q \in Procs : pc'[q] \in {"close_r", "close_w"} => pc'[q] = pc[q]
    BY <1>0 DEF TypeOK
  <2>2. \A e : Holders(e)' = Holders(e)
    BY <1>0 DEF Holders
  <2> QED
    BY <1>0, <2>1, <2>2 DEF RefInv, CloseLabel
<1>5. SleepInv'
  BY <1>0 DEF SleepInv, TypeOK, Full, Empty
<1> QED
  BY <1>1, <1>2, <1>3, <1>4, <1>5

\* A woken process takes the lock again and repeats its test.
LEMMA ResumeInv ==
    ASSUME PInv, NEW p \in Procs,
           Resume(p, "write_wait", "write") \/ Resume(p, "read_wait", "read")
    PROVE  PInv'
<1> USE PipeAssumption DEF PInv
<1>0. /\ \/ pc[p] = "write_wait" /\ pc' = [pc EXCEPT ![p] = "write"]
         \/ pc[p] = "read_wait" /\ pc' = [pc EXCEPT ![p] = "read"]
      /\ chan[p] = "none" /\ lock = NoProc /\ lock' = p
      /\ UNCHANGED <<nread, nwrite, data, open, freed, ref, ends, n, i, chan, killed, got>>
  BY DEF Resume, At, Goto, pipe
<1>1. TypeOK'
  BY <1>0 DEF TypeOK, Labels
<1>2. LockInv'
  BY <1>0 DEF LockInv, TypeOK, Inside
<1>3. HolderInv'
  BY <1>0 DEF HolderInv, TypeOK, WriteLabels, ReadLabels
<1>4. RefInv'
  <2>1. \A q \in Procs : pc'[q] \in {"close_r", "close_w"} => pc'[q] = pc[q]
    BY <1>0 DEF TypeOK
  <2>2. \A e : Holders(e)' = Holders(e)
    BY <1>0 DEF Holders
  <2> QED
    BY <1>0, <2>1, <2>2 DEF RefInv, CloseLabel
<1>5. SleepInv'
  BY <1>0 DEF SleepInv, TypeOK, Full, Empty
<1> QED
  BY <1>1, <1>2, <1>3, <1>4, <1>5

\* pipewrite stores a byte: nobody waits for a pipe that was not full, and whoever
\* waits for a byte will be woken by this writer.
LEMMA WriteByteInv ==
    ASSUME PInv, NEW p \in Procs, WriteByte(p)
    PROVE  PInv'
<1> USE PipeAssumption DEF PInv, WriteByte, At
<1>1. TypeOK'
  <2>1. /\ nread \in 0..(UintMod - 1) /\ nwrite \in 0..(UintMod - 1)
        /\ Between(nread, nwrite) <= PIPESIZE
    BY DEF TypeOK, Between
  <2>2. Between(nread, nwrite) \in Nat /\ Between(nread, nwrite) # PIPESIZE
    BY <2>1, BetweenTests DEF Full
  <2>3. nwrite' \in 0..(UintMod - 1) /\ (nwrite' - nread') % UintMod <= PIPESIZE
    BY <2>1, <2>2, BetweenSteps DEF Between
  <2>4. data' \in [0..(PIPESIZE - 1) -> Bytes]
    BY DEF TypeOK
  <2>5. i' \in [Procs -> 0..MaxLen]
    BY DEF TypeOK
  <2> QED
    BY <2>3, <2>4, <2>5 DEF TypeOK
<1>2. LockInv' /\ HolderInv'
  BY DEF LockInv, HolderInv
<1>3. RefInv'
  BY DEF RefInv, Holders
<1>4. \A q \in Procs : q # p => pc[q] \notin Inside
  BY DEF LockInv, Inside, TypeOK
<1>5. SleepInv'
  BY <1>4 DEF SleepInv, Inside, Full
<1> QED
  BY <1>1, <1>2, <1>3, <1>5

\* Leaving with the lock, waking one of the channels or none.
LEMMA DoneFrame ==
    ASSUME PInv, NEW p \in Procs, pc[p] \in Inside, Done(p),
           chan' \in [Procs -> {"none", "nread", "nwrite"}],
           UNCHANGED <<pipe, ref, ends, killed, got>>
    PROVE  TypeOK' /\ LockInv' /\ HolderInv' /\ RefInv'
<1> USE PipeAssumption DEF PInv, Done, Goto, pipe
<1>1. TypeOK'
  <2>1. /\ pc' \in [Procs -> Labels] /\ lock' \in Procs \cup {NoProc}
        /\ n' \in [Procs -> 0..MaxLen] /\ i' \in [Procs -> 0..MaxLen]
    BY DEF TypeOK, Labels
  <2> QED
    BY <2>1 DEF TypeOK
<1>2. LockInv'
  BY DEF LockInv, TypeOK, Inside
<1>3. HolderInv'
  BY DEF HolderInv, TypeOK, WriteLabels, ReadLabels
<1>4. RefInv'
  BY DEF RefInv, TypeOK, Holders, CloseLabel
<1> QED
  BY <1>1, <1>2, <1>3, <1>4

\* pipewrite gives up: a reader asleep would keep the read end open, so there is
\* none, or somebody was killed.
LEMMA WriteFailsInv ==
    ASSUME PInv, NEW p \in Procs, WriteFails(p)
    PROVE  PInv'
<1> USE PipeAssumption DEF PInv, WriteFails, At
<1>1. TypeOK' /\ LockInv' /\ HolderInv' /\ RefInv'
  BY DoneFrame DEF Inside, TypeOK
<1>2. \A q \in Procs : q # p => pc[q] \notin Inside
  BY DEF LockInv, Inside, TypeOK
<1>3. pc' = [pc EXCEPT ![p] = "user"] /\ UNCHANGED <<nread, nwrite, open, chan, killed>>
  BY DEF Done, Goto, pipe
<1>4. ~Empty
  BY FullNotEmpty
<1>5. ~killed[p] => \A q \in Procs : chan[q] # "nread"
  <2> SUFFICES ASSUME ~killed[p], NEW q \in Procs, chan[q] = "nread"
               PROVE  FALSE
    OBVIOUS
  <2>1. pc[q] = "read_wait"
    BY DEF SleepInv
  <2>2. q \in Holders("r")
    BY <2>1 DEF HolderInv, ReadLabels, Holders
  <2> QED
    BY <2>2 DEF RefInv
<1>6. SleepInv'
  BY <1>2, <1>3, <1>5 DEF SleepInv, Inside, Full, Empty, TypeOK
<1> QED
  BY <1>1, <1>6

\* A step inside the lock that only moves the program counter.
LEMMA StepFrame ==
    ASSUME PInv, NEW p \in Procs, NEW to,
           \/ pc[p] = "write" /\ to = "write_sleep"
           \/ pc[p] = "read"  /\ to \in {"read_sleep", "read_copy"},
           Goto(p, to), UNCHANGED <<pipe, lock, ref, ends, n, i, chan, killed, got>>
    PROVE  TypeOK' /\ LockInv' /\ HolderInv' /\ RefInv'
<1> USE PipeAssumption DEF PInv, Goto, pipe
<1>1. TypeOK'
  BY DEF TypeOK, Labels
<1>2. LockInv'
  BY DEF LockInv, TypeOK, Inside
<1>3. HolderInv'
  BY DEF HolderInv, TypeOK, WriteLabels, ReadLabels
<1>4. RefInv'
  BY DEF RefInv, TypeOK, Holders, CloseLabel
<1> QED
  BY <1>1, <1>2, <1>3, <1>4

\* The test of pipewrite is over: the pipe is full and can be read.
LEMMA WriteBlocksInv ==
    ASSUME PInv, NEW p \in Procs, WriteBlocks(p)
    PROVE  PInv'
<1> USE PipeAssumption DEF PInv, WriteBlocks, At
<1>1. TypeOK' /\ LockInv' /\ HolderInv' /\ RefInv'
  BY StepFrame
<1>2. SleepInv'
  BY DEF SleepInv, Goto, pipe, Full, Empty, TypeOK
<1> QED
  BY <1>1, <1>2

\* The test of piperead is over: the pipe is empty and can be written.
LEMMA ReadBlocksInv ==
    ASSUME PInv, NEW p \in Procs, ReadBlocks(p)
    PROVE  PInv'
<1> USE PipeAssumption DEF PInv, ReadBlocks, At
<1>1. TypeOK' /\ LockInv' /\ HolderInv' /\ RefInv'
  BY StepFrame
<1>2. SleepInv'
  BY DEF SleepInv, Goto, pipe, Full, Empty, TypeOK
<1> QED
  BY <1>1, <1>2

\* piperead begins to copy.
LEMMA ReadStartsInv ==
    ASSUME PInv, NEW p \in Procs, ReadStarts(p)
    PROVE  PInv'
<1> USE PipeAssumption DEF PInv, ReadStarts, At
<1>1. TypeOK' /\ LockInv' /\ HolderInv' /\ RefInv'
  BY StepFrame
<1>2. SleepInv'
  BY DEF SleepInv, Goto, pipe, Full, Empty, TypeOK
<1> QED
  BY <1>1, <1>2

\* Going to sleep, with or without waking others.
LEMMA SleepFrame ==
    ASSUME PInv, NEW p \in Procs, NEW to,
           \/ pc[p] = "write_sleep" /\ to = "write_wait"
           \/ pc[p] = "read_sleep"  /\ to = "read_wait",
           Goto(p, to), lock' = NoProc,
           chan' \in [Procs -> {"none", "nread", "nwrite"}],
           UNCHANGED <<pipe, ref, ends, n, i, killed, got>>
    PROVE  TypeOK' /\ LockInv' /\ HolderInv' /\ RefInv'
<1> USE PipeAssumption DEF PInv, Goto, pipe
<1>1. TypeOK'
  BY DEF TypeOK, Labels
<1>2. LockInv'
  BY DEF LockInv, TypeOK, Inside
<1>3. HolderInv'
  BY DEF HolderInv, TypeOK, WriteLabels, ReadLabels
<1>4. RefInv'
  BY DEF RefInv, TypeOK, Holders, CloseLabel
<1> QED
  BY <1>1, <1>2, <1>3, <1>4

\* The writer sleeps on a full pipe and has woken every reader.
LEMMA WriteSleepsInv ==
    ASSUME PInv, NEW p \in Procs, WriteSleeps(p)
    PROVE  PInv'
<1> USE PipeAssumption DEF PInv, WriteSleeps, At
<1>1. TypeOK' /\ LockInv' /\ HolderInv' /\ RefInv'
  <2>1. chan' \in [Procs -> {"none", "nread", "nwrite"}]
    BY DEF TypeOK
  <2> QED
    BY <2>1, SleepFrame
<1>2. \A q \in Procs : q # p => pc[q] \notin Inside
  BY DEF LockInv, Inside, TypeOK
<1>3. \A q \in Procs : chan'[q] # "nread" /\ (chan'[q] = "nwrite" => q = p \/ chan[q] = "nwrite")
  BY DEF TypeOK
<1>4. SleepInv'
  BY <1>2, <1>3 DEF SleepInv, Goto, pipe, Full, Empty, TypeOK, Inside
<1> QED
  BY <1>1, <1>4

\* The reader sleeps on an empty pipe that can still be written.
LEMMA ReadSleepsInv ==
    ASSUME PInv, NEW p \in Procs, ReadSleeps(p)
    PROVE  PInv'
<1> USE PipeAssumption DEF PInv, ReadSleeps, At
<1>1. TypeOK' /\ LockInv' /\ HolderInv' /\ RefInv'
  <2>1. chan' \in [Procs -> {"none", "nread", "nwrite"}]
    BY DEF TypeOK
  <2> QED
    BY <2>1, SleepFrame
<1>2. \A q \in Procs : q # p => pc[q] \notin Inside
  BY DEF LockInv, Inside, TypeOK
<1>3. SleepInv'
  BY <1>2 DEF SleepInv, Goto, pipe, Full, Empty, TypeOK, Inside
<1> QED
  BY <1>1, <1>3

\* pipewrite leaves: it wakes every reader.
LEMMA WriteReturnsInv ==
    ASSUME PInv, NEW p \in Procs, WriteReturns(p)
    PROVE  PInv'
<1> USE PipeAssumption DEF PInv, WriteReturns, At
<1>1. /\ chan' \in [Procs -> {"none", "nread", "nwrite"}]
      /\ \A q \in Procs : chan'[q] # "nread" /\ (chan'[q] = "nwrite" => chan[q] = "nwrite")
  BY DEF TypeOK, Wakeup
<1>2. TypeOK' /\ LockInv' /\ HolderInv' /\ RefInv'
  BY <1>1, DoneFrame DEF Inside
<1>3. \A q \in Procs : q # p => pc[q] \notin Inside
  BY DEF LockInv, Inside, TypeOK
<1>4. SleepInv'
  BY <1>1, <1>3 DEF SleepInv, Done, Goto, pipe, Full, Empty, TypeOK, Inside
<1> QED
  BY <1>2, <1>4

\* piperead gives up because it was killed.
LEMMA ReadFailsInv ==
    ASSUME PInv, NEW p \in Procs, ReadFails(p)
    PROVE  PInv'
<1> USE PipeAssumption DEF PInv, ReadFails, At
<1>1. TypeOK' /\ LockInv' /\ HolderInv' /\ RefInv'
  BY DoneFrame DEF Inside, TypeOK
<1>2. SleepInv'
  BY DEF SleepInv, Done, Goto, pipe, Full, Empty, TypeOK
<1> QED
  BY <1>1, <1>2

\* piperead takes a byte: whoever waits for room will be woken by this reader.
LEMMA ReadByteInv ==
    ASSUME PInv, NEW p \in Procs, ReadByte(p)
    PROVE  PInv'
<1> USE PipeAssumption DEF PInv, ReadByte, At
<1>1. TypeOK'
  <2>1. /\ nread \in 0..(UintMod - 1) /\ nwrite \in 0..(UintMod - 1)
        /\ Between(nread, nwrite) <= PIPESIZE
    BY DEF TypeOK, Between
  <2>2. Between(nread, nwrite) \in Nat /\ Between(nread, nwrite) # 0
    BY <2>1, BetweenTests DEF Empty
  <2>3. nread' \in 0..(UintMod - 1) /\ (nwrite' - nread') % UintMod <= PIPESIZE
    BY <2>1, <2>2, BetweenSteps DEF Between
  <2>4. got' \in Bytes
    BY <2>1 DEF TypeOK
  <2>5. i' \in [Procs -> 0..MaxLen]
    BY DEF TypeOK
  <2> QED
    BY <2>3, <2>4, <2>5 DEF TypeOK
<1>2. LockInv' /\ HolderInv'
  BY DEF LockInv, HolderInv
<1>3. RefInv'
  BY DEF RefInv, Holders
<1>4. \A q \in Procs : q # p => pc[q] \notin Inside
  BY DEF LockInv, Inside, TypeOK
<1>5. SleepInv'
  BY <1>4 DEF SleepInv, Inside, Empty
<1> QED
  BY <1>1, <1>2, <1>3, <1>5

\* piperead leaves: it wakes every writer.
LEMMA ReadReturnsInv ==
    ASSUME PInv, NEW p \in Procs, ReadReturns(p)
    PROVE  PInv'
<1> USE PipeAssumption DEF PInv, ReadReturns, At
<1>1. /\ chan' \in [Procs -> {"none", "nread", "nwrite"}]
      /\ \A q \in Procs : chan'[q] # "nwrite" /\ (chan'[q] = "nread" => chan[q] = "nread")
  BY DEF TypeOK, Wakeup
<1>2. TypeOK' /\ LockInv' /\ HolderInv' /\ RefInv'
  BY <1>1, DoneFrame DEF Inside
<1>3. \A q \in Procs : q # p => pc[q] \notin Inside
  BY DEF LockInv, Inside, TypeOK
<1>4. SleepInv'
  BY <1>1, <1>3 DEF SleepInv, Done, Goto, pipe, Full, Empty, TypeOK, Inside
<1> QED
  BY <1>2, <1>4

\* The holders of an end are finitely many, and a holder less is one less.
LEMMA HoldersCount ==
    ASSUME TypeOK, NEW e
    PROVE  IsFiniteSet(Holders(e)) /\ Cardinality(Holders(e)) \in Nat
<1>1. Holders(e) \in SUBSET Procs
  BY DEF Holders
<1> QED
  BY <1>1, PipeAssumption, FS_Subset, FS_CardinalityType

\* fileclose: the count stays the number of holders, and reaches 0 only when the
\* caller was the last of them.
LEMMA CloseInv ==
    ASSUME PInv, NEW p \in Procs, NEW end \in {"r", "w"}, Close(p, end)
    PROVE  PInv'
<1> USE PipeAssumption DEF PInv, Close, At, Goto, pipe
<1> DEFINE to == IF ref[end] > 1 THEN "user" ELSE CloseLabel(end)
<1>0. /\ pc' = [pc EXCEPT ![p] = to] /\ to \in {"user", "close_r", "close_w"}
      /\ ends' = [ends EXCEPT ![p] = ends[p] \ {end}]
      /\ ref' = [ref EXCEPT ![end] = ref[end] - 1]
      /\ UNCHANGED <<nread, nwrite, data, open, freed, lock, n, i, chan, killed, got>>
  BY DEF CloseLabel
<1>1. /\ p \in Holders(end)
      /\ Holders(end)' = Holders(end) \ {p}
      /\ \A e \in {"r", "w"} : e # end => Holders(e)' = Holders(e)
  BY <1>0 DEF Holders, TypeOK
<1>2. /\ ref[end] = Cardinality(Holders(end)) /\ open[end]
      /\ \A q \in Procs : pc[q] # CloseLabel(end)
  BY <1>1 DEF RefInv
<1>3. /\ Cardinality(Holders(end)') = ref[end] - 1
      /\ ref[end] \in Nat /\ ref[end] # 0
      /\ ref[end] = 1 => Holders(end)' = {}
  <2>1. IsFiniteSet(Holders(end)) /\ IsFiniteSet(Holders(end)') /\ Cardinality(Holders(end)') = ref[end] - 1
    BY <1>1, <1>2, HoldersCount, FS_RemoveElement
  <2>2. Cardinality(Holders(end)) \in Nat /\ Cardinality(Holders(end)') \in Nat
    BY <2>1, FS_CardinalityType
  <2>3. ref[end] = 1 => Cardinality(Holders(end)') = 0
    BY <2>1
  <2> QED
    BY <1>2, <2>1, <2>2, <2>3, FS_EmptySet
<1> HIDE DEF to
<1>4. TypeOK'
  <2>1. pc' \in [Procs -> Labels]
    BY <1>0 DEF TypeOK, Labels
  <2>2. ends' \in [Procs -> SUBSET {"r", "w"}]
    BY <1>0 DEF TypeOK
  <2>3. ref' \in [{"r", "w"} -> Nat]
    BY <1>0, <1>3 DEF TypeOK
  <2> QED
    BY <1>0, <2>1, <2>2, <2>3 DEF TypeOK
<1>5. LockInv'
  BY <1>0 DEF LockInv, TypeOK, Inside
<1>6. HolderInv'
  BY <1>0 DEF HolderInv, TypeOK, WriteLabels, ReadLabels
<1>7. RefInv'
  <2>1. ASSUME NEW e \in {"r", "w"}, e # end
        PROVE  /\ ref'[e] = Cardinality(Holders(e)')
               /\ Holders(e)' # {} => open'[e]
               /\ \A q \in Procs : pc'[q] = CloseLabel(e) => open'[e] /\ Holders(e)' = {}
               /\ \A q, r \in Procs : pc'[q] = CloseLabel(e) /\ pc'[r] = CloseLabel(e) => q = r
    <3>1. ref'[e] = ref[e] /\ Holders(e)' = Holders(e) /\ open'[e] = open[e]
      BY <1>0, <1>1, <2>1 DEF TypeOK
    <3>2. \A q \in Procs : pc'[q] = CloseLabel(e) => pc[q] = CloseLabel(e)
      BY <1>0, <2>1 DEF TypeOK, CloseLabel, to
    <3> QED
      BY <3>1, <3>2 DEF RefInv
  <2>2. /\ ref'[end] = Cardinality(Holders(end)')
        /\ Holders(end)' # {} => open'[end]
        /\ \A q \in Procs : pc'[q] = CloseLabel(end) => open'[end] /\ Holders(end)' = {}
        /\ \A q, r \in Procs : pc'[q] = CloseLabel(end) /\ pc'[r] = CloseLabel(end) => q = r
    <3>1. ref'[end] = ref[end] - 1 /\ open'[end]
      BY <1>0, <1>2 DEF TypeOK
    <3>2. \A q \in Procs : pc'[q] = CloseLabel(end) => q = p /\ ~(ref[end] > 1)
      BY <1>0, <1>2 DEF TypeOK, CloseLabel, to
    <3>3. ~(ref[end] > 1) => Holders(end)' = {}
      BY <1>3
    <3> QED
      BY <1>3, <3>1, <3>2, <3>3
  <2>3. freed' => ~open'["r"] /\ ~open'["w"]
    BY <1>0 DEF RefInv
  <2> QED
    BY <2>1, <2>2, <2>3 DEF RefInv, CloseLabel
<1>8. SleepInv'
  BY <1>0 DEF SleepInv, TypeOK, Full, Empty
<1> QED
  BY <1>4, <1>5, <1>6, <1>7, <1>8

\* pipeclose: the end is open until here, and whoever waited for the other side is
\* woken.
LEMMA PipecloseInv ==
    ASSUME PInv, NEW p \in Procs, NEW end \in {"r", "w"}, NEW c,
           c = IF end = "r" THEN "nwrite" ELSE "nread",
           Pipeclose(p, end, CloseLabel(end), c)
    PROVE  PInv'
<1> USE PipeAssumption DEF PInv, Pipeclose, At, Goto
<1>1. /\ chan' \in [Procs -> {"none", "nread", "nwrite"}]
      /\ \A q \in Procs : chan'[q] # c /\ (chan'[q] # "none" => chan'[q] = chan[q])
  BY DEF Wakeup, TypeOK
<1>2. TypeOK'
  <2>1. pc' \in [Procs -> Labels] /\ open' \in [{"r", "w"} -> BOOLEAN]
    BY DEF TypeOK, Labels
  <2>2. freed' \in BOOLEAN
    BY <2>1
  <2> QED
    BY <1>1, <2>1, <2>2 DEF TypeOK
<1>3. LockInv'
  BY DEF LockInv, TypeOK, Inside, CloseLabel
<1>4. HolderInv'
  BY DEF HolderInv, TypeOK, WriteLabels, ReadLabels
<1>5. \A q \in Procs : q # p => pc[q] # CloseLabel(end)
  BY DEF RefInv
<1>6. \A q \in Procs : pc'[q] = (IF q = p THEN "user" ELSE pc[q])
  BY DEF TypeOK
<1>7. /\ open'[end] = FALSE
      /\ \A e \in {"r", "w"} : e # end => open'[e] = open[e]
      /\ \A e \in {"r", "w"} : Holders(e)' = Holders(e)
  BY DEF TypeOK, Holders
<1>8. Holders(end) = {} /\ open[end]
  BY DEF RefInv
<1>9. RefInv'
  <2>1. ASSUME NEW e \in {"r", "w"}
        PROVE  /\ ref'[e] = Cardinality(Holders(e)')
               /\ Holders(e)' # {} => open'[e]
               /\ \A q \in Procs : pc'[q] = CloseLabel(e) => open'[e] /\ Holders(e)' = {}
               /\ \A q, r \in Procs : pc'[q] = CloseLabel(e) /\ pc'[r] = CloseLabel(e) => q = r
    <3>1. ref'[e] = Cardinality(Holders(e)') /\ (Holders(e)' # {} => open'[e])
      BY <1>7, <1>8 DEF RefInv
    <3>2. \A q \in Procs : pc'[q] = CloseLabel(e) => q # p /\ pc[q] = CloseLabel(e) /\ e # end
      BY <1>5, <1>6 DEF CloseLabel
    <3> QED
      BY <1>7, <3>1, <3>2 DEF RefInv
  <2>2. freed' => ~open'["r"] /\ ~open'["w"]
    OBVIOUS
  <2> QED
    BY <2>1, <2>2 DEF RefInv, CloseLabel
<1>10. SleepInv'
  <2>1. UNCHANGED <<Empty, Full, killed>>
    BY DEF Empty, Full
  <2>2. \A q \in Procs : pc[q] \notin Inside
    BY DEF LockInv
  <2>3. \A q \in Procs : /\ chan'[q] = "nread" => chan[q] = "nread" /\ end # "w"
                         /\ chan'[q] = "nwrite" => chan[q] = "nwrite" /\ end # "r"
    BY <1>1
  <2>4. \A q \in Procs : pc'[q] \notin Inside
    BY <1>6, <2>2 DEF Inside
  <2>5. \A q \in Procs : chan[q] # "none" => q # p /\ pc'[q] = pc[q]
    BY <1>6
  <2> QED
    BY <1>7, <2>1, <2>2, <2>3, <2>4, <2>5 DEF SleepInv, Inside, TypeOK
<1> QED
  BY <1>2, <1>3, <1>4, <1>9, <1>10

\* kill wakes its victim wherever it sleeps, without the lock.
LEMMA KillInv ==
    ASSUME PInv, NEW p \in Procs, Kill(p)
    PROVE  PInv'
<1> USE PipeAssumption DEF PInv, Kill, pipe
<1>1. TypeOK'
  BY DEF TypeOK
<1>2. LockInv' /\ HolderInv'
  BY DEF LockInv, HolderInv
<1>3. RefInv'
  BY DEF RefInv, Holders
<1>4. SleepInv'
  BY DEF SleepInv, TypeOK, Full, Empty
<1> QED
  BY <1>1, <1>2, <1>3, <1>4

\* Every step keeps the invariant.
LEMMA NextInv ==
    ASSUME PInv, [Next]_vars
    PROVE  PInv'
<1>1. ASSUME NEW p \in Procs, Pipewrite(p)
      PROVE  PInv'
  BY <1>1, WriteByteInv, WriteFailsInv, WriteBlocksInv, WriteSleepsInv, WriteReturnsInv, ResumeInv DEF Pipewrite
<1>2. ASSUME NEW p \in Procs, Piperead(p)
      PROVE  PInv'
  BY <1>2, ReadFailsInv, ReadBlocksInv, ReadSleepsInv, ReadStartsInv, ReadByteInv, ReadReturnsInv, ResumeInv DEF Piperead
<1>3. ASSUME NEW p \in Procs, Kernel(p)
      PROVE  PInv'
  <2>1. CASE Pipeclose(p, "r", "close_r", "nwrite")
    BY <2>1, PipecloseInv DEF CloseLabel
  <2>2. CASE Pipeclose(p, "w", "close_w", "nread")
    BY <2>2, PipecloseInv DEF CloseLabel
  <2> QED
    BY <1>1, <1>2, <1>3, <2>1, <2>2 DEF Kernel
<1>4. ASSUME NEW p \in Procs, User(p)
      PROVE  PInv'
  BY <1>4, StartInv, CloseInv DEF User
<1>5. CASE UNCHANGED vars
  <2>1. UNCHANGED <<Empty, Full>> /\ \A e : Holders(e)' = Holders(e)
    BY <1>5 DEF vars, pipe, Empty, Full, Holders
  <2> QED
    BY <1>5, <2>1 DEF vars, pipe, PInv, TypeOK, LockInv, HolderInv, RefInv, SleepInv
<1> QED
  BY <1>3, <1>4, <1>5, KillInv DEF Next

-----------------------------------------------------------------------------
(* The bytes in the pipe *)

\* The bytes between two counters.
Content(r, w, d) == [k \in 1..Between(r, w) |-> d[(r + k - 1) % PIPESIZE]]

\* They are a sequence as long as the distance of the counters.
LEMMA ContentSeq ==
    ASSUME NEW r \in 0..(UintMod - 1), NEW w \in 0..(UintMod - 1),
           NEW d \in [0..(PIPESIZE - 1) -> Bytes]
    PROVE  /\ Content(r, w, d) \in Seq(Bytes)
           /\ Len(Content(r, w, d)) = Between(r, w)
           /\ \A k \in 1..Between(r, w) : Content(r, w, d)[k] = d[(r + k - 1) % PIPESIZE]
<1> DEFINE c == Between(r, w)
           s == Content(r, w, d)
<1>1. c \in Nat /\ s = [k \in 1..c |-> d[(r + k - 1) % PIPESIZE]]
  BY BetweenTests DEF Content
<1> HIDE DEF c, s
<1>2. \A k \in 1..c : d[(r + k - 1) % PIPESIZE] \in Bytes
  BY <1>1, PipeAssumption
<1>3. s \in [1..c -> Bytes]
  BY <1>1, <1>2
<1>4. s \in Seq(Bytes)
  BY <1>1, <1>3, SeqDef
<1>5. Len(s) = c
  BY <1>1, <1>3, <1>4, LenProperties
<1> QED
  BY <1>1, <1>4, <1>5 DEF c, s

\* A byte that is written comes after all the others and overwrites none of them.
LEMMA WriteAppends ==
    ASSUME PInv, NEW p \in Procs, WriteByte(p)
    PROVE  \E b \in Bytes : Promise!Put(b)
<1> DEFINE c == Between(nread, nwrite)
<1>0. PICK b \in Bytes : data' = [data EXCEPT ![nwrite % PIPESIZE] = b]
  BY DEF WriteByte
<1>1. TypeOK /\ TypeOK'
  BY WriteByteInv DEF PInv
<1>2. /\ nread \in 0..(UintMod - 1) /\ nwrite \in 0..(UintMod - 1) /\ nread' = nread
      /\ c \in Nat /\ c < PIPESIZE /\ Between(nread, nwrite)' = c + 1
  <2>1. /\ nread \in 0..(UintMod - 1) /\ nwrite \in 0..(UintMod - 1) /\ nread' = nread
        /\ nwrite' = (nwrite + 1) % UintMod /\ c <= PIPESIZE
    BY <1>1 DEF TypeOK, WriteByte, Between
  <2>2. c \in Nat /\ c # PIPESIZE
    BY <2>1, BetweenTests DEF WriteByte, Full
  <2>3. c < PIPESIZE
    BY <2>1, <2>2, PipeAssumption
  <2>4. Between(nread, nwrite)' = Between(nread, (nwrite + 1) % UintMod)
    BY <2>1 DEF Between
  <2>5. Between(nread, (nwrite + 1) % UintMod) = c + 1
    BY <2>1, <2>3, BetweenSteps
  <2> QED
    BY <2>1, <2>2, <2>3, <2>4, <2>5
<1>3. nwrite % PIPESIZE = (nread + c) % PIPESIZE
  <2>1. c = IF nread <= nwrite THEN nwrite - nread ELSE nwrite - nread + UintMod
    BY <1>2, BetweenTests
  <2> HIDE DEF c
  <2>2. c \in 0..PIPESIZE /\ PIPESIZE \in Nat /\ UintMod \in Nat \ {0}
    BY <1>2, PipeAssumption
  <2>3. nread + c = IF nread <= nwrite THEN nwrite ELSE nwrite + UintMod
    BY <1>2, <2>1, <2>2
  <2>4. (nread + c) % UintMod = nwrite
    BY <1>2, <2>2, <2>3
  <2> QED
    BY <1>2, <2>2, <2>4, SlotOfCounter
<1>4. /\ Held \in Seq(Bytes) /\ Len(Held) = c
      /\ \A k \in 1..c : Held[k] = data[(nread + k - 1) % PIPESIZE]
  <2>1. Held = Content(nread, nwrite, data)
    BY DEF Held, Content, Between
  <2>2. nread \in 0..(UintMod - 1) /\ nwrite \in 0..(UintMod - 1) /\ data \in [0..(PIPESIZE - 1) -> Bytes]
    BY <1>1 DEF TypeOK
  <2> QED
    BY <2>1, <2>2, ContentSeq
<1>5. /\ Held' \in Seq(Bytes) /\ Len(Held') = c + 1
      /\ \A k \in 1..(c + 1) : Held'[k] = data'[(nread + k - 1) % PIPESIZE]
  <2>1. /\ Held' = Content(nread', nwrite', data')
        /\ Between(nread', nwrite') = Between(nread, nwrite)'
    BY DEF Held, Content, Between
  <2>2. nread' \in 0..(UintMod - 1) /\ nwrite' \in 0..(UintMod - 1) /\ data' \in [0..(PIPESIZE - 1) -> Bytes]
    BY <1>1 DEF TypeOK
  <2>3. /\ Held' \in Seq(Bytes) /\ Len(Held') = Between(nread', nwrite')
        /\ \A k \in 1..Between(nread', nwrite') : Held'[k] = data'[(nread' + k - 1) % PIPESIZE]
    BY <2>1, <2>2, ContentSeq
  <2> QED
    BY <1>2, <2>1, <2>3
<1> HIDE DEF c
<1>6. /\ Append(Held, b) \in Seq(Bytes) /\ Len(Append(Held, b)) = c + 1
      /\ \A k \in 1..c : Append(Held, b)[k] = Held[k]
      /\ Append(Held, b)[c + 1] = b
  BY <1>2, <1>4, AppendProperties
<1>7. ASSUME NEW k \in 1..(c + 1)
      PROVE  Held'[k] = Append(Held, b)[k]
  <2>1. /\ nread + k - 1 \in Nat /\ nread + k - 1 = nread + (k - 1)
        /\ (nread + k - 1) % PIPESIZE \in 0..(PIPESIZE - 1)
        /\ nwrite % PIPESIZE \in 0..(PIPESIZE - 1)
    BY <1>2, PipeAssumption
  <2>2. CASE k = c + 1
    <3>1. (nread + k - 1) % PIPESIZE = nwrite % PIPESIZE
      BY <1>2, <1>3, <2>2
    <3> QED
      BY <1>0, <1>1, <1>5, <1>6, <2>1, <2>2, <3>1 DEF TypeOK
  <2>3. CASE k \in 1..c
    <3>1. (nread + (k - 1)) % PIPESIZE # (nread + c) % PIPESIZE
      <4>1. nread \in Nat /\ k - 1 \in 0..(PIPESIZE - 1) /\ c \in 0..(PIPESIZE - 1) /\ k - 1 # c
        BY <1>2, <2>3, PipeAssumption
      <4> QED
        BY <4>1, SlotsDiffer
    <3>2. data'[(nread + k - 1) % PIPESIZE] = data[(nread + k - 1) % PIPESIZE]
      BY <1>0, <1>1, <1>3, <2>1, <3>1 DEF TypeOK
    <3> QED
      BY <1>4, <1>5, <1>6, <2>3, <3>2
  <2>4. k = c + 1 \/ k \in 1..c
    BY <1>2
  <2> QED
    BY <2>2, <2>3, <2>4
<1>8. Held' = Append(Held, b)
  BY <1>5, <1>6, <1>7, SeqEqual
<1>9. got' = got /\ Len(Held) < PIPESIZE
  BY <1>2, <1>4 DEF WriteByte
<1> QED
  BY <1>8, <1>9 DEF Promise!Put

\* A byte that is read is the oldest.
LEMMA ReadTakesHead ==
    ASSUME PInv, NEW p \in Procs, ReadByte(p)
    PROVE  Promise!Get
<1> DEFINE c == Between(nread, nwrite)
<1>1. TypeOK /\ TypeOK'
  BY ReadByteInv DEF PInv
<1>2. /\ nread \in 0..(UintMod - 1) /\ data' = data /\ nread' = (nread + 1) % UintMod
      /\ c \in Nat /\ c > 0 /\ c <= PIPESIZE /\ Between(nread, nwrite)' = c - 1
  <2>1. /\ nread \in 0..(UintMod - 1) /\ nwrite \in 0..(UintMod - 1) /\ nwrite' = nwrite
        /\ nread' = (nread + 1) % UintMod /\ data' = data /\ c <= PIPESIZE
    BY <1>1 DEF TypeOK, ReadByte, Between
  <2>2. c \in Nat /\ c # 0
    BY <2>1, BetweenTests DEF ReadByte, Empty
  <2>3. Between(nread, nwrite)' = Between((nread + 1) % UintMod, nwrite)
    BY <2>1 DEF Between
  <2>4. c > 0
    BY <2>2
  <2>5. Between((nread + 1) % UintMod, nwrite) = c - 1
    BY <2>1, <2>4, BetweenSteps
  <2> QED
    BY <2>1, <2>2, <2>3, <2>4, <2>5
<1>3. /\ Held \in Seq(Bytes) /\ Len(Held) = c
      /\ \A k \in 1..c : Held[k] = data[(nread + k - 1) % PIPESIZE]
  <2>1. Held = Content(nread, nwrite, data)
    BY DEF Held, Content, Between
  <2>2. nread \in 0..(UintMod - 1) /\ nwrite \in 0..(UintMod - 1) /\ data \in [0..(PIPESIZE - 1) -> Bytes]
    BY <1>1 DEF TypeOK
  <2> QED
    BY <2>1, <2>2, ContentSeq
<1>4. /\ Held' \in Seq(Bytes) /\ Len(Held') = c - 1
      /\ \A k \in 1..(c - 1) : Held'[k] = data[(((nread + 1) % UintMod) + k - 1) % PIPESIZE]
  <2>1. /\ Held' = Content(nread', nwrite', data')
        /\ Between(nread', nwrite') = Between(nread, nwrite)'
    BY DEF Held, Content, Between
  <2>2. nread' \in 0..(UintMod - 1) /\ nwrite' \in 0..(UintMod - 1) /\ data' \in [0..(PIPESIZE - 1) -> Bytes]
    BY <1>1 DEF TypeOK
  <2>3. /\ Held' \in Seq(Bytes) /\ Len(Held') = Between(nread', nwrite')
        /\ \A k \in 1..Between(nread', nwrite') : Held'[k] = data'[(nread' + k - 1) % PIPESIZE]
    BY <2>1, <2>2, ContentSeq
  <2> QED
    BY <1>2, <2>1, <2>3
<1> HIDE DEF c
<1>5. Held # <<>>
  BY <1>2, <1>3, EmptySeq
<1>6. /\ Tail(Held) \in Seq(Bytes) /\ Len(Tail(Held)) = c - 1
      /\ \A k \in 1..(c - 1) : Tail(Held)[k] = Held[k + 1]
  BY <1>3, <1>5, HeadTailProperties
<1>7. ASSUME NEW k \in 1..(c - 1)
      PROVE  Held'[k] = Tail(Held)[k]
  <2> DEFINE a == (nread + 1) % UintMod
  <2>1. k + 1 \in 1..c /\ nread + (k + 1) - 1 = nread + k
    BY <1>2
  <2>2. (a + k - 1) % PIPESIZE = (nread + k) % PIPESIZE
    <3>1. a \in Nat /\ a = IF nread + 1 < UintMod THEN nread + 1 ELSE 0
      BY <1>2, PipeAssumption
    <3>2. CASE nread + 1 < UintMod
      <4>1. a + k - 1 = nread + k
        BY <1>2, <3>1, <3>2
      <4> QED
        BY <4>1
    <3>3. CASE ~(nread + 1 < UintMod)
      <4>1. a = 0 /\ nread + 1 = UintMod
        BY <1>2, <3>1, <3>3, PipeAssumption
      <4>2. nread + k = a + k - 1 + UintMod /\ a + k - 1 \in Int
        BY <1>2, <3>1, <4>1
      <4>3. UintMod = PIPESIZE * (UintMod \div PIPESIZE) /\ UintMod \div PIPESIZE \in Int
        BY PipeAssumption, ModDiv
      <4> HIDE DEF a
      <4>4. (a + k - 1 + PIPESIZE * (UintMod \div PIPESIZE)) % PIPESIZE = (a + k - 1) % PIPESIZE
        BY <4>2, <4>3, PipeAssumption, ModMultiple
      <4> QED
        BY <4>2, <4>3, <4>4
    <3> QED
      BY <3>2, <3>3
  <2>3. Held'[k] = data[(a + k - 1) % PIPESIZE]
    BY <1>4
  <2> HIDE DEF a
  <2>4. Tail(Held)[k] = data[(nread + k) % PIPESIZE]
    BY <1>3, <1>6, <2>1
  <2> QED
    BY <2>2, <2>3, <2>4
<1>8. Held' = Tail(Held)
  BY <1>4, <1>6, <1>7, SeqEqual
<1>9. got' = Head(Held)
  <2>1. Held[1] = data[nread % PIPESIZE]
    BY <1>2, <1>3
  <2>2. Head(Held) = Held[1]
    BY <1>3, <1>5
  <2> QED
    BY <2>1, <2>2 DEF ReadByte
<1> QED
  BY <1>5, <1>8, <1>9 DEF Promise!Get

\* Every step is a step of the stream or leaves it alone.
LEMMA NextStream ==
    ASSUME PInv, [Next]_vars
    PROVE  [Promise!Next]_<<Held, got>>
<1>0. ASSUME UNCHANGED <<nread, nwrite, data, got>>
      PROVE  UNCHANGED <<Held, got>>
  BY <1>0 DEF Held
<1> USE <1>0 DEF pipe
<1>1. ASSUME NEW p \in Procs, Pipewrite(p)
      PROVE  [Promise!Next]_<<Held, got>>
  <2>1. CASE WriteByte(p)
    BY <2>1, WriteAppends DEF Promise!Next
  <2>2. CASE ~WriteByte(p)
    <3>1. UNCHANGED <<nread, nwrite, data, got>>
      BY <1>1, <2>2 DEF Pipewrite, WriteFails, WriteBlocks, WriteSleeps, WriteReturns, Resume
    <3> QED
      BY <3>1
  <2> QED
    BY <2>1, <2>2
<1>2. ASSUME NEW p \in Procs, Piperead(p)
      PROVE  [Promise!Next]_<<Held, got>>
  <2>1. CASE ReadByte(p)
    BY <2>1, ReadTakesHead DEF Promise!Next
  <2>2. CASE ~ReadByte(p)
    <3>1. UNCHANGED <<nread, nwrite, data, got>>
      BY <1>2, <2>2 DEF Piperead, ReadFails, ReadBlocks, ReadSleeps, ReadStarts, ReadReturns, Resume
    <3> QED
      BY <3>1
  <2> QED
    BY <2>1, <2>2
<1>3. ASSUME NEW p \in Procs, NEW end, NEW label, NEW c, Pipeclose(p, end, label, c)
      PROVE  UNCHANGED <<nread, nwrite, data, got>>
  BY <1>3 DEF Pipeclose
<1>4. ASSUME NEW p \in Procs, User(p) \/ Kill(p)
      PROVE  UNCHANGED <<nread, nwrite, data, got>>
  BY <1>4 DEF User, Kill, Start, Close
<1>5. CASE UNCHANGED vars
  BY <1>5 DEF vars
<1> QED
  BY <1>1, <1>2, <1>3, <1>4, <1>5 DEF Next, Kernel

-----------------------------------------------------------------------------
(* Theorems *)

\* The inductive invariant, the type invariant included, holds in every state.
LEMMA Invariance == Spec => []PInv
<1>1. Init => PInv
  BY InitInv
<1>2. PInv /\ [Next]_vars => PInv'
  BY NextInv
<1> QED
  BY <1>1, <1>2, PTL DEF Spec

\* No wakeup is lost between piperead and pipewrite: with the lock free and nobody
\* killed, who sleeps has reason to.
THEOREM NoLostWakeup == Spec => []SleepersMissNothing
<1>1. PInv => SleepersMissNothing
  BY PipeAssumption DEF PInv, LockInv, SleepInv, Inside, SleepersMissNothing
<1> QED
  BY <1>1, Invariance, PTL

\* pipeclose frees the page only when every process has closed both ends and is out
\* of every call.
THEOREM FreedUnused == Spec => []NoUseAfterFree
<1>1. PInv => NoUseAfterFree
  <2> SUFFICES ASSUME PInv, freed, NEW p \in Procs
               PROVE  ends[p] = {} /\ pc[p] = "user"
    BY DEF NoUseAfterFree
  <2>1. Holders("r") = {} /\ Holders("w") = {}
    BY DEF PInv, RefInv
  <2>2. ends[p] = {}
    <3>1. "r" \notin ends[p] /\ "w" \notin ends[p]
      BY <2>1 DEF Holders
    <3>2. ends[p] \subseteq {"r", "w"}
      BY DEF PInv, TypeOK
    <3> QED
      BY <3>1, <3>2
  <2>3. pc[p] \notin WriteLabels \cup ReadLabels
    BY <2>2 DEF PInv, HolderInv
  <2>4. pc[p] # "close_r" /\ pc[p] # "close_w"
    BY DEF PInv, RefInv, CloseLabel
  <2> QED
    BY <2>2, <2>3, <2>4 DEF PInv, TypeOK, Labels, WriteLabels, ReadLabels
<1> QED
  BY <1>1, Invariance, PTL

\* The ring buffer and its wrapping counters implement a bounded stream: bytes come
\* out in the order they went in, once each.
THEOREM RingIsStream == Spec => DeliversInOrder
<1>1. Init => Promise!Init
  <2> SUFFICES ASSUME Init
               PROVE  Promise!Init
    OBVIOUS
  <2>1. TypeOK /\ Between(nread, nwrite) = 0
    <3>1. TypeOK /\ nread = nwrite
      BY InitInv DEF PInv, Init
    <3> QED
      BY <3>1, BetweenTests DEF TypeOK
  <2>2. Held \in Seq(Bytes) /\ Len(Held) = 0
    <3>1. Held = Content(nread, nwrite, data)
      BY DEF Held, Content, Between
    <3> QED
      BY <2>1, <3>1, ContentSeq DEF TypeOK
  <2>3. Held = <<>>
    BY <2>2, EmptySeq
  <2> QED
    BY <2>1, <2>3 DEF Promise!Init, TypeOK
<1>2. PInv /\ [Next]_vars => [Promise!Next]_<<Held, got>>
  BY NextStream
<1> QED
  BY <1>1, <1>2, Invariance, PTL DEF Spec, DeliversInOrder, Promise!Spec
=============================================================================

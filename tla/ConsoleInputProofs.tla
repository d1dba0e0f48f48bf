------------------------- MODULE ConsoleInputProofs -------------------------
(***************************************************************************)
(* Proofs about ConsoleInput for any number of readers and any ring whose  *)
(* size divides the range of its indices.                                  *)
(*                                                                         *)
(* ReadersMissNothing rests on cons.lock: between its test and its sleep a *)
(* reader holds it.  ShiftFollowsKeys rests on what the controller holds   *)
(* for each half of a prefixed code.  The refinement rests on the three    *)
(* indices never being further apart than the ring is long, so that the    *)
(* characters between them have cells of their own.                        *)
(***************************************************************************)
EXTENDS ConsoleInput, SequenceTheorems, TLAPS

-----------------------------------------------------------------------------
(* The invariant *)

Inside == {"intr", "dump_print", "read", "read_sleep", "get", "get_again"}
IrqLabels == {"user", "intr", "dump", "dump_print"}
ReaderLabels == {"user", "read_lock", "read", "read_sleep", "asleep", "get", "get_again"}

\* Whoever executes under cons.lock holds it.
LockInv ==
    /\ lock \in Procs \cup {NoProc}
    /\ pc \in [Procs -> IrqLabels \cup ReaderLabels]
    /\ pc[Irq] \in IrqLabels
    /\ \A p \in Readers : pc[p] \in ReaderLabels
    /\ \A p \in Procs : pc[p] \in Inside <=> lock = p

\* The shift state the Control key that moved last leaves.
Left(d) == IF d THEN {"CTL"} ELSE {}

\* What kbdgetc knows of the Control keys, by what the controller holds: the prefix of a
\* code changes nothing but E0ESC, and the code after it, or one without a prefix, is
\* the change that has been made to pressed.
ShiftInv ==
    /\ down \subseteq {"left", "right"} /\ pressed \in BOOLEAN /\ prefixed \in BOOLEAN
    /\ pressed => down # {}
    /\ shift \subseteq {"CTL", "E0ESC"}
    /\ \/ code = NoCode /\ ~prefixed /\ shift = Left(pressed)
       \/ code \in Keys \cup {"other"} /\ ~prefixed /\ shift \ {"E0ESC"} = Left(pressed)
       \/ code = "E0" /\ prefixed /\ shift = Left(pressed)
       \/ code = NoCode /\ prefixed /\ shift = Left(pressed) \cup {"E0ESC"}
       \/ code = "ctl down" /\ ~prefixed /\ pressed
       \/ code = "ctl up" /\ ~prefixed /\ ~pressed

\* The number of characters between two indices, also when one has wrapped.
Dist(a, b) == (b - a) % UintMod

Index == 0..(UintMod - 1)
Cells == {"zero", "a", "newline", "eof"}

\* Finished text and the line being typed fit in the ring.
RingInv ==
    /\ r \in Index /\ w \in Index /\ e \in Index
    /\ Dist(r, w) + Dist(w, e) <= INPUT_BUF
    /\ buf \in [0..(INPUT_BUF - 1) -> Cells]

CInv == LockInv /\ ShiftInv /\ RingInv /\ ReadersMissNothing

-----------------------------------------------------------------------------
(* Indices modulo UintMod and cells modulo INPUT_BUF *)

LEMMA Sizes ==
    /\ INPUT_BUF \in Nat \ {0} /\ UintMod \in Nat \ {0} /\ INPUT_BUF < UintMod
    /\ \E laps \in Int : UintMod = INPUT_BUF * laps
<1>1. INPUT_BUF \in Nat \ {0} /\ UintMod \in Nat \ {0} /\ INPUT_BUF < UintMod /\ UintMod % INPUT_BUF = 0
  BY ConsoleInputAssumption
<1>2. UintMod = INPUT_BUF * (UintMod \div INPUT_BUF) /\ UintMod \div INPUT_BUF \in Int
  BY <1>1
<1> QED
  BY <1>1, <1>2

\* Quotient and remainder.
LEMMA DivMod ==
    ASSUME NEW m \in Nat \ {0}, NEW x \in Int
    PROVE  /\ x % m \in 0..(m - 1) /\ x \div m \in Int
           /\ x = m * (x \div m) + (x % m)
OBVIOUS

\* Two numbers with a multiple of m between them leave the same remainder, and two
\* that are less than m apart do not.
LEMMA SameRemainder ==
    ASSUME NEW m \in Nat \ {0}, NEW x \in Int, NEW y \in Int
    PROVE  /\ \A k \in Int : y = x + m * k => y % m = x % m
           /\ x < y /\ y < x + m => y % m # x % m
<1> DEFINE qx == x \div m
           rx == x % m
           qy == y \div m
           ry == y % m
<1>1. /\ qx \in Int /\ rx \in 0..(m - 1) /\ x = m * qx + rx
      /\ qy \in Int /\ ry \in 0..(m - 1) /\ y = m * qy + ry
  BY DivMod
<1> HIDE DEF qx, rx, qy, ry
<1>2. ASSUME NEW d \in Int
      PROVE  /\ d > 0 => m * d >= m
             /\ d < 0 => m * d <= -m
             /\ d = 0 => m * d = 0
  OBVIOUS
<1>3. ASSUME NEW k \in Int, y = x + m * k
      PROVE  ry = rx
  <2>1. m * (qy - qx - k) = m * qy - m * qx - m * k /\ qy - qx - k \in Int
    BY <1>1
  <2>2. m * (qy - qx - k) = rx - ry
    BY <1>1, <1>3, <2>1
  <2>3. qy - qx - k = 0
    <3> DEFINE d == qy - qx - k
    <3>1. d \in Int /\ m * d = rx - ry
      BY <2>1, <2>2
    <3> HIDE DEF d
    <3>2. d = 0
      BY <1>1, <1>2, <3>1
    <3> QED
      BY <3>2 DEF d
  <2> QED
    BY <1>1, <1>2, <2>1, <2>2, <2>3
<1>4. ASSUME x < y, y < x + m
      PROVE  ry # rx
  <2> SUFFICES ASSUME ry = rx
               PROVE  FALSE
    OBVIOUS
  <2>1. m * (qy - qx) = m * qy - m * qx /\ qy - qx \in Int
    BY <1>1
  <2>2. m * (qy - qx) = y - x
    BY <1>1, <2>1
  <2> DEFINE d == qy - qx
  <2>3. d \in Int /\ m * d = y - x
    BY <2>1, <2>2
  <2> HIDE DEF d
  <2> QED
    BY <1>2, <1>4, <2>3
<1> QED
  BY <1>3, <1>4 DEF rx, ry

\* An index keeps its cell when it wraps: INPUT_BUF divides 2^32.
LEMMA CellOf ==
    ASSUME NEW x \in Int, NEW j \in Int
    PROVE  /\ Cell(Add(x, j)) = (x + j) % INPUT_BUF
           /\ Cell(Add(x, j)) \in 0..(INPUT_BUF - 1)
           /\ \A k \in Int : Cell(Add(Add(x, j), k)) = (x + j + k) % INPUT_BUF
<1>1. INPUT_BUF \in Nat \ {0} /\ UintMod \in Nat \ {0}
  BY Sizes
<1>2. PICK laps \in Int : UintMod = INPUT_BUF * laps
  BY Sizes
<1>3. ASSUME NEW y \in Int
      PROVE  /\ (y % UintMod) \in Int /\ (y % UintMod) % INPUT_BUF = y % INPUT_BUF
             /\ \A k \in Int : ((y % UintMod) + k) % INPUT_BUF = (y + k) % INPUT_BUF
  <2> DEFINE q == y \div UintMod
             z == y % UintMod
             g == laps * q
  <2>1. q \in Int /\ z \in Int /\ y = UintMod * q + z
    BY <1>1, DivMod
  <2> HIDE DEF q, z
  <2>2. UintMod * q = INPUT_BUF * g /\ g \in Int /\ INPUT_BUF * g \in Int
    BY <1>1, <1>2, <2>1
  <2> HIDE DEF g
  <2>3. y = z + INPUT_BUF * g
    BY <2>1, <2>2
  <2>4. ASSUME NEW k \in Int
        PROVE  (z + k) % INPUT_BUF = (y + k) % INPUT_BUF
    <3>1. y + k = (z + k) + INPUT_BUF * g /\ y + k \in Int /\ z + k \in Int
      BY <2>1, <2>2, <2>3
    <3> QED
      BY <1>1, <2>2, <3>1, SameRemainder
  <2>5. z + 0 = z /\ y + 0 = y
    BY <2>1
  <2>6. z % INPUT_BUF = y % INPUT_BUF
    BY <2>4, <2>5
  <2> QED
    BY <2>1, <2>4, <2>6 DEF z
<1> DEFINE y == x + j
<1>4. y \in Int /\ Add(x, j) = y % UintMod
  BY DEF Add
<1> HIDE DEF y
<1>5. Cell(Add(x, j)) = y % INPUT_BUF
  BY <1>3, <1>4 DEF Cell
<1>6. ASSUME NEW k \in Int
      PROVE  Cell(Add(Add(x, j), k)) = (y + k) % INPUT_BUF
  <2> DEFINE z == y % UintMod
  <2>1. z \in Int /\ (z + k) % INPUT_BUF = (y + k) % INPUT_BUF /\ Add(x, j) = z
    BY <1>3, <1>4
  <2> HIDE DEF z
  <2>2. z + k \in Int /\ Add(z, k) = (z + k) % UintMod
    BY <2>1 DEF Add
  <2>3. ((z + k) % UintMod) % INPUT_BUF = (z + k) % INPUT_BUF
    BY <1>3, <2>2
  <2> QED
    BY <2>1, <2>2, <2>3 DEF Cell
<1>7. y % INPUT_BUF \in 0..(INPUT_BUF - 1)
  BY <1>1, <1>4, DivMod
<1> QED
  BY <1>5, <1>6, <1>7 DEF y

\* Distances, when an index moves by one.
LEMMA DistSteps ==
    ASSUME NEW a \in Index, NEW b \in Index
    PROVE  /\ Dist(a, b) = (IF a <= b THEN b - a ELSE b - a + UintMod) /\ Dist(a, b) \in Nat
           /\ a = b <=> Dist(a, b) = 0
           /\ Add(b, 1) \in Index /\ Add(b, -1) \in Index
           /\ Dist(a, b) < INPUT_BUF => Dist(a, Add(b, 1)) = Dist(a, b) + 1
           /\ Dist(a, b) > 0 => Dist(a, Add(b, -1)) = Dist(a, b) - 1
           /\ Dist(a, b) > 0 => Dist(Add(a, 1), b) = Dist(a, b) - 1
           /\ Dist(a, b) <= INPUT_BUF => (b = Add(a, INPUT_BUF) <=> Dist(a, b) = INPUT_BUF)
<1>1. UintMod \in Nat \ {0} /\ INPUT_BUF \in Nat \ {0} /\ INPUT_BUF < UintMod
  BY Sizes
<1>2. ASSUME NEW x \in Index, NEW y \in Index
      PROVE  Dist(x, y) = IF x <= y THEN y - x ELSE y - x + UintMod
  <2> DEFINE d == y - x
  <2>1. d \in Int /\ -UintMod <= d /\ d < UintMod /\ (x <= y <=> 0 <= d)
    BY <1>1 DEF Index
  <2> HIDE DEF d
  <2>2. d % UintMod = IF 0 <= d THEN d ELSE d + UintMod
    BY <1>1, <2>1
  <2> QED
    BY <1>1, <2>1, <2>2 DEF Dist, d
<1>3. ASSUME NEW x \in Index, NEW k \in Int, -UintMod <= k, k < UintMod
      PROVE  /\ Add(x, k) = (IF x + k < 0 THEN x + k + UintMod ELSE IF x + k < UintMod THEN x + k ELSE x + k - UintMod)
             /\ Add(x, k) \in Index
  <2> DEFINE d == x + k
  <2>1. d \in Int /\ -UintMod <= d /\ d < 2 * UintMod
    BY <1>1, <1>3 DEF Index
  <2> HIDE DEF d
  <2>2. d % UintMod = IF d < 0 THEN d + UintMod ELSE IF d < UintMod THEN d ELSE d - UintMod
    BY <1>1, <2>1
  <2>3. d % UintMod \in Index
    BY <1>1, <2>1, <2>2 DEF Index
  <2>4. Add(x, k) = d % UintMod /\ d = x + k
    BY DEF Add, d
  <2> QED
    BY <1>1, <2>2, <2>3, <2>4 DEF Index
<1> DEFINE bu == Add(b, 1)
           bd == Add(b, -1)
           au == Add(a, 1)
           af == Add(a, INPUT_BUF)
<1>4. /\ bu = (IF b + 1 < UintMod THEN b + 1 ELSE 0) /\ bu \in Index
      /\ au = (IF a + 1 < UintMod THEN a + 1 ELSE 0) /\ au \in Index
  <2>1. -UintMod <= 1 /\ 1 < UintMod
    BY <1>1
  <2>2. /\ bu \in Index
        /\ bu = IF b + 1 < 0 THEN b + 1 + UintMod ELSE IF b + 1 < UintMod THEN b + 1 ELSE b + 1 - UintMod
        /\ au \in Index
        /\ au = IF a + 1 < 0 THEN a + 1 + UintMod ELSE IF a + 1 < UintMod THEN a + 1 ELSE a + 1 - UintMod
    BY <1>3, <2>1
  <2> HIDE DEF bu, au
  <2> QED
    BY <1>1, <2>2 DEF Index
<1>5. bd = (IF b = 0 THEN UintMod - 1 ELSE b - 1) /\ bd \in Index
  BY <1>1, <1>3 DEF Index
<1>6. af = (IF a + INPUT_BUF < UintMod THEN a + INPUT_BUF ELSE a + INPUT_BUF - UintMod) /\ af \in Index
  BY <1>1, <1>3 DEF Index
<1> HIDE DEF bu, bd, au, af
<1>7. /\ Dist(a, b) = (IF a <= b THEN b - a ELSE b - a + UintMod)
      /\ Dist(a, bu) = (IF a <= bu THEN bu - a ELSE bu - a + UintMod)
      /\ Dist(a, bd) = (IF a <= bd THEN bd - a ELSE bd - a + UintMod)
      /\ Dist(au, b) = (IF au <= b THEN b - au ELSE b - au + UintMod)
  BY <1>2, <1>4, <1>5
<1>8. Dist(a, b) \in Nat /\ (a = b <=> Dist(a, b) = 0)
  BY <1>1, <1>7 DEF Index
<1>9. /\ Dist(a, b) < INPUT_BUF => Dist(a, bu) = Dist(a, b) + 1
      /\ Dist(a, b) > 0 => Dist(au, b) = Dist(a, b) - 1
  BY <1>1, <1>4, <1>7 DEF Index
<1>10. Dist(a, b) > 0 => Dist(a, bd) = Dist(a, b) - 1
  BY <1>1, <1>5, <1>7 DEF Index
<1>11. b = af <=> Dist(a, b) = INPUT_BUF
  BY <1>1, <1>6, <1>7 DEF Index
<1> QED
  BY <1>4, <1>5, <1>7, <1>8, <1>9, <1>10, <1>11 DEF bu, bd, au, af

\* Distances add up while they stay within the ring, and lead from one index to the
\* other.
LEMMA DistSum ==
    ASSUME NEW a \in Index, NEW b \in Index, NEW c \in Index
    PROVE  /\ b = Add(a, Dist(a, b))
           /\ Dist(a, b) + Dist(b, c) <= INPUT_BUF => Dist(a, c) = Dist(a, b) + Dist(b, c)
<1>1. UintMod \in Nat \ {0} /\ INPUT_BUF \in Nat \ {0} /\ INPUT_BUF < UintMod
  BY Sizes
<1>2. /\ Dist(a, b) = (IF a <= b THEN b - a ELSE b - a + UintMod)
      /\ Dist(b, c) = (IF b <= c THEN c - b ELSE c - b + UintMod)
      /\ Dist(a, c) = (IF a <= c THEN c - a ELSE c - a + UintMod)
  BY DistSteps
<1>3. Dist(a, b) + Dist(b, c) <= INPUT_BUF => Dist(a, c) = Dist(a, b) + Dist(b, c)
  BY <1>1, <1>2 DEF Index
<1>4. b = Add(a, Dist(a, b))
  <2> DEFINE s == a + Dist(a, b)
  <2>1. s = IF a <= b THEN b ELSE b + UintMod
    BY <1>1, <1>2 DEF Index
  <2> HIDE DEF s
  <2>2. s % UintMod = b
    BY <1>1, <2>1 DEF Index
  <2> QED
    BY <2>2 DEF Add, s
<1> QED
  BY <1>3, <1>4

-----------------------------------------------------------------------------
(* The ring as sequences *)

\* The n characters from index x on.
Seg(bf, x, n) == [i \in 1..n |-> bf[Cell(Add(x, i - 1))]]

Ring == [0..(INPUT_BUF - 1) -> Cells]

\* Places less than INPUT_BUF apart have different cells.
LEMMA CellsDiffer ==
    ASSUME NEW a \in Int, NEW j \in 0..(INPUT_BUF - 1), NEW k \in 0..(INPUT_BUF - 1), j # k
    PROVE  (a + j) % INPUT_BUF # (a + k) % INPUT_BUF
<1>1. INPUT_BUF \in Nat \ {0}
  BY Sizes
<1>2. a + j \in Int /\ a + k \in Int
  OBVIOUS
<1>3. ASSUME NEW u \in Int, NEW v \in Int, u < v, v < u + INPUT_BUF
      PROVE  v % INPUT_BUF # u % INPUT_BUF
  BY <1>1, <1>3, SameRemainder, ZenonT(40)
<1> DEFINE u == a + j
           v == a + k
<1>4. u \in Int /\ v \in Int /\ ((u < v /\ v < u + INPUT_BUF) \/ (v < u /\ u < v + INPUT_BUF))
  BY <1>1
<1> HIDE DEF u, v
<1>5. v % INPUT_BUF # u % INPUT_BUF
  BY <1>3, <1>4
<1> QED
  BY <1>5 DEF u, v

LEMMA SegAt ==
    ASSUME NEW a \in Int, NEW k \in Int, NEW n \in 0..INPUT_BUF, NEW bf \in Ring
    PROVE  /\ Seg(bf, Add(a, k), n) \in Seq(Cells)
           /\ Len(Seg(bf, Add(a, k), n)) = n
           /\ \A i \in 1..n : Seg(bf, Add(a, k), n)[i] = bf[(a + k + (i - 1)) % INPUT_BUF]
<1> DEFINE x == Add(a, k)
           s == Seg(bf, x, n)
<1>1. n \in Nat /\ INPUT_BUF \in Nat \ {0}
  BY Sizes
<1>2. ASSUME NEW i \in 1..n
      PROVE  Cell(Add(x, i - 1)) = (a + k + (i - 1)) % INPUT_BUF /\ Cell(Add(x, i - 1)) \in 0..(INPUT_BUF - 1)
  <2>1. i - 1 \in Int /\ a + k + (i - 1) \in Int
    BY <1>1
  <2>2. Cell(Add(x, i - 1)) = (a + k + (i - 1)) % INPUT_BUF
    BY <2>1, CellOf
  <2> QED
    BY <1>1, <2>1, <2>2, DivMod
<1> HIDE DEF x
<1>3. s = [i \in 1..n |-> bf[Cell(Add(x, i - 1))]]
  BY DEF Seg
<1>4. \A i \in 1..n : bf[Cell(Add(x, i - 1))] \in Cells
  BY <1>2 DEF Ring
<1> HIDE DEF s
<1>5. s \in [1..n -> Cells]
  BY <1>3, <1>4
<1>6. s \in Seq(Cells)
  BY <1>1, <1>5, SeqDef
<1>7. Len(s) = n
  BY <1>1, <1>5, <1>6, LenProperties
<1>8. \A i \in 1..n : s[i] = bf[(a + k + (i - 1)) % INPUT_BUF]
  BY <1>2, <1>3
<1> QED
  BY <1>6, <1>7, <1>8 DEF s, x

LEMMA SegFrom ==
    ASSUME NEW a \in Index, NEW n \in 0..INPUT_BUF, NEW bf \in Ring
    PROVE  /\ a \in Nat /\ Add(a, 0) = a
           /\ Seg(bf, a, n) \in Seq(Cells)
           /\ Len(Seg(bf, a, n)) = n
           /\ \A i \in 1..n : Seg(bf, a, n)[i] = bf[(a + (i - 1)) % INPUT_BUF]
<1>1. UintMod \in Nat \ {0} /\ a \in Nat /\ a < UintMod
  BY Sizes DEF Index
<1>2. (a + 0) % UintMod = a /\ a + 0 = a
  BY <1>1
<1>3. Add(a, 0) = a
  BY <1>2 DEF Add
<1>4. /\ Seg(bf, Add(a, 0), n) \in Seq(Cells) /\ Len(Seg(bf, Add(a, 0), n)) = n
      /\ \A i \in 1..n : Seg(bf, Add(a, 0), n)[i] = bf[(a + 0 + (i - 1)) % INPUT_BUF]
  BY <1>1, SegAt
<1> QED
  BY <1>1, <1>2, <1>3, <1>4

\* Storing a character changes its cell and none of those before it.
LEMMA StoreCell ==
    ASSUME NEW a \in Index, NEW m \in Nat, m < INPUT_BUF, NEW bf \in Ring, NEW c \in Cells,
           NEW bg \in Ring, bg[Cell(Add(a, m))] = c,
           \A i \in 0..(INPUT_BUF - 1) : i # Cell(Add(a, m)) => bg[i] = bf[i]
    PROVE  /\ bg[(a + m) % INPUT_BUF] = c
           /\ \A j \in 0..(m - 1) : bg[(a + j) % INPUT_BUF] = bf[(a + j) % INPUT_BUF]
<1>1. INPUT_BUF \in Nat \ {0} /\ a \in Int /\ m \in Int
  BY Sizes DEF Index
<1>2. Cell(Add(a, m)) = (a + m) % INPUT_BUF /\ Cell(Add(a, m)) \in 0..(INPUT_BUF - 1)
  BY <1>1, CellOf
<1>3. bg[(a + m) % INPUT_BUF] = c
  BY <1>2
<1>4. ASSUME NEW j \in 0..(m - 1)
      PROVE  bg[(a + j) % INPUT_BUF] = bf[(a + j) % INPUT_BUF]
  <2>1. j \in 0..(INPUT_BUF - 1) /\ m \in 0..(INPUT_BUF - 1) /\ j # m /\ a + j \in Int
    BY <1>1
  <2>2. (a + j) % INPUT_BUF # (a + m) % INPUT_BUF
    BY <1>1, <2>1, CellsDiffer
  <2>3. (a + j) % INPUT_BUF \in 0..(INPUT_BUF - 1)
    BY <1>1, <2>1, DivMod
  <2> QED
    BY <1>2, <2>2, <2>3
<1> QED
  BY <1>3, <1>4

\* A character c is stored in bf behind n1 finished ones and a line of n2, which start
\* at index a.
Stored(bf, bg, a, n1, n2, c) ==
    /\ a \in Index /\ n1 \in Nat /\ n2 \in Nat /\ n1 + n2 < INPUT_BUF
    /\ bf \in Ring /\ bg \in Ring /\ c \in Cells
    /\ bg[Cell(Add(a, n1 + n2))] = c
    /\ \A i \in 0..(INPUT_BUF - 1) : i # Cell(Add(a, n1 + n2)) => bg[i] = bf[i]

\* It overwrites none of them.
LEMMA StoreAppends ==
    ASSUME NEW a, NEW n1 \in Nat, NEW n2 \in Nat, NEW bf, NEW bg, NEW c, Stored(bf, bg, a, n1, n2, c)
    PROVE  /\ Seg(bg, a, n1) = Seg(bf, a, n1)
           /\ Seg(bg, Add(a, n1), n2 + 1) = Append(Seg(bf, Add(a, n1), n2), c)
           /\ Seg(bg, a, n1 + n2 + 1) = Seg(bf, a, n1) \o Append(Seg(bf, Add(a, n1), n2), c)
<1>t. /\ a \in Index /\ n1 \in Nat /\ n2 \in Nat /\ n1 + n2 < INPUT_BUF
      /\ bf \in Ring /\ bg \in Ring /\ c \in Cells
  BY DEF Stored
<1>u. PICK n \in Nat : n = n1 + n2
  BY <1>t
<1>v. n < INPUT_BUF /\ bg[Cell(Add(a, n))] = c /\ \A i \in 0..(INPUT_BUF - 1) : i # Cell(Add(a, n)) => bg[i] = bf[i]
  BY <1>t, <1>u DEF Stored
<1>a. /\ bg[(a + n) % INPUT_BUF] = c
      /\ \A j \in 0..(n - 1) : bg[(a + j) % INPUT_BUF] = bf[(a + j) % INPUT_BUF]
  BY <1>t, <1>v, StoreCell
<1>b. /\ bg[(a + (n1 + n2)) % INPUT_BUF] = c
      /\ \A j \in 0..(n1 + n2 - 1) : bg[(a + j) % INPUT_BUF] = bf[(a + j) % INPUT_BUF]
  BY <1>t, <1>u, <1>a
<1> USE <1>t
<1> DEFINE ready == Seg(bf, a, n1)
           line == Seg(bf, Add(a, n1), n2)
           more == Append(line, c)
<1>1. /\ INPUT_BUF \in Nat \ {0} /\ a \in Int /\ n1 \in Int
      /\ n1 \in 0..INPUT_BUF /\ n2 \in 0..INPUT_BUF /\ n2 + 1 \in 0..INPUT_BUF
  BY Sizes DEF Index
<1>4. bg[(a + (n1 + n2)) % INPUT_BUF] = c
  BY <1>b
<1>5. ASSUME NEW j \in 0..(n1 + n2 - 1)
      PROVE  bg[(a + j) % INPUT_BUF] = bf[(a + j) % INPUT_BUF]
  BY <1>b
<1>6. /\ ready \in Seq(Cells) /\ Len(ready) = n1
      /\ \A i \in 1..n1 : ready[i] = bf[(a + (i - 1)) % INPUT_BUF]
  BY <1>1, SegFrom
<1>7. /\ line \in Seq(Cells) /\ Len(line) = n2
      /\ \A i \in 1..n2 : line[i] = bf[(a + n1 + (i - 1)) % INPUT_BUF]
  BY <1>1, SegAt
<1>8. ASSUME NEW m \in 0..INPUT_BUF
      PROVE  /\ Seg(bg, a, m) \in Seq(Cells) /\ Len(Seg(bg, a, m)) = m
             /\ \A i \in 1..m : Seg(bg, a, m)[i] = bg[(a + (i - 1)) % INPUT_BUF]
  BY SegFrom
<1>9. /\ Seg(bg, Add(a, n1), n2 + 1) \in Seq(Cells) /\ Len(Seg(bg, Add(a, n1), n2 + 1)) = n2 + 1
      /\ \A i \in 1..(n2 + 1) : Seg(bg, Add(a, n1), n2 + 1)[i] = bg[(a + n1 + (i - 1)) % INPUT_BUF]
  BY <1>1, SegAt
<1> HIDE DEF ready, line
<1>10. /\ more \in Seq(Cells) /\ Len(more) = n2 + 1 /\ more[n2 + 1] = c
       /\ \A i \in 1..n2 : more[i] = line[i]
  <2>1. line \in Seq(Cells) /\ c \in Cells
    BY <1>7
  <2>2. /\ Append(line, c) \in Seq(Cells)
        /\ Len(Append(line, c)) = Len(line) + 1
        /\ \A i \in 1..Len(line) : Append(line, c)[i] = line[i]
        /\ Append(line, c)[Len(line) + 1] = c
    BY <2>1, AppendProperties
  <2> QED
    BY <1>7, <2>2
<1>11. Seg(bg, a, n1) = ready
  <2> DEFINE s == Seg(bg, a, n1)
  <2>1. n1 \in 0..INPUT_BUF
    BY <1>1
  <2>2. s \in Seq(Cells) /\ Len(s) = n1 /\ \A i \in 1..n1 : s[i] = bg[(a + (i - 1)) % INPUT_BUF]
    BY <1>8, <2>1
  <2>3. ASSUME NEW i \in 1..n1
        PROVE  s[i] = ready[i]
    <3>1. i - 1 \in 0..(n1 + n2 - 1)
      OBVIOUS
    <3> QED
      BY <1>5, <1>6, <2>2, <3>1
  <2> HIDE DEF s
  <2>4. s = ready
    BY <1>6, <2>2, <2>3, SeqEqual
  <2> QED
    BY <2>4 DEF s
<1>12. ASSUME NEW i \in 1..(n2 + 1)
       PROVE  bg[(a + n1 + (i - 1)) % INPUT_BUF] = more[i]
  <2>1. a + n1 + (i - 1) = a + (n1 + (i - 1))
    BY <1>1
  <2>2. CASE i = n2 + 1
    <3>1. n1 + (i - 1) = n1 + n2
      BY <2>2
    <3> QED
      BY <1>4, <1>10, <2>1, <2>2, <3>1
  <2>3. CASE i \in 1..n2
    <3>1. n1 + (i - 1) \in 0..(n1 + n2 - 1)
      BY <2>3
    <3>2. bg[(a + (n1 + (i - 1))) % INPUT_BUF] = bf[(a + (n1 + (i - 1))) % INPUT_BUF]
      BY <1>5, <3>1
    <3> QED
      BY <1>7, <1>10, <2>1, <2>3, <3>2
  <2>4. i = n2 + 1 \/ i \in 1..n2
    OBVIOUS
  <2> QED
    BY <2>2, <2>3, <2>4
<1>13. Seg(bg, Add(a, n1), n2 + 1) = more
  <2> DEFINE s == Seg(bg, Add(a, n1), n2 + 1)
  <2>1. s \in Seq(Cells) /\ Len(s) = n2 + 1 /\ \A i \in 1..(n2 + 1) : s[i] = more[i]
    BY <1>9, <1>12
  <2> HIDE DEF s, more
  <2>2. s = more
    BY <1>10, <2>1, SeqEqual
  <2> QED
    BY <2>2 DEF s
<1> HIDE DEF more
<1>14. /\ ready \o more \in Seq(Cells) /\ Len(ready \o more) = n1 + (n2 + 1)
       /\ \A i \in 1..(n1 + (n2 + 1)) : (ready \o more)[i] = IF i <= n1 THEN ready[i] ELSE more[i - n1]
  <2>1. /\ ready \o more \in Seq(Cells) /\ Len(ready \o more) = Len(ready) + Len(more)
        /\ \A i \in 1..(Len(ready) + Len(more)) :
              (ready \o more)[i] = IF i <= Len(ready) THEN ready[i] ELSE more[i - Len(ready)]
    BY <1>6, <1>10, ConcatProperties
  <2> QED
    BY <1>6, <1>10, <2>1
<1>15. Seg(bg, a, n1 + n2 + 1) = ready \o more
  <2> DEFINE s == Seg(bg, a, n1 + n2 + 1)
             t == ready \o more
  <2>1. n1 + n2 + 1 \in 0..INPUT_BUF /\ n1 + n2 + 1 = n1 + (n2 + 1)
    BY <1>1
  <2>2. s \in Seq(Cells) /\ Len(s) = n1 + n2 + 1 /\ \A i \in 1..(n1 + n2 + 1) : s[i] = bg[(a + (i - 1)) % INPUT_BUF]
    BY <1>8, <2>1
  <2>3. ASSUME NEW i \in 1..(n1 + n2 + 1)
        PROVE  s[i] = t[i]
    <3>1. CASE i <= n1
      <4>1. i \in 1..n1 /\ i - 1 \in 0..(n1 + n2 - 1) /\ i \in 1..(n1 + (n2 + 1))
        BY <3>1
      <4>2. bg[(a + (i - 1)) % INPUT_BUF] = bf[(a + (i - 1)) % INPUT_BUF]
        BY <1>5, <4>1
      <4> QED
        BY <1>6, <1>14, <2>2, <3>1, <4>1, <4>2
    <3>2. CASE i > n1
      <4>1. i - n1 \in 1..(n2 + 1) /\ a + n1 + ((i - n1) - 1) = a + (i - 1) /\ i \in 1..(n1 + (n2 + 1)) /\ ~(i <= n1)
        BY <1>1, <3>2
      <4>2. bg[(a + (i - 1)) % INPUT_BUF] = more[i - n1]
        BY <1>12, <4>1
      <4> QED
        BY <1>14, <2>2, <4>1, <4>2
    <3>3. i <= n1 \/ i > n1
      OBVIOUS
    <3> QED
      BY <3>1, <3>2, <3>3
  <2> HIDE DEF s, t
  <2>4. t \in Seq(Cells) /\ Len(t) = Len(s)
    BY <1>14, <2>1, <2>2 DEF t
  <2>5. s = t
    BY <2>2, <2>3, <2>4, SeqEqual
  <2> QED
    BY <2>5 DEF s, t
<1> QED
  BY <1>11, <1>13, <1>15 DEF ready, line, more

\* Taking back the last character of a line.
LEMMA EraseLast ==
    ASSUME NEW x \in Index, NEW n \in 1..INPUT_BUF, NEW bf \in Ring
    PROVE  /\ Seg(bf, x, n) # <<>>
           /\ Seg(bf, x, n - 1) = SubSeq(Seg(bf, x, n), 1, Len(Seg(bf, x, n)) - 1)
<1>1. n \in Nat /\ n - 1 \in Nat /\ n \in 0..INPUT_BUF /\ n - 1 \in 0..INPUT_BUF
  BY Sizes
<1>2. ASSUME NEW m \in 0..INPUT_BUF
      PROVE  Seg(bf, x, m) \in Seq(Cells) /\ Len(Seg(bf, x, m)) = m
  BY SegFrom
<1> DEFINE s == Seg(bf, x, n)
           t == Seg(bf, x, n - 1)
<1>3. s \in Seq(Cells) /\ Len(s) = n /\ t \in Seq(Cells) /\ Len(t) = n - 1
  BY <1>1, <1>2
<1>4. ASSUME NEW i \in 1..(n - 1)
      PROVE  t[i] = s[i]
  BY <1>1 DEF Seg
<1> HIDE DEF s, t
<1>5. \A i \in 1..(n - 1) : s[i] \in Cells
  BY <1>1, <1>3, ElementOfSeq
<1>6. /\ SubSeq(s, 1, n - 1) \in Seq(Cells) /\ Len(SubSeq(s, 1, n - 1)) = n - 1
      /\ \A i \in 1..(n - 1) : SubSeq(s, 1, n - 1)[i] = s[i]
  <2> DEFINE u == SubSeq(s, 1, n - 1)
  <2>1. /\ u \in Seq(Cells) /\ Len(u) = (IF 1 <= n - 1 THEN (n - 1) - 1 + 1 ELSE 0)
        /\ \A i \in 1..((n - 1) - 1 + 1) : u[i] = s[1 + i - 1]
    BY <1>1, <1>5, SubSeqProperties
  <2> HIDE DEF u
  <2>2. (n - 1) - 1 + 1 = n - 1 /\ Len(u) = n - 1
    BY <1>1, <2>1
  <2>3. \A i \in 1..(n - 1) : 1 + i - 1 = i
    BY <1>1
  <2> QED
    BY <2>1, <2>2, <2>3 DEF u
<1>7. t = SubSeq(s, 1, n - 1)
  <2> DEFINE u == SubSeq(s, 1, n - 1)
  <2>1. u \in Seq(Cells) /\ Len(u) = Len(t) /\ \A i \in 1..Len(t) : t[i] = u[i]
    BY <1>3, <1>4, <1>6
  <2> HIDE DEF u
  <2>2. t = u
    BY <1>3, <2>1, SeqEqual
  <2> QED
    BY <2>2 DEF u
<1>8. s # <<>>
  BY <1>1, <1>3, EmptySeq
<1> QED
  BY <1>3, <1>7, <1>8 DEF s, t

\* Taking the oldest character.
LEMMA TakeFirst ==
    ASSUME NEW x \in Index, NEW n \in 1..INPUT_BUF, NEW bf \in Ring
    PROVE  /\ Seg(bf, x, n) # <<>>
           /\ Head(Seg(bf, x, n)) = bf[Cell(x)]
           /\ Tail(Seg(bf, x, n)) = Seg(bf, Add(x, 1), n - 1)
<1>1. /\ n \in Nat /\ n - 1 \in Nat /\ n \in 0..INPUT_BUF /\ n - 1 \in 0..INPUT_BUF /\ x \in Int
      /\ Add(x, 0) = x
  BY Sizes, SegFrom DEF Index
<1> DEFINE s == Seg(bf, x, n)
           t == Seg(bf, Add(x, 1), n - 1)
<1>2. /\ s \in Seq(Cells) /\ Len(s) = n
      /\ \A i \in 1..n : s[i] = bf[(x + (i - 1)) % INPUT_BUF]
  BY <1>1, SegFrom
<1>3. /\ t \in Seq(Cells) /\ Len(t) = n - 1
      /\ \A i \in 1..(n - 1) : t[i] = bf[(x + 1 + (i - 1)) % INPUT_BUF]
  BY <1>1, SegAt
<1>4. s[1] = bf[Cell(x)]
  BY <1>1 DEF Seg
<1> HIDE DEF s, t
<1>5. s # <<>>
  BY <1>1, <1>2, EmptySeq
<1>6. /\ Tail(s) \in Seq(Cells) /\ Len(Tail(s)) = n - 1
      /\ \A i \in 1..(n - 1) : Tail(s)[i] = s[i + 1]
  BY <1>2, <1>5, HeadTailProperties
<1>7. ASSUME NEW i \in 1..(n - 1)
      PROVE  Tail(s)[i] = t[i]
  <2>1. i + 1 \in 1..n /\ x + ((i + 1) - 1) = x + 1 + (i - 1)
    BY <1>1
  <2> QED
    BY <1>2, <1>3, <1>6, <2>1
<1>8. Tail(s) = t
  BY <1>3, <1>6, <1>7, SeqEqual
<1>9. Head(s) = s[1]
  BY <1>2, <1>5
<1> QED
  BY <1>4, <1>5, <1>8, <1>9 DEF s, t

-----------------------------------------------------------------------------
(* Steps *)

LinesVars == <<Between(r, w), Between(w, e), dst>>

LEMMA InitInv ==
    ASSUME Init
    PROVE  CInv /\ Lines!Init
<1> USE ConsoleInputAssumption DEF Init
<1>1. LockInv
  BY DEF LockInv, Procs, Inside, IrqLabels, ReaderLabels
<1>2. ShiftInv
  BY DEF ShiftInv, Left
<1>3. 0 \in Index /\ Dist(0, 0) = 0
  <2>1. 0 \in Index
    BY DEF Index
  <2> QED
    BY <2>1, DistSteps
<1>4. RingInv
  <2>1. buf \in [0..(INPUT_BUF - 1) -> Cells]
    BY DEF Cells
  <2> QED
    BY <1>3, <2>1 DEF RingInv
<1>5. ReadersMissNothing
  BY DEF ReadersMissNothing, Procs
<1>6. Lines!Init
  <2>1. Between(0, 0) = <<>>
    <3>1. Between(0, 0) = [k \in 1..0 |-> buf[Cell(Add(0, k - 1))]]
      BY <1>3 DEF Between, Dist
    <3> QED
      BY <3>1
  <2> QED
    BY <2>1 DEF Lines!Init, Lines!Nothing
<1> QED
  BY <1>1, <1>2, <1>4, <1>5, <1>6 DEF CInv

\* What kbdgetc makes of each state of the controller.
LEMMA KbdgetcIs ==
    ASSUME ShiftInv
    PROVE  /\ Kbdgetc.c = "empty" <=> code = NoCode
           /\ Kbdgetc.c \in {"empty", "none", "kill", "eof", "dump", "erase", "newline", "a"}
           /\ code = NoCode => Kbdgetc.shift = shift
           /\ code \in Keys \cup {"other"} => Kbdgetc.shift = shift \ {"E0ESC"}
           /\ code = "E0" => Kbdgetc.shift = shift \cup {"E0ESC"}
           /\ code = "ctl up" => Kbdgetc.shift = {}
           /\ code = "ctl down" => Kbdgetc.shift = {"CTL"}
<1> USE DEF NoCode, Keys
<1>1. CASE code = NoCode
  BY <1>1 DEF Kbdgetc
<1>2. CASE code = "E0"
  BY <1>2 DEF Kbdgetc
<1>3. CASE code = "ctl up"
  <2>1. Kbdgetc = [c |-> "none", shift |-> shift \ {"CTL", "E0ESC"}]
    BY <1>3 DEF Kbdgetc
  <2>2. shift \ {"CTL", "E0ESC"} = {}
    BY <1>3 DEF ShiftInv
  <2> QED
    BY <1>3, <2>1, <2>2
<1>4. CASE code = "ctl down"
  <2>1. Kbdgetc = [c |-> "none", shift |-> (shift \ {"E0ESC"}) \cup {"CTL"}]
    BY <1>4 DEF Kbdgetc
  <2>2. (shift \ {"E0ESC"}) \cup {"CTL"} = {"CTL"}
    BY <1>4 DEF ShiftInv
  <2> QED
    BY <1>4, <2>1, <2>2
<1>5. CASE code \in Keys
  <2>1. Kbdgetc = [c |-> Char(code, "CTL" \in shift), shift |-> shift \ {"E0ESC"}]
    BY <1>5 DEF Kbdgetc
  <2>2. Char(code, "CTL" \in shift) \in {"none", "kill", "eof", "dump", "erase", "newline", "a"}
    BY <1>5 DEF Char
  <2> QED
    BY <1>5, <2>1, <2>2
<1>6. CASE code = "other"
  BY <1>6 DEF Kbdgetc
<1> QED
  BY <1>1, <1>2, <1>3, <1>4, <1>5, <1>6 DEF ShiftInv

\* Reading the controller, from the handler or from getch.
LEMMA GotKeyInv ==
    ASSUME ShiftInv, GotKey
    PROVE  ShiftInv'
<1> USE DEF NoCode, Keys
<1>1. code' = NoCode /\ UNCHANGED <<down, pressed, prefixed>> /\ shift' = Kbdgetc.shift
  BY DEF GotKey
<1>2. CASE code = NoCode
  <2>1. shift' = shift
    BY <1>1, <1>2, KbdgetcIs
  <2> QED
    BY <1>1, <1>2, <2>1 DEF ShiftInv
<1>3. CASE code = "E0"
  <2>1. shift' = shift \cup {"E0ESC"}
    BY <1>1, <1>3, KbdgetcIs
  <2> QED
    BY <1>1, <1>3, <2>1 DEF ShiftInv
<1>4. CASE code = "ctl up"
  <2>1. shift' = {} /\ ~pressed /\ ~prefixed
    BY <1>1, <1>4, KbdgetcIs DEF ShiftInv
  <2> QED
    BY <1>1, <2>1 DEF ShiftInv, Left
<1>5. CASE code = "ctl down"
  <2>1. shift' = {"CTL"} /\ pressed /\ ~prefixed
    BY <1>1, <1>5, KbdgetcIs DEF ShiftInv
  <2> QED
    BY <1>1, <2>1 DEF ShiftInv, Left
<1>6. CASE code \in Keys \cup {"other"}
  <2>1. shift' = shift \ {"E0ESC"} /\ ~prefixed /\ shift \ {"E0ESC"} = Left(pressed)
    BY <1>1, <1>6, KbdgetcIs DEF ShiftInv
  <2> QED
    BY <1>1, <2>1 DEF ShiftInv
<1> QED
  BY <1>2, <1>3, <1>4, <1>5, <1>6 DEF ShiftInv

\* A step that leaves the ring alone leaves what the lines are alone; what it stores in
\* dst is nothing, or what was there.
LEMMA RingFrame ==
    ASSUME RingInv, UNCHANGED <<buf, r, w, e>>, dst' = dst \/ dst' = "nothing"
    PROVE  RingInv' /\ [Lines!Next]_LinesVars
<1>1. UNCHANGED <<Between(r, w), Between(w, e)>>
  BY DEF Between
<1> QED
  BY <1>1 DEF RingInv, LinesVars, Lines!Next, Lines!Forget, Lines!Nothing, Dist

\* A step of one process that takes cons.lock, keeps it, releases it or does without.
LEMMA LockFrame ==
    ASSUME LockInv, NEW p \in Procs, NEW l, pc' = [pc EXCEPT ![p] = l],
           (p = Irq /\ l \in IrqLabels) \/ (p \in Readers /\ l \in ReaderLabels),
           \/ lock = NoProc /\ lock' = p /\ l \in Inside
           \/ lock' = lock /\ (l \in Inside <=> pc[p] \in Inside)
           \/ pc[p] \in Inside /\ lock' = NoProc /\ l \notin Inside
    PROVE  LockInv' /\ pc'[p] = l /\ \A q \in Procs : q # p => pc'[q] = pc[q]
<1> USE ConsoleInputAssumption
<1>1. pc' \in [Procs -> IrqLabels \cup ReaderLabels] /\ pc'[p] = l /\ \A q \in Procs : q # p => pc'[q] = pc[q]
  BY DEF LockInv
<1>2. Irq \in Procs /\ \A q \in Readers : q \in Procs /\ q # Irq
  BY DEF Procs
<1>3. pc'[Irq] \in IrqLabels /\ \A q \in Readers : pc'[q] \in ReaderLabels
  BY <1>1, <1>2 DEF LockInv
<1>4. lock' \in Procs \cup {NoProc}
  BY DEF LockInv
<1>5. NoProc \notin Procs
  BY DEF Procs
<1>6. \A q \in Procs : pc'[q] \in Inside <=> lock' = q
  BY <1>1, <1>5 DEF LockInv
<1> QED
  BY <1>1, <1>3, <1>4, <1>6 DEF LockInv

LEMMA KeyboardInv ==
    ASSUME CInv, Keyboard
    PROVE  CInv' /\ [Lines!Next]_LinesVars
<1> USE DEF CInv
<1>1. UNCHANGED <<lock, pc, buf, r, w, e, dst>>
  BY DEF Keyboard, Prefix, Press, PressCtl, OtherKey, Sends, input, reading
<1>2. LockInv' /\ ReadersMissNothing'
  BY <1>1 DEF LockInv, ReadersMissNothing
<1>3. RingInv' /\ [Lines!Next]_LinesVars
  BY <1>1, RingFrame
<1>4. ShiftInv'
  <2> USE DEF NoCode, Keys
  <2>1. CASE Prefix
    BY <2>1 DEF Prefix, ShiftInv
  <2>2. code = NoCode => shift \ {"E0ESC"} = Left(pressed)
    BY DEF ShiftInv, Left
  <2>3. CASE OtherKey \/ \E k \in Keys : Press(k)
    <3>1. /\ code = NoCode /\ code' \in Keys \cup {"other"} /\ ~prefixed' /\ prefixed' \in BOOLEAN
          /\ UNCHANGED <<down, pressed, shift>>
      BY <2>3 DEF OtherKey, Press, Sends
    <3> QED
      BY <2>2, <3>1 DEF ShiftInv
  <2>4. ASSUME NEW side \in {"left", "right"}, PressCtl(side)
        PROVE  ShiftInv'
    <3>1. CASE side \in down
      BY <2>4, <3>1 DEF PressCtl, Sends, ShiftInv
    <3>2. CASE side \notin down
      BY <2>4, <3>2 DEF PressCtl, Sends, ShiftInv
    <3> QED
      BY <3>1, <3>2
  <2> QED
    BY <2>1, <2>3, <2>4 DEF Keyboard
<1> QED
  BY <1>2, <1>3, <1>4

\* Nobody is about to sleep while the handler or another reader has the lock.
LEMMA Alone ==
    ASSUME LockInv, NEW p \in Procs, pc[p] \in Inside
    PROVE  lock = p /\ \A q \in Procs : q # p => pc[q] \notin Inside
BY ConsoleInputAssumption DEF LockInv, Procs

\* The steps of the handler that do not touch the ring.
LEMMA HandlerInv ==
    ASSUME CInv, Intr \/ IntrEnd \/ Procdump
    PROVE  CInv' /\ [Lines!Next]_LinesVars
<1> USE DEF CInv
<1>1. UNCHANGED <<code, down, pressed, prefixed, shift, buf, r, w, e, dst>>
  BY DEF Intr, IntrEnd, Procdump, device, input, reading
<1>2. ShiftInv' /\ RingInv' /\ [Lines!Next]_LinesVars
  BY <1>1, RingFrame DEF ShiftInv
<1>3. Irq \in Procs /\ "dump" \notin Inside /\ "user" \notin Inside /\ {"intr", "dump_print"} \subseteq Inside
  BY DEF Procs, Inside
<1>4. PICK l \in IrqLabels :
        /\ pc' = [pc EXCEPT ![Irq] = l]
        /\ \/ lock = NoProc /\ lock' = Irq /\ l \in Inside
           \/ pc[Irq] \in Inside /\ lock' = NoProc /\ l \notin Inside
  <2>1. CASE Intr
    BY <1>3, <2>1 DEF Intr, Take, Goto, IrqLabels
  <2>2. CASE IntrEnd
    BY <1>3, <2>2 DEF IntrEnd, Free, Goto, IrqLabels, At
  <2>3. CASE Procdump
    BY <1>3, <2>3 DEF Procdump, Take, Free, Goto, IrqLabels, At
  <2> QED
    BY <2>1, <2>2, <2>3
<1>5. LockInv' /\ \A q \in Procs : q # Irq => pc'[q] = pc[q]
  BY <1>3, <1>4, LockFrame
<1>6. ReadersMissNothing'
  BY <1>1, <1>5, ConsoleInputAssumption DEF ReadersMissNothing, Procs
<1> QED
  BY <1>2, <1>5, <1>6

-----------------------------------------------------------------------------
(* The ring moves as the line discipline says *)

\* The number of finished characters and of those of the line.
LEMMA Lengths ==
    ASSUME RingInv
    PROVE  /\ Dist(r, w) \in 0..INPUT_BUF /\ Dist(w, e) \in 0..INPUT_BUF
           /\ Dist(r, e) = Dist(r, w) + Dist(w, e) /\ Dist(r, e) \in 0..INPUT_BUF
           /\ w = Add(r, Dist(r, w)) /\ e = Add(r, Dist(r, e))
           /\ Between(r, w) = Seg(buf, r, Dist(r, w)) /\ Len(Between(r, w)) = Dist(r, w)
           /\ Between(w, e) = Seg(buf, w, Dist(w, e)) /\ Len(Between(w, e)) = Dist(w, e)
<1>1. /\ r \in Index /\ w \in Index /\ e \in Index /\ buf \in Ring
      /\ Dist(r, w) + Dist(w, e) <= INPUT_BUF
  BY DEF RingInv, Ring
<1>2. Dist(r, w) \in Nat /\ Dist(w, e) \in Nat /\ INPUT_BUF \in Nat
  BY <1>1, DistSteps, Sizes
<1>3. Dist(r, w) \in 0..INPUT_BUF /\ Dist(w, e) \in 0..INPUT_BUF
  BY <1>1, <1>2
<1>4. Dist(r, e) = Dist(r, w) + Dist(w, e) /\ w = Add(r, Dist(r, w)) /\ e = Add(r, Dist(r, e))
  BY <1>1, DistSum
<1>5. Between(r, w) = Seg(buf, r, Dist(r, w)) /\ Between(w, e) = Seg(buf, w, Dist(w, e))
  BY DEF Between, Seg, Dist
<1>6. /\ Len(Seg(buf, r, Dist(r, w))) = Dist(r, w)
      /\ Len(Seg(buf, w, Dist(w, e))) = Dist(w, e)
  BY <1>1, <1>3, SegFrom
<1>7. Dist(r, e) \in 0..INPUT_BUF
  BY <1>1, <1>2, <1>4
<1> QED
  BY <1>3, <1>4, <1>5, <1>6, <1>7

\* A character of an unfinished line is taken back.
LEMMA BackspaceStep ==
    ASSUME RingInv, Backspace, dst' = dst
    PROVE  RingInv' /\ Lines!Erase
<1>1. /\ e # w /\ e' = Add(e, -1) /\ UNCHANGED <<buf, r, w>>
      /\ r \in Index /\ w \in Index /\ e \in Index /\ buf \in Ring
  BY DEF Backspace, RingInv, Ring
<1>2. /\ Dist(r, w) \in 0..INPUT_BUF /\ Dist(w, e) \in 0..INPUT_BUF
      /\ Dist(r, w) + Dist(w, e) <= INPUT_BUF
      /\ Between(w, e) = Seg(buf, w, Dist(w, e))
  BY Lengths DEF RingInv
<1>3. Dist(w, e) # 0 /\ Add(e, -1) \in Index
  BY <1>1, DistSteps
<1>4. Dist(w, e) > 0 /\ Dist(w, e) \in 1..INPUT_BUF
  BY <1>2, <1>3, Sizes
<1>5. Dist(w, e') = Dist(w, e) - 1
  BY <1>1, <1>4, DistSteps
<1>6. RingInv'
  <2>1. Dist(r', w') = Dist(r, w) /\ Dist(w', e') = Dist(w, e) - 1
    BY <1>1, <1>5
  <2>2. Dist(r', w') + Dist(w', e') <= INPUT_BUF
    BY <1>2, <1>4, <2>1, Sizes
  <2>3. Dist(r, w)' = Dist(r', w') /\ Dist(w, e)' = Dist(w', e')
    BY DEF Dist
  <2> QED
    BY <1>1, <1>3, <2>2, <2>3 DEF RingInv, Ring
<1>7. Between(r, w)' = Between(r, w)
  BY <1>1 DEF Between
<1>8. Between(w, e)' = Seg(buf, w, Dist(w, e) - 1)
  <2>1. Between(w, e)' = Seg(buf', w', Dist(w', e'))
    BY DEF Between, Seg, Dist
  <2> QED
    BY <1>1, <1>5, <2>1
<1>9. /\ Seg(buf, w, Dist(w, e)) # <<>>
      /\ Seg(buf, w, Dist(w, e) - 1) = SubSeq(Seg(buf, w, Dist(w, e)), 1, Len(Seg(buf, w, Dist(w, e))) - 1)
  BY <1>1, <1>4, EraseLast
<1> QED
  BY <1>2, <1>6, <1>7, <1>8, <1>9 DEF Lines!Erase, Lines!Front

\* A reader takes the oldest finished character.
LEMMA TakeStep ==
    ASSUME RingInv, r # w, r' = Add(r, 1), UNCHANGED <<buf, w, e>>, dst' = buf[Cell(r)]
    PROVE  RingInv' /\ Lines!Read
<1>1. r \in Index /\ w \in Index /\ e \in Index /\ buf \in Ring
  BY DEF RingInv, Ring
<1>2. /\ Dist(r, w) \in 0..INPUT_BUF /\ Dist(w, e) \in 0..INPUT_BUF
      /\ Dist(r, w) + Dist(w, e) <= INPUT_BUF
      /\ Between(r, w) = Seg(buf, r, Dist(r, w))
  BY Lengths DEF RingInv
<1>3. Dist(r, w) # 0 /\ Add(r, 1) \in Index
  BY <1>1, DistSteps
<1>4. Dist(r, w) > 0 /\ Dist(r, w) \in 1..INPUT_BUF
  BY <1>2, <1>3, Sizes
<1>5. Dist(r', w) = Dist(r, w) - 1
  BY <1>1, <1>4, DistSteps
<1>6. RingInv'
  <2>1. Dist(r', w') = Dist(r, w) - 1 /\ Dist(w', e') = Dist(w, e)
    BY <1>5
  <2>2. Dist(r', w') + Dist(w', e') <= INPUT_BUF
    BY <1>2, <1>4, <2>1, Sizes
  <2>3. Dist(r, w)' = Dist(r', w') /\ Dist(w, e)' = Dist(w', e')
    BY DEF Dist
  <2> QED
    BY <1>1, <1>3, <2>2, <2>3 DEF RingInv, Ring
<1>7. Between(w, e)' = Between(w, e)
  BY DEF Between
<1>8. Between(r, w)' = Seg(buf, Add(r, 1), Dist(r, w) - 1)
  <2>1. Between(r, w)' = Seg(buf', r', Dist(r', w'))
    BY DEF Between, Seg, Dist
  <2> QED
    BY <1>5, <2>1
<1>9. /\ Seg(buf, r, Dist(r, w)) # <<>>
      /\ Head(Seg(buf, r, Dist(r, w))) = buf[Cell(r)]
      /\ Tail(Seg(buf, r, Dist(r, w))) = Seg(buf, Add(r, 1), Dist(r, w) - 1)
  BY <1>1, <1>4, TakeFirst
<1> QED
  BY <1>2, <1>6, <1>7, <1>8, <1>9 DEF Lines!Read

\* A typed character ends the line, fills the ring or makes the line longer.
LEMMA StoreStep ==
    ASSUME RingInv, NEW c \in {"a", "newline", "eof"}, Dist(r, e) < INPUT_BUF, Store(c), dst' = dst
    PROVE  RingInv' /\ Lines!Type(c)
<1> DEFINE next == Add(e, 1)
           finished == c \in {"newline", "eof"} \/ next = Add(r, INPUT_BUF)
<1>1. r \in Index /\ w \in Index /\ e \in Index /\ buf \in Ring /\ c \in Cells
  BY DEF RingInv, Ring, Cells
<1>a. Dist(r, w) \in Nat /\ Dist(w, e) \in Nat
  BY <1>1, DistSteps
<1>b. PICK n1 \in Nat, n2 \in Nat : n1 = Dist(r, w) /\ n2 = Dist(w, e)
  BY <1>a
<1>2. /\ Dist(r, e) = n1 + n2 /\ n1 + n2 < INPUT_BUF
      /\ w = Add(r, n1) /\ e = Add(r, n1 + n2) /\ INPUT_BUF \in Nat
      /\ Between(r, w) = Seg(buf, r, n1) /\ Len(Between(r, w)) = n1
      /\ Between(w, e) = Seg(buf, w, n2) /\ Len(Between(w, e)) = n2
  BY <1>b, Lengths, Sizes
<1>3. /\ buf' = [buf EXCEPT ![Cell(e)] = c] /\ e' = next /\ r' = r
      /\ w' = IF finished THEN next ELSE w
  BY DEF Store
<1>4. /\ next \in Index /\ Dist(r, next) = n1 + n2 + 1 /\ Dist(next, next) = 0
      /\ Dist(w, next) = n2 + 1
      /\ next = Add(r, INPUT_BUF) <=> n1 + n2 + 1 = INPUT_BUF
  <2>1. next \in Index
    BY <1>1, DistSteps
  <2>2. Dist(r, next) = n1 + n2 + 1
    <3>1. Dist(r, e) < INPUT_BUF
      BY <1>2
    <3>2. Dist(r, next) = Dist(r, e) + 1
      BY <1>1, <3>1, DistSteps
    <3> QED
      BY <1>2, <3>2
  <2>3. n2 < INPUT_BUF
    BY <1>2
  <2>4. Dist(w, next) = n2 + 1 /\ Dist(next, next) = 0
    BY <1>1, <1>b, <2>1, <2>3, DistSteps
  <2>5. Dist(r, next) <= INPUT_BUF
    BY <1>2, <2>2
  <2>6. next = Add(r, INPUT_BUF) <=> Dist(r, next) = INPUT_BUF
    <3> HIDE DEF next
    <3> QED
      BY <1>1, <2>1, <2>5, DistSteps
  <2> QED
    BY <2>1, <2>2, <2>4, <2>6
<1> HIDE DEF next
<1>5. /\ buf' \in Ring /\ buf'[Cell(e)] = c
      /\ \A i \in 0..(INPUT_BUF - 1) : i # Cell(e) => buf'[i] = buf[i]
  <2>1. Cell(e) \in 0..(INPUT_BUF - 1)
    <3>1. e \in Int /\ INPUT_BUF \in Nat \ {0}
      BY <1>1, Sizes DEF Index
    <3> QED
      BY <3>1, DivMod DEF Cell
  <2> QED
    BY <1>1, <1>3, <2>1 DEF Ring
<1>6. /\ Seg(buf', r, n1) = Seg(buf, r, n1)
      /\ Seg(buf', Add(r, n1), n2 + 1) = Append(Seg(buf, Add(r, n1), n2), c)
      /\ Seg(buf', r, n1 + n2 + 1) = Seg(buf, r, n1) \o Append(Seg(buf, Add(r, n1), n2), c)
  <2>1. Stored(buf, buf', r, n1, n2, c)
    BY <1>1, <1>2, <1>5 DEF Stored
  <2> QED
    BY <2>1, StoreAppends
<1>7. Between(r, w)' = Seg(buf', r', Dist(r', w')) /\ Between(w, e)' = Seg(buf', w', Dist(w', e'))
  BY DEF Between, Seg, Dist
<1>8. Dist(r, w)' = Dist(r', w') /\ Dist(w, e)' = Dist(w', e')
  BY DEF Dist
<1>9. n1 + n2 + 1 <= INPUT_BUF
  BY <1>2
<1>10. finished <=> c \in {"newline", "eof"} \/ Len(Between(r, w)) + Len(Between(w, e)) + 1 = INPUT_BUF
  BY <1>2, <1>4
<1>11. Len(Between(r, w)) + Len(Between(w, e)) # INPUT_BUF
  BY <1>2
<1>12. CASE finished
  <2>1. w' = next /\ Dist(r', w') = n1 + n2 + 1 /\ Dist(w', e') = 0
    BY <1>3, <1>4, <1>12
  <2>2. RingInv'
    <3>1. Dist(r', w') + Dist(w', e') <= INPUT_BUF
      BY <1>2, <1>9, <2>1
    <3> QED
      BY <1>1, <1>3, <1>4, <1>5, <1>8, <2>1, <3>1 DEF RingInv, Ring
  <2>3. Between(r, w)' = Between(r, w) \o Append(Between(w, e), c)
    BY <1>2, <1>3, <1>6, <1>7, <2>1
  <2>4. Between(w, e)' = <<>>
    <3>1. Between(w, e)' = Seg(buf', w', 0)
      BY <1>7, <2>1
    <3>2. Seg(buf', w', 0) = <<>>
      BY DEF Seg
    <3> QED
      BY <3>1, <3>2
  <2> HIDE DEF finished
  <2> QED
    BY <1>10, <1>11, <1>12, <2>2, <2>3, <2>4 DEF Lines!Type, Lines!Full
<1>13. CASE ~finished
  <2>1. w' = w /\ Dist(r', w') = n1 /\ Dist(w', e') = n2 + 1
    BY <1>3, <1>4, <1>13, <1>b
  <2>2. RingInv'
    <3>1. Dist(r', w') + Dist(w', e') <= INPUT_BUF
      BY <1>2, <1>9, <2>1
    <3> QED
      BY <1>1, <1>3, <1>4, <1>5, <1>8, <2>1, <3>1 DEF RingInv, Ring
  <2>3. Between(r, w)' = Between(r, w)
    BY <1>2, <1>3, <1>6, <1>7, <2>1
  <2>4. Between(w, e)' = Append(Between(w, e), c)
    BY <1>2, <1>6, <1>7, <2>1
  <2> HIDE DEF finished
  <2> QED
    BY <1>10, <1>11, <1>13, <2>2, <2>3, <2>4 DEF Lines!Type, Lines!Full
<1> QED
  BY <1>12, <1>13

-----------------------------------------------------------------------------
(* The handler's loop *)

\* One character of the handler's loop: only finishing a line moves w, and then
\* everyone who sleeps is woken; nobody is between its test and its sleep.
LEMMA IntrKeyInv ==
    ASSUME CInv, IntrKey
    PROVE  CInv' /\ [Lines!Next]_LinesVars
<1> USE DEF CInv
<1> DEFINE c == Kbdgetc.c
           full == (e - r) % UintMod >= INPUT_BUF
<1>1. /\ pc[Irq] = "intr" /\ c # "empty" /\ GotKey /\ UNCHANGED <<lock, dst>>
      /\ \/ Ignore
         \/ Backspace
         \/ c \notin {"dump", "kill", "erase", "none"} /\ ~full /\ Store(c)
  BY DEF IntrKey, At, reading
<1>2. c \in {"empty", "none", "kill", "eof", "dump", "erase", "newline", "a"}
  BY KbdgetcIs
<1> HIDE DEF c
<1>3. ShiftInv'
  BY <1>1, GotKeyInv
<1>4. Irq \in Procs /\ \A p \in Readers : p \in Procs /\ p # Irq /\ pc[p] \notin Inside
  BY <1>1, Alone, ConsoleInputAssumption DEF Procs, Inside
<1>5. CASE Ignore
  <2>1. UNCHANGED <<buf, r, w, e, pc>>
    BY <1>5 DEF Ignore, input
  <2> QED
    BY <1>1, <1>3, <2>1, RingFrame DEF LockInv, ReadersMissNothing
<1>6. CASE Backspace
  <2>1. UNCHANGED <<r, w, pc>>
    BY <1>6 DEF Backspace
  <2>2. RingInv' /\ Lines!Erase
    BY <1>1, <1>6, BackspaceStep
  <2> QED
    BY <1>1, <1>3, <2>1, <2>2 DEF LockInv, ReadersMissNothing, Lines!Next
<1>7. CASE c \notin {"dump", "kill", "erase", "none"} /\ ~full /\ Store(c)
  <2>1. c \in {"a", "newline", "eof"}
    BY <1>1, <1>2, <1>7
  <2>2. Dist(r, e) < INPUT_BUF
    <3>1. Dist(r, e) \in Nat /\ INPUT_BUF \in Nat
      BY Lengths, Sizes
    <3>2. ~(Dist(r, e) >= INPUT_BUF)
      BY <1>7 DEF Dist
    <3> QED
      BY <3>1, <3>2
  <2>3. RingInv' /\ Lines!Type(c)
    BY <1>1, <1>7, <2>1, <2>2, StoreStep
  <2>5. (UNCHANGED <<r, w>> /\ UNCHANGED pc) \/ Wakeup
    <3>1. CASE c \in {"newline", "eof"} \/ Add(e, 1) = Add(r, INPUT_BUF)
      BY <1>7, <3>1 DEF Store
    <3>2. CASE ~(c \in {"newline", "eof"} \/ Add(e, 1) = Add(r, INPUT_BUF))
      BY <1>7, <3>2 DEF Store
    <3> QED
      BY <3>1, <3>2
  <2>6. LockInv' /\ ReadersMissNothing'
    <3>1. CASE UNCHANGED <<r, w>> /\ UNCHANGED pc
      BY <1>1, <3>1 DEF LockInv, ReadersMissNothing
    <3>2. CASE Wakeup
      <4>1. /\ pc' \in [Procs -> IrqLabels \cup ReaderLabels]
            /\ \A p \in Procs : pc'[p] = IF pc[p] = "asleep" THEN "read_lock" ELSE pc[p]
        BY <3>2 DEF Wakeup, LockInv, ReaderLabels
      <4>2. \A p \in Procs : pc'[p] \in Inside <=> pc[p] \in Inside
        BY <4>1 DEF Inside
      <4>3. pc'[Irq] \in IrqLabels /\ \A p \in Readers : pc'[p] \in ReaderLabels
        BY <1>4, <4>1 DEF LockInv, IrqLabels, ReaderLabels
      <4>4. \A p \in Readers : pc'[p] \notin {"read_sleep", "asleep"}
        BY <1>4, <4>1 DEF Inside
      <4> QED
        BY <1>1, <4>1, <4>2, <4>3, <4>4 DEF LockInv, ReadersMissNothing
    <3> QED
      BY <2>5, <3>1, <3>2
  <2> QED
    BY <1>3, <2>1, <2>3, <2>6 DEF Lines!Next
<1> QED
  BY <1>1, <1>5, <1>6, <1>7

\* Control-U takes back the line character by character.
LEMMA IntrKillInv ==
    ASSUME CInv, IntrKill
    PROVE  CInv' /\ [Lines!Next]_LinesVars
<1> USE DEF CInv
<1>1. UNCHANGED <<lock, code, down, pressed, prefixed, shift, dst>> /\ (Backspace \/ Ignore)
  BY DEF IntrKill, device, reading
<1>2. CASE Ignore
  <2>1. UNCHANGED <<buf, r, w, e, pc>>
    BY <1>2 DEF Ignore, input
  <2> QED
    BY <1>1, <2>1, RingFrame DEF LockInv, ReadersMissNothing, ShiftInv
<1>3. CASE Backspace
  <2>1. UNCHANGED <<r, w, pc>>
    BY <1>3 DEF Backspace
  <2>2. RingInv' /\ Lines!Erase
    BY <1>1, <1>3, BackspaceStep
  <2> QED
    BY <1>1, <2>1, <2>2 DEF LockInv, ReadersMissNothing, ShiftInv, Lines!Next
<1> QED
  BY <1>1, <1>2, <1>3

-----------------------------------------------------------------------------
(* consoleread and consoleget *)

\* A step of a reader to label l that leaves the indices alone and does not leave it
\* about to sleep.
LEMMA ReaderFrame ==
    ASSUME CInv, NEW p \in Readers, NEW l \in ReaderLabels, pc' = [pc EXCEPT ![p] = l],
           \/ lock = NoProc /\ lock' = p /\ l \in Inside
           \/ lock' = lock /\ (l \in Inside <=> pc[p] \in Inside)
           \/ pc[p] \in Inside /\ lock' = NoProc /\ l \notin Inside,
           UNCHANGED <<r, w>>, l \in {"read_sleep", "asleep"} => r = w
    PROVE  LockInv' /\ ReadersMissNothing'
<1> USE DEF CInv
<1>1. p \in Procs /\ \A q \in Readers : q \in Procs
  BY DEF Procs
<1>2. LockInv' /\ pc'[p] = l /\ \A q \in Procs : q # p => pc'[q] = pc[q]
  BY <1>1, LockFrame
<1> QED
  BY <1>1, <1>2 DEF ReadersMissNothing

\* The steps of a reader that take nothing out of the ring.
LEMMA ConsolereadInv ==
    ASSUME CInv, NEW p \in Readers, NEW n,
           Read(p, n) \/ ReadLock(p) \/ ReadEmpty(p) \/ ReadSleep(p) \/ ReadEnd(p)
    PROVE  CInv' /\ [Lines!Next]_LinesVars
<1> USE DEF CInv
<1>1. UNCHANGED <<code, down, pressed, prefixed, shift, buf, r, w, e>> /\ (dst' = dst \/ dst' = "nothing")
  BY DEF Read, ReadLock, ReadEmpty, ReadSleep, ReadEnd, ReadReturns, device, input, reading
<1>2. ShiftInv' /\ RingInv' /\ [Lines!Next]_LinesVars
  BY <1>1, RingFrame DEF ShiftInv
<1> USE DEF Goto, Take, Free, At, Inside, ReaderLabels
<1>3. PICK l \in ReaderLabels :
        /\ pc' = [pc EXCEPT ![p] = l]
        /\ \/ lock = NoProc /\ lock' = p /\ l \in Inside
           \/ lock' = lock /\ (l \in Inside <=> pc[p] \in Inside)
           \/ pc[p] \in Inside /\ lock' = NoProc /\ l \notin Inside
        /\ l \in {"read_sleep", "asleep"} => r = w
  <2>1. CASE Read(p, n)
    BY <2>1 DEF Read
  <2>2. CASE ReadLock(p)
    BY <2>2 DEF ReadLock
  <2>3. CASE ReadEmpty(p)
    BY <2>3 DEF ReadEmpty, ReadReturns
  <2>4. CASE ReadSleep(p)
    BY <2>4 DEF ReadSleep, ReadersMissNothing
  <2>5. CASE ReadEnd(p)
    BY <2>5 DEF ReadEnd, ReadReturns
  <2> QED
    BY <2>1, <2>2, <2>3, <2>4, <2>5
<1>4. LockInv' /\ ReadersMissNothing'
  BY <1>1, <1>3, ReaderFrame
<1> QED
  BY <1>2, <1>4

\* A reader takes a character: r moves while nobody sleeps, for there was text.
LEMMA ReadCharInv ==
    ASSUME CInv, NEW p \in Readers, ReadChar(p)
    PROVE  CInv' /\ [Lines!Next]_LinesVars
<1> USE DEF CInv
<1>1. /\ UNCHANGED <<code, down, pressed, prefixed, shift, buf, w, e>> /\ pc[p] = "read" /\ r # w
      /\ \/ /\ pc' = [pc EXCEPT ![p] = "user"] /\ lock' = NoProc /\ dst' = "nothing" /\ r' = r
         \/ UNCHANGED <<lock, pc>> /\ dst' = buf[Cell(r)] /\ r' = Add(r, 1)
  BY DEF ReadChar, ReadReturns, Free, Goto, At, device
<1>2. ShiftInv'
  BY <1>1 DEF ShiftInv
<1>3. CASE pc' = [pc EXCEPT ![p] = "user"] /\ lock' = NoProc /\ dst' = "nothing" /\ r' = r
  <2>1. LockInv' /\ ReadersMissNothing'
    <3>1. "user" \in ReaderLabels /\ "user" \notin Inside /\ pc[p] \in Inside
      BY <1>1 DEF ReaderLabels, Inside
    <3> QED
      BY <1>1, <1>3, <3>1, ReaderFrame
  <2>2. RingInv' /\ [Lines!Next]_LinesVars
    BY <1>1, <1>3, RingFrame
  <2> QED
    BY <1>2, <2>1, <2>2
<1>4. CASE UNCHANGED <<lock, pc>> /\ dst' = buf[Cell(r)] /\ r' = Add(r, 1)
  <2>1. LockInv' /\ ReadersMissNothing'
    BY <1>1, <1>4 DEF LockInv, ReadersMissNothing
  <2>2. RingInv' /\ Lines!Read
    BY <1>1, <1>4, TakeStep
  <2> QED
    BY <1>2, <2>1, <2>2 DEF Lines!Next
<1> QED
  BY <1>1, <1>3, <1>4

\* kill, exit and getch leave the ring alone.
LEMMA OthersInv ==
    ASSUME CInv, NEW p \in Readers, Consoleget(p) \/ Kill(p) \/ Exited(p)
    PROVE  CInv' /\ [Lines!Next]_LinesVars
<1> USE DEF CInv
<1>1. UNCHANGED <<buf, r, w, e, dst>>
  BY DEF Consoleget, Getch, GetPoll, GetAgain, Kill, Exited, input, reading
<1>2. RingInv' /\ [Lines!Next]_LinesVars
  BY <1>1, RingFrame
<1>3. ShiftInv'
  <2>1. CASE GetPoll(p) \/ GetAgain(p)
    BY <2>1, GotKeyInv DEF GetPoll, GetAgain
  <2>2. CASE Getch(p) \/ Kill(p) \/ Exited(p)
    <3>1. UNCHANGED <<code, down, pressed, prefixed, shift>>
      BY <2>2 DEF Getch, Kill, Exited, device
    <3> QED
      BY <3>1 DEF ShiftInv
  <2> QED
    BY <2>1, <2>2 DEF Consoleget
<1>4. LockInv' /\ ReadersMissNothing'
  <2>0. p \in Procs /\ pc[p] \in ReaderLabels
    BY DEF Procs, LockInv
  <2> USE DEF Goto, Take, Free, At, Inside, ReaderLabels
  <2>1. CASE Exited(p)
    BY <1>1, <2>1 DEF Exited, LockInv, ReadersMissNothing
  <2>2. CASE ~Exited(p)
    <3>1. PICK l \in ReaderLabels :
            /\ pc' = [pc EXCEPT ![p] = l]
            /\ \/ lock = NoProc /\ lock' = p /\ l \in Inside
               \/ lock' = lock /\ (l \in Inside <=> pc[p] \in Inside)
               \/ pc[p] \in Inside /\ lock' = NoProc /\ l \notin Inside
            /\ l \in {"read_sleep", "asleep"} => r = w
      <4>1. CASE Getch(p)
        BY <4>1 DEF Getch
      <4>2. CASE GetPoll(p)
        BY <4>2 DEF GetPoll
      <4>3. CASE GetAgain(p)
        BY <4>3 DEF GetAgain
      <4>4. CASE Kill(p)
        <5> DEFINE l == IF pc[p] = "asleep" THEN "read_lock" ELSE pc[p]
        <5>1. l \in ReaderLabels /\ pc' = [pc EXCEPT ![p] = l] /\ lock' = lock
          BY <2>0, <4>4 DEF Kill
        <5>2. (l \in Inside <=> pc[p] \in Inside) /\ l # "asleep" /\ (l = "read_sleep" => pc[p] = "read_sleep")
          BY <4>4 DEF Kill
        <5>3. l \in {"read_sleep", "asleep"} => r = w
          BY <5>2 DEF ReadersMissNothing
        <5> HIDE DEF l
        <5> QED
          BY <5>1, <5>2, <5>3
      <4> QED
        BY <2>2, <4>1, <4>2, <4>3, <4>4 DEF Consoleget
    <3> QED
      BY <1>1, <3>1, ReaderFrame
  <2> QED
    BY <2>1, <2>2
<1> QED
  BY <1>2, <1>3, <1>4

LEMMA NextInv ==
    ASSUME CInv, [Next]_vars
    PROVE  CInv' /\ [Lines!Next]_LinesVars
<1>1. CASE Keyboard
  BY <1>1, KeyboardInv
<1>2. CASE Consoleintr
  BY <1>2, HandlerInv, IntrKeyInv, IntrKillInv DEF Consoleintr
<1>3. ASSUME NEW p \in Readers, Consoleread(p)
      PROVE  CInv' /\ [Lines!Next]_LinesVars
  BY <1>3, ConsolereadInv, ReadCharInv DEF Consoleread
<1>4. ASSUME NEW p \in Readers, Consoleget(p) \/ Kill(p) \/ Exited(p)
      PROVE  CInv' /\ [Lines!Next]_LinesVars
  BY <1>4, OthersInv
<1>5. CASE UNCHANGED vars
  <2>1. UNCHANGED <<lock, pc, code, down, pressed, prefixed, shift, buf, r, w, e, dst>>
    BY <1>5 DEF vars, device, input, reading
  <2>2. RingInv' /\ [Lines!Next]_LinesVars
    BY <2>1, RingFrame DEF CInv
  <2> QED
    BY <2>1, <2>2 DEF CInv, LockInv, ShiftInv, ReadersMissNothing
<1> QED
  BY <1>1, <1>2, <1>3, <1>4, <1>5 DEF Next

-----------------------------------------------------------------------------
(* Theorems *)

LEMMA Invariance == Spec => []CInv
<1>1. Init => CInv
  BY InitInv
<1>2. CInv /\ [Next]_vars => CInv'
  BY NextInv
<1> QED
  BY <1>1, <1>2, PTL DEF Spec

\* consoleread never sleeps on finished text: the wakeup of consoleintr cannot come
\* between its test of the ring and its sleep.
THEOREM NoLostLine == Spec => []ReadersMissNothing
<1>1. CInv => ReadersMissNothing
  BY DEF CInv
<1> QED
  BY <1>1, Invariance, PTL

\* However the interrupt handler and the polling of getch share prefixes and codes
\* between them, kbdgetc ends up with what the Control key that moved last says, and
\* never holds on to Control when both keys are up.
THEOREM ControlFollows == Spec => []ShiftFollowsKeys
<1>1. CInv => ShiftFollowsKeys
  BY DEF CInv, ShiftInv, ShiftFollowsKeys, Left, NoCode, Keys
<1> QED
  BY <1>1, Invariance, PTL

\* The ring is a line that can be edited and a queue of finished text, for any number
\* of wraps of its indices and of turns round the ring.
THEOREM RingIsLines == Spec => ImplementsLineDiscipline
<1>1. Init => Lines!Init
  BY InitInv
<1>2. CInv /\ [Next]_vars => [Lines!Next]_LinesVars
  BY NextInv
<1> QED
  BY <1>1, <1>2, Invariance, PTL DEF Spec, ImplementsLineDiscipline, Lines!Spec, LinesVars
=============================================================================

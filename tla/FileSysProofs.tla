---------------------------- MODULE FileSysProofs -----------------------------
(***************************************************************************)
(* Proofs about FileSys for any number of processes, inodes, names, cache  *)
(* entries and files.                                                      *)
(*                                                                         *)
(* RefsArePointers rests on what each label says of the pointers its       *)
(* process has (Hand); CacheCoherent on no inode having two entries.       *)
(* NoLostInode needs the links of every inode counted (LinkInv), the locks *)
(* a process has taken (LockInv), and the inode numbers ialloc has handed  *)
(* out and nobody has seen yet (NewInv).                                   *)
(***************************************************************************)
EXTENDS FileSys, Integers, FiniteSetTheorems, SequenceTheorems, WellFoundedInduction, TLAPS

Kinds == {"none", "file", "dir"}
DinodeRec == [type : Kinds, nlink : Int, ents : [Names \cup Dots -> 0..NInodes]]
InodeRec == [ref : Nat, inum : 0..NInodes, valid : BOOLEAN, type : Kinds, nlink : Int,
             owner : Procs \cup {NoProc}]
FileRec == [ref : Nat, ip : 0..NINODE]
PutRec == [slot : Slots, held : BOOLEAN]
CallRec == [op : {"open", "create", "mkdir", "unlink"}, path : Paths, write : BOOLEAN]
           \cup [op : {"link", "link_new"}, path : Paths, new : Paths] \cup {NoCall}

\* The types of what a process has, and of the open files.
LType ==
    /\ pc \in [Procs -> Labels] /\ ret \in [Procs -> Labels]
    /\ call \in [Procs -> CallRec]
    /\ rest \in [Procs -> Seq(Names \cup Dots)]
    /\ ip \in [Procs -> 0..NINODE] /\ dp \in [Procs -> 0..NINODE] /\ old \in [Procs -> 0..NINODE]
    /\ inum \in [Procs -> 0..NInodes]
    /\ puts \in [Procs -> Seq(PutRec)]
FType ==
    /\ ftable \in [Files -> FileRec]
    /\ ofile \in [Procs -> [Fds -> 0..NFILE]]
    /\ \A f \in Files : ftable[f].ref > 0 => ftable[f].ip \in Slots

\* No inode has two entries.
Unique(c) == \A s, t \in Slots : c[s].ref > 0 /\ c[t].ref > 0 /\ c[s].inum = c[t].inum => s = t

\* Entries that have been read have what the disk has.
Agrees(c, d) ==
    \A s \in Slots : c[s].ref > 0 /\ c[s].valid =>
        c[s].type = d[c[s].inum].type /\ c[s].nlink = d[c[s].inum].nlink

\* A cache c over a disk d; counts of links might be negative.
Numbered(c) == \A s \in Slots : c[s].ref > 0 => c[s].inum \in Inums
Good(c, d) ==
    /\ c \in [Slots -> InodeRec] /\ d \in [Inums -> DinodeRec]
    /\ Numbered(c) /\ Unique(c) /\ Agrees(c, d)

Putting3 == {"put", "free", "drop"}

\* Where a process at label l is, or will be after the iputs it makes.
Whither(l, t) == IF l \in Putting3 THEN t ELSE l

\* What the callers of iput do next.
Returns == {"user", "walk", "open", "openfile", "create_found", "unlink_dec", "link", "link_undo"}

HasIp == {"walk", "open", "openfile", "create_found", "create_new", "unlink_ip", "unlink_dec", "link"}
HasDp == {"create", "ialloc", "ialloc_iget", "create_new", "unlink", "unlink_ip", "link_new"}
HasOld == {"link_walk", "link_new", "link_undo"}
HasRest == {"walk", "create", "ialloc", "ialloc_iget", "create_new", "unlink", "unlink_ip", "link_new"}

\* What label l, and t after the iputs u, say of the other variables of a process.
HandOf(l, t, c, r, i, d, o, n, u) ==
    /\ l \in Putting3 => t \in Returns
    /\ (i # 0) <=> (Whither(l, t) \in HasIp)
    /\ (d # 0) <=> (Whither(l, t) \in HasDp)
    /\ (o # 0) <=> (Whither(l, t) \in HasOld \/ (Whither(l, t) = "walk" /\ c.op = "link_new"))
    /\ (n # 0) <=> (l \in {"ialloc_iget", "create_new"})
    /\ (Len(u) # 0) <=> (l \in Putting3)
    /\ Len(u) <= 2
    /\ l \in {"free", "drop"} => ~u[1].held
    /\ Whither(l, t) = "walk" => c.op \in {"open", "create", "mkdir", "unlink", "link", "link_new"}
    /\ Whither(l, t) \in {"link", "link_walk"} => c.op = "link"
    /\ Whither(l, t) \in HasRest => r # <<>>

Hand(p) == HandOf(pc[p], ret[p], call[p], rest[p], ip[p], dp[p], old[p], inum[p], puts[p])

\* ilock leaves no entry without a type.
Typed(c) == \A s \in Slots : c[s].ref > 0 /\ c[s].valid => c[s].type # "none"

\* As long as the machine runs.
Running ==
    /\ LType /\ FType
    /\ Typed(icache)
    /\ \A p \in Procs : Hand(p)
    /\ RefsArePointers

RInv == Good(icache, dinode) /\ (panicked = "no" => Running)

-----------------------------------------------------------------------------
(* Counting *)

Is(a, b) == IF a = b THEN 1 ELSE 0
In(e, S) == IF e \in S THEN 1 ELSE 0

\* Two sets that differ in at most one element.
LEMMA CardMove ==
    ASSUME NEW S, NEW T, NEW e, IsFiniteSet(S), \A x : x # e => (x \in S <=> x \in T)
    PROVE  /\ IsFiniteSet(T) /\ Cardinality(S) \in Nat /\ Cardinality(T) \in Nat
           /\ Cardinality(T) + In(e, S) = Cardinality(S) + In(e, T)
<1> DEFINE R == S \ {e}
<1>1. IsFiniteSet(R) /\ Cardinality(R) = IF e \in S THEN Cardinality(S) - 1 ELSE Cardinality(S)
  BY FS_RemoveElement
<1>2. Cardinality(R) \in Nat /\ Cardinality(S) \in Nat
  BY <1>1, FS_CardinalityType
<1>3. e \notin R
  OBVIOUS
<1>4. CASE e \in T
  <2>1. T = R \cup {e}
    BY <1>4
  <2>2. IsFiniteSet(R \cup {e}) /\ Cardinality(R \cup {e}) = Cardinality(R) + 1
    BY <1>1, <1>3, FS_AddElement
  <2> QED
    BY <1>1, <1>2, <1>4, <2>1, <2>2 DEF In, Is
<1>5. CASE e \notin T
  <2>1. T = R
    BY <1>5
  <2> QED
    BY <1>1, <1>2, <1>5, <2>1 DEF In, Is
<1> QED
  BY <1>4, <1>5

\* A finite set counts each of its elements.
LEMMA CardOne ==
    ASSUME NEW S, NEW x \in S, IsFiniteSet(S)
    PROVE  Cardinality(S) \in Nat /\ Cardinality(S) >= 1
  BY FS_CardinalityType, FS_EmptySet

LEMMA CardTwo ==
    ASSUME NEW S, NEW x \in S, NEW y \in S, x # y, IsFiniteSet(S)
    PROVE  Cardinality(S) >= 2
<1>1. IsFiniteSet(S \ {x}) /\ Cardinality(S \ {x}) = Cardinality(S) - 1
  BY FS_RemoveElement
<1>2. y \in S \ {x}
  OBVIOUS
<1>3. Cardinality(S \ {x}) >= 1
  BY <1>1, <1>2, CardOne
<1> QED
  BY <1>1, <1>3, FS_CardinalityType

\* The processes whose g is s.
Count(g, s) == Cardinality({p \in Procs : g[p] = s})

LEMMA CountNat == \A g, s : Count(g, s) \in Nat
<1> SUFFICES ASSUME NEW g, NEW s
             PROVE  Count(g, s) \in Nat
  OBVIOUS
<1> DEFINE S == {p \in Procs : g[p] = s}
<1>1. IsFiniteSet(S)
  BY FS_Subset, FileSysAssumption
<1> QED
  BY <1>1, FS_CardinalityType DEF Count

LEMMA CountMove ==
    ASSUME NEW g, NEW h, NEW p \in Procs, NEW s, \A q \in Procs : q # p => h[q] = g[q]
    PROVE  Count(h, s) + Is(g[p], s) = Count(g, s) + Is(h[p], s)
<1> DEFINE S == {q \in Procs : g[q] = s}
           T == {q \in Procs : h[q] = s}
<1>1. IsFiniteSet(S)
  BY FS_Subset, FileSysAssumption
<1>2. \A x : x # p => (x \in S <=> x \in T)
  OBVIOUS
<1>3. Cardinality(T) + In(p, S) = Cardinality(S) + In(p, T)
  <2> HIDE DEF S, T
  <2> QED
    BY <1>1, <1>2, CardMove
<1>4. (p \in S <=> g[p] = s) /\ (p \in T <=> h[p] = s)
  OBVIOUS
<1> QED
  BY <1>3, <1>4 DEF Count, In, Is

\* The iput calls to make on s.
Pairs(u, s) == {e \in Procs \X (1..2) : e[2] <= Len(u[e[1]]) /\ u[e[1]][e[2]].slot = s}

LEMMA PairsFinite == \A u, s : IsFiniteSet(Pairs(u, s)) /\ Cardinality(Pairs(u, s)) \in Nat
<1>1. IsFiniteSet(1..2)
  <2>1. 1 \in Int /\ 2 \in Int
    OBVIOUS
  <2> QED
    BY <2>1, FS_Interval, Zenon
<1>2. IsFiniteSet(Procs \X (1..2))
  BY <1>1, FS_Product, FileSysAssumption
<1>3. \A u, s : Pairs(u, s) \in SUBSET (Procs \X (1..2))
  BY DEF Pairs
<1>4. \A u, s : IsFiniteSet(Pairs(u, s))
  BY <1>2, <1>3, FS_Subset
<1> QED
  BY <1>4, FS_CardinalityType

LEMMA PairsMove ==
    ASSUME NEW u, NEW w, NEW p \in Procs, NEW s, \A q \in Procs : q # p => w[q] = u[q]
    PROVE  Cardinality(Pairs(w, s)) + In(<<p, 1>>, Pairs(u, s)) + In(<<p, 2>>, Pairs(u, s))
         = Cardinality(Pairs(u, s)) + In(<<p, 1>>, Pairs(w, s)) + In(<<p, 2>>, Pairs(w, s))
<1> DEFINE R == {e \in Procs \X (1..2) : IF e = <<p, 1>> THEN e \in Pairs(w, s) ELSE e \in Pairs(u, s)}
<1>1. IsFiniteSet(Pairs(u, s)) /\ Cardinality(Pairs(u, s)) \in Nat /\ Cardinality(Pairs(w, s)) \in Nat
  BY PairsFinite
<1>2. \A x : x # <<p, 1>> => (x \in Pairs(u, s) <=> x \in R)
  BY DEF Pairs
<1>3. \A x : x # <<p, 2>> => (x \in R <=> x \in Pairs(w, s))
  <2> SUFFICES ASSUME NEW x \in Procs \X (1..2), x # <<p, 2>>, x # <<p, 1>>
               PROVE  x \in Pairs(u, s) <=> x \in Pairs(w, s)
    BY DEF Pairs
  <2>1. x[1] \in Procs /\ x[1] # p
    OBVIOUS
  <2> QED
    BY <2>1 DEF Pairs
<1>4. (<<p, 1>> \in R <=> <<p, 1>> \in Pairs(w, s)) /\ (<<p, 2>> \in R <=> <<p, 2>> \in Pairs(u, s))
  BY DEF Pairs
<1> HIDE DEF R
<1>5. IsFiniteSet(R) /\ Cardinality(R) \in Nat
      /\ Cardinality(R) + In(<<p, 1>>, Pairs(u, s)) = Cardinality(Pairs(u, s)) + In(<<p, 1>>, R)
  BY <1>1, <1>2, CardMove
<1>6. Cardinality(Pairs(w, s)) + In(<<p, 2>>, R) = Cardinality(R) + In(<<p, 2>>, Pairs(w, s))
  BY <1>3, <1>5, CardMove
<1> QED
  BY <1>1, <1>4, <1>5, <1>6 DEF In, Is

\* The slots of the first and second of the iputs u.
First(u) == IF Len(u) >= 1 THEN u[1].slot ELSE 0
Second(u) == IF Len(u) >= 2 THEN u[2].slot ELSE 0
Put1(p) == First(puts[p])
Put2(p) == Second(puts[p])

\* The pointers to s that a process has, and the open files.
Points(i, d, o, u, s) == Is(i, s) + Is(d, s) + Is(o, s) + Is(First(u), s) + Is(Second(u), s)
Mine(p, s) == Points(ip[p], dp[p], old[p], puts[p], s)
OpenOn(ft, s) == Cardinality({f \in Files : ft[f].ref > 0 /\ ft[f].ip = s})
CwdOn(s) == Cardinality({p \in Procs : s = 1})

\* A step of p leaves the variables of every other process alone.
OthersSame(p) ==
    \A q \in Procs : q # p =>
        /\ pc'[q] = pc[q] /\ call'[q] = call[q] /\ rest'[q] = rest[q]
        /\ ip'[q] = ip[q] /\ dp'[q] = dp[q] /\ old'[q] = old[q] /\ inum'[q] = inum[q]
        /\ puts'[q] = puts[q] /\ ret'[q] = ret[q]

LEMMA FilesFinite == IsFiniteSet(Files) /\ IsFiniteSet(Fds) /\ IsFiniteSet(Inums)
<1>1. 0 \in Int /\ 1 \in Int /\ NFILE \in Int /\ NOFILE - 1 \in Int /\ NInodes \in Int
  BY FileSysAssumption
<1> QED
  BY <1>1, FS_Interval, Zenon DEF Files, Fds, Inums

LEMMA OpenOnFinite == \A ft, s : IsFiniteSet({f \in Files : ft[f].ref > 0 /\ ft[f].ip = s}) /\ OpenOn(ft, s) \in Nat
<1> SUFFICES ASSUME NEW ft, NEW s
             PROVE  IsFiniteSet({f \in Files : ft[f].ref > 0 /\ ft[f].ip = s}) /\ OpenOn(ft, s) \in Nat
  OBVIOUS
<1> DEFINE S == {f \in Files : ft[f].ref > 0 /\ ft[f].ip = s}
<1>1. IsFiniteSet(S)
  BY FilesFinite, FS_Subset
<1> QED
  BY <1>1, FS_CardinalityType DEF OpenOn

LEMMA CwdFinite == \A s : IsFiniteSet({p \in Procs : s = 1}) /\ CwdOn(s) \in Nat
<1> SUFFICES ASSUME NEW s
             PROVE  IsFiniteSet({p \in Procs : s = 1}) /\ CwdOn(s) \in Nat
  OBVIOUS
<1> DEFINE S == {p \in Procs : s = 1}
<1>1. IsFiniteSet(S)
  BY FileSysAssumption, FS_Subset
<1> QED
  BY <1>1, FS_CardinalityType DEF CwdOn

LEMMA PointersSum ==
    ASSUME NEW s
    PROVE  Pointers(s) = CwdOn(s) + OpenOn(ftable, s) + Count(ip, s) + Count(dp, s) + Count(old, s)
                         + Cardinality(Pairs(puts, s))
  BY DEF Pointers, CwdOn, OpenOn, Count, Pairs

LEMMA PutIsPair ==
    ASSUME NEW p \in Procs, NEW s \in Slots, puts[p] \in Seq(PutRec)
    PROVE  /\ <<p, 1>> \in Pairs(puts, s) <=> Put1(p) = s
           /\ <<p, 2>> \in Pairs(puts, s) <=> Put2(p) = s
<1>1. Len(puts[p]) \in Nat /\ s # 0
  BY FileSysAssumption DEF Slots
<1> QED
  BY <1>1 DEF Pairs, Put1, Put2, First, Second

\* What a step of p does to the pointers to a slot.
LEMMA PointersStep ==
    ASSUME NEW p \in Procs, OthersSame(p), NEW s \in Slots,
           puts[p] \in Seq(PutRec), puts'[p] \in Seq(PutRec)
    PROVE  /\ Pointers(s) \in Nat /\ Pointers(s)' \in Nat
           /\ Pointers(s)' + Mine(p, s) + OpenOn(ftable, s) = Pointers(s) + Mine(p, s)' + OpenOn(ftable', s)
<1>1. Pointers(s) = CwdOn(s) + OpenOn(ftable, s) + Count(ip, s) + Count(dp, s) + Count(old, s)
                    + Cardinality(Pairs(puts, s))
  BY PointersSum
<1>2. Pointers(s)' = CwdOn(s) + OpenOn(ftable', s) + Count(ip', s) + Count(dp', s) + Count(old', s)
                    + Cardinality(Pairs(puts', s))
  BY DEF Pointers, CwdOn, OpenOn, Count, Pairs
<1>3. Count(ip', s) + Is(ip[p], s) = Count(ip, s) + Is(ip'[p], s)
  <2>1. \A q \in Procs : q # p => ip'[q] = ip[q]
    BY DEF OthersSame
  <2> QED
    BY <2>1, CountMove
<1>4. Count(dp', s) + Is(dp[p], s) = Count(dp, s) + Is(dp'[p], s)
  <2>1. \A q \in Procs : q # p => dp'[q] = dp[q]
    BY DEF OthersSame
  <2> QED
    BY <2>1, CountMove
<1>5. Count(old', s) + Is(old[p], s) = Count(old, s) + Is(old'[p], s)
  <2>1. \A q \in Procs : q # p => old'[q] = old[q]
    BY DEF OthersSame
  <2> QED
    BY <2>1, CountMove
<1>6. Cardinality(Pairs(puts', s)) + In(<<p, 1>>, Pairs(puts, s)) + In(<<p, 2>>, Pairs(puts, s))
      = Cardinality(Pairs(puts, s)) + In(<<p, 1>>, Pairs(puts', s)) + In(<<p, 2>>, Pairs(puts', s))
  <2>1. \A q \in Procs : q # p => puts'[q] = puts[q]
    BY DEF OthersSame
  <2> QED
    BY <2>1, PairsMove
<1>7. /\ In(<<p, 1>>, Pairs(puts, s)) = Is(Put1(p), s)
      /\ In(<<p, 2>>, Pairs(puts, s)) = Is(Put2(p), s)
  BY PutIsPair, Zenon DEF In, Is
<1>8. /\ In(<<p, 1>>, Pairs(puts', s)) = Is(Put1(p)', s)
      /\ In(<<p, 2>>, Pairs(puts', s)) = Is(Put2(p)', s)
  <2>1. Len(puts'[p]) \in Nat /\ s # 0
    BY FileSysAssumption DEF Slots
  <2>2. (<<p, 1>> \in Pairs(puts', s) <=> Put1(p)' = s) /\ (<<p, 2>> \in Pairs(puts', s) <=> Put2(p)' = s)
    BY <2>1 DEF Pairs, Put1, Put2, First, Second
  <2> QED
    BY <2>2, Zenon DEF In, Is
<1>9. /\ Count(ip, s) \in Nat /\ Count(ip', s) \in Nat /\ Count(dp, s) \in Nat /\ Count(dp', s) \in Nat
      /\ Count(old, s) \in Nat /\ Count(old', s) \in Nat /\ CwdOn(s) \in Nat
      /\ OpenOn(ftable, s) \in Nat /\ OpenOn(ftable', s) \in Nat
      /\ Cardinality(Pairs(puts, s)) \in Nat /\ Cardinality(Pairs(puts', s)) \in Nat
  BY CountNat, CwdFinite, OpenOnFinite, PairsFinite
<1>10. /\ Is(ip[p], s) \in Nat /\ Is(ip'[p], s) \in Nat /\ Is(dp[p], s) \in Nat /\ Is(dp'[p], s) \in Nat
       /\ Is(old[p], s) \in Nat /\ Is(old'[p], s) \in Nat
       /\ Is(Put1(p), s) \in Nat /\ Is(Put1(p)', s) \in Nat /\ Is(Put2(p), s) \in Nat /\ Is(Put2(p)', s) \in Nat
  BY DEF Is
<1>11. Mine(p, s)' = Is(ip'[p], s) + Is(dp'[p], s) + Is(old'[p], s) + Is(Put1(p)', s) + Is(Put2(p)', s)
  BY Zenon DEF Mine, Points, Is, Put1, Put2
<1>12. Mine(p, s) = Is(ip[p], s) + Is(dp[p], s) + Is(old[p], s) + Is(Put1(p), s) + Is(Put2(p), s)
  BY Zenon DEF Mine, Points, Put1, Put2
<1>13. Cardinality(Pairs(puts', s)) + Is(Put1(p), s) + Is(Put2(p), s)
       = Cardinality(Pairs(puts, s)) + Is(Put1(p)', s) + Is(Put2(p)', s)
  BY <1>6, <1>7, <1>8
<1>14. Pointers(s) \in Nat
  BY <1>1, <1>9
<1>15. Pointers(s)' \in Nat
  BY <1>2, <1>9
<1>16. Pointers(s)' + Mine(p, s) + OpenOn(ftable, s) = Pointers(s) + Mine(p, s)' + OpenOn(ftable', s)
  <2>1. PICK i \in Nat, i2 \in Nat, x1 \in Nat, y1 \in Nat :
           i = Count(ip, s) /\ i2 = Count(ip', s) /\ x1 = Is(ip[p], s) /\ y1 = Is(ip'[p], s)
    BY <1>9, <1>10
  <2>2. PICK d \in Nat, d2 \in Nat, x2 \in Nat, y2 \in Nat :
           d = Count(dp, s) /\ d2 = Count(dp', s) /\ x2 = Is(dp[p], s) /\ y2 = Is(dp'[p], s)
    BY <1>9, <1>10
  <2>3. PICK k \in Nat, k2 \in Nat, x3 \in Nat, y3 \in Nat :
           k = Count(old, s) /\ k2 = Count(old', s) /\ x3 = Is(old[p], s) /\ y3 = Is(old'[p], s)
    BY <1>9, <1>10
  <2>4. PICK x4 \in Nat, y4 \in Nat, x5 \in Nat, y5 \in Nat :
           x4 = Is(Put1(p), s) /\ y4 = Is(Put1(p)', s) /\ x5 = Is(Put2(p), s) /\ y5 = Is(Put2(p)', s)
    BY <1>10
  <2>5. PICK u \in Nat, u2 \in Nat, c \in Nat, o \in Nat, o2 \in Nat :
           /\ u = Cardinality(Pairs(puts, s)) /\ u2 = Cardinality(Pairs(puts', s))
           /\ c = CwdOn(s) /\ o = OpenOn(ftable, s) /\ o2 = OpenOn(ftable', s)
    BY <1>9
  <2>6. i2 + x1 = i + y1 /\ d2 + x2 = d + y2 /\ k2 + x3 = k + y3 /\ u2 + x4 + x5 = u + y4 + y5
    BY <1>3, <1>4, <1>5, <1>13, <2>1, <2>2, <2>3, <2>4, <2>5, Zenon
  <2>7. /\ Pointers(s) = c + o + i + d + k + u /\ Pointers(s)' = c + o2 + i2 + d2 + k2 + u2
        /\ Mine(p, s) = x1 + x2 + x3 + x4 + x5 /\ Mine(p, s)' = y1 + y2 + y3 + y4 + y5
    BY <1>1, <1>2, <1>11, <1>12, <2>1, <2>2, <2>3, <2>4, <2>5, Zenon
  <2>8. (c + o2 + i2 + d2 + k2 + u2) + (x1 + x2 + x3 + x4 + x5) + o
      = (c + o + i + d + k + u) + (y1 + y2 + y3 + y4 + y5) + o2
    BY <2>6
  <2> QED
    BY <2>5, <2>7, <2>8, Zenon
<1> QED
  BY <1>14, <1>15, <1>16

\* Whatever is pointed to has a reference.
LEMMA HasRef ==
    ASSUME Running, panicked = "no", NEW s \in Slots, icache[s].ref \in Nat,
           \/ \E p \in Procs : s \in {ip[p], dp[p], old[p], Put1(p), Put2(p)}
           \/ \E f \in Files : ftable[f].ref > 0 /\ ftable[f].ip = s
           \/ s = 1 /\ Procs # {}
    PROVE  icache[s].ref > 0
<1>1. icache[s].ref = CwdOn(s) + OpenOn(ftable, s) + Count(ip, s) + Count(dp, s) + Count(old, s)
                      + Cardinality(Pairs(puts, s))
  BY PointersSum DEF Running, RefsArePointers
<1>2. /\ CwdOn(s) \in Nat /\ OpenOn(ftable, s) \in Nat /\ Count(ip, s) \in Nat /\ Count(dp, s) \in Nat
      /\ Count(old, s) \in Nat /\ Cardinality(Pairs(puts, s)) \in Nat
  BY CountNat, CwdFinite, OpenOnFinite, PairsFinite
<1>3. \A g : \A p \in Procs : g[p] = s => Count(g, s) >= 1
  <2> SUFFICES ASSUME NEW g, NEW p \in Procs, g[p] = s
               PROVE  Count(g, s) >= 1
    OBVIOUS
  <2> DEFINE S == {q \in Procs : g[q] = s}
  <2>1. IsFiniteSet(S)
    BY FS_Subset, FileSysAssumption
  <2>2. p \in S
    OBVIOUS
  <2> QED
    BY <2>1, <2>2, CardOne DEF Count
<1>4. \A e \in Pairs(puts, s) : Cardinality(Pairs(puts, s)) >= 1
  BY PairsFinite, CardOne
<1>5. \A f \in Files : ftable[f].ref > 0 /\ ftable[f].ip = s => OpenOn(ftable, s) >= 1
  <2> SUFFICES ASSUME NEW f \in Files, ftable[f].ref > 0, ftable[f].ip = s
               PROVE  OpenOn(ftable, s) >= 1
    OBVIOUS
  <2> DEFINE S == {g \in Files : ftable[g].ref > 0 /\ ftable[g].ip = s}
  <2>1. IsFiniteSet(S)
    BY OpenOnFinite
  <2>2. f \in S
    OBVIOUS
  <2> QED
    BY <2>1, <2>2, CardOne DEF OpenOn
<1>6. \A p \in Procs : s = 1 => CwdOn(s) >= 1
  <2> SUFFICES ASSUME NEW p \in Procs, s = 1
               PROVE  CwdOn(s) >= 1
    OBVIOUS
  <2> DEFINE S == {q \in Procs : s = 1}
  <2>1. IsFiniteSet(S)
    BY CwdFinite
  <2>2. p \in S
    OBVIOUS
  <2> QED
    BY <2>1, <2>2, CardOne DEF CwdOn
<1>7. CASE \E p \in Procs : s \in {ip[p], dp[p], old[p], Put1(p), Put2(p)}
  <2>1. PICK p \in Procs : s \in {ip[p], dp[p], old[p], Put1(p), Put2(p)}
    BY <1>7
  <2>2. puts[p] \in Seq(PutRec)
    BY DEF Running, LType
  <2>3. CASE s = Put1(p) \/ s = Put2(p)
    <3>1. <<p, 1>> \in Pairs(puts, s) \/ <<p, 2>> \in Pairs(puts, s)
      BY <2>2, <2>3, PutIsPair
    <3>2. Cardinality(Pairs(puts, s)) >= 1
      BY <1>4, <3>1
    <3> QED
      BY <1>1, <1>2, <3>2
  <2>4. CASE s = ip[p] \/ s = dp[p] \/ s = old[p]
    <3>1. CASE s = ip[p]
      <4>1. Count(ip, s) >= 1
        BY <1>3, <3>1, Zenon
      <4> QED
        BY <1>1, <1>2, <4>1
    <3>2. CASE s = dp[p]
      <4>1. Count(dp, s) >= 1
        BY <1>3, <3>2, Zenon
      <4> QED
        BY <1>1, <1>2, <4>1
    <3>3. CASE s = old[p]
      <4>1. Count(old, s) >= 1
        BY <1>3, <3>3, Zenon
      <4> QED
        BY <1>1, <1>2, <4>1
    <3> QED
      BY <2>4, <3>1, <3>2, <3>3
  <2> QED
    BY <2>1, <2>3, <2>4
<1>8. CASE \E f \in Files : ftable[f].ref > 0 /\ ftable[f].ip = s
  BY <1>1, <1>2, <1>5, <1>8
<1>9. CASE s = 1 /\ Procs # {}
  BY <1>1, <1>2, <1>6, <1>9
<1> QED
  BY <1>7, <1>8, <1>9

\* The only reference is the only pointer.
LEMMA OnlyRef ==
    ASSUME Running, panicked = "no", NEW s \in Slots, NEW p \in Procs, Put1(p) = s, icache[s].ref = 1
    PROVE  /\ s # 1
           /\ \A f \in Files : ftable[f].ref > 0 => ftable[f].ip # s
           /\ \A q \in Procs : /\ ip[q] # s /\ dp[q] # s /\ old[q] # s /\ Put2(q) # s
                               /\ Put1(q) = s => q = p
<1>1. 1 = CwdOn(s) + OpenOn(ftable, s) + Count(ip, s) + Count(dp, s) + Count(old, s)
          + Cardinality(Pairs(puts, s))
  BY PointersSum DEF Running, RefsArePointers
<1>2. /\ CwdOn(s) \in Nat /\ OpenOn(ftable, s) \in Nat /\ Count(ip, s) \in Nat /\ Count(dp, s) \in Nat
      /\ Count(old, s) \in Nat /\ Cardinality(Pairs(puts, s)) \in Nat
  BY CountNat, CwdFinite, OpenOnFinite, PairsFinite
<1>3. \A q \in Procs : puts[q] \in Seq(PutRec)
  BY DEF Running, LType
<1>4. <<p, 1>> \in Pairs(puts, s)
  BY <1>3, PutIsPair
<1>5. IsFiniteSet(Pairs(puts, s)) /\ Cardinality(Pairs(puts, s)) >= 1
  BY <1>4, PairsFinite, CardOne
<1>6. /\ Cardinality(Pairs(puts, s)) = 1 /\ CwdOn(s) = 0 /\ OpenOn(ftable, s) = 0
      /\ Count(ip, s) = 0 /\ Count(dp, s) = 0 /\ Count(old, s) = 0
  <2>1. PICK a \in Nat, b \in Nat, c \in Nat, d \in Nat, e \in Nat, f \in Nat :
           /\ a = CwdOn(s) /\ b = OpenOn(ftable, s) /\ c = Count(ip, s) /\ d = Count(dp, s)
           /\ e = Count(old, s) /\ f = Cardinality(Pairs(puts, s))
    BY <1>2
  <2>2. 1 = a + b + c + d + e + f /\ f >= 1
    BY <1>1, <1>5, <2>1, Zenon
  <2>3. f = 1 /\ a = 0 /\ b = 0 /\ c = 0 /\ d = 0 /\ e = 0
    BY <2>2
  <2> QED
    BY <2>1, <2>3
<1>7. \A e \in Pairs(puts, s) : e = <<p, 1>>
  BY <1>4, <1>5, <1>6, CardTwo
<1>8. \A q \in Procs : Put2(q) # s /\ (Put1(q) = s => q = p)
  <2> SUFFICES ASSUME NEW q \in Procs
               PROVE  Put2(q) # s /\ (Put1(q) = s => q = p)
    OBVIOUS
  <2>1. (<<q, 1>> \in Pairs(puts, s) <=> Put1(q) = s) /\ (<<q, 2>> \in Pairs(puts, s) <=> Put2(q) = s)
    BY <1>3, PutIsPair
  <2>2. <<q, 2>> # <<p, 1>> /\ (<<q, 1>> = <<p, 1>> => q = p)
    OBVIOUS
  <2> QED
    BY <1>7, <2>1, <2>2
<1>9. \A g : Count(g, s) = 0 => \A q \in Procs : g[q] # s
  <2> SUFFICES ASSUME NEW g, NEW q \in Procs, g[q] = s
               PROVE  Count(g, s) # 0
    OBVIOUS
  <2> DEFINE S == {r \in Procs : g[r] = s}
  <2>1. IsFiniteSet(S)
    BY FS_Subset, FileSysAssumption
  <2>2. q \in S
    OBVIOUS
  <2> QED
    BY <2>1, <2>2, CardOne DEF Count
<1>10. \A f \in Files : ftable[f].ref > 0 => ftable[f].ip # s
  <2> DEFINE S == {g \in Files : ftable[g].ref > 0 /\ ftable[g].ip = s}
  <2>1. IsFiniteSet(S) /\ Cardinality(S) = 0
    BY <1>6, OpenOnFinite DEF OpenOn
  <2>2. S = {}
    BY <2>1, FS_EmptySet
  <2> QED
    BY <2>2
<1>11. s # 1
  <2> DEFINE S == {q \in Procs : s = 1}
  <2>1. IsFiniteSet(S) /\ Cardinality(S) = 0
    BY <1>6, CwdFinite DEF CwdOn
  <2>2. S = {}
    BY <2>1, FS_EmptySet
  <2> QED
    BY <2>2
<1> QED
  BY <1>6, <1>8, <1>9, <1>10, <1>11

-----------------------------------------------------------------------------
(* A step of one process *)

\* The step gives p these values; the other processes keep theirs.
Sets(p, l, t, c, r, i, d, o, n, u) ==
    /\ pc' = [pc EXCEPT ![p] = l] /\ ret' = [ret EXCEPT ![p] = t]
    /\ call' = [call EXCEPT ![p] = c] /\ rest' = [rest EXCEPT ![p] = r]
    /\ ip' = [ip EXCEPT ![p] = i] /\ dp' = [dp EXCEPT ![p] = d] /\ old' = [old EXCEPT ![p] = o]
    /\ inum' = [inum EXCEPT ![p] = n] /\ puts' = [puts EXCEPT ![p] = u]

\* They are values of the right type.
ValuesOK(l, t, c, r, i, d, o, n, u) ==
    /\ l \in Labels /\ t \in Labels /\ c \in CallRec /\ r \in Seq(Names \cup Dots)
    /\ i \in 0..NINODE /\ d \in 0..NINODE /\ o \in 0..NINODE /\ n \in 0..NInodes
    /\ u \in Seq(PutRec)

LEMMA SetsValues ==
    ASSUME LType, NEW p \in Procs, NEW l, NEW t, NEW c, NEW r, NEW i, NEW d, NEW o, NEW n, NEW u,
           ValuesOK(l, t, c, r, i, d, o, n, u), Sets(p, l, t, c, r, i, d, o, n, u)
    PROVE  /\ LType' /\ OthersSame(p)
           /\ pc'[p] = l /\ ret'[p] = t /\ call'[p] = c /\ rest'[p] = r
           /\ ip'[p] = i /\ dp'[p] = d /\ old'[p] = o /\ inum'[p] = n /\ puts'[p] = u
<1> USE DEF LType, Sets, ValuesOK
<1>1. pc' \in [Procs -> Labels] /\ ret' \in [Procs -> Labels] /\ call' \in [Procs -> CallRec]
  OBVIOUS
<1>2. ip' \in [Procs -> 0..NINODE] /\ dp' \in [Procs -> 0..NINODE] /\ old' \in [Procs -> 0..NINODE]
  OBVIOUS
<1>3. inum' \in [Procs -> 0..NInodes] /\ puts' \in [Procs -> Seq(PutRec)] /\ rest' \in [Procs -> Seq(Names \cup Dots)]
  OBVIOUS
<1>4. OthersSame(p)
  BY DEF OthersSame
<1>5. /\ pc'[p] = l /\ ret'[p] = t /\ call'[p] = c /\ rest'[p] = r
      /\ ip'[p] = i /\ dp'[p] = d /\ old'[p] = o /\ inum'[p] = n /\ puts'[p] = u
  OBVIOUS
<1> QED
  BY <1>1, <1>2, <1>3, <1>4, <1>5

\* The open files keep their counts, if descriptors and references change together.
FdPairs(fd, f) == {e \in Procs \X Fds : fd[e[1]][e[2]] = f}

LEMMA FdFinite == \A fd, f : IsFiniteSet(FdPairs(fd, f)) /\ Cardinality(FdPairs(fd, f)) \in Nat
<1>1. IsFiniteSet(Procs \X Fds)
  BY FilesFinite, FS_Product, FileSysAssumption
<1>2. \A fd, f : FdPairs(fd, f) \in SUBSET (Procs \X Fds)
  BY DEF FdPairs
<1>3. \A fd, f : IsFiniteSet(FdPairs(fd, f))
  BY <1>1, <1>2, FS_Subset
<1> QED
  BY <1>3, FS_CardinalityType

LEMMA FdMove ==
    ASSUME NEW fd \in [Procs -> [Fds -> 0..NFILE]], NEW p \in Procs, NEW d \in Fds, NEW v \in 0..NFILE, NEW f
    PROVE  Cardinality(FdPairs([fd EXCEPT ![p][d] = v], f)) + Is(fd[p][d], f)
         = Cardinality(FdPairs(fd, f)) + Is(v, f)
<1> DEFINE g == [fd EXCEPT ![p][d] = v]
<1>1. \A e \in Procs \X Fds : e # <<p, d>> => g[e[1]][e[2]] = fd[e[1]][e[2]]
  OBVIOUS
<1>2. g[p][d] = v
  OBVIOUS
<1> HIDE DEF g
<1>3. \A x : x # <<p, d>> => (x \in FdPairs(fd, f) <=> x \in FdPairs(g, f))
  BY <1>1 DEF FdPairs
<1>4. Cardinality(FdPairs(g, f)) + In(<<p, d>>, FdPairs(fd, f)) = Cardinality(FdPairs(fd, f)) + In(<<p, d>>, FdPairs(g, f))
  BY <1>3, FdFinite, CardMove
<1>5. In(<<p, d>>, FdPairs(fd, f)) = Is(fd[p][d], f) /\ In(<<p, d>>, FdPairs(g, f)) = Is(v, f)
  BY <1>2 DEF FdPairs, In, Is
<1>6. Cardinality(FdPairs(g, f)) + Is(fd[p][d], f) = Cardinality(FdPairs(fd, f)) + Is(v, f)
  BY <1>4, <1>5, Zenon
<1> QED
  BY <1>6 DEF g

FilesCounted(ft, fd) == \A f \in Files : ft[f].ref = Cardinality(FdPairs(fd, f))

\* Open(r, s): a file record refers to s.
OpenIs(r, s) == IF r.ref > 0 /\ r.ip = s THEN 1 ELSE 0

LEMMA OpenOnMove ==
    ASSUME NEW ft \in [Files -> FileRec], NEW f \in Files, NEW r \in FileRec, NEW s
    PROVE  OpenOn([ft EXCEPT ![f] = r], s) + OpenIs(ft[f], s) = OpenOn(ft, s) + OpenIs(r, s)
<1> DEFINE g == [ft EXCEPT ![f] = r]
           S == {h \in Files : ft[h].ref > 0 /\ ft[h].ip = s}
           T == {h \in Files : g[h].ref > 0 /\ g[h].ip = s}
<1>1. \A x : x # f => (x \in S <=> x \in T)
  OBVIOUS
<1>2. (f \in S <=> ft[f].ref > 0 /\ ft[f].ip = s) /\ (f \in T <=> r.ref > 0 /\ r.ip = s)
  OBVIOUS
<1>3. IsFiniteSet(S)
  BY OpenOnFinite
<1>4. OpenOn(g, s) = Cardinality(T) /\ OpenOn(ft, s) = Cardinality(S)
  BY DEF OpenOn
<1>5. In(f, S) = OpenIs(ft[f], s) /\ In(f, T) = OpenIs(r, s)
  BY <1>2, Zenon DEF In, OpenIs
<1> HIDE DEF S, T, g
<1>6. Cardinality(T) + In(f, S) = Cardinality(S) + In(f, T)
  BY <1>1, <1>3, CardMove
<1>7. OpenOn(g, s) + OpenIs(ft[f], s) = OpenOn(ft, s) + OpenIs(r, s)
  BY <1>4, <1>5, <1>6, Zenon
<1> QED
  BY <1>7 DEF g

\* The step keeps what holds while the machine runs, if the references it takes
\* and gives up are the pointers it makes and drops.
LEMMA RunningStep ==
    ASSUME Running, panicked = "no", Good(icache, dinode), Good(icache', dinode'), NEW p \in Procs,
           NEW l, NEW t, NEW c, NEW r, NEW i, NEW d, NEW o, NEW n, NEW u,
           ValuesOK(l, t, c, r, i, d, o, n, u), Sets(p, l, t, c, r, i, d, o, n, u),
           HandOf(l, t, c, r, i, d, o, n, u),
           Typed(icache'), FType', FilesCounted(ftable', ofile'),
           \A s \in Slots : icache'[s].ref + Points(ip[p], dp[p], old[p], puts[p], s) + OpenOn(ftable, s)
                            = icache[s].ref + Points(i, d, o, u, s) + OpenOn(ftable', s)
    PROVE  Running'
<1>1. /\ LType' /\ OthersSame(p)
      /\ pc'[p] = l /\ ret'[p] = t /\ call'[p] = c /\ rest'[p] = r
      /\ ip'[p] = i /\ dp'[p] = d /\ old'[p] = o /\ inum'[p] = n /\ puts'[p] = u
  BY SetsValues DEF Running
<1>2. Hand(p)'
  BY <1>1 DEF Hand
<1>3. \A q \in Procs : Hand(q)'
  <2> SUFFICES ASSUME NEW q \in Procs, q # p
               PROVE  Hand(q)'
    BY <1>2
  <2>1. Hand(q)
    BY DEF Running
  <2>2. /\ pc'[q] = pc[q] /\ call'[q] = call[q] /\ rest'[q] = rest[q]
        /\ ip'[q] = ip[q] /\ dp'[q] = dp[q] /\ old'[q] = old[q] /\ inum'[q] = inum[q]
        /\ puts'[q] = puts[q] /\ ret'[q] = ret[q]
    BY <1>1 DEF OthersSame
  <2> QED
    BY <2>1, <2>2 DEF Hand
<1>4. ASSUME NEW s \in Slots
      PROVE  icache'[s].ref = Pointers(s)'
  <2>1. puts[p] \in Seq(PutRec) /\ puts'[p] \in Seq(PutRec)
    BY <1>1 DEF Running, LType
  <2>2. /\ Pointers(s) \in Nat /\ Pointers(s)' \in Nat
        /\ Pointers(s)' + Mine(p, s) + OpenOn(ftable, s) = Pointers(s) + Mine(p, s)' + OpenOn(ftable', s)
    BY <1>1, <2>1, PointersStep
  <2>3. icache[s].ref = Pointers(s)
    BY DEF Running, RefsArePointers
  <2>4. Mine(p, s) = Points(ip[p], dp[p], old[p], puts[p], s) /\ Mine(p, s)' = Points(i, d, o, u, s)
    BY <1>1 DEF Mine
  <2>5. \A i1, d1, o1, u1 : Points(i1, d1, o1, u1, s) \in Nat
    BY DEF Points, Is
  <2>6. icache'[s].ref \in Nat
    BY DEF Good, InodeRec
  <2>7. OpenOn(ftable, s) \in Nat /\ OpenOn(ftable', s) \in Nat
    BY OpenOnFinite
  <2>8. icache'[s].ref + Points(ip[p], dp[p], old[p], puts[p], s) + OpenOn(ftable, s)
        = icache[s].ref + Points(i, d, o, u, s) + OpenOn(ftable', s)
    OBVIOUS
  <2>9. PICK a \in Nat, a2 \in Nat, b \in Nat, b2 \in Nat, e \in Nat, e2 \in Nat, z \in Nat :
          /\ a = Pointers(s) /\ a2 = Pointers(s)' /\ b = Points(ip[p], dp[p], old[p], puts[p], s)
          /\ b2 = Points(i, d, o, u, s) /\ e = OpenOn(ftable, s) /\ e2 = OpenOn(ftable', s)
          /\ z = icache'[s].ref
    BY <2>2, <2>5, <2>6, <2>7
  <2>10. a2 + b + e = a + b2 + e2 /\ z + b + e = a + b2 + e2
    BY <2>2, <2>3, <2>4, <2>8, <2>9, Zenon
  <2>11. z = a2
    BY <2>10
  <2> QED
    BY <2>9, <2>11
<1>5. RefsArePointers'
  <2>1. \A f \in Files : ftable'[f].ref = Cardinality({e \in Procs \X Fds : ofile'[e[1]][e[2]] = f})
    BY DEF FilesCounted, FdPairs
  <2> QED
    BY <1>4, <2>1 DEF RefsArePointers
<1> QED
  BY <1>1, <1>3, <1>5 DEF Running

\* ... when no file is opened or closed.
LEMMA CallStep ==
    ASSUME Running, panicked = "no", Good(icache, dinode), Good(icache', dinode'), NEW p \in Procs,
           NEW l, NEW t, NEW c, NEW r, NEW i, NEW d, NEW o, NEW n, NEW u,
           ValuesOK(l, t, c, r, i, d, o, n, u), Sets(p, l, t, c, r, i, d, o, n, u),
           HandOf(l, t, c, r, i, d, o, n, u), Typed(icache'), UNCHANGED files,
           \A s \in Slots : icache'[s].ref + Points(ip[p], dp[p], old[p], puts[p], s)
                            = icache[s].ref + Points(i, d, o, u, s)
    PROVE  Running'
<1>1. ftable' = ftable /\ ofile' = ofile
  BY DEF files
<1>2. FType'
  BY <1>1 DEF Running, FType
<1>3. FilesCounted(ftable', ofile')
  BY <1>1 DEF Running, RefsArePointers, FilesCounted, FdPairs
<1>4. ASSUME NEW s \in Slots
      PROVE  icache'[s].ref + Points(ip[p], dp[p], old[p], puts[p], s) + OpenOn(ftable, s)
             = icache[s].ref + Points(i, d, o, u, s) + OpenOn(ftable', s)
  <2>1. OpenOn(ftable', s) = OpenOn(ftable, s)
    BY <1>1
  <2>2. icache'[s].ref + Points(ip[p], dp[p], old[p], puts[p], s) = icache[s].ref + Points(i, d, o, u, s)
    OBVIOUS
  <2> QED
    BY <2>1, <2>2, Zenon
<1> QED
  BY <1>2, <1>3, <1>4, RunningStep

-----------------------------------------------------------------------------
(* ilock, iget *)

LEMMA ReadFacts ==
    ASSUME Good(icache, dinode), NEW s \in Slots, icache[s].ref > 0
    PROVE  /\ icache[s].inum \in Inums
           /\ Read(s) \in InodeRec
           /\ Read(s).ref = icache[s].ref /\ Read(s).inum = icache[s].inum /\ Read(s).owner = icache[s].owner
           /\ Read(s).valid = TRUE
           /\ Read(s).type = dinode[icache[s].inum].type /\ Read(s).nlink = dinode[icache[s].inum].nlink
<1> USE DEF Good
<1>1. icache[s].inum \in Inums /\ icache[s] \in InodeRec
  BY DEF Numbered
<1>2. dinode[icache[s].inum].type \in Kinds /\ dinode[icache[s].inum].nlink \in Int
  BY <1>1 DEF DinodeRec
<1>3. CASE icache[s].valid
  <2>1. icache[s].valid = TRUE
    BY <1>1, <1>3 DEF InodeRec
  <2> QED
    BY <1>1, <1>3, <2>1 DEF Agrees, Read
<1>4. CASE ~icache[s].valid
  <2>1. Read(s) = [icache[s] EXCEPT !.valid = TRUE, !.type = dinode[icache[s].inum].type,
                                    !.nlink = dinode[icache[s].inum].nlink]
    BY <1>4 DEF Read
  <2> QED
    BY <1>1, <1>2, <2>1 DEF InodeRec
<1> QED
  BY <1>3, <1>4

\* Good depends on no owner.
LEMMA GoodHold ==
    ASSUME NEW c, NEW d, Good(c, d), NEW q \in Procs \cup {NoProc}, NEW s \in Slots
    PROVE  /\ Good(Hold(c, q, s), d)
           /\ Typed(c) => Typed(Hold(c, q, s))
           /\ \A x \in Slots :
                /\ Hold(c, q, s)[x].ref = c[x].ref /\ Hold(c, q, s)[x].inum = c[x].inum
                /\ Hold(c, q, s)[x].valid = c[x].valid /\ Hold(c, q, s)[x].type = c[x].type
                /\ Hold(c, q, s)[x].nlink = c[x].nlink
                /\ Hold(c, q, s)[x].owner = IF x = s THEN q ELSE c[x].owner
<1>1. c \in [Slots -> InodeRec]
  BY DEF Good
<1>2. PICK e : e = Hold(c, q, s)
  OBVIOUS
<1>3. e \in [Slots -> InodeRec]
  BY <1>1, <1>2 DEF Hold, InodeRec
<1>4. \A x \in Slots :
                /\ e[x].ref = c[x].ref /\ e[x].inum = c[x].inum
                /\ e[x].valid = c[x].valid /\ e[x].type = c[x].type
                /\ e[x].nlink = c[x].nlink
                /\ e[x].owner = IF x = s THEN q ELSE c[x].owner
  BY <1>1, <1>2 DEF Hold, InodeRec
<1>5. Good(e, d)
  BY <1>3, <1>4 DEF Good, Numbered, Unique, Agrees
<1>6. Typed(c) => Typed(e)
  BY <1>4 DEF Typed
<1> QED
  BY <1>2, <1>4, <1>5, <1>6

\* ilock: the entry is read, and everything else stays.
LEMMA GoodLocked ==
    ASSUME Good(icache, dinode), NEW s \in Slots, icache[s].ref > 0
    PROVE  /\ Good(Locked(s), dinode)
           /\ Typed(icache) /\ Type(s) # "none" => Typed(Locked(s))
           /\ Locked(s)[s] = Read(s)
           /\ \A x \in Slots : x # s => Locked(s)[x] = icache[x]
           /\ \A x \in Slots : /\ Locked(s)[x].ref = icache[x].ref /\ Locked(s)[x].inum = icache[x].inum
                               /\ Locked(s)[x].owner = icache[x].owner
<1>1. /\ icache[s].inum \in Inums
      /\ Read(s) \in InodeRec
      /\ Read(s).ref = icache[s].ref /\ Read(s).inum = icache[s].inum /\ Read(s).owner = icache[s].owner
      /\ Read(s).valid = TRUE
      /\ Read(s).type = dinode[icache[s].inum].type /\ Read(s).nlink = dinode[icache[s].inum].nlink
  BY ReadFacts
<1>2. PICK e : e = Locked(s)
  OBVIOUS
<1>3. icache \in [Slots -> InodeRec]
  BY DEF Good
<1>4. e \in [Slots -> InodeRec] /\ e[s] = Read(s) /\ \A x \in Slots : x # s => e[x] = icache[x]
  BY <1>1, <1>2, <1>3 DEF Locked
<1>5. \A x \in Slots : e[x].ref = icache[x].ref /\ e[x].inum = icache[x].inum /\ e[x].owner = icache[x].owner
  BY <1>1, <1>4
<1>6. Numbered(e) /\ Unique(e)
  BY <1>5 DEF Good, Numbered, Unique
<1>7. Agrees(e, dinode)
  BY <1>1, <1>4 DEF Good, Agrees
<1>8. Good(e, dinode)
  BY <1>4, <1>6, <1>7 DEF Good
<1>9. Typed(icache) /\ Type(s) # "none" => Typed(e)
  BY <1>4 DEF Typed, Type
<1> QED
  BY <1>2, <1>4, <1>5, <1>8, <1>9

\* A set of positive numbers has a least one.
LEMMA LeastIn ==
    ASSUME NEW S \in SUBSET Nat, S # {}
    PROVE  Least(S) \in S /\ \A x \in S : Least(S) <= x
<1>1. PICK x \in S : \A y \in S : ~(<<y, x>> \in OpToRel(<, Nat))
  BY NatLessThanWellFounded, WFMin
<1>2. \A y \in S : ~(y < x)
  BY <1>1 DEF OpToRel
<1>3. \A y \in S : x <= y
  BY <1>2
<1> QED
  BY <1>3 DEF Least

\* iget finds the entry of the inode or takes an empty one.
LEMMA IgetFacts ==
    ASSUME NEW n, CanIget(n)
    PROVE  /\ Iget(n) \in Slots
           /\ \/ icache[Iget(n)].ref > 0 /\ icache[Iget(n)].inum = n /\ InCache(n) # {}
              \/ icache[Iget(n)].ref = 0 /\ InCache(n) = {}
<1>1. CASE InCache(n) # {}
  <2>1. Iget(n) \in InCache(n)
    BY <1>1 DEF Iget
  <2> QED
    BY <1>1, <2>1 DEF InCache
<1>2. CASE InCache(n) = {}
  <2>1. Empty \in SUBSET Nat /\ Empty # {}
    BY <1>2, FileSysAssumption DEF CanIget, Empty, Slots
  <2>2. Iget(n) = Least(Empty)
    BY <1>2 DEF Iget, Least
  <2>3. Iget(n) \in Empty
    BY <2>1, <2>2, LeastIn
  <2> QED
    BY <1>2, <2>3 DEF Empty
<1> QED
  BY <1>1, <1>2

LEMMA GoodGotten ==
    ASSUME NEW c, NEW d, Good(c, d), NEW n \in Inums, CanIget(n),
           \A x \in Slots : c[x].ref = icache[x].ref /\ c[x].inum = icache[x].inum
    PROVE  /\ Good(Gotten(c, n), d)
           /\ Typed(c) => Typed(Gotten(c, n))
           /\ \A x \in Slots : x # Iget(n) => Gotten(c, n)[x] = c[x]
           /\ Gotten(c, n)[Iget(n)].ref = icache[Iget(n)].ref + 1
           /\ Gotten(c, n)[Iget(n)].inum = n
           /\ Gotten(c, n)[Iget(n)].owner = c[Iget(n)].owner
           /\ icache[Iget(n)].ref = 0 => ~Gotten(c, n)[Iget(n)].valid
           /\ icache[Iget(n)].ref > 0 => /\ Gotten(c, n)[Iget(n)].valid = c[Iget(n)].valid
                                         /\ Gotten(c, n)[Iget(n)].type = c[Iget(n)].type
                                         /\ Gotten(c, n)[Iget(n)].nlink = c[Iget(n)].nlink
                                         /\ icache[Iget(n)].inum = n
<1>1. PICK g \in Slots : /\ g = Iget(n)
                         /\ \/ icache[g].ref > 0 /\ icache[g].inum = n /\ InCache(n) # {}
                            \/ icache[g].ref = 0 /\ InCache(n) = {}
  BY IgetFacts
<1>2. PICK e : e = Gotten(c, n)
  OBVIOUS
<1>3. c \in [Slots -> InodeRec] /\ c[g] \in InodeRec /\ n \in 0..NInodes
  BY FileSysAssumption DEF Good, Inums
<1>4. CASE icache[g].ref > 0 /\ icache[g].inum = n /\ InCache(n) # {}
  <2>1. e = [c EXCEPT ![g] = [c[g] EXCEPT !.ref = c[g].ref + 1]]
    BY <1>1, <1>2, <1>4 DEF Gotten
  <2>2. PICK r : r = [c[g] EXCEPT !.ref = c[g].ref + 1]
    OBVIOUS
  <2>3. /\ r \in InodeRec /\ r.ref = icache[g].ref + 1 /\ r.inum = n /\ r.owner = c[g].owner
        /\ r.valid = c[g].valid /\ r.type = c[g].type /\ r.nlink = c[g].nlink
    BY <1>3, <1>4, <2>2 DEF InodeRec
  <2>4. e \in [Slots -> InodeRec] /\ e[g] = r /\ \A x \in Slots : x # g => e[x] = c[x]
    BY <1>3, <2>1, <2>2, <2>3
  <2>5. \A x \in Slots : e[x].inum = c[x].inum /\ (e[x].ref > 0 => c[x].ref > 0)
                         /\ e[x].valid = c[x].valid /\ e[x].type = c[x].type /\ e[x].nlink = c[x].nlink
    BY <1>4, <2>3, <2>4
  <2>6. Numbered(e) /\ Unique(e) /\ Agrees(e, d) /\ (Typed(c) => Typed(e))
    BY <2>5 DEF Good, Numbered, Unique, Agrees, Typed
  <2> QED
    BY <1>1, <1>2, <1>4, <2>3, <2>4, <2>6 DEF Good
<1>5. CASE icache[g].ref = 0 /\ InCache(n) = {}
  <2>1. e = [c EXCEPT ![g] = [c[g] EXCEPT !.inum = n, !.ref = 1, !.valid = FALSE]]
    BY <1>1, <1>2, <1>3, <1>5 DEF Gotten, InodeRec
  <2>2. PICK r : r = [c[g] EXCEPT !.inum = n, !.ref = 1, !.valid = FALSE]
    OBVIOUS
  <2>3. /\ r \in InodeRec /\ r.ref = icache[g].ref + 1 /\ r.inum = n /\ r.owner = c[g].owner
        /\ r.valid = FALSE
    <3>1. r.ref = 1 /\ r.inum = n /\ r.owner = c[g].owner /\ r.valid = FALSE
      BY <1>3, <2>2 DEF InodeRec
    <3>2. r \in InodeRec
      BY <1>3, <2>2 DEF InodeRec
    <3> QED
      BY <1>5, <3>1, <3>2
  <2>4. e \in [Slots -> InodeRec] /\ e[g] = r /\ \A x \in Slots : x # g => e[x] = c[x]
    BY <1>3, <2>1, <2>2, <2>3
  <2>5. \A x \in Slots : c[x].ref > 0 => c[x].inum # n
    BY <1>5 DEF InCache
  <2>6. Numbered(e)
    BY <2>3, <2>4 DEF Good, Numbered
  <2>7. Unique(e)
    BY <2>3, <2>4, <2>5 DEF Good, Unique
  <2>8. Agrees(e, d) /\ (Typed(c) => Typed(e))
    BY <2>3, <2>4 DEF Good, Agrees, Typed
  <2> QED
    BY <1>1, <1>2, <1>5, <2>3, <2>4, <2>6, <2>7, <2>8 DEF Good
<1> QED
  BY <1>1, <1>4, <1>5

\* A count of links that is written to the entry and to the disk.
LEMMA GoodNlink ==
    ASSUME NEW c, NEW d, Good(c, d), NEW s \in Slots, c[s].ref > 0, NEW v \in Int,
           NEW e, NEW g, g \in [Inums -> DinodeRec], e \in [Slots -> InodeRec],
           \A x \in Slots : /\ e[x].ref = c[x].ref /\ e[x].inum = c[x].inum
                            /\ e[x].valid = c[x].valid /\ e[x].type = c[x].type,
           \A x \in Slots : x # s => e[x].nlink = c[x].nlink,
           e[s].nlink = v,
           \A m \in Inums : g[m].type = d[m].type /\ (m # c[s].inum => g[m].nlink = d[m].nlink),
           g[c[s].inum].nlink = v
    PROVE  Good(e, g) /\ (Typed(c) => Typed(e))
<1>1. Numbered(e) /\ Unique(e) /\ (Typed(c) => Typed(e))
  BY DEF Good, Numbered, Unique, Typed
<1>2. ASSUME NEW x \in Slots, e[x].ref > 0, e[x].valid
      PROVE  e[x].type = g[e[x].inum].type /\ e[x].nlink = g[e[x].inum].nlink
  <2>1. c[x].ref > 0 /\ c[x].valid /\ c[x].inum = e[x].inum /\ c[x].inum \in Inums
    BY <1>2 DEF Good, Numbered
  <2>2. c[x].type = d[c[x].inum].type /\ c[x].nlink = d[c[x].inum].nlink
    BY <2>1 DEF Good, Agrees
  <2>3. x # s => c[x].inum # c[s].inum
    BY <2>1 DEF Good, Unique
  <2> QED
    BY <2>1, <2>2, <2>3
<1> QED
  BY <1>1, <1>2 DEF Good, Agrees

-----------------------------------------------------------------------------
(* The values of a process *)

LEMMA OnePut ==
    ASSUME NEW a \in PutRec
    PROVE  /\ <<a>> \in Seq(PutRec) /\ Len(<<a>>) = 1 /\ <<a>>[1] = a
           /\ First(<<a>>) = a.slot /\ Second(<<a>>) = 0
  BY DEF First, Second

LEMMA TwoPuts ==
    ASSUME NEW a \in PutRec, NEW b \in PutRec
    PROVE  /\ <<a, b>> \in Seq(PutRec) /\ Len(<<a, b>>) = 2 /\ <<a, b>>[1] = a /\ <<a, b>>[2] = b
           /\ First(<<a, b>>) = a.slot /\ Second(<<a, b>>) = b.slot
  BY DEF First, Second

LEMMA PutIs ==
    ASSUME NEW s \in Slots
    PROVE  /\ Put(s) \in PutRec /\ Put(s).slot = s /\ Put(s).held = FALSE
           /\ UnlockPut(s) \in PutRec /\ UnlockPut(s).slot = s /\ UnlockPut(s).held = TRUE
  BY DEF Put, UnlockPut, PutRec

LEMMA PutOne ==
    ASSUME NEW s \in Slots
    PROVE  /\ \E u \in Seq(PutRec) : u = <<Put(s)>> /\ Len(u) = 1 /\ First(u) = s /\ Second(u) = 0 /\ ~u[1].held
           /\ \E u \in Seq(PutRec) : u = <<UnlockPut(s)>> /\ Len(u) = 1 /\ First(u) = s /\ Second(u) = 0 /\ u[1].held
<1>1. /\ <<Put(s)>> \in Seq(PutRec) /\ Len(<<Put(s)>>) = 1 /\ First(<<Put(s)>>) = s /\ Second(<<Put(s)>>) = 0
      /\ <<Put(s)>>[1].held = FALSE
  BY PutIs, OnePut
<1>2. /\ <<UnlockPut(s)>> \in Seq(PutRec) /\ Len(<<UnlockPut(s)>>) = 1 /\ First(<<UnlockPut(s)>>) = s
      /\ Second(<<UnlockPut(s)>>) = 0 /\ <<UnlockPut(s)>>[1].held = TRUE
  BY PutIs, OnePut
<1>3. \E u \in Seq(PutRec) : u = <<Put(s)>> /\ Len(u) = 1 /\ First(u) = s /\ Second(u) = 0 /\ ~u[1].held
  <2> <<Put(s)>> \in Seq(PutRec)
    BY <1>1
  <2> WITNESS <<Put(s)>> \in Seq(PutRec)
  <2> QED
    BY <1>1
<1>4. \E u \in Seq(PutRec) : u = <<UnlockPut(s)>> /\ Len(u) = 1 /\ First(u) = s /\ Second(u) = 0 /\ u[1].held
  <2> <<UnlockPut(s)>> \in Seq(PutRec)
    BY <1>2
  <2> WITNESS <<UnlockPut(s)>> \in Seq(PutRec)
  <2> QED
    BY <1>2
<1> QED
  BY <1>3, <1>4

LEMMA NoPutsLeft ==
    ASSUME NEW u \in Seq(PutRec), Len(u) = 0
    PROVE  First(u) = 0 /\ Second(u) = 0
  BY DEF First, Second

\* What a process has now.
LEMMA ValuesNow ==
    ASSUME Running, Good(icache, dinode), panicked = "no", NEW p \in Procs
    PROVE  /\ LType
           /\ ValuesOK(pc[p], ret[p], call[p], rest[p], ip[p], dp[p], old[p], inum[p], puts[p])
           /\ HandOf(pc[p], ret[p], call[p], rest[p], ip[p], dp[p], old[p], inum[p], puts[p])
           /\ ip[p] # 0 => ip[p] \in Slots /\ icache[ip[p]].ref > 0 /\ icache[ip[p]].inum \in Inums
           /\ dp[p] # 0 => dp[p] \in Slots /\ icache[dp[p]].ref > 0 /\ icache[dp[p]].inum \in Inums
           /\ old[p] # 0 => old[p] \in Slots /\ icache[old[p]].ref > 0 /\ icache[old[p]].inum \in Inums
           /\ Len(puts[p]) # 0 => /\ Put1(p) = puts[p][1].slot /\ Put1(p) \in Slots
                                  /\ icache[Put1(p)].ref > 0 /\ icache[Put1(p)].inum \in Inums
           /\ Len(puts[p]) = 2 => /\ Put2(p) = puts[p][2].slot /\ Put2(p) \in Slots
                                  /\ icache[Put2(p)].ref > 0 /\ icache[Put2(p)].inum \in Inums
<1>1. LType /\ ValuesOK(pc[p], ret[p], call[p], rest[p], ip[p], dp[p], old[p], inum[p], puts[p])
  BY DEF Running, LType, ValuesOK
<1>2. HandOf(pc[p], ret[p], call[p], rest[p], ip[p], dp[p], old[p], inum[p], puts[p])
  BY DEF Running, Hand
<1>3. \A x \in 0..NINODE : x # 0 => x \in Slots
  BY FileSysAssumption DEF Slots
<1>4. \A x \in Slots : icache[x].ref \in Nat
  BY DEF Good, InodeRec
<1>5. ASSUME NEW x \in Slots, x \in {ip[p], dp[p], old[p], Put1(p), Put2(p)}
      PROVE  icache[x].ref > 0 /\ icache[x].inum \in Inums
  <2>1. icache[x].ref > 0
    BY <1>4, <1>5, HasRef
  <2> QED
    BY <2>1 DEF Good, Numbered
<1>6. ip[p] \in 0..NINODE /\ dp[p] \in 0..NINODE /\ old[p] \in 0..NINODE /\ puts[p] \in Seq(PutRec)
  BY <1>1 DEF ValuesOK
<1>7. Len(puts[p]) # 0 => Put1(p) = puts[p][1].slot /\ Put1(p) \in Slots
  <2>1. Len(puts[p]) \in Nat /\ (Len(puts[p]) # 0 => puts[p][1] \in PutRec)
    BY <1>6
  <2> QED
    BY <2>1 DEF Put1, First, PutRec
<1>8. Len(puts[p]) = 2 => Put2(p) = puts[p][2].slot /\ Put2(p) \in Slots
  <2>1. Len(puts[p]) \in Nat /\ (Len(puts[p]) = 2 => puts[p][2] \in PutRec)
    BY <1>6
  <2> QED
    BY <2>1 DEF Put2, Second, PutRec
<1> QED
  BY <1>1, <1>2, <1>3, <1>5, <1>6, <1>7, <1>8

\* What is unchanged is set to what it was.
LEMMA Kept ==
    ASSUME LType, NEW p \in Procs
    PROVE  /\ pc = [pc EXCEPT ![p] = pc[p]] /\ ret = [ret EXCEPT ![p] = ret[p]]
           /\ call = [call EXCEPT ![p] = call[p]] /\ rest = [rest EXCEPT ![p] = rest[p]]
           /\ ip = [ip EXCEPT ![p] = ip[p]] /\ dp = [dp EXCEPT ![p] = dp[p]]
           /\ old = [old EXCEPT ![p] = old[p]] /\ inum = [inum EXCEPT ![p] = inum[p]]
           /\ puts = [puts EXCEPT ![p] = puts[p]]
  BY DEF LType

LEMMA HeadRest ==
    ASSUME NEW r \in Seq(Names \cup Dots), r # <<>>
    PROVE  /\ Head(r) \in Names \cup Dots /\ Tail(r) \in Seq(Names \cup Dots)
           /\ Len(r) # 1 => Tail(r) # <<>>
<1>1. Head(r) \in Names \cup Dots /\ Tail(r) \in Seq(Names \cup Dots) /\ Len(Tail(r)) = Len(r) - 1
  BY HeadTailProperties
<1>2. Len(r) # 1 => Len(Tail(r)) # 0
  BY <1>1
<1>3. Len(r) # 1 => Tail(r) # <<>>
  BY <1>2
<1> QED
  BY <1>1, <1>3

\* A directory entry is an inode number or 0.
LEMMA EntryIs ==
    ASSUME Good(icache, dinode), NEW s \in Slots, icache[s].inum \in Inums, NEW x \in Names \cup Dots
    PROVE  Entry(s, x) \in 0..NInodes /\ (Entry(s, x) # 0 => Entry(s, x) \in Inums)
<1>1. dinode[icache[s].inum].ents \in [Names \cup Dots -> 0..NInodes]
  BY DEF Good, DinodeRec
<1> QED
  BY <1>1, FileSysAssumption DEF Entry, Inums

-----------------------------------------------------------------------------
(* The actions, one definition for each way through them *)

\* A panic that leaves the cache and the disk alone.
Stop == panicked' \in {"iget", "ialloc"} /\ UNCHANGED <<icache, dinode>>

\* The panic of sys_unlink.
StopUnlink(p) ==
    /\ pc[p] = "unlink_ip" /\ icache[ip[p]].owner = NoProc /\ Read(ip[p]).nlink < 1
    /\ panicked' = "unlink" /\ UNCHANGED <<icache, dinode>>

\* ilock: the lock of s is free, and the step that reads the entry may keep it.
Locks(s) == icache[s].owner = NoProc /\ AfterIlock(s)

NextEntry(p) == Entry(ip[p], Head(rest[p]))
LastName(p) == Entry(dp[p], Head(rest[p]))
AtParent(p) == WantsParent(p) /\ Len(rest[p]) = 1

WalkParent(p) ==
    /\ pc[p] = "walk" /\ Locks(ip[p]) /\ Type(ip[p]) = "dir" /\ AtParent(p)
    /\ icache' = Locked(ip[p]) /\ UNCHANGED <<dinode, files>>
    /\ Sets(p, Found(p), ret[p], call[p], rest[p], 0, ip[p], old[p], inum[p], puts[p])

WalkFails(p) ==
    /\ pc[p] = "walk" /\ Locks(ip[p])
    /\ icache' = Locked(ip[p]) /\ UNCHANGED <<dinode, files>>
    /\ Sets(p, "put", Failed(p), call[p], rest[p], 0, dp[p], old[p], inum[p], <<Put(ip[p])>>)

WalkOn(p) ==
    /\ pc[p] = "walk" /\ Locks(ip[p]) /\ Type(ip[p]) = "dir" /\ ~AtParent(p)
    /\ NextEntry(p) # 0 /\ CanIget(NextEntry(p))
    /\ icache' = Gotten(Locked(ip[p]), NextEntry(p)) /\ UNCHANGED <<dinode, files>>
    /\ Sets(p, "put", IF Len(rest[p]) = 1 THEN Found(p) ELSE "walk", call[p], Tail(rest[p]),
            Iget(NextEntry(p)), dp[p], old[p], inum[p], <<Put(ip[p])>>)

\* open of a directory for writing, mkdir of a name that exists, link of a directory.
GivesUp(p) ==
    /\ pc[p] \in {"open", "create_found", "link"} /\ Locks(ip[p])
    /\ icache' = Locked(ip[p]) /\ UNCHANGED <<dinode, files>>
    /\ Sets(p, "put", "user", call[p], rest[p], 0, dp[p], old[p], inum[p], <<Put(ip[p])>>)

Opens(p) ==
    /\ pc[p] \in {"open", "create_found"} /\ Locks(ip[p])
    /\ icache' = Hold(Locked(ip[p]), p, ip[p]) /\ UNCHANGED <<dinode, files>>
    /\ Sets(p, "openfile", ret[p], call[p], rest[p], ip[p], dp[p], old[p], inum[p], puts[p])

OpenFileFull(p) ==
    /\ pc[p] = "openfile" /\ UNCHANGED <<icache, dinode, files, panicked>>
    /\ Sets(p, "put", "user", call[p], rest[p], 0, dp[p], old[p], inum[p], <<UnlockPut(ip[p])>>)

OpenFileDone(p) ==
    /\ pc[p] = "openfile" /\ FreeFiles # {} /\ FreeFds(p) # {}
    /\ ftable' = [ftable EXCEPT ![Least(FreeFiles)] = [ref |-> 1, ip |-> ip[p]]]
    /\ ofile' = [ofile EXCEPT ![p][Least(FreeFds(p))] = Least(FreeFiles)]
    /\ icache' = Hold(icache, NoProc, ip[p]) /\ UNCHANGED <<dinode, panicked>>
    /\ Sets(p, "user", ret[p], NoCall, <<>>, 0, dp[p], old[p], inum[p], puts[p])

CreateFree(p) ==
    /\ pc[p] = "create" /\ Locks(dp[p]) /\ LastName(p) = 0
    /\ icache' = Hold(Locked(dp[p]), p, dp[p]) /\ UNCHANGED <<dinode, files>>
    /\ Sets(p, "ialloc", ret[p], call[p], rest[p], ip[p], dp[p], old[p], inum[p], puts[p])

CreateTaken(p) ==
    /\ pc[p] = "create" /\ Locks(dp[p]) /\ LastName(p) # 0 /\ CanIget(LastName(p))
    /\ icache' = Gotten(Locked(dp[p]), LastName(p)) /\ UNCHANGED <<dinode, files>>
    /\ Sets(p, "put", "create_found", call[p], rest[p], Iget(LastName(p)), 0, old[p], inum[p], <<Put(dp[p])>>)

IallocTakes(p) ==
    /\ pc[p] = "ialloc" /\ FreeInodes # {} /\ UNCHANGED <<icache, files, panicked>>
    /\ dinode' = [dinode EXCEPT ![Least(FreeInodes)] = [type |-> NewType(p), nlink |-> 0, ents |-> NoEntries]]
    /\ Sets(p, "ialloc_iget", ret[p], call[p], rest[p], ip[p], dp[p], old[p], Least(FreeInodes), puts[p])

IallocGets(p) ==
    /\ pc[p] = "ialloc_iget" /\ CanIget(inum[p])
    /\ icache' = Gotten(icache, inum[p]) /\ UNCHANGED <<dinode, files, panicked>>
    /\ Sets(p, "create_new", ret[p], call[p], rest[p], Iget(inum[p]), dp[p], old[p], inum[p], puts[p])

\* The parent's count of links after create.
Up(p) == icache[dp[p]].nlink + (IF Op(p) = "mkdir" THEN 1 ELSE 0)
NewEnts(p) ==
    IF Op(p) = "mkdir"
    THEN [NoEntries EXCEPT !["."] = icache[ip[p]].inum, ![".."] = icache[dp[p]].inum]
    ELSE NoEntries
CreateWrites(p) ==
    /\ pc[p] = "create_new" /\ Locks(ip[p])
    /\ dinode' = [dinode EXCEPT ![icache[ip[p]].inum].nlink = 1, ![icache[ip[p]].inum].ents = NewEnts(p),
                                ![icache[dp[p]].inum].nlink = Up(p),
                                ![icache[dp[p]].inum].ents[Head(rest[p])] = icache[ip[p]].inum]
    /\ icache' = [Hold(Locked(ip[p]), p, ip[p]) EXCEPT ![ip[p]].nlink = 1, ![dp[p]].nlink = Up(p)]
    /\ UNCHANGED files

MkdirDone(p) ==
    /\ CreateWrites(p) /\ Op(p) = "mkdir"
    /\ Sets(p, "put", "user", call[p], rest[p], 0, 0, old[p], 0, <<UnlockPut(dp[p]), UnlockPut(ip[p])>>)

CreateDone(p) ==
    /\ CreateWrites(p) /\ Op(p) # "mkdir"
    /\ Sets(p, "put", "openfile", call[p], rest[p], ip[p], 0, old[p], 0, <<UnlockPut(dp[p])>>)

UnlinkFails(p) ==
    /\ pc[p] = "unlink" /\ Locks(dp[p])
    /\ icache' = Locked(dp[p]) /\ UNCHANGED <<dinode, files>>
    /\ Sets(p, "put", "user", call[p], rest[p], ip[p], 0, old[p], inum[p], <<Put(dp[p])>>)

UnlinkFinds(p) ==
    /\ pc[p] = "unlink" /\ Locks(dp[p]) /\ LastName(p) # 0 /\ CanIget(LastName(p)) /\ Head(rest[p]) \notin Dots
    /\ icache' = Hold(Gotten(Locked(dp[p]), LastName(p)), p, dp[p]) /\ UNCHANGED <<dinode, files>>
    /\ Sets(p, "unlink_ip", ret[p], call[p], rest[p], Iget(LastName(p)), dp[p], old[p], inum[p], puts[p])

UnlinkRefused(p) ==
    /\ pc[p] = "unlink_ip" /\ Locks(ip[p])
    /\ icache' = Locked(ip[p]) /\ UNCHANGED <<dinode, files>>
    /\ Sets(p, "put", "user", call[p], rest[p], 0, 0, old[p], inum[p], <<Put(ip[p]), UnlockPut(dp[p])>>)

Down(p) == icache[dp[p]].nlink - (IF Type(ip[p]) = "dir" THEN 1 ELSE 0)
UnlinkErases(p) ==
    /\ pc[p] = "unlink_ip" /\ Locks(ip[p]) /\ Read(ip[p]).nlink >= 1
    /\ Type(ip[p]) = "dir" => IsDirEmpty(icache[ip[p]].inum)
    /\ icache' = [Hold(Locked(ip[p]), p, ip[p]) EXCEPT ![dp[p]].nlink = Down(p)]
    /\ dinode' = [dinode EXCEPT ![icache[dp[p]].inum].nlink = Down(p),
                                ![icache[dp[p]].inum].ents[Head(rest[p])] = 0]
    /\ UNCHANGED files
    /\ Sets(p, "put", "unlink_dec", call[p], rest[p], ip[p], 0, old[p], inum[p], <<UnlockPut(dp[p])>>)

UnlinkDecs(p) ==
    /\ pc[p] = "unlink_dec" /\ UNCHANGED <<files, panicked>>
    /\ icache' = [icache EXCEPT ![ip[p]].nlink = @ - 1]
    /\ dinode' = [dinode EXCEPT ![icache[ip[p]].inum].nlink = icache[ip[p]].nlink - 1]
    /\ Sets(p, "put", "user", call[p], rest[p], 0, dp[p], old[p], inum[p], <<UnlockPut(ip[p])>>)

LinkCounts(p) ==
    /\ pc[p] = "link" /\ Locks(ip[p]) /\ Type(ip[p]) # "dir"
    /\ icache' = [Locked(ip[p]) EXCEPT ![ip[p]].nlink = Read(ip[p]).nlink + 1]
    /\ dinode' = [dinode EXCEPT ![icache[ip[p]].inum].nlink = Read(ip[p]).nlink + 1]
    /\ UNCHANGED files
    /\ Sets(p, "link_walk", ret[p], call[p], rest[p], 0, dp[p], ip[p], inum[p], puts[p])

LinkWalks(p) ==
    /\ pc[p] = "link_walk" /\ CanIget(Root)
    /\ icache' = Gotten(icache, Root) /\ UNCHANGED <<dinode, files, panicked>>
    /\ Sets(p, "walk", ret[p], [call[p] EXCEPT !.op = "link_new"], call[p].new, Iget(Root), dp[p], old[p], inum[p], puts[p])

LinkNames(p) ==
    /\ pc[p] = "link_new" /\ Locks(dp[p]) /\ LastName(p) = 0
    /\ icache' = Locked(dp[p]) /\ UNCHANGED files
    /\ dinode' = [dinode EXCEPT ![icache[dp[p]].inum].ents[Head(rest[p])] = icache[old[p]].inum]
    /\ Sets(p, "put", "user", call[p], rest[p], ip[p], 0, 0, inum[p], <<Put(dp[p]), Put(old[p])>>)

LinkTaken(p) ==
    /\ pc[p] = "link_new" /\ Locks(dp[p]) /\ LastName(p) # 0 /\ CanIget(LastName(p))
    /\ icache' = Hold(Gotten(Locked(dp[p]), LastName(p)), p, dp[p]) /\ UNCHANGED <<dinode, files>>
    /\ Sets(p, "put", "link_undo", call[p], rest[p], ip[p], 0, old[p], inum[p],
            <<Put(Iget(LastName(p))), UnlockPut(dp[p])>>)

LinkUndoes(p) ==
    /\ pc[p] = "link_undo" /\ Locks(old[p])
    /\ icache' = [Locked(old[p]) EXCEPT ![old[p]].nlink = Read(old[p]).nlink - 1]
    /\ dinode' = [dinode EXCEPT ![icache[old[p]].inum].nlink = Read(old[p]).nlink - 1]
    /\ UNCHANGED files
    /\ Sets(p, "put", "user", call[p], rest[p], ip[p], dp[p], 0, inum[p], <<Put(old[p])>>)

Unlocks(p) ==
    /\ pc[p] = "put" /\ puts[p][1].held
    /\ icache' = Hold(icache, NoProc, Put1(p)) /\ UNCHANGED <<dinode, files, panicked>>
    /\ Sets(p, "put", ret[p], call[p], rest[p], ip[p], dp[p], old[p], inum[p],
            [puts[p] EXCEPT ![1].held = FALSE])

PutFrees(p) ==
    /\ pc[p] = "put" /\ ~puts[p][1].held /\ icache[Put1(p)].owner = NoProc /\ LastUse(Put1(p))
    /\ icache' = Hold(icache, p, Put1(p)) /\ UNCHANGED <<dinode, files, panicked>>
    /\ Sets(p, "free", ret[p], call[p], rest[p], ip[p], dp[p], old[p], inum[p], puts[p])

PutDrops(p) ==
    /\ pc[p] = "put" /\ ~puts[p][1].held /\ UNCHANGED <<icache, dinode, files, panicked>>
    /\ Sets(p, "drop", ret[p], call[p], rest[p], ip[p], dp[p], old[p], inum[p], puts[p])

Frees(p) ==
    /\ pc[p] = "free" /\ UNCHANGED <<files, panicked>>
    /\ dinode' = [dinode EXCEPT ![icache[Put1(p)].inum] = [type |-> "none", nlink |-> 0, ents |-> NoEntries]]
    /\ icache' = Freed(Put1(p))
    /\ Sets(p, "drop", ret[p], call[p], rest[p], ip[p], dp[p], old[p], inum[p], puts[p])

DropsOne(p) ==
    /\ pc[p] = "drop" /\ Len(puts[p]) > 1 /\ icache' = Dropped(Put1(p)) /\ UNCHANGED <<dinode, files, panicked>>
    /\ Sets(p, "put", ret[p], call[p], rest[p], ip[p], dp[p], old[p], inum[p], Tail(puts[p]))
DropsLast(p) ==
    /\ pc[p] = "drop" /\ Len(puts[p]) <= 1 /\ icache' = Dropped(Put1(p)) /\ UNCHANGED <<dinode, files, panicked>>
    /\ Sets(p, ret[p], "user", IF ret[p] = "user" THEN NoCall ELSE call[p], IF ret[p] = "user" THEN <<>> ELSE rest[p],
            ip[p], dp[p], old[p], inum[p], Tail(puts[p]))

Starts(p, c) ==
    /\ pc[p] = "user" /\ CanIget(Root)
    /\ icache' = Gotten(icache, Root) /\ UNCHANGED <<dinode, files, panicked>>
    /\ Sets(p, "walk", ret[p], c, c.path, Iget(Root), dp[p], old[p], inum[p], puts[p])

CloseShared(p, d) ==
    /\ pc[p] = "user" /\ ofile[p][d] # 0 /\ ftable[ofile[p][d]].ref > 1
    /\ ofile' = [ofile EXCEPT ![p][d] = 0]
    /\ ftable' = [ftable EXCEPT ![ofile[p][d]] = [ftable[ofile[p][d]] EXCEPT !.ref = @ - 1]]
    /\ UNCHANGED <<icache, dinode, panicked>>
    /\ Sets(p, "user", ret[p], call[p], rest[p], ip[p], dp[p], old[p], inum[p], puts[p])

CloseLast(p, d) ==
    /\ pc[p] = "user" /\ ofile[p][d] # 0 /\ ~(ftable[ofile[p][d]].ref > 1)
    /\ ofile' = [ofile EXCEPT ![p][d] = 0]
    /\ ftable' = [ftable EXCEPT ![ofile[p][d]] = [ref |-> 0, ip |-> 0]]
    /\ UNCHANGED <<icache, dinode, panicked>>
    /\ Sets(p, "put", "user", call[p], rest[p], ip[p], dp[p], old[p], inum[p], <<Put(ftable[ofile[p][d]].ip)>>)

Dups(p, d) ==
    /\ pc[p] = "user" /\ ofile[p][d] # 0 /\ FreeFds(p) # {}
    /\ ofile' = [ofile EXCEPT ![p][Least(FreeFds(p))] = ofile[p][d]]
    /\ ftable' = [ftable EXCEPT ![ofile[p][d]] = [ftable[ofile[p][d]] EXCEPT !.ref = @ + 1]]
    /\ UNCHANGED <<icache, dinode, panicked>>
    /\ Sets(p, "user", ret[p], call[p], rest[p], ip[p], dp[p], old[p], inum[p], puts[p])

Locks1(p, d) ==
    /\ pc[p] = "user" /\ ofile[p][d] # 0 /\ Locks(ftable[ofile[p][d]].ip)
    /\ icache' = Locked(ftable[ofile[p][d]].ip) /\ UNCHANGED <<dinode, files>>
    /\ Sets(p, "user", ret[p], call[p], rest[p], ip[p], dp[p], old[p], inum[p], puts[p])

\* The locks that Wanted names.
LEMMA IlockIs ==
    ASSUME NEW p, NEW l, Ilock(p, l), ~(l \in Putting3)
    PROVE  /\ pc[p] = l
           /\ l \in {"walk", "open", "create_found", "create_new", "unlink_ip", "link"} => icache[ip[p]].owner = NoProc
           /\ l \in {"create", "unlink", "link_new"} => icache[dp[p]].owner = NoProc
           /\ l = "link_undo" => icache[old[p]].owner = NoProc
<1>1. pc[p] = l /\ icache[Wanted(p)].owner = NoProc
  BY DEF Ilock, At
<1>2. l \in {"walk", "open", "create_found", "create_new", "unlink_ip", "link"} => Wanted(p) = ip[p]
  BY <1>1 DEF Wanted, Putting3
<1>3. l \in {"create", "unlink", "link_new"} => Wanted(p) = dp[p]
  BY <1>1 DEF Wanted, Putting3
<1>4. l = "link_undo" => Wanted(p) = old[p]
  BY <1>1 DEF Wanted, Putting3
<1> QED
  BY <1>1, <1>2, <1>3, <1>4

LEMMA WalkWays ==
    ASSUME LType, NEW p \in Procs, Walk(p)
    PROVE  WalkParent(p) \/ WalkFails(p) \/ WalkOn(p) \/ Stop
<1>1. pc[p] = "walk" /\ icache[ip[p]].owner = NoProc
  BY IlockIs DEF Walk, Putting3
<1>2. dinode' = dinode /\ files' = files /\ call' = call /\ old' = old /\ inum' = inum
  BY DEF Walk
<1>3. CASE Type(ip[p]) = "dir" /\ WantsParent(p) /\ Len(rest[p]) = 1
  <2>1. /\ icache' = Locked(ip[p]) /\ dp' = Set(dp, p, ip[p]) /\ ip' = Set(ip, p, 0) /\ Goto(p, Found(p))
        /\ NoPuts /\ AfterIlock(ip[p]) /\ rest' = rest
    BY <1>3 DEF Walk
  <2>2. WalkParent(p)
    BY <1>1, <1>2, <1>3, <2>1, Kept DEF WalkParent, Locks, AtParent, Sets, Goto, Set, NoPuts
  <2> QED
    BY <2>2
<1>4. CASE Type(ip[p]) # "dir" \/ (~(WantsParent(p) /\ Len(rest[p]) = 1) /\ NextEntry(p) = 0)
  <2>1. /\ icache' = Locked(ip[p]) /\ ip' = Set(ip, p, 0) /\ Putting(p, <<Put(ip[p])>>, Failed(p))
        /\ AfterIlock(ip[p]) /\ dp' = dp /\ rest' = rest
    BY <1>4 DEF Walk, NextEntry
  <2>2. WalkFails(p)
    BY <1>1, <1>2, <1>4, <2>1, Kept DEF WalkFails, Locks, Sets, Goto, Set, Putting
  <2> QED
    BY <2>2
<1>5. CASE Type(ip[p]) = "dir" /\ ~(WantsParent(p) /\ Len(rest[p]) = 1) /\ NextEntry(p) # 0
  <2>1. IF CanIget(NextEntry(p))
        THEN /\ icache' = Gotten(Locked(ip[p]), NextEntry(p))
             /\ ip' = Set(ip, p, Iget(NextEntry(p)))
             /\ rest' = Set(rest, p, Tail(rest[p]))
             /\ Putting(p, <<Put(ip[p])>>, IF Len(rest[p]) = 1 THEN Found(p) ELSE "walk")
             /\ AfterIlock(ip[p]) /\ UNCHANGED dp
        ELSE panicked' = "iget" /\ NoPuts /\ UNCHANGED <<icache, pc, ip, dp, rest>>
    BY <1>5 DEF Walk, NextEntry
  <2>2. CASE CanIget(NextEntry(p))
    BY <1>1, <1>2, <1>5, <2>1, <2>2, Kept DEF WalkOn, AtParent, Locks, Sets, Goto, Set, Putting
  <2>3. CASE ~CanIget(NextEntry(p))
    BY <1>2, <2>1, <2>3 DEF Stop
  <2> QED
    BY <2>2, <2>3
<1> QED
  BY <1>3, <1>4, <1>5

LEMMA OpenWays ==
    ASSUME LType, NEW p \in Procs, Open(p)
    PROVE  GivesUp(p) \/ Opens(p)
<1>1. pc[p] = "open" /\ icache[ip[p]].owner = NoProc
  BY IlockIs DEF Open, Putting3
<1> QED
  BY <1>1, Kept DEF Open, GivesUp, Opens, Locks, Sets, Goto, Set, Putting, NoPuts

LEMMA OpenFileWays ==
    ASSUME LType, NEW p \in Procs, OpenFile(p)
    PROVE  OpenFileFull(p) \/ OpenFileDone(p)
<1>1. pc[p] = "openfile"
  BY DEF OpenFile, At
<1>2. CASE FreeFiles = {} \/ FreeFds(p) = {}
  BY <1>1, <1>2, Kept DEF OpenFile, OpenFileFull, Sets, Goto, Set, Putting
<1>3. CASE ~(FreeFiles = {} \/ FreeFds(p) = {})
  BY <1>1, <1>3, Kept DEF OpenFile, OpenFileDone, Sets, Goto, Set, NoPuts, Resume
<1> QED
  BY <1>2, <1>3

LEMMA CreateWays ==
    ASSUME LType, NEW p \in Procs, Create(p)
    PROVE  CreateFree(p) \/ CreateTaken(p) \/ Stop
<1>1. pc[p] = "create" /\ icache[dp[p]].owner = NoProc
  BY IlockIs DEF Create, Putting3
<1>2. CASE LastName(p) = 0
  BY <1>1, <1>2, Kept DEF Create, LastName, CreateFree, Locks, Sets, Goto, Set, NoPuts
<1>3. CASE LastName(p) # 0 /\ CanIget(LastName(p))
  BY <1>1, <1>3, Kept DEF Create, LastName, CreateTaken, Locks, Sets, Goto, Set, Putting
<1>4. CASE LastName(p) # 0 /\ ~CanIget(LastName(p))
  BY <1>4 DEF Create, LastName, Stop
<1> QED
  BY <1>2, <1>3, <1>4

LEMMA CreateFoundWays ==
    ASSUME LType, NEW p \in Procs, CreateFound(p)
    PROVE  GivesUp(p) \/ Opens(p)
<1>1. pc[p] = "create_found" /\ icache[ip[p]].owner = NoProc
  BY IlockIs DEF CreateFound, Putting3
<1> QED
  BY <1>1, Kept DEF CreateFound, GivesUp, Opens, Locks, Sets, Goto, Set, Putting, NoPuts

LEMMA IallocWays ==
    ASSUME LType, NEW p \in Procs, Ialloc(p) \/ IallocIget(p)
    PROVE  IallocTakes(p) \/ IallocGets(p) \/ Stop
<1>1. CASE Ialloc(p) /\ FreeInodes = {}
  BY <1>1 DEF Ialloc, Panic, Stop
<1>2. CASE Ialloc(p) /\ FreeInodes # {}
  BY <1>2, Kept DEF Ialloc, IallocTakes, At, Sets, Goto, Set
<1>3. CASE IallocIget(p) /\ ~CanIget(inum[p])
  BY <1>3 DEF IallocIget, Panic, Stop
<1>4. CASE IallocIget(p) /\ CanIget(inum[p])
  BY <1>4, Kept DEF IallocIget, IallocGets, At, Sets, Goto, Set
<1> QED
  BY <1>1, <1>2, <1>3, <1>4

LEMMA CreateNewWays ==
    ASSUME LType, NEW p \in Procs, CreateNew(p)
    PROVE  MkdirDone(p) \/ CreateDone(p)
<1>1. pc[p] = "create_new" /\ icache[ip[p]].owner = NoProc
  BY IlockIs DEF CreateNew, Putting3
<1>2. CreateWrites(p)
  BY <1>1 DEF CreateNew, CreateWrites, Locks, Up, NewEnts
<1>3. /\ dp' = Set(dp, p, 0) /\ inum' = Set(inum, p, 0) /\ call' = call /\ rest' = rest /\ old' = old
      /\ IF Op(p) = "mkdir"
         THEN ip' = Set(ip, p, 0) /\ Putting(p, <<UnlockPut(dp[p]), UnlockPut(ip[p])>>, "user")
         ELSE Putting(p, <<UnlockPut(dp[p])>>, "openfile") /\ ip' = ip
  BY DEF CreateNew
<1>4. CASE Op(p) = "mkdir"
  BY <1>2, <1>3, <1>4, Kept DEF MkdirDone, Sets, Goto, Set, Putting
<1>5. CASE Op(p) # "mkdir"
  BY <1>2, <1>3, <1>5, Kept DEF CreateDone, Sets, Goto, Set, Putting
<1> QED
  BY <1>4, <1>5

LEMMA UnlinkWays ==
    ASSUME LType, NEW p \in Procs, Unlink(p)
    PROVE  UnlinkFails(p) \/ UnlinkFinds(p) \/ Stop
<1>1. pc[p] = "unlink" /\ icache[dp[p]].owner = NoProc
  BY IlockIs DEF Unlink, Putting3
<1>2. CASE Head(rest[p]) \in Dots \/ LastName(p) = 0
  BY <1>1, <1>2, Kept DEF Unlink, LastName, UnlinkFails, Locks, Sets, Goto, Set, Putting
<1>3. CASE ~(Head(rest[p]) \in Dots \/ LastName(p) = 0) /\ CanIget(LastName(p))
  BY <1>1, <1>3, Kept DEF Unlink, LastName, UnlinkFinds, Locks, Sets, Goto, Set, NoPuts
<1>4. CASE ~(Head(rest[p]) \in Dots \/ LastName(p) = 0) /\ ~CanIget(LastName(p))
  BY <1>4 DEF Unlink, LastName, Stop
<1> QED
  BY <1>2, <1>3, <1>4

LEMMA UnlinkIpWays ==
    ASSUME LType, NEW p \in Procs, UnlinkIp(p), Read(ip[p]).nlink \in Int
    PROVE  UnlinkRefused(p) \/ UnlinkErases(p) \/ StopUnlink(p)
<1>1. pc[p] = "unlink_ip" /\ icache[ip[p]].owner = NoProc
  BY IlockIs DEF UnlinkIp, Putting3
<1>2. CASE Read(ip[p]).nlink < 1
  BY <1>1, <1>2 DEF UnlinkIp, StopUnlink
<1>3. CASE ~(Read(ip[p]).nlink < 1) /\ Type(ip[p]) = "dir" /\ ~IsDirEmpty(icache[ip[p]].inum)
  BY <1>1, <1>3, Kept DEF UnlinkIp, UnlinkRefused, Locks, Sets, Goto, Set, Putting
<1>4. CASE ~(Read(ip[p]).nlink < 1) /\ ~(Type(ip[p]) = "dir" /\ ~IsDirEmpty(icache[ip[p]].inum))
  BY <1>1, <1>4, Kept DEF UnlinkIp, UnlinkErases, Down, Locks, Sets, Goto, Set, Putting
<1> QED
  BY <1>2, <1>3, <1>4

LEMMA UnlinkDecWays ==
    ASSUME LType, NEW p \in Procs, UnlinkDec(p)
    PROVE  UnlinkDecs(p)
  BY Kept DEF UnlinkDec, UnlinkDecs, At, Sets, Goto, Set, Putting

LEMMA LinkWays ==
    ASSUME LType, NEW p \in Procs, Link(p)
    PROVE  GivesUp(p) \/ LinkCounts(p)
<1>1. pc[p] = "link" /\ icache[ip[p]].owner = NoProc
  BY IlockIs DEF Link, Putting3
<1>2. CASE Type(ip[p]) = "dir"
  BY <1>1, <1>2, Kept DEF Link, GivesUp, Locks, Sets, Goto, Set, Putting
<1>3. CASE Type(ip[p]) # "dir"
  BY <1>1, <1>3, Kept DEF Link, LinkCounts, Locks, Sets, Goto, Set, NoPuts
<1> QED
  BY <1>2, <1>3

LEMMA LinkWalkWays ==
    ASSUME LType, NEW p \in Procs, LinkWalk(p)
    PROVE  LinkWalks(p) \/ Stop
<1>1. CASE ~CanIget(Root)
  BY <1>1 DEF LinkWalk, Panic, Stop
<1>2. CASE CanIget(Root)
  BY <1>2, Kept DEF LinkWalk, LinkWalks, At, Sets, Goto, Set
<1> QED
  BY <1>1, <1>2

LEMMA LinkNewWays ==
    ASSUME LType, NEW p \in Procs, LinkNew(p)
    PROVE  LinkNames(p) \/ LinkTaken(p) \/ Stop
<1>1. pc[p] = "link_new" /\ icache[dp[p]].owner = NoProc
  BY IlockIs DEF LinkNew, Putting3
<1>2. CASE LastName(p) = 0
  BY <1>1, <1>2, Kept DEF LinkNew, LastName, LinkNames, Locks, Sets, Goto, Set, Putting
<1>3. CASE LastName(p) # 0 /\ CanIget(LastName(p))
  BY <1>1, <1>3, Kept DEF LinkNew, LastName, LinkTaken, Locks, Sets, Goto, Set, Putting
<1>4. CASE LastName(p) # 0 /\ ~CanIget(LastName(p))
  BY <1>4 DEF LinkNew, LastName, Stop
<1> QED
  BY <1>2, <1>3, <1>4

LEMMA LinkUndoWays ==
    ASSUME LType, NEW p \in Procs, LinkUndo(p)
    PROVE  LinkUndoes(p)
<1>1. pc[p] = "link_undo" /\ icache[old[p]].owner = NoProc
  BY IlockIs DEF LinkUndo, Putting3
<1> QED
  BY <1>1, Kept DEF LinkUndo, LinkUndoes, Locks, Sets, Goto, Set, Putting

\* The iput a process is in.
LEMMA FirstPut ==
    ASSUME Running, Good(icache, dinode), panicked = "no", NEW p \in Procs, pc[p] \in Putting3
    PROVE  /\ puts[p] \in Seq(PutRec) /\ Len(puts[p]) \in 1..2 /\ Head(puts[p]) = puts[p][1]
           /\ puts[p][1] \in PutRec /\ Head(puts[p]).slot = Put1(p)
<1>1. puts[p] \in Seq(PutRec) /\ Len(puts[p]) # 0 /\ Len(puts[p]) <= 2
  BY ValuesNow DEF ValuesOK, HandOf
<1>2. Len(puts[p]) \in Nat
  BY <1>1
<1>3. Len(puts[p]) \in 1..2 /\ puts[p][1] \in PutRec
  <2>1. PICK k \in Nat : k = Len(puts[p])
    BY <1>2
  <2>2. k # 0 /\ k <= 2
    BY <1>1, <2>1, Zenon
  <2>3. k \in 1..2 /\ 1 \in 1..k
    BY <2>2
  <2> QED
    BY <1>1, <2>1, <2>3, ElementOfSeq, Zenon
<1>4. Head(puts[p]) = puts[p][1]
  BY <1>1
<1> QED
  BY <1>1, <1>3, <1>4 DEF Put1, First

LEMMA IunlockWays ==
    ASSUME Running, Good(icache, dinode), NEW p \in Procs, Iunlock(p)
    PROVE  Unlocks(p)
<1>1. pc[p] = "put" /\ panicked = "no"
  BY DEF Iunlock, At
<1>2. /\ puts[p] \in Seq(PutRec) /\ Len(puts[p]) \in 1..2 /\ Head(puts[p]) = puts[p][1]
      /\ puts[p][1] \in PutRec /\ Head(puts[p]).slot = Put1(p)
  BY <1>1, FirstPut DEF Putting3
<1>3. puts' = [puts EXCEPT ![p] = [puts[p] EXCEPT ![1].held = FALSE]]
  BY DEF Iunlock
<1>4. LType
  BY DEF Running
<1> QED
  BY <1>1, <1>2, <1>3, <1>4, Kept DEF Iunlock, Unlocks, Sets, locals

LEMMA IputTestWays ==
    ASSUME Running, Good(icache, dinode), NEW p \in Procs, IputTest(p)
    PROVE  PutFrees(p) \/ PutDrops(p)
<1>1. pc[p] = "put" /\ panicked = "no"
  BY DEF IputTest, At
<1>2. /\ puts[p] \in Seq(PutRec) /\ Len(puts[p]) \in 1..2 /\ Head(puts[p]) = puts[p][1]
      /\ puts[p][1] \in PutRec /\ Head(puts[p]).slot = Put1(p)
  BY <1>1, FirstPut DEF Putting3
<1>3. LType
  BY DEF Running
<1> QED
  BY <1>1, <1>2, <1>3, Kept DEF IputTest, PutFrees, PutDrops, Sets, Goto, locals

LEMMA IputFreeWays ==
    ASSUME Running, Good(icache, dinode), NEW p \in Procs, IputFree(p)
    PROVE  Frees(p)
<1>1. pc[p] = "free" /\ panicked = "no"
  BY DEF IputFree, At
<1>2. /\ puts[p] \in Seq(PutRec) /\ Len(puts[p]) \in 1..2 /\ Head(puts[p]) = puts[p][1]
      /\ puts[p][1] \in PutRec /\ Head(puts[p]).slot = Put1(p)
  BY <1>1, FirstPut DEF Putting3
<1>3. LType
  BY DEF Running
<1> QED
  BY <1>1, <1>2, <1>3, Kept DEF IputFree, Frees, Sets, Goto, locals

LEMMA IputDropWays ==
    ASSUME Running, Good(icache, dinode), NEW p \in Procs, IputDrop(p)
    PROVE  DropsOne(p) \/ DropsLast(p)
<1>1. pc[p] = "drop" /\ panicked = "no"
  BY DEF IputDrop, At
<1>2. /\ puts[p] \in Seq(PutRec) /\ Len(puts[p]) \in 1..2 /\ Head(puts[p]) = puts[p][1]
      /\ puts[p][1] \in PutRec /\ Head(puts[p]).slot = Put1(p)
  BY <1>1, FirstPut DEF Putting3
<1>3. LType
  BY DEF Running
<1>4. /\ icache' = Dropped(Put1(p)) /\ puts' = [puts EXCEPT ![p] = Tail(puts[p])]
      /\ dinode' = dinode /\ files' = files /\ ip' = ip /\ dp' = dp /\ old' = old /\ inum' = inum
      /\ panicked' = panicked
      /\ IF Len(puts[p]) > 1 THEN Resume(p, "put") /\ UNCHANGED ret
                             ELSE Resume(p, ret[p]) /\ ret' = Set(ret, p, "user")
  BY <1>2 DEF IputDrop
<1>5. CASE Len(puts[p]) > 1
  BY <1>1, <1>3, <1>4, <1>5, Kept DEF DropsOne, Sets, Goto, Resume
<1>6. CASE Len(puts[p]) <= 1
  <2>1. Resume(p, ret[p]) /\ ret' = Set(ret, p, "user")
    BY <1>2, <1>4, <1>6
  <2>2. CASE ret[p] = "user"
    BY <1>1, <1>3, <1>4, <1>6, <2>1, <2>2, Kept DEF DropsLast, Sets, Goto, Set, Resume
  <2>3. CASE ret[p] # "user"
    BY <1>1, <1>3, <1>4, <1>6, <2>1, <2>3, Kept DEF DropsLast, Sets, Goto, Set, Resume
  <2> QED
    BY <2>2, <2>3
<1> QED
  BY <1>2, <1>5, <1>6

LEMMA StartWays ==
    ASSUME LType, NEW p \in Procs, NEW c, Start(p, c)
    PROVE  Starts(p, c) \/ Stop
<1>1. CASE ~CanIget(Root)
  BY <1>1 DEF Start, Panic, Stop
<1>2. CASE CanIget(Root)
  BY <1>2, Kept DEF Start, Starts, At, Sets, Goto, Set
<1> QED
  BY <1>1, <1>2

LEMMA FileWays ==
    ASSUME LType, FType, NEW p \in Procs, NEW d \in Fds, Close(p, d) \/ Dup(p, d) \/ UseFile(p, d)
    PROVE  CloseShared(p, d) \/ CloseLast(p, d) \/ Dups(p, d) \/ Locks1(p, d)
<1>1. CASE Close(p, d) /\ ftable[ofile[p][d]].ref > 1
  <2>1. /\ ftable' = [ftable EXCEPT ![ofile[p][d]].ref = @ - 1] /\ NoPuts /\ pc' = pc
        /\ pc[p] = "user" /\ ofile[p][d] # 0 /\ ofile' = [ofile EXCEPT ![p][d] = 0]
        /\ UNCHANGED <<dinode, icache, locals, panicked>>
    BY <1>1 DEF Close, At
  <2> QED
    BY <1>1, <2>1, Kept DEF CloseShared, Sets, NoPuts, locals
<1>2. CASE Close(p, d) /\ ~(ftable[ofile[p][d]].ref > 1)
  BY <1>2, Kept DEF Close, CloseLast, At, Sets, Goto, Set, Putting, locals
<1>3. CASE Dup(p, d)
  BY <1>3, Kept DEF Dup, Dups, At, Sets, locals
<1>4. CASE UseFile(p, d)
  BY <1>4, Kept DEF UseFile, Locks1, Locks, At, Sets, locals
<1> QED
  BY <1>1, <1>2, <1>3, <1>4

-----------------------------------------------------------------------------
(* References and the cache *)

Keeps == Good(icache', dinode') /\ (panicked' = "no" => Running')

\* What is true of a process with no iputs to make.
LEMMA NotPutting ==
    ASSUME Running, Good(icache, dinode), panicked = "no", NEW p \in Procs, ~(pc[p] \in Putting3)
    PROVE  /\ LType
           /\ ValuesOK(pc[p], ret[p], call[p], rest[p], ip[p], dp[p], old[p], inum[p], puts[p])
           /\ Len(puts[p]) = 0 /\ First(puts[p]) = 0 /\ Second(puts[p]) = 0
           /\ pc[p] \in HasIp => ip[p] \in Slots /\ icache[ip[p]].ref > 0 /\ icache[ip[p]].inum \in Inums
           /\ pc[p] \notin HasIp => ip[p] = 0
           /\ pc[p] \in HasDp => dp[p] \in Slots /\ icache[dp[p]].ref > 0 /\ icache[dp[p]].inum \in Inums
           /\ pc[p] \notin HasDp => dp[p] = 0
           /\ pc[p] \in HasOld \/ (pc[p] = "walk" /\ Op(p) = "link_new")
                => old[p] \in Slots /\ icache[old[p]].ref > 0 /\ icache[old[p]].inum \in Inums
           /\ pc[p] \notin HasOld /\ ~(pc[p] = "walk" /\ Op(p) = "link_new") => old[p] = 0
           /\ pc[p] \in {"ialloc_iget", "create_new"} => inum[p] \in Inums
           /\ pc[p] \notin {"ialloc_iget", "create_new"} => inum[p] = 0
           /\ pc[p] \in HasRest => rest[p] # <<>> /\ Head(rest[p]) \in Names \cup Dots
                                   /\ Tail(rest[p]) \in Seq(Names \cup Dots)
                                   /\ (Len(rest[p]) # 1 => Tail(rest[p]) # <<>>)
           /\ pc[p] = "walk" => Op(p) \in {"open", "create", "mkdir", "unlink", "link", "link_new"}
           /\ pc[p] \in {"link", "link_walk"} => Op(p) = "link"
<1>1. /\ LType
      /\ ValuesOK(pc[p], ret[p], call[p], rest[p], ip[p], dp[p], old[p], inum[p], puts[p])
      /\ HandOf(pc[p], ret[p], call[p], rest[p], ip[p], dp[p], old[p], inum[p], puts[p])
      /\ ip[p] # 0 => ip[p] \in Slots /\ icache[ip[p]].ref > 0 /\ icache[ip[p]].inum \in Inums
      /\ dp[p] # 0 => dp[p] \in Slots /\ icache[dp[p]].ref > 0 /\ icache[dp[p]].inum \in Inums
      /\ old[p] # 0 => old[p] \in Slots /\ icache[old[p]].ref > 0 /\ icache[old[p]].inum \in Inums
  BY ValuesNow
<1>2. Whither(pc[p], ret[p]) = pc[p]
  BY DEF Whither
<1>3. Len(puts[p]) = 0 /\ First(puts[p]) = 0 /\ Second(puts[p]) = 0
  BY <1>1, NoPutsLeft DEF HandOf, ValuesOK
<1>4. inum[p] # 0 => inum[p] \in Inums
  BY <1>1, FileSysAssumption DEF ValuesOK, Inums
<1>5. rest[p] \in Seq(Names \cup Dots) /\ (pc[p] \in HasRest => rest[p] # <<>>)
  BY <1>1, <1>2 DEF ValuesOK, HandOf
<1>6. pc[p] \in HasRest => Head(rest[p]) \in Names \cup Dots /\ Tail(rest[p]) \in Seq(Names \cup Dots)
                            /\ (Len(rest[p]) # 1 => Tail(rest[p]) # <<>>)
  BY <1>5, HeadRest
<1> QED
  BY <1>1, <1>2, <1>3, <1>4, <1>5, <1>6 DEF HandOf, Op

\* ilock of a slot in use.
LEMMA LocksFacts ==
    ASSUME Running, Good(icache, dinode), NEW s \in Slots, icache[s].ref > 0, Locks(s)
    PROVE  /\ Good(Locked(s), dinode)
           /\ panicked' = "no" => Typed(Locked(s))
           /\ Locked(s)[s] = Read(s)
           /\ \A x \in Slots : x # s => Locked(s)[x] = icache[x]
           /\ \A x \in Slots : /\ Locked(s)[x].ref = icache[x].ref /\ Locked(s)[x].inum = icache[x].inum
                               /\ Locked(s)[x].owner = icache[x].owner
<1>1. panicked' = "no" => Type(s) # "none"
  BY DEF Locks, AfterIlock
<1> QED
  BY <1>1, GoodLocked DEF Running

LEMMA StopKeeps == ASSUME Good(icache, dinode), Stop \/ \E p : StopUnlink(p) PROVE Keeps
<1>1. panicked' # "no" /\ icache' = icache /\ dinode' = dinode
  BY DEF Stop, StopUnlink
<1> QED
  BY <1>1 DEF Keeps

LEMMA WalkParentKeeps ==
    ASSUME Running, Good(icache, dinode), panicked = "no", NEW p \in Procs, WalkParent(p)
    PROVE  Keeps
<1>1. /\ pc[p] = "walk" /\ AtParent(p) /\ icache' = Locked(ip[p]) /\ UNCHANGED <<dinode, files>> /\ Locks(ip[p])
      /\ Sets(p, Found(p), ret[p], call[p], rest[p], 0, ip[p], old[p], inum[p], puts[p])
  BY DEF WalkParent
<1>2. /\ ip[p] \in Slots /\ icache[ip[p]].ref > 0 /\ dp[p] = 0 /\ rest[p] # <<>>
      /\ (old[p] # 0 <=> Op(p) = "link_new") /\ inum[p] = 0 /\ Len(puts[p]) = 0 /\ LType
      /\ First(puts[p]) = 0 /\ Second(puts[p]) = 0
      /\ Op(p) \in {"create", "mkdir", "unlink", "link_new"}
      /\ ValuesOK(pc[p], ret[p], call[p], rest[p], ip[p], dp[p], old[p], inum[p], puts[p])
  BY <1>1, NotPutting DEF Putting3, HasIp, HasDp, HasOld, HasRest, AtParent, WantsParent, Slots
<1>3. /\ Good(icache', dinode') /\ (panicked' = "no" => Typed(icache'))
      /\ \A x \in Slots : icache'[x].ref = icache[x].ref
  BY <1>1, <1>2, LocksFacts
<1>4. Found(p) \in {"create", "unlink", "link_new"} /\ (Found(p) = "link_new" <=> Op(p) = "link_new")
  BY <1>2 DEF Found
<1>5. ValuesOK(Found(p), ret[p], call[p], rest[p], 0, ip[p], old[p], inum[p], puts[p])
  BY <1>2, <1>4 DEF ValuesOK, Labels
<1>6. HandOf(Found(p), ret[p], call[p], rest[p], 0, ip[p], old[p], inum[p], puts[p])
  BY <1>2, <1>4 DEF HandOf, Whither, Putting3, Returns, HasIp, HasDp, HasOld, HasRest, Slots
<1>7. \A x \in Slots : Points(ip[p], dp[p], old[p], puts[p], x) = Points(0, ip[p], old[p], puts[p], x)
  BY <1>2 DEF Points, Is, Slots
<1>8. panicked' = "no" => Running'
  BY <1>1, <1>3, <1>5, <1>6, <1>7, CallStep
<1> QED
  BY <1>3, <1>8 DEF Keeps

LEMMA WalkFailsKeeps ==
    ASSUME Running, Good(icache, dinode), panicked = "no", NEW p \in Procs, WalkFails(p)
    PROVE  Keeps
<1>1. /\ pc[p] = "walk" /\ icache' = Locked(ip[p]) /\ UNCHANGED <<dinode, files>> /\ Locks(ip[p])
      /\ Sets(p, "put", Failed(p), call[p], rest[p], 0, dp[p], old[p], inum[p], <<Put(ip[p])>>)
  BY DEF WalkFails
<1>2. /\ ip[p] \in Slots /\ icache[ip[p]].ref > 0 /\ dp[p] = 0
      /\ (old[p] # 0 <=> Op(p) = "link_new") /\ inum[p] = 0 /\ LType
      /\ First(puts[p]) = 0 /\ Second(puts[p]) = 0
      /\ ValuesOK(pc[p], ret[p], call[p], rest[p], ip[p], dp[p], old[p], inum[p], puts[p])
  BY <1>1, NotPutting DEF Putting3, HasIp, HasDp, HasOld, HasRest, Slots
<1>3. /\ Good(icache', dinode') /\ (panicked' = "no" => Typed(icache'))
      /\ \A x \in Slots : icache'[x].ref = icache[x].ref
  BY <1>1, <1>2, LocksFacts
<1>4. Failed(p) \in {"link_undo", "user"} /\ (Failed(p) = "link_undo" <=> Op(p) = "link_new")
  BY DEF Failed
<1>5. PICK u \in Seq(PutRec) : u = <<Put(ip[p])>> /\ Len(u) = 1 /\ First(u) = ip[p] /\ Second(u) = 0 /\ ~u[1].held
  BY <1>2, PutOne
<1>6. ValuesOK("put", Failed(p), call[p], rest[p], 0, dp[p], old[p], inum[p], u)
  BY <1>2, <1>4 DEF ValuesOK, Labels
<1>7. HandOf("put", Failed(p), call[p], rest[p], 0, dp[p], old[p], inum[p], u)
  BY <1>2, <1>4, <1>5 DEF HandOf, Whither, Putting3, Returns, HasIp, HasDp, HasOld, HasRest
<1>8. \A x \in Slots : Points(ip[p], dp[p], old[p], puts[p], x) = Points(0, dp[p], old[p], u, x)
  BY <1>2, <1>5 DEF Points, Is, Slots
<1>9. panicked' = "no" => Running'
  BY <1>1, <1>3, <1>5, <1>6, <1>7, <1>8, CallStep
<1> QED
  BY <1>3, <1>9 DEF Keeps

LEMMA WalkOnKeeps ==
    ASSUME Running, Good(icache, dinode), panicked = "no", NEW p \in Procs, WalkOn(p)
    PROVE  Keeps
<1>1. PICK n, t : /\ n = NextEntry(p) /\ t = IF Len(rest[p]) = 1 THEN Found(p) ELSE "walk"
                  /\ pc[p] = "walk" /\ ~AtParent(p) /\ n # 0 /\ CanIget(n) /\ Locks(ip[p])
                  /\ icache' = Gotten(Locked(ip[p]), n) /\ UNCHANGED <<dinode, files>>
                  /\ Sets(p, "put", t, call[p], Tail(rest[p]), Iget(n), dp[p], old[p], inum[p], <<Put(ip[p])>>)
  BY DEF WalkOn
<1>2. /\ ip[p] \in Slots /\ icache[ip[p]].ref > 0 /\ icache[ip[p]].inum \in Inums /\ dp[p] = 0
      /\ (old[p] # 0 <=> Op(p) = "link_new") /\ inum[p] = 0 /\ LType
      /\ First(puts[p]) = 0 /\ Second(puts[p]) = 0
      /\ Head(rest[p]) \in Names \cup Dots /\ Tail(rest[p]) \in Seq(Names \cup Dots)
      /\ (Len(rest[p]) # 1 => Tail(rest[p]) # <<>>)
      /\ Op(p) \in {"open", "create", "mkdir", "unlink", "link", "link_new"}
      /\ ValuesOK(pc[p], ret[p], call[p], rest[p], ip[p], dp[p], old[p], inum[p], puts[p])
  BY <1>1, NotPutting DEF Putting3, HasIp, HasDp, HasOld, HasRest, Slots
<1>3. /\ Good(Locked(ip[p]), dinode) /\ (panicked' = "no" => Typed(Locked(ip[p])))
      /\ \A x \in Slots : Locked(ip[p])[x].ref = icache[x].ref /\ Locked(ip[p])[x].inum = icache[x].inum
  BY <1>1, <1>2, LocksFacts
<1>4. n \in Inums
  BY <1>1, <1>2, EntryIs DEF NextEntry
<1>5. PICK g \in Slots : g = Iget(n)
  BY <1>1, IgetFacts
<1>6. /\ Good(icache', dinode) /\ (panicked' = "no" => Typed(icache'))
      /\ \A x \in Slots : x # g => icache'[x] = Locked(ip[p])[x]
      /\ icache'[g].ref = icache[g].ref + 1
  BY <1>1, <1>3, <1>4, <1>5, GoodGotten
<1>7. PICK u \in Seq(PutRec) : u = <<Put(ip[p])>> /\ Len(u) = 1 /\ First(u) = ip[p] /\ Second(u) = 0 /\ ~u[1].held
  BY <1>2, PutOne
<1>8. /\ t \in {"open", "link", "walk"} /\ (t = "link" => Op(p) = "link")
      /\ (t = "walk" => Len(rest[p]) # 1) /\ (t # "walk" => Op(p) # "link_new")
  BY <1>1, <1>2 DEF Found, AtParent, WantsParent
<1>9. ValuesOK("put", t, call[p], Tail(rest[p]), g, dp[p], old[p], inum[p], u)
  BY <1>2, <1>8 DEF ValuesOK, Labels, Slots
<1>10. HandOf("put", t, call[p], Tail(rest[p]), g, dp[p], old[p], inum[p], u)
  BY <1>2, <1>7, <1>8 DEF HandOf, Whither, Putting3, Returns, HasIp, HasDp, HasOld, HasRest, Slots, Op
<1>11. \A x \in Slots : icache'[x].ref + Points(ip[p], dp[p], old[p], puts[p], x)
                        = icache[x].ref + Points(g, dp[p], old[p], u, x)
  <2> SUFFICES ASSUME NEW x \in Slots
               PROVE  icache'[x].ref + Points(ip[p], dp[p], old[p], puts[p], x)
                      = icache[x].ref + Points(g, dp[p], old[p], u, x)
    OBVIOUS
  <2>1. icache[x].ref \in Nat /\ icache'[x].ref = icache[x].ref + Is(g, x)
    BY <1>3, <1>6 DEF Is, Good, InodeRec
  <2> QED
    BY <1>2, <1>7, <2>1 DEF Points, Is, Slots
<1>12. Good(icache', dinode')
  BY <1>1, <1>6
<1>13. panicked' = "no" => Running'
  BY <1>1, <1>5, <1>6, <1>7, <1>9, <1>10, <1>11, <1>12, CallStep
<1> QED
  BY <1>12, <1>13 DEF Keeps

\* ilock and then iget, and the lock kept or not.
LEMMA LocksHold ==
    ASSUME Running, Good(icache, dinode), NEW s \in Slots, icache[s].ref > 0, Locks(s), NEW p \in Procs
    PROVE  /\ Good(Hold(Locked(s), p, s), dinode)
           /\ panicked' = "no" => Typed(Hold(Locked(s), p, s))
           /\ \A x \in Slots : Hold(Locked(s), p, s)[x].ref = icache[x].ref
<1>1. /\ Good(Locked(s), dinode) /\ (panicked' = "no" => Typed(Locked(s)))
      /\ \A x \in Slots : Locked(s)[x].ref = icache[x].ref
  BY LocksFacts
<1> QED
  BY <1>1, GoodHold

LEMMA GetFacts ==
    ASSUME NEW c, Good(c, dinode), NEW n \in Inums, CanIget(n),
           \A x \in Slots : icache[x].ref \in Nat /\ c[x].ref = icache[x].ref /\ c[x].inum = icache[x].inum
    PROVE  /\ Iget(n) \in Slots
           /\ Good(Gotten(c, n), dinode) /\ (Typed(c) => Typed(Gotten(c, n)))
           /\ \A x \in Slots : Gotten(c, n)[x].ref = icache[x].ref + Is(Iget(n), x)
<1>1. PICK g \in Slots : g = Iget(n)
  BY IgetFacts
<1>2. /\ Good(Gotten(c, n), dinode) /\ (Typed(c) => Typed(Gotten(c, n)))
      /\ \A x \in Slots : x # g => Gotten(c, n)[x] = c[x]
      /\ Gotten(c, n)[g].ref = icache[g].ref + 1
  BY <1>1, GoodGotten
<1>3. ASSUME NEW x \in Slots
      PROVE  Gotten(c, n)[x].ref = icache[x].ref + Is(g, x)
  BY <1>2 DEF Is
<1> QED
  BY <1>1, <1>2, <1>3

LEMMA RefNat == ASSUME Good(icache, dinode) PROVE \A x \in Slots : icache[x].ref \in Nat
  BY DEF Good, InodeRec

LEMMA LocksGet ==
    ASSUME Running, Good(icache, dinode), NEW s \in Slots, icache[s].ref > 0, Locks(s),
           NEW n \in Inums, CanIget(n), NEW p \in Procs
    PROVE  /\ Iget(n) \in Slots
           /\ Good(Gotten(Locked(s), n), dinode) /\ Good(Hold(Gotten(Locked(s), n), p, s), dinode)
           /\ panicked' = "no" => Typed(Gotten(Locked(s), n)) /\ Typed(Hold(Gotten(Locked(s), n), p, s))
           /\ \A x \in Slots : Gotten(Locked(s), n)[x].ref = icache[x].ref + Is(Iget(n), x)
           /\ \A x \in Slots : Hold(Gotten(Locked(s), n), p, s)[x].ref = icache[x].ref + Is(Iget(n), x)
<1>1. /\ Good(Locked(s), dinode) /\ (panicked' = "no" => Typed(Locked(s)))
      /\ \A x \in Slots : icache[x].ref \in Nat /\ Locked(s)[x].ref = icache[x].ref
                          /\ Locked(s)[x].inum = icache[x].inum
  BY LocksFacts, RefNat
<1>2. PICK c : c = Gotten(Locked(s), n)
  OBVIOUS
<1>3. /\ Iget(n) \in Slots /\ Good(c, dinode) /\ (Typed(Locked(s)) => Typed(c))
      /\ \A x \in Slots : c[x].ref = icache[x].ref + Is(Iget(n), x)
  BY <1>1, <1>2, GetFacts
<1>4. /\ Good(Hold(c, p, s), dinode) /\ (Typed(c) => Typed(Hold(c, p, s)))
      /\ \A x \in Slots : Hold(c, p, s)[x].ref = c[x].ref
  BY <1>3, GoodHold
<1> QED
  BY <1>1, <1>2, <1>3, <1>4

LEMMA GivesUpKeeps ==
    ASSUME Running, Good(icache, dinode), panicked = "no", NEW p \in Procs, GivesUp(p)
    PROVE  Keeps
<1>1. /\ pc[p] \in {"open", "create_found", "link"} /\ icache' = Locked(ip[p]) /\ UNCHANGED <<dinode, files>>
      /\ Locks(ip[p])
      /\ Sets(p, "put", "user", call[p], rest[p], 0, dp[p], old[p], inum[p], <<Put(ip[p])>>)
  BY DEF GivesUp
<1>2. /\ ip[p] \in Slots /\ icache[ip[p]].ref > 0 /\ dp[p] = 0 /\ old[p] = 0 /\ inum[p] = 0
      /\ First(puts[p]) = 0 /\ Second(puts[p]) = 0
      /\ ValuesOK(pc[p], ret[p], call[p], rest[p], ip[p], dp[p], old[p], inum[p], puts[p])
  BY <1>1, NotPutting DEF Putting3, HasIp, HasDp, HasOld
<1>3. /\ Good(icache', dinode') /\ (panicked' = "no" => Typed(icache'))
      /\ \A x \in Slots : icache'[x].ref = icache[x].ref
  BY <1>1, <1>2, LocksFacts
<1>4. PICK u \in Seq(PutRec) : u = <<Put(ip[p])>> /\ Len(u) = 1 /\ First(u) = ip[p] /\ Second(u) = 0 /\ ~u[1].held
  BY <1>2, PutOne
<1>5. ValuesOK("put", "user", call[p], rest[p], 0, dp[p], old[p], inum[p], u)
  BY <1>2 DEF ValuesOK, Labels
<1>6. HandOf("put", "user", call[p], rest[p], 0, dp[p], old[p], inum[p], u)
  BY <1>2, <1>4 DEF HandOf, Whither, Putting3, Returns, HasIp, HasDp, HasOld, HasRest
<1>7. \A x \in Slots : Points(ip[p], dp[p], old[p], puts[p], x) = Points(0, dp[p], old[p], u, x)
  BY <1>2, <1>4 DEF Points, Is, Slots
<1>8. panicked' = "no" => Running'
  BY <1>1, <1>3, <1>4, <1>5, <1>6, <1>7, CallStep
<1> QED
  BY <1>3, <1>8 DEF Keeps

LEMMA OpensKeeps ==
    ASSUME Running, Good(icache, dinode), panicked = "no", NEW p \in Procs, Opens(p)
    PROVE  Keeps
<1>1. /\ pc[p] \in {"open", "create_found"} /\ icache' = Hold(Locked(ip[p]), p, ip[p])
      /\ UNCHANGED <<dinode, files>> /\ Locks(ip[p])
      /\ Sets(p, "openfile", ret[p], call[p], rest[p], ip[p], dp[p], old[p], inum[p], puts[p])
  BY DEF Opens
<1>2. /\ ip[p] \in Slots /\ icache[ip[p]].ref > 0 /\ dp[p] = 0 /\ old[p] = 0 /\ inum[p] = 0 /\ Len(puts[p]) = 0
      /\ ValuesOK(pc[p], ret[p], call[p], rest[p], ip[p], dp[p], old[p], inum[p], puts[p])
  BY <1>1, NotPutting DEF Putting3, HasIp, HasDp, HasOld
<1>3. /\ Good(icache', dinode') /\ (panicked' = "no" => Typed(icache'))
      /\ \A x \in Slots : icache'[x].ref = icache[x].ref
  BY <1>1, <1>2, LocksHold
<1>4. ValuesOK("openfile", ret[p], call[p], rest[p], ip[p], dp[p], old[p], inum[p], puts[p])
  BY <1>2 DEF ValuesOK, Labels
<1>5. HandOf("openfile", ret[p], call[p], rest[p], ip[p], dp[p], old[p], inum[p], puts[p])
  BY <1>2 DEF HandOf, Whither, Putting3, Returns, HasIp, HasDp, HasOld, HasRest, Slots
<1>6. panicked' = "no" => Running'
  BY <1>1, <1>3, <1>4, <1>5, CallStep
<1> QED
  BY <1>3, <1>6 DEF Keeps

LEMMA OpenFileFullKeeps ==
    ASSUME Running, Good(icache, dinode), panicked = "no", NEW p \in Procs, OpenFileFull(p)
    PROVE  Keeps
<1>1. /\ pc[p] = "openfile" /\ UNCHANGED <<icache, dinode, files, panicked>>
      /\ Sets(p, "put", "user", call[p], rest[p], 0, dp[p], old[p], inum[p], <<UnlockPut(ip[p])>>)
  BY DEF OpenFileFull
<1>2. /\ ip[p] \in Slots /\ dp[p] = 0 /\ old[p] = 0 /\ inum[p] = 0
      /\ First(puts[p]) = 0 /\ Second(puts[p]) = 0
      /\ ValuesOK(pc[p], ret[p], call[p], rest[p], ip[p], dp[p], old[p], inum[p], puts[p])
  BY <1>1, NotPutting DEF Putting3, HasIp, HasDp, HasOld
<1>3. Good(icache', dinode') /\ Typed(icache') /\ icache' = icache
  BY <1>1 DEF Running
<1>4. PICK u \in Seq(PutRec) : u = <<UnlockPut(ip[p])>> /\ Len(u) = 1 /\ First(u) = ip[p] /\ Second(u) = 0 /\ u[1].held
  BY <1>2, PutOne
<1>5. ValuesOK("put", "user", call[p], rest[p], 0, dp[p], old[p], inum[p], u)
  BY <1>2 DEF ValuesOK, Labels
<1>6. HandOf("put", "user", call[p], rest[p], 0, dp[p], old[p], inum[p], u)
  BY <1>2, <1>4 DEF HandOf, Whither, Putting3, Returns, HasIp, HasDp, HasOld, HasRest
<1>7. \A x \in Slots : Points(ip[p], dp[p], old[p], puts[p], x) = Points(0, dp[p], old[p], u, x)
  BY <1>2, <1>4 DEF Points, Is, Slots
<1>8. Running'
  BY <1>1, <1>3, <1>4, <1>5, <1>6, <1>7, CallStep
<1> QED
  BY <1>3, <1>8 DEF Keeps

LEMMA CreateFreeKeeps ==
    ASSUME Running, Good(icache, dinode), panicked = "no", NEW p \in Procs, CreateFree(p)
    PROVE  Keeps
<1>1. /\ pc[p] = "create" /\ icache' = Hold(Locked(dp[p]), p, dp[p])
      /\ UNCHANGED <<dinode, files>> /\ Locks(dp[p])
      /\ Sets(p, "ialloc", ret[p], call[p], rest[p], ip[p], dp[p], old[p], inum[p], puts[p])
  BY DEF CreateFree
<1>2. /\ dp[p] \in Slots /\ icache[dp[p]].ref > 0 /\ ip[p] = 0 /\ old[p] = 0 /\ inum[p] = 0 /\ Len(puts[p]) = 0
      /\ rest[p] # <<>>
      /\ ValuesOK(pc[p], ret[p], call[p], rest[p], ip[p], dp[p], old[p], inum[p], puts[p])
  BY <1>1, NotPutting DEF Putting3, HasIp, HasDp, HasOld, HasRest
<1>3. /\ Good(icache', dinode') /\ (panicked' = "no" => Typed(icache'))
      /\ \A x \in Slots : icache'[x].ref = icache[x].ref
  BY <1>1, <1>2, LocksHold
<1>4. ValuesOK("ialloc", ret[p], call[p], rest[p], ip[p], dp[p], old[p], inum[p], puts[p])
  BY <1>2 DEF ValuesOK, Labels
<1>5. HandOf("ialloc", ret[p], call[p], rest[p], ip[p], dp[p], old[p], inum[p], puts[p])
  BY <1>2 DEF HandOf, Whither, Putting3, Returns, HasIp, HasDp, HasOld, HasRest, Slots
<1>6. panicked' = "no" => Running'
  BY <1>1, <1>3, <1>4, <1>5, CallStep
<1> QED
  BY <1>3, <1>6 DEF Keeps

LEMMA CreateTakenKeeps ==
    ASSUME Running, Good(icache, dinode), panicked = "no", NEW p \in Procs, CreateTaken(p)
    PROVE  Keeps
<1>1. PICK n : /\ n = LastName(p) /\ pc[p] = "create" /\ n # 0 /\ CanIget(n) /\ Locks(dp[p])
               /\ icache' = Gotten(Locked(dp[p]), n) /\ UNCHANGED <<dinode, files>>
               /\ Sets(p, "put", "create_found", call[p], rest[p], Iget(n), 0, old[p], inum[p], <<Put(dp[p])>>)
  BY DEF CreateTaken
<1>2. /\ dp[p] \in Slots /\ icache[dp[p]].ref > 0 /\ icache[dp[p]].inum \in Inums
      /\ ip[p] = 0 /\ old[p] = 0 /\ inum[p] = 0
      /\ First(puts[p]) = 0 /\ Second(puts[p]) = 0 /\ Head(rest[p]) \in Names \cup Dots
      /\ ValuesOK(pc[p], ret[p], call[p], rest[p], ip[p], dp[p], old[p], inum[p], puts[p])
  BY <1>1, NotPutting DEF Putting3, HasIp, HasDp, HasOld, HasRest
<1>3. n \in Inums
  BY <1>1, <1>2, EntryIs DEF LastName
<1>4. PICK g \in Slots : g = Iget(n)
  BY <1>1, IgetFacts
<1>5. /\ Good(icache', dinode') /\ (panicked' = "no" => Typed(icache'))
      /\ \A x \in Slots : icache[x].ref \in Nat /\ icache'[x].ref = icache[x].ref + Is(g, x)
  BY <1>1, <1>2, <1>3, <1>4, LocksGet, RefNat
<1>6. PICK u \in Seq(PutRec) : u = <<Put(dp[p])>> /\ Len(u) = 1 /\ First(u) = dp[p] /\ Second(u) = 0 /\ ~u[1].held
  BY <1>2, PutOne
<1>7. ValuesOK("put", "create_found", call[p], rest[p], g, 0, old[p], inum[p], u)
  BY <1>2 DEF ValuesOK, Labels, Slots
<1>8. HandOf("put", "create_found", call[p], rest[p], g, 0, old[p], inum[p], u)
  BY <1>2, <1>6 DEF HandOf, Whither, Putting3, Returns, HasIp, HasDp, HasOld, HasRest, Slots
<1>9. \A x \in Slots : icache'[x].ref + Points(ip[p], dp[p], old[p], puts[p], x)
                        = icache[x].ref + Points(g, 0, old[p], u, x)
  BY <1>2, <1>5, <1>6 DEF Points, Is, Slots
<1>10. panicked' = "no" => Running'
  BY <1>1, <1>4, <1>5, <1>6, <1>7, <1>8, <1>9, CallStep
<1> QED
  BY <1>5, <1>10 DEF Keeps

LEMMA TwoOf ==
    ASSUME NEW a \in PutRec, NEW b \in PutRec
    PROVE  \E u \in Seq(PutRec) : u = <<a, b>> /\ Len(u) = 2 /\ First(u) = a.slot /\ Second(u) = b.slot
                                  /\ u[1] = a /\ u[2] = b
<1> <<a, b>> \in Seq(PutRec)
  BY TwoPuts
<1> WITNESS <<a, b>> \in Seq(PutRec)
<1> QED
  BY TwoPuts

LEMMA UnlinkFailsKeeps ==
    ASSUME Running, Good(icache, dinode), panicked = "no", NEW p \in Procs, UnlinkFails(p)
    PROVE  Keeps
<1>1. /\ pc[p] = "unlink" /\ icache' = Locked(dp[p]) /\ UNCHANGED <<dinode, files>> /\ Locks(dp[p])
      /\ Sets(p, "put", "user", call[p], rest[p], ip[p], 0, old[p], inum[p], <<Put(dp[p])>>)
  BY DEF UnlinkFails
<1>2. /\ dp[p] \in Slots /\ icache[dp[p]].ref > 0 /\ ip[p] = 0 /\ old[p] = 0 /\ inum[p] = 0
      /\ First(puts[p]) = 0 /\ Second(puts[p]) = 0
      /\ ValuesOK(pc[p], ret[p], call[p], rest[p], ip[p], dp[p], old[p], inum[p], puts[p])
  BY <1>1, NotPutting DEF Putting3, HasIp, HasDp, HasOld
<1>3. /\ Good(icache', dinode') /\ (panicked' = "no" => Typed(icache'))
      /\ \A x \in Slots : icache'[x].ref = icache[x].ref
  BY <1>1, <1>2, LocksFacts
<1>4. PICK u \in Seq(PutRec) : u = <<Put(dp[p])>> /\ Len(u) = 1 /\ First(u) = dp[p] /\ Second(u) = 0 /\ ~u[1].held
  BY <1>2, PutOne
<1>5. ValuesOK("put", "user", call[p], rest[p], ip[p], 0, old[p], inum[p], u)
  BY <1>2 DEF ValuesOK, Labels
<1>6. HandOf("put", "user", call[p], rest[p], ip[p], 0, old[p], inum[p], u)
  BY <1>2, <1>4 DEF HandOf, Whither, Putting3, Returns, HasIp, HasDp, HasOld, HasRest
<1>7. \A x \in Slots : Points(ip[p], dp[p], old[p], puts[p], x) = Points(ip[p], 0, old[p], u, x)
  BY <1>2, <1>4 DEF Points, Is, Slots
<1>8. panicked' = "no" => Running'
  BY <1>1, <1>3, <1>4, <1>5, <1>6, <1>7, CallStep
<1> QED
  BY <1>3, <1>8 DEF Keeps

LEMMA UnlinkFindsKeeps ==
    ASSUME Running, Good(icache, dinode), panicked = "no", NEW p \in Procs, UnlinkFinds(p)
    PROVE  Keeps
<1>1. PICK n : /\ n = LastName(p) /\ pc[p] = "unlink" /\ n # 0 /\ CanIget(n) /\ Locks(dp[p])
               /\ icache' = Hold(Gotten(Locked(dp[p]), n), p, dp[p]) /\ UNCHANGED <<dinode, files>>
               /\ Sets(p, "unlink_ip", ret[p], call[p], rest[p], Iget(n), dp[p], old[p], inum[p], puts[p])
  BY DEF UnlinkFinds
<1>2. /\ dp[p] \in Slots /\ icache[dp[p]].ref > 0 /\ icache[dp[p]].inum \in Inums
      /\ ip[p] = 0 /\ old[p] = 0 /\ inum[p] = 0 /\ Len(puts[p]) = 0 /\ rest[p] # <<>>
      /\ First(puts[p]) = 0 /\ Second(puts[p]) = 0 /\ Head(rest[p]) \in Names \cup Dots
      /\ ValuesOK(pc[p], ret[p], call[p], rest[p], ip[p], dp[p], old[p], inum[p], puts[p])
  BY <1>1, NotPutting DEF Putting3, HasIp, HasDp, HasOld, HasRest
<1>3. n \in Inums
  BY <1>1, <1>2, EntryIs DEF LastName
<1>4. PICK g \in Slots : g = Iget(n)
  BY <1>1, IgetFacts
<1>5. /\ Good(icache', dinode') /\ (panicked' = "no" => Typed(icache'))
      /\ \A x \in Slots : icache[x].ref \in Nat /\ icache'[x].ref = icache[x].ref + Is(g, x)
  BY <1>1, <1>2, <1>3, <1>4, LocksGet, RefNat
<1>6. ValuesOK("unlink_ip", ret[p], call[p], rest[p], g, dp[p], old[p], inum[p], puts[p])
  BY <1>2 DEF ValuesOK, Labels, Slots
<1>7. HandOf("unlink_ip", ret[p], call[p], rest[p], g, dp[p], old[p], inum[p], puts[p])
  BY <1>2 DEF HandOf, Whither, Putting3, Returns, HasIp, HasDp, HasOld, HasRest, Slots
<1>8. \A x \in Slots : icache'[x].ref + Points(ip[p], dp[p], old[p], puts[p], x)
                        = icache[x].ref + Points(g, dp[p], old[p], puts[p], x)
  BY <1>2, <1>5 DEF Points, Is, Slots
<1>9. panicked' = "no" => Running'
  BY <1>1, <1>4, <1>5, <1>6, <1>7, <1>8, CallStep
<1> QED
  BY <1>5, <1>9 DEF Keeps

LEMMA UnlinkRefusedKeeps ==
    ASSUME Running, Good(icache, dinode), panicked = "no", NEW p \in Procs, UnlinkRefused(p)
    PROVE  Keeps
<1>1. /\ pc[p] = "unlink_ip" /\ icache' = Locked(ip[p]) /\ UNCHANGED <<dinode, files>> /\ Locks(ip[p])
      /\ Sets(p, "put", "user", call[p], rest[p], 0, 0, old[p], inum[p], <<Put(ip[p]), UnlockPut(dp[p])>>)
  BY DEF UnlinkRefused
<1>2. /\ ip[p] \in Slots /\ icache[ip[p]].ref > 0 /\ dp[p] \in Slots /\ old[p] = 0 /\ inum[p] = 0
      /\ First(puts[p]) = 0 /\ Second(puts[p]) = 0
      /\ ValuesOK(pc[p], ret[p], call[p], rest[p], ip[p], dp[p], old[p], inum[p], puts[p])
  BY <1>1, NotPutting DEF Putting3, HasIp, HasDp, HasOld
<1>3. /\ Good(icache', dinode') /\ (panicked' = "no" => Typed(icache'))
      /\ \A x \in Slots : icache'[x].ref = icache[x].ref
  BY <1>1, <1>2, LocksFacts
<1>4. PICK a \in PutRec, b \in PutRec : a = Put(ip[p]) /\ b = UnlockPut(dp[p]) /\ a.slot = ip[p] /\ b.slot = dp[p]
  BY <1>2, PutIs
<1>5. PICK u \in Seq(PutRec) : u = <<a, b>> /\ Len(u) = 2 /\ First(u) = a.slot /\ Second(u) = b.slot
                               /\ u[1] = a /\ u[2] = b
  BY TwoOf
<1>6. ValuesOK("put", "user", call[p], rest[p], 0, 0, old[p], inum[p], u)
  BY <1>2 DEF ValuesOK, Labels
<1>7. HandOf("put", "user", call[p], rest[p], 0, 0, old[p], inum[p], u)
  BY <1>2, <1>5 DEF HandOf, Whither, Putting3, Returns, HasIp, HasDp, HasOld, HasRest
<1>8. \A x \in Slots : Points(ip[p], dp[p], old[p], puts[p], x) = Points(0, 0, old[p], u, x)
  BY <1>2, <1>4, <1>5 DEF Points, Is, Slots
<1>9. panicked' = "no" => Running'
  BY <1>1, <1>3, <1>4, <1>5, <1>6, <1>7, <1>8, CallStep
<1> QED
  BY <1>3, <1>9 DEF Keeps

LEMMA LinkTakenKeeps ==
    ASSUME Running, Good(icache, dinode), panicked = "no", NEW p \in Procs, LinkTaken(p)
    PROVE  Keeps
<1>1. PICK n : /\ n = LastName(p) /\ pc[p] = "link_new" /\ n # 0 /\ CanIget(n) /\ Locks(dp[p])
               /\ icache' = Hold(Gotten(Locked(dp[p]), n), p, dp[p]) /\ UNCHANGED <<dinode, files>>
               /\ Sets(p, "put", "link_undo", call[p], rest[p], ip[p], 0, old[p], inum[p],
                       <<Put(Iget(n)), UnlockPut(dp[p])>>)
  BY DEF LinkTaken
<1>2. /\ dp[p] \in Slots /\ icache[dp[p]].ref > 0 /\ icache[dp[p]].inum \in Inums
      /\ ip[p] = 0 /\ old[p] # 0 /\ inum[p] = 0
      /\ First(puts[p]) = 0 /\ Second(puts[p]) = 0 /\ Head(rest[p]) \in Names \cup Dots
      /\ ValuesOK(pc[p], ret[p], call[p], rest[p], ip[p], dp[p], old[p], inum[p], puts[p])
  BY <1>1, NotPutting DEF Putting3, HasIp, HasDp, HasOld, HasRest, Slots
<1>3. n \in Inums
  BY <1>1, <1>2, EntryIs DEF LastName
<1>4. PICK g \in Slots : g = Iget(n)
  BY <1>1, IgetFacts
<1>5. /\ Good(icache', dinode') /\ (panicked' = "no" => Typed(icache'))
      /\ \A x \in Slots : icache[x].ref \in Nat /\ icache'[x].ref = icache[x].ref + Is(g, x)
  BY <1>1, <1>2, <1>3, <1>4, LocksGet, RefNat
<1>6. PICK a \in PutRec, b \in PutRec : a = Put(g) /\ b = UnlockPut(dp[p]) /\ a.slot = g /\ b.slot = dp[p]
  BY <1>2, PutIs
<1>7. PICK u \in Seq(PutRec) : u = <<a, b>> /\ Len(u) = 2 /\ First(u) = a.slot /\ Second(u) = b.slot
                               /\ u[1] = a /\ u[2] = b
  BY TwoOf
<1>8. ValuesOK("put", "link_undo", call[p], rest[p], ip[p], 0, old[p], inum[p], u)
  BY <1>2 DEF ValuesOK, Labels
<1>9. HandOf("put", "link_undo", call[p], rest[p], ip[p], 0, old[p], inum[p], u)
  BY <1>2, <1>7 DEF HandOf, Whither, Putting3, Returns, HasIp, HasDp, HasOld, HasRest
<1>10. \A x \in Slots : icache'[x].ref + Points(ip[p], dp[p], old[p], puts[p], x)
                        = icache[x].ref + Points(ip[p], 0, old[p], u, x)
  BY <1>2, <1>5, <1>6, <1>7 DEF Points, Is, Slots
<1>11. panicked' = "no" => Running'
  BY <1>1, <1>4, <1>5, <1>6, <1>7, <1>8, <1>9, <1>10, CallStep
<1> QED
  BY <1>5, <1>11 DEF Keeps

\* iget of an inode number, with no lock taken.
LEMMA PlainGet ==
    ASSUME Running, Good(icache, dinode), NEW n \in Inums, CanIget(n), icache' = Gotten(icache, n), dinode' = dinode
    PROVE  /\ Iget(n) \in Slots /\ Good(icache', dinode') /\ Typed(icache')
           /\ \A x \in Slots : icache[x].ref \in Nat /\ icache'[x].ref = icache[x].ref + Is(Iget(n), x)
<1>1. \A x \in Slots : icache[x].ref \in Nat
  BY RefNat
<1> QED
  BY <1>1, GetFacts DEF Running

LEMMA IallocGetsKeeps ==
    ASSUME Running, Good(icache, dinode), panicked = "no", NEW p \in Procs, IallocGets(p)
    PROVE  Keeps
<1>1. /\ pc[p] = "ialloc_iget" /\ CanIget(inum[p]) /\ icache' = Gotten(icache, inum[p])
      /\ UNCHANGED <<dinode, files, panicked>>
      /\ Sets(p, "create_new", ret[p], call[p], rest[p], Iget(inum[p]), dp[p], old[p], inum[p], puts[p])
  BY DEF IallocGets
<1>2. /\ dp[p] \in Slots /\ ip[p] = 0 /\ old[p] = 0 /\ inum[p] \in Inums /\ Len(puts[p]) = 0 /\ rest[p] # <<>>
      /\ ValuesOK(pc[p], ret[p], call[p], rest[p], ip[p], dp[p], old[p], inum[p], puts[p])
  BY <1>1, NotPutting DEF Putting3, HasIp, HasDp, HasOld, HasRest
<1>3. PICK g \in Slots : g = Iget(inum[p])
  BY <1>1, IgetFacts
<1>4. /\ Good(icache', dinode') /\ Typed(icache')
      /\ \A x \in Slots : icache[x].ref \in Nat /\ icache'[x].ref = icache[x].ref + Is(g, x)
  BY <1>1, <1>2, <1>3, PlainGet
<1>5. ValuesOK("create_new", ret[p], call[p], rest[p], g, dp[p], old[p], inum[p], puts[p])
  BY <1>2 DEF ValuesOK, Labels, Slots
<1>6. HandOf("create_new", ret[p], call[p], rest[p], g, dp[p], old[p], inum[p], puts[p])
  BY <1>2 DEF HandOf, Whither, Putting3, Returns, HasIp, HasDp, HasOld, HasRest, Slots, Inums
<1>7. \A x \in Slots : icache'[x].ref + Points(ip[p], dp[p], old[p], puts[p], x)
                        = icache[x].ref + Points(g, dp[p], old[p], puts[p], x)
  BY <1>2, <1>4 DEF Points, Is, Slots
<1>8. Running'
  BY <1>1, <1>3, <1>4, <1>5, <1>6, <1>7, CallStep
<1> QED
  BY <1>4, <1>8 DEF Keeps

LEMMA RootIs == Root \in Inums
  BY FileSysAssumption DEF Root, Inums

LEMMA LinkWalksKeeps ==
    ASSUME Running, Good(icache, dinode), panicked = "no", NEW p \in Procs, LinkWalks(p)
    PROVE  Keeps
<1>1. PICK c, r : /\ c = [call[p] EXCEPT !.op = "link_new"] /\ r = call[p].new
                  /\ pc[p] = "link_walk" /\ CanIget(Root) /\ icache' = Gotten(icache, Root)
                  /\ UNCHANGED <<dinode, files, panicked>>
                  /\ Sets(p, "walk", ret[p], c, r, Iget(Root), dp[p], old[p], inum[p], puts[p])
  BY DEF LinkWalks
<1>2. /\ dp[p] = 0 /\ ip[p] = 0 /\ old[p] # 0 /\ inum[p] = 0 /\ Len(puts[p]) = 0 /\ Op(p) = "link"
      /\ First(puts[p]) = 0 /\ Second(puts[p]) = 0
      /\ ValuesOK(pc[p], ret[p], call[p], rest[p], ip[p], dp[p], old[p], inum[p], puts[p])
  BY <1>1, NotPutting DEF Putting3, HasIp, HasDp, HasOld, HasRest, Slots
<1>3. call[p] \in [op : {"link", "link_new"}, path : Paths, new : Paths]
  BY <1>2 DEF ValuesOK, CallRec, Op, NoCall
<1>4. c \in CallRec /\ c.op = "link_new" /\ r \in Seq(Names \cup Dots) /\ r # <<>>
  <2>1. c \in [op : {"link", "link_new"}, path : Paths, new : Paths] /\ c.op = "link_new"
    BY <1>1, <1>3
  <2>2. r \in Paths
    BY <1>1, <1>3
  <2> QED
    BY <2>1, <2>2 DEF CallRec, Paths
<1>5. PICK g \in Slots : g = Iget(Root)
  BY <1>1, IgetFacts
<1>6. /\ Good(icache', dinode') /\ Typed(icache')
      /\ \A x \in Slots : icache[x].ref \in Nat /\ icache'[x].ref = icache[x].ref + Is(g, x)
  BY <1>1, <1>5, PlainGet, RootIs
<1>7. ValuesOK("walk", ret[p], c, r, g, dp[p], old[p], inum[p], puts[p])
  BY <1>2, <1>4 DEF ValuesOK, Labels, Slots
<1>8. HandOf("walk", ret[p], c, r, g, dp[p], old[p], inum[p], puts[p])
  BY <1>2, <1>4 DEF HandOf, Whither, Putting3, Returns, HasIp, HasDp, HasOld, HasRest, Slots
<1>9. \A x \in Slots : icache'[x].ref + Points(ip[p], dp[p], old[p], puts[p], x)
                        = icache[x].ref + Points(g, dp[p], old[p], puts[p], x)
  <2> SUFFICES ASSUME NEW x \in Slots
               PROVE  icache'[x].ref + Points(ip[p], dp[p], old[p], puts[p], x)
                      = icache[x].ref + Points(g, dp[p], old[p], puts[p], x)
    OBVIOUS
  <2>1. icache[x].ref \in Nat /\ icache'[x].ref = icache[x].ref + Is(g, x) /\ x # 0
    BY <1>6 DEF Slots
  <2> QED
    BY <1>2, <2>1 DEF Points, Is
<1>10. Running'
  BY <1>1, <1>5, <1>6, <1>7, <1>8, <1>9, CallStep
<1> QED
  BY <1>6, <1>10 DEF Keeps

LEMMA StartsKeeps ==
    ASSUME Running, Good(icache, dinode), panicked = "no", NEW p \in Procs, NEW c \in Calls, Starts(p, c)
    PROVE  Keeps
<1>1. /\ pc[p] = "user" /\ CanIget(Root) /\ icache' = Gotten(icache, Root)
      /\ UNCHANGED <<dinode, files, panicked>>
      /\ Sets(p, "walk", ret[p], c, c.path, Iget(Root), dp[p], old[p], inum[p], puts[p])
  BY DEF Starts
<1>2. /\ dp[p] = 0 /\ ip[p] = 0 /\ old[p] = 0 /\ inum[p] = 0 /\ Len(puts[p]) = 0
      /\ ValuesOK(pc[p], ret[p], call[p], rest[p], ip[p], dp[p], old[p], inum[p], puts[p])
  BY <1>1, NotPutting DEF Putting3, HasIp, HasDp, HasOld, HasRest
<1>3. /\ c \in CallRec /\ c.op \in {"open", "create", "mkdir", "unlink", "link"}
      /\ c.path \in Seq(Names \cup Dots) /\ c.path # <<>>
  <2>1. \/ c \in [op : {"open", "create", "mkdir", "unlink"}, path : Paths, write : BOOLEAN]
        \/ c \in [op : {"link"}, path : Paths, new : Paths]
    BY FileSysAssumption
  <2>2. c.path \in Paths /\ c.op \in {"open", "create", "mkdir", "unlink", "link"}
    BY <2>1
  <2>3. c \in CallRec
    BY <2>1 DEF CallRec
  <2> QED
    BY <2>2, <2>3 DEF Paths
<1>4. PICK g \in Slots : g = Iget(Root)
  BY <1>1, IgetFacts
<1>5. /\ Good(icache', dinode') /\ Typed(icache')
      /\ \A x \in Slots : icache[x].ref \in Nat /\ icache'[x].ref = icache[x].ref + Is(g, x)
  BY <1>1, <1>4, PlainGet, RootIs
<1>6. ValuesOK("walk", ret[p], c, c.path, g, dp[p], old[p], inum[p], puts[p])
  BY <1>2, <1>3 DEF ValuesOK, Labels, Slots
<1>7. HandOf("walk", ret[p], c, c.path, g, dp[p], old[p], inum[p], puts[p])
  BY <1>2, <1>3 DEF HandOf, Whither, Putting3, Returns, HasIp, HasDp, HasOld, HasRest, Slots
<1>8. \A x \in Slots : icache'[x].ref + Points(ip[p], dp[p], old[p], puts[p], x)
                        = icache[x].ref + Points(g, dp[p], old[p], puts[p], x)
  BY <1>2, <1>5, SMTT(30) DEF Points, Is, Slots
<1>9. Running'
  BY <1>1, <1>4, <1>5, <1>6, <1>7, <1>8, CallStep
<1> QED
  BY <1>5, <1>9 DEF Keeps

-----------------------------------------------------------------------------
(* iunlock and iput keep the references *)

LEMMA UnlocksKeeps ==
    ASSUME Running, Good(icache, dinode), panicked = "no", NEW p \in Procs, Unlocks(p)
    PROVE  Keeps
<1>1. PICK u : /\ u = [puts[p] EXCEPT ![1].held = FALSE] /\ pc[p] = "put"
               /\ icache' = Hold(icache, NoProc, Put1(p)) /\ UNCHANGED <<dinode, files, panicked>>
               /\ Sets(p, "put", ret[p], call[p], rest[p], ip[p], dp[p], old[p], inum[p], u)
  BY DEF Unlocks
<1>2. /\ puts[p] \in Seq(PutRec) /\ Len(puts[p]) \in 1..2 /\ puts[p][1] \in PutRec
  BY <1>1, FirstPut DEF Putting3
<1>3. /\ ValuesOK(pc[p], ret[p], call[p], rest[p], ip[p], dp[p], old[p], inum[p], puts[p])
      /\ HandOf(pc[p], ret[p], call[p], rest[p], ip[p], dp[p], old[p], inum[p], puts[p])
      /\ Put1(p) \in Slots
  BY <1>2, ValuesNow
<1>4. PICK a : a = [puts[p][1] EXCEPT !.held = FALSE]
  OBVIOUS
<1>5. a \in PutRec /\ a.slot = puts[p][1].slot /\ a.held = FALSE
  BY <1>2, <1>4 DEF PutRec
<1>6. /\ u \in Seq(PutRec) /\ Len(u) = Len(puts[p]) /\ u[1] = a /\ (Len(u) = 2 => u[2] = puts[p][2])
  <2>1. u = [puts[p] EXCEPT ![1] = a]
    BY <1>1, <1>4
  <2>2. 1 \in 1..Len(puts[p]) /\ (Len(puts[p]) = 2 => 2 \in 1..Len(puts[p]))
    BY <1>2
  <2> QED
    BY <1>2, <1>5, <2>1, <2>2, ExceptSeq
<1>7. First(u) = First(puts[p]) /\ Second(u) = Second(puts[p])
  BY <1>2, <1>5, <1>6 DEF First, Second
<1>8. /\ Good(icache', dinode') /\ Typed(icache')
      /\ \A x \in Slots : icache'[x].ref = icache[x].ref
  <2>1. Typed(icache) /\ NoProc \in Procs \cup {NoProc}
    BY DEF Running
  <2>2. /\ Good(Hold(icache, NoProc, Put1(p)), dinode)
        /\ Typed(icache) => Typed(Hold(icache, NoProc, Put1(p)))
        /\ \A x \in Slots : Hold(icache, NoProc, Put1(p))[x].ref = icache[x].ref
    <3>1. PICK t \in Slots : t = Put1(p)
      BY <1>3
    <3>2. \A q \in Procs \cup {NoProc} :
             /\ Good(Hold(icache, q, t), dinode)
             /\ Typed(icache) => Typed(Hold(icache, q, t))
             /\ \A x \in Slots : Hold(icache, q, t)[x].ref = icache[x].ref
      BY GoodHold
    <3> QED
      BY <2>1, <3>1, <3>2
  <2>3. icache' = Hold(icache, NoProc, Put1(p)) /\ dinode' = dinode
    BY <1>1
  <2> QED
    BY <2>1, <2>2, <2>3
<1>9. ValuesOK("put", ret[p], call[p], rest[p], ip[p], dp[p], old[p], inum[p], u)
  BY <1>3, <1>6 DEF ValuesOK, Labels
<1>10. HandOf("put", ret[p], call[p], rest[p], ip[p], dp[p], old[p], inum[p], u)
  BY <1>1, <1>3, <1>6 DEF HandOf, Whither, Putting3, Returns
<1>11. \A x \in Slots : Points(ip[p], dp[p], old[p], puts[p], x) = Points(ip[p], dp[p], old[p], u, x)
  BY <1>7 DEF Points
<1>12. \A x \in Slots : icache'[x].ref + Points(ip[p], dp[p], old[p], puts[p], x)
                        = icache[x].ref + Points(ip[p], dp[p], old[p], u, x)
  BY <1>8, <1>11
<1>13. /\ UNCHANGED files
       /\ Sets(p, "put", ret[p], call[p], rest[p], ip[p], dp[p], old[p], inum[p], u)
  BY <1>1
<1>14. Running'
  BY <1>8, <1>9, <1>10, <1>12, <1>13, CallStep
<1> QED
  BY <1>8, <1>14 DEF Keeps

LEMMA PutTestKeeps ==
    ASSUME Running, Good(icache, dinode), panicked = "no", NEW p \in Procs, PutFrees(p) \/ PutDrops(p)
    PROVE  Keeps
<1>1. PICK l : /\ l \in {"free", "drop"} /\ pc[p] = "put" /\ ~puts[p][1].held
               /\ icache' \in {icache, Hold(icache, p, Put1(p))} /\ UNCHANGED <<dinode, files, panicked>>
               /\ Sets(p, l, ret[p], call[p], rest[p], ip[p], dp[p], old[p], inum[p], puts[p])
  BY DEF PutFrees, PutDrops
<1>2. Len(puts[p]) \in 1..2
  BY <1>1, FirstPut DEF Putting3
<1>3. /\ ValuesOK(pc[p], ret[p], call[p], rest[p], ip[p], dp[p], old[p], inum[p], puts[p])
      /\ HandOf(pc[p], ret[p], call[p], rest[p], ip[p], dp[p], old[p], inum[p], puts[p])
      /\ Put1(p) \in Slots
  BY <1>2, ValuesNow
<1>4. /\ Good(icache', dinode') /\ Typed(icache')
      /\ \A x \in Slots : icache'[x].ref = icache[x].ref
  BY <1>1, <1>3, GoodHold DEF Running
<1>5. ValuesOK(l, ret[p], call[p], rest[p], ip[p], dp[p], old[p], inum[p], puts[p])
  BY <1>1, <1>3 DEF ValuesOK, Labels
<1>6. HandOf(l, ret[p], call[p], rest[p], ip[p], dp[p], old[p], inum[p], puts[p])
  BY <1>1, <1>3 DEF HandOf, Whither, Putting3, Returns
<1>7. Running'
  BY <1>1, <1>4, <1>5, <1>6, CallStep
<1> QED
  BY <1>4, <1>7 DEF Keeps

\* iput gives up one reference; an entry without any is never read again.
LEMMA GoodDropped ==
    ASSUME Running, Good(icache, dinode), NEW s \in Slots, icache[s].ref > 0
    PROVE  /\ Good(Dropped(s), dinode) /\ Typed(Dropped(s))
           /\ \A x \in Slots : x # s => Dropped(s)[x] = icache[x]
           /\ Dropped(s)[s].ref = icache[s].ref - 1
           /\ icache[s].ref # 1 => /\ Dropped(s)[s].inum = icache[s].inum /\ Dropped(s)[s].owner = icache[s].owner
                                   /\ Dropped(s)[s].valid = icache[s].valid /\ Dropped(s)[s].type = icache[s].type
                                   /\ Dropped(s)[s].nlink = icache[s].nlink
<1>1. icache \in [Slots -> InodeRec] /\ icache[s] \in InodeRec /\ icache[s].ref \in Nat
  BY DEF Good, InodeRec
<1>2. PICK r : r = IF icache[s].ref = 1 THEN NoInode ELSE [icache[s] EXCEPT !.ref = icache[s].ref - 1]
  OBVIOUS
<1>3. PICK e : e = Dropped(s)
  OBVIOUS
<1>4. r \in InodeRec /\ r.ref = icache[s].ref - 1
      /\ (icache[s].ref # 1 => /\ r.inum = icache[s].inum /\ r.owner = icache[s].owner /\ r.valid = icache[s].valid
                               /\ r.type = icache[s].type /\ r.nlink = icache[s].nlink)
  <2>1. CASE icache[s].ref = 1
    <3>1. NoInode \in InodeRec /\ NoInode.ref = 0
      BY FileSysAssumption DEF NoInode, InodeRec, Kinds
    <3> QED
      BY <1>2, <2>1, <3>1
  <2>2. CASE icache[s].ref # 1
    <3>1. r = [icache[s] EXCEPT !.ref = icache[s].ref - 1] /\ icache[s].ref - 1 \in Nat
      BY <1>1, <1>2, <2>2
    <3> QED
      BY <1>1, <2>2, <3>1 DEF InodeRec
  <2> QED
    BY <2>1, <2>2
<1>5. e \in [Slots -> InodeRec] /\ e[s] = r /\ \A x \in Slots : x # s => e[x] = icache[x]
  <2>1. e = [icache EXCEPT ![s] = r]
    BY <1>2, <1>3, Zenon DEF Dropped
  <2> QED
    BY <1>1, <1>4, <2>1
<1>6. \A x \in Slots : e[x].ref > 0 => /\ icache[x].ref > 0 /\ e[x].inum = icache[x].inum
                                       /\ e[x].valid = icache[x].valid /\ e[x].type = icache[x].type
                                       /\ e[x].nlink = icache[x].nlink
  BY <1>1, <1>4, <1>5
<1>7. Numbered(e) /\ Unique(e)
  BY <1>6 DEF Good, Numbered, Unique
<1>8. Agrees(e, dinode) /\ Typed(e)
  BY <1>6 DEF Good, Agrees, Typed, Running
<1>9. Good(e, dinode)
  BY <1>5, <1>7, <1>8 DEF Good
<1> QED
  BY <1>3, <1>4, <1>5, <1>8, <1>9

LEMMA TailPuts ==
    ASSUME NEW u \in Seq(PutRec), Len(u) \in 1..2
    PROVE  /\ Tail(u) \in Seq(PutRec) /\ Len(Tail(u)) = Len(u) - 1
           /\ First(Tail(u)) = Second(u) /\ Second(Tail(u)) = 0
           /\ Len(u) = 2 => Tail(u)[1] = u[2]
<1>1. u # <<>>
  OBVIOUS
<1>2. Tail(u) \in Seq(PutRec) /\ Len(Tail(u)) = Len(u) - 1 /\ \A i \in 1..Len(Tail(u)) : Tail(u)[i] = u[i + 1]
  BY <1>1, HeadTailProperties
<1>3. Len(u) = 2 => Tail(u)[1] = u[2]
  BY <1>2
<1>4. Len(u) = 1 \/ Len(u) = 2
  OBVIOUS
<1>5. First(Tail(u)) = Second(u) /\ Second(Tail(u)) = 0
  BY <1>2, <1>3, <1>4 DEF First, Second
<1> QED
  BY <1>2, <1>3, <1>5

LEMMA DropsKeeps ==
    ASSUME Running, Good(icache, dinode), panicked = "no", NEW p \in Procs, DropsOne(p) \/ DropsLast(p)
    PROVE  Keeps
<1>1. pc[p] = "drop" /\ icache' = Dropped(Put1(p)) /\ UNCHANGED <<dinode, files, panicked>>
  BY DEF DropsOne, DropsLast
<1>2. puts[p] \in Seq(PutRec) /\ Len(puts[p]) \in 1..2
  BY <1>1, FirstPut DEF Putting3
<1>3. /\ ValuesOK(pc[p], ret[p], call[p], rest[p], ip[p], dp[p], old[p], inum[p], puts[p])
      /\ HandOf(pc[p], ret[p], call[p], rest[p], ip[p], dp[p], old[p], inum[p], puts[p])
      /\ Put1(p) \in Slots /\ icache[Put1(p)].ref > 0
  BY <1>2, ValuesNow
<1>4. /\ Good(icache', dinode') /\ Typed(icache')
      /\ \A x \in Slots : x # Put1(p) => icache'[x] = icache[x]
      /\ icache'[Put1(p)].ref = icache[Put1(p)].ref - 1
  BY <1>1, <1>3, GoodDropped
<1>5. PICK u \in Seq(PutRec) : u = Tail(puts[p])
  BY <1>2, TailPuts
<1>6. Len(u) = Len(puts[p]) - 1 /\ First(u) = Put2(p) /\ Second(u) = 0
  BY <1>2, <1>5, TailPuts DEF Put2
<1>7. \A x \in Slots : icache'[x].ref + Points(ip[p], dp[p], old[p], puts[p], x)
                        = icache[x].ref + Points(ip[p], dp[p], old[p], u, x)
  <2> SUFFICES ASSUME NEW x \in Slots
               PROVE  icache'[x].ref + Points(ip[p], dp[p], old[p], puts[p], x)
                      = icache[x].ref + Points(ip[p], dp[p], old[p], u, x)
    OBVIOUS
  <2>1. icache[x].ref \in Nat /\ icache'[x].ref + Is(Put1(p), x) = icache[x].ref /\ x # 0 /\ icache'[x].ref \in Nat
    BY <1>4, RefNat DEF Is, Slots, Good, InodeRec
  <2>2. Points(ip[p], dp[p], old[p], puts[p], x) = Points(ip[p], dp[p], old[p], u, x) + Is(Put1(p), x)
        /\ Points(ip[p], dp[p], old[p], u, x) \in Nat /\ Is(Put1(p), x) \in Nat
    BY <1>6, <2>1 DEF Points, Is, Put1, Put2
  <2> QED
    BY <2>1, <2>2
<1>8. CASE DropsOne(p)
  <2>1. Sets(p, "put", ret[p], call[p], rest[p], ip[p], dp[p], old[p], inum[p], u) /\ Len(puts[p]) > 1
    BY <1>5, <1>8 DEF DropsOne
  <2>2. ValuesOK("put", ret[p], call[p], rest[p], ip[p], dp[p], old[p], inum[p], u)
    BY <1>3 DEF ValuesOK, Labels
  <2>3. HandOf("put", ret[p], call[p], rest[p], ip[p], dp[p], old[p], inum[p], u)
    BY <1>1, <1>2, <1>3, <1>6, <2>1 DEF HandOf, Whither, Putting3
  <2>4. Running'
    BY <1>1, <1>4, <1>7, <2>1, <2>2, <2>3, CallStep
  <2> QED
    BY <1>4, <2>4 DEF Keeps
<1>9. CASE DropsLast(p)
  <2>1. PICK c, r : /\ c = IF ret[p] = "user" THEN NoCall ELSE call[p]
                    /\ r = IF ret[p] = "user" THEN <<>> ELSE rest[p]
                    /\ Sets(p, ret[p], "user", c, r, ip[p], dp[p], old[p], inum[p], u)
                    /\ Len(puts[p]) <= 1
    BY <1>5, <1>9 DEF DropsLast
  <2>2. c \in CallRec /\ r \in Seq(Names \cup Dots)
    BY <1>3, <2>1 DEF ValuesOK, CallRec
  <2>3. ValuesOK(ret[p], "user", c, r, ip[p], dp[p], old[p], inum[p], u)
    BY <1>3, <2>2 DEF ValuesOK, Labels
  <2>4. HandOf(ret[p], "user", c, r, ip[p], dp[p], old[p], inum[p], u)
    <3>1. ret[p] \in Returns /\ inum[p] = 0 /\ Len(u) = 0 /\ Whither("drop", ret[p]) = ret[p]
      <4>1. Len(puts[p]) <= 1
        BY <2>1
      <4>2. \A k \in 1..2 : k <= 1 => k - 1 = 0
        OBVIOUS
      <4>3. Len(u) = 0
        BY <1>2, <1>6, <4>1, <4>2, Zenon
      <4> QED
        BY <1>1, <1>3, <4>3 DEF HandOf, Putting3, Whither
    <3>2. Whither(ret[p], "user") = ret[p] /\ ret[p] \notin Putting3 /\ ret[p] \notin {"ialloc_iget", "create_new"}
          /\ ret[p] \notin {"free", "drop"}
      BY <3>1 DEF Whither, Returns, Putting3
    <3>3. CASE ret[p] = "user"
      BY <1>1, <1>3, <3>1, <3>2, <3>3 DEF HandOf, HasIp, HasDp, HasOld, HasRest
    <3>4. CASE ret[p] # "user"
      <4>1. c = call[p] /\ r = rest[p]
        BY <2>1, <3>4
      <4> QED
        BY <1>1, <1>3, <3>1, <3>2, <4>1 DEF HandOf
    <3> QED
      BY <3>3, <3>4
  <2>5. Running'
    BY <1>1, <1>4, <1>7, <2>1, <2>3, <2>4, CallStep
  <2> QED
    BY <1>4, <2>5 DEF Keeps
<1> QED
  BY <1>8, <1>9

-----------------------------------------------------------------------------
(* Writes to the disk *)

LEMMA NoEntriesIs == NoEntries \in [Names \cup Dots -> 0..NInodes] /\ \A x \in Names \cup Dots : NoEntries[x] = 0
  BY FileSysAssumption DEF NoEntries

\* The inode of s is freed: no other entry has it.
LEMMA GoodFreed ==
    ASSUME Running, Good(icache, dinode), NEW s \in Slots, icache[s].ref > 0, NEW r, NEW d,
           r = [type |-> "none", nlink |-> 0, ents |-> NoEntries],
           d = [dinode EXCEPT ![icache[s].inum] = r]
    PROVE  /\ Good(Freed(s), d) /\ Typed(Freed(s))
           /\ r.type = "none" /\ r.nlink = 0 /\ r.ents = NoEntries
           /\ d[icache[s].inum] = r /\ icache[s].inum \in Inums
           /\ \A n \in Inums : n # icache[s].inum => d[n] = dinode[n]
           /\ \A x \in Slots : x # s => Freed(s)[x] = icache[x]
           /\ Freed(s)[s].ref = icache[s].ref /\ Freed(s)[s].inum = icache[s].inum
           /\ Freed(s)[s].valid = FALSE /\ Freed(s)[s].owner = NoProc
<1>1. /\ icache \in [Slots -> InodeRec] /\ icache[s] \in InodeRec /\ icache[s].inum \in Inums
      /\ dinode \in [Inums -> DinodeRec]
  BY DEF Good, Numbered
<1>2. PICK i : i = [icache[s] EXCEPT !.type = "none", !.nlink = 0, !.valid = FALSE, !.owner = NoProc]
  OBVIOUS
<1>3. i.type = "none" /\ i.nlink = 0 /\ i.valid = FALSE /\ i.owner = NoProc /\ i.ref = icache[s].ref /\ i.inum = icache[s].inum
  BY <1>1, <1>2 DEF InodeRec
<1>4. i \in InodeRec
  <2>1. "none" \in Kinds /\ 0 \in Int /\ NoProc \in Procs \cup {NoProc}
    BY DEF Kinds
  <2>2. i = [ref |-> icache[s].ref, inum |-> icache[s].inum, valid |-> FALSE, type |-> "none", nlink |-> 0, owner |-> NoProc]
    BY <1>1, <1>2 DEF InodeRec
  <2>3. icache[s].ref \in Nat /\ icache[s].inum \in 0..NInodes
    BY <1>1 DEF InodeRec
  <2> QED
    BY <2>1, <2>2, <2>3 DEF InodeRec
<1>5. PICK e : e = Freed(s)
  OBVIOUS
<1>6. e = [icache EXCEPT ![s] = i]
  BY <1>1, <1>2, <1>5 DEF Freed, InodeRec
<1>7. e \in [Slots -> InodeRec] /\ e[s] = i /\ \A x \in Slots : x # s => e[x] = icache[x]
  BY <1>1, <1>4, <1>6
<1>8. r \in DinodeRec /\ r.type = "none" /\ r.nlink = 0 /\ r.ents = NoEntries
  BY NoEntriesIs DEF DinodeRec, Kinds
<1>9. d \in [Inums -> DinodeRec] /\ d[icache[s].inum] = r /\ \A n \in Inums : n # icache[s].inum => d[n] = dinode[n]
  BY <1>1, <1>8
<1>10. Numbered(e) /\ Unique(e)
  BY <1>3, <1>7 DEF Good, Numbered, Unique
<1>11. Agrees(e, d) /\ Typed(e)
  <2> SUFFICES ASSUME NEW x \in Slots, e[x].ref > 0, e[x].valid
               PROVE  /\ e[x].type = d[e[x].inum].type /\ e[x].nlink = d[e[x].inum].nlink
                      /\ e[x].type # "none"
    BY DEF Agrees, Typed
  <2>1. x # s /\ e[x] = icache[x]
    BY <1>3, <1>7
  <2>2. icache[x].inum # icache[s].inum /\ icache[x].inum \in Inums
    BY <2>1 DEF Good, Unique, Numbered
  <2>3. icache[x].type = dinode[icache[x].inum].type /\ icache[x].nlink = dinode[icache[x].inum].nlink
        /\ icache[x].type # "none"
    BY <2>1 DEF Good, Agrees, Running, Typed
  <2> QED
    BY <1>9, <2>1, <2>2, <2>3
<1>12. Good(e, d)
  BY <1>7, <1>9, <1>10, <1>11 DEF Good
<1> QED
  BY <1>1, <1>3, <1>5, <1>7, <1>8, <1>9, <1>11, <1>12

LEMMA FreesKeeps ==
    ASSUME Running, Good(icache, dinode), panicked = "no", NEW p \in Procs, Frees(p)
    PROVE  Keeps
<1>1. /\ pc[p] = "free" /\ UNCHANGED <<files, panicked>> /\ icache' = Freed(Put1(p))
      /\ dinode' = [dinode EXCEPT ![icache[Put1(p)].inum] = [type |-> "none", nlink |-> 0, ents |-> NoEntries]]
      /\ Sets(p, "drop", ret[p], call[p], rest[p], ip[p], dp[p], old[p], inum[p], puts[p])
  BY DEF Frees
<1>2. Len(puts[p]) \in 1..2
  BY <1>1, FirstPut DEF Putting3
<1>3. /\ ValuesOK(pc[p], ret[p], call[p], rest[p], ip[p], dp[p], old[p], inum[p], puts[p])
      /\ HandOf(pc[p], ret[p], call[p], rest[p], ip[p], dp[p], old[p], inum[p], puts[p])
      /\ Put1(p) \in Slots /\ icache[Put1(p)].ref > 0
  BY <1>2, ValuesNow
<1>4. /\ Good(icache', dinode') /\ Typed(icache')
      /\ \A x \in Slots : icache'[x].ref = icache[x].ref
  BY <1>1, <1>3, GoodFreed
<1>5. ValuesOK("drop", ret[p], call[p], rest[p], ip[p], dp[p], old[p], inum[p], puts[p])
  BY <1>3 DEF ValuesOK, Labels
<1>6. HandOf("drop", ret[p], call[p], rest[p], ip[p], dp[p], old[p], inum[p], puts[p])
  BY <1>1, <1>3 DEF HandOf, Whither, Putting3, Returns
<1>7. UNCHANGED files /\ Sets(p, "drop", ret[p], call[p], rest[p], ip[p], dp[p], old[p], inum[p], puts[p])
  BY <1>1
<1>8. Running'
  BY <1>4, <1>5, <1>6, <1>7, CallStep
<1> QED
  BY <1>4, <1>8 DEF Keeps

\* ialloc takes an inode that no entry has read.
LEMMA IallocFacts ==
    ASSUME Good(icache, dinode), Running, NEW p \in Procs, FreeInodes # {}, NEW r, NEW d,
           r = [type |-> NewType(p), nlink |-> 0, ents |-> NoEntries],
           d = [dinode EXCEPT ![Least(FreeInodes)] = r]
    PROVE  /\ Least(FreeInodes) \in Inums /\ dinode[Least(FreeInodes)].type = "none"
           /\ r.type = NewType(p) /\ r.nlink = 0 /\ r.ents = NoEntries
           /\ d[Least(FreeInodes)] = r
           /\ \A n \in Inums : n # Least(FreeInodes) => d[n] = dinode[n]
           /\ Good(icache, d)
           /\ \A x \in Slots : icache[x].ref > 0 /\ icache[x].inum = Least(FreeInodes) => ~icache[x].valid
<1>1. PICK m : m = Least(FreeInodes)
  OBVIOUS
<1>2. FreeInodes \in SUBSET Nat
  BY DEF FreeInodes, Inums
<1>3. m \in Inums /\ dinode[m].type = "none"
  BY <1>1, <1>2, LeastIn DEF FreeInodes
<1>4. r \in DinodeRec /\ r.type = NewType(p) /\ r.nlink = 0 /\ r.ents = NoEntries
  BY NoEntriesIs DEF DinodeRec, Kinds, NewType
<1>5. d \in [Inums -> DinodeRec] /\ d[m] = r /\ \A n \in Inums : n # m => d[n] = dinode[n]
  BY <1>1, <1>3, <1>4 DEF Good
<1>6. \A x \in Slots : icache[x].ref > 0 /\ icache[x].inum = m => ~icache[x].valid
  BY <1>3 DEF Good, Agrees, Running, Typed
<1>7. Agrees(icache, d)
  BY <1>5, <1>6 DEF Good, Agrees, Numbered
<1>8. Good(icache, d)
  BY <1>5, <1>7 DEF Good
<1> QED
  BY <1>1, <1>3, <1>4, <1>5, <1>6, <1>8

LEMMA IallocTakesKeeps ==
    ASSUME Running, Good(icache, dinode), panicked = "no", NEW p \in Procs, IallocTakes(p)
    PROVE  Keeps
<1>1. PICK m : /\ m = Least(FreeInodes) /\ pc[p] = "ialloc" /\ FreeInodes # {}
               /\ UNCHANGED <<icache, files, panicked>>
               /\ dinode' = [dinode EXCEPT ![Least(FreeInodes)] = [type |-> NewType(p), nlink |-> 0, ents |-> NoEntries]]
               /\ Sets(p, "ialloc_iget", ret[p], call[p], rest[p], ip[p], dp[p], old[p], m, puts[p])
  BY DEF IallocTakes
<1>2. /\ dp[p] \in Slots /\ ip[p] = 0 /\ old[p] = 0 /\ Len(puts[p]) = 0 /\ rest[p] # <<>>
      /\ ValuesOK(pc[p], ret[p], call[p], rest[p], ip[p], dp[p], old[p], inum[p], puts[p])
  BY <1>1, NotPutting DEF Putting3, HasIp, HasDp, HasOld, HasRest
<1>3. Good(icache', dinode') /\ m \in Inums
  BY <1>1, IallocFacts
<1>4. Typed(icache') /\ \A x \in Slots : icache'[x].ref = icache[x].ref
  BY <1>1 DEF Running
<1>5. m \in 0..NInodes /\ m # 0
  BY <1>3, FileSysAssumption DEF Inums
<1>6. ValuesOK("ialloc_iget", ret[p], call[p], rest[p], ip[p], dp[p], old[p], m, puts[p])
  BY <1>2, <1>5 DEF ValuesOK, Labels
<1>7. HandOf("ialloc_iget", ret[p], call[p], rest[p], ip[p], dp[p], old[p], m, puts[p])
  BY <1>2, <1>5 DEF HandOf, Whither, Putting3, Returns, HasIp, HasDp, HasOld, HasRest, Slots
<1>8. UNCHANGED files /\ Sets(p, "ialloc_iget", ret[p], call[p], rest[p], ip[p], dp[p], old[p], m, puts[p])
  BY <1>1
<1>9. Running'
  BY <1>3, <1>4, <1>6, <1>7, <1>8, CallStep
<1> QED
  BY <1>3, <1>9 DEF Keeps

\* The cache and the disk after iupdate of an entry with a new count of links.
SetNlink(f, x, v) == [f EXCEPT ![x].nlink = v]

LEMMA SetNlinkFacts ==
    ASSUME NEW c, NEW d, c \in [Slots -> InodeRec], d \in [Inums -> DinodeRec],
           NEW s \in Slots, NEW n \in Inums, NEW v \in Int
    PROVE  /\ SetNlink(c, s, v) \in [Slots -> InodeRec] /\ SetNlink(d, n, v) \in [Inums -> DinodeRec]
           /\ SetNlink(c, s, v)[s].nlink = v
           /\ \A x \in Slots : /\ SetNlink(c, s, v)[x].ref = c[x].ref /\ SetNlink(c, s, v)[x].inum = c[x].inum
                               /\ SetNlink(c, s, v)[x].valid = c[x].valid /\ SetNlink(c, s, v)[x].type = c[x].type
                               /\ SetNlink(c, s, v)[x].owner = c[x].owner
                               /\ x # s => SetNlink(c, s, v)[x] = c[x]
           /\ SetNlink(d, n, v)[n].nlink = v
           /\ \A m \in Inums : /\ SetNlink(d, n, v)[m].type = d[m].type /\ SetNlink(d, n, v)[m].ents = d[m].ents
                               /\ m # n => SetNlink(d, n, v)[m] = d[m]
<1>1. c[s] \in InodeRec /\ d[n] \in DinodeRec
  OBVIOUS
<1>2. PICK i : i = [c[s] EXCEPT !.nlink = v]
  OBVIOUS
<1>3. /\ i \in InodeRec /\ i.nlink = v /\ i.ref = c[s].ref /\ i.inum = c[s].inum /\ i.valid = c[s].valid
      /\ i.type = c[s].type /\ i.owner = c[s].owner
  BY <1>1, <1>2 DEF InodeRec
<1>4. PICK e : e = SetNlink(c, s, v)
  OBVIOUS
<1>5. e \in [Slots -> InodeRec] /\ e[s] = i /\ \A x \in Slots : x # s => e[x] = c[x]
  BY <1>2, <1>3, <1>4 DEF SetNlink
<1>6. PICK j : j = [d[n] EXCEPT !.nlink = v]
  OBVIOUS
<1>7. j \in DinodeRec /\ j.nlink = v /\ j.type = d[n].type /\ j.ents = d[n].ents
  BY <1>1, <1>6 DEF DinodeRec
<1>8. PICK g : g = SetNlink(d, n, v)
  OBVIOUS
<1>9. g \in [Inums -> DinodeRec] /\ g[n] = j /\ \A m \in Inums : m # n => g[m] = d[m]
  BY <1>6, <1>7, <1>8 DEF SetNlink
<1> QED
  BY <1>3, <1>4, <1>5, <1>7, <1>8, <1>9

LEMMA WriteNlink ==
    ASSUME NEW c, NEW d, Good(c, d), NEW s \in Slots, c[s].ref > 0, NEW v \in Int
    PROVE  Good(SetNlink(c, s, v), SetNlink(d, c[s].inum, v)) /\ (Typed(c) => Typed(SetNlink(c, s, v)))
<1>1. c \in [Slots -> InodeRec] /\ c[s].inum \in Inums /\ d \in [Inums -> DinodeRec]
  BY DEF Good, Numbered
<1>2. PICK e, g : e = SetNlink(c, s, v) /\ g = SetNlink(d, c[s].inum, v)
  OBVIOUS
<1>3. /\ e \in [Slots -> InodeRec] /\ g \in [Inums -> DinodeRec] /\ e[s].nlink = v /\ g[c[s].inum].nlink = v
      /\ \A x \in Slots : /\ e[x].ref = c[x].ref /\ e[x].inum = c[x].inum
                          /\ e[x].valid = c[x].valid /\ e[x].type = c[x].type
                          /\ x # s => e[x] = c[x]
      /\ \A m \in Inums : g[m].type = d[m].type /\ (m # c[s].inum => g[m] = d[m])
  BY <1>1, <1>2, SetNlinkFacts
<1>4. /\ \A x \in Slots : /\ e[x].ref = c[x].ref /\ e[x].inum = c[x].inum
                          /\ e[x].valid = c[x].valid /\ e[x].type = c[x].type
      /\ \A x \in Slots : x # s => e[x].nlink = c[x].nlink
      /\ \A m \in Inums : g[m].type = d[m].type /\ (m # c[s].inum => g[m].nlink = d[m].nlink)
  BY <1>3
<1>5. Good(e, g) /\ (Typed(c) => Typed(e))
  BY <1>3, <1>4, GoodNlink
<1> QED
  BY <1>2, <1>5

\* ... after ilock.
LEMMA LocksNlink ==
    ASSUME Running, Good(icache, dinode), NEW s \in Slots, icache[s].ref > 0, Locks(s), NEW v \in Int,
           icache' = SetNlink(Locked(s), s, v),
           dinode' = SetNlink(dinode, icache[s].inum, v)
    PROVE  /\ Good(icache', dinode') /\ (panicked' = "no" => Typed(icache')) /\ icache[s].inum \in Inums
           /\ icache'[s].nlink = v /\ icache'[s].valid = TRUE
           /\ icache'[s].type = dinode[icache[s].inum].type
           /\ \A x \in Slots : /\ icache'[x].ref = icache[x].ref /\ icache'[x].inum = icache[x].inum
                               /\ icache'[x].owner = icache[x].owner
                               /\ x # s => icache'[x] = icache[x]
           /\ dinode'[icache[s].inum].nlink = v
           /\ \A m \in Inums : /\ dinode'[m].type = dinode[m].type /\ dinode'[m].ents = dinode[m].ents
                               /\ m # icache[s].inum => dinode'[m] = dinode[m]
<1>1. PICK c : c = Locked(s)
  OBVIOUS
<1>2. /\ Good(c, dinode) /\ (panicked' = "no" => Typed(c)) /\ c[s] = Read(s)
      /\ \A x \in Slots : x # s => c[x] = icache[x]
      /\ \A x \in Slots : c[x].ref = icache[x].ref /\ c[x].inum = icache[x].inum /\ c[x].owner = icache[x].owner
  BY <1>1, LocksFacts
<1>3. Read(s).valid = TRUE /\ Read(s).type = dinode[icache[s].inum].type
  BY ReadFacts
<1>4. PICK n \in Inums : n = c[s].inum /\ n = icache[s].inum
  BY <1>2 DEF Good, Numbered
<1>5. c \in [Slots -> InodeRec] /\ dinode \in [Inums -> DinodeRec] /\ c[s].ref > 0
  BY <1>2 DEF Good
<1>6. icache' = SetNlink(c, s, v) /\ dinode' = SetNlink(dinode, n, v) /\ dinode' = SetNlink(dinode, c[s].inum, v)
  BY <1>1, <1>4
<1>7. Good(icache', dinode') /\ (Typed(c) => Typed(icache'))
  BY <1>2, <1>5, <1>6, WriteNlink
<1>8. /\ icache'[s].nlink = v
      /\ \A x \in Slots : /\ icache'[x].ref = c[x].ref /\ icache'[x].inum = c[x].inum /\ icache'[x].valid = c[x].valid
                          /\ icache'[x].type = c[x].type /\ icache'[x].owner = c[x].owner
                          /\ x # s => icache'[x] = c[x]
      /\ dinode'[n].nlink = v
      /\ \A m \in Inums : /\ dinode'[m].type = dinode[m].type /\ dinode'[m].ents = dinode[m].ents
                          /\ m # n => dinode'[m] = dinode[m]
  <2>1. /\ SetNlink(c, s, v)[s].nlink = v
        /\ \A x \in Slots : /\ SetNlink(c, s, v)[x].ref = c[x].ref /\ SetNlink(c, s, v)[x].inum = c[x].inum
                            /\ SetNlink(c, s, v)[x].valid = c[x].valid /\ SetNlink(c, s, v)[x].type = c[x].type
                            /\ SetNlink(c, s, v)[x].owner = c[x].owner
                            /\ x # s => SetNlink(c, s, v)[x] = c[x]
        /\ SetNlink(dinode, n, v)[n].nlink = v
        /\ \A m \in Inums : /\ SetNlink(dinode, n, v)[m].type = dinode[m].type
                            /\ SetNlink(dinode, n, v)[m].ents = dinode[m].ents
                            /\ m # n => SetNlink(dinode, n, v)[m] = dinode[m]
    BY <1>5, SetNlinkFacts
  <2> QED
    BY <1>6, <2>1
<1> QED
  BY <1>2, <1>3, <1>4, <1>7, <1>8

LEMMA LinkCountsKeeps ==
    ASSUME Running, Good(icache, dinode), panicked = "no", NEW p \in Procs, LinkCounts(p)
    PROVE  Keeps
<1>1. PICK v : /\ v = Read(ip[p]).nlink + 1 /\ pc[p] = "link" /\ Locks(ip[p])
               /\ icache' = SetNlink(Locked(ip[p]), ip[p], v)
               /\ dinode' = SetNlink(dinode, icache[ip[p]].inum, v)
               /\ UNCHANGED files
               /\ Sets(p, "link_walk", ret[p], call[p], rest[p], 0, dp[p], ip[p], inum[p], puts[p])
  BY DEF LinkCounts, SetNlink
<1>2. /\ ip[p] \in Slots /\ icache[ip[p]].ref > 0 /\ dp[p] = 0 /\ old[p] = 0 /\ inum[p] = 0 /\ Op(p) = "link"
      /\ First(puts[p]) = 0 /\ Second(puts[p]) = 0 /\ Len(puts[p]) = 0
      /\ ValuesOK(pc[p], ret[p], call[p], rest[p], ip[p], dp[p], old[p], inum[p], puts[p])
  BY <1>1, NotPutting DEF Putting3, HasIp, HasDp, HasOld
<1>3. v \in Int
  <2>1. Read(ip[p]) \in InodeRec
    BY <1>2, ReadFacts
  <2> QED
    BY <1>1, <2>1 DEF InodeRec
<1>4. /\ Good(icache', dinode') /\ (panicked' = "no" => Typed(icache'))
      /\ \A x \in Slots : icache'[x].ref = icache[x].ref
  BY <1>1, <1>2, <1>3, LocksNlink
<1>5. ValuesOK("link_walk", ret[p], call[p], rest[p], 0, dp[p], ip[p], inum[p], puts[p])
  BY <1>2 DEF ValuesOK, Labels
<1>6. HandOf("link_walk", ret[p], call[p], rest[p], 0, dp[p], ip[p], inum[p], puts[p])
  BY <1>2 DEF HandOf, Whither, Putting3, Returns, HasIp, HasDp, HasOld, HasRest, Slots, Op
<1>7. \A x \in Slots : Points(ip[p], dp[p], old[p], puts[p], x) = Points(0, dp[p], ip[p], puts[p], x)
  BY <1>2 DEF Points, Is, Slots
<1>8. UNCHANGED files /\ Sets(p, "link_walk", ret[p], call[p], rest[p], 0, dp[p], ip[p], inum[p], puts[p])
  BY <1>1
<1>9. panicked' = "no" => Running'
  BY <1>4, <1>5, <1>6, <1>7, <1>8, CallStep
<1> QED
  BY <1>4, <1>9 DEF Keeps

LEMMA LinkUndoesKeeps ==
    ASSUME Running, Good(icache, dinode), panicked = "no", NEW p \in Procs, LinkUndoes(p)
    PROVE  Keeps
<1>1. PICK v : /\ v = Read(old[p]).nlink - 1 /\ pc[p] = "link_undo" /\ Locks(old[p])
               /\ icache' = SetNlink(Locked(old[p]), old[p], v)
               /\ dinode' = SetNlink(dinode, icache[old[p]].inum, v)
               /\ UNCHANGED files
               /\ Sets(p, "put", "user", call[p], rest[p], ip[p], dp[p], 0, inum[p], <<Put(old[p])>>)
  BY DEF LinkUndoes, SetNlink
<1>2. /\ old[p] \in Slots /\ icache[old[p]].ref > 0 /\ dp[p] = 0 /\ ip[p] = 0 /\ inum[p] = 0
      /\ First(puts[p]) = 0 /\ Second(puts[p]) = 0
      /\ ValuesOK(pc[p], ret[p], call[p], rest[p], ip[p], dp[p], old[p], inum[p], puts[p])
  BY <1>1, NotPutting DEF Putting3, HasIp, HasDp, HasOld
<1>3. v \in Int
  <2>1. Read(old[p]) \in InodeRec
    BY <1>2, ReadFacts
  <2> QED
    BY <1>1, <2>1 DEF InodeRec
<1>4. /\ Good(icache', dinode') /\ (panicked' = "no" => Typed(icache'))
      /\ \A x \in Slots : icache'[x].ref = icache[x].ref
  BY <1>1, <1>2, <1>3, LocksNlink
<1>5. PICK u \in Seq(PutRec) : u = <<Put(old[p])>> /\ Len(u) = 1 /\ First(u) = old[p] /\ Second(u) = 0 /\ ~u[1].held
  BY <1>2, PutOne
<1>6. ValuesOK("put", "user", call[p], rest[p], ip[p], dp[p], 0, inum[p], u)
  BY <1>2 DEF ValuesOK, Labels
<1>7. HandOf("put", "user", call[p], rest[p], ip[p], dp[p], 0, inum[p], u)
  BY <1>2, <1>5 DEF HandOf, Whither, Putting3, Returns, HasIp, HasDp, HasOld, HasRest
<1>8. \A x \in Slots : Points(ip[p], dp[p], old[p], puts[p], x) = Points(ip[p], dp[p], 0, u, x)
  BY <1>2, <1>5 DEF Points, Is, Slots
<1>9. UNCHANGED files /\ Sets(p, "put", "user", call[p], rest[p], ip[p], dp[p], 0, inum[p], u)
  BY <1>1, <1>5
<1>10. panicked' = "no" => Running'
  BY <1>4, <1>6, <1>7, <1>8, <1>9, CallStep
<1> QED
  BY <1>4, <1>10 DEF Keeps

LEMMA UnlinkDecsKeeps ==
    ASSUME Running, Good(icache, dinode), panicked = "no", NEW p \in Procs, UnlinkDecs(p)
    PROVE  Keeps
<1>1. PICK v : /\ v = icache[ip[p]].nlink - 1 /\ pc[p] = "unlink_dec" /\ UNCHANGED <<files, panicked>>
               /\ icache' = SetNlink(icache, ip[p], v) /\ dinode' = SetNlink(dinode, icache[ip[p]].inum, v)
               /\ Sets(p, "put", "user", call[p], rest[p], 0, dp[p], old[p], inum[p], <<UnlockPut(ip[p])>>)
  BY DEF UnlinkDecs, SetNlink
<1>2. /\ ip[p] \in Slots /\ icache[ip[p]].ref > 0 /\ dp[p] = 0 /\ old[p] = 0 /\ inum[p] = 0
      /\ First(puts[p]) = 0 /\ Second(puts[p]) = 0
      /\ ValuesOK(pc[p], ret[p], call[p], rest[p], ip[p], dp[p], old[p], inum[p], puts[p])
  BY <1>1, NotPutting DEF Putting3, HasIp, HasDp, HasOld
<1>3. v \in Int
  BY <1>1, <1>2 DEF Good, InodeRec
<1>4. SetNlink(icache, ip[p], v)[ip[p]].nlink = v /\ \A x \in Slots : SetNlink(icache, ip[p], v)[x].ref = icache[x].ref
  BY <1>2, <1>3, SetNlinkFacts DEF Good, Numbered
<1>5. /\ Good(icache', dinode') /\ Typed(icache')
      /\ \A x \in Slots : icache'[x].ref = icache[x].ref
  BY <1>1, <1>2, <1>3, <1>4, WriteNlink DEF Running
<1>6. PICK u \in Seq(PutRec) : u = <<UnlockPut(ip[p])>> /\ Len(u) = 1 /\ First(u) = ip[p] /\ Second(u) = 0 /\ u[1].held
  BY <1>2, PutOne
<1>7. ValuesOK("put", "user", call[p], rest[p], 0, dp[p], old[p], inum[p], u)
  BY <1>2 DEF ValuesOK, Labels
<1>8. HandOf("put", "user", call[p], rest[p], 0, dp[p], old[p], inum[p], u)
  BY <1>2, <1>6 DEF HandOf, Whither, Putting3, Returns, HasIp, HasDp, HasOld, HasRest
<1>9. \A x \in Slots : Points(ip[p], dp[p], old[p], puts[p], x) = Points(0, dp[p], old[p], u, x)
  BY <1>2, <1>6 DEF Points, Is, Slots
<1>10. UNCHANGED files /\ Sets(p, "put", "user", call[p], rest[p], 0, dp[p], old[p], inum[p], u)
  BY <1>1, <1>6
<1>11. Running'
  BY <1>5, <1>7, <1>8, <1>9, <1>10, CallStep
<1> QED
  BY <1>5, <1>11 DEF Keeps

\* Directories that get another entry, or other entries.
SetEntry(d, m, x, n) == [d EXCEPT ![m].ents[x] = n]
SetEnts(d, m, t) == [d EXCEPT ![m].ents = t]

LEMMA SetEntryFacts ==
    ASSUME NEW d, d \in [Inums -> DinodeRec], NEW m \in Inums, NEW x \in Names \cup Dots, NEW n \in 0..NInodes
    PROVE  /\ SetEntry(d, m, x, n) \in [Inums -> DinodeRec]
           /\ SetEntry(d, m, x, n)[m].ents[x] = n
           /\ \A k \in Inums : /\ SetEntry(d, m, x, n)[k].type = d[k].type
                               /\ SetEntry(d, m, x, n)[k].nlink = d[k].nlink
                               /\ k # m => SetEntry(d, m, x, n)[k] = d[k]
                               /\ \A y \in Names \cup Dots : k # m \/ y # x =>
                                       SetEntry(d, m, x, n)[k].ents[y] = d[k].ents[y]
<1>1. d[m] \in DinodeRec /\ d[m].ents \in [Names \cup Dots -> 0..NInodes]
  BY DEF DinodeRec
<1>2. PICK t : t = [d[m].ents EXCEPT ![x] = n]
  OBVIOUS
<1>3. t \in [Names \cup Dots -> 0..NInodes] /\ t[x] = n /\ \A y \in Names \cup Dots : y # x => t[y] = d[m].ents[y]
  BY <1>1, <1>2
<1>4. PICK j : j = [d[m] EXCEPT !.ents = t]
  OBVIOUS
<1>5. j \in DinodeRec /\ j.ents = t /\ j.type = d[m].type /\ j.nlink = d[m].nlink
  BY <1>1, <1>3, <1>4 DEF DinodeRec
<1>6. PICK g : g = SetEntry(d, m, x, n)
  OBVIOUS
<1>7. g = [d EXCEPT ![m] = j]
  BY <1>2, <1>4, <1>6 DEF SetEntry
<1>8. g \in [Inums -> DinodeRec] /\ g[m] = j /\ \A k \in Inums : k # m => g[k] = d[k]
  BY <1>5, <1>7
<1>9. \A k \in Inums : g[k].type = d[k].type /\ g[k].nlink = d[k].nlink
  BY <1>5, <1>8
<1>10. \A k \in Inums : \A y \in Names \cup Dots : k # m \/ y # x => g[k].ents[y] = d[k].ents[y]
  BY <1>3, <1>5, <1>8
<1> QED
  BY <1>3, <1>5, <1>6, <1>8, <1>9, <1>10

LEMMA SetEntsFacts ==
    ASSUME NEW d, d \in [Inums -> DinodeRec], NEW m \in Inums, NEW t \in [Names \cup Dots -> 0..NInodes]
    PROVE  /\ SetEnts(d, m, t) \in [Inums -> DinodeRec]
           /\ SetEnts(d, m, t)[m].ents = t
           /\ \A k \in Inums : /\ SetEnts(d, m, t)[k].type = d[k].type
                               /\ SetEnts(d, m, t)[k].nlink = d[k].nlink
                               /\ k # m => SetEnts(d, m, t)[k] = d[k]
<1>1. d[m] \in DinodeRec
  OBVIOUS
<1>2. PICK j : j = [d[m] EXCEPT !.ents = t]
  OBVIOUS
<1>3. j \in DinodeRec /\ j.ents = t /\ j.type = d[m].type /\ j.nlink = d[m].nlink
  BY <1>1, <1>2 DEF DinodeRec
<1>4. PICK g : g = SetEnts(d, m, t)
  OBVIOUS
<1>5. g \in [Inums -> DinodeRec] /\ g[m] = j /\ \A k \in Inums : k # m => g[k] = d[k]
  BY <1>2, <1>3, <1>4 DEF SetEnts
<1> QED
  BY <1>3, <1>4, <1>5

\* The cache knows nothing of entries.
LEMMA GoodEntries ==
    ASSUME NEW c, NEW d, Good(c, d), NEW g, g \in [Inums -> DinodeRec],
           \A m \in Inums : g[m].type = d[m].type /\ g[m].nlink = d[m].nlink
    PROVE  Good(c, g)
  BY DEF Good, Numbered, Agrees

LEMMA LinkNamesKeeps ==
    ASSUME Running, Good(icache, dinode), panicked = "no", NEW p \in Procs, LinkNames(p)
    PROVE  Keeps
<1>1. PICK x, n : /\ x = Head(rest[p]) /\ n = icache[old[p]].inum
                  /\ pc[p] = "link_new" /\ Locks(dp[p]) /\ icache' = Locked(dp[p]) /\ UNCHANGED files
                  /\ dinode' = SetEntry(dinode, icache[dp[p]].inum, x, n)
                  /\ Sets(p, "put", "user", call[p], rest[p], ip[p], 0, 0, inum[p], <<Put(dp[p]), Put(old[p])>>)
  BY DEF LinkNames, SetEntry
<1>2. /\ dp[p] \in Slots /\ icache[dp[p]].ref > 0 /\ icache[dp[p]].inum \in Inums
      /\ old[p] \in Slots /\ n \in Inums
      /\ ip[p] = 0 /\ inum[p] = 0
      /\ First(puts[p]) = 0 /\ Second(puts[p]) = 0 /\ x \in Names \cup Dots
      /\ ValuesOK(pc[p], ret[p], call[p], rest[p], ip[p], dp[p], old[p], inum[p], puts[p])
  BY <1>1, NotPutting DEF Putting3, HasIp, HasDp, HasOld, HasRest
<1>3. /\ Good(icache', dinode) /\ (panicked' = "no" => Typed(icache'))
      /\ \A y \in Slots : icache'[y].ref = icache[y].ref
  BY <1>1, <1>2, LocksFacts
<1>4. n \in 0..NInodes /\ dinode \in [Inums -> DinodeRec]
  BY <1>2, FileSysAssumption DEF Inums, Good
<1>5. /\ dinode' \in [Inums -> DinodeRec]
      /\ \A k \in Inums : dinode'[k].type = dinode[k].type /\ dinode'[k].nlink = dinode[k].nlink
  BY <1>1, <1>2, <1>4, SetEntryFacts
<1>6. Good(icache', dinode')
  BY <1>3, <1>5, GoodEntries
<1>7. PICK a \in PutRec, b \in PutRec : a = Put(dp[p]) /\ b = Put(old[p]) /\ a.slot = dp[p] /\ b.slot = old[p]
  BY <1>2, PutIs
<1>8. PICK u \in Seq(PutRec) : u = <<a, b>> /\ Len(u) = 2 /\ First(u) = a.slot /\ Second(u) = b.slot
                               /\ u[1] = a /\ u[2] = b
  BY TwoOf
<1>9. ValuesOK("put", "user", call[p], rest[p], ip[p], 0, 0, inum[p], u)
  BY <1>2 DEF ValuesOK, Labels
<1>10. HandOf("put", "user", call[p], rest[p], ip[p], 0, 0, inum[p], u)
  BY <1>2, <1>8 DEF HandOf, Whither, Putting3, Returns, HasIp, HasDp, HasOld, HasRest
<1>11. \A y \in Slots : Points(ip[p], dp[p], old[p], puts[p], y) = Points(ip[p], 0, 0, u, y)
  BY <1>2, <1>7, <1>8 DEF Points, Is, Slots
<1>12. UNCHANGED files /\ Sets(p, "put", "user", call[p], rest[p], ip[p], 0, 0, inum[p], u)
  BY <1>1, <1>7, <1>8
<1>13. panicked' = "no" => Running'
  BY <1>3, <1>6, <1>9, <1>10, <1>11, <1>12, CallStep
<1> QED
  BY <1>6, <1>13 DEF Keeps

\* unlink's writes: the parent loses an entry and, with a directory, a link.
LEMMA UnlinkWrites ==
    ASSUME Running, Good(icache, dinode), panicked = "no", NEW p \in Procs, UnlinkErases(p)
    PROVE  /\ Good(icache', dinode') /\ (panicked' = "no" => Typed(icache'))
           /\ Down(p) \in Int /\ icache[dp[p]].inum \in Inums /\ Head(rest[p]) \in Names \cup Dots
           /\ \A x \in Slots : /\ icache'[x].ref = icache[x].ref /\ icache'[x].inum = icache[x].inum
                               /\ icache'[x].owner = IF x = ip[p] THEN p ELSE icache[x].owner
                               /\ icache'[x].valid = (x = ip[p] \/ icache[x].valid)
           /\ \A k \in Inums : /\ dinode'[k].type = dinode[k].type
                               /\ dinode'[k].nlink = IF k = icache[dp[p]].inum THEN Down(p) ELSE dinode[k].nlink
                               /\ \A y \in Names \cup Dots :
                                    dinode'[k].ents[y] = IF k = icache[dp[p]].inum /\ y = Head(rest[p]) THEN 0
                                                         ELSE dinode[k].ents[y]
<1>1. PICK s, d, m, x, v :
         /\ s = ip[p] /\ d = dp[p] /\ m = icache[dp[p]].inum /\ x = Head(rest[p]) /\ v = Down(p)
         /\ pc[p] = "unlink_ip" /\ Locks(s) /\ icache' = SetNlink(Hold(Locked(s), p, s), d, v)
         /\ dinode' = SetEntry(SetNlink(dinode, m, v), m, x, 0)
  BY DEF UnlinkErases, SetNlink, SetEntry
<1>2. /\ s \in Slots /\ icache[s].ref > 0 /\ d \in Slots /\ icache[d].ref > 0 /\ m \in Inums /\ x \in Names \cup Dots
  BY <1>1, NotPutting DEF Putting3, HasIp, HasDp, HasRest
<1>3. v \in Int
  <2>1. icache[d] \in InodeRec
    BY <1>2 DEF Good
  <2>2. icache[d].nlink \in Int
    BY <2>1 DEF InodeRec
  <2> QED
    BY <1>1, <2>2 DEF Down
<1>4. PICK c : c = Locked(s)
  OBVIOUS
<1>5. /\ Good(c, dinode) /\ (panicked' = "no" => Typed(c)) /\ c[s] = Read(s) /\ Read(s).valid = TRUE
      /\ \A y \in Slots : y # s => c[y] = icache[y]
      /\ \A y \in Slots : c[y].ref = icache[y].ref /\ c[y].inum = icache[y].inum /\ c[y].owner = icache[y].owner
  BY <1>1, <1>2, <1>4, LocksFacts, ReadFacts
<1>6. PICK h : h = Hold(c, p, s)
  OBVIOUS
<1>7. /\ Good(h, dinode) /\ (Typed(c) => Typed(h))
      /\ \A y \in Slots : /\ h[y].ref = c[y].ref /\ h[y].inum = c[y].inum /\ h[y].valid = c[y].valid
                          /\ h[y].owner = IF y = s THEN p ELSE c[y].owner
  BY <1>2, <1>5, <1>6, GoodHold
<1>8. h[d].ref > 0 /\ h[d].inum = m /\ h \in [Slots -> InodeRec] /\ dinode \in [Inums -> DinodeRec]
  BY <1>1, <1>2, <1>5, <1>7 DEF Good
<1>9. PICK g : g = SetNlink(dinode, m, v)
  OBVIOUS
<1>10. icache' = SetNlink(h, d, v) /\ dinode' = SetEntry(g, m, x, 0)
  BY <1>1, <1>4, <1>6, <1>9
<1>11. Good(icache', g) /\ (Typed(h) => Typed(icache'))
  BY <1>2, <1>3, <1>7, <1>8, <1>9, <1>10, WriteNlink
<1>12. /\ \A y \in Slots : /\ SetNlink(h, d, v)[y].ref = h[y].ref /\ SetNlink(h, d, v)[y].inum = h[y].inum
                           /\ SetNlink(h, d, v)[y].valid = h[y].valid /\ SetNlink(h, d, v)[y].owner = h[y].owner
       /\ SetNlink(dinode, m, v) \in [Inums -> DinodeRec]
       /\ SetNlink(dinode, m, v)[m].nlink = v
       /\ \A k \in Inums : /\ SetNlink(dinode, m, v)[k].type = dinode[k].type
                           /\ SetNlink(dinode, m, v)[k].ents = dinode[k].ents
                           /\ k # m => SetNlink(dinode, m, v)[k] = dinode[k]
  BY <1>2, <1>3, <1>8, SetNlinkFacts
<1>13. /\ g \in [Inums -> DinodeRec] /\ g[m].nlink = v
       /\ \A k \in Inums : g[k].type = dinode[k].type /\ g[k].ents = dinode[k].ents /\ (k # m => g[k].nlink = dinode[k].nlink)
  BY <1>9, <1>12
<1>14. 0 \in 0..NInodes
  BY FileSysAssumption
<1>15. /\ dinode' \in [Inums -> DinodeRec] /\ dinode'[m].ents[x] = 0
       /\ \A k \in Inums : /\ dinode'[k].type = g[k].type /\ dinode'[k].nlink = g[k].nlink
                           /\ \A y \in Names \cup Dots : k # m \/ y # x => dinode'[k].ents[y] = g[k].ents[y]
  BY <1>2, <1>10, <1>13, <1>14, SetEntryFacts
<1>16. Good(icache', dinode')
  BY <1>11, <1>15, GoodEntries
<1>17. \A y \in Slots : /\ icache'[y].ref = icache[y].ref /\ icache'[y].inum = icache[y].inum
                        /\ icache'[y].owner = IF y = s THEN p ELSE icache[y].owner
                        /\ icache'[y].valid = c[y].valid
  BY <1>5, <1>7, <1>10, <1>12
<1>18. \A y \in Slots : c[y].valid = (y = s \/ icache[y].valid)
  <2>1. \A y \in Slots : icache[y].valid \in BOOLEAN
    BY DEF Good, InodeRec
  <2> QED
    BY <1>5, <2>1
<1>19. \A k \in Inums : /\ dinode'[k].type = dinode[k].type
                        /\ dinode'[k].nlink = IF k = m THEN v ELSE dinode[k].nlink
                        /\ \A y \in Names \cup Dots :
                             dinode'[k].ents[y] = IF k = m /\ y = x THEN 0 ELSE dinode[k].ents[y]
  BY <1>13, <1>15
<1> QED
  BY <1>1, <1>2, <1>3, <1>5, <1>7, <1>11, <1>16, <1>17, <1>18, <1>19

LEMMA UnlinkErasesKeeps ==
    ASSUME Running, Good(icache, dinode), panicked = "no", NEW p \in Procs, UnlinkErases(p)
    PROVE  Keeps
<1>1. /\ pc[p] = "unlink_ip" /\ UNCHANGED files
      /\ Sets(p, "put", "unlink_dec", call[p], rest[p], ip[p], 0, old[p], inum[p], <<UnlockPut(dp[p])>>)
  BY DEF UnlinkErases
<1>2. /\ ip[p] \in Slots /\ dp[p] \in Slots /\ old[p] = 0 /\ inum[p] = 0
      /\ First(puts[p]) = 0 /\ Second(puts[p]) = 0
      /\ ValuesOK(pc[p], ret[p], call[p], rest[p], ip[p], dp[p], old[p], inum[p], puts[p])
  BY <1>1, NotPutting DEF Putting3, HasIp, HasDp, HasOld
<1>3. /\ Good(icache', dinode') /\ (panicked' = "no" => Typed(icache'))
      /\ \A x \in Slots : icache'[x].ref = icache[x].ref
  BY UnlinkWrites
<1>4. PICK u \in Seq(PutRec) : u = <<UnlockPut(dp[p])>> /\ Len(u) = 1 /\ First(u) = dp[p] /\ Second(u) = 0 /\ u[1].held
  BY <1>2, PutOne
<1>5. ValuesOK("put", "unlink_dec", call[p], rest[p], ip[p], 0, old[p], inum[p], u)
  BY <1>2 DEF ValuesOK, Labels
<1>6. HandOf("put", "unlink_dec", call[p], rest[p], ip[p], 0, old[p], inum[p], u)
  BY <1>2, <1>4 DEF HandOf, Whither, Putting3, Returns, HasIp, HasDp, HasOld, HasRest, Slots
<1>7. \A x \in Slots : Points(ip[p], dp[p], old[p], puts[p], x) = Points(ip[p], 0, old[p], u, x)
  BY <1>2, <1>4 DEF Points, Is, Slots
<1>8. UNCHANGED files /\ Sets(p, "put", "unlink_dec", call[p], rest[p], ip[p], 0, old[p], inum[p], u)
  BY <1>1, <1>4
<1>9. panicked' = "no" => Running'
  BY <1>3, <1>5, <1>6, <1>7, <1>8, CallStep
<1> QED
  BY <1>3, <1>9 DEF Keeps

\* create's writes: the new inode, and its name in the parent.
LEMMA NewEntsIs ==
    ASSUME NEW p, icache[ip[p]].inum \in Inums, icache[dp[p]].inum \in Inums
    PROVE  NewEnts(p) \in [Names \cup Dots -> 0..NInodes] /\ \A x \in Names : NewEnts(p)[x] = 0
<1>1. icache[ip[p]].inum \in 0..NInodes /\ icache[dp[p]].inum \in 0..NInodes
  BY FileSysAssumption DEF Inums
<1>2. Names \cap Dots = {} /\ "." \in Dots /\ ".." \in Dots
  BY FileSysAssumption DEF Dots
<1> QED
  BY <1>1, <1>2, NoEntriesIs DEF NewEnts

LEMMA CreateWritten ==
    ASSUME Running, Good(icache, dinode), panicked = "no", NEW p \in Procs, CreateWrites(p)
    PROVE  /\ Good(icache', dinode') /\ (panicked' = "no" => Typed(icache'))
           /\ Up(p) \in Int
           /\ \A x \in Slots : /\ icache'[x].ref = icache[x].ref /\ icache'[x].inum = icache[x].inum
                               /\ icache'[x].owner = IF x = ip[p] THEN p ELSE icache[x].owner
                               /\ icache'[x].valid = (x = ip[p] \/ icache[x].valid)
           /\ \A k \in Inums : /\ dinode'[k].type = dinode[k].type
                               /\ dinode'[k].nlink = IF k = icache[dp[p]].inum THEN Up(p)
                                                     ELSE IF k = icache[ip[p]].inum THEN 1 ELSE dinode[k].nlink
                               /\ \A y \in Names \cup Dots :
                                    dinode'[k].ents[y] = IF k = icache[dp[p]].inum /\ y = Head(rest[p]) THEN icache[ip[p]].inum
                                                         ELSE IF k = icache[ip[p]].inum THEN NewEnts(p)[y]
                                                         ELSE dinode[k].ents[y]
<1>1. PICK s, d, n, m, x, v, t :
         /\ s = ip[p] /\ d = dp[p] /\ n = icache[s].inum /\ m = icache[d].inum /\ x = Head(rest[p]) /\ v = Up(p)
         /\ t = NewEnts(p)
         /\ pc[p] = "create_new" /\ Locks(s)
         /\ icache' = SetNlink(SetNlink(Hold(Locked(s), p, s), s, 1), d, v)
         /\ dinode' = SetEntry(SetNlink(SetEnts(SetNlink(dinode, n, 1), n, t), m, v), m, x, n)
  BY DEF CreateWrites, SetNlink, SetEntry, SetEnts
<1>2. /\ s \in Slots /\ icache[s].ref > 0 /\ d \in Slots /\ icache[d].ref > 0 /\ m \in Inums /\ n \in Inums
      /\ x \in Names \cup Dots
  BY <1>1, NotPutting DEF Putting3, HasIp, HasDp, HasRest
<1>3. v \in Int /\ 1 \in Int /\ t \in [Names \cup Dots -> 0..NInodes] /\ n \in 0..NInodes
  <2>1. icache[d] \in InodeRec
    BY <1>2 DEF Good
  <2>2. icache[d].nlink \in Int
    BY <2>1 DEF InodeRec
  <2>3. t \in [Names \cup Dots -> 0..NInodes]
    BY <1>1, <1>2, NewEntsIs
  <2>4. n \in 0..NInodes
    BY <1>2, FileSysAssumption DEF Inums
  <2> QED
    BY <1>1, <2>2, <2>3, <2>4 DEF Up
<1>4. PICK c : c = Locked(s)
  OBVIOUS
<1>5. /\ Good(c, dinode) /\ (panicked' = "no" => Typed(c)) /\ c[s] = Read(s) /\ Read(s).valid = TRUE
      /\ \A y \in Slots : y # s => c[y] = icache[y]
      /\ \A y \in Slots : c[y].ref = icache[y].ref /\ c[y].inum = icache[y].inum /\ c[y].owner = icache[y].owner
  BY <1>1, <1>2, <1>4, LocksFacts, ReadFacts
<1>6. PICK h : h = Hold(c, p, s)
  OBVIOUS
<1>7. /\ Good(h, dinode) /\ (Typed(c) => Typed(h))
      /\ \A y \in Slots : /\ h[y].ref = c[y].ref /\ h[y].inum = c[y].inum /\ h[y].valid = c[y].valid
                          /\ h[y].owner = IF y = s THEN p ELSE c[y].owner
  BY <1>2, <1>5, <1>6, GoodHold
<1>8. h[s].ref > 0 /\ h[s].inum = n /\ h \in [Slots -> InodeRec] /\ dinode \in [Inums -> DinodeRec]
  BY <1>1, <1>2, <1>5, <1>7 DEF Good
<1>9. PICK h1, d1 : h1 = SetNlink(h, s, 1) /\ d1 = SetNlink(dinode, n, 1)
  OBVIOUS
<1>10. Good(h1, d1) /\ (Typed(h) => Typed(h1))
  BY <1>2, <1>3, <1>7, <1>8, <1>9, WriteNlink
<1>11. /\ \A y \in Slots : /\ h1[y].ref = h[y].ref /\ h1[y].inum = h[y].inum
                           /\ h1[y].valid = h[y].valid /\ h1[y].owner = h[y].owner
       /\ d1[n].nlink = 1
       /\ \A k \in Inums : d1[k].type = dinode[k].type /\ d1[k].ents = dinode[k].ents /\ (k # n => d1[k] = dinode[k])
  <2>1. /\ \A y \in Slots : /\ SetNlink(h, s, 1)[y].ref = h[y].ref /\ SetNlink(h, s, 1)[y].inum = h[y].inum
                            /\ SetNlink(h, s, 1)[y].valid = h[y].valid /\ SetNlink(h, s, 1)[y].owner = h[y].owner
        /\ SetNlink(dinode, n, 1)[n].nlink = 1
        /\ \A k \in Inums : /\ SetNlink(dinode, n, 1)[k].type = dinode[k].type
                            /\ SetNlink(dinode, n, 1)[k].ents = dinode[k].ents
                            /\ k # n => SetNlink(dinode, n, 1)[k] = dinode[k]
    BY <1>2, <1>3, <1>8, SetNlinkFacts
  <2> QED
    BY <1>9, <2>1
<1>12. PICK d2 : d2 = SetEnts(d1, n, t)
  OBVIOUS
<1>13. h1 \in [Slots -> InodeRec] /\ d1 \in [Inums -> DinodeRec]
  BY <1>10 DEF Good
<1>14. /\ d2 \in [Inums -> DinodeRec] /\ d2[n].ents = t
       /\ \A k \in Inums : d2[k].type = d1[k].type /\ d2[k].nlink = d1[k].nlink /\ (k # n => d2[k] = d1[k])
  <2>1. /\ SetEnts(d1, n, t) \in [Inums -> DinodeRec]
        /\ SetEnts(d1, n, t)[n].ents = t
        /\ \A k \in Inums : /\ SetEnts(d1, n, t)[k].type = d1[k].type
                            /\ SetEnts(d1, n, t)[k].nlink = d1[k].nlink
                            /\ k # n => SetEnts(d1, n, t)[k] = d1[k]
    BY <1>2, <1>3, <1>13, SetEntsFacts
  <2> QED
    BY <1>12, <2>1
<1>15. Good(h1, d2)
  BY <1>10, <1>14, GoodEntries
<1>16. PICK d3 : d3 = SetNlink(d2, m, v)
  OBVIOUS
<1>17. icache' = SetNlink(h1, d, v) /\ dinode' = SetEntry(d3, m, x, n)
  BY <1>1, <1>4, <1>6, <1>9, <1>12, <1>16
<1>18. h1[d].ref > 0 /\ h1[d].inum = m
  BY <1>1, <1>2, <1>5, <1>7, <1>11
<1>19. Good(icache', d3) /\ (Typed(h1) => Typed(icache'))
  BY <1>2, <1>3, <1>15, <1>16, <1>17, <1>18, WriteNlink
<1>20. /\ \A y \in Slots : /\ icache'[y].ref = h1[y].ref /\ icache'[y].inum = h1[y].inum
                           /\ icache'[y].valid = h1[y].valid /\ icache'[y].owner = h1[y].owner
       /\ d3 \in [Inums -> DinodeRec] /\ d3[m].nlink = v
       /\ \A k \in Inums : d3[k].type = d2[k].type /\ d3[k].ents = d2[k].ents /\ (k # m => d3[k] = d2[k])
  <2>1. /\ \A y \in Slots : /\ SetNlink(h1, d, v)[y].ref = h1[y].ref /\ SetNlink(h1, d, v)[y].inum = h1[y].inum
                            /\ SetNlink(h1, d, v)[y].valid = h1[y].valid /\ SetNlink(h1, d, v)[y].owner = h1[y].owner
        /\ SetNlink(d2, m, v) \in [Inums -> DinodeRec]
        /\ SetNlink(d2, m, v)[m].nlink = v
        /\ \A k \in Inums : /\ SetNlink(d2, m, v)[k].type = d2[k].type
                            /\ SetNlink(d2, m, v)[k].ents = d2[k].ents
                            /\ k # m => SetNlink(d2, m, v)[k] = d2[k]
    BY <1>2, <1>3, <1>13, <1>14, SetNlinkFacts
  <2> QED
    BY <1>16, <1>17, <2>1
<1>21. /\ dinode' \in [Inums -> DinodeRec] /\ dinode'[m].ents[x] = n
       /\ \A k \in Inums : /\ dinode'[k].type = d3[k].type /\ dinode'[k].nlink = d3[k].nlink
                           /\ \A y \in Names \cup Dots : k # m \/ y # x => dinode'[k].ents[y] = d3[k].ents[y]
  BY <1>2, <1>3, <1>17, <1>20, SetEntryFacts
<1>22. Good(icache', dinode')
  BY <1>19, <1>21, GoodEntries
<1>23. \A y \in Slots : /\ icache'[y].ref = icache[y].ref /\ icache'[y].inum = icache[y].inum
                        /\ icache'[y].owner = IF y = s THEN p ELSE icache[y].owner
                        /\ icache'[y].valid = c[y].valid
  BY <1>5, <1>7, <1>11, <1>20
<1>24. \A y \in Slots : c[y].valid = (y = s \/ icache[y].valid)
  <2>1. \A y \in Slots : icache[y].valid \in BOOLEAN
    BY DEF Good, InodeRec
  <2> QED
    BY <1>5, <2>1
<1>25. \A k \in Inums : /\ dinode'[k].type = dinode[k].type
                        /\ dinode'[k].nlink = IF k = m THEN v ELSE IF k = n THEN 1 ELSE dinode[k].nlink
  BY <1>11, <1>14, <1>20, <1>21
<1>26. \A k \in Inums : \A y \in Names \cup Dots :
         dinode'[k].ents[y] = IF k = m /\ y = x THEN n ELSE IF k = n THEN t[y] ELSE dinode[k].ents[y]
  BY <1>11, <1>14, <1>20, <1>21
<1>27. Good(icache', dinode') /\ (panicked' = "no" => Typed(icache')) /\ Up(p) \in Int
  BY <1>1, <1>3, <1>5, <1>7, <1>10, <1>19, <1>22
<1>28. s = ip[p] /\ v = Up(p) /\ x = Head(rest[p]) /\ t = NewEnts(p) /\ n = icache[ip[p]].inum /\ m = icache[dp[p]].inum
  BY <1>1
<1>29. \A y \in Slots : /\ icache'[y].ref = icache[y].ref /\ icache'[y].inum = icache[y].inum
                        /\ icache'[y].owner = IF y = ip[p] THEN p ELSE icache[y].owner
                        /\ icache'[y].valid = (y = ip[p] \/ icache[y].valid)
  BY <1>23, <1>24, <1>28
<1>30. \A k \in Inums :
         /\ dinode'[k].type = dinode[k].type
         /\ dinode'[k].nlink = IF k = icache[dp[p]].inum THEN Up(p)
                               ELSE IF k = icache[ip[p]].inum THEN 1 ELSE dinode[k].nlink
  BY <1>25, <1>28
<1>31. \A k \in Inums : \A y \in Names \cup Dots :
         dinode'[k].ents[y] = IF k = icache[dp[p]].inum /\ y = Head(rest[p]) THEN icache[ip[p]].inum
                              ELSE IF k = icache[ip[p]].inum THEN NewEnts(p)[y] ELSE dinode[k].ents[y]
  BY <1>26, <1>28
<1> QED
  BY <1>27, <1>29, <1>30, <1>31

LEMMA CreateNewKeeps ==
    ASSUME Running, Good(icache, dinode), panicked = "no", NEW p \in Procs, MkdirDone(p) \/ CreateDone(p)
    PROVE  Keeps
<1>1. CreateWrites(p) /\ pc[p] = "create_new" /\ UNCHANGED files
  BY DEF MkdirDone, CreateDone, CreateWrites
<1>2. /\ ip[p] \in Slots /\ dp[p] \in Slots /\ old[p] = 0
      /\ First(puts[p]) = 0 /\ Second(puts[p]) = 0
      /\ ValuesOK(pc[p], ret[p], call[p], rest[p], ip[p], dp[p], old[p], inum[p], puts[p])
  BY <1>1, NotPutting DEF Putting3, HasIp, HasDp, HasOld
<1>3. /\ Good(icache', dinode') /\ (panicked' = "no" => Typed(icache'))
      /\ \A x \in Slots : icache'[x].ref = icache[x].ref
  BY <1>1, CreateWritten
<1>4. CASE MkdirDone(p)
  <2>1. PICK a \in PutRec, b \in PutRec : a = UnlockPut(dp[p]) /\ b = UnlockPut(ip[p]) /\ a.slot = dp[p] /\ b.slot = ip[p]
    BY <1>2, PutIs
  <2>2. PICK u \in Seq(PutRec) : u = <<a, b>> /\ Len(u) = 2 /\ First(u) = a.slot /\ Second(u) = b.slot
                                 /\ u[1] = a /\ u[2] = b
    BY TwoOf
  <2>3. UNCHANGED files /\ Sets(p, "put", "user", call[p], rest[p], 0, 0, old[p], 0, u)
    BY <1>1, <1>4, <2>1, <2>2 DEF MkdirDone
  <2>4. ValuesOK("put", "user", call[p], rest[p], 0, 0, old[p], 0, u)
    BY <1>2, FileSysAssumption DEF ValuesOK, Labels
  <2>5. HandOf("put", "user", call[p], rest[p], 0, 0, old[p], 0, u)
    BY <1>2, <2>2 DEF HandOf, Whither, Putting3, Returns, HasIp, HasDp, HasOld, HasRest
  <2>6. \A y \in Slots : Points(ip[p], dp[p], old[p], puts[p], y) = Points(0, 0, old[p], u, y)
    BY <1>2, <2>1, <2>2 DEF Points, Is, Slots
  <2>7. panicked' = "no" => Running'
    BY <1>3, <2>3, <2>4, <2>5, <2>6, CallStep
  <2> QED
    BY <1>3, <2>7 DEF Keeps
<1>5. CASE CreateDone(p)
  <2>1. PICK u \in Seq(PutRec) : u = <<UnlockPut(dp[p])>> /\ Len(u) = 1 /\ First(u) = dp[p] /\ Second(u) = 0 /\ u[1].held
    BY <1>2, PutOne
  <2>2. UNCHANGED files /\ Sets(p, "put", "openfile", call[p], rest[p], ip[p], 0, old[p], 0, u)
    BY <1>1, <1>5, <2>1 DEF CreateDone
  <2>3. ValuesOK("put", "openfile", call[p], rest[p], ip[p], 0, old[p], 0, u)
    BY <1>2, FileSysAssumption DEF ValuesOK, Labels
  <2>4. HandOf("put", "openfile", call[p], rest[p], ip[p], 0, old[p], 0, u)
    BY <1>2, <2>1 DEF HandOf, Whither, Putting3, Returns, HasIp, HasDp, HasOld, HasRest, Slots
  <2>5. \A y \in Slots : Points(ip[p], dp[p], old[p], puts[p], y) = Points(ip[p], 0, old[p], u, y)
    BY <1>2, <2>1 DEF Points, Is, Slots
  <2>6. panicked' = "no" => Running'
    BY <1>3, <2>2, <2>3, <2>4, <2>5, CallStep
  <2> QED
    BY <1>3, <2>6 DEF Keeps
<1> QED
  BY <1>4, <1>5

-----------------------------------------------------------------------------
(* Open files *)

\* A descriptor and an entry of the file table change together, and by as much.
FileMoves(p, d, v, f, r) == ftable' = [ftable EXCEPT ![f] = r] /\ ofile' = [ofile EXCEPT ![p][d] = v]
FileFits(p, d, v, f, r) ==
    /\ r.ref > 0 => r.ip \in Slots
    /\ r.ref + Is(ofile[p][d], f) = ftable[f].ref + Is(v, f)
    /\ \A g \in Files : g # f => Is(ofile[p][d], g) = Is(v, g)

LEMMA FileStep ==
    ASSUME Running, panicked = "no", NEW p \in Procs, NEW d \in Fds, NEW v \in 0..NFILE, NEW f \in Files, NEW r \in FileRec,
           FileMoves(p, d, v, f, r), FileFits(p, d, v, f, r)
    PROVE  /\ FType' /\ FilesCounted(ftable', ofile')
           /\ \A x \in Slots : OpenOn(ftable', x) + OpenIs(ftable[f], x) = OpenOn(ftable, x) + OpenIs(r, x)
<1> USE DEF FileMoves, FileFits
<1>1. /\ ftable \in [Files -> FileRec] /\ ofile \in [Procs -> [Fds -> 0..NFILE]]
      /\ \A g \in Files : ftable[g].ref > 0 => ftable[g].ip \in Slots
  BY DEF Running, FType
<1>2. \A x \in Slots : OpenOn(ftable', x) + OpenIs(ftable[f], x) = OpenOn(ftable, x) + OpenIs(r, x)
  BY <1>1, OpenOnMove
<1>3. PICK ft : ft = ftable'
  OBVIOUS
<1>4. ft \in [Files -> FileRec] /\ ft[f] = r /\ \A g \in Files : g # f => ft[g] = ftable[g]
  BY <1>1, <1>3
<1>5. FType'
  <2>1. ofile' \in [Procs -> [Fds -> 0..NFILE]]
    BY <1>1
  <2>2. \A g \in Files : ft[g].ref > 0 => ft[g].ip \in Slots
    BY <1>1, <1>4
  <2> QED
    BY <1>3, <1>4, <2>1, <2>2 DEF FType
<1>6. ASSUME NEW g \in Files
      PROVE  ft[g].ref = Cardinality(FdPairs(ofile', g))
  <2>1. Cardinality(FdPairs(ofile', g)) + Is(ofile[p][d], g) = Cardinality(FdPairs(ofile, g)) + Is(v, g)
    BY <1>1, FdMove
  <2>2. PICK a \in Nat, b \in Nat : a = Cardinality(FdPairs(ofile', g)) /\ b = Cardinality(FdPairs(ofile, g))
    BY FdFinite
  <2>3. b = ftable[g].ref
    BY <2>2 DEF Running, RefsArePointers, FdPairs
  <2>4. a + Is(ofile[p][d], g) = ftable[g].ref + Is(v, g)
    BY <2>1, <2>2, <2>3, Zenon
  <2>5. Is(ofile[p][d], g) \in Nat /\ Is(v, g) \in Nat /\ ftable[g].ref \in Nat /\ ft[g].ref \in Nat
    BY <1>1, <1>4 DEF Is, FileRec
  <2>6. ft[g].ref + Is(ofile[p][d], g) = ftable[g].ref + Is(v, g)
    BY <1>4, <2>5
  <2>7. ft[g].ref = a
    BY <2>4, <2>5, <2>6
  <2> QED
    BY <2>2, <2>7
<1>7. FilesCounted(ftable', ofile')
  BY <1>3, <1>6 DEF FilesCounted
<1> QED
  BY <1>2, <1>5, <1>7

\* A descriptor that is in use.
LEMMA FdFacts ==
    ASSUME Running, panicked = "no", NEW p \in Procs, NEW d \in Fds
    PROVE  /\ ofile[p][d] \in 0..NFILE
           /\ ofile[p][d] # 0 => /\ ofile[p][d] \in Files /\ ftable[ofile[p][d]] \in FileRec
                                 /\ ftable[ofile[p][d]].ref >= 1 /\ ftable[ofile[p][d]].ip \in Slots
<1>1. PICK f : f = ofile[p][d]
  OBVIOUS
<1>2. f \in 0..NFILE
  BY <1>1 DEF Running, FType
<1>3. CASE f # 0
  <2>1. f \in Files
    BY <1>2, <1>3, FileSysAssumption DEF Files
  <2>2. ftable[f] \in FileRec /\ (ftable[f].ref > 0 => ftable[f].ip \in Slots)
    BY <2>1 DEF Running, FType
  <2>3. ftable[f].ref = Cardinality(FdPairs(ofile, f))
    BY <2>1 DEF Running, RefsArePointers, FdPairs
  <2>4. <<p, d>> \in FdPairs(ofile, f)
    BY <1>1 DEF FdPairs
  <2>5. Cardinality(FdPairs(ofile, f)) \in Nat /\ Cardinality(FdPairs(ofile, f)) >= 1
    BY <2>4, FdFinite, CardOne
  <2> QED
    BY <1>1, <1>2, <2>1, <2>2, <2>3, <2>5
<1> QED
  BY <1>1, <1>2, <1>3

LEMMA FreeFdFacts ==
    ASSUME Running, NEW p \in Procs, FreeFds(p) # {}
    PROVE  Least(FreeFds(p)) \in Fds /\ ofile[p][Least(FreeFds(p))] = 0
<1>1. FreeFds(p) \in SUBSET Nat
  BY FileSysAssumption DEF FreeFds, Fds
<1>2. Least(FreeFds(p)) \in FreeFds(p)
  BY <1>1, LeastIn
<1> QED
  BY <1>2 DEF FreeFds

LEMMA FreeFileFacts ==
    ASSUME Running, FreeFiles # {}
    PROVE  Least(FreeFiles) \in Files /\ ftable[Least(FreeFiles)].ref = 0
<1>1. FreeFiles \in SUBSET Nat
  BY FileSysAssumption DEF FreeFiles, Files
<1>2. Least(FreeFiles) \in FreeFiles
  BY <1>1, LeastIn
<1> QED
  BY <1>2 DEF FreeFiles

LEMMA OpenFileDoneKeeps ==
    ASSUME Running, Good(icache, dinode), panicked = "no", NEW p \in Procs, OpenFileDone(p)
    PROVE  Keeps
<1>1. PICK f, d, r :
         /\ f = Least(FreeFiles) /\ d = Least(FreeFds(p)) /\ r = [ref |-> 1, ip |-> ip[p]]
         /\ pc[p] = "openfile" /\ FreeFiles # {} /\ FreeFds(p) # {}
         /\ ftable' = [ftable EXCEPT ![f] = r] /\ ofile' = [ofile EXCEPT ![p][d] = f]
         /\ icache' = Hold(icache, NoProc, ip[p]) /\ UNCHANGED <<dinode, panicked>>
         /\ Sets(p, "user", ret[p], NoCall, <<>>, 0, dp[p], old[p], inum[p], puts[p])
  BY DEF OpenFileDone
<1>2. /\ ip[p] \in Slots /\ dp[p] = 0 /\ old[p] = 0 /\ inum[p] = 0 /\ Len(puts[p]) = 0
      /\ First(puts[p]) = 0 /\ Second(puts[p]) = 0
      /\ ValuesOK(pc[p], ret[p], call[p], rest[p], ip[p], dp[p], old[p], inum[p], puts[p])
  BY <1>1, NotPutting DEF Putting3, HasIp, HasDp, HasOld
<1>3. f \in Files /\ ftable[f].ref = 0 /\ d \in Fds /\ ofile[p][d] = 0
  BY <1>1, FreeFdFacts, FreeFileFacts
<1>4. r \in FileRec /\ r.ref = 1 /\ r.ip = ip[p] /\ f \in 0..NFILE /\ f # 0
  BY <1>1, <1>2, <1>3, FileSysAssumption DEF FileRec, Files, Slots
<1>5. /\ Good(icache', dinode') /\ Typed(icache') /\ \A x \in Slots : icache'[x].ref = icache[x].ref
  <2>1. icache' = Hold(icache, NoProc, ip[p]) /\ dinode' = dinode /\ Typed(icache)
    BY <1>1 DEF Running
  <2> QED
    BY <1>2, <2>1, GoodHold
<1>6. /\ r.ref + Is(ofile[p][d], f) = ftable[f].ref + Is(f, f)
      /\ \A g \in Files : g # f => Is(ofile[p][d], g) = Is(f, g)
      /\ r.ref > 0 => r.ip \in Slots
  BY <1>2, <1>3, <1>4, FileSysAssumption DEF Is, Files
<1>7. /\ FType' /\ FilesCounted(ftable', ofile')
      /\ \A x \in Slots : OpenOn(ftable', x) + OpenIs(ftable[f], x) = OpenOn(ftable, x) + OpenIs(r, x)
  <2>1. FileMoves(p, d, f, f, r)
    BY <1>1 DEF FileMoves
  <2>2. FileFits(p, d, f, f, r)
    BY <1>6 DEF FileFits
  <2> QED
    BY <1>3, <1>4, <2>1, <2>2, FileStep
<1>8. \A x \in Slots : icache'[x].ref + Points(ip[p], dp[p], old[p], puts[p], x) + OpenOn(ftable, x)
                       = icache[x].ref + Points(0, dp[p], old[p], puts[p], x) + OpenOn(ftable', x)
  <2> SUFFICES ASSUME NEW x \in Slots
               PROVE  icache'[x].ref + Points(ip[p], dp[p], old[p], puts[p], x) + OpenOn(ftable, x)
                      = icache[x].ref + Points(0, dp[p], old[p], puts[p], x) + OpenOn(ftable', x)
    OBVIOUS
  <2>1. OpenIs(ftable[f], x) = 0 /\ OpenIs(r, x) = Is(ip[p], x) /\ Is(ip[p], x) \in Nat
    BY <1>3, <1>4 DEF OpenIs, Is
  <2>2. PICK a \in Nat, b \in Nat : a = OpenOn(ftable, x) /\ b = OpenOn(ftable', x)
    BY OpenOnFinite
  <2>3. b + 0 = a + Is(ip[p], x)
    BY <1>7, <2>1, <2>2
  <2>4. Points(ip[p], dp[p], old[p], puts[p], x) = Is(ip[p], x) /\ Points(0, dp[p], old[p], puts[p], x) = 0
    BY <1>2 DEF Points, Is, Slots
  <2>5. icache'[x].ref = icache[x].ref /\ icache[x].ref \in Nat
    BY <1>5, RefNat
  <2> QED
    BY <2>1, <2>2, <2>3, <2>4, <2>5
<1>9. ValuesOK("user", ret[p], NoCall, <<>>, 0, dp[p], old[p], inum[p], puts[p])
  BY <1>2 DEF ValuesOK, Labels, CallRec
<1>10. HandOf("user", ret[p], NoCall, <<>>, 0, dp[p], old[p], inum[p], puts[p])
  BY <1>2 DEF HandOf, Whither, Putting3, Returns, HasIp, HasDp, HasOld, HasRest
<1>11. Sets(p, "user", ret[p], NoCall, <<>>, 0, dp[p], old[p], inum[p], puts[p])
  BY <1>1
<1>12. Running'
  BY <1>5, <1>7, <1>8, <1>9, <1>10, <1>11, RunningStep
<1> QED
  BY <1>5, <1>12 DEF Keeps

LEMMA CloseSharedKeeps ==
    ASSUME Running, Good(icache, dinode), panicked = "no", NEW p \in Procs, NEW d \in Fds, CloseShared(p, d)
    PROVE  Keeps
<1>1. PICK f, r :
         /\ f = ofile[p][d] /\ r = [ftable[f] EXCEPT !.ref = ftable[f].ref - 1]
         /\ pc[p] = "user" /\ f # 0 /\ ftable[f].ref > 1
         /\ ftable' = [ftable EXCEPT ![f] = r] /\ ofile' = [ofile EXCEPT ![p][d] = 0]
         /\ UNCHANGED <<icache, dinode, panicked>>
         /\ Sets(p, "user", ret[p], call[p], rest[p], ip[p], dp[p], old[p], inum[p], puts[p])
  BY DEF CloseShared
<1>2. /\ ValuesOK(pc[p], ret[p], call[p], rest[p], ip[p], dp[p], old[p], inum[p], puts[p])
      /\ HandOf(pc[p], ret[p], call[p], rest[p], ip[p], dp[p], old[p], inum[p], puts[p])
  BY ValuesNow
<1>3. f \in Files /\ ftable[f] \in FileRec /\ ftable[f].ip \in Slots
  BY <1>1, FdFacts
<1>4. r \in FileRec /\ r.ref = ftable[f].ref - 1 /\ r.ip = ftable[f].ip /\ 0 \in 0..NFILE
  BY <1>1, <1>3, FileSysAssumption DEF FileRec
<1>5. Good(icache', dinode') /\ Typed(icache') /\ icache' = icache
  BY <1>1 DEF Running
<1>6. /\ r.ref + Is(ofile[p][d], f) = ftable[f].ref + Is(0, f)
      /\ \A g \in Files : g # f => Is(ofile[p][d], g) = Is(0, g)
      /\ r.ref > 0 => r.ip \in Slots
  BY <1>1, <1>3, <1>4 DEF Is, Files, FileRec
<1>7. /\ FType' /\ FilesCounted(ftable', ofile')
      /\ \A x \in Slots : OpenOn(ftable', x) + OpenIs(ftable[f], x) = OpenOn(ftable, x) + OpenIs(r, x)
  <2>1. FileMoves(p, d, 0, f, r)
    BY <1>1 DEF FileMoves
  <2>2. FileFits(p, d, 0, f, r)
    BY <1>6 DEF FileFits
  <2> QED
    BY <1>3, <1>4, <2>1, <2>2, FileStep
<1>8. \A x \in Slots : icache'[x].ref + Points(ip[p], dp[p], old[p], puts[p], x) + OpenOn(ftable, x)
                       = icache[x].ref + Points(ip[p], dp[p], old[p], puts[p], x) + OpenOn(ftable', x)
  <2> SUFFICES ASSUME NEW x \in Slots
               PROVE  icache[x].ref + Points(ip[p], dp[p], old[p], puts[p], x) + OpenOn(ftable, x)
                      = icache[x].ref + Points(ip[p], dp[p], old[p], puts[p], x) + OpenOn(ftable', x)
    BY <1>5
  <2>1. OpenIs(ftable[f], x) = OpenIs(r, x) /\ OpenIs(r, x) \in Nat
    BY <1>1, <1>3, <1>4 DEF OpenIs, FileRec
  <2>2. PICK a \in Nat, b \in Nat : a = OpenOn(ftable, x) /\ b = OpenOn(ftable', x)
    BY OpenOnFinite
  <2>3. b = a
    BY <1>7, <2>1, <2>2
  <2> QED
    BY <2>2, <2>3
<1>9. /\ Sets(p, "user", ret[p], call[p], rest[p], ip[p], dp[p], old[p], inum[p], puts[p])
      /\ ValuesOK("user", ret[p], call[p], rest[p], ip[p], dp[p], old[p], inum[p], puts[p])
      /\ HandOf("user", ret[p], call[p], rest[p], ip[p], dp[p], old[p], inum[p], puts[p])
  BY <1>1, <1>2
<1>10. Running'
  BY <1>5, <1>7, <1>8, <1>9, RunningStep
<1> QED
  BY <1>5, <1>10 DEF Keeps

LEMMA CloseLastKeeps ==
    ASSUME Running, Good(icache, dinode), panicked = "no", NEW p \in Procs, NEW d \in Fds, CloseLast(p, d)
    PROVE  Keeps
<1>1. PICK f, r, s :
         /\ f = ofile[p][d] /\ r = [ref |-> 0, ip |-> 0] /\ s = ftable[f].ip
         /\ pc[p] = "user" /\ f # 0 /\ ~(ftable[f].ref > 1)
         /\ ftable' = [ftable EXCEPT ![f] = r] /\ ofile' = [ofile EXCEPT ![p][d] = 0]
         /\ UNCHANGED <<icache, dinode, panicked>>
         /\ Sets(p, "put", "user", call[p], rest[p], ip[p], dp[p], old[p], inum[p], <<Put(s)>>)
  BY DEF CloseLast
<1>2. /\ ip[p] = 0 /\ dp[p] = 0 /\ old[p] = 0 /\ inum[p] = 0
      /\ First(puts[p]) = 0 /\ Second(puts[p]) = 0
      /\ ValuesOK(pc[p], ret[p], call[p], rest[p], ip[p], dp[p], old[p], inum[p], puts[p])
  BY <1>1, NotPutting DEF Putting3, HasIp, HasDp, HasOld
<1>3. f \in Files /\ ftable[f] \in FileRec /\ s \in Slots /\ ftable[f].ref = 1
  <2>1. f \in Files /\ ftable[f] \in FileRec /\ s \in Slots /\ ftable[f].ref >= 1
    BY <1>1, FdFacts
  <2> QED
    BY <1>1, <2>1 DEF FileRec
<1>4. r \in FileRec /\ r.ref = 0 /\ 0 \in 0..NFILE
  BY <1>1, FileSysAssumption DEF FileRec
<1>5. Good(icache', dinode') /\ Typed(icache') /\ icache' = icache
  BY <1>1 DEF Running
<1>6. /\ r.ref + Is(ofile[p][d], f) = ftable[f].ref + Is(0, f)
      /\ \A g \in Files : g # f => Is(ofile[p][d], g) = Is(0, g)
      /\ r.ref > 0 => r.ip \in Slots
  BY <1>1, <1>3, <1>4 DEF Is, Files
<1>7. /\ FType' /\ FilesCounted(ftable', ofile')
      /\ \A x \in Slots : OpenOn(ftable', x) + OpenIs(ftable[f], x) = OpenOn(ftable, x) + OpenIs(r, x)
  <2>1. FileMoves(p, d, 0, f, r)
    BY <1>1 DEF FileMoves
  <2>2. FileFits(p, d, 0, f, r)
    BY <1>6 DEF FileFits
  <2> QED
    BY <1>3, <1>4, <2>1, <2>2, FileStep
<1>8. PICK u \in Seq(PutRec) : u = <<Put(s)>> /\ Len(u) = 1 /\ First(u) = s /\ Second(u) = 0 /\ ~u[1].held
  BY <1>3, PutOne
<1>9. \A x \in Slots : icache'[x].ref + Points(ip[p], dp[p], old[p], puts[p], x) + OpenOn(ftable, x)
                       = icache[x].ref + Points(ip[p], dp[p], old[p], u, x) + OpenOn(ftable', x)
  <2> SUFFICES ASSUME NEW x \in Slots
               PROVE  icache[x].ref + Points(ip[p], dp[p], old[p], puts[p], x) + OpenOn(ftable, x)
                      = icache[x].ref + Points(ip[p], dp[p], old[p], u, x) + OpenOn(ftable', x)
    BY <1>5
  <2>1. OpenIs(ftable[f], x) = Is(s, x) /\ OpenIs(r, x) = 0 /\ Is(s, x) \in Nat
    BY <1>1, <1>3, <1>4 DEF OpenIs, Is
  <2>2. PICK a \in Nat, b \in Nat : a = OpenOn(ftable, x) /\ b = OpenOn(ftable', x)
    BY OpenOnFinite
  <2>3. b + Is(s, x) = a
    BY <1>7, <2>1, <2>2
  <2>4. Points(ip[p], dp[p], old[p], puts[p], x) = 0 /\ Points(ip[p], dp[p], old[p], u, x) = Is(s, x)
    BY <1>2, <1>8 DEF Points, Is, Slots
  <2>5. icache[x].ref \in Nat
    BY RefNat
  <2> QED
    BY <2>1, <2>2, <2>3, <2>4, <2>5
<1>10. ValuesOK("put", "user", call[p], rest[p], ip[p], dp[p], old[p], inum[p], u)
  BY <1>2 DEF ValuesOK, Labels
<1>11. HandOf("put", "user", call[p], rest[p], ip[p], dp[p], old[p], inum[p], u)
  BY <1>2, <1>8 DEF HandOf, Whither, Putting3, Returns, HasIp, HasDp, HasOld, HasRest
<1>12. Sets(p, "put", "user", call[p], rest[p], ip[p], dp[p], old[p], inum[p], u)
  BY <1>1, <1>8
<1>13. Running'
  BY <1>5, <1>7, <1>9, <1>10, <1>11, <1>12, RunningStep
<1> QED
  BY <1>5, <1>13 DEF Keeps

LEMMA DupsKeeps ==
    ASSUME Running, Good(icache, dinode), panicked = "no", NEW p \in Procs, NEW d \in Fds, Dups(p, d)
    PROVE  Keeps
<1>1. PICK f, r, e :
         /\ f = ofile[p][d] /\ r = [ftable[f] EXCEPT !.ref = ftable[f].ref + 1] /\ e = Least(FreeFds(p))
         /\ pc[p] = "user" /\ f # 0 /\ FreeFds(p) # {}
         /\ ftable' = [ftable EXCEPT ![f] = r] /\ ofile' = [ofile EXCEPT ![p][e] = f]
         /\ UNCHANGED <<icache, dinode, panicked>>
         /\ Sets(p, "user", ret[p], call[p], rest[p], ip[p], dp[p], old[p], inum[p], puts[p])
  BY DEF Dups
<1>2. /\ ValuesOK(pc[p], ret[p], call[p], rest[p], ip[p], dp[p], old[p], inum[p], puts[p])
      /\ HandOf(pc[p], ret[p], call[p], rest[p], ip[p], dp[p], old[p], inum[p], puts[p])
  BY ValuesNow
<1>3. /\ f \in Files /\ f \in 0..NFILE /\ ftable[f] \in FileRec /\ ftable[f].ip \in Slots /\ ftable[f].ref >= 1
      /\ e \in Fds /\ ofile[p][e] = 0
  BY <1>1, FdFacts, FreeFdFacts
<1>4. r \in FileRec /\ r.ref = ftable[f].ref + 1 /\ r.ip = ftable[f].ip
  BY <1>1, <1>3 DEF FileRec
<1>5. Good(icache', dinode') /\ Typed(icache') /\ icache' = icache
  BY <1>1 DEF Running
<1>6. /\ r.ref + Is(ofile[p][e], f) = ftable[f].ref + Is(f, f)
      /\ \A g \in Files : g # f => Is(ofile[p][e], g) = Is(f, g)
      /\ r.ref > 0 => r.ip \in Slots
  BY <1>1, <1>3, <1>4 DEF Is, Files, FileRec
<1>7. /\ FType' /\ FilesCounted(ftable', ofile')
      /\ \A x \in Slots : OpenOn(ftable', x) + OpenIs(ftable[f], x) = OpenOn(ftable, x) + OpenIs(r, x)
  <2>1. FileMoves(p, e, f, f, r)
    BY <1>1 DEF FileMoves
  <2>2. FileFits(p, e, f, f, r)
    BY <1>6 DEF FileFits
  <2> QED
    BY <1>3, <1>4, <2>1, <2>2, FileStep
<1>8. \A x \in Slots : icache'[x].ref + Points(ip[p], dp[p], old[p], puts[p], x) + OpenOn(ftable, x)
                       = icache[x].ref + Points(ip[p], dp[p], old[p], puts[p], x) + OpenOn(ftable', x)
  <2> SUFFICES ASSUME NEW x \in Slots
               PROVE  icache[x].ref + Points(ip[p], dp[p], old[p], puts[p], x) + OpenOn(ftable, x)
                      = icache[x].ref + Points(ip[p], dp[p], old[p], puts[p], x) + OpenOn(ftable', x)
    BY <1>5
  <2>1. OpenIs(ftable[f], x) = OpenIs(r, x) /\ OpenIs(r, x) \in Nat
    BY <1>3, <1>4 DEF OpenIs, FileRec
  <2>2. PICK a \in Nat, b \in Nat : a = OpenOn(ftable, x) /\ b = OpenOn(ftable', x)
    BY OpenOnFinite
  <2>3. b = a
    BY <1>7, <2>1, <2>2
  <2> QED
    BY <2>2, <2>3
<1>9. /\ Sets(p, "user", ret[p], call[p], rest[p], ip[p], dp[p], old[p], inum[p], puts[p])
      /\ ValuesOK("user", ret[p], call[p], rest[p], ip[p], dp[p], old[p], inum[p], puts[p])
      /\ HandOf("user", ret[p], call[p], rest[p], ip[p], dp[p], old[p], inum[p], puts[p])
  BY <1>1, <1>2
<1>10. Running'
  BY <1>5, <1>7, <1>8, <1>9, RunningStep
<1> QED
  BY <1>5, <1>10 DEF Keeps

LEMMA OpenRef ==
    ASSUME Running, Good(icache, dinode), panicked = "no", NEW p \in Procs, NEW d \in Fds, ofile[p][d] # 0
    PROVE  ftable[ofile[p][d]].ip \in Slots /\ icache[ftable[ofile[p][d]].ip].ref > 0
<1>1. PICK f : f = ofile[p][d]
  OBVIOUS
<1>2. f \in Files /\ ftable[f] \in FileRec /\ ftable[f].ip \in Slots /\ ftable[f].ref >= 1
  BY <1>1, FdFacts
<1>3. ftable[f].ref > 0 /\ icache[ftable[f].ip].ref \in Nat
  BY <1>2, RefNat DEF FileRec
<1>4. icache[ftable[f].ip].ref > 0
  BY <1>2, <1>3, HasRef
<1> QED
  BY <1>1, <1>2, <1>4

LEMMA UsesKeeps ==
    ASSUME Running, Good(icache, dinode), panicked = "no", NEW p \in Procs, NEW d \in Fds, Locks1(p, d)
    PROVE  Keeps
<1>1. PICK s : /\ s = ftable[ofile[p][d]].ip /\ pc[p] = "user" /\ ofile[p][d] # 0 /\ Locks(s)
               /\ icache' = Locked(s) /\ UNCHANGED <<dinode, files>>
               /\ Sets(p, "user", ret[p], call[p], rest[p], ip[p], dp[p], old[p], inum[p], puts[p])
  BY DEF Locks1
<1>2. s \in Slots /\ icache[s].ref > 0
  BY <1>1, OpenRef
<1>3. /\ ValuesOK("user", ret[p], call[p], rest[p], ip[p], dp[p], old[p], inum[p], puts[p])
      /\ HandOf("user", ret[p], call[p], rest[p], ip[p], dp[p], old[p], inum[p], puts[p])
  BY <1>1, ValuesNow
<1>4. /\ Good(icache', dinode') /\ (panicked' = "no" => Typed(icache'))
      /\ \A x \in Slots : icache'[x].ref = icache[x].ref
  BY <1>1, <1>2, LocksFacts
<1>5. panicked' = "no" => Running'
  BY <1>1, <1>3, <1>4, CallStep
<1> QED
  BY <1>4, <1>5 DEF Keeps

-----------------------------------------------------------------------------
(* Every step *)

\* The ways through the actions, but for panics.
WayOfWalk(p) == WalkParent(p) \/ WalkFails(p) \/ WalkOn(p) \/ GivesUp(p) \/ Opens(p) \/ OpenFileFull(p) \/ OpenFileDone(p)
WayOfCreate(p) ==
    CreateFree(p) \/ CreateTaken(p) \/ IallocTakes(p) \/ IallocGets(p) \/ MkdirDone(p) \/ CreateDone(p)
WayOfUnlink(p) == UnlinkFails(p) \/ UnlinkFinds(p) \/ UnlinkRefused(p) \/ UnlinkErases(p) \/ UnlinkDecs(p)
WayOfLink(p) == LinkCounts(p) \/ LinkWalks(p) \/ LinkNames(p) \/ LinkTaken(p) \/ LinkUndoes(p)
WayOfPut(p) == Unlocks(p) \/ PutFrees(p) \/ PutDrops(p) \/ Frees(p) \/ DropsOne(p) \/ DropsLast(p)
WayOfUser(p) ==
    \/ \E c \in Calls : Starts(p, c)
    \/ \E d \in Fds : CloseShared(p, d) \/ CloseLast(p, d) \/ Dups(p, d) \/ Locks1(p, d)

LEMMA StepWays ==
    ASSUME Running, Good(icache, dinode), panicked = "no", NEW p \in Procs, InCall(p) \/ FromUser(p)
    PROVE  \/ WayOfWalk(p) \/ WayOfCreate(p) \/ WayOfUnlink(p) \/ WayOfLink(p) \/ WayOfPut(p) \/ WayOfUser(p)
           \/ Stop \/ StopUnlink(p)
<1>1. LType /\ FType
  BY DEF Running
<1>2. CASE Walk(p) \/ Open(p) \/ OpenFile(p) \/ CreateFound(p)
  BY <1>1, <1>2, WalkWays, OpenWays, OpenFileWays, CreateFoundWays, Zenon DEF WayOfWalk
<1>3. CASE Create(p) \/ Ialloc(p) \/ IallocIget(p) \/ CreateNew(p)
  BY <1>1, <1>3, CreateWays, IallocWays, CreateNewWays, Zenon DEF WayOfCreate
<1>4. CASE Unlink(p) \/ UnlinkDec(p)
  BY <1>1, <1>4, UnlinkWays, UnlinkDecWays, Zenon DEF WayOfUnlink
<1>5. CASE UnlinkIp(p)
  <2>1. pc[p] = "unlink_ip"
    BY <1>5, IlockIs DEF UnlinkIp, Putting3
  <2>2. ip[p] \in Slots /\ icache[ip[p]].ref > 0
    BY <2>1, NotPutting DEF Putting3, HasIp
  <2>3. Read(ip[p]) \in InodeRec
    BY <2>2, ReadFacts
  <2>4. Read(ip[p]).nlink \in Int
    BY <2>3 DEF InodeRec
  <2> QED
    BY <1>1, <1>5, <2>4, UnlinkIpWays, Zenon DEF WayOfUnlink
<1>6. CASE Link(p)
  BY <1>1, <1>6, LinkWays, Zenon DEF WayOfLink, WayOfWalk
<1>7. CASE LinkWalk(p) \/ LinkNew(p) \/ LinkUndo(p)
  BY <1>1, <1>7, LinkWalkWays, LinkNewWays, LinkUndoWays, Zenon DEF WayOfLink
<1>8. CASE Iunlock(p) \/ IputTest(p) \/ IputFree(p) \/ IputDrop(p)
  BY <1>8, IunlockWays, IputTestWays, IputFreeWays, IputDropWays, Zenon DEF WayOfPut
<1>9. CASE FromUser(p)
  <2>1. CASE \E c \in Calls : Start(p, c)
    BY <1>1, <2>1, StartWays, Zenon DEF WayOfUser
  <2>2. CASE \E d \in Fds : Close(p, d) \/ Dup(p, d) \/ UseFile(p, d)
    BY <1>1, <2>2, FileWays, Zenon DEF WayOfUser
  <2> QED
    BY <1>9, <2>1, <2>2, Zenon DEF FromUser
<1> QED
  BY <1>2, <1>3, <1>4, <1>5, <1>6, <1>7, <1>8, <1>9, Zenon DEF InCall

LEMMA StepKeeps ==
    ASSUME Running, Good(icache, dinode), panicked = "no", NEW p \in Procs, InCall(p) \/ FromUser(p)
    PROVE  Keeps
<1>1. CASE WayOfWalk(p)
  BY <1>1, WalkParentKeeps, WalkFailsKeeps, WalkOnKeeps, GivesUpKeeps, OpensKeeps, OpenFileFullKeeps,
     OpenFileDoneKeeps, Zenon DEF WayOfWalk
<1>2. CASE WayOfCreate(p)
  BY <1>2, CreateFreeKeeps, CreateTakenKeeps, IallocTakesKeeps, IallocGetsKeeps, CreateNewKeeps, Zenon
     DEF WayOfCreate
<1>3. CASE WayOfUnlink(p)
  BY <1>3, UnlinkFailsKeeps, UnlinkFindsKeeps, UnlinkRefusedKeeps, UnlinkErasesKeeps, UnlinkDecsKeeps, Zenon
     DEF WayOfUnlink
<1>4. CASE WayOfLink(p)
  BY <1>4, LinkCountsKeeps, LinkWalksKeeps, LinkNamesKeeps, LinkTakenKeeps, LinkUndoesKeeps, Zenon DEF WayOfLink
<1>5. CASE WayOfPut(p)
  BY <1>5, UnlocksKeeps, PutTestKeeps, FreesKeeps, DropsKeeps, Zenon DEF WayOfPut
<1>6. CASE WayOfUser(p)
  <2>1. CASE \E c \in Calls : Starts(p, c)
    BY <2>1, StartsKeeps, Zenon
  <2>2. CASE \E d \in Fds : CloseShared(p, d) \/ CloseLast(p, d) \/ Dups(p, d) \/ Locks1(p, d)
    BY <2>2, CloseSharedKeeps, CloseLastKeeps, DupsKeeps, UsesKeeps, Zenon
  <2> QED
    BY <1>6, <2>1, <2>2, Zenon DEF WayOfUser
<1>7. CASE Stop \/ StopUnlink(p)
  BY <1>7, StopKeeps, Zenon
<1> QED
  BY <1>1, <1>2, <1>3, <1>4, <1>5, <1>6, <1>7, StepWays, Zenon

\* No process goes on after a panic.
LEMMA StepRuns ==
    ASSUME NEW p \in Procs, InCall(p) \/ FromUser(p)
    PROVE  panicked = "no"
<1>1. CASE InCall(p)
  BY <1>1 DEF InCall, Walk, Open, OpenFile, Create, CreateFound, Ialloc, IallocIget, CreateNew, Unlink, UnlinkIp,
              UnlinkDec, Link, LinkWalk, LinkNew, LinkUndo, Iunlock, IputTest, IputFree, IputDrop, Ilock, At
<1>2. CASE FromUser(p)
  BY <1>2 DEF FromUser, Start, Close, Dup, UseFile, At
<1> QED
  BY <1>1, <1>2

LEMMA RInvNext == RInv /\ [Next]_vars => RInv'
<1> SUFFICES ASSUME RInv, [Next]_vars
             PROVE  RInv'
  OBVIOUS
<1>1. CASE UNCHANGED vars
  <2>1. /\ icache' = icache /\ dinode' = dinode /\ panicked' = panicked /\ ftable' = ftable /\ ofile' = ofile
        /\ pc' = pc /\ ret' = ret /\ call' = call /\ rest' = rest /\ ip' = ip /\ dp' = dp /\ old' = old
        /\ inum' = inum /\ puts' = puts
    BY <1>1 DEF vars, files, locals
  <2>2. Good(icache', dinode')
    BY <2>1 DEF RInv
  <2>3. panicked = "no" => Running'
    <3> SUFFICES ASSUME panicked = "no"
                 PROVE  Running'
      OBVIOUS
    <3>1. LType' /\ FType' /\ Typed(icache')
      BY <2>1 DEF RInv, Running, LType, FType
    <3>2. \A p \in Procs : Hand(p)'
      BY <2>1 DEF RInv, Running, Hand
    <3>3. RefsArePointers'
      BY <2>1 DEF RInv, Running, RefsArePointers, Pointers
    <3> QED
      BY <3>1, <3>2, <3>3 DEF Running
  <2> QED
    BY <2>1, <2>2, <2>3 DEF RInv
<1>2. CASE panicked = "no" /\ \E p \in Procs : InCall(p) \/ FromUser(p)
  <2>1. Running /\ Good(icache, dinode)
    BY <1>2 DEF RInv
  <2>2. Keeps
    BY <1>2, <2>1, StepKeeps, Zenon
  <2> QED
    BY <2>2 DEF Keeps, RInv
<1> QED
  BY <1>1, <1>2, StepRuns, Zenon DEF Next, Halted

LEMMA CardNone ==
    ASSUME NEW S, \A x : x \notin S
    PROVE  Cardinality(S) = 0
<1>1. S = {}
  OBVIOUS
<1> QED
  BY <1>1, FS_EmptySet

LEMMA RInvInit == Init => RInv
<1> SUFFICES ASSUME Init
             PROVE  RInv
  OBVIOUS
<1>1. NInodes \in Nat \ {0} /\ NINODE \in Nat \ {0} /\ NFILE \in Nat /\ NOFILE \in Nat /\ Names \cap Dots = {}
  BY FileSysAssumption
<1>2. NoEntries \in [Names \cup Dots -> 0..NInodes] /\ "." \in Dots /\ ".." \in Dots /\ Root \in 0..NInodes
  BY <1>1, NoEntriesIs DEF Dots, Root
<1>3. dinode \in [Inums -> DinodeRec]
  <2>1. PICK t : t = [NoEntries EXCEPT !["."] = Root, ![".."] = Root]
    OBVIOUS
  <2>2. t \in [Names \cup Dots -> 0..NInodes]
    BY <1>2, <2>1
  <2>3. [type |-> "dir", nlink |-> 1, ents |-> t] \in DinodeRec
    BY <2>2 DEF DinodeRec, Kinds
  <2>4. [type |-> "none", nlink |-> 0, ents |-> NoEntries] \in DinodeRec
    BY <1>2 DEF DinodeRec, Kinds
  <2>5. dinode = [n \in Inums |-> IF n = Root THEN [type |-> "dir", nlink |-> 1, ents |-> t]
                                  ELSE [type |-> "none", nlink |-> 0, ents |-> NoEntries]]
    BY <2>1 DEF Init
  <2> QED
    BY <2>3, <2>4, <2>5
<1>4. Cardinality(Procs) \in Nat
  BY FileSysAssumption, FS_CardinalityType
<1>5. NoInode \in InodeRec /\ NoInode.ref = 0 /\ NoInode.valid = FALSE
  BY FileSysAssumption DEF NoInode, InodeRec, Kinds
<1>6. PICK r : r = [NoInode EXCEPT !.ref = Cardinality(Procs), !.inum = Root]
  OBVIOUS
<1>7. r \in InodeRec /\ r.ref = Cardinality(Procs) /\ r.inum = Root /\ r.valid = FALSE
  BY <1>2, <1>4, <1>5, <1>6 DEF InodeRec
<1>8. icache = [s \in Slots |-> IF s = 1 THEN r ELSE NoInode]
  BY <1>6 DEF Init
<1>9. /\ icache \in [Slots -> InodeRec] /\ \A s \in Slots : icache[s].valid = FALSE
      /\ \A s \in Slots : icache[s].ref > 0 => s = 1 /\ icache[s].inum = Root
      /\ \A s \in Slots : icache[s].ref = IF s = 1 THEN Cardinality(Procs) ELSE 0
  BY <1>5, <1>7, <1>8
<1>10. Good(icache, dinode) /\ Typed(icache)
  BY <1>3, <1>9, RootIs DEF Good, Numbered, Unique, Agrees, Typed
<1>11. LType
  <2>1. NoCall \in CallRec /\ "user" \in Labels /\ 0 \in 0..NINODE /\ 0 \in 0..NInodes
    BY <1>1 DEF CallRec, Labels
  <2>2. <<>> \in Seq(PutRec) /\ <<>> \in Seq(Names \cup Dots)
    OBVIOUS
  <2> QED
    BY <2>1, <2>2 DEF LType, Init
<1>12. FType
  <2>1. [ref |-> 0, ip |-> 0] \in FileRec /\ [ref |-> 0, ip |-> 0].ref = 0 /\ 0 \in 0..NFILE
    BY <1>1 DEF FileRec
  <2>2. ftable = [f \in Files |-> [ref |-> 0, ip |-> 0]] /\ ofile = [p \in Procs |-> [d \in Fds |-> 0]]
    BY DEF Init
  <2> QED
    BY <2>1, <2>2 DEF FType
<1>13. \A p \in Procs : Hand(p)
  <2> SUFFICES ASSUME NEW p \in Procs
               PROVE  Hand(p)
    OBVIOUS
  <2>1. /\ pc[p] = "user" /\ ret[p] = "user" /\ call[p] = NoCall /\ rest[p] = <<>> /\ ip[p] = 0 /\ dp[p] = 0
        /\ old[p] = 0 /\ inum[p] = 0 /\ puts[p] = <<>>
    BY DEF Init
  <2>2. Len(puts[p]) = 0
    BY <2>1
  <2> QED
    BY <2>1, <2>2 DEF Hand, HandOf, Whither, Putting3, HasIp, HasDp, HasOld, HasRest
<1>14. \A s \in Slots : icache[s].ref = Pointers(s)
  <2> SUFFICES ASSUME NEW s \in Slots
               PROVE  icache[s].ref = Pointers(s)
    OBVIOUS
  <2>1. s # 0
    BY DEF Slots
  <2>2. OpenOn(ftable, s) = 0 /\ Count(ip, s) = 0 /\ Count(dp, s) = 0 /\ Count(old, s) = 0
        /\ Cardinality(Pairs(puts, s)) = 0
    <3>1. \A f \in Files : ~(ftable[f].ref > 0)
      BY DEF Init
    <3>2. \A p \in Procs : ip[p] # s /\ dp[p] # s /\ old[p] # s
      BY <2>1 DEF Init
    <3>3. \A x : x \notin Pairs(puts, s)
      <4> SUFFICES ASSUME NEW x \in Pairs(puts, s)
                   PROVE  FALSE
        OBVIOUS
      <4>1. x \in Procs \X (1..2) /\ x[2] <= Len(puts[x[1]])
        BY DEF Pairs
      <4>2. puts[x[1]] = <<>>
        BY <4>1 DEF Init
      <4>3. Len(puts[x[1]]) = 0
        BY <4>2
      <4>4. x[2] \in 1..2 /\ x[2] <= 0
        BY <4>1, <4>3
      <4> QED
        BY <4>4
    <3>4. \A x : x \notin {f \in Files : ftable[f].ref > 0 /\ ftable[f].ip = s}
      BY <3>1
    <3>5. Cardinality({f \in Files : ftable[f].ref > 0 /\ ftable[f].ip = s}) = 0
      BY <3>4, CardNone, Zenon
    <3>6. \A x : x \notin {p \in Procs : ip[p] = s}
      BY <3>2
    <3>7. \A x : x \notin {p \in Procs : dp[p] = s}
      BY <3>2
    <3>8. \A x : x \notin {p \in Procs : old[p] = s}
      BY <3>2
    <3>9. /\ Cardinality({p \in Procs : ip[p] = s}) = 0 /\ Cardinality({p \in Procs : dp[p] = s}) = 0
          /\ Cardinality({p \in Procs : old[p] = s}) = 0
      BY <3>6, <3>7, <3>8, CardNone, Zenon
    <3>10. Cardinality(Pairs(puts, s)) = 0
      BY <3>3, CardNone, Zenon
    <3> QED
      BY <3>5, <3>9, <3>10, Zenon DEF OpenOn, Count
  <2>3. CwdOn(s) = icache[s].ref
    <3>1. CASE s = 1
      <4>1. {p \in Procs : s = 1} = Procs
        BY <3>1
      <4> QED
        BY <1>9, <3>1, <4>1 DEF CwdOn
    <3>2. CASE s # 1
      <4>1. \A x : x \notin {p \in Procs : s = 1}
        BY <3>2
      <4>2. Cardinality({p \in Procs : s = 1}) = 0
        BY <4>1, CardNone, Zenon
      <4> QED
        BY <1>9, <3>2, <4>2 DEF CwdOn
    <3> QED
      BY <3>1, <3>2
  <2>4. CwdOn(s) \in Nat
    BY CwdFinite
  <2> QED
    BY <2>2, <2>3, <2>4, PointersSum
<1>15. \A f \in Files : ftable[f].ref = Cardinality({e \in Procs \X Fds : ofile[e[1]][e[2]] = f})
  <2> SUFFICES ASSUME NEW f \in Files
               PROVE  ftable[f].ref = Cardinality({e \in Procs \X Fds : ofile[e[1]][e[2]] = f})
    OBVIOUS
  <2>1. f # 0 /\ ftable[f].ref = 0
    BY DEF Files, Init
  <2>2. \A x : x \notin {e \in Procs \X Fds : ofile[e[1]][e[2]] = f}
    BY <2>1 DEF Init
  <2>3. Cardinality({e \in Procs \X Fds : ofile[e[1]][e[2]] = f}) = 0
    BY <2>2, CardNone, Zenon
  <2> QED
    BY <2>1, <2>3
<1>16. RefsArePointers
  BY <1>14, <1>15 DEF RefsArePointers
<1> QED
  BY <1>10, <1>11, <1>12, <1>13, <1>16 DEF RInv, Running

LEMMA RInvAlways == Spec => []RInv
  BY RInvInit, RInvNext, PTL DEF Spec

\* On every path through open, create, mkdir, unlink, link, close and dup, whatever
\* other processes do meanwhile, iget, idup and iput balance: ip->ref is the number of
\* pointers to the entry, and a file's count that of its descriptors (fs.c, sysfile.c).
THEOREM RefsExact == Spec => []RefsArePointers
<1>1. RInv => RefsArePointers
  BY DEF RInv, Running, RefsArePointers
<1> QED
  BY <1>1, RInvAlways, PTL

\* No two entries of the inode cache are of one inode, and an entry that ilock has read
\* has the type and the links that iupdate and ialloc put on the disk (fs.c).
THEOREM CacheIsDisk == Spec => []CacheCoherent
<1>1. RInv => CacheCoherent
  BY DEF RInv, Good, Unique, Agrees, CacheCoherent
<1> QED
  BY <1>1, RInvAlways, PTL

-----------------------------------------------------------------------------
(* Links, locks and new inodes *)

\* Paths without "." and "..": a removed directory keeps its ".." when its parent is
\* freed, and nothing keeps the inode it names.
PlainPaths == \A c \in Calls : c.path \in Seq(Names) /\ (c.op = "link" => c.new \in Seq(Names))

PathOf(c, r) == r \in Seq(Names) /\ (c.op = "link" => c.new \in Seq(Names))
PathInv == \A p \in Procs : PathOf(call[p], rest[p])

Inum(s) == icache[s].inum
Where(p) == Whither(pc[p], ret[p])

\* The slots whose sleep lock a process has between two steps.
OwnsIp(l, t) == Whither(l, t) \in {"openfile", "unlink_dec"}
OwnsDp(l) == l \in {"ialloc", "ialloc_iget", "create_new", "unlink_ip"}
OwnsPut1(l, u) == Len(u) # 0 /\ (u[1].held \/ l = "free")
OwnsPut2(u) == Len(u) = 2 /\ u[2].held
Owns(l, t, i, d, u, s) ==
    \/ OwnsIp(l, t) /\ i = s
    \/ OwnsDp(l) /\ d = s
    \/ OwnsPut1(l, u) /\ First(u) = s
    \/ OwnsPut2(u) /\ Second(u) = s

\* They are its own and have been read, in the cache c, and it has each once.
LockOf(p, l, t, i, d, u, c) ==
    /\ \A s \in Slots : Owns(l, t, i, d, u, s) => c[s].owner = p /\ c[s].valid
    /\ OwnsPut1(l, u) /\ OwnsPut2(u) => First(u) # Second(u)
    /\ OwnsPut1(l, u) /\ OwnsIp(l, t) => First(u) # i
    /\ OwnsPut2(u) /\ OwnsIp(l, t) => Second(u) # i
LockInv == \A p \in Procs : LockOf(p, pc[p], ret[p], ip[p], dp[p], puts[p], icache)

\* What iput frees has no link, and its caller has the only reference.
FreeOf(l, u, c) == l = "free" => c[First(u)].valid /\ c[First(u)].nlink = 0 /\ c[First(u)].ref = 1
FreeInv == \A p \in Procs : FreeOf(pc[p], puts[p], icache)

\* The slots that stand for a file or directory: all but what a dropping iput has
\* looked at and what create has not written yet.
Uses(l, i, d, o, u, s) ==
    \/ i = s /\ l # "create_new"
    \/ d = s
    \/ o = s
    \/ First(u) = s /\ l # "drop"
    \/ Second(u) = s
FileOn(s) == \E f \in Files : ftable[f].ref > 0 /\ ftable[f].ip = s
InUse(s) == s = 1 \/ FileOn(s) \/ \E p \in Procs : Uses(pc[p], ip[p], dp[p], old[p], puts[p], s)

Fresh(s) == dinode[Inum(s)].type # "none" /\ \A p \in Procs : inum[p] # Inum(s)
FreshInv == \A s \in Slots : InUse(s) => Fresh(s)

\* The inode ialloc has chosen is in no directory, and no entry has read it.
NewOf(p) == inum[p] # 0 =>
    /\ dinode[inum[p]].nlink = 0
    /\ dinode[inum[p]].type = NewType(p)
    /\ \A x \in Names : dinode[inum[p]].ents[x] = 0
    /\ \A s \in Slots : icache[s].ref > 0 /\ Inum(s) = inum[p] => ~icache[s].valid
    /\ \A q \in Procs : inum[q] = inum[p] => q = p
    /\ pc[p] = "create_new" => Inum(ip[p]) = inum[p]
NewInv == \A p \in Procs : NewOf(p)

\* The name unlink is about to erase is still that of the inode it has found.
UnlinkOf(p) == pc[p] = "unlink_ip" => dinode[Inum(dp[p])].ents[Head(rest[p])] = Inum(ip[p])
UnlinkInv == \A p \in Procs : UnlinkOf(p)

\* link gives no directory a second name.
OldInv == \A p \in Procs : old[p] # 0 => dinode[Inum(old[p])].type # "dir"

DiskInv == \A n \in Inums : dinode[n].type = "none" => dinode[n].nlink = 0

\* What the links of an inode are for: its names, those that unlink has erased and not
\* given up yet, those that link has counted and not named yet, and "..".
NamesOf(n) == {e \in Inums \X Names : dinode[e[1]].ents[e[2]] = n}
Unlinkers(n) == {p \in Procs : Where(p) = "unlink_dec" /\ Inum(ip[p]) = n}
Linkers(n) == {p \in Procs : old[p] # 0 /\ Inum(old[p]) = n}
SubDirs(n) == {x \in Names : dinode[n].ents[x] # 0 /\ dinode[dinode[n].ents[x]].type = "dir"}
LinkSum(n) == Cardinality(NamesOf(n)) + Cardinality(Unlinkers(n)) + Cardinality(Linkers(n))
              + Cardinality(SubDirs(n)) + Is(n, Root)
LinkInv == \A n \in Inums : dinode[n].nlink >= LinkSum(n)

RootInv == icache[1].inum = Root

CallInv == PathInv /\ LockInv /\ FreeInv /\ RootInv
DirInv == FreshInv /\ NewInv /\ UnlinkInv /\ OldInv /\ DiskInv /\ LinkInv
TInv == panicked = "no" => CallInv /\ DirInv

\* The machine runs.
Ok == Running /\ Good(icache, dinode) /\ panicked = "no"

\* Whatever is pointed to has a reference.
Pointed(s) ==
    \/ s = 1 /\ Procs # {}
    \/ FileOn(s)
    \/ \E p \in Procs : s \in {ip[p], dp[p], old[p], Put1(p), Put2(p)}
Refs == \A s \in Slots : Pointed(s) => icache[s].ref > 0 /\ Inum(s) \in Inums

LEMMA OkRefs == Ok => Refs
<1> SUFFICES ASSUME Ok, NEW s \in Slots, Pointed(s)
             PROVE  icache[s].ref > 0 /\ Inum(s) \in Inums
  BY DEF Refs
<1>1. icache[s].ref \in Nat
  BY RefNat DEF Ok
<1>2. icache[s].ref > 0
  BY <1>1, HasRef DEF Ok, Pointed, FileOn
<1> QED
  BY <1>2 DEF Ok, Good, Numbered, Inum

LEMMA OkRefsNext == Ok' => Refs'
  BY OkRefs, PTL

LEMMA InUsePointed ==
    ASSUME NEW s, InUse(s), Procs # {}
    PROVE  Pointed(s)
  BY DEF InUse, Uses, Pointed, Put1, Put2

LEMMA After ==
    ASSUME LType, NEW p \in Procs, NEW l, NEW t, NEW c, NEW r, NEW i, NEW d, NEW o, NEW n, NEW u,
           Sets(p, l, t, c, r, i, d, o, n, u)
    PROVE  /\ OthersSame(p)
           /\ pc'[p] = l /\ ret'[p] = t /\ call'[p] = c /\ rest'[p] = r
           /\ ip'[p] = i /\ dp'[p] = d /\ old'[p] = o /\ inum'[p] = n /\ puts'[p] = u
<1> USE DEF LType, Sets
<1>1. OthersSame(p)
  BY DEF OthersSame
<1> QED
  BY <1>1

-----------------------------------------------------------------------------
(* What a step of p may do to the cache *)

\* The entries that others point to stay theirs, and what others have locked stays as
\* it was; only what is used is read; an entry without links gets no reference.
TurnsTo(c, p) ==
    \A x \in Slots :
        /\ icache[x].ref > 0 /\ c[x].ref > 0 => c[x].inum = icache[x].inum
        /\ icache[x].ref > 0 /\ c[x].ref > 0 /\ icache[x].owner \notin {NoProc, p} =>
               c[x].owner = icache[x].owner /\ c[x].valid = icache[x].valid /\ c[x].nlink = icache[x].nlink
        /\ c[x].ref > 0 /\ c[x].valid =>
               icache[x].ref > 0 /\ (icache[x].valid \/ InUse(x) \/ (pc[p] = "create_new" /\ x = ip[p]))
        /\ icache[x].ref > 0 /\ icache[x].valid /\ icache[x].nlink = 0 => c[x].ref <= icache[x].ref

LEMMA TurnsSame ==
    ASSUME Ok, NEW p
    PROVE  TurnsTo(icache, p)
  BY RefNat DEF TurnsTo, Ok

LEMMA TurnsHold ==
    ASSUME Ok, NEW p, NEW c, Good(c, dinode), TurnsTo(c, p), NEW q \in Procs \cup {NoProc}, NEW s \in Slots,
           icache[s].owner \in {NoProc, p}
    PROVE  TurnsTo(Hold(c, q, s), p)
<1>1. PICK e : e = Hold(c, q, s)
  OBVIOUS
<1>2. \A x \in Slots : /\ e[x].ref = c[x].ref /\ e[x].inum = c[x].inum /\ e[x].valid = c[x].valid
                       /\ e[x].nlink = c[x].nlink /\ (x # s => e[x].owner = c[x].owner)
  <2>1. \A x \in Slots : /\ Hold(c, q, s)[x].ref = c[x].ref /\ Hold(c, q, s)[x].inum = c[x].inum
                         /\ Hold(c, q, s)[x].valid = c[x].valid /\ Hold(c, q, s)[x].type = c[x].type
                         /\ Hold(c, q, s)[x].nlink = c[x].nlink
                         /\ Hold(c, q, s)[x].owner = IF x = s THEN q ELSE c[x].owner
    BY GoodHold
  <2> QED
    BY <1>1, <2>1
<1>3. TurnsTo(e, p)
  BY <1>2 DEF TurnsTo
<1> QED
  BY <1>1, <1>3

\* iget of an inode that is not about to be freed.
Lives(n) == \A x \in Slots : icache[x].ref > 0 /\ Inum(x) = n /\ icache[x].valid => icache[x].nlink # 0

LEMMA TurnsGotten ==
    ASSUME Ok, NEW p, NEW c, Good(c, dinode), TurnsTo(c, p), NEW n \in Inums, CanIget(n), Lives(n),
           \A x \in Slots : c[x].ref = icache[x].ref /\ c[x].inum = icache[x].inum
    PROVE  TurnsTo(Gotten(c, n), p)
<1>1. PICK e, g : g \in Slots /\ g = Iget(n) /\ e = Gotten(c, n)
  BY IgetFacts
<1>2. /\ \A x \in Slots : x # g => e[x] = c[x]
      /\ e[g].ref = icache[g].ref + 1 /\ e[g].inum = n /\ e[g].owner = c[g].owner
      /\ icache[g].ref = 0 => ~e[g].valid
      /\ icache[g].ref > 0 => e[g].valid = c[g].valid /\ e[g].nlink = c[g].nlink /\ icache[g].inum = n
  BY <1>1, GoodGotten
<1>3. \A x \in Slots : icache[x].ref \in Nat
  BY RefNat DEF Ok
<1>4. ASSUME NEW x \in Slots
      PROVE  /\ icache[x].ref > 0 /\ e[x].ref > 0 => e[x].inum = icache[x].inum
             /\ icache[x].ref > 0 /\ e[x].ref > 0 /\ icache[x].owner \notin {NoProc, p} =>
                  e[x].owner = icache[x].owner /\ e[x].valid = icache[x].valid /\ e[x].nlink = icache[x].nlink
             /\ e[x].ref > 0 /\ e[x].valid =>
                  icache[x].ref > 0 /\ (icache[x].valid \/ InUse(x) \/ (pc[p] = "create_new" /\ x = ip[p]))
             /\ icache[x].ref > 0 /\ icache[x].valid /\ icache[x].nlink = 0 => e[x].ref <= icache[x].ref
  <2>1. CASE x # g
    BY <1>2, <2>1 DEF TurnsTo
  <2>2. CASE x = g /\ icache[g].ref > 0
    BY <1>2, <2>2 DEF TurnsTo, Lives, Inum
  <2>3. CASE x = g /\ icache[g].ref = 0
    BY <1>2, <2>3
  <2> QED
    BY <1>3, <2>1, <2>2, <2>3
<1>5. TurnsTo(e, p)
  BY <1>4 DEF TurnsTo
<1> QED
  BY <1>1, <1>5

\* ilock of a slot in use, the lock kept or not.
LEMMA LocksTurn ==
    ASSUME Ok, NEW p \in Procs, NEW s \in Slots, icache[s].ref > 0, Locks(s),
           InUse(s) \/ (pc[p] = "create_new" /\ s = ip[p])
    PROVE  /\ TurnsTo(Locked(s), p) /\ TurnsTo(Hold(Locked(s), p, s), p)
           /\ \A x \in Slots : Locked(s)[x].inum = icache[x].inum /\ Hold(Locked(s), p, s)[x].inum = icache[x].inum
           /\ \A x \in Slots : Locked(s)[x].owner = icache[x].owner /\ (icache[x].valid => Locked(s)[x].valid)
           /\ Hold(Locked(s), p, s)[s].owner = p /\ Hold(Locked(s), p, s)[s].valid
<1>1. PICK c : c = Locked(s)
  OBVIOUS
<1>2. /\ Good(c, dinode) /\ c[s] = Read(s)
      /\ \A x \in Slots : x # s => c[x] = icache[x]
      /\ \A x \in Slots : c[x].ref = icache[x].ref /\ c[x].inum = icache[x].inum /\ c[x].owner = icache[x].owner
  BY <1>1, LocksFacts DEF Ok
<1>3. c[s].valid = TRUE
  BY <1>2, ReadFacts DEF Ok
<1>4. icache[s].owner = NoProc /\ \A x \in Slots : icache[x].ref \in Nat
  BY RefNat DEF Locks, Ok
<1>5. TurnsTo(c, p)
  BY <1>2, <1>3, <1>4 DEF TurnsTo
<1>6. TurnsTo(Hold(c, p, s), p)
  BY <1>2, <1>4, <1>5, TurnsHold
<1>7. \A x \in Slots : /\ Hold(c, p, s)[x].ref = c[x].ref /\ Hold(c, p, s)[x].inum = c[x].inum
                       /\ Hold(c, p, s)[x].valid = c[x].valid /\ Hold(c, p, s)[x].type = c[x].type
                       /\ Hold(c, p, s)[x].nlink = c[x].nlink
                       /\ Hold(c, p, s)[x].owner = IF x = s THEN p ELSE c[x].owner
  BY <1>2, GoodHold
<1>8. \A x \in Slots : icache[x].valid => c[x].valid
  BY <1>2, <1>3
<1> QED
  BY <1>1, <1>2, <1>3, <1>5, <1>6, <1>7, <1>8

\* ... and then iget.
LEMMA LocksGetTurn ==
    ASSUME Ok, NEW p \in Procs, NEW s \in Slots, icache[s].ref > 0, Locks(s), InUse(s),
           NEW n \in Inums, CanIget(n), Lives(n)
    PROVE  /\ TurnsTo(Gotten(Locked(s), n), p) /\ TurnsTo(Hold(Gotten(Locked(s), n), p, s), p)
           /\ Iget(n) \in Slots /\ Gotten(Locked(s), n)[Iget(n)].inum = n
           /\ Hold(Gotten(Locked(s), n), p, s)[Iget(n)].inum = n
           /\ Hold(Gotten(Locked(s), n), p, s)[s].owner = p /\ Hold(Gotten(Locked(s), n), p, s)[s].valid
           /\ Hold(Gotten(Locked(s), n), p, s)[s].inum = icache[s].inum
<1>1. PICK c : c = Locked(s)
  OBVIOUS
<1>2. /\ Good(c, dinode) /\ c[s] = Read(s)
      /\ \A x \in Slots : c[x].ref = icache[x].ref /\ c[x].inum = icache[x].inum /\ c[x].owner = icache[x].owner
  BY <1>1, LocksFacts DEF Ok
<1>3. c[s].valid = TRUE /\ TurnsTo(c, p) /\ icache[s].owner = NoProc
  BY <1>1, <1>2, ReadFacts, LocksTurn DEF Ok, Locks
<1>4. PICK e, g : g \in Slots /\ e = Gotten(c, n) /\ g = Iget(n)
  BY IgetFacts
<1>5. TurnsTo(e, p)
  BY <1>2, <1>3, <1>4, TurnsGotten
<1>6. /\ Good(e, dinode)
      /\ \A x \in Slots : x # g => e[x] = c[x]
      /\ e[g].inum = n
      /\ icache[g].ref > 0 => e[g].valid = c[g].valid /\ icache[g].inum = n
  BY <1>2, <1>4, GoodGotten
<1>7. TurnsTo(Hold(e, p, s), p)
  BY <1>3, <1>5, <1>6, TurnsHold
<1>8. \A x \in Slots : /\ Hold(e, p, s)[x].ref = e[x].ref /\ Hold(e, p, s)[x].inum = e[x].inum
                       /\ Hold(e, p, s)[x].valid = e[x].valid /\ Hold(e, p, s)[x].type = e[x].type
                       /\ Hold(e, p, s)[x].nlink = e[x].nlink
                       /\ Hold(e, p, s)[x].owner = IF x = s THEN p ELSE e[x].owner
  BY <1>6, GoodHold
<1>9. e[s].valid /\ e[s].inum = icache[s].inum
  BY <1>2, <1>3, <1>6
<1> QED
  BY <1>1, <1>4, <1>5, <1>6, <1>7, <1>8, <1>9

-----------------------------------------------------------------------------
(* Locks *)

Turns(p) == TurnsTo(icache', p)

\* What the other processes have locked they have after the step of p.
LEMMA LocksKept ==
    ASSUME Ok, Ok', NEW p \in Procs, OthersSame(p), Turns(p), LockInv, FreeInv, RootInv,
           LockOf(p, pc'[p], ret'[p], ip'[p], dp'[p], puts'[p], icache'), FreeOf(pc'[p], puts'[p], icache')
    PROVE  LockInv' /\ FreeInv' /\ RootInv'
<1>1. Refs /\ Refs'
  BY OkRefs, OkRefsNext
<1>2. ASSUME NEW q \in Procs, q # p
      PROVE  LockOf(q, pc'[q], ret'[q], ip'[q], dp'[q], puts'[q], icache') /\ FreeOf(pc'[q], puts'[q], icache')
  <2>1. PICK l, t, i, d, u : /\ l = pc[q] /\ t = ret[q] /\ i = ip[q] /\ d = dp[q] /\ u = puts[q]
                             /\ l = pc'[q] /\ t = ret'[q] /\ i = ip'[q] /\ d = dp'[q] /\ u = puts'[q]
    BY <1>2 DEF OthersSame
  <2>2. LockOf(q, l, t, i, d, u, icache) /\ FreeOf(l, u, icache)
    BY <2>1 DEF LockInv, FreeInv
  <2>3. \A s \in Slots : s \in {i, d, First(u), Second(u)} => icache[s].ref > 0 /\ icache'[s].ref > 0
    <3>1. \A s : s \in {i, d, First(u), Second(u)} => Pointed(s) /\ Pointed(s)'
      BY <2>1 DEF Pointed, Put1, Put2
    <3> QED
      BY <1>1, <3>1 DEF Refs
  <2>4. ASSUME NEW s \in Slots, Owns(l, t, i, d, u, s)
        PROVE  icache'[s].owner = q /\ icache'[s].valid /\ icache'[s].nlink = icache[s].nlink
    <3>1. s \in {i, d, First(u), Second(u)}
      BY <2>4 DEF Owns
    <3>2. icache[s].owner = q /\ icache[s].valid /\ q # NoProc
      BY <2>2, <2>4, FileSysAssumption DEF LockOf
    <3> QED
      BY <1>2, <2>3, <3>1, <3>2 DEF Turns, TurnsTo
  <2>5. LockOf(q, l, t, i, d, u, icache')
    BY <2>2, <2>4 DEF LockOf
  <2>6. FreeOf(l, u, icache')
    <3> SUFFICES ASSUME l = "free"
                 PROVE  icache'[First(u)].valid /\ icache'[First(u)].nlink = 0 /\ icache'[First(u)].ref = 1
      BY DEF FreeOf
    <3>1. Len(u) # 0 /\ First(u) \in Slots
      BY <2>1, ValuesNow DEF Ok, HandOf, Putting3, Put1
    <3>2. Owns(l, t, i, d, u, First(u))
      BY <3>1 DEF Owns, OwnsPut1
    <3>3. icache[First(u)].valid /\ icache[First(u)].nlink = 0 /\ icache[First(u)].ref = 1
      BY <2>2 DEF FreeOf
    <3>4. icache'[First(u)].ref <= 1 /\ icache'[First(u)].ref > 0
      BY <2>3, <3>1, <3>3 DEF Turns, TurnsTo
    <3>5. icache'[First(u)].ref \in Nat
      BY <3>1 DEF Ok, Good, InodeRec
    <3> QED
      BY <2>4, <3>1, <3>2, <3>3, <3>4, <3>5
  <2> QED
    BY <2>1, <2>5, <2>6
<1>3. RootInv'
  <2>1. 1 \in Slots /\ Pointed(1) /\ Pointed(1)'
    BY FileSysAssumption DEF Slots, Pointed
  <2> QED
    BY <1>1, <2>1 DEF Refs, RootInv, Turns, TurnsTo
<1> QED
  BY <1>2, <1>3 DEF LockInv, FreeInv

-----------------------------------------------------------------------------
(* Names and links *)

LEMMA InUseFacts ==
    ASSUME Ok, NEW s \in Slots, InUse(s), Procs # {}
    PROVE  icache[s].ref > 0 /\ Inum(s) \in Inums /\ (FreshInv => Fresh(s))
  BY OkRefs, InUsePointed DEF Refs, FreshInv

LEMMA CardSub ==
    ASSUME NEW T, IsFiniteSet(T), NEW S \in SUBSET T
    PROVE  IsFiniteSet(S) /\ Cardinality(S) \in Nat /\ Cardinality(T) \in Nat /\ Cardinality(S) <= Cardinality(T)
  BY FS_Subset, FS_CardinalityType

LEMMA NamesFinite ==
    /\ \A n : IsFiniteSet(NamesOf(n)) /\ Cardinality(NamesOf(n)) \in Nat
    /\ \A n : IsFiniteSet(Unlinkers(n)) /\ Cardinality(Unlinkers(n)) \in Nat
    /\ \A n : IsFiniteSet(Linkers(n)) /\ Cardinality(Linkers(n)) \in Nat
    /\ \A n : IsFiniteSet(SubDirs(n)) /\ Cardinality(SubDirs(n)) \in Nat
<1>1. IsFiniteSet(Inums \X Names) /\ IsFiniteSet(Procs) /\ IsFiniteSet(Names)
  BY FilesFinite, FS_Product, FileSysAssumption
<1>2. \A n : /\ NamesOf(n) \in SUBSET (Inums \X Names) /\ Unlinkers(n) \in SUBSET Procs
             /\ Linkers(n) \in SUBSET Procs /\ SubDirs(n) \in SUBSET Names
  BY DEF NamesOf, Unlinkers, Linkers, SubDirs
<1> QED
  BY <1>1, <1>2, CardSub

LEMMA NamesFiniteNext ==
    /\ \A n : IsFiniteSet(NamesOf(n)') /\ Cardinality(NamesOf(n)') \in Nat
    /\ \A n : IsFiniteSet(Unlinkers(n)') /\ Cardinality(Unlinkers(n)') \in Nat
    /\ \A n : IsFiniteSet(Linkers(n)') /\ Cardinality(Linkers(n)') \in Nat
    /\ \A n : IsFiniteSet(SubDirs(n)') /\ Cardinality(SubDirs(n)') \in Nat
<1>1. IsFiniteSet(Inums \X Names) /\ IsFiniteSet(Procs) /\ IsFiniteSet(Names)
  BY FilesFinite, FS_Product, FileSysAssumption
<1>2. \A n : /\ NamesOf(n)' \in SUBSET (Inums \X Names) /\ Unlinkers(n)' \in SUBSET Procs
             /\ Linkers(n)' \in SUBSET Procs /\ SubDirs(n)' \in SUBSET Names
  BY DEF NamesOf, Unlinkers, Linkers, SubDirs
<1> QED
  BY <1>1, <1>2, CardSub

LEMMA LinkSumParts ==
    ASSUME NEW n
    PROVE  /\ LinkSum(n) = Cardinality(NamesOf(n)) + Cardinality(Unlinkers(n)) + Cardinality(Linkers(n))
                           + Cardinality(SubDirs(n)) + Is(n, Root)
           /\ LinkSum(n)' = Cardinality(NamesOf(n)') + Cardinality(Unlinkers(n)') + Cardinality(Linkers(n)')
                           + Cardinality(SubDirs(n)') + Is(n, Root)
           /\ Is(n, Root) \in Nat
  BY DEF LinkSum, Is

\* An inode that has a name has a link; so has the root.
LEMMA NamedLinked ==
    ASSUME Ok, LinkInv, NEW n \in Inums,
           n = Root \/ \E m \in Inums : \E x \in Names : dinode[m].ents[x] = n
    PROVE  dinode[n].nlink >= 1
<1>1. dinode[n].nlink >= LinkSum(n) /\ dinode[n].nlink \in Int
  BY DEF LinkInv, Ok, Good, DinodeRec
<1>2. PICK a \in Nat, b \in Nat, c \in Nat, d \in Nat, e \in Nat :
         /\ a = Cardinality(NamesOf(n)) /\ b = Cardinality(Unlinkers(n)) /\ c = Cardinality(Linkers(n))
         /\ d = Cardinality(SubDirs(n)) /\ e = Is(n, Root)
  BY NamesFinite, LinkSumParts
<1>3. LinkSum(n) = a + b + c + d + e
  BY <1>2, LinkSumParts
<1>4. CASE n = Root
  BY <1>1, <1>2, <1>3, <1>4 DEF Is
<1>5. CASE \E m \in Inums : \E x \in Names : dinode[m].ents[x] = n
  <2>1. PICK m \in Inums, x \in Names : dinode[m].ents[x] = n
    BY <1>5
  <2>2. <<m, x>> \in NamesOf(n)
    BY <2>1 DEF NamesOf
  <2>3. a >= 1
    BY <1>2, <2>2, NamesFinite, CardOne
  <2> QED
    BY <1>1, <1>3, <2>3
<1> QED
  BY <1>4, <1>5

\* An inode without links has no name, and is no directory's parent.
LEMMA NoLinks ==
    ASSUME Ok, LinkInv, NEW n \in Inums, dinode[n].nlink = 0
    PROVE  /\ n # Root
           /\ \A m \in Inums : \A x \in Names : dinode[m].ents[x] # n
           /\ Cardinality(NamesOf(n)) = 0 /\ Cardinality(Unlinkers(n)) = 0 /\ Cardinality(Linkers(n)) = 0
           /\ Cardinality(SubDirs(n)) = 0 /\ LinkSum(n) = 0
<1>1. dinode[n].nlink >= LinkSum(n)
  BY DEF LinkInv
<1>2. PICK a \in Nat, b \in Nat, c \in Nat, d \in Nat, e \in Nat :
         /\ a = Cardinality(NamesOf(n)) /\ b = Cardinality(Unlinkers(n)) /\ c = Cardinality(Linkers(n))
         /\ d = Cardinality(SubDirs(n)) /\ e = Is(n, Root)
  BY NamesFinite, LinkSumParts
<1>3. LinkSum(n) = a + b + c + d + e
  BY <1>2, LinkSumParts
<1>4. a = 0 /\ b = 0 /\ c = 0 /\ d = 0 /\ LinkSum(n) = 0
  BY <1>1, <1>3
<1> QED
  BY <1>2, <1>4, NamedLinked

\* What the step of p does to the calls that owe a link, or have one in hand.
LEMMA CallersMove ==
    ASSUME Ok, Ok', NEW p \in Procs, OthersSame(p), Turns(p), NEW n
    PROVE  /\ Cardinality(Unlinkers(n)') + In(p, Unlinkers(n)) = Cardinality(Unlinkers(n)) + In(p, Unlinkers(n)')
           /\ Cardinality(Linkers(n)') + In(p, Linkers(n)) = Cardinality(Linkers(n)) + In(p, Linkers(n)')
<1>1. Refs /\ Refs'
  BY OkRefs, OkRefsNext
<1>2. ASSUME NEW q, q # p
      PROVE  (q \in Unlinkers(n) <=> q \in Unlinkers(n)') /\ (q \in Linkers(n) <=> q \in Linkers(n)')
  <2> SUFFICES ASSUME q \in Procs
               PROVE  (q \in Unlinkers(n) <=> q \in Unlinkers(n)') /\ (q \in Linkers(n) <=> q \in Linkers(n)')
    BY DEF Unlinkers, Linkers
  <2>1. /\ pc'[q] = pc[q] /\ ret'[q] = ret[q] /\ ip'[q] = ip[q] /\ old'[q] = old[q]
    BY <1>2 DEF OthersSame
  <2>2. ASSUME NEW s \in Slots, s \in {ip[q], old[q]}
        PROVE  Inum(s)' = Inum(s)
    <3>1. Pointed(s) /\ Pointed(s)'
      BY <2>1, <2>2 DEF Pointed
    <3> QED
      BY <1>1, <3>1 DEF Refs, Turns, TurnsTo, Inum
  <2>3. (Where(q) = "unlink_dec" => ip[q] \in Slots) /\ (old[q] # 0 => old[q] \in Slots)
    BY ValuesNow DEF Ok, HandOf, Where, HasIp
  <2>4. Where(q)' = Where(q)
    BY <2>1 DEF Where
  <2>5. Where(q) = "unlink_dec" => Inum(ip[q])' = Inum(ip[q])
    BY <2>1, <2>2, <2>3 DEF Inum
  <2>6. old[q] # 0 => Inum(old[q])' = Inum(old[q])
    BY <2>1, <2>2, <2>3 DEF Inum
  <2> QED
    BY <2>1, <2>4, <2>5, <2>6 DEF Unlinkers, Linkers
<1> QED
  BY <1>2, NamesFinite, CardMove

\* What p points to after its step is in use before it or fresh; what others have seen
\* of the disk stays.
LEMMA DirStep ==
    ASSUME Ok, Ok', NEW p \in Procs, OthersSame(p), Turns(p), DirInv,
           \A s \in Slots : FileOn(s)' \/ Uses(pc'[p], ip'[p], dp'[p], old'[p], puts'[p], s)
                              => InUse(s) \/ Fresh(s)',
           \A s \in Slots : InUse(s) /\ InUse(s)' => dinode'[Inum(s)].type # "none" /\ inum'[p] # Inum(s),
           \A q \in Procs : q # p /\ inum[q] # 0 =>
               /\ dinode'[inum[q]].nlink = dinode[inum[q]].nlink /\ dinode'[inum[q]].type = dinode[inum[q]].type
               /\ \A x \in Names : dinode'[inum[q]].ents[x] = dinode[inum[q]].ents[x]
               /\ inum'[p] # inum[q],
           \A q \in Procs : q # p /\ pc[q] = "unlink_ip" =>
               dinode'[Inum(dp[q])].ents[Head(rest[q])] = dinode[Inum(dp[q])].ents[Head(rest[q])],
           \A n \in Inums : dinode'[n].type = "dir" => dinode[n].type \in {"dir", "none"},
           old'[p] # 0 => old'[p] = old[p] \/ dinode'[icache'[old'[p]].inum].type # "dir",
           NewOf(p)', UnlinkOf(p)', DiskInv', LinkInv'
    PROVE  DirInv'
<1>1. Refs /\ Refs'
  BY OkRefs, OkRefsNext
<1>2. ASSUME NEW q \in Procs, q # p
      PROVE  /\ pc'[q] = pc[q] /\ call'[q] = call[q] /\ rest'[q] = rest[q]
             /\ ip'[q] = ip[q] /\ dp'[q] = dp[q] /\ old'[q] = old[q] /\ inum'[q] = inum[q]
             /\ puts'[q] = puts[q] /\ ret'[q] = ret[q]
  BY <1>2 DEF OthersSame
<1>3. ASSUME NEW s \in Slots, Pointed(s), Pointed(s)'
      PROVE  icache'[s].inum = Inum(s) /\ Inum(s) \in Inums
  BY <1>1, <1>3 DEF Refs, Turns, TurnsTo, Inum
<1>4. ASSUME NEW q \in Procs, q # p, NEW s \in Slots, s \in {ip[q], dp[q], old[q]}
      PROVE  icache'[s].inum = Inum(s) /\ Inum(s) \in Inums
  <2>1. Pointed(s) /\ Pointed(s)'
    BY <1>2, <1>4 DEF Pointed
  <2> QED
    BY <1>3, <2>1
<1>5. FreshInv'
  <2> SUFFICES ASSUME NEW s \in Slots, InUse(s)', ~Fresh(s)'
               PROVE  FALSE
    BY DEF FreshInv
  <2>1. InUse(s)
    <3>1. CASE s = 1
      BY <3>1 DEF InUse
    <3>2. CASE FileOn(s)'
      BY <3>2
    <3>3. CASE \E q \in Procs : Uses(pc'[q], ip'[q], dp'[q], old'[q], puts'[q], s)
      <4>1. PICK q \in Procs : Uses(pc'[q], ip'[q], dp'[q], old'[q], puts'[q], s)
        BY <3>3
      <4>2. CASE q = p
        BY <4>1, <4>2
      <4>3. CASE q # p
        BY <1>2, <4>1, <4>3 DEF InUse
      <4> QED
        BY <4>2, <4>3
    <3> QED
      BY <3>1, <3>2, <3>3 DEF InUse
  <2>2. Pointed(s) /\ Pointed(s)'
    BY <2>1 DEF InUse, Uses, Pointed, Put1, Put2
  <2>3. Inum(s)' = Inum(s) /\ Fresh(s)
    BY <1>3, <2>1, <2>2 DEF DirInv, FreshInv, Inum
  <2>4. dinode'[Inum(s)].type # "none" /\ inum'[p] # Inum(s)
    BY <2>1
  <2>5. \A q \in Procs : inum'[q] # Inum(s)
    BY <1>2, <2>3, <2>4 DEF Fresh
  <2> QED
    BY <2>3, <2>4, <2>5 DEF Fresh
<1>6. ASSUME NEW q \in Procs, q # p
      PROVE  NewOf(q)'
  <2> SUFFICES ASSUME inum[q] # 0
               PROVE  NewOf(q)'
    BY <1>2, <1>6 DEF NewOf
  <2>1. NewOf(q) /\ NewOf(p)
    BY DEF DirInv, NewInv
  <2>2. PICK n : n = inum[q] /\ n = inum'[q] /\ n # 0
    BY <1>2, <1>6
  <2>3. dinode'[n].nlink = 0 /\ dinode'[n].type = NewType(q) /\ \A x \in Names : dinode'[n].ents[x] = 0
    <3>1. /\ dinode'[inum[q]].nlink = dinode[inum[q]].nlink /\ dinode'[inum[q]].type = dinode[inum[q]].type
          /\ \A x \in Names : dinode'[inum[q]].ents[x] = dinode[inum[q]].ents[x]
      BY <1>6, <2>2
    <3>2. /\ dinode[inum[q]].nlink = 0 /\ dinode[inum[q]].type = NewType(q)
          /\ \A x \in Names : dinode[inum[q]].ents[x] = 0
      BY <2>1, <2>2 DEF NewOf
    <3> QED
      BY <2>2, <3>1, <3>2
  <2>4. NewType(q)' = NewType(q)
    BY <1>2, <1>6 DEF NewType, Op
  <2>5. ASSUME NEW s \in Slots, icache'[s].ref > 0, icache'[s].inum = n, icache'[s].valid
        PROVE  FALSE
    <3>1. /\ icache[s].ref > 0 /\ icache'[s].inum = icache[s].inum
          /\ icache[s].valid \/ InUse(s) \/ (pc[p] = "create_new" /\ s = ip[p])
      BY <2>5 DEF Turns, TurnsTo
    <3>2. CASE icache[s].valid
      BY <2>1, <2>2, <2>5, <3>1, <3>2 DEF NewOf, Inum
    <3>3. CASE InUse(s)
      <4>1. Fresh(s)
        BY <3>3 DEF DirInv, FreshInv
      <4>2. inum[q] # icache[s].inum
        BY <4>1 DEF Fresh, Inum
      <4> QED
        BY <2>2, <2>5, <3>1, <4>2
    <3>4. CASE pc[p] = "create_new" /\ s = ip[p]
      <4>1. inum[p] # 0
        BY <3>4, ValuesNow DEF Ok, HandOf
      <4>2. inum[p] = n
        BY <2>1, <2>5, <3>1, <3>4, <4>1 DEF NewOf, Inum
      <4> QED
        BY <1>6, <2>1, <2>2, <4>2 DEF NewOf
    <3> QED
      BY <3>1, <3>2, <3>3, <3>4
  <2>6. \A r \in Procs : inum'[r] = n => r = q
    BY <1>2, <1>6, <2>1, <2>2 DEF NewOf
  <2>7. pc'[q] = "create_new" => icache'[ip'[q]].inum = n
    <3> SUFFICES ASSUME pc[q] = "create_new"
                 PROVE  icache'[ip[q]].inum = n
      BY <1>2, <1>6
    <3>1. ip[q] \in Slots
      BY NotPutting DEF Ok, Putting3, HasIp
    <3> QED
      BY <1>4, <1>6, <2>1, <2>2, <3>1 DEF NewOf
  <2> QED
    BY <2>2, <2>3, <2>4, <2>5, <2>6, <2>7 DEF NewOf, Inum
<1>7. ASSUME NEW q \in Procs, q # p
      PROVE  UnlinkOf(q)'
  <2> SUFFICES ASSUME pc[q] = "unlink_ip"
               PROVE  dinode'[icache'[dp[q]].inum].ents[Head(rest[q])] = icache'[ip[q]].inum
    BY <1>2, <1>7 DEF UnlinkOf, Inum
  <2>1. ip[q] \in Slots /\ dp[q] \in Slots
    BY NotPutting DEF Ok, Putting3, HasIp, HasDp
  <2>2. icache'[dp[q]].inum = Inum(dp[q]) /\ icache'[ip[q]].inum = Inum(ip[q])
    BY <1>4, <1>7, <2>1
  <2>3. dinode[Inum(dp[q])].ents[Head(rest[q])] = Inum(ip[q])
    BY DEF DirInv, UnlinkInv, UnlinkOf
  <2> QED
    BY <1>7, <2>2, <2>3
<1>8. OldInv'
  <2> SUFFICES ASSUME NEW q \in Procs, old'[q] # 0, dinode'[icache'[old'[q]].inum].type = "dir"
               PROVE  FALSE
    BY DEF OldInv, Inum
  <2>1. old'[q] = old[q]
    BY <1>2
  <2>2. old[q] \in Slots
    BY <2>1, ValuesNow DEF Ok
  <2>3. Pointed(old[q]) /\ Pointed(old[q])'
    BY <2>1 DEF Pointed
  <2>4. icache'[old[q]].inum = Inum(old[q]) /\ Inum(old[q]) \in Inums
    <3>1. PICK s \in Slots : s = old[q] /\ s = old'[q]
      BY <2>1, <2>2
    <3>2. Pointed(s) /\ Pointed(s)'
      BY <3>1 DEF Pointed
    <3> QED
      BY <1>3, <3>1, <3>2
  <2>5. InUse(old[q])
    BY DEF InUse, Uses
  <2>6. dinode[Inum(old[q])].type # "none" /\ dinode[Inum(old[q])].type # "dir"
    BY <2>1, <2>2, <2>5 DEF DirInv, FreshInv, Fresh, OldInv
  <2> QED
    BY <2>1, <2>4, <2>6
<1> QED
  BY <1>5, <1>6, <1>7, <1>8 DEF DirInv, NewInv, UnlinkInv

Turned == CallInv' /\ DirInv'

\* A step that writes nothing to the disk.
LEMMA CallTurn ==
    ASSUME Ok, Ok', CallInv, DirInv, NEW p \in Procs,
           NEW l, NEW t, NEW c, NEW r, NEW i, NEW d, NEW o, NEW n, NEW u,
           Sets(p, l, t, c, r, i, d, o, n, u), TurnsTo(icache', p), dinode' = dinode,
           PathOf(c, r), LockOf(p, l, t, i, d, u, icache'), FreeOf(l, u, icache'),
           \A s \in Slots : FileOn(s)' => InUse(s),
           \A s \in Slots : Uses(l, i, d, o, u, s) => InUse(s) \/ dinode[icache'[s].inum].nlink >= 1,
           Whither(l, t) = "unlink_dec" => Where(p) = "unlink_dec" /\ i = ip[p],
           o # 0 => o = old[p],
           n = inum[p],
           n # 0 => pc[p] = "ialloc_iget" /\ c = call[p] /\ (l = "create_new" => icache'[i].inum = n),
           l = "unlink_ip" => dinode[icache'[d].inum].ents[Head(r)] = icache'[i].inum
    PROVE  Turned
<1>1. /\ OthersSame(p)
      /\ pc'[p] = l /\ ret'[p] = t /\ call'[p] = c /\ rest'[p] = r
      /\ ip'[p] = i /\ dp'[p] = d /\ old'[p] = o /\ inum'[p] = n /\ puts'[p] = u
  BY After DEF Ok, Running
<1>2. Turns(p)
  BY DEF Turns
<1>3. Refs /\ Refs'
  BY OkRefs, OkRefsNext
<1>4. \A q \in Procs : inum'[q] = inum[q]
  BY <1>1 DEF OthersSame
<1>5. LockInv' /\ FreeInv' /\ RootInv'
  BY <1>1, <1>2, LocksKept DEF CallInv
<1>6. PathInv'
  <2>1. \A q \in Procs : q # p => PathOf(call[q], rest[q]) /\ call'[q] = call[q] /\ rest'[q] = rest[q]
    BY <1>1 DEF OthersSame, CallInv, PathInv
  <2> QED
    BY <1>1, <2>1 DEF PathInv
<1>7. \A s \in Slots : FileOn(s)' \/ Uses(pc'[p], ip'[p], dp'[p], old'[p], puts'[p], s) => InUse(s) \/ Fresh(s)'
  <2> SUFFICES ASSUME NEW s \in Slots, Uses(l, i, d, o, u, s), ~InUse(s)
               PROVE  Fresh(s)'
    BY <1>1
  <2>1. PICK k : k = icache'[s].inum
    OBVIOUS
  <2>2. k \in Inums /\ k # 0
    <3>1. Pointed(s)'
      BY <1>1 DEF Uses, Pointed, Put1, Put2
    <3> QED
      BY <1>3, <2>1, <3>1 DEF Refs, Inum, Inums
  <2>3. dinode[k].nlink >= 1 /\ dinode[k].nlink \in Int
    BY <2>1, <2>2 DEF Ok, Good, DinodeRec
  <2>4. dinode'[k].type # "none"
    BY <2>2, <2>3 DEF DirInv, DiskInv
  <2>5. ASSUME NEW q \in Procs, inum[q] = k
        PROVE  FALSE
    BY <2>2, <2>3, <2>5 DEF DirInv, NewInv, NewOf
  <2> QED
    BY <1>4, <2>1, <2>4, <2>5 DEF Fresh, Inum
<1>8. \A s \in Slots : InUse(s) /\ InUse(s)' => dinode'[Inum(s)].type # "none" /\ inum'[p] # Inum(s)
  BY <1>4 DEF DirInv, FreshInv, Fresh
<1>9. NewOf(p)'
  <2> SUFFICES ASSUME n # 0
               PROVE  NewOf(p)'
    BY <1>1 DEF NewOf
  <2>1. NewOf(p) /\ NewType(p)' = NewType(p) /\ \A s \in Slots : InUse(s) => inum[p] # icache[s].inum
    BY <1>1 DEF DirInv, NewInv, FreshInv, Fresh, NewType, Op, Inum
  <2>2. \A s \in Slots : icache'[s].ref > 0 /\ icache'[s].inum = n => ~icache'[s].valid
    <3> SUFFICES ASSUME NEW s \in Slots, icache'[s].ref > 0, icache'[s].inum = n, icache'[s].valid
                 PROVE  FALSE
      OBVIOUS
    <3>1. /\ icache[s].ref > 0 /\ icache'[s].inum = icache[s].inum
          /\ icache[s].valid \/ InUse(s)
      BY DEF TurnsTo
    <3> QED
      BY <2>1, <3>1 DEF NewOf, Inum
  <2>3. dinode'[n].nlink = 0 /\ dinode'[n].type = NewType(p) /\ \A x \in Names : dinode'[n].ents[x] = 0
    BY <2>1 DEF NewOf
  <2>4. \A q \in Procs : inum'[q] = n => q = p
    BY <1>4, <2>1 DEF NewOf
  <2> QED
    BY <1>1, <2>1, <2>2, <2>3, <2>4 DEF NewOf, Inum
<1>10. UnlinkOf(p)'
  BY <1>1 DEF UnlinkOf, Inum
<1>11. DiskInv'
  BY DEF DirInv, DiskInv
<1>12. LinkInv'
  <2> SUFFICES ASSUME NEW m \in Inums
               PROVE  dinode'[m].nlink >= LinkSum(m)'
    BY DEF LinkInv
  <2>1. NamesOf(m)' = NamesOf(m) /\ SubDirs(m)' = SubDirs(m)
    BY DEF NamesOf, SubDirs
  <2>2. /\ Cardinality(Unlinkers(m)') + In(p, Unlinkers(m)) = Cardinality(Unlinkers(m)) + In(p, Unlinkers(m)')
        /\ Cardinality(Linkers(m)') + In(p, Linkers(m)) = Cardinality(Linkers(m)) + In(p, Linkers(m)')
    BY <1>1, <1>2, CallersMove
  <2>3. p \in Unlinkers(m)' => p \in Unlinkers(m)
    <3> SUFFICES ASSUME Whither(l, t) = "unlink_dec", icache'[i].inum = m
                 PROVE  p \in Unlinkers(m)
      BY <1>1 DEF Unlinkers, Where, Inum
    <3>1. i \in Slots /\ i = ip[p] /\ i = ip'[p] /\ Where(p) = "unlink_dec"
      BY <1>1, ValuesNow DEF Ok, HandOf, Where, HasIp
    <3>2. Pointed(i) /\ Pointed(i)'
      BY <3>1 DEF Pointed
    <3>3. icache'[i].inum = icache[i].inum
      BY <1>3, <3>1, <3>2 DEF Refs, TurnsTo
    <3> QED
      BY <3>1, <3>3 DEF Unlinkers, Inum
  <2>4. p \in Linkers(m)' => p \in Linkers(m)
    <3> SUFFICES ASSUME o # 0, icache'[o].inum = m
                 PROVE  p \in Linkers(m)
      BY <1>1 DEF Linkers, Inum
    <3>1. o \in Slots /\ o = old[p] /\ o = old'[p]
      BY <1>1, ValuesNow DEF Ok
    <3>2. Pointed(o) /\ Pointed(o)'
      BY <3>1 DEF Pointed
    <3>3. icache'[o].inum = icache[o].inum
      BY <1>3, <3>1, <3>2 DEF Refs, TurnsTo
    <3> QED
      BY <3>1, <3>3 DEF Linkers, Inum
  <2>5. Cardinality(Unlinkers(m)') <= Cardinality(Unlinkers(m)) /\ Cardinality(Linkers(m)') <= Cardinality(Linkers(m))
    BY <2>2, <2>3, <2>4, NamesFinite, NamesFiniteNext DEF In
  <2>6. dinode[m].nlink >= LinkSum(m) /\ dinode[m].nlink \in Int
    BY DEF DirInv, LinkInv, Ok, Good, DinodeRec
  <2> QED
    BY <2>1, <2>5, <2>6, LinkSumParts, NamesFinite, NamesFiniteNext
<1>13. DirInv'
  <2>1. \A q \in Procs : q # p /\ inum[q] # 0 => inum'[p] # inum[q]
    BY <1>4 DEF DirInv, NewInv, NewOf
  <2>2. old'[p] # 0 => old'[p] = old[p]
    BY <1>1
  <2>3. /\ \A q \in Procs : q # p /\ inum[q] # 0 =>
             /\ dinode'[inum[q]].nlink = dinode[inum[q]].nlink /\ dinode'[inum[q]].type = dinode[inum[q]].type
             /\ \A x \in Names : dinode'[inum[q]].ents[x] = dinode[inum[q]].ents[x]
             /\ inum'[p] # inum[q]
        /\ \A q \in Procs : q # p /\ pc[q] = "unlink_ip" =>
             dinode'[Inum(dp[q])].ents[Head(rest[q])] = dinode[Inum(dp[q])].ents[Head(rest[q])]
        /\ \A m \in Inums : dinode'[m].type = "dir" => dinode[m].type \in {"dir", "none"}
    BY <2>1
  <2> QED
    BY <1>1, <1>2, <1>7, <1>8, <1>9, <1>10, <1>11, <1>12, <2>2, <2>3, DirStep
<1> QED
  BY <1>5, <1>6, <1>13 DEF Turned, CallInv

-----------------------------------------------------------------------------
(* The ways that write nothing to the disk *)

LEMMA NoLocks ==
    ASSUME NEW p, NEW l, NEW t, NEW i, NEW d, NEW u, NEW c, ~OwnsIp(l, t), ~OwnsDp(l), ~OwnsPut1(l, u), ~OwnsPut2(u)
    PROVE  LockOf(p, l, t, i, d, u, c)
  BY DEF LockOf, Owns

LEMMA SameFiles ==
    ASSUME UNCHANGED files
    PROVE  \A s : FileOn(s)' => InUse(s)
  BY DEF files, FileOn, InUse

LEMMA UsesInUse ==
    ASSUME NEW p \in Procs, NEW s, Uses(pc[p], ip[p], dp[p], old[p], puts[p], s)
    PROVE  InUse(s)
  BY DEF InUse

LEMMA PathHead ==
    ASSUME CallInv, NEW p \in Procs, rest[p] # <<>>
    PROVE  Head(rest[p]) \in Names /\ Tail(rest[p]) \in Seq(Names)
<1>1. rest[p] \in Seq(Names)
  BY DEF CallInv, PathInv, PathOf
<1> QED
  BY <1>1, HeadTailProperties

LEMMA LinkedLives ==
    ASSUME Ok, NEW n \in Inums, dinode[n].nlink >= 1
    PROVE  Lives(n)
<1>1. \A x \in Slots : icache[x].ref > 0 /\ Inum(x) = n /\ icache[x].valid => icache[x].nlink = dinode[n].nlink
  BY DEF Ok, Good, Agrees, Inum
<1> QED
  BY <1>1 DEF Lives

\* The inode that a name stands for.
LEMMA NamedLives ==
    ASSUME Ok, DirInv, NEW s \in Slots, icache[s].inum \in Inums, NEW x \in Names, NEW n, n = Entry(s, x), n # 0
    PROVE  n \in Inums /\ dinode[n].nlink >= 1 /\ Lives(n)
<1>1. n \in Inums /\ dinode[icache[s].inum].ents[x] = n
  BY EntryIs DEF Ok, Entry
<1>2. dinode[n].nlink >= 1
  BY <1>1, NamedLinked DEF DirInv
<1> QED
  BY <1>1, <1>2, LinkedLives

LEMMA RootLives ==
    ASSUME Ok, DirInv
    PROVE  Root \in Inums /\ dinode[Root].nlink >= 1 /\ Lives(Root)
  BY RootIs, NamedLinked, LinkedLives DEF DirInv

\* ilock, and at once iunlockput.
LEMMA LockPutTurn ==
    ASSUME Ok, Ok', CallInv, DirInv, NEW p \in Procs, NEW s \in Slots, icache[s].ref > 0, InUse(s), Locks(s),
           icache' = Locked(s), dinode' = dinode, UNCHANGED files, inum[p] = 0, pc[p] # "create_new",
           NEW t, t \notin {"openfile", "unlink_dec"}, NEW i \in {0, ip[p]}, NEW d \in {0, dp[p]},
           Sets(p, "put", t, call[p], rest[p], i, d, old[p], inum[p], <<Put(s)>>)
    PROVE  Turned
<1>1. PICK u \in Seq(PutRec) : u = <<Put(s)>> /\ Len(u) = 1 /\ First(u) = s /\ Second(u) = 0 /\ ~u[1].held
  BY PutOne
<1>2. TurnsTo(icache', p)
  BY LocksTurn
<1>3. LockOf(p, "put", t, i, d, u, icache') /\ FreeOf("put", u, icache')
  <2>1. ~OwnsIp("put", t) /\ ~OwnsDp("put") /\ ~OwnsPut1("put", u) /\ ~OwnsPut2(u)
    BY <1>1 DEF OwnsIp, OwnsDp, OwnsPut1, OwnsPut2, Whither, Putting3
  <2> QED
    BY <2>1, NoLocks DEF FreeOf
<1>4. PathOf(call[p], rest[p])
  BY DEF CallInv, PathInv
<1>5. \A x \in Slots : Uses("put", i, d, old[p], u, x) => InUse(x) \/ dinode[icache'[x].inum].nlink >= 1
  <2> SUFFICES ASSUME NEW x \in Slots, Uses("put", i, d, old[p], u, x)
               PROVE  InUse(x)
    OBVIOUS
  <2>1. x # 0
    BY DEF Slots
  <2>2. x = s \/ Uses(pc[p], ip[p], dp[p], old[p], puts[p], x)
    BY <1>1, <2>1 DEF Uses
  <2> QED
    BY <2>2, UsesInUse
<1>6. \A x \in Slots : FileOn(x)' => InUse(x)
  BY SameFiles
<1>7. Whither("put", t) # "unlink_dec"
  BY DEF Whither, Putting3
<1>8. Sets(p, "put", t, call[p], rest[p], i, d, old[p], inum[p], u)
  BY <1>1
<1> QED
  BY <1>2, <1>3, <1>4, <1>5, <1>6, <1>7, <1>8, CallTurn

\* ilock of what a call goes on with.
LEMMA LockHoldTurn ==
    ASSUME Ok, Ok', CallInv, DirInv, NEW p \in Procs, NEW s \in Slots, icache[s].ref > 0, InUse(s), Locks(s),
           icache' = Hold(Locked(s), p, s), dinode' = dinode, UNCHANGED files, inum[p] = 0, pc[p] # "create_new",
           Len(puts[p]) = 0, NEW l \in {"openfile", "ialloc"}, l = "openfile" => s = ip[p], l = "ialloc" => s = dp[p],
           Sets(p, l, ret[p], call[p], rest[p], ip[p], dp[p], old[p], inum[p], puts[p])
    PROVE  Turned
<1>1. TurnsTo(icache', p) /\ icache'[s].owner = p /\ icache'[s].valid
  BY LocksTurn
<1>2. LockOf(p, l, ret[p], ip[p], dp[p], puts[p], icache') /\ FreeOf(l, puts[p], icache')
  <2>1. /\ OwnsIp(l, ret[p]) => l = "openfile"
        /\ OwnsDp(l) => l = "ialloc"
        /\ ~OwnsPut1(l, puts[p]) /\ ~OwnsPut2(puts[p])
    BY DEF OwnsIp, OwnsDp, OwnsPut1, OwnsPut2, Whither, Putting3
  <2>2. \A x \in Slots : Owns(l, ret[p], ip[p], dp[p], puts[p], x) => x = s
    BY <2>1 DEF Owns
  <2> QED
    BY <1>1, <2>1, <2>2 DEF LockOf, FreeOf
<1>3. PathOf(call[p], rest[p])
  BY DEF CallInv, PathInv
<1>4. \A x \in Slots : Uses(l, ip[p], dp[p], old[p], puts[p], x) => InUse(x) \/ dinode[icache'[x].inum].nlink >= 1
  <2> SUFFICES ASSUME NEW x \in Slots, Uses(l, ip[p], dp[p], old[p], puts[p], x)
               PROVE  InUse(x)
    OBVIOUS
  <2>1. First(puts[p]) = 0 /\ Second(puts[p]) = 0 /\ x # 0
    BY DEF First, Second, Slots
  <2>2. Uses(pc[p], ip[p], dp[p], old[p], puts[p], x)
    BY <2>1 DEF Uses
  <2> QED
    BY <2>2, UsesInUse
<1>5. \A x \in Slots : FileOn(x)' => InUse(x)
  BY SameFiles
<1>6. Whither(l, ret[p]) # "unlink_dec" /\ l # "unlink_ip"
  BY DEF Whither, Putting3
<1> QED
  BY <1>1, <1>2, <1>3, <1>4, <1>5, <1>6, CallTurn

LEMMA WalkParentTurn ==
    ASSUME Ok, Ok', CallInv, DirInv, NEW p \in Procs, WalkParent(p)
    PROVE  Turned
<1>1. PICK s, l : /\ s = ip[p] /\ l = Found(p) /\ pc[p] = "walk" /\ Locks(s) /\ AtParent(p)
                  /\ icache' = Locked(s) /\ UNCHANGED <<dinode, files>>
                  /\ Sets(p, l, ret[p], call[p], rest[p], 0, s, old[p], inum[p], puts[p])
  BY DEF WalkParent
<1>2. s \in Slots /\ icache[s].ref > 0 /\ Len(puts[p]) = 0 /\ inum[p] = 0 /\ First(puts[p]) = 0 /\ Second(puts[p]) = 0
  BY <1>1, NotPutting DEF Ok, Putting3, HasIp
<1>3. l \in {"create", "unlink", "link_new"}
  BY <1>1 DEF AtParent, WantsParent, Found
<1>4. InUse(s)
  BY <1>1 DEF InUse, Uses
<1>5. TurnsTo(icache', p)
  BY <1>1, <1>2, <1>4, LocksTurn
<1>6. LockOf(p, l, ret[p], 0, s, puts[p], icache') /\ FreeOf(l, puts[p], icache')
  <2>1. ~OwnsIp(l, ret[p]) /\ ~OwnsDp(l) /\ ~OwnsPut1(l, puts[p]) /\ ~OwnsPut2(puts[p])
    BY <1>2, <1>3 DEF OwnsIp, OwnsDp, OwnsPut1, OwnsPut2, Whither, Putting3
  <2> QED
    BY <1>3, <2>1, NoLocks DEF FreeOf
<1>7. PathOf(call[p], rest[p])
  BY DEF CallInv, PathInv
<1>8. \A x \in Slots : Uses(l, 0, s, old[p], puts[p], x) => InUse(x) \/ dinode[icache'[x].inum].nlink >= 1
  <2> SUFFICES ASSUME NEW x \in Slots, Uses(l, 0, s, old[p], puts[p], x)
               PROVE  InUse(x)
    OBVIOUS
  <2>1. x # 0
    BY DEF Slots
  <2>2. Uses(pc[p], ip[p], dp[p], old[p], puts[p], x)
    BY <1>1, <1>2, <2>1 DEF Uses
  <2> QED
    BY <2>2, UsesInUse
<1>9. \A x \in Slots : FileOn(x)' => InUse(x)
  BY <1>1, SameFiles
<1>10. Whither(l, ret[p]) # "unlink_dec" /\ l # "unlink_ip"
  BY <1>3 DEF Whither, Putting3
<1>11. dinode' = dinode /\ Sets(p, l, ret[p], call[p], rest[p], 0, s, old[p], inum[p], puts[p])
  BY <1>1
<1> QED
  BY <1>2, <1>5, <1>6, <1>7, <1>8, <1>9, <1>10, <1>11, CallTurn

LEMMA WalkFailsTurn ==
    ASSUME Ok, Ok', CallInv, DirInv, NEW p \in Procs, WalkFails(p)
    PROVE  Turned
<1>1. PICK s, t : /\ s = ip[p] /\ t = Failed(p) /\ pc[p] = "walk" /\ Locks(s)
                  /\ icache' = Locked(s) /\ UNCHANGED <<dinode, files>>
                  /\ Sets(p, "put", t, call[p], rest[p], 0, dp[p], old[p], inum[p], <<Put(s)>>)
  BY DEF WalkFails
<1>2. s \in Slots /\ icache[s].ref > 0 /\ inum[p] = 0
  BY <1>1, NotPutting DEF Ok, Putting3, HasIp
<1>3. t \notin {"openfile", "unlink_dec"} /\ InUse(s)
  BY <1>1 DEF Failed, InUse, Uses
<1> QED
  BY <1>1, <1>2, <1>3, LockPutTurn

LEMMA GivesUpTurn ==
    ASSUME Ok, Ok', CallInv, DirInv, NEW p \in Procs, GivesUp(p)
    PROVE  Turned
<1>1. PICK s : /\ s = ip[p] /\ pc[p] \in {"open", "create_found", "link"} /\ Locks(s)
               /\ icache' = Locked(s) /\ UNCHANGED <<dinode, files>>
               /\ Sets(p, "put", "user", call[p], rest[p], 0, dp[p], old[p], inum[p], <<Put(s)>>)
  BY DEF GivesUp
<1>2. s \in Slots /\ icache[s].ref > 0 /\ inum[p] = 0
  BY <1>1, NotPutting DEF Ok, Putting3, HasIp
<1>3. InUse(s) /\ pc[p] # "create_new"
  BY <1>1 DEF InUse, Uses
<1> QED
  BY <1>1, <1>2, <1>3, LockPutTurn

LEMMA UnlinkFailsTurn ==
    ASSUME Ok, Ok', CallInv, DirInv, NEW p \in Procs, UnlinkFails(p)
    PROVE  Turned
<1>1. PICK s : /\ s = dp[p] /\ pc[p] = "unlink" /\ Locks(s)
               /\ icache' = Locked(s) /\ UNCHANGED <<dinode, files>>
               /\ Sets(p, "put", "user", call[p], rest[p], ip[p], 0, old[p], inum[p], <<Put(s)>>)
  BY DEF UnlinkFails
<1>2. s \in Slots /\ icache[s].ref > 0 /\ inum[p] = 0
  BY <1>1, NotPutting DEF Ok, Putting3, HasDp
<1>3. InUse(s) /\ pc[p] # "create_new"
  BY <1>1 DEF InUse, Uses
<1> QED
  BY <1>1, <1>2, <1>3, LockPutTurn

LEMMA OpensTurn ==
    ASSUME Ok, Ok', CallInv, DirInv, NEW p \in Procs, Opens(p)
    PROVE  Turned
<1>1. PICK s : /\ s = ip[p] /\ pc[p] \in {"open", "create_found"} /\ Locks(s)
               /\ icache' = Hold(Locked(s), p, s) /\ UNCHANGED <<dinode, files>>
               /\ Sets(p, "openfile", ret[p], call[p], rest[p], ip[p], dp[p], old[p], inum[p], puts[p])
  BY DEF Opens
<1>2. s \in Slots /\ icache[s].ref > 0 /\ inum[p] = 0 /\ Len(puts[p]) = 0
  BY <1>1, NotPutting DEF Ok, Putting3, HasIp
<1>3. InUse(s) /\ pc[p] # "create_new"
  BY <1>1 DEF InUse, Uses
<1> QED
  BY <1>1, <1>2, <1>3, LockHoldTurn

LEMMA CreateFreeTurn ==
    ASSUME Ok, Ok', CallInv, DirInv, NEW p \in Procs, CreateFree(p)
    PROVE  Turned
<1>1. PICK s : /\ s = dp[p] /\ pc[p] = "create" /\ Locks(s)
               /\ icache' = Hold(Locked(s), p, s) /\ UNCHANGED <<dinode, files>>
               /\ Sets(p, "ialloc", ret[p], call[p], rest[p], ip[p], dp[p], old[p], inum[p], puts[p])
  BY DEF CreateFree
<1>2. s \in Slots /\ icache[s].ref > 0 /\ inum[p] = 0 /\ Len(puts[p]) = 0
  BY <1>1, NotPutting DEF Ok, Putting3, HasDp
<1>3. InUse(s) /\ pc[p] # "create_new"
  BY <1>1 DEF InUse, Uses
<1> QED
  BY <1>1, <1>2, <1>3, LockHoldTurn

\* ilock of a directory, iget of what a name in it stands for, iunlockput.
LEMMA LockGetTurn ==
    ASSUME Ok, Ok', CallInv, DirInv, NEW p \in Procs, NEW s \in Slots, icache[s].ref > 0, InUse(s), Locks(s),
           NEW m \in Inums, dinode[m].nlink >= 1, Lives(m), CanIget(m),
           icache' = Gotten(Locked(s), m), dinode' = dinode, UNCHANGED files, inum[p] = 0,
           NEW t, t \notin {"openfile", "unlink_dec"}, NEW r, PathOf(call[p], r), NEW d \in {0, dp[p]},
           Sets(p, "put", t, call[p], r, Iget(m), d, old[p], inum[p], <<Put(s)>>)
    PROVE  Turned
<1>1. PICK u \in Seq(PutRec) : u = <<Put(s)>> /\ Len(u) = 1 /\ First(u) = s /\ Second(u) = 0 /\ ~u[1].held
  BY PutOne
<1>2. TurnsTo(icache', p) /\ Iget(m) \in Slots /\ icache'[Iget(m)].inum = m
  BY LocksGetTurn
<1>3. LockOf(p, "put", t, Iget(m), d, u, icache') /\ FreeOf("put", u, icache')
  <2>1. ~OwnsIp("put", t) /\ ~OwnsDp("put") /\ ~OwnsPut1("put", u) /\ ~OwnsPut2(u)
    BY <1>1 DEF OwnsIp, OwnsDp, OwnsPut1, OwnsPut2, Whither, Putting3
  <2> QED
    BY <2>1, NoLocks DEF FreeOf
<1>4. \A x \in Slots : Uses("put", Iget(m), d, old[p], u, x) => InUse(x) \/ dinode[icache'[x].inum].nlink >= 1
  <2> SUFFICES ASSUME NEW x \in Slots, Uses("put", Iget(m), d, old[p], u, x), x # Iget(m)
               PROVE  InUse(x)
    BY <1>2
  <2>1. x # 0
    BY DEF Slots
  <2>2. x = s \/ Uses(pc[p], ip[p], dp[p], old[p], puts[p], x)
    BY <1>1, <2>1 DEF Uses
  <2> QED
    BY <2>2, UsesInUse
<1>5. \A x \in Slots : FileOn(x)' => InUse(x)
  BY SameFiles
<1>6. Whither("put", t) # "unlink_dec"
  BY DEF Whither, Putting3
<1>7. Sets(p, "put", t, call[p], r, Iget(m), d, old[p], inum[p], u)
  BY <1>1
<1> QED
  BY <1>2, <1>3, <1>4, <1>5, <1>6, <1>7, CallTurn

LEMMA WalkOnTurn ==
    ASSUME Ok, Ok', CallInv, DirInv, NEW p \in Procs, WalkOn(p)
    PROVE  Turned
<1>1. PICK s, m, t, r :
         /\ s = ip[p] /\ m = NextEntry(p) /\ t = (IF Len(rest[p]) = 1 THEN Found(p) ELSE "walk") /\ r = Tail(rest[p])
         /\ pc[p] = "walk" /\ Locks(s) /\ m # 0 /\ CanIget(m)
         /\ icache' = Gotten(Locked(s), m) /\ UNCHANGED <<dinode, files>>
         /\ Sets(p, "put", t, call[p], r, Iget(m), dp[p], old[p], inum[p], <<Put(s)>>)
  BY DEF WalkOn
<1>2. s \in Slots /\ icache[s].ref > 0 /\ icache[s].inum \in Inums /\ inum[p] = 0 /\ rest[p] # <<>>
      /\ Op(p) \in {"open", "create", "mkdir", "unlink", "link", "link_new"}
  BY <1>1, NotPutting DEF Ok, Putting3, HasIp, HasRest
<1>3. t \notin {"openfile", "unlink_dec"} /\ InUse(s)
  BY <1>1, <1>2 DEF Found, InUse, Uses
<1>4. Head(rest[p]) \in Names /\ r \in Seq(Names)
  BY <1>1, <1>2, PathHead
<1>5. m \in Inums /\ dinode[m].nlink >= 1 /\ Lives(m)
  <2>1. m = Entry(s, Head(rest[p]))
    BY <1>1 DEF NextEntry
  <2> QED
    BY <1>1, <1>2, <1>4, <2>1, NamedLives
<1>6. PathOf(call[p], r)
  BY <1>4 DEF CallInv, PathInv, PathOf
<1> QED
  BY <1>1, <1>2, <1>3, <1>5, <1>6, LockGetTurn

LEMMA CreateTakenTurn ==
    ASSUME Ok, Ok', CallInv, DirInv, NEW p \in Procs, CreateTaken(p)
    PROVE  Turned
<1>1. PICK s, m :
         /\ s = dp[p] /\ m = LastName(p) /\ pc[p] = "create" /\ Locks(s) /\ m # 0 /\ CanIget(m)
         /\ icache' = Gotten(Locked(s), m) /\ UNCHANGED <<dinode, files>>
         /\ Sets(p, "put", "create_found", call[p], rest[p], Iget(m), 0, old[p], inum[p], <<Put(s)>>)
  BY DEF CreateTaken
<1>2. s \in Slots /\ icache[s].ref > 0 /\ icache[s].inum \in Inums /\ inum[p] = 0 /\ rest[p] # <<>>
  BY <1>1, NotPutting DEF Ok, Putting3, HasDp, HasRest
<1>3. InUse(s)
  BY <1>1 DEF InUse, Uses
<1>4. Head(rest[p]) \in Names /\ PathOf(call[p], rest[p])
  BY <1>2, PathHead DEF CallInv, PathInv
<1>5. m \in Inums /\ dinode[m].nlink >= 1 /\ Lives(m)
  <2>1. m = Entry(s, Head(rest[p]))
    BY <1>1 DEF LastName
  <2> QED
    BY <1>1, <1>2, <1>4, <2>1, NamedLives
<1> QED
  BY <1>1, <1>2, <1>3, <1>4, <1>5, LockGetTurn

LEMMA UnlinkFindsTurn ==
    ASSUME Ok, Ok', CallInv, DirInv, NEW p \in Procs, UnlinkFinds(p)
    PROVE  Turned
<1>1. PICK s, m :
         /\ s = dp[p] /\ m = LastName(p) /\ pc[p] = "unlink" /\ Locks(s) /\ m # 0 /\ CanIget(m)
         /\ icache' = Hold(Gotten(Locked(s), m), p, s) /\ UNCHANGED <<dinode, files>>
         /\ Sets(p, "unlink_ip", ret[p], call[p], rest[p], Iget(m), s, old[p], inum[p], puts[p])
  BY DEF UnlinkFinds
<1>2. /\ s \in Slots /\ icache[s].ref > 0 /\ icache[s].inum \in Inums /\ inum[p] = 0 /\ rest[p] # <<>>
      /\ Len(puts[p]) = 0 /\ First(puts[p]) = 0 /\ Second(puts[p]) = 0
  BY <1>1, NotPutting DEF Ok, Putting3, HasDp, HasRest
<1>3. InUse(s)
  BY <1>1 DEF InUse, Uses
<1>4. Head(rest[p]) \in Names /\ PathOf(call[p], rest[p])
  BY <1>2, PathHead DEF CallInv, PathInv
<1>5. m = Entry(s, Head(rest[p]))
  BY <1>1 DEF LastName
<1>6. m \in Inums /\ dinode[m].nlink >= 1 /\ Lives(m)
  BY <1>1, <1>2, <1>4, <1>5, NamedLives
<1>7. /\ TurnsTo(icache', p) /\ Iget(m) \in Slots /\ icache'[Iget(m)].inum = m
      /\ icache'[s].owner = p /\ icache'[s].valid /\ icache'[s].inum = icache[s].inum
  BY <1>1, <1>2, <1>3, <1>6, LocksGetTurn
<1>8. LockOf(p, "unlink_ip", ret[p], Iget(m), s, puts[p], icache') /\ FreeOf("unlink_ip", puts[p], icache')
  <2>1. ~OwnsIp("unlink_ip", ret[p]) /\ ~OwnsPut1("unlink_ip", puts[p]) /\ ~OwnsPut2(puts[p])
    BY <1>2 DEF OwnsIp, OwnsPut1, OwnsPut2, Whither, Putting3
  <2> QED
    BY <1>7, <2>1 DEF LockOf, Owns, FreeOf
<1>9. \A x \in Slots : Uses("unlink_ip", Iget(m), s, old[p], puts[p], x) => InUse(x) \/ dinode[icache'[x].inum].nlink >= 1
  <2> SUFFICES ASSUME NEW x \in Slots, Uses("unlink_ip", Iget(m), s, old[p], puts[p], x), x # Iget(m)
               PROVE  InUse(x)
    BY <1>6, <1>7
  <2>1. x # 0
    BY DEF Slots
  <2>2. x = s \/ Uses(pc[p], ip[p], dp[p], old[p], puts[p], x)
    BY <1>2, <2>1 DEF Uses
  <2> QED
    BY <1>3, <2>2, UsesInUse
<1>10. \A x \in Slots : FileOn(x)' => InUse(x)
  BY <1>1, SameFiles
<1>11. Whither("unlink_ip", ret[p]) # "unlink_dec"
  BY DEF Whither, Putting3
<1>12. dinode[icache'[s].inum].ents[Head(rest[p])] = icache'[Iget(m)].inum
  BY <1>5, <1>7 DEF Entry
<1>13. dinode' = dinode /\ Sets(p, "unlink_ip", ret[p], call[p], rest[p], Iget(m), s, old[p], inum[p], puts[p])
  BY <1>1
<1> QED
  BY <1>2, <1>4, <1>7, <1>8, <1>9, <1>10, <1>11, <1>12, <1>13, CallTurn

\* The locks a process has, as one fact for each place it has them.
LEMMA LocksNow ==
    ASSUME Ok, LockInv, NEW p \in Procs
    PROVE  /\ OwnsIp(pc[p], ret[p]) => ip[p] \in Slots /\ icache[ip[p]].owner = p /\ icache[ip[p]].valid
           /\ OwnsDp(pc[p]) => dp[p] \in Slots /\ icache[dp[p]].owner = p /\ icache[dp[p]].valid
           /\ OwnsPut1(pc[p], puts[p]) => Put1(p) \in Slots /\ icache[Put1(p)].owner = p /\ icache[Put1(p)].valid
           /\ OwnsPut2(puts[p]) => Put2(p) \in Slots /\ icache[Put2(p)].owner = p /\ icache[Put2(p)].valid
<1>1. LockOf(p, pc[p], ret[p], ip[p], dp[p], puts[p], icache)
  BY DEF LockInv
<1>2. /\ HandOf(pc[p], ret[p], call[p], rest[p], ip[p], dp[p], old[p], inum[p], puts[p])
      /\ ip[p] # 0 => ip[p] \in Slots
      /\ dp[p] # 0 => dp[p] \in Slots
      /\ Len(puts[p]) # 0 => Put1(p) \in Slots
      /\ Len(puts[p]) = 2 => Put2(p) \in Slots
  BY ValuesNow DEF Ok
<1>3. OwnsIp(pc[p], ret[p]) => ip[p] \in Slots
  BY <1>2 DEF HandOf, OwnsIp, HasIp
<1>4. OwnsDp(pc[p]) => dp[p] \in Slots
  BY <1>2 DEF HandOf, OwnsDp, HasDp, Whither, Putting3
<1>5. OwnsPut1(pc[p], puts[p]) => Put1(p) \in Slots
  BY <1>2 DEF OwnsPut1
<1>6. OwnsPut2(puts[p]) => Put2(p) \in Slots
  BY <1>2 DEF OwnsPut2
<1> QED
  BY <1>1, <1>3, <1>4, <1>5, <1>6 DEF LockOf, Owns, Put1, Put2

LEMMA UnlinkRefusedTurn ==
    ASSUME Ok, Ok', CallInv, DirInv, NEW p \in Procs, UnlinkRefused(p)
    PROVE  Turned
<1>1. PICK s, d : /\ s = ip[p] /\ d = dp[p] /\ pc[p] = "unlink_ip" /\ Locks(s)
                  /\ icache' = Locked(s) /\ UNCHANGED <<dinode, files>>
                  /\ Sets(p, "put", "user", call[p], rest[p], 0, 0, old[p], inum[p], <<Put(s), UnlockPut(d)>>)
  BY DEF UnlinkRefused
<1>2. s \in Slots /\ icache[s].ref > 0 /\ d \in Slots /\ inum[p] = 0
  BY <1>1, NotPutting DEF Ok, Putting3, HasIp, HasDp
<1>3. InUse(s) /\ InUse(d)
  BY <1>1 DEF InUse, Uses
<1>4. icache[d].owner = p /\ icache[d].valid
  BY <1>1, LocksNow DEF CallInv, OwnsDp
<1>5. TurnsTo(icache', p) /\ icache'[d].owner = p /\ icache'[d].valid
  BY <1>1, <1>2, <1>3, <1>4, LocksTurn
<1>6. PICK a \in PutRec, b \in PutRec : a = Put(s) /\ b = UnlockPut(d) /\ a.slot = s /\ b.slot = d /\ ~a.held /\ b.held
  BY <1>2, PutIs
<1>7. PICK u \in Seq(PutRec) : u = <<a, b>> /\ Len(u) = 2 /\ First(u) = a.slot /\ Second(u) = b.slot
                               /\ u[1] = a /\ u[2] = b
  BY TwoOf
<1>8. LockOf(p, "put", "user", 0, 0, u, icache') /\ FreeOf("put", u, icache')
  <2>1. ~OwnsIp("put", "user") /\ ~OwnsDp("put") /\ ~OwnsPut1("put", u)
    BY <1>6, <1>7 DEF OwnsIp, OwnsDp, OwnsPut1, Whither, Putting3
  <2> QED
    BY <1>5, <1>6, <1>7, <2>1 DEF LockOf, Owns, FreeOf
<1>9. PathOf(call[p], rest[p])
  BY DEF CallInv, PathInv
<1>10. \A x \in Slots : Uses("put", 0, 0, old[p], u, x) => InUse(x) \/ dinode[icache'[x].inum].nlink >= 1
  <2> SUFFICES ASSUME NEW x \in Slots, Uses("put", 0, 0, old[p], u, x)
               PROVE  InUse(x)
    OBVIOUS
  <2>1. x # 0
    BY DEF Slots
  <2>2. x = s \/ x = d \/ Uses(pc[p], ip[p], dp[p], old[p], puts[p], x)
    BY <1>6, <1>7, <2>1 DEF Uses
  <2> QED
    BY <1>3, <2>2, UsesInUse
<1>11. \A x \in Slots : FileOn(x)' => InUse(x)
  BY <1>1, SameFiles
<1>12. Whither("put", "user") # "unlink_dec"
  BY DEF Whither, Putting3
<1>13. dinode' = dinode /\ Sets(p, "put", "user", call[p], rest[p], 0, 0, old[p], inum[p], u)
  BY <1>1, <1>6, <1>7
<1> QED
  BY <1>2, <1>5, <1>8, <1>9, <1>10, <1>11, <1>12, <1>13, CallTurn

LEMMA LinkTakenTurn ==
    ASSUME Ok, Ok', CallInv, DirInv, NEW p \in Procs, LinkTaken(p)
    PROVE  Turned
<1>1. PICK s, m :
         /\ s = dp[p] /\ m = LastName(p) /\ pc[p] = "link_new" /\ Locks(s) /\ m # 0 /\ CanIget(m)
         /\ icache' = Hold(Gotten(Locked(s), m), p, s) /\ UNCHANGED <<dinode, files>>
         /\ Sets(p, "put", "link_undo", call[p], rest[p], ip[p], 0, old[p], inum[p], <<Put(Iget(m)), UnlockPut(s)>>)
  BY DEF LinkTaken
<1>2. s \in Slots /\ icache[s].ref > 0 /\ icache[s].inum \in Inums /\ inum[p] = 0 /\ rest[p] # <<>>
  BY <1>1, NotPutting DEF Ok, Putting3, HasDp, HasRest
<1>3. InUse(s)
  BY <1>1 DEF InUse, Uses
<1>4. Head(rest[p]) \in Names /\ PathOf(call[p], rest[p])
  BY <1>2, PathHead DEF CallInv, PathInv
<1>5. m = Entry(s, Head(rest[p]))
  BY <1>1 DEF LastName
<1>6. m \in Inums /\ dinode[m].nlink >= 1 /\ Lives(m)
  BY <1>1, <1>2, <1>4, <1>5, NamedLives
<1>7. /\ TurnsTo(icache', p) /\ Iget(m) \in Slots /\ icache'[Iget(m)].inum = m
      /\ icache'[s].owner = p /\ icache'[s].valid
  BY <1>1, <1>2, <1>3, <1>6, LocksGetTurn
<1>8. PICK a \in PutRec, b \in PutRec : /\ a = Put(Iget(m)) /\ b = UnlockPut(s) /\ a.slot = Iget(m) /\ b.slot = s
                                        /\ ~a.held /\ b.held
  BY <1>2, <1>7, PutIs
<1>9. PICK u \in Seq(PutRec) : u = <<a, b>> /\ Len(u) = 2 /\ First(u) = a.slot /\ Second(u) = b.slot
                               /\ u[1] = a /\ u[2] = b
  BY TwoOf
<1>10. LockOf(p, "put", "link_undo", ip[p], 0, u, icache') /\ FreeOf("put", u, icache')
  <2>1. ~OwnsIp("put", "link_undo") /\ ~OwnsDp("put") /\ ~OwnsPut1("put", u)
    BY <1>8, <1>9 DEF OwnsIp, OwnsDp, OwnsPut1, Whither, Putting3
  <2> QED
    BY <1>7, <1>8, <1>9, <2>1 DEF LockOf, Owns, FreeOf
<1>11. \A x \in Slots : Uses("put", ip[p], 0, old[p], u, x) => InUse(x) \/ dinode[icache'[x].inum].nlink >= 1
  <2> SUFFICES ASSUME NEW x \in Slots, Uses("put", ip[p], 0, old[p], u, x), x # Iget(m)
               PROVE  InUse(x)
    BY <1>6, <1>7
  <2>1. x # 0
    BY DEF Slots
  <2>2. x = s \/ Uses(pc[p], ip[p], dp[p], old[p], puts[p], x)
    BY <1>1, <1>8, <1>9, <2>1 DEF Uses
  <2> QED
    BY <1>3, <2>2, UsesInUse
<1>12. \A x \in Slots : FileOn(x)' => InUse(x)
  BY <1>1, SameFiles
<1>13. Whither("put", "link_undo") # "unlink_dec"
  BY DEF Whither, Putting3
<1>14. dinode' = dinode /\ Sets(p, "put", "link_undo", call[p], rest[p], ip[p], 0, old[p], inum[p], u)
  BY <1>1, <1>8, <1>9
<1> QED
  BY <1>2, <1>4, <1>7, <1>10, <1>11, <1>12, <1>13, <1>14, CallTurn

\* iget with no lock taken.
LEMMA PlainGetTurn ==
    ASSUME Ok, NEW p \in Procs, NEW m \in Inums, CanIget(m), Lives(m)
    PROVE  TurnsTo(Gotten(icache, m), p) /\ Iget(m) \in Slots /\ Gotten(icache, m)[Iget(m)].inum = m
<1>1. TurnsTo(icache, p) /\ Good(icache, dinode)
  BY TurnsSame DEF Ok
<1>2. TurnsTo(Gotten(icache, m), p)
  BY <1>1, TurnsGotten
<1> QED
  BY <1>1, <1>2, IgetFacts, GoodGotten

\* A call enters namex at the root.
LEMMA EnterTurn ==
    ASSUME Ok, Ok', CallInv, DirInv, NEW p \in Procs, CanIget(Root), icache' = Gotten(icache, Root), dinode' = dinode,
           UNCHANGED files, Len(puts[p]) = 0, inum[p] = 0, NEW c, NEW r, PathOf(c, r),
           Sets(p, "walk", ret[p], c, r, Iget(Root), dp[p], old[p], inum[p], puts[p])
    PROVE  Turned
<1>1. Root \in Inums /\ dinode[Root].nlink >= 1 /\ Lives(Root)
  BY RootLives
<1>2. TurnsTo(icache', p) /\ icache'[Iget(Root)].inum = Root
  BY <1>1, PlainGetTurn
<1>3. LockOf(p, "walk", ret[p], Iget(Root), dp[p], puts[p], icache') /\ FreeOf("walk", puts[p], icache')
  <2>1. ~OwnsIp("walk", ret[p]) /\ ~OwnsDp("walk") /\ ~OwnsPut1("walk", puts[p]) /\ ~OwnsPut2(puts[p])
    BY DEF OwnsIp, OwnsDp, OwnsPut1, OwnsPut2, Whither, Putting3
  <2> QED
    BY <2>1, NoLocks DEF FreeOf
<1>4. \A x \in Slots : Uses("walk", Iget(Root), dp[p], old[p], puts[p], x) => InUse(x) \/ dinode[icache'[x].inum].nlink >= 1
  <2> SUFFICES ASSUME NEW x \in Slots, Uses("walk", Iget(Root), dp[p], old[p], puts[p], x), x # Iget(Root)
               PROVE  InUse(x)
    BY <1>1, <1>2
  <2>1. First(puts[p]) = 0 /\ Second(puts[p]) = 0 /\ x # 0
    BY DEF First, Second, Slots
  <2>2. Uses(pc[p], ip[p], dp[p], old[p], puts[p], x)
    BY <2>1 DEF Uses
  <2> QED
    BY <2>2, UsesInUse
<1>5. \A x \in Slots : FileOn(x)' => InUse(x)
  BY SameFiles
<1>6. Whither("walk", ret[p]) # "unlink_dec"
  BY DEF Whither, Putting3
<1> QED
  BY <1>2, <1>3, <1>4, <1>5, <1>6, CallTurn

LEMMA LinkWalksTurn ==
    ASSUME Ok, Ok', CallInv, DirInv, NEW p \in Procs, LinkWalks(p)
    PROVE  Turned
<1>1. PICK c, r :
         /\ c = [call[p] EXCEPT !.op = "link_new"] /\ r = call[p].new /\ pc[p] = "link_walk" /\ CanIget(Root)
         /\ icache' = Gotten(icache, Root) /\ UNCHANGED <<dinode, files>>
         /\ Sets(p, "walk", ret[p], c, r, Iget(Root), dp[p], old[p], inum[p], puts[p])
  BY DEF LinkWalks
<1>2. Len(puts[p]) = 0 /\ inum[p] = 0 /\ Op(p) = "link" /\ call[p] \in CallRec
  BY <1>1, NotPutting DEF Ok, Putting3, ValuesOK
<1>3. r \in Seq(Names)
  BY <1>1, <1>2 DEF CallInv, PathInv, PathOf, Op
<1>4. c.op = "link_new"
  <2>1. call[p] \in [op : {"link", "link_new"}, path : Paths, new : Paths]
    BY <1>2 DEF CallRec, Op, NoCall
  <2> QED
    BY <1>1, <2>1
<1>5. PathOf(c, r)
  BY <1>3, <1>4 DEF PathOf
<1> QED
  BY <1>1, <1>2, <1>5, EnterTurn

LEMMA StartsTurn ==
    ASSUME Ok, Ok', CallInv, DirInv, PlainPaths, NEW p \in Procs, NEW c \in Calls, Starts(p, c)
    PROVE  Turned
<1>1. /\ pc[p] = "user" /\ CanIget(Root)
      /\ icache' = Gotten(icache, Root) /\ UNCHANGED <<dinode, files>>
      /\ Sets(p, "walk", ret[p], c, c.path, Iget(Root), dp[p], old[p], inum[p], puts[p])
  BY DEF Starts
<1>2. Len(puts[p]) = 0 /\ inum[p] = 0
  BY <1>1, NotPutting DEF Ok, Putting3
<1>3. PathOf(c, c.path)
  BY DEF PlainPaths, PathOf
<1> QED
  BY <1>1, <1>2, <1>3, EnterTurn

LEMMA IallocGetsTurn ==
    ASSUME Ok, Ok', CallInv, DirInv, NEW p \in Procs, IallocGets(p)
    PROVE  Turned
<1>1. PICK m :
         /\ m = inum[p] /\ pc[p] = "ialloc_iget" /\ CanIget(m)
         /\ icache' = Gotten(icache, m) /\ UNCHANGED <<dinode, files>>
         /\ Sets(p, "create_new", ret[p], call[p], rest[p], Iget(m), dp[p], old[p], m, puts[p])
  BY DEF IallocGets
<1>2. m \in Inums /\ dp[p] \in Slots /\ Len(puts[p]) = 0 /\ First(puts[p]) = 0 /\ Second(puts[p]) = 0 /\ m # 0
  BY <1>1, NotPutting DEF Ok, Putting3, HasDp, Inums
<1>3. Lives(m)
  BY <1>1, <1>2 DEF DirInv, NewInv, NewOf, Lives
<1>4. TurnsTo(icache', p) /\ Iget(m) \in Slots /\ icache'[Iget(m)].inum = m
  BY <1>1, <1>2, <1>3, PlainGetTurn
<1>5. icache[dp[p]].owner = p /\ icache[dp[p]].valid /\ icache[dp[p]].ref > 0
  BY <1>1, <1>2, LocksNow, NotPutting DEF Ok, CallInv, OwnsDp, Putting3, HasDp
<1>6. icache'[dp[p]].owner = p /\ icache'[dp[p]].valid
  BY <1>1, <1>2, <1>4, <1>5, GoodGotten DEF Ok
<1>7. LockOf(p, "create_new", ret[p], Iget(m), dp[p], puts[p], icache') /\ FreeOf("create_new", puts[p], icache')
  <2>1. ~OwnsIp("create_new", ret[p]) /\ ~OwnsPut1("create_new", puts[p]) /\ ~OwnsPut2(puts[p])
    BY <1>2 DEF OwnsIp, OwnsPut1, OwnsPut2, Whither, Putting3
  <2> QED
    BY <1>6, <2>1 DEF LockOf, Owns, FreeOf
<1>8. \A x \in Slots : Uses("create_new", Iget(m), dp[p], old[p], puts[p], x) => InUse(x) \/ dinode[icache'[x].inum].nlink >= 1
  <2> SUFFICES ASSUME NEW x \in Slots, Uses("create_new", Iget(m), dp[p], old[p], puts[p], x)
               PROVE  InUse(x)
    OBVIOUS
  <2>1. x # 0
    BY DEF Slots
  <2>2. Uses(pc[p], ip[p], dp[p], old[p], puts[p], x)
    BY <1>2, <2>1 DEF Uses
  <2> QED
    BY <2>2, UsesInUse
<1>9. \A x \in Slots : FileOn(x)' => InUse(x)
  BY <1>1, SameFiles
<1>10. Whither("create_new", ret[p]) # "unlink_dec"
  BY DEF Whither, Putting3
<1>11. PathOf(call[p], rest[p])
  BY DEF CallInv, PathInv
<1>12. dinode' = dinode /\ Sets(p, "create_new", ret[p], call[p], rest[p], Iget(m), dp[p], old[p], m, puts[p])
  BY <1>1
<1> QED
  BY <1>1, <1>4, <1>7, <1>8, <1>9, <1>10, <1>11, <1>12, CallTurn

LEMMA OpenFileFullTurn ==
    ASSUME Ok, Ok', CallInv, DirInv, NEW p \in Procs, OpenFileFull(p)
    PROVE  Turned
<1>1. PICK s : /\ s = ip[p] /\ pc[p] = "openfile" /\ UNCHANGED <<icache, dinode, files>>
               /\ Sets(p, "put", "user", call[p], rest[p], 0, dp[p], old[p], inum[p], <<UnlockPut(s)>>)
  BY DEF OpenFileFull
<1>2. s \in Slots /\ inum[p] = 0
  BY <1>1, NotPutting DEF Ok, Putting3, HasIp
<1>3. icache'[s].owner = p /\ icache'[s].valid
  BY <1>1, LocksNow DEF CallInv, OwnsIp, Whither, Putting3
<1>4. PICK u \in Seq(PutRec) : u = <<UnlockPut(s)>> /\ Len(u) = 1 /\ First(u) = s /\ Second(u) = 0 /\ u[1].held
  BY <1>2, PutOne
<1>5. TurnsTo(icache', p)
  BY <1>1, TurnsSame
<1>6. LockOf(p, "put", "user", 0, dp[p], u, icache') /\ FreeOf("put", u, icache')
  <2>1. ~OwnsIp("put", "user") /\ ~OwnsDp("put") /\ ~OwnsPut2(u)
    BY <1>4 DEF OwnsIp, OwnsDp, OwnsPut2, Whither, Putting3
  <2> QED
    BY <1>3, <1>4, <2>1 DEF LockOf, Owns, FreeOf
<1>7. PathOf(call[p], rest[p])
  BY DEF CallInv, PathInv
<1>8. \A x \in Slots : Uses("put", 0, dp[p], old[p], u, x) => InUse(x) \/ dinode[icache'[x].inum].nlink >= 1
  <2> SUFFICES ASSUME NEW x \in Slots, Uses("put", 0, dp[p], old[p], u, x)
               PROVE  InUse(x)
    OBVIOUS
  <2>1. x # 0
    BY DEF Slots
  <2>2. Uses(pc[p], ip[p], dp[p], old[p], puts[p], x)
    BY <1>1, <1>4, <2>1 DEF Uses
  <2> QED
    BY <2>2, UsesInUse
<1>9. \A x \in Slots : FileOn(x)' => InUse(x)
  BY <1>1, SameFiles
<1>10. Whither("put", "user") # "unlink_dec"
  BY DEF Whither, Putting3
<1>11. dinode' = dinode /\ Sets(p, "put", "user", call[p], rest[p], 0, dp[p], old[p], inum[p], u)
  BY <1>1, <1>4
<1> QED
  BY <1>2, <1>5, <1>6, <1>7, <1>8, <1>9, <1>10, <1>11, CallTurn

LEMMA OpenFileDoneTurn ==
    ASSUME Ok, Ok', CallInv, DirInv, NEW p \in Procs, OpenFileDone(p)
    PROVE  Turned
<1>1. PICK s, f, r :
         /\ s = ip[p] /\ f = Least(FreeFiles) /\ r = [ref |-> 1, ip |-> s] /\ pc[p] = "openfile"
         /\ ftable' = [ftable EXCEPT ![f] = r]
         /\ icache' = Hold(icache, NoProc, s) /\ dinode' = dinode
         /\ Sets(p, "user", ret[p], NoCall, <<>>, 0, dp[p], old[p], inum[p], puts[p])
  BY DEF OpenFileDone
<1>2. /\ s \in Slots /\ inum[p] = 0 /\ Len(puts[p]) = 0 /\ First(puts[p]) = 0 /\ Second(puts[p]) = 0
      /\ dp[p] = 0 /\ old[p] = 0
  BY <1>1, NotPutting DEF Ok, Putting3, HasIp, HasDp, HasOld
<1>3. icache[s].owner = p
  BY <1>1, LocksNow DEF CallInv, OwnsIp, Whither, Putting3
<1>4. TurnsTo(icache', p)
  <2>1. TurnsTo(icache, p)
    BY TurnsSame
  <2>2. TurnsTo(Hold(icache, NoProc, s), p)
    BY <1>2, <1>3, <2>1, TurnsHold DEF Ok
  <2> QED
    BY <1>1, <2>2
<1>5. LockOf(p, "user", ret[p], 0, dp[p], puts[p], icache') /\ FreeOf("user", puts[p], icache')
  <2>1. ~OwnsIp("user", ret[p]) /\ ~OwnsDp("user") /\ ~OwnsPut1("user", puts[p]) /\ ~OwnsPut2(puts[p])
    BY <1>2 DEF OwnsIp, OwnsDp, OwnsPut1, OwnsPut2, Whither, Putting3
  <2> QED
    BY <2>1, NoLocks DEF FreeOf
<1>6. PathOf(NoCall, <<>>)
  BY DEF PathOf, NoCall
<1>7. \A x \in Slots : Uses("user", 0, dp[p], old[p], puts[p], x) => InUse(x) \/ dinode[icache'[x].inum].nlink >= 1
  BY <1>2 DEF Uses, Slots
<1>8. \A x \in Slots : FileOn(x)' => InUse(x)
  <2> SUFFICES ASSUME NEW x \in Slots, NEW g \in Files, ftable'[g].ref > 0, ftable'[g].ip = x
               PROVE  InUse(x)
    BY DEF FileOn
  <2>1. ftable \in [Files -> FileRec] /\ r.ip = s
    BY <1>1 DEF Ok, Running, FType
  <2>2. CASE g = f
    BY <1>1, <2>1, <2>2 DEF InUse, Uses
  <2>3. CASE g # f
    BY <1>1, <2>1, <2>3 DEF InUse, FileOn
  <2> QED
    BY <2>2, <2>3
<1>9. Whither("user", ret[p]) # "unlink_dec"
  BY DEF Whither, Putting3
<1>10. dinode' = dinode /\ Sets(p, "user", ret[p], NoCall, <<>>, 0, dp[p], old[p], inum[p], puts[p])
  BY <1>1
<1> QED
  BY <1>2, <1>4, <1>5, <1>6, <1>7, <1>8, <1>9, <1>10, CallTurn

LEMMA UnlocksTurn ==
    ASSUME Ok, Ok', CallInv, DirInv, NEW p \in Procs, Unlocks(p)
    PROVE  Turned
<1>1. PICK u, s : /\ u = [puts[p] EXCEPT ![1].held = FALSE] /\ s = Put1(p) /\ pc[p] = "put" /\ puts[p][1].held
                  /\ icache' = Hold(icache, NoProc, s) /\ UNCHANGED <<dinode, files>>
                  /\ Sets(p, "put", ret[p], call[p], rest[p], ip[p], dp[p], old[p], inum[p], u)
  BY DEF Unlocks
<1>2. puts[p] \in Seq(PutRec) /\ Len(puts[p]) \in 1..2 /\ puts[p][1] \in PutRec
  BY <1>1, FirstPut DEF Ok, Putting3
<1>3. s \in Slots /\ inum[p] = 0
  BY <1>1, <1>2, ValuesNow DEF Ok, HandOf
<1>4. PICK a : a = [puts[p][1] EXCEPT !.held = FALSE]
  OBVIOUS
<1>5. a \in PutRec /\ a.slot = puts[p][1].slot /\ a.held = FALSE
  BY <1>2, <1>4 DEF PutRec
<1>6. u \in Seq(PutRec) /\ Len(u) = Len(puts[p]) /\ u[1] = a /\ (Len(u) = 2 => u[2] = puts[p][2])
  <2>1. u = [puts[p] EXCEPT ![1] = a]
    BY <1>1, <1>4
  <2>2. 1 \in 1..Len(puts[p]) /\ (Len(puts[p]) = 2 => 2 \in 1..Len(puts[p]))
    BY <1>2
  <2> QED
    BY <1>2, <1>5, <2>1, <2>2, ExceptSeq
<1>7. First(u) = First(puts[p]) /\ Second(u) = Second(puts[p])
  BY <1>2, <1>5, <1>6 DEF First, Second
<1>8. OwnsPut1(pc[p], puts[p])
  BY <1>1, <1>2 DEF OwnsPut1
<1>9. icache[s].owner = p
  BY <1>1, <1>8, LocksNow DEF CallInv
<1>10. TurnsTo(icache', p)
  <2>1. TurnsTo(icache, p)
    BY TurnsSame
  <2>2. TurnsTo(Hold(icache, NoProc, s), p)
    BY <1>3, <1>9, <2>1, TurnsHold DEF Ok
  <2> QED
    BY <1>1, <2>2
<1>11. \A x \in Slots : x # s => icache'[x].owner = icache[x].owner /\ icache'[x].valid = icache[x].valid
  <2>1. Good(icache, dinode) /\ NoProc \in Procs \cup {NoProc}
    BY DEF Ok
  <2>2. \A x \in Slots : /\ Hold(icache, NoProc, s)[x].valid = icache[x].valid
                         /\ Hold(icache, NoProc, s)[x].owner = IF x = s THEN NoProc ELSE icache[x].owner
    BY <1>3, <2>1, GoodHold
  <2> QED
    BY <1>1, <2>2
<1>12. LockOf(p, "put", ret[p], ip[p], dp[p], u, icache') /\ FreeOf("put", u, icache')
  <2>1. LockOf(p, "put", ret[p], ip[p], dp[p], puts[p], icache)
    BY <1>1 DEF CallInv, LockInv
  <2>2. ~OwnsDp("put") /\ ~OwnsPut1("put", u) /\ (OwnsPut2(u) => OwnsPut2(puts[p]))
    BY <1>5, <1>6 DEF OwnsDp, OwnsPut1, OwnsPut2
  <2>3. ASSUME NEW x \in Slots, Owns("put", ret[p], ip[p], dp[p], u, x)
        PROVE  icache'[x].owner = p /\ icache'[x].valid
    <3>1. Owns("put", ret[p], ip[p], dp[p], puts[p], x)
      BY <1>7, <2>2, <2>3 DEF Owns
    <3>2. x # First(puts[p])
      BY <1>1, <1>7, <1>8, <2>1, <2>2, <2>3 DEF Owns, LockOf
    <3> QED
      BY <1>1, <1>11, <2>1, <3>1, <3>2 DEF LockOf, Put1
  <2> QED
    BY <1>7, <2>1, <2>2, <2>3 DEF LockOf, FreeOf
<1>13. PathOf(call[p], rest[p])
  BY DEF CallInv, PathInv
<1>14. \A x \in Slots : Uses("put", ip[p], dp[p], old[p], u, x) => InUse(x) \/ dinode[icache'[x].inum].nlink >= 1
  <2> SUFFICES ASSUME NEW x \in Slots, Uses("put", ip[p], dp[p], old[p], u, x)
               PROVE  InUse(x)
    OBVIOUS
  <2>1. Uses(pc[p], ip[p], dp[p], old[p], puts[p], x)
    BY <1>1, <1>7 DEF Uses
  <2> QED
    BY <2>1, UsesInUse
<1>15. \A x \in Slots : FileOn(x)' => InUse(x)
  BY <1>1, SameFiles
<1>16. Whither("put", ret[p]) = "unlink_dec" => Where(p) = "unlink_dec" /\ ip[p] = ip[p]
  BY <1>1 DEF Where
<1>17. dinode' = dinode /\ Sets(p, "put", ret[p], call[p], rest[p], ip[p], dp[p], old[p], inum[p], u)
  BY <1>1
<1> QED
  BY <1>3, <1>10, <1>12, <1>13, <1>14, <1>15, <1>16, <1>17, CallTurn

\* iput looks at the entry.
LEMMA PutTestTurn ==
    ASSUME Ok, Ok', CallInv, DirInv, NEW p \in Procs, pc[p] = "put", inum[p] = 0, NEW l \in {"free", "drop"},
           TurnsTo(icache', p), LockOf(p, l, ret[p], ip[p], dp[p], puts[p], icache'), FreeOf(l, puts[p], icache'),
           dinode' = dinode, UNCHANGED files,
           Sets(p, l, ret[p], call[p], rest[p], ip[p], dp[p], old[p], inum[p], puts[p])
    PROVE  Turned
<1>1. PathOf(call[p], rest[p])
  BY DEF CallInv, PathInv
<1>2. \A x \in Slots : Uses(l, ip[p], dp[p], old[p], puts[p], x) => InUse(x) \/ dinode[icache'[x].inum].nlink >= 1
  <2> SUFFICES ASSUME NEW x \in Slots, Uses(l, ip[p], dp[p], old[p], puts[p], x)
               PROVE  InUse(x)
    OBVIOUS
  <2>1. Uses(pc[p], ip[p], dp[p], old[p], puts[p], x)
    BY DEF Uses
  <2> QED
    BY <2>1, UsesInUse
<1>3. \A x \in Slots : FileOn(x)' => InUse(x)
  BY SameFiles
<1>4. Whither(l, ret[p]) = "unlink_dec" => Where(p) = "unlink_dec" /\ ip[p] = ip[p]
  BY DEF Where, Whither, Putting3
<1>5. l # "unlink_ip"
  OBVIOUS
<1> QED
  BY <1>1, <1>2, <1>3, <1>4, <1>5, CallTurn

LEMMA PutFreesTurn ==
    ASSUME Ok, Ok', CallInv, DirInv, NEW p \in Procs, PutFrees(p)
    PROVE  Turned
<1>1. PICK s : /\ s = Put1(p) /\ pc[p] = "put" /\ ~puts[p][1].held /\ icache[s].owner = NoProc /\ LastUse(s)
               /\ icache' = Hold(icache, p, s) /\ UNCHANGED <<dinode, files>>
               /\ Sets(p, "free", ret[p], call[p], rest[p], ip[p], dp[p], old[p], inum[p], puts[p])
  BY DEF PutFrees
<1>2. puts[p] \in Seq(PutRec) /\ Len(puts[p]) \in 1..2
  BY <1>1, FirstPut DEF Ok, Putting3
<1>3. s \in Slots /\ inum[p] = 0
  BY <1>1, <1>2, ValuesNow DEF Ok, HandOf
<1>4. TurnsTo(icache', p)
  <2>1. TurnsTo(icache, p)
    BY TurnsSame
  <2>2. TurnsTo(Hold(icache, p, s), p)
    BY <1>1, <1>3, <2>1, TurnsHold DEF Ok
  <2> QED
    BY <1>1, <2>2
<1>5. /\ \A x \in Slots : x # s => icache'[x].owner = icache[x].owner
      /\ \A x \in Slots : icache'[x].valid = icache[x].valid /\ icache'[x].ref = icache[x].ref
                          /\ icache'[x].nlink = icache[x].nlink
      /\ icache'[s].owner = p
  BY <1>1, <1>3, GoodHold DEF Ok
<1>6. LockOf(p, "free", ret[p], ip[p], dp[p], puts[p], icache')
  <2>1. LockOf(p, "put", ret[p], ip[p], dp[p], puts[p], icache) /\ p # NoProc
    BY <1>1, FileSysAssumption DEF CallInv, LockInv
  <2>2. ~OwnsDp("free") /\ (OwnsIp("free", ret[p]) => OwnsIp("put", ret[p]))
    BY DEF OwnsDp, OwnsIp, Whither, Putting3
  <2>3. /\ OwnsPut2(puts[p]) => s # Second(puts[p])
        /\ OwnsIp("free", ret[p]) => s # ip[p]
    BY <1>1, <1>3, <2>1, <2>2 DEF LockOf, Owns
  <2>4. ASSUME NEW x \in Slots, Owns("free", ret[p], ip[p], dp[p], puts[p], x)
        PROVE  icache'[x].owner = p /\ icache'[x].valid
    <3>1. CASE x = s
      BY <1>1, <1>5, <3>1 DEF LastUse
    <3>2. CASE x # s
      <4>1. Owns("put", ret[p], ip[p], dp[p], puts[p], x)
        BY <1>1, <2>2, <2>4, <3>2 DEF Owns, Put1
      <4> QED
        BY <1>5, <2>1, <3>2, <4>1 DEF LockOf
    <3> QED
      BY <3>1, <3>2
  <2>5. (OwnsPut2(puts[p]) /\ OwnsIp("free", ret[p])) => Second(puts[p]) # ip[p]
    BY <2>1, <2>2 DEF LockOf
  <2> QED
    BY <1>1, <2>3, <2>4, <2>5 DEF LockOf, Put1
<1>7. FreeOf("free", puts[p], icache')
  BY <1>1, <1>3, <1>5 DEF FreeOf, LastUse, Put1
<1> QED
  BY <1>1, <1>3, <1>4, <1>6, <1>7, PutTestTurn

LEMMA PutDropsTurn ==
    ASSUME Ok, Ok', CallInv, DirInv, NEW p \in Procs, PutDrops(p)
    PROVE  Turned
<1>1. /\ pc[p] = "put" /\ ~puts[p][1].held /\ UNCHANGED <<icache, dinode, files>>
      /\ Sets(p, "drop", ret[p], call[p], rest[p], ip[p], dp[p], old[p], inum[p], puts[p])
  BY DEF PutDrops
<1>2. inum[p] = 0
  BY <1>1, ValuesNow DEF Ok, HandOf
<1>3. TurnsTo(icache', p)
  BY <1>1, TurnsSame
<1>4. LockOf(p, "drop", ret[p], ip[p], dp[p], puts[p], icache')
  <2>1. LockOf(p, "put", ret[p], ip[p], dp[p], puts[p], icache)
    BY <1>1 DEF CallInv, LockInv
  <2>2. /\ ~OwnsDp("drop") /\ ~OwnsPut1("drop", puts[p])
        /\ OwnsIp("drop", ret[p]) => OwnsIp("put", ret[p])
    BY <1>1 DEF OwnsDp, OwnsIp, OwnsPut1, Whither, Putting3
  <2> QED
    BY <1>1, <2>1, <2>2 DEF LockOf, Owns
<1>5. FreeOf("drop", puts[p], icache')
  BY DEF FreeOf
<1> QED
  BY <1>1, <1>2, <1>3, <1>4, <1>5, PutTestTurn

\* iput gives up its reference.
LEMMA DroppedTurn ==
    ASSUME Ok, NEW p, NEW s \in Slots, icache[s].ref > 0
    PROVE  /\ TurnsTo(Dropped(s), p)
           /\ \A x \in Slots : Dropped(s)[x].ref > 0 =>
                 Dropped(s)[x].owner = icache[x].owner /\ Dropped(s)[x].valid = icache[x].valid
<1>1. PICK c : c = Dropped(s)
  OBVIOUS
<1>2. /\ \A x \in Slots : x # s => c[x] = icache[x]
      /\ c[s].ref = icache[s].ref - 1
      /\ icache[s].ref # 1 => /\ c[s].inum = icache[s].inum /\ c[s].owner = icache[s].owner
                              /\ c[s].valid = icache[s].valid /\ c[s].nlink = icache[s].nlink
  BY <1>1, GoodDropped DEF Ok
<1>3. \A x \in Slots : icache[x].ref \in Nat
  BY RefNat DEF Ok
<1>4. \A x \in Slots : c[x].ref <= icache[x].ref /\ (c[x].ref > 0 =>
         /\ icache[x].ref > 0 /\ c[x].inum = icache[x].inum /\ c[x].owner = icache[x].owner
         /\ c[x].valid = icache[x].valid /\ c[x].nlink = icache[x].nlink)
  BY <1>2, <1>3
<1>5. TurnsTo(c, p)
  BY <1>4 DEF TurnsTo
<1> QED
  BY <1>1, <1>4, <1>5

LEMMA DropsTurn ==
    ASSUME Ok, Ok', CallInv, DirInv, NEW p \in Procs, NEW s, s = Put1(p), pc[p] = "drop",
           icache' = Dropped(s), dinode' = dinode, UNCHANGED files,
           NEW l, NEW t, NEW c, NEW r, NEW u, u = Tail(puts[p]), PathOf(c, r),
           l = "put" \/ (Len(puts[p]) = 1 /\ l \in Returns), Whither(l, t) = ret[p],
           Sets(p, l, t, c, r, ip[p], dp[p], old[p], inum[p], u)
    PROVE  Turned
<1>1. puts[p] \in Seq(PutRec) /\ Len(puts[p]) \in 1..2
  BY FirstPut DEF Ok, Putting3
<1>2. s \in Slots /\ icache[s].ref > 0 /\ inum[p] = 0
  BY <1>1, ValuesNow DEF Ok, HandOf
<1>3. /\ TurnsTo(icache', p)
      /\ \A x \in Slots : icache'[x].ref > 0 => icache'[x].owner = icache[x].owner /\ icache'[x].valid = icache[x].valid
  BY <1>2, DroppedTurn
<1>4. /\ u \in Seq(PutRec) /\ Len(u) = Len(puts[p]) - 1 /\ First(u) = Second(puts[p]) /\ Second(u) = 0
      /\ Len(puts[p]) = 2 => u[1] = puts[p][2]
  BY <1>1, TailPuts
<1>5. LockOf(p, l, t, ip[p], dp[p], u, icache') /\ FreeOf(l, u, icache')
  <2>1. LockOf(p, "drop", ret[p], ip[p], dp[p], puts[p], icache)
    BY DEF CallInv, LockInv
  <2>2. l \notin {"ialloc", "ialloc_iget", "create_new", "unlink_ip", "free"}
    BY DEF Returns
  <2>3. /\ OwnsIp(l, t) => OwnsIp("drop", ret[p])
        /\ ~OwnsDp(l) /\ ~OwnsPut2(u)
    <3>1. Whither(l, t) = Whither("drop", ret[p])
      BY DEF Whither, Putting3
    <3>2. Len(u) # 2
      <4>1. \A k \in 1..2 : k - 1 # 2
        OBVIOUS
      <4> QED
        BY <1>1, <1>4, <4>1, Zenon
    <3> QED
      BY <2>2, <3>1, <3>2 DEF OwnsIp, OwnsDp, OwnsPut2
  <2>4. OwnsPut1(l, u) => OwnsPut2(puts[p])
    BY <1>1, <1>4, <2>2 DEF OwnsPut1, OwnsPut2
  <2>5. ASSUME NEW x \in Slots, Owns(l, t, ip[p], dp[p], u, x)
        PROVE  icache'[x].owner = p /\ icache'[x].valid
    <3>1. Owns("drop", ret[p], ip[p], dp[p], puts[p], x)
      BY <1>4, <2>3, <2>4, <2>5 DEF Owns
    <3>2. Pointed(x)'
      <4>1. ip'[p] = ip[p] /\ puts'[p] = u
        BY After DEF Ok, Running
      <4>2. x = ip[p] \/ x = First(u)
        BY <2>3, <2>5 DEF Owns
      <4> QED
        BY <4>1, <4>2 DEF Pointed, Put1
    <3>3. icache'[x].ref > 0
      BY <3>2, OkRefsNext DEF Refs
    <3> QED
      BY <1>3, <2>1, <3>1, <3>3 DEF LockOf
  <2> QED
    BY <1>4, <2>1, <2>2, <2>3, <2>4, <2>5 DEF LockOf, FreeOf
<1>6. \A x \in Slots : Uses(l, ip[p], dp[p], old[p], u, x) => InUse(x) \/ dinode[icache'[x].inum].nlink >= 1
  <2> SUFFICES ASSUME NEW x \in Slots, Uses(l, ip[p], dp[p], old[p], u, x)
               PROVE  InUse(x)
    OBVIOUS
  <2>1. x # 0
    BY DEF Slots
  <2>2. Uses(pc[p], ip[p], dp[p], old[p], puts[p], x)
    BY <1>4, <2>1 DEF Uses
  <2> QED
    BY <2>2, UsesInUse
<1>7. \A x \in Slots : FileOn(x)' => InUse(x)
  BY SameFiles
<1>8. Whither(l, t) = "unlink_dec" => Where(p) = "unlink_dec" /\ ip[p] = ip[p]
  BY DEF Where, Whither, Putting3
<1>9. l # "unlink_ip"
  BY DEF Returns
<1> QED
  BY <1>2, <1>3, <1>5, <1>6, <1>7, <1>8, <1>9, CallTurn

LEMMA DropsOneTurn ==
    ASSUME Ok, Ok', CallInv, DirInv, NEW p \in Procs, DropsOne(p)
    PROVE  Turned
<1>1. PICK s, u : /\ s = Put1(p) /\ u = Tail(puts[p]) /\ pc[p] = "drop" /\ icache' = Dropped(s) /\ UNCHANGED <<dinode, files>>
                  /\ Sets(p, "put", ret[p], call[p], rest[p], ip[p], dp[p], old[p], inum[p], u)
  BY DEF DropsOne
<1>2. PathOf(call[p], rest[p]) /\ Whither("put", ret[p]) = ret[p]
  BY DEF CallInv, PathInv, Whither, Putting3
<1> QED
  BY <1>1, <1>2, DropsTurn

LEMMA DropsLastTurn ==
    ASSUME Ok, Ok', CallInv, DirInv, NEW p \in Procs, DropsLast(p)
    PROVE  Turned
<1>1. PICK s, u, c, r :
         /\ s = Put1(p) /\ u = Tail(puts[p])
         /\ c = (IF ret[p] = "user" THEN NoCall ELSE call[p]) /\ r = (IF ret[p] = "user" THEN <<>> ELSE rest[p])
         /\ pc[p] = "drop" /\ Len(puts[p]) <= 1 /\ icache' = Dropped(s) /\ UNCHANGED <<dinode, files>>
         /\ Sets(p, ret[p], "user", c, r, ip[p], dp[p], old[p], inum[p], u)
  BY DEF DropsLast
<1>2. Len(puts[p]) = 1
  <2>1. Len(puts[p]) \in 1..2 /\ Len(puts[p]) <= 1
    BY <1>1, FirstPut DEF Ok, Putting3
  <2>2. \A k \in 1..2 : k <= 1 => k = 1
    OBVIOUS
  <2> QED
    BY <2>1, <2>2, Zenon
<1>3. ret[p] \in Returns
  BY <1>1, ValuesNow DEF Ok, HandOf, Putting3
<1>4. Whither(ret[p], "user") = ret[p]
  BY <1>3 DEF Whither, Putting3, Returns
<1>5. PathOf(c, r)
  <2>1. PathOf(call[p], rest[p])
    BY DEF CallInv, PathInv
  <2>2. PathOf(NoCall, <<>>)
    BY DEF PathOf, NoCall
  <2> QED
    BY <1>1, <2>1, <2>2
<1> QED
  BY <1>1, <1>2, <1>3, <1>4, <1>5, DropsTurn

\* The steps on descriptors that leave the inodes alone.
LEMMA UserTurn ==
    ASSUME Ok, Ok', CallInv, DirInv, NEW p \in Procs, pc[p] = "user", TurnsTo(icache', p), dinode' = dinode,
           \A x \in Slots : FileOn(x)' => InUse(x),
           Sets(p, "user", ret[p], call[p], rest[p], ip[p], dp[p], old[p], inum[p], puts[p])
    PROVE  Turned
<1>1. inum[p] = 0 /\ Len(puts[p]) = 0
  BY NotPutting DEF Ok, Putting3
<1>2. LockOf(p, "user", ret[p], ip[p], dp[p], puts[p], icache') /\ FreeOf("user", puts[p], icache')
  <2>1. ~OwnsIp("user", ret[p]) /\ ~OwnsDp("user") /\ ~OwnsPut1("user", puts[p]) /\ ~OwnsPut2(puts[p])
    BY <1>1 DEF OwnsIp, OwnsDp, OwnsPut1, OwnsPut2, Whither, Putting3
  <2> QED
    BY <2>1, NoLocks DEF FreeOf
<1>3. PathOf(call[p], rest[p])
  BY DEF CallInv, PathInv
<1>4. \A x \in Slots : Uses("user", ip[p], dp[p], old[p], puts[p], x) => InUse(x) \/ dinode[icache'[x].inum].nlink >= 1
  BY UsesInUse
<1>5. Whither("user", ret[p]) # "unlink_dec"
  BY DEF Whither, Putting3
<1> QED
  BY <1>1, <1>2, <1>3, <1>4, <1>5, CallTurn

LEMMA CloseSharedTurn ==
    ASSUME Ok, Ok', CallInv, DirInv, NEW p \in Procs, NEW d \in Fds, CloseShared(p, d)
    PROVE  Turned
<1>1. PICK f, r :
         /\ f = ofile[p][d] /\ r = [ftable[f] EXCEPT !.ref = ftable[f].ref - 1]
         /\ pc[p] = "user" /\ f # 0 /\ ftable[f].ref > 1
         /\ ftable' = [ftable EXCEPT ![f] = r] /\ UNCHANGED <<icache, dinode>>
         /\ Sets(p, "user", ret[p], call[p], rest[p], ip[p], dp[p], old[p], inum[p], puts[p])
  BY DEF CloseShared
<1>2. f \in Files /\ ftable[f] \in FileRec /\ ftable[f].ref >= 1 /\ ftable \in [Files -> FileRec]
  BY <1>1, FdFacts DEF Ok, Running, FType
<1>3. r.ip = ftable[f].ip /\ ftable[f].ref > 0
  BY <1>1, <1>2 DEF FileRec
<1>4. \A x \in Slots : FileOn(x)' => InUse(x)
  <2> SUFFICES ASSUME NEW x \in Slots, NEW g \in Files, ftable'[g].ref > 0, ftable'[g].ip = x
               PROVE  InUse(x)
    BY DEF FileOn
  <2>1. ftable[g].ref > 0 /\ ftable[g].ip = x
    BY <1>1, <1>2, <1>3
  <2> QED
    BY <2>1 DEF InUse, FileOn
<1>5. TurnsTo(icache', p)
  BY <1>1, TurnsSame
<1> QED
  BY <1>1, <1>4, <1>5, UserTurn

LEMMA DupsTurn ==
    ASSUME Ok, Ok', CallInv, DirInv, NEW p \in Procs, NEW d \in Fds, Dups(p, d)
    PROVE  Turned
<1>1. PICK f, r :
         /\ f = ofile[p][d] /\ r = [ftable[f] EXCEPT !.ref = ftable[f].ref + 1]
         /\ pc[p] = "user" /\ f # 0
         /\ ftable' = [ftable EXCEPT ![f] = r] /\ UNCHANGED <<icache, dinode>>
         /\ Sets(p, "user", ret[p], call[p], rest[p], ip[p], dp[p], old[p], inum[p], puts[p])
  BY DEF Dups
<1>2. f \in Files /\ ftable[f] \in FileRec /\ ftable[f].ref >= 1 /\ ftable \in [Files -> FileRec]
  BY <1>1, FdFacts DEF Ok, Running, FType
<1>3. r.ip = ftable[f].ip /\ ftable[f].ref > 0
  BY <1>1, <1>2 DEF FileRec
<1>4. \A x \in Slots : FileOn(x)' => InUse(x)
  <2> SUFFICES ASSUME NEW x \in Slots, NEW g \in Files, ftable'[g].ref > 0, ftable'[g].ip = x
               PROVE  InUse(x)
    BY DEF FileOn
  <2>1. ftable[g].ref > 0 /\ ftable[g].ip = x
    BY <1>1, <1>2, <1>3
  <2> QED
    BY <2>1 DEF InUse, FileOn
<1>5. TurnsTo(icache', p)
  BY <1>1, TurnsSame
<1> QED
  BY <1>1, <1>4, <1>5, UserTurn

LEMMA FdInUse ==
    ASSUME Ok, NEW p \in Procs, NEW d \in Fds, ofile[p][d] # 0
    PROVE  InUse(ftable[ofile[p][d]].ip) /\ ftable[ofile[p][d]].ip \in Slots /\ icache[ftable[ofile[p][d]].ip].ref > 0
<1>1. PICK f : f = ofile[p][d]
  OBVIOUS
<1>2. f \in Files /\ ftable[f] \in FileRec /\ ftable[f].ref >= 1
  BY <1>1, FdFacts DEF Ok
<1>3. ftable[f].ref > 0
  BY <1>2 DEF FileRec
<1>4. InUse(ftable[f].ip)
  BY <1>2, <1>3 DEF InUse, FileOn
<1> QED
  BY <1>1, <1>4, OpenRef DEF Ok

LEMMA LocksFileTurn ==
    ASSUME Ok, Ok', CallInv, DirInv, NEW p \in Procs, NEW d \in Fds, Locks1(p, d)
    PROVE  Turned
<1>1. PICK s : /\ s = ftable[ofile[p][d]].ip /\ pc[p] = "user" /\ ofile[p][d] # 0 /\ Locks(s)
               /\ icache' = Locked(s) /\ UNCHANGED <<dinode, files>>
               /\ Sets(p, "user", ret[p], call[p], rest[p], ip[p], dp[p], old[p], inum[p], puts[p])
  BY DEF Locks1
<1>2. s \in Slots /\ icache[s].ref > 0 /\ InUse(s)
  BY <1>1, FdInUse
<1>3. TurnsTo(icache', p)
  BY <1>1, <1>2, LocksTurn
<1>4. \A x \in Slots : FileOn(x)' => InUse(x)
  BY <1>1, SameFiles
<1> QED
  BY <1>1, <1>3, <1>4, UserTurn

LEMMA CloseLastTurn ==
    ASSUME Ok, Ok', CallInv, DirInv, NEW p \in Procs, NEW d \in Fds, CloseLast(p, d)
    PROVE  Turned
<1>1. PICK f, r, s :
         /\ f = ofile[p][d] /\ r = [ref |-> 0, ip |-> 0] /\ s = ftable[f].ip
         /\ pc[p] = "user" /\ f # 0
         /\ ftable' = [ftable EXCEPT ![f] = r] /\ UNCHANGED <<icache, dinode>>
         /\ Sets(p, "put", "user", call[p], rest[p], ip[p], dp[p], old[p], inum[p], <<Put(s)>>)
  BY DEF CloseLast
<1>2. s \in Slots /\ InUse(s)
  BY <1>1, FdInUse
<1>3. inum[p] = 0 /\ First(puts[p]) = 0 /\ Second(puts[p]) = 0
  BY <1>1, NotPutting DEF Ok, Putting3
<1>4. PICK u \in Seq(PutRec) : u = <<Put(s)>> /\ Len(u) = 1 /\ First(u) = s /\ Second(u) = 0 /\ ~u[1].held
  BY <1>2, PutOne
<1>5. TurnsTo(icache', p)
  BY <1>1, TurnsSame
<1>6. LockOf(p, "put", "user", ip[p], dp[p], u, icache') /\ FreeOf("put", u, icache')
  <2>1. ~OwnsIp("put", "user") /\ ~OwnsDp("put") /\ ~OwnsPut1("put", u) /\ ~OwnsPut2(u)
    BY <1>4 DEF OwnsIp, OwnsDp, OwnsPut1, OwnsPut2, Whither, Putting3
  <2> QED
    BY <2>1, NoLocks DEF FreeOf
<1>7. PathOf(call[p], rest[p])
  BY DEF CallInv, PathInv
<1>8. \A x \in Slots : Uses("put", ip[p], dp[p], old[p], u, x) => InUse(x) \/ dinode[icache'[x].inum].nlink >= 1
  <2> SUFFICES ASSUME NEW x \in Slots, Uses("put", ip[p], dp[p], old[p], u, x)
               PROVE  InUse(x)
    OBVIOUS
  <2>1. x # 0
    BY DEF Slots
  <2>2. x = s \/ Uses(pc[p], ip[p], dp[p], old[p], puts[p], x)
    BY <1>1, <1>4, <2>1 DEF Uses
  <2> QED
    BY <1>2, <2>2, UsesInUse
<1>9. \A x \in Slots : FileOn(x)' => InUse(x)
  <2> SUFFICES ASSUME NEW x \in Slots, NEW g \in Files, ftable'[g].ref > 0, ftable'[g].ip = x
               PROVE  InUse(x)
    BY DEF FileOn
  <2>1. ftable \in [Files -> FileRec] /\ r.ref = 0
    BY <1>1 DEF Ok, Running, FType
  <2>2. ftable[g].ref > 0 /\ ftable[g].ip = x
    BY <1>1, <2>1
  <2> QED
    BY <2>2 DEF InUse, FileOn
<1>10. Whither("put", "user") # "unlink_dec"
  BY DEF Whither, Putting3
<1>11. dinode' = dinode /\ Sets(p, "put", "user", call[p], rest[p], ip[p], dp[p], old[p], inum[p], u)
  BY <1>1, <1>4
<1> QED
  BY <1>3, <1>5, <1>6, <1>7, <1>8, <1>9, <1>10, <1>11, CallTurn

-----------------------------------------------------------------------------
(* The ways that write to the disk *)

\* What a step adds to the links of n, and to the names, unlinks and links that need them.
LinksMove(n, p) ==
    \E a \in Int :
        /\ Cardinality(NamesOf(n)') + Cardinality(SubDirs(n)') <= Cardinality(NamesOf(n)) + Cardinality(SubDirs(n)) + a
        /\ dinode'[n].nlink + In(p, Unlinkers(n)) + In(p, Linkers(n))
             >= dinode[n].nlink + a + In(p, Unlinkers(n)') + In(p, Linkers(n)')

LEMMA LinksMoved ==
    ASSUME Ok, Ok', NEW p \in Procs, OthersSame(p), Turns(p), LinkInv, NEW n \in Inums, LinksMove(n, p)
    PROVE  dinode'[n].nlink >= LinkSum(n)'
<1>1. /\ Cardinality(Unlinkers(n)') + In(p, Unlinkers(n)) = Cardinality(Unlinkers(n)) + In(p, Unlinkers(n)')
      /\ Cardinality(Linkers(n)') + In(p, Linkers(n)) = Cardinality(Linkers(n)) + In(p, Linkers(n)')
  BY CallersMove
<1>2. PICK a \in Int :
        /\ Cardinality(NamesOf(n)') + Cardinality(SubDirs(n)') <= Cardinality(NamesOf(n)) + Cardinality(SubDirs(n)) + a
        /\ dinode'[n].nlink + In(p, Unlinkers(n)) + In(p, Linkers(n))
             >= dinode[n].nlink + a + In(p, Unlinkers(n)') + In(p, Linkers(n)')
  BY DEF LinksMove
<1>3. PICK a1 \in Nat, b1 \in Nat, c1 \in Nat, d1 \in Nat :
        /\ a1 = Cardinality(NamesOf(n)) /\ b1 = Cardinality(Unlinkers(n)) /\ c1 = Cardinality(Linkers(n))
        /\ d1 = Cardinality(SubDirs(n))
  BY NamesFinite
<1>4. PICK a2 \in Nat, b2 \in Nat, c2 \in Nat, d2 \in Nat :
        /\ a2 = Cardinality(NamesOf(n)') /\ b2 = Cardinality(Unlinkers(n)') /\ c2 = Cardinality(Linkers(n)')
        /\ d2 = Cardinality(SubDirs(n)')
  BY NamesFiniteNext
<1>5. PICK u1 \in Nat, u2 \in Nat, l1 \in Nat, l2 \in Nat, e \in Nat :
        /\ u1 = In(p, Unlinkers(n)) /\ u2 = In(p, Unlinkers(n)') /\ l1 = In(p, Linkers(n)) /\ l2 = In(p, Linkers(n)')
        /\ e = Is(n, Root)
  BY DEF In, Is
<1>6. PICK k1 \in Int, k2 \in Int : k1 = dinode[n].nlink /\ k2 = dinode'[n].nlink
  BY DEF Ok, Good, DinodeRec
<1>7. k1 >= a1 + b1 + c1 + d1 + e
  BY <1>3, <1>5, <1>6, LinkSumParts DEF LinkInv
<1>8. b2 + u1 = b1 + u2 /\ c2 + l1 = c1 + l2
  BY <1>1, <1>3, <1>4, <1>5
<1>9. a2 + d2 <= a1 + d1 + a /\ k2 + u1 + l1 >= k1 + a + u2 + l2
  BY <1>2, <1>3, <1>4, <1>5, <1>6
<1>10. k2 >= a2 + b2 + c2 + d2 + e
  BY <1>7, <1>8, <1>9
<1> QED
  BY <1>4, <1>5, <1>6, <1>10, LinkSumParts

LEMMA CallsKept ==
    ASSUME Ok, Ok', CallInv, NEW p \in Procs,
           NEW l, NEW t, NEW c, NEW r, NEW i, NEW d, NEW o, NEW n, NEW u,
           Sets(p, l, t, c, r, i, d, o, n, u), TurnsTo(icache', p),
           PathOf(c, r), LockOf(p, l, t, i, d, u, icache'), FreeOf(l, u, icache')
    PROVE  CallInv'
<1>1. /\ OthersSame(p)
      /\ pc'[p] = l /\ ret'[p] = t /\ call'[p] = c /\ rest'[p] = r
      /\ ip'[p] = i /\ dp'[p] = d /\ puts'[p] = u
  BY After DEF Ok, Running
<1>2. Turns(p)
  BY DEF Turns
<1>3. LockInv' /\ FreeInv' /\ RootInv'
  BY <1>1, <1>2, LocksKept DEF CallInv
<1>4. PathInv'
  <2>1. \A q \in Procs : q # p => PathOf(call[q], rest[q]) /\ call'[q] = call[q] /\ rest'[q] = rest[q]
    BY <1>1 DEF OthersSame, CallInv, PathInv
  <2> QED
    BY <1>1, <2>1 DEF PathInv
<1> QED
  BY <1>3, <1>4 DEF CallInv

\* What a step of p that writes the disk leaves to the others.
DiskKept(p, l, i, d, o, n, u) ==
    /\ \A s \in Slots : Uses(l, i, d, o, u, s) => InUse(s) \/ Fresh(s)'
    /\ \A s \in Slots : InUse(s) /\ InUse(s)' => dinode'[Inum(s)].type # "none" /\ n # Inum(s)
    /\ \A q \in Procs : q # p /\ inum[q] # 0 =>
           /\ dinode'[inum[q]].nlink = dinode[inum[q]].nlink /\ dinode'[inum[q]].type = dinode[inum[q]].type
           /\ \A x \in Names : dinode'[inum[q]].ents[x] = dinode[inum[q]].ents[x]
           /\ n # inum[q]
    /\ \A q \in Procs : q # p /\ pc[q] = "unlink_ip" =>
           dinode'[Inum(dp[q])].ents[Head(rest[q])] = dinode[Inum(dp[q])].ents[Head(rest[q])]
    /\ \A k \in Inums : dinode'[k].type = "dir" => dinode[k].type \in {"dir", "none"}
    /\ o # 0 => o = old[p] \/ dinode'[icache'[o].inum].type # "dir"

LEMMA DiskTurn ==
    ASSUME Ok, Ok', CallInv, DirInv, NEW p \in Procs,
           NEW l, NEW t, NEW i, NEW d, NEW o, NEW n, NEW u,
           Sets(p, l, t, call[p], rest[p], i, d, o, n, u), TurnsTo(icache', p), UNCHANGED files,
           LockOf(p, l, t, i, d, u, icache'), FreeOf(l, u, icache'), l # "unlink_ip",
           DiskKept(p, l, i, d, o, n, u),
           NewOf(p)', DiskInv',
           \A k \in Inums : LinksMove(k, p)
    PROVE  Turned
<1>0. DiskKept(p, l, i, d, o, n, u)
  OBVIOUS
<1>1. /\ OthersSame(p)
      /\ pc'[p] = l /\ ret'[p] = t /\ call'[p] = call[p] /\ rest'[p] = rest[p]
      /\ ip'[p] = i /\ dp'[p] = d /\ old'[p] = o /\ inum'[p] = n /\ puts'[p] = u
  BY After DEF Ok, Running
<1>2. PathOf(call[p], rest[p])
  BY DEF CallInv, PathInv
<1>3. CallInv'
  BY <1>2, CallsKept
<1>4. Turns(p)
  BY DEF Turns
<1>5. LinkInv'
  BY <1>1, <1>4, LinksMoved DEF DirInv, LinkInv
<1>6. \A s \in Slots : FileOn(s)' \/ Uses(pc'[p], ip'[p], dp'[p], old'[p], puts'[p], s) => InUse(s) \/ Fresh(s)'
  BY <1>0, <1>1, SameFiles DEF DiskKept
<1>7. UnlinkOf(p)'
  BY <1>1 DEF UnlinkOf
<1>8. /\ \A s \in Slots : InUse(s) /\ InUse(s)' => dinode'[Inum(s)].type # "none" /\ inum'[p] # Inum(s)
      /\ \A q \in Procs : q # p /\ inum[q] # 0 =>
               /\ dinode'[inum[q]].nlink = dinode[inum[q]].nlink /\ dinode'[inum[q]].type = dinode[inum[q]].type
               /\ \A x \in Names : dinode'[inum[q]].ents[x] = dinode[inum[q]].ents[x]
               /\ inum'[p] # inum[q]
      /\ \A q \in Procs : q # p /\ pc[q] = "unlink_ip" =>
               dinode'[Inum(dp[q])].ents[Head(rest[q])] = dinode[Inum(dp[q])].ents[Head(rest[q])]
      /\ \A k \in Inums : dinode'[k].type = "dir" => dinode[k].type \in {"dir", "none"}
      /\ old'[p] # 0 => old'[p] = old[p] \/ dinode'[icache'[old'[p]].inum].type # "dir"
  BY <1>0, <1>1 DEF DiskKept
<1>9. DirInv'
  BY <1>1, <1>4, <1>5, <1>6, <1>7, <1>8, DirStep
<1> QED
  BY <1>3, <1>9 DEF Turned

\* The calls of p that owe a link of n, or have one in hand.
LEMMA InCallers ==
    ASSUME NEW p \in Procs, NEW n
    PROVE  /\ In(p, Unlinkers(n)) = (IF Where(p) = "unlink_dec" /\ Inum(ip[p]) = n THEN 1 ELSE 0)
           /\ In(p, Linkers(n)) = (IF old[p] # 0 /\ Inum(old[p]) = n THEN 1 ELSE 0)
  BY DEF In, Unlinkers, Linkers

LEMMA InCallersNext ==
    ASSUME Ok, NEW p \in Procs, NEW n, NEW l, NEW t, NEW c, NEW r, NEW i, NEW d, NEW o, NEW k, NEW u,
           Sets(p, l, t, c, r, i, d, o, k, u)
    PROVE  /\ In(p, Unlinkers(n)') = (IF Whither(l, t) = "unlink_dec" /\ icache'[i].inum = n THEN 1 ELSE 0)
           /\ In(p, Linkers(n)') = (IF o # 0 /\ icache'[o].inum = n THEN 1 ELSE 0)
<1>1. pc'[p] = l /\ ret'[p] = t /\ ip'[p] = i /\ old'[p] = o
  BY After DEF Ok, Running
<1> QED
  BY <1>1 DEF In, Unlinkers, Linkers, Where, Inum

\* What is in use is no new inode's.
LEMMA InUseOld ==
    ASSUME Ok, DirInv, NEW p \in Procs, NEW s \in Slots, InUse(s)
    PROVE  /\ Inum(s) \in Inums /\ dinode[Inum(s)].type # "none" /\ Inum(s) # 0
           /\ \A q \in Procs : inum[q] # Inum(s)
<1>1. Inum(s) \in Inums /\ Fresh(s)
  BY InUseFacts DEF DirInv
<1> QED
  BY <1>1 DEF Fresh, Inums

LEMMA EntryNum ==
    ASSUME Ok
    PROVE  \A k \in Inums : \A x \in Names : dinode[k].ents[x] # 0 => dinode[k].ents[x] \in Inums
<1>1. \A k \in Inums : \A x \in Names : dinode[k].ents[x] \in 0..NInodes
  <2>1. \A k \in Inums : dinode[k] \in DinodeRec
    BY DEF Ok, Good
  <2>2. \A k \in Inums : dinode[k].ents \in [Names \cup Dots -> 0..NInodes]
    BY <2>1 DEF DinodeRec
  <2> QED
    BY <2>2
<1>2. \A n \in 0..NInodes : n # 0 => n \in Inums
  BY FileSysAssumption DEF Inums
<1> QED
  BY <1>1, <1>2

\* A step that writes a count of links.
LEMMA NlinkTurn ==
    ASSUME Ok, Ok', CallInv, DirInv, NEW p \in Procs, NEW s \in Slots, InUse(s), inum[p] = 0,
           NEW l, NEW t, NEW i, NEW d, NEW o, NEW u,
           Sets(p, l, t, call[p], rest[p], i, d, o, inum[p], u), TurnsTo(icache', p), UNCHANGED files,
           LockOf(p, l, t, i, d, u, icache'), FreeOf(l, u, icache'), l # "unlink_ip",
           \A x \in Slots : Uses(l, i, d, o, u, x) => InUse(x),
           \A k \in Inums : /\ dinode'[k].type = dinode[k].type /\ dinode'[k].ents = dinode[k].ents
                            /\ k # Inum(s) => dinode'[k] = dinode[k],
           o # 0 => o = old[p] \/ (icache'[o].inum \in Inums /\ dinode[icache'[o].inum].type # "dir"),
           \A k \in Inums : dinode'[k].nlink + In(p, Unlinkers(k)) + In(p, Linkers(k))
                              >= dinode[k].nlink + In(p, Unlinkers(k)') + In(p, Linkers(k)')
    PROVE  Turned
<1>1. Inum(s) \in Inums /\ dinode[Inum(s)].type # "none" /\ \A q \in Procs : inum[q] # Inum(s)
  BY InUseOld
<1>2. \A x \in Slots : InUse(x) /\ InUse(x)' => dinode'[Inum(x)].type # "none" /\ inum[p] # Inum(x)
  BY InUseOld
<1>3. \A q \in Procs : q # p /\ inum[q] # 0 =>
           /\ dinode'[inum[q]].nlink = dinode[inum[q]].nlink /\ dinode'[inum[q]].type = dinode[inum[q]].type
           /\ \A x \in Names : dinode'[inum[q]].ents[x] = dinode[inum[q]].ents[x]
           /\ inum[p] # inum[q]
  <2> SUFFICES ASSUME NEW q \in Procs, inum[q] # 0
               PROVE  dinode'[inum[q]] = dinode[inum[q]]
    OBVIOUS
  <2>1. inum[q] \in Inums
    BY ValuesNow, FileSysAssumption DEF Ok, ValuesOK, Inums
  <2> QED
    BY <1>1, <2>1
<1>4. \A q \in Procs : q # p /\ pc[q] = "unlink_ip" =>
           dinode'[Inum(dp[q])].ents[Head(rest[q])] = dinode[Inum(dp[q])].ents[Head(rest[q])]
  <2> SUFFICES ASSUME NEW q \in Procs, pc[q] = "unlink_ip"
               PROVE  dinode'[Inum(dp[q])].ents[Head(rest[q])] = dinode[Inum(dp[q])].ents[Head(rest[q])]
    OBVIOUS
  <2>1. Inum(dp[q]) \in Inums
    BY NotPutting DEF Ok, Putting3, HasDp, Inum
  <2> QED
    BY <2>1
<1>5. NewOf(p)'
  <2>1. inum'[p] = 0
    BY After DEF Ok, Running
  <2> QED
    BY <2>1 DEF NewOf
<1>6. DiskInv'
  BY <1>1 DEF DirInv, DiskInv
<1>7. \A k \in Inums : LinksMove(k, p)
  <2> SUFFICES ASSUME NEW k \in Inums
               PROVE  LinksMove(k, p)
    OBVIOUS
  <2>1. NamesOf(k)' = NamesOf(k)
    BY DEF NamesOf
  <2>2. SubDirs(k)' = SubDirs(k)
    <3>1. \A x \in Names : dinode[k].ents[x] # 0 => dinode[k].ents[x] \in Inums
      BY EntryNum
    <3> QED
      BY <3>1 DEF SubDirs
  <2>3. Cardinality(NamesOf(k)) \in Nat /\ Cardinality(SubDirs(k)) \in Nat /\ dinode[k].nlink \in Int
    BY NamesFinite DEF Ok, Good, DinodeRec
  <2>4. /\ Cardinality(NamesOf(k)') + Cardinality(SubDirs(k)') <= Cardinality(NamesOf(k)) + Cardinality(SubDirs(k)) + 0
        /\ dinode[k].nlink + 0 = dinode[k].nlink
    BY <2>1, <2>2, <2>3
  <2>5. dinode'[k].nlink + In(p, Unlinkers(k)) + In(p, Linkers(k))
          >= dinode[k].nlink + 0 + In(p, Unlinkers(k)') + In(p, Linkers(k)')
    BY <2>4
  <2> QED
    BY <2>4, <2>5 DEF LinksMove
<1>8. o # 0 => o = old[p] \/ dinode'[icache'[o].inum].type # "dir"
  OBVIOUS
<1>9. \A k \in Inums : dinode'[k].type = "dir" => dinode[k].type \in {"dir", "none"}
  OBVIOUS
<1>10. \A x \in Slots : Uses(l, i, d, o, u, x) => InUse(x) \/ Fresh(x)'
  OBVIOUS
<1>11. DiskKept(p, l, i, d, o, inum[p], u)
  BY <1>2, <1>3, <1>4, <1>8, <1>9, <1>10 DEF DiskKept
<1> QED
  BY <1>5, <1>6, <1>7, <1>11, DiskTurn

LEMMA LocksNlinkTurn ==
    ASSUME Ok, NEW p \in Procs, NEW s \in Slots, icache[s].ref > 0, InUse(s), Locks(s), NEW v \in Int,
           icache' = SetNlink(Locked(s), s, v), dinode' = SetNlink(dinode, icache[s].inum, v)
    PROVE  /\ TurnsTo(icache', p)
           /\ \A k \in Inums : /\ dinode'[k].type = dinode[k].type /\ dinode'[k].ents = dinode[k].ents
                               /\ k # Inum(s) => dinode'[k] = dinode[k]
           /\ dinode'[Inum(s)].nlink = v /\ Inum(s) \in Inums
           /\ \A x \in Slots : icache'[x].inum = icache[x].inum
<1>1. /\ icache[s].inum \in Inums
      /\ \A x \in Slots : /\ icache'[x].ref = icache[x].ref /\ icache'[x].inum = icache[x].inum
                          /\ x # s => icache'[x] = icache[x]
      /\ dinode'[icache[s].inum].nlink = v
      /\ \A m \in Inums : /\ dinode'[m].type = dinode[m].type /\ dinode'[m].ents = dinode[m].ents
                          /\ m # icache[s].inum => dinode'[m] = dinode[m]
  BY LocksNlink DEF Ok
<1>2. icache[s].owner = NoProc /\ \A x \in Slots : icache[x].ref \in Nat
  BY RefNat DEF Locks, Ok
<1>3. TurnsTo(icache', p)
  BY <1>1, <1>2 DEF TurnsTo
<1> QED
  BY <1>1, <1>3 DEF Inum

LEMMA LinkCountsTurn ==
    ASSUME Ok, Ok', CallInv, DirInv, NEW p \in Procs, LinkCounts(p)
    PROVE  Turned
<1>1. PICK s, v : /\ s = ip[p] /\ v = Read(s).nlink + 1 /\ pc[p] = "link" /\ Locks(s) /\ Type(s) # "dir"
                  /\ icache' = SetNlink(Locked(s), s, v) /\ dinode' = SetNlink(dinode, icache[s].inum, v)
                  /\ UNCHANGED files
                  /\ Sets(p, "link_walk", ret[p], call[p], rest[p], 0, dp[p], s, inum[p], puts[p])
  BY DEF LinkCounts, SetNlink
<1>2. /\ s \in Slots /\ icache[s].ref > 0 /\ old[p] = 0 /\ dp[p] = 0 /\ inum[p] = 0
      /\ Len(puts[p]) = 0 /\ First(puts[p]) = 0 /\ Second(puts[p]) = 0
  BY <1>1, NotPutting DEF Ok, Putting3, HasIp, HasDp, HasOld
<1>3. InUse(s)
  BY <1>1 DEF InUse, Uses
<1>4. v = dinode[Inum(s)].nlink + 1 /\ dinode[Inum(s)].type # "dir" /\ dinode[Inum(s)].nlink \in Int
  BY <1>1, <1>2, ReadFacts DEF Ok, Inum, Type, Good, DinodeRec
<1>5. v \in Int
  BY <1>4
<1>6. /\ TurnsTo(icache', p)
      /\ \A k \in Inums : /\ dinode'[k].type = dinode[k].type /\ dinode'[k].ents = dinode[k].ents
                          /\ k # Inum(s) => dinode'[k] = dinode[k]
      /\ dinode'[Inum(s)].nlink = v /\ Inum(s) \in Inums
      /\ \A x \in Slots : icache'[x].inum = icache[x].inum
  BY <1>1, <1>2, <1>3, <1>5, LocksNlinkTurn
<1>7. LockOf(p, "link_walk", ret[p], 0, dp[p], puts[p], icache') /\ FreeOf("link_walk", puts[p], icache')
  <2>1. ~OwnsIp("link_walk", ret[p]) /\ ~OwnsDp("link_walk") /\ ~OwnsPut1("link_walk", puts[p]) /\ ~OwnsPut2(puts[p])
    BY <1>2 DEF OwnsIp, OwnsDp, OwnsPut1, OwnsPut2, Whither, Putting3
  <2> QED
    BY <2>1, NoLocks DEF FreeOf
<1>8. \A x \in Slots : Uses("link_walk", 0, dp[p], s, puts[p], x) => InUse(x)
  <2> SUFFICES ASSUME NEW x \in Slots, Uses("link_walk", 0, dp[p], s, puts[p], x)
               PROVE  InUse(x)
    OBVIOUS
  <2>1. x # 0
    BY DEF Slots
  <2>2. x = s
    BY <1>2, <2>1 DEF Uses
  <2> QED
    BY <1>3, <2>2
<1>9. icache'[s].inum = Inum(s) /\ icache'[s].inum \in Inums /\ dinode[icache'[s].inum].type # "dir"
  BY <1>2, <1>4, <1>6 DEF Inum
<1>10. \A k \in Inums : dinode'[k].nlink + In(p, Unlinkers(k)) + In(p, Linkers(k))
                          >= dinode[k].nlink + In(p, Unlinkers(k)') + In(p, Linkers(k)')
  <2> SUFFICES ASSUME NEW k \in Inums
               PROVE  dinode'[k].nlink + In(p, Unlinkers(k)) + In(p, Linkers(k))
                          >= dinode[k].nlink + In(p, Unlinkers(k)') + In(p, Linkers(k)')
    OBVIOUS
  <2>1. In(p, Unlinkers(k)) = 0 /\ In(p, Linkers(k)) = 0
    BY <1>1, <1>2, InCallers DEF Where, Whither, Putting3
  <2>2. In(p, Unlinkers(k)') = 0 /\ In(p, Linkers(k)') = IF s # 0 /\ icache'[s].inum = k THEN 1 ELSE 0
    <3>1. Whither("link_walk", ret[p]) # "unlink_dec"
      BY DEF Whither, Putting3
    <3> QED
      BY <1>1, <3>1, InCallersNext
  <2>3. s # 0 /\ dinode[k].nlink \in Int
    BY <1>2 DEF Slots, Ok, Good, DinodeRec
  <2>4. dinode'[k].nlink = IF k = Inum(s) THEN dinode[k].nlink + 1 ELSE dinode[k].nlink
    BY <1>4, <1>6
  <2> QED
    BY <1>9, <2>1, <2>2, <2>3, <2>4
<1>11. UNCHANGED files /\ Sets(p, "link_walk", ret[p], call[p], rest[p], 0, dp[p], s, inum[p], puts[p])
  BY <1>1
<1> QED
  BY <1>2, <1>3, <1>6, <1>7, <1>8, <1>9, <1>10, <1>11, NlinkTurn

LEMMA LinkUndoesTurn ==
    ASSUME Ok, Ok', CallInv, DirInv, NEW p \in Procs, LinkUndoes(p)
    PROVE  Turned
<1>1. PICK s, v : /\ s = old[p] /\ v = Read(s).nlink - 1 /\ pc[p] = "link_undo" /\ Locks(s)
                  /\ icache' = SetNlink(Locked(s), s, v) /\ dinode' = SetNlink(dinode, icache[s].inum, v)
                  /\ UNCHANGED files
                  /\ Sets(p, "put", "user", call[p], rest[p], ip[p], dp[p], 0, inum[p], <<Put(s)>>)
  BY DEF LinkUndoes, SetNlink
<1>2. s \in Slots /\ icache[s].ref > 0 /\ ip[p] = 0 /\ dp[p] = 0 /\ inum[p] = 0
  BY <1>1, NotPutting DEF Ok, Putting3, HasIp, HasDp, HasOld
<1>3. InUse(s)
  BY <1>1 DEF InUse, Uses
<1>4. v = dinode[Inum(s)].nlink - 1 /\ dinode[Inum(s)].nlink \in Int
  BY <1>1, <1>2, ReadFacts DEF Ok, Inum, Good, DinodeRec
<1>5. v \in Int
  BY <1>4
<1>6. /\ TurnsTo(icache', p)
      /\ \A k \in Inums : /\ dinode'[k].type = dinode[k].type /\ dinode'[k].ents = dinode[k].ents
                          /\ k # Inum(s) => dinode'[k] = dinode[k]
      /\ dinode'[Inum(s)].nlink = v
  BY <1>1, <1>2, <1>3, <1>5, LocksNlinkTurn
<1>7. PICK u \in Seq(PutRec) : u = <<Put(s)>> /\ Len(u) = 1 /\ First(u) = s /\ Second(u) = 0 /\ ~u[1].held
  BY <1>2, PutOne
<1>8. LockOf(p, "put", "user", ip[p], dp[p], u, icache') /\ FreeOf("put", u, icache')
  <2>1. ~OwnsIp("put", "user") /\ ~OwnsDp("put") /\ ~OwnsPut1("put", u) /\ ~OwnsPut2(u)
    BY <1>7 DEF OwnsIp, OwnsDp, OwnsPut1, OwnsPut2, Whither, Putting3
  <2> QED
    BY <2>1, NoLocks DEF FreeOf
<1>9. \A x \in Slots : Uses("put", ip[p], dp[p], 0, u, x) => InUse(x)
  <2> SUFFICES ASSUME NEW x \in Slots, Uses("put", ip[p], dp[p], 0, u, x)
               PROVE  InUse(x)
    OBVIOUS
  <2>1. x # 0
    BY DEF Slots
  <2>2. x = s
    BY <1>2, <1>7, <2>1 DEF Uses
  <2> QED
    BY <1>3, <2>2
<1>10. \A k \in Inums : dinode'[k].nlink + In(p, Unlinkers(k)) + In(p, Linkers(k))
                          >= dinode[k].nlink + In(p, Unlinkers(k)') + In(p, Linkers(k)')
  <2> SUFFICES ASSUME NEW k \in Inums
               PROVE  dinode'[k].nlink + In(p, Unlinkers(k)) + In(p, Linkers(k))
                          >= dinode[k].nlink + In(p, Unlinkers(k)') + In(p, Linkers(k)')
    OBVIOUS
  <2>1. In(p, Unlinkers(k)) = 0 /\ In(p, Linkers(k)) = IF s # 0 /\ Inum(s) = k THEN 1 ELSE 0
    BY <1>1, <1>2, InCallers DEF Where, Whither, Putting3
  <2>2. In(p, Unlinkers(k)') = 0 /\ In(p, Linkers(k)') = 0
    <3>1. Whither("put", "user") # "unlink_dec"
      BY DEF Whither, Putting3
    <3> QED
      BY <1>1, <3>1, InCallersNext
  <2>3. s # 0 /\ dinode[k].nlink \in Int
    BY <1>2 DEF Slots, Ok, Good, DinodeRec
  <2>4. dinode'[k].nlink = IF k = Inum(s) THEN dinode[k].nlink - 1 ELSE dinode[k].nlink
    BY <1>4, <1>6
  <2> QED
    BY <2>1, <2>2, <2>3, <2>4
<1>11. UNCHANGED files /\ Sets(p, "put", "user", call[p], rest[p], ip[p], dp[p], 0, inum[p], u)
  BY <1>1, <1>7
<1> QED
  BY <1>2, <1>3, <1>6, <1>8, <1>9, <1>10, <1>11, NlinkTurn

LEMMA UnlinkDecsTurn ==
    ASSUME Ok, Ok', CallInv, DirInv, NEW p \in Procs, UnlinkDecs(p)
    PROVE  Turned
<1>1. PICK s, v : /\ s = ip[p] /\ v = icache[s].nlink - 1 /\ pc[p] = "unlink_dec"
                  /\ icache' = SetNlink(icache, s, v) /\ dinode' = SetNlink(dinode, icache[s].inum, v)
                  /\ UNCHANGED files
                  /\ Sets(p, "put", "user", call[p], rest[p], 0, dp[p], old[p], inum[p], <<UnlockPut(s)>>)
  BY DEF UnlinkDecs, SetNlink
<1>2. s \in Slots /\ icache[s].ref > 0 /\ Inum(s) \in Inums /\ old[p] = 0 /\ dp[p] = 0 /\ inum[p] = 0
  BY <1>1, NotPutting DEF Ok, Putting3, HasIp, HasDp, HasOld, Inum
<1>3. InUse(s)
  BY <1>1 DEF InUse, Uses
<1>4. icache[s].owner = p /\ icache[s].valid
  BY <1>1, LocksNow DEF CallInv, OwnsIp, Whither, Putting3
<1>5. v = dinode[Inum(s)].nlink - 1 /\ dinode[Inum(s)].nlink \in Int
  BY <1>1, <1>2, <1>4 DEF Ok, Inum, Good, Agrees, DinodeRec
<1>6. v \in Int
  BY <1>5
<1>7. /\ \A x \in Slots : /\ icache'[x].ref = icache[x].ref /\ icache'[x].inum = icache[x].inum
                          /\ icache'[x].valid = icache[x].valid /\ icache'[x].owner = icache[x].owner
                          /\ x # s => icache'[x] = icache[x]
      /\ \A k \in Inums : /\ dinode'[k].type = dinode[k].type /\ dinode'[k].ents = dinode[k].ents
                          /\ k # Inum(s) => dinode'[k] = dinode[k]
      /\ dinode'[Inum(s)].nlink = v
  <2>1. PICK n \in Inums : n = Inum(s) /\ dinode' = SetNlink(dinode, n, v)
    BY <1>1, <1>2 DEF Inum
  <2>2. icache \in [Slots -> InodeRec] /\ dinode \in [Inums -> DinodeRec]
    BY DEF Ok, Good
  <2> QED
    BY <1>1, <1>2, <1>6, <2>1, <2>2, SetNlinkFacts
<1>8. TurnsTo(icache', p)
  <2>1. \A x \in Slots : icache[x].ref \in Nat
    BY RefNat DEF Ok
  <2> QED
    BY <1>4, <1>7, <2>1 DEF TurnsTo
<1>9. PICK u \in Seq(PutRec) : u = <<UnlockPut(s)>> /\ Len(u) = 1 /\ First(u) = s /\ Second(u) = 0 /\ u[1].held
  BY <1>2, PutOne
<1>10. LockOf(p, "put", "user", 0, dp[p], u, icache') /\ FreeOf("put", u, icache')
  <2>1. ~OwnsIp("put", "user") /\ ~OwnsDp("put") /\ ~OwnsPut2(u)
    BY <1>9 DEF OwnsIp, OwnsDp, OwnsPut2, Whither, Putting3
  <2>2. icache'[s].owner = p /\ icache'[s].valid
    BY <1>2, <1>4, <1>7
  <2> QED
    BY <1>9, <2>1, <2>2 DEF LockOf, Owns, FreeOf
<1>11. \A x \in Slots : Uses("put", 0, dp[p], old[p], u, x) => InUse(x)
  <2> SUFFICES ASSUME NEW x \in Slots, Uses("put", 0, dp[p], old[p], u, x)
               PROVE  InUse(x)
    OBVIOUS
  <2>1. x # 0
    BY DEF Slots
  <2>2. x = s
    BY <1>2, <1>9, <2>1 DEF Uses
  <2> QED
    BY <1>3, <2>2
<1>12. \A k \in Inums : dinode'[k].nlink + In(p, Unlinkers(k)) + In(p, Linkers(k))
                          >= dinode[k].nlink + In(p, Unlinkers(k)') + In(p, Linkers(k)')
  <2> SUFFICES ASSUME NEW k \in Inums
               PROVE  dinode'[k].nlink + In(p, Unlinkers(k)) + In(p, Linkers(k))
                          >= dinode[k].nlink + In(p, Unlinkers(k)') + In(p, Linkers(k)')
    OBVIOUS
  <2>1. In(p, Linkers(k)) = 0 /\ In(p, Unlinkers(k)) = IF Inum(s) = k THEN 1 ELSE 0
    BY <1>1, <1>2, InCallers DEF Where, Whither, Putting3
  <2>2. In(p, Unlinkers(k)') = 0 /\ In(p, Linkers(k)') = 0
    <3>1. Whither("put", "user") # "unlink_dec"
      BY DEF Whither, Putting3
    <3> QED
      BY <1>1, <1>2, <3>1, InCallersNext
  <2>3. dinode[k].nlink \in Int
    BY DEF Ok, Good, DinodeRec
  <2>4. dinode'[k].nlink = IF k = Inum(s) THEN dinode[k].nlink - 1 ELSE dinode[k].nlink
    BY <1>5, <1>7
  <2> QED
    BY <2>1, <2>2, <2>3, <2>4
<1>13. UNCHANGED files /\ Sets(p, "put", "user", call[p], rest[p], 0, dp[p], old[p], inum[p], u)
  BY <1>1, <1>9
<1> QED
  BY <1>2, <1>3, <1>7, <1>8, <1>10, <1>11, <1>12, <1>13, NlinkTurn

\* A step that resets an inode without links moves none.
LEMMA ResetLinks ==
    ASSUME Ok, LinkInv, NEW p \in Procs, NEW n \in Inums, dinode[n].nlink = 0,
           dinode'[n].nlink = 0, \A x \in Names : dinode'[n].ents[x] = 0,
           \A k \in Inums : k # n => dinode'[k] = dinode[k],
           \A k \in Inums : In(p, Unlinkers(k)') = In(p, Unlinkers(k)) /\ In(p, Linkers(k)') = In(p, Linkers(k))
    PROVE  \A k \in Inums : LinksMove(k, p)
<1> SUFFICES ASSUME NEW k \in Inums
             PROVE  LinksMove(k, p)
  OBVIOUS
<1>1. k # 0
  BY DEF Inums
<1>2. NamesOf(k)' \subseteq NamesOf(k)
  BY <1>1 DEF NamesOf
<1>3. SubDirs(k)' \subseteq SubDirs(k)
  <2>1. \A x \in Names : dinode[k].ents[x] # 0 => dinode[k].ents[x] \in Inums /\ dinode[k].ents[x] # n
    BY EntryNum, NoLinks
  <2> QED
    BY <2>1 DEF SubDirs
<1>4. /\ Cardinality(NamesOf(k)') <= Cardinality(NamesOf(k)) /\ Cardinality(SubDirs(k)') <= Cardinality(SubDirs(k))
      /\ Cardinality(NamesOf(k)') \in Nat /\ Cardinality(SubDirs(k)') \in Nat
      /\ Cardinality(NamesOf(k)) \in Nat /\ Cardinality(SubDirs(k)) \in Nat
  BY <1>2, <1>3, NamesFinite, CardSub
<1>5. dinode[k].nlink \in Int /\ In(p, Unlinkers(k)) \in Nat /\ In(p, Linkers(k)) \in Nat
  BY DEF Ok, Good, DinodeRec, In
<1>6. dinode'[k].nlink = dinode[k].nlink
  OBVIOUS
<1>7. In(p, Unlinkers(k)') = In(p, Unlinkers(k)) /\ In(p, Linkers(k)') = In(p, Linkers(k))
  OBVIOUS
<1>8. /\ Cardinality(NamesOf(k)') + Cardinality(SubDirs(k)') <= Cardinality(NamesOf(k)) + Cardinality(SubDirs(k)) + 0
      /\ dinode'[k].nlink + In(p, Unlinkers(k)) + In(p, Linkers(k))
           >= dinode[k].nlink + 0 + In(p, Unlinkers(k)') + In(p, Linkers(k)')
  BY <1>4, <1>5, <1>6, <1>7
<1> QED
  BY <1>8 DEF LinksMove

LEMMA IallocTakesTurn ==
    ASSUME Ok, Ok', CallInv, DirInv, NEW p \in Procs, IallocTakes(p)
    PROVE  Turned
<1>1. PICK m : /\ m = Least(FreeInodes) /\ pc[p] = "ialloc" /\ FreeInodes # {} /\ icache' = icache /\ UNCHANGED files
               /\ dinode' = [dinode EXCEPT ![Least(FreeInodes)] = [type |-> NewType(p), nlink |-> 0, ents |-> NoEntries]]
               /\ Sets(p, "ialloc_iget", ret[p], call[p], rest[p], ip[p], dp[p], old[p], m, puts[p])
  BY DEF IallocTakes
<1>2. Len(puts[p]) = 0 /\ First(puts[p]) = 0 /\ Second(puts[p]) = 0 /\ ip[p] = 0 /\ inum[p] = 0
  BY <1>1, NotPutting DEF Ok, Putting3, HasIp
<1>3. /\ m \in Inums /\ dinode[m].type = "none" /\ dinode'[m].type = NewType(p) /\ dinode'[m].nlink = 0
      /\ dinode'[m].ents = NoEntries
      /\ \A k \in Inums : k # m => dinode'[k] = dinode[k]
      /\ \A x \in Slots : icache[x].ref > 0 /\ icache[x].inum = m => ~icache[x].valid
  <2>1. PICK r : r = [type |-> NewType(p), nlink |-> 0, ents |-> NoEntries] /\ dinode' = [dinode EXCEPT ![m] = r]
    BY <1>1
  <2>2. r.type = NewType(p) /\ r.nlink = 0 /\ r.ents = NoEntries
    BY <2>1
  <2>3. /\ m \in Inums /\ dinode[m].type = "none"
        /\ \A x \in Slots : icache[x].ref > 0 /\ icache[x].inum = m => ~icache[x].valid
    BY <1>1, IallocFacts DEF Ok
  <2>4. dinode'[m] = r /\ \A k \in Inums : k # m => dinode'[k] = dinode[k]
    BY <2>1, <2>3 DEF Ok, Good
  <2> QED
    BY <2>2, <2>3, <2>4
<1>4. dinode[m].nlink = 0 /\ \A x \in Names : dinode'[m].ents[x] = 0
  BY <1>3 DEF DirInv, DiskInv, NoEntries
<1>5. TurnsTo(icache', p)
  BY <1>1, TurnsSame
<1>6. LockOf(p, "ialloc_iget", ret[p], ip[p], dp[p], puts[p], icache') /\ FreeOf("ialloc_iget", puts[p], icache')
  <2>1. ~OwnsIp("ialloc_iget", ret[p]) /\ ~OwnsPut1("ialloc_iget", puts[p]) /\ ~OwnsPut2(puts[p])
    BY <1>2 DEF OwnsIp, OwnsPut1, OwnsPut2, Whither, Putting3
  <2>2. icache'[dp[p]].owner = p /\ icache'[dp[p]].valid
    BY <1>1, LocksNow DEF CallInv, OwnsDp
  <2> QED
    BY <2>1, <2>2 DEF LockOf, Owns, FreeOf
<1>7. \A x \in Slots : InUse(x) => Inum(x) \in Inums /\ Inum(x) # m /\ dinode[Inum(x)].type # "none"
  BY <1>3, InUseOld
<1>8. \A q \in Procs : inum[q] # 0 => inum[q] \in Inums /\ inum[q] # m
  <2> SUFFICES ASSUME NEW q \in Procs, inum[q] # 0
               PROVE  inum[q] \in Inums /\ inum[q] # m
    OBVIOUS
  <2>1. inum[q] \in Inums
    BY ValuesNow, FileSysAssumption DEF Ok, ValuesOK, Inums
  <2>2. dinode[inum[q]].type = NewType(q)
    BY DEF DirInv, NewInv, NewOf
  <2> QED
    BY <1>3, <2>1, <2>2 DEF NewType
<1>9. DiskKept(p, "ialloc_iget", ip[p], dp[p], old[p], m, puts[p])
  <2>1. \A s \in Slots : Uses("ialloc_iget", ip[p], dp[p], old[p], puts[p], s) => InUse(s) \/ Fresh(s)'
    <3> SUFFICES ASSUME NEW s \in Slots, Uses("ialloc_iget", ip[p], dp[p], old[p], puts[p], s)
                 PROVE  InUse(s)
      OBVIOUS
    <3>1. Uses(pc[p], ip[p], dp[p], old[p], puts[p], s)
      BY <1>1 DEF Uses
    <3> QED
      BY <3>1, UsesInUse
  <2>2. \A s \in Slots : InUse(s) /\ InUse(s)' => dinode'[Inum(s)].type # "none" /\ m # Inum(s)
    BY <1>3, <1>7
  <2>3. \A q \in Procs : q # p /\ inum[q] # 0 =>
           /\ dinode'[inum[q]].nlink = dinode[inum[q]].nlink /\ dinode'[inum[q]].type = dinode[inum[q]].type
           /\ \A x \in Names : dinode'[inum[q]].ents[x] = dinode[inum[q]].ents[x]
           /\ m # inum[q]
    BY <1>3, <1>8
  <2>4. \A q \in Procs : q # p /\ pc[q] = "unlink_ip" =>
           dinode'[Inum(dp[q])].ents[Head(rest[q])] = dinode[Inum(dp[q])].ents[Head(rest[q])]
    <3> SUFFICES ASSUME NEW q \in Procs, pc[q] = "unlink_ip"
                 PROVE  dinode'[Inum(dp[q])] = dinode[Inum(dp[q])]
      OBVIOUS
    <3>1. dp[q] \in Slots /\ InUse(dp[q])
      BY NotPutting DEF Ok, Putting3, HasDp, InUse, Uses
    <3> QED
      BY <1>3, <1>7, <3>1
  <2>5. \A k \in Inums : dinode'[k].type = "dir" => dinode[k].type \in {"dir", "none"}
    BY <1>3
  <2> QED
    BY <2>1, <2>2, <2>3, <2>4, <2>5 DEF DiskKept
<1>10. /\ OthersSame(p) /\ pc'[p] = "ialloc_iget" /\ inum'[p] = m /\ call'[p] = call[p]
       /\ ip'[p] = ip[p] /\ old'[p] = old[p] /\ ret'[p] = ret[p]
  BY <1>1, After DEF Ok, Running
<1>11. NewOf(p)'
  <2>1. dinode'[m].type = NewType(p)'
    BY <1>3, <1>10 DEF NewType, Op
  <2>2. \A q \in Procs : inum'[q] = m => q = p
    <3>1. m # 0
      BY <1>3 DEF Inums
    <3> QED
      BY <1>8, <1>10, <3>1 DEF OthersSame
  <2>3. \A s \in Slots : icache'[s].ref > 0 /\ icache'[s].inum = m => ~icache'[s].valid
    BY <1>1, <1>3
  <2> QED
    BY <1>3, <1>4, <1>10, <2>1, <2>2, <2>3 DEF NewOf, Inum
<1>12. DiskInv'
  BY <1>3 DEF DiskInv, DirInv
<1>13. \A k \in Inums : LinksMove(k, p)
  <2>1. \A k \in Inums : In(p, Unlinkers(k)') = In(p, Unlinkers(k)) /\ In(p, Linkers(k)') = In(p, Linkers(k))
    BY <1>1, <1>10 DEF In, Unlinkers, Linkers, Where, Whither, Putting3, Inum
  <2>2. LinkInv
    BY DEF DirInv
  <2> QED
    BY <1>3, <1>4, <2>1, <2>2, ResetLinks
<1>14. UNCHANGED files /\ Sets(p, "ialloc_iget", ret[p], call[p], rest[p], ip[p], dp[p], old[p], m, puts[p])
  BY <1>1
<1> QED
  BY <1>5, <1>6, <1>9, <1>11, <1>12, <1>13, <1>14, DiskTurn

LEMMA FreesTurn ==
    ASSUME Ok, Ok', CallInv, DirInv, NEW p \in Procs, Frees(p)
    PROVE  Turned
<1>1. PICK s : /\ s = Put1(p) /\ pc[p] = "free" /\ icache' = Freed(s) /\ UNCHANGED files
               /\ dinode' = [dinode EXCEPT ![icache[s].inum] = [type |-> "none", nlink |-> 0, ents |-> NoEntries]]
               /\ Sets(p, "drop", ret[p], call[p], rest[p], ip[p], dp[p], old[p], inum[p], puts[p])
  BY DEF Frees
<1>2. /\ HandOf(pc[p], ret[p], call[p], rest[p], ip[p], dp[p], old[p], inum[p], puts[p])
      /\ Len(puts[p]) # 0 /\ s \in Slots /\ icache[s].ref > 0
  <2>1. HandOf(pc[p], ret[p], call[p], rest[p], ip[p], dp[p], old[p], inum[p], puts[p])
    BY ValuesNow DEF Ok
  <2>2. Len(puts[p]) # 0
    BY <1>1, <2>1 DEF HandOf, Putting3
  <2> QED
    BY <1>1, <2>1, <2>2, ValuesNow DEF Ok
<1>3. inum[p] = 0 /\ ~puts[p][1].held
  BY <1>1, <1>2 DEF HandOf
<1>4. icache[s].valid /\ icache[s].nlink = 0 /\ icache[s].ref = 1
  BY <1>1 DEF CallInv, FreeInv, FreeOf, Put1
<1>5. icache[s].owner = p
  BY <1>1, <1>2, LocksNow DEF CallInv, OwnsPut1
<1>6. /\ s # 1 /\ \A f \in Files : ftable[f].ref > 0 => ftable[f].ip # s
      /\ \A q \in Procs : /\ ip[q] # s /\ dp[q] # s /\ old[q] # s /\ Put2(q) # s
                          /\ Put1(q) = s => q = p
  BY <1>1, <1>2, <1>4, OnlyRef DEF Ok
<1>7. /\ Inum(s) \in Inums /\ dinode'[Inum(s)].type = "none" /\ dinode'[Inum(s)].nlink = 0
      /\ dinode'[Inum(s)].ents = NoEntries
      /\ \A k \in Inums : k # Inum(s) => dinode'[k] = dinode[k]
      /\ \A x \in Slots : x # s => icache'[x] = icache[x]
      /\ icache'[s].ref = icache[s].ref /\ icache'[s].inum = icache[s].inum /\ icache'[s].valid = FALSE
  <2>1. PICK r, e : /\ r = [type |-> "none", nlink |-> 0, ents |-> NoEntries]
                    /\ e = dinode' /\ e = [dinode EXCEPT ![icache[s].inum] = r]
    BY <1>1
  <2>2. PICK c : c = icache' /\ c = Freed(s)
    BY <1>1
  <2>3. /\ r.type = "none" /\ r.nlink = 0 /\ r.ents = NoEntries /\ e[icache[s].inum] = r /\ icache[s].inum \in Inums
        /\ \A k \in Inums : k # icache[s].inum => e[k] = dinode[k]
    <3>1. icache[s].inum \in Inums
      BY <1>2 DEF Ok, Good, Numbered
    <3>2. r.type = "none" /\ r.nlink = 0 /\ r.ents = NoEntries
      BY <2>1
    <3>3. e[icache[s].inum] = r /\ \A k \in Inums : k # icache[s].inum => e[k] = dinode[k]
      BY <2>1, <3>1 DEF Ok, Good
    <3> QED
      BY <3>1, <3>2, <3>3
  <2>4. /\ \A x \in Slots : x # s => Freed(s)[x] = icache[x]
        /\ Freed(s)[s].ref = icache[s].ref /\ Freed(s)[s].inum = icache[s].inum /\ Freed(s)[s].valid = FALSE
    BY <1>2, <2>1, GoodFreed DEF Ok
  <2>5. /\ \A x \in Slots : x # s => c[x] = icache[x]
        /\ c[s].ref = icache[s].ref /\ c[s].inum = icache[s].inum /\ c[s].valid = FALSE
    BY <2>2, <2>4
  <2> QED
    BY <2>1, <2>2, <2>3, <2>5 DEF Inum
<1>8. dinode[Inum(s)].nlink = 0 /\ \A x \in Names : dinode'[Inum(s)].ents[x] = 0
  BY <1>2, <1>4, <1>7 DEF Ok, Good, Agrees, Inum, NoEntries
<1>9. TurnsTo(icache', p)
  <2>1. \A x \in Slots : icache[x].ref \in Nat
    BY RefNat DEF Ok
  <2> QED
    BY <1>5, <1>7, <2>1 DEF TurnsTo
<1>10. LockOf(p, "drop", ret[p], ip[p], dp[p], puts[p], icache') /\ FreeOf("drop", puts[p], icache')
  <2>1. ~OwnsDp("drop") /\ ~OwnsPut1("drop", puts[p]) /\ (OwnsIp("drop", ret[p]) <=> OwnsIp("free", ret[p]))
    BY <1>3 DEF OwnsIp, OwnsDp, OwnsPut1, Whither, Putting3
  <2>2. LockOf(p, "free", ret[p], ip[p], dp[p], puts[p], icache)
    BY <1>1 DEF CallInv, LockInv
  <2>3. ip[p] # s /\ Second(puts[p]) # s
    BY <1>6 DEF Put2
  <2>4. FreeOf("drop", puts[p], icache')
    BY DEF FreeOf
  <2> QED
    BY <1>7, <2>1, <2>2, <2>3, <2>4 DEF LockOf, Owns
<1>11. /\ OthersSame(p) /\ pc'[p] = "drop" /\ inum'[p] = inum[p] /\ puts'[p] = puts[p]
       /\ ip'[p] = ip[p] /\ dp'[p] = dp[p] /\ old'[p] = old[p] /\ ret'[p] = ret[p]
  BY <1>1, After DEF Ok, Running
<1>12. \A x \in Slots : InUse(x)' => x # s
  <2> SUFFICES ASSUME InUse(s)'
               PROVE  FALSE
    OBVIOUS
  <2>1. ~FileOn(s)'
    BY <1>1, <1>6 DEF FileOn, files
  <2>2. PICK q \in Procs : Uses(pc'[q], ip'[q], dp'[q], old'[q], puts'[q], s)
    BY <1>6, <2>1 DEF InUse
  <2>3. ip'[q] # s /\ dp'[q] # s /\ old'[q] # s /\ Second(puts'[q]) # s /\ (First(puts'[q]) = s => q = p)
    BY <1>6, <1>11 DEF OthersSame, Put1, Put2
  <2> QED
    BY <1>11, <2>2, <2>3 DEF Uses
<1>13. \A x \in Slots : icache[x].ref > 0 /\ x # s => Inum(x) # Inum(s)
  BY <1>2 DEF Ok, Good, Unique, Inum
<1>14. DiskKept(p, "drop", ip[p], dp[p], old[p], inum[p], puts[p])
  <2>1. \A x \in Slots : Uses("drop", ip[p], dp[p], old[p], puts[p], x) => InUse(x) \/ Fresh(x)'
    <3> SUFFICES ASSUME NEW x \in Slots, Uses("drop", ip[p], dp[p], old[p], puts[p], x)
                 PROVE  InUse(x)
      OBVIOUS
    <3>1. Uses(pc[p], ip[p], dp[p], old[p], puts[p], x)
      BY <1>1 DEF Uses
    <3> QED
      BY <3>1, UsesInUse
  <2>2. \A x \in Slots : InUse(x) /\ InUse(x)' => dinode'[Inum(x)].type # "none" /\ inum[p] # Inum(x)
    <3> SUFFICES ASSUME NEW x \in Slots, InUse(x), x # s
                 PROVE  dinode'[Inum(x)].type # "none" /\ inum[p] # Inum(x)
      BY <1>12
    <3>1. icache[x].ref > 0
      BY InUseFacts
    <3>2. Inum(x) \in Inums /\ dinode[Inum(x)].type # "none" /\ inum[p] # Inum(x)
      BY InUseOld
    <3> QED
      BY <1>7, <1>13, <3>1, <3>2
  <2>3. \A q \in Procs : q # p /\ inum[q] # 0 =>
           /\ dinode'[inum[q]].nlink = dinode[inum[q]].nlink /\ dinode'[inum[q]].type = dinode[inum[q]].type
           /\ \A x \in Names : dinode'[inum[q]].ents[x] = dinode[inum[q]].ents[x]
           /\ inum[p] # inum[q]
    <3> SUFFICES ASSUME NEW q \in Procs, inum[q] # 0
                 PROVE  dinode'[inum[q]] = dinode[inum[q]]
      BY <1>3
    <3>1. inum[q] \in Inums
      BY ValuesNow, FileSysAssumption DEF Ok, ValuesOK, Inums
    <3>2. inum[q] # Inum(s)
      BY <1>2, <1>4 DEF DirInv, NewInv, NewOf
    <3> QED
      BY <1>7, <3>1, <3>2
  <2>4. \A q \in Procs : q # p /\ pc[q] = "unlink_ip" =>
           dinode'[Inum(dp[q])].ents[Head(rest[q])] = dinode[Inum(dp[q])].ents[Head(rest[q])]
    <3> SUFFICES ASSUME NEW q \in Procs, pc[q] = "unlink_ip"
                 PROVE  dinode'[Inum(dp[q])] = dinode[Inum(dp[q])]
      OBVIOUS
    <3>1. dp[q] \in Slots /\ icache[dp[q]].ref > 0 /\ Inum(dp[q]) \in Inums
      BY NotPutting DEF Ok, Putting3, HasDp, Inum
    <3> QED
      BY <1>6, <1>7, <1>13, <3>1
  <2>5. \A k \in Inums : dinode'[k].type = "dir" => dinode[k].type \in {"dir", "none"}
    BY <1>7
  <2> QED
    BY <2>1, <2>2, <2>3, <2>4, <2>5 DEF DiskKept
<1>15. NewOf(p)'
  BY <1>3, <1>11 DEF NewOf
<1>16. DiskInv'
  BY <1>7 DEF DiskInv, DirInv
<1>17. \A k \in Inums : LinksMove(k, p)
  <2>1. \A x \in Slots : icache'[x].inum = icache[x].inum
    BY <1>7
  <2>2. ip[p] \in Slots \/ ip[p] = 0
    BY ValuesNow DEF Ok
  <2>3. old[p] \in Slots \/ old[p] = 0
    BY ValuesNow DEF Ok
  <2>4. ip[p] = 0 => Where(p) # "unlink_dec"
    BY <1>2 DEF HandOf, HasIp, Where
  <2>5. Where(p)' = Where(p)
    BY <1>1, <1>11 DEF Where, Whither, Putting3
  <2>6. \A k \in Inums : In(p, Unlinkers(k)') = In(p, Unlinkers(k)) /\ In(p, Linkers(k)') = In(p, Linkers(k))
    BY <1>11, <2>1, <2>2, <2>3, <2>4, <2>5 DEF In, Unlinkers, Linkers, Inum
  <2>7. LinkInv
    BY DEF DirInv
  <2> QED
    BY <1>7, <1>8, <2>6, <2>7, ResetLinks
<1>18. UNCHANGED files /\ Sets(p, "drop", ret[p], call[p], rest[p], ip[p], dp[p], old[p], inum[p], puts[p])
  BY <1>1
<1> QED
  BY <1>9, <1>10, <1>14, <1>15, <1>16, <1>17, <1>18, DiskTurn

\* A step that writes the entry of one name.
OneEntry(m, x) ==
    /\ \A k \in Inums : \A y \in Names : k # m \/ y # x => dinode'[k].ents[y] = dinode[k].ents[y]
    /\ \A k \in Inums : dinode'[k].type = dinode[k].type

DirNum(n) == IF n # 0 /\ dinode[n].type = "dir" THEN 1 ELSE 0

LEMMA EntryMoves ==
    ASSUME Ok, Ok', NEW m \in Inums, NEW x \in Names, OneEntry(m, x), NEW k \in Inums
    PROVE  /\ Cardinality(NamesOf(k)') + Is(dinode[m].ents[x], k) = Cardinality(NamesOf(k)) + Is(dinode'[m].ents[x], k)
           /\ k = m => Cardinality(SubDirs(k)') + DirNum(dinode[m].ents[x])
                         = Cardinality(SubDirs(k)) + DirNum(dinode'[m].ents[x])
           /\ k # m => Cardinality(SubDirs(k)') = Cardinality(SubDirs(k))
           /\ Cardinality(NamesOf(k)) \in Nat /\ Cardinality(SubDirs(k)) \in Nat
           /\ Cardinality(NamesOf(k)') \in Nat /\ Cardinality(SubDirs(k)') \in Nat
<1>1. PICK e \in Inums \X Names : e = <<m, x>> /\ e[1] = m /\ e[2] = x
  <2>1. <<m, x>> \in Inums \X Names /\ <<m, x>>[1] = m /\ <<m, x>>[2] = x
    OBVIOUS
  <2> QED
    BY <2>1, Zenon
<1>2. \A g : g # e => (g \in NamesOf(k) <=> g \in NamesOf(k)')
  <2> SUFFICES ASSUME NEW g \in Inums \X Names, g # e
               PROVE  dinode'[g[1]].ents[g[2]] = dinode[g[1]].ents[g[2]]
    BY DEF NamesOf
  <2>1. g[1] \in Inums /\ g[2] \in Names /\ (g[1] # m \/ g[2] # x)
    BY <1>1
  <2> QED
    BY <2>1 DEF OneEntry
<1>3. Cardinality(NamesOf(k)') + In(e, NamesOf(k)) = Cardinality(NamesOf(k)) + In(e, NamesOf(k)')
  BY <1>2, NamesFinite, CardMove
<1>4. In(e, NamesOf(k)) = Is(dinode[m].ents[x], k) /\ In(e, NamesOf(k)') = Is(dinode'[m].ents[x], k)
  BY <1>1 DEF In, Is, NamesOf
<1>5. \A y \in Names : k # m \/ y # x => (y \in SubDirs(k) <=> y \in SubDirs(k)')
  <2> SUFFICES ASSUME NEW y \in Names, k # m \/ y # x
               PROVE  y \in SubDirs(k) <=> y \in SubDirs(k)'
    OBVIOUS
  <2>1. dinode'[k].ents[y] = dinode[k].ents[y]
    BY DEF OneEntry
  <2>2. dinode[k].ents[y] # 0 => dinode'[dinode[k].ents[y]].type = dinode[dinode[k].ents[y]].type
    BY EntryNum DEF OneEntry
  <2> QED
    BY <2>1, <2>2 DEF SubDirs
<1>6. k # m => Cardinality(SubDirs(k)') = Cardinality(SubDirs(k))
  <2> SUFFICES ASSUME k # m
               PROVE  SubDirs(k)' = SubDirs(k)
    OBVIOUS
  <2>1. \A y : y \in SubDirs(k) => y \in Names
    BY DEF SubDirs
  <2>2. \A y : y \in SubDirs(k)' => y \in Names
    BY DEF SubDirs
  <2> QED
    BY <1>5, <2>1, <2>2
<1>7. k = m => Cardinality(SubDirs(k)') + DirNum(dinode[m].ents[x]) = Cardinality(SubDirs(k)) + DirNum(dinode'[m].ents[x])
  <2> SUFFICES ASSUME k = m
               PROVE  Cardinality(SubDirs(k)') + DirNum(dinode[m].ents[x])
                        = Cardinality(SubDirs(k)) + DirNum(dinode'[m].ents[x])
    OBVIOUS
  <2>1. \A y : y # x => (y \in SubDirs(k) <=> y \in SubDirs(k)')
    <3>1. \A y : y \in SubDirs(k) \/ y \in SubDirs(k)' => y \in Names
      BY DEF SubDirs
    <3> QED
      BY <1>5, <3>1
  <2>2. Cardinality(SubDirs(k)') + In(x, SubDirs(k)) = Cardinality(SubDirs(k)) + In(x, SubDirs(k)')
    BY <2>1, NamesFinite, CardMove
  <2>3. In(x, SubDirs(k)) = DirNum(dinode[m].ents[x])
    BY DEF In, DirNum, SubDirs
  <2>4. dinode'[m].ents[x] # 0 => dinode'[m].ents[x] \in Inums
    <3>1. dinode'[m] \in DinodeRec
      BY DEF Ok, Good
    <3>2. dinode'[m].ents[x] \in 0..NInodes
      BY <3>1 DEF DinodeRec
    <3> QED
      BY <3>2, FileSysAssumption DEF Inums
  <2>5. In(x, SubDirs(k)') = DirNum(dinode'[m].ents[x])
    BY <2>4 DEF In, DirNum, SubDirs, OneEntry
  <2> QED
    BY <2>2, <2>3, <2>5
<1> QED
  BY <1>3, <1>4, <1>6, <1>7, NamesFinite, NamesFiniteNext

\* ... in a directory that p has locked.
LEMMA EntryKept ==
    ASSUME Ok, CallInv, DirInv, NEW p \in Procs, NEW a \in Slots, InUse(a), icache[a].owner \in {NoProc, p},
           NEW x \in Names, OneEntry(Inum(a), x),
           \A k \in Inums : k # Inum(a) /\ k # inum[p] => dinode'[k].nlink = dinode[k].nlink,
           NEW l, NEW i, NEW d, NEW o, NEW n, NEW u, n = 0, o \in {0, old[p]},
           \A s \in Slots : Uses(l, i, d, o, u, s) => InUse(s) \/ Fresh(s)'
    PROVE  DiskKept(p, l, i, d, o, n, u) /\ DiskInv'
<1>1. /\ Inum(a) \in Inums /\ dinode[Inum(a)].type # "none" /\ icache[a].ref > 0
      /\ \A q \in Procs : inum[q] # Inum(a)
  BY InUseOld, InUseFacts
<1>2. \A s \in Slots : InUse(s) /\ InUse(s)' => dinode'[Inum(s)].type # "none" /\ n # Inum(s)
  BY InUseOld DEF OneEntry
<1>3. \A q \in Procs : inum[q] # 0 => inum[q] \in Inums /\ dinode[inum[q]].type # "none"
  <2> SUFFICES ASSUME NEW q \in Procs, inum[q] # 0
               PROVE  inum[q] \in Inums /\ dinode[inum[q]].type # "none"
    OBVIOUS
  <2>1. inum[q] \in Inums
    BY ValuesNow, FileSysAssumption DEF Ok, ValuesOK, Inums
  <2>2. dinode[inum[q]].type = NewType(q)
    BY DEF DirInv, NewInv, NewOf
  <2> QED
    BY <2>1, <2>2 DEF NewType
<1>4. \A q \in Procs : q # p /\ inum[q] # 0 =>
           /\ dinode'[inum[q]].nlink = dinode[inum[q]].nlink /\ dinode'[inum[q]].type = dinode[inum[q]].type
           /\ \A y \in Names : dinode'[inum[q]].ents[y] = dinode[inum[q]].ents[y]
           /\ n # inum[q]
  <2> SUFFICES ASSUME NEW q \in Procs, q # p, inum[q] # 0
               PROVE  /\ dinode'[inum[q]].nlink = dinode[inum[q]].nlink /\ dinode'[inum[q]].type = dinode[inum[q]].type
                      /\ \A y \in Names : dinode'[inum[q]].ents[y] = dinode[inum[q]].ents[y]
    OBVIOUS
  <2>1. inum[q] \in Inums /\ inum[q] # Inum(a) /\ inum[q] # inum[p]
    BY <1>1, <1>3 DEF DirInv, NewInv, NewOf
  <2> QED
    BY <2>1 DEF OneEntry
<1>5. \A q \in Procs : q # p /\ pc[q] = "unlink_ip" =>
           dinode'[Inum(dp[q])].ents[Head(rest[q])] = dinode[Inum(dp[q])].ents[Head(rest[q])]
  <2> SUFFICES ASSUME NEW q \in Procs, q # p, pc[q] = "unlink_ip"
               PROVE  dinode'[Inum(dp[q])].ents[Head(rest[q])] = dinode[Inum(dp[q])].ents[Head(rest[q])]
    OBVIOUS
  <2>1. dp[q] \in Slots /\ icache[dp[q]].ref > 0 /\ Inum(dp[q]) \in Inums /\ rest[q] # <<>>
    BY NotPutting DEF Ok, Putting3, HasDp, HasRest, Inum
  <2>2. Head(rest[q]) \in Names
    BY <2>1, PathHead
  <2>3. icache[dp[q]].owner = q
    BY LocksNow DEF CallInv, OwnsDp
  <2>4. dp[q] # a
    BY <2>3, FileSysAssumption
  <2>5. Inum(dp[q]) # Inum(a)
    BY <1>1, <2>1, <2>4 DEF Ok, Good, Unique, Inum
  <2> QED
    BY <2>1, <2>2, <2>5 DEF OneEntry
<1>6. \A k \in Inums : dinode'[k].type = "dir" => dinode[k].type \in {"dir", "none"}
  BY DEF OneEntry
<1>7. DiskKept(p, l, i, d, o, n, u)
  BY <1>2, <1>4, <1>5, <1>6 DEF DiskKept
<1>8. DiskInv'
  <2> SUFFICES ASSUME NEW k \in Inums, dinode'[k].type = "none"
               PROVE  dinode'[k].nlink = 0
    BY DEF DiskInv
  <2>1. dinode[k].type = "none"
    BY DEF OneEntry
  <2>2. dinode[k].nlink = 0 /\ k # 0
    BY <2>1 DEF DirInv, DiskInv, Inums
  <2> QED
    BY <1>1, <1>3, <2>1, <2>2
<1> QED
  BY <1>7, <1>8

LEMMA LinkNamesTurn ==
    ASSUME Ok, Ok', CallInv, DirInv, NEW p \in Procs, LinkNames(p)
    PROVE  Turned
<1>1. PICK s, g, x, n :
         /\ s = dp[p] /\ g = old[p] /\ x = Head(rest[p]) /\ n = Inum(g) /\ pc[p] = "link_new" /\ Locks(s) /\ LastName(p) = 0
         /\ icache' = Locked(s) /\ UNCHANGED files
         /\ dinode' = SetEntry(dinode, Inum(s), x, n)
         /\ Sets(p, "put", "user", call[p], rest[p], ip[p], 0, 0, inum[p], <<Put(s), Put(g)>>)
  BY DEF LinkNames, SetEntry, Inum
<1>2. /\ s \in Slots /\ icache[s].ref > 0 /\ Inum(s) \in Inums /\ g \in Slots /\ n \in Inums
      /\ ip[p] = 0 /\ inum[p] = 0 /\ rest[p] # <<>>
  BY <1>1, NotPutting DEF Ok, Putting3, HasIp, HasDp, HasOld, HasRest, Inum
<1>3. InUse(s) /\ InUse(g)
  BY <1>1 DEF InUse, Uses
<1>4. x \in Names
  BY <1>1, <1>2, PathHead
<1>5. TurnsTo(icache', p)
  BY <1>1, <1>2, <1>3, LocksTurn
<1>6. /\ OneEntry(Inum(s), x) /\ dinode'[Inum(s)].ents[x] = n
      /\ \A k \in Inums : dinode'[k].nlink = dinode[k].nlink
  <2>1. dinode \in [Inums -> DinodeRec] /\ n \in 0..NInodes
    BY <1>2, FileSysAssumption DEF Ok, Good, Inums
  <2>2. PICK m \in Inums, y \in Names \cup Dots : m = Inum(s) /\ y = x /\ dinode' = SetEntry(dinode, m, y, n)
    BY <1>1, <1>2, <1>4
  <2>3. /\ dinode'[m].ents[y] = n
        /\ \A k \in Inums : /\ dinode'[k].type = dinode[k].type /\ dinode'[k].nlink = dinode[k].nlink
                            /\ \A z \in Names \cup Dots : k # m \/ z # y => dinode'[k].ents[z] = dinode[k].ents[z]
    BY <2>1, <2>2, SetEntryFacts
  <2> QED
    BY <2>2, <2>3 DEF OneEntry
<1>7. dinode[Inum(s)].ents[x] = 0
  BY <1>1 DEF LastName, Entry, Inum
<1>8. dinode[n].type # "dir"
  BY <1>1, <1>2 DEF DirInv, OldInv, Slots
<1>9. PICK a \in PutRec, b \in PutRec : a = Put(s) /\ b = Put(g) /\ a.slot = s /\ b.slot = g /\ ~a.held /\ ~b.held
  BY <1>2, PutIs
<1>10. PICK u \in Seq(PutRec) : u = <<a, b>> /\ Len(u) = 2 /\ First(u) = a.slot /\ Second(u) = b.slot
                                /\ u[1] = a /\ u[2] = b
  BY TwoOf
<1>11. LockOf(p, "put", "user", ip[p], 0, u, icache') /\ FreeOf("put", u, icache')
  <2>1. ~OwnsIp("put", "user") /\ ~OwnsDp("put") /\ ~OwnsPut1("put", u) /\ ~OwnsPut2(u)
    BY <1>9, <1>10 DEF OwnsIp, OwnsDp, OwnsPut1, OwnsPut2, Whither, Putting3
  <2> QED
    BY <2>1, NoLocks DEF FreeOf
<1>12. \A z \in Slots : Uses("put", ip[p], 0, 0, u, z) => InUse(z) \/ Fresh(z)'
  <2> SUFFICES ASSUME NEW z \in Slots, Uses("put", ip[p], 0, 0, u, z)
               PROVE  InUse(z)
    OBVIOUS
  <2>1. z # 0
    BY DEF Slots
  <2>2. z = s \/ z = g
    BY <1>2, <1>9, <1>10, <2>1 DEF Uses
  <2> QED
    BY <1>3, <2>2
<1>13. icache[s].owner = NoProc
  BY <1>1 DEF Locks
<1>14. DiskKept(p, "put", ip[p], 0, 0, inum[p], u) /\ DiskInv'
  BY <1>2, <1>3, <1>4, <1>6, <1>12, <1>13, EntryKept
<1>15. UNCHANGED files /\ Sets(p, "put", "user", call[p], rest[p], ip[p], 0, 0, inum[p], u)
  BY <1>1, <1>9, <1>10
<1>16. NewOf(p)'
  <2>1. inum'[p] = 0
    BY <1>2, <1>15, After DEF Ok, Running
  <2> QED
    BY <2>1 DEF NewOf
<1>17. \A k \in Inums : LinksMove(k, p)
  <2> SUFFICES ASSUME NEW k \in Inums
               PROVE  LinksMove(k, p)
    OBVIOUS
  <2>1. /\ Cardinality(NamesOf(k)') + Is(0, k) = Cardinality(NamesOf(k)) + Is(n, k)
        /\ k = Inum(s) => Cardinality(SubDirs(k)') + DirNum(0) = Cardinality(SubDirs(k)) + DirNum(n)
        /\ k # Inum(s) => Cardinality(SubDirs(k)') = Cardinality(SubDirs(k))
        /\ Cardinality(NamesOf(k)) \in Nat /\ Cardinality(SubDirs(k)) \in Nat
        /\ Cardinality(NamesOf(k)') \in Nat /\ Cardinality(SubDirs(k)') \in Nat
    BY <1>2, <1>4, <1>6, <1>7, EntryMoves
  <2>2. DirNum(0) = 0 /\ DirNum(n) = 0 /\ Is(0, k) = 0 /\ Is(n, k) \in Nat
    BY <1>8 DEF DirNum, Is, Inums
  <2>3. In(p, Unlinkers(k)) = 0 /\ In(p, Linkers(k)) = Is(n, k)
    <3>1. g # 0
      BY <1>2 DEF Slots
    <3> QED
      BY <1>1, <3>1, InCallers DEF Where, Whither, Putting3, Is
  <2>4. In(p, Unlinkers(k)') = 0 /\ In(p, Linkers(k)') = 0
    <3>1. Whither("put", "user") # "unlink_dec"
      BY DEF Whither, Putting3
    <3> QED
      BY <1>15, <3>1, InCallersNext
  <2>5. dinode'[k].nlink = dinode[k].nlink /\ dinode[k].nlink \in Int
    BY <1>6 DEF Ok, Good, DinodeRec
  <2>6. /\ Cardinality(NamesOf(k)') + Cardinality(SubDirs(k)')
             <= Cardinality(NamesOf(k)) + Cardinality(SubDirs(k)) + Is(n, k)
        /\ dinode'[k].nlink + In(p, Unlinkers(k)) + In(p, Linkers(k))
             >= dinode[k].nlink + Is(n, k) + In(p, Unlinkers(k)') + In(p, Linkers(k)')
        /\ Is(n, k) \in Int
    BY <2>1, <2>2, <2>3, <2>4, <2>5
  <2> QED
    BY <2>6 DEF LinksMove
<1> QED
  BY <1>5, <1>11, <1>14, <1>15, <1>16, <1>17, DiskTurn

\* ilock of s, the lock kept, then a count of links in d: the other entries stay.
LEMMA HoldNlink ==
    ASSUME Ok, NEW p \in Procs, NEW s \in Slots, icache[s].ref > 0, NEW d \in Slots, NEW v \in Int, NEW c,
           c = SetNlink(Hold(Locked(s), p, s), d, v) \/ c = SetNlink(SetNlink(Hold(Locked(s), p, s), s, 1), d, v)
    PROVE  \A x \in Slots : x # s /\ x # d => c[x].nlink = icache[x].nlink
<1>1. PICK h : h = Hold(Locked(s), p, s)
  OBVIOUS
<1>2. h \in [Slots -> InodeRec] /\ \A x \in Slots : x # s => h[x].nlink = icache[x].nlink
  <2>1. Good(Locked(s), dinode) /\ \A x \in Slots : x # s => Locked(s)[x] = icache[x]
    BY GoodLocked DEF Ok
  <2>2. PICK k : k = Locked(s) /\ h = Hold(k, p, s)
    BY <1>1
  <2>3. Good(k, dinode) /\ \A x \in Slots : x # s => k[x] = icache[x]
    BY <2>1, <2>2
  <2>4. Good(Hold(k, p, s), dinode) /\ \A x \in Slots : Hold(k, p, s)[x].nlink = k[x].nlink
    BY <2>3, GoodHold
  <2> QED
    BY <2>2, <2>3, <2>4 DEF Good
<1>3. PICK e \in [Inums -> DinodeRec], m \in Inums : e = dinode /\ m = icache[s].inum
  BY DEF Ok, Good, Numbered
<1>4. SetNlink(h, s, 1) \in [Slots -> InodeRec] /\ \A x \in Slots : x # s => SetNlink(h, s, 1)[x] = h[x]
  BY <1>2, <1>3, SetNlinkFacts
<1>5. PICK k : k = SetNlink(h, s, 1)
  OBVIOUS
<1>6. k \in [Slots -> InodeRec] /\ \A x \in Slots : x # s => k[x] = h[x]
  BY <1>4, <1>5
<1>7. \A x \in Slots : x # d => SetNlink(h, d, v)[x] = h[x] /\ SetNlink(k, d, v)[x] = k[x]
  BY <1>2, <1>3, <1>6, SetNlinkFacts
<1>8. c = SetNlink(h, d, v) \/ c = SetNlink(k, d, v)
  BY <1>1, <1>5
<1> QED
  BY <1>2, <1>6, <1>7, <1>8

\* ... so p may do that to a d it has locked.
LEMMA HoldTurn ==
    ASSUME Ok, NEW p, NEW s \in Slots, icache[s].owner = NoProc, InUse(s) \/ (pc[p] = "create_new" /\ s = ip[p]),
           NEW d \in Slots, icache[d].owner = p, icache[s].ref > 0,
           \A z \in Slots : icache[z].ref \in Nat,
           \A z \in Slots : z # s /\ z # d => icache'[z].nlink = icache[z].nlink,
           \A z \in Slots : /\ icache'[z].ref = icache[z].ref /\ icache'[z].inum = icache[z].inum
                            /\ icache'[z].owner = IF z = s THEN p ELSE icache[z].owner
                            /\ icache'[z].valid = (z = s \/ icache[z].valid)
    PROVE  TurnsTo(icache', p)
<1> SUFFICES ASSUME NEW z \in Slots
             PROVE  /\ icache[z].ref > 0 /\ icache'[z].ref > 0 => icache'[z].inum = icache[z].inum
                    /\ icache[z].ref > 0 /\ icache'[z].ref > 0 /\ icache[z].owner \notin {NoProc, p} =>
                           /\ icache'[z].owner = icache[z].owner /\ icache'[z].valid = icache[z].valid
                           /\ icache'[z].nlink = icache[z].nlink
                    /\ icache'[z].ref > 0 /\ icache'[z].valid =>
                           icache[z].ref > 0 /\ (icache[z].valid \/ InUse(z) \/ (pc[p] = "create_new" /\ z = ip[p]))
                    /\ icache[z].ref > 0 /\ icache[z].valid /\ icache[z].nlink = 0 => icache'[z].ref <= icache[z].ref
  BY DEF TurnsTo
<1>1. CASE z = s
  <2>1. icache'[z].ref <= icache[z].ref
    OBVIOUS
  <2> QED
    BY <1>1, <2>1
<1>2. CASE z # s
  <2>1. icache'[z].owner = icache[z].owner /\ icache'[z].inum = icache[z].inum /\ icache'[z].ref = icache[z].ref
    BY <1>2
  <2>2. icache'[z].valid = icache[z].valid
    <3>1. icache[z].valid \in BOOLEAN
      BY DEF Ok, Good, InodeRec
    <3>2. icache'[z].valid = (FALSE \/ icache[z].valid)
      BY <1>2
    <3> QED
      BY <3>1, <3>2
  <2>3. z # d => icache'[z].nlink = icache[z].nlink
    BY <1>2
  <2>4. icache'[z].ref <= icache[z].ref
    OBVIOUS
  <2> QED
    BY <2>1, <2>2, <2>3, <2>4
<1> QED
  BY <1>1, <1>2

LEMMA UnlinkErasesTurn ==
    ASSUME Ok, Ok', CallInv, DirInv, NEW p \in Procs, UnlinkErases(p)
    PROVE  Turned
<1>1. PICK s, d, x, n, m :
         /\ s = ip[p] /\ d = dp[p] /\ x = Head(rest[p]) /\ n = Inum(s) /\ m = Inum(d)
         /\ pc[p] = "unlink_ip" /\ Locks(s) /\ UNCHANGED files
         /\ icache' = SetNlink(Hold(Locked(s), p, s), d, Down(p))
         /\ Sets(p, "put", "unlink_dec", call[p], rest[p], s, 0, old[p], inum[p], <<UnlockPut(d)>>)
  BY DEF UnlinkErases, SetNlink
<1>2. /\ s \in Slots /\ icache[s].ref > 0 /\ n \in Inums /\ d \in Slots /\ icache[d].ref > 0 /\ m \in Inums
      /\ old[p] = 0 /\ inum[p] = 0 /\ rest[p] # <<>>
  BY <1>1, NotPutting DEF Ok, Putting3, HasIp, HasDp, HasOld, HasRest, Inum
<1>3. InUse(s) /\ InUse(d)
  BY <1>1 DEF InUse, Uses
<1>4. x \in Names
  BY <1>1, <1>2, PathHead
<1>5. icache[d].owner = p /\ icache[d].valid /\ icache[s].owner = NoProc
  BY <1>1, LocksNow DEF CallInv, OwnsDp, Locks
<1>6. s # d /\ n # m
  <2>1. s # d
    BY <1>5, FileSysAssumption
  <2> QED
    BY <1>1, <1>2, <2>1 DEF Ok, Good, Unique, Inum
<1>7. /\ Down(p) \in Int
      /\ \A z \in Slots : /\ icache'[z].ref = icache[z].ref /\ icache'[z].inum = icache[z].inum
                          /\ icache'[z].owner = IF z = s THEN p ELSE icache[z].owner
                          /\ icache'[z].valid = (z = s \/ icache[z].valid)
      /\ \A k \in Inums : /\ dinode'[k].type = dinode[k].type
                          /\ dinode'[k].nlink = IF k = m THEN Down(p) ELSE dinode[k].nlink
                          /\ \A y \in Names \cup Dots :
                               dinode'[k].ents[y] = IF k = m /\ y = x THEN 0 ELSE dinode[k].ents[y]
  BY <1>1, UnlinkWrites DEF Ok, Inum
<1>8. Down(p) = dinode[m].nlink - DirNum(n) /\ dinode[m].nlink \in Int /\ DirNum(n) \in Nat
  <2>1. Type(s) = dinode[n].type
    BY <1>1, <1>2, ReadFacts DEF Ok, Type, Inum
  <2>2. icache[d].nlink = dinode[m].nlink
    BY <1>1, <1>2, <1>5 DEF Ok, Good, Agrees, Inum
  <2>3. dinode[m].nlink \in Int /\ n # 0
    BY <1>2 DEF Ok, Good, DinodeRec, Inums
  <2> QED
    BY <1>1, <2>1, <2>2, <2>3 DEF Down, DirNum
<1>9. TurnsTo(icache', p)
  <2>1. \A z \in Slots : z # s /\ z # d => icache'[z].nlink = icache[z].nlink
    <3>1. PICK v \in Int : v = Down(p) /\ icache' = SetNlink(Hold(Locked(s), p, s), d, v)
      BY <1>1, <1>7
    <3> QED
      BY <1>2, <3>1, HoldNlink
  <2>2. \A z \in Slots : icache[z].ref \in Nat
    BY RefNat DEF Ok
  <2> QED
    BY <1>2, <1>3, <1>5, <1>7, <2>1, <2>2, HoldTurn
<1>10. /\ OneEntry(m, x) /\ dinode'[m].ents[x] = 0
       /\ \A k \in Inums : dinode'[k].nlink = IF k = m THEN dinode[k].nlink - DirNum(n) ELSE dinode[k].nlink
  BY <1>2, <1>4, <1>7, <1>8 DEF OneEntry
<1>11. dinode[m].ents[x] = n
  BY <1>1 DEF DirInv, UnlinkInv, UnlinkOf
<1>12. PICK u \in Seq(PutRec) : u = <<UnlockPut(d)>> /\ Len(u) = 1 /\ First(u) = d /\ Second(u) = 0 /\ u[1].held
  BY <1>2, PutOne
<1>13. LockOf(p, "put", "unlink_dec", s, 0, u, icache') /\ FreeOf("put", u, icache')
  <2>1. ~OwnsDp("put") /\ ~OwnsPut2(u)
    BY <1>12 DEF OwnsDp, OwnsPut2
  <2>2. icache'[s].owner = p /\ icache'[s].valid /\ icache'[d].owner = p /\ icache'[d].valid
    BY <1>2, <1>5, <1>7
  <2> QED
    BY <1>6, <1>12, <2>1, <2>2 DEF LockOf, Owns, FreeOf
<1>14. \A z \in Slots : Uses("put", s, 0, old[p], u, z) => InUse(z) \/ Fresh(z)'
  <2> SUFFICES ASSUME NEW z \in Slots, Uses("put", s, 0, old[p], u, z)
               PROVE  InUse(z)
    OBVIOUS
  <2>1. z # 0
    BY DEF Slots
  <2>2. z = s \/ z = d
    BY <1>2, <1>12, <2>1 DEF Uses
  <2> QED
    BY <1>3, <2>2
<1>15. DiskKept(p, "put", s, 0, old[p], inum[p], u) /\ DiskInv'
  <2>1. OneEntry(Inum(d), x) /\ \A k \in Inums : k # Inum(d) /\ k # inum[p] => dinode'[k].nlink = dinode[k].nlink
    BY <1>1, <1>10
  <2> QED
    BY <1>2, <1>3, <1>4, <1>5, <1>14, <2>1, EntryKept
<1>16. UNCHANGED files /\ Sets(p, "put", "unlink_dec", call[p], rest[p], s, 0, old[p], inum[p], u)
  BY <1>1, <1>12
<1>17. NewOf(p)'
  <2>1. inum'[p] = 0
    BY <1>2, <1>16, After DEF Ok, Running
  <2> QED
    BY <2>1 DEF NewOf
<1>18. \A k \in Inums : LinksMove(k, p)
  <2> SUFFICES ASSUME NEW k \in Inums
               PROVE  LinksMove(k, p)
    OBVIOUS
  <2>1. /\ Cardinality(NamesOf(k)') + Is(n, k) = Cardinality(NamesOf(k)) + Is(0, k)
        /\ k = m => Cardinality(SubDirs(k)') + DirNum(n) = Cardinality(SubDirs(k)) + DirNum(0)
        /\ k # m => Cardinality(SubDirs(k)') = Cardinality(SubDirs(k))
        /\ Cardinality(NamesOf(k)) \in Nat /\ Cardinality(SubDirs(k)) \in Nat
        /\ Cardinality(NamesOf(k)') \in Nat /\ Cardinality(SubDirs(k)') \in Nat
    BY <1>2, <1>4, <1>10, <1>11, EntryMoves
  <2>2. DirNum(0) = 0 /\ Is(0, k) = 0 /\ Is(n, k) \in Nat
    BY DEF DirNum, Is, Inums
  <2>3. In(p, Unlinkers(k)) = 0 /\ In(p, Linkers(k)) = 0
    BY <1>1, <1>2, InCallers DEF Where, Whither, Putting3
  <2>4. In(p, Unlinkers(k)') = Is(n, k) /\ In(p, Linkers(k)') = 0
    <3>1. Whither("put", "unlink_dec") = "unlink_dec" /\ icache'[s].inum = n
      BY <1>1, <1>2, <1>7 DEF Whither, Putting3, Inum
    <3> QED
      BY <1>2, <1>16, <3>1, InCallersNext DEF Is
  <2>5. PICK t \in Int : t = dinode[k].nlink
    BY DEF Ok, Good, DinodeRec
  <2>6. PICK f \in Int : f = IF k = m THEN 0 - DirNum(n) ELSE 0
    BY <1>8
  <2>7. dinode'[k].nlink = t + f
    BY <1>8, <1>10, <2>5, <2>6
  <2>8. Cardinality(SubDirs(k)') = Cardinality(SubDirs(k)) + f
    BY <1>8, <2>1, <2>2, <2>6
  <2>9. PICK a \in Int : a = f - Is(n, k)
    BY <2>2
  <2>10. Cardinality(NamesOf(k)') + Cardinality(SubDirs(k)') <= Cardinality(NamesOf(k)) + Cardinality(SubDirs(k)) + a
    BY <2>1, <2>2, <2>8, <2>9
  <2>11. dinode'[k].nlink + In(p, Unlinkers(k)) + In(p, Linkers(k))
             >= dinode[k].nlink + a + In(p, Unlinkers(k)') + In(p, Linkers(k)')
    BY <2>2, <2>3, <2>4, <2>5, <2>7, <2>9
  <2> QED
    BY <2>10, <2>11 DEF LinksMove
<1> QED
  BY <1>9, <1>13, <1>15, <1>16, <1>17, <1>18, DiskTurn

\* What create has before it writes, and what it has locked then.
LEMMA CreateHas ==
    ASSUME Ok, CallInv, DirInv, NEW p \in Procs, CreateWrites(p)
    PROVE  /\ ip[p] \in Slots /\ icache[ip[p]].ref > 0 /\ Inum(ip[p]) \in Inums
           /\ dp[p] \in Slots /\ icache[dp[p]].ref > 0 /\ Inum(dp[p]) \in Inums
           /\ inum[p] = Inum(ip[p]) /\ inum[p] # 0 /\ old[p] = 0 /\ Head(rest[p]) \in Names
           /\ InUse(dp[p]) /\ Inum(ip[p]) # Inum(dp[p]) /\ ip[p] # dp[p]
           /\ icache[dp[p]].owner = p /\ icache[dp[p]].valid /\ icache[ip[p]].owner = NoProc
           /\ icache'[ip[p]].owner = p /\ icache'[ip[p]].valid /\ icache'[dp[p]].owner = p /\ icache'[dp[p]].valid
<1>1. pc[p] = "create_new" /\ Locks(ip[p])
  BY DEF CreateWrites
<1>2. /\ ip[p] \in Slots /\ icache[ip[p]].ref > 0 /\ Inum(ip[p]) \in Inums
      /\ dp[p] \in Slots /\ icache[dp[p]].ref > 0 /\ Inum(dp[p]) \in Inums
      /\ old[p] = 0 /\ rest[p] # <<>>
  BY <1>1, NotPutting DEF Ok, Putting3, HasIp, HasDp, HasOld, HasRest, Inum
<1>3. inum[p] # 0
  BY <1>1, ValuesNow DEF Ok, HandOf
<1>4. inum[p] = Inum(ip[p])
  BY <1>1, <1>3 DEF DirInv, NewInv, NewOf
<1>5. InUse(dp[p])
  BY <1>1 DEF InUse, Uses
<1>6. Inum(ip[p]) # Inum(dp[p])
  BY <1>2, <1>4, <1>5, InUseOld
<1>7. icache[dp[p]].owner = p /\ icache[dp[p]].valid /\ icache[ip[p]].owner = NoProc
  BY <1>1, LocksNow DEF CallInv, OwnsDp, Locks
<1>8. \A x \in Slots : /\ icache'[x].owner = IF x = ip[p] THEN p ELSE icache[x].owner
                       /\ icache'[x].valid = (x = ip[p] \/ icache[x].valid)
  BY CreateWritten DEF Ok
<1>9. icache'[ip[p]].owner = p /\ icache'[ip[p]].valid /\ icache'[dp[p]].owner = p /\ icache'[dp[p]].valid
  BY <1>2, <1>7, <1>8
<1> QED
  BY <1>2, <1>3, <1>4, <1>5, <1>6, <1>7, <1>9, PathHead

\* What create does to the links.
LEMMA CreateLinks ==
    ASSUME Ok, Ok', CallInv, DirInv, NEW p \in Procs, CreateWrites(p), NEW m, m = Inum(dp[p]), NEW n, n = inum[p],
           NEW x, x = Head(rest[p])
    PROVE  /\ OneEntry(m, x) /\ dinode'[m].ents[x] = n /\ dinode[n].nlink = 0 /\ dinode[n].type # "none"
           /\ \A k \in Inums : dinode'[k].nlink = dinode[k].nlink + Is(n, k) + IF k = m THEN DirNum(n) ELSE 0
<1>1. /\ ip[p] \in Slots /\ icache[ip[p]].ref > 0 /\ n \in Inums /\ n = Inum(ip[p]) /\ n # 0
      /\ dp[p] \in Slots /\ icache[dp[p]].ref > 0 /\ m \in Inums /\ x \in Names /\ n # m
      /\ icache[dp[p]].valid
  BY CreateHas
<1>2. /\ dinode[n].nlink = 0 /\ dinode[n].type = NewType(p) /\ \A y \in Names : dinode[n].ents[y] = 0
  <2>1. NewOf(p) /\ inum[p] # 0
    BY <1>1 DEF DirInv, NewInv
  <2>2. /\ dinode[inum[p]].nlink = 0 /\ dinode[inum[p]].type = NewType(p)
        /\ \A y \in Names : dinode[inum[p]].ents[y] = 0
    BY <2>1 DEF NewOf
  <2> QED
    BY <2>2
<1>3. \A y \in Names : NewEnts(p)[y] = 0
  BY <1>1, NewEntsIs DEF Inum
<1>4. /\ Up(p) \in Int
      /\ \A k \in Inums : /\ dinode'[k].type = dinode[k].type
                          /\ dinode'[k].nlink = IF k = m THEN Up(p) ELSE IF k = n THEN 1 ELSE dinode[k].nlink
                          /\ \A y \in Names \cup Dots :
                               dinode'[k].ents[y] = IF k = m /\ y = x THEN n ELSE IF k = n THEN NewEnts(p)[y]
                                                    ELSE dinode[k].ents[y]
  BY <1>1, CreateWritten DEF Ok, Inum
<1>5. OneEntry(m, x) /\ dinode'[m].ents[x] = n
  BY <1>1, <1>2, <1>3, <1>4 DEF OneEntry
<1>6. Up(p) = dinode[m].nlink + DirNum(n)
  <2>1. icache[dp[p]].nlink = dinode[m].nlink
    BY <1>1 DEF Ok, Good, Agrees, Inum
  <2>2. DirNum(n) = IF Op(p) = "mkdir" THEN 1 ELSE 0
    BY <1>1, <1>2 DEF DirNum, NewType
  <2> QED
    BY <2>1, <2>2 DEF Up
<1>7. \A k \in Inums : dinode[k].nlink \in Int
  BY DEF Ok, Good, DinodeRec
<1>8. DirNum(n) \in Nat
  BY DEF DirNum
<1>9. \A k \in Inums : dinode'[k].nlink = dinode[k].nlink + Is(n, k) + IF k = m THEN DirNum(n) ELSE 0
  BY <1>1, <1>2, <1>4, <1>6, <1>7, <1>8 DEF Is
<1> QED
  BY <1>2, <1>5, <1>9 DEF NewType

LEMMA CreateTurn ==
    ASSUME Ok, Ok', CallInv, DirInv, NEW p \in Procs, CreateWrites(p), NEW t, t \in {"user", "openfile"}, NEW i, NEW u,
           Sets(p, "put", t, call[p], rest[p], i, 0, old[p], 0, u), LockOf(p, "put", t, i, 0, u, icache'),
           \A z \in Slots : Uses("put", i, 0, old[p], u, z) => z \in {ip[p], dp[p]}
    PROVE  Turned
<1>1. PICK s, d, x, n, m : s = ip[p] /\ d = dp[p] /\ x = Head(rest[p]) /\ n = inum[p] /\ m = Inum(d)
  OBVIOUS
<1>2. /\ s \in Slots /\ icache[s].ref > 0 /\ n \in Inums /\ n = Inum(s) /\ n # 0 /\ old[p] = 0
      /\ d \in Slots /\ icache[d].ref > 0 /\ m \in Inums /\ x \in Names /\ n # m /\ InUse(d)
      /\ icache[d].owner = p /\ icache[s].owner = NoProc /\ pc[p] = "create_new" /\ UNCHANGED files
  <2>1. pc[p] = "create_new" /\ UNCHANGED files
    BY DEF CreateWrites
  <2> QED
    BY <1>1, <2>1, CreateHas
<1>3. /\ OneEntry(m, x) /\ dinode'[m].ents[x] = n /\ dinode[n].nlink = 0 /\ dinode[n].type # "none"
      /\ \A k \in Inums : dinode'[k].nlink = dinode[k].nlink + Is(n, k) + IF k = m THEN DirNum(n) ELSE 0
  BY <1>1, CreateLinks
<1>4. /\ Up(p) \in Int
      /\ \A z \in Slots : /\ icache'[z].ref = icache[z].ref /\ icache'[z].inum = icache[z].inum
                          /\ icache'[z].owner = IF z = s THEN p ELSE icache[z].owner
                          /\ icache'[z].valid = (z = s \/ icache[z].valid)
  BY <1>1, CreateWritten DEF Ok
<1>5. TurnsTo(icache', p)
  <2>1. \A z \in Slots : z # s /\ z # d => icache'[z].nlink = icache[z].nlink
    <3>1. PICK v \in Int : v = Up(p) /\ icache' = SetNlink(SetNlink(Hold(Locked(s), p, s), s, 1), d, v)
      BY <1>1, <1>4 DEF CreateWrites, SetNlink
    <3> QED
      BY <1>2, <3>1, HoldNlink
  <2>2. \A z \in Slots : icache[z].ref \in Nat
    BY RefNat DEF Ok
  <2>3. pc[p] = "create_new" /\ s = ip[p]
    BY <1>1, <1>2
  <2> QED
    BY <1>2, <1>4, <2>1, <2>2, <2>3, HoldTurn
<1>6. OthersSame(p) /\ inum'[p] = 0
  BY After DEF Ok, Running
<1>7. Fresh(s)'
  <2>1. icache'[s].inum = n /\ dinode'[n].type # "none"
    BY <1>2, <1>3, <1>4 DEF OneEntry, Inum
  <2>2. \A q \in Procs : inum'[q] # n
    <3> SUFFICES ASSUME NEW q \in Procs, q # p
                 PROVE  inum[q] # n
      BY <1>2, <1>6 DEF OthersSame
    <3>1. \A r \in Procs : inum[r] = inum[p] => r = p
      BY <1>1, <1>2 DEF DirInv, NewInv, NewOf
    <3> QED
      BY <1>1, <3>1
  <2> QED
    BY <2>1, <2>2 DEF Fresh, Inum
<1>8. \A z \in Slots : Uses("put", i, 0, old[p], u, z) => InUse(z) \/ Fresh(z)'
  BY <1>1, <1>2, <1>7
<1>9. DiskKept(p, "put", i, 0, old[p], 0, u) /\ DiskInv'
  <2>1. OneEntry(Inum(d), x) /\ \A k \in Inums : k # Inum(d) /\ k # inum[p] => dinode'[k].nlink = dinode[k].nlink
    <3>1. \A k \in Inums : dinode[k].nlink \in Int
      BY DEF Ok, Good, DinodeRec
    <3> QED
      BY <1>1, <1>3, <3>1 DEF Is
  <2>2. icache[d].owner \in {NoProc, p} /\ old[p] \in {0, old[p]}
    BY <1>2
  <2> QED
    BY <1>2, <1>8, <2>1, <2>2, EntryKept
<1>10. NewOf(p)'
  BY <1>6 DEF NewOf
<1>11. \A k \in Inums : LinksMove(k, p)
  <2> SUFFICES ASSUME NEW k \in Inums
               PROVE  LinksMove(k, p)
    OBVIOUS
  <2>1. PICK b : b = dinode[m].ents[x]
    OBVIOUS
  <2>2. /\ Cardinality(NamesOf(k)') + Is(b, k) = Cardinality(NamesOf(k)) + Is(n, k)
        /\ k = m => Cardinality(SubDirs(k)') + DirNum(b) = Cardinality(SubDirs(k)) + DirNum(n)
        /\ k # m => Cardinality(SubDirs(k)') = Cardinality(SubDirs(k))
        /\ Cardinality(NamesOf(k)) \in Nat /\ Cardinality(SubDirs(k)) \in Nat
        /\ Cardinality(NamesOf(k)') \in Nat /\ Cardinality(SubDirs(k)') \in Nat
    BY <1>2, <1>3, <2>1, EntryMoves
  <2>3. DirNum(b) \in Nat /\ DirNum(n) \in Nat /\ Is(b, k) \in Nat /\ Is(n, k) \in Nat
    BY DEF DirNum, Is
  <2>4. In(p, Unlinkers(k)) = 0 /\ In(p, Linkers(k)) = 0
    BY <1>2, InCallers DEF Where, Whither, Putting3
  <2>5. In(p, Unlinkers(k)') = 0 /\ In(p, Linkers(k)') = 0
    <3>1. Whither("put", t) # "unlink_dec"
      BY DEF Whither, Putting3
    <3> QED
      BY <1>2, <3>1, InCallersNext
  <2>6. PICK f \in Int : f = IF k = m THEN DirNum(n) ELSE 0
    BY <2>3
  <2>7. dinode'[k].nlink = dinode[k].nlink + Is(n, k) + f /\ dinode[k].nlink \in Int
    BY <1>3, <2>6 DEF Ok, Good, DinodeRec
  <2>8. Cardinality(SubDirs(k)') <= Cardinality(SubDirs(k)) + f
    BY <2>2, <2>3, <2>6
  <2>9. PICK a \in Int : a = Is(n, k) + f
    BY <2>3
  <2>10. Cardinality(NamesOf(k)') + Cardinality(SubDirs(k)') <= Cardinality(NamesOf(k)) + Cardinality(SubDirs(k)) + a
    BY <2>2, <2>3, <2>8, <2>9
  <2>11. dinode'[k].nlink + In(p, Unlinkers(k)) + In(p, Linkers(k))
             >= dinode[k].nlink + a + In(p, Unlinkers(k)') + In(p, Linkers(k)')
    BY <2>3, <2>4, <2>5, <2>7, <2>9
  <2> QED
    BY <2>10, <2>11 DEF LinksMove
<1>12. UNCHANGED files /\ FreeOf("put", u, icache')
  BY <1>2 DEF FreeOf
<1> QED
  BY <1>5, <1>9, <1>10, <1>11, <1>12, DiskTurn

LEMMA MkdirDoneTurn ==
    ASSUME Ok, Ok', CallInv, DirInv, NEW p \in Procs, MkdirDone(p)
    PROVE  Turned
<1>1. /\ CreateWrites(p)
      /\ Sets(p, "put", "user", call[p], rest[p], 0, 0, old[p], 0, <<UnlockPut(dp[p]), UnlockPut(ip[p])>>)
  BY DEF MkdirDone
<1>2. /\ ip[p] \in Slots /\ dp[p] \in Slots /\ ip[p] # dp[p] /\ old[p] = 0
      /\ icache'[ip[p]].owner = p /\ icache'[ip[p]].valid /\ icache'[dp[p]].owner = p /\ icache'[dp[p]].valid
  BY <1>1, CreateHas
<1>3. PICK a \in PutRec, b \in PutRec : /\ a = UnlockPut(dp[p]) /\ b = UnlockPut(ip[p]) /\ a.slot = dp[p] /\ b.slot = ip[p]
                                        /\ a.held /\ b.held
  BY <1>2, PutIs
<1>4. PICK u \in Seq(PutRec) : u = <<a, b>> /\ Len(u) = 2 /\ First(u) = a.slot /\ Second(u) = b.slot
                               /\ u[1] = a /\ u[2] = b
  BY TwoOf
<1>5. LockOf(p, "put", "user", 0, 0, u, icache')
  <2>1. ~OwnsIp("put", "user") /\ ~OwnsDp("put")
    BY DEF OwnsIp, OwnsDp, Whither, Putting3
  <2> QED
    BY <1>2, <1>3, <1>4, <2>1 DEF LockOf, Owns
<1>6. \A z \in Slots : Uses("put", 0, 0, old[p], u, z) => z \in {ip[p], dp[p]}
  BY <1>2, <1>3, <1>4 DEF Uses, Slots
<1>7. Sets(p, "put", "user", call[p], rest[p], 0, 0, old[p], 0, u)
  BY <1>1, <1>3, <1>4
<1> QED
  BY <1>1, <1>5, <1>6, <1>7, CreateTurn

LEMMA CreateDoneTurn ==
    ASSUME Ok, Ok', CallInv, DirInv, NEW p \in Procs, CreateDone(p)
    PROVE  Turned
<1>1. /\ CreateWrites(p)
      /\ Sets(p, "put", "openfile", call[p], rest[p], ip[p], 0, old[p], 0, <<UnlockPut(dp[p])>>)
  BY DEF CreateDone
<1>2. /\ ip[p] \in Slots /\ dp[p] \in Slots /\ ip[p] # dp[p] /\ old[p] = 0
      /\ icache'[ip[p]].owner = p /\ icache'[ip[p]].valid /\ icache'[dp[p]].owner = p /\ icache'[dp[p]].valid
  BY <1>1, CreateHas
<1>3. PICK u \in Seq(PutRec) : u = <<UnlockPut(dp[p])>> /\ Len(u) = 1 /\ First(u) = dp[p] /\ Second(u) = 0 /\ u[1].held
  BY <1>2, PutOne
<1>4. LockOf(p, "put", "openfile", ip[p], 0, u, icache')
  <2>1. ~OwnsDp("put") /\ ~OwnsPut2(u)
    BY <1>3 DEF OwnsDp, OwnsPut2
  <2> QED
    BY <1>2, <1>3, <2>1 DEF LockOf, Owns
<1>5. \A z \in Slots : Uses("put", ip[p], 0, old[p], u, z) => z \in {ip[p], dp[p]}
  BY <1>2, <1>3 DEF Uses, Slots
<1>6. Sets(p, "put", "openfile", call[p], rest[p], ip[p], 0, old[p], 0, u)
  BY <1>1, <1>3
<1> QED
  BY <1>1, <1>4, <1>5, <1>6, CreateTurn

-----------------------------------------------------------------------------
(* No panic for an inode that is gone *)

\* ilock of an inode that is allocated returns.
LEMMA LocksSafe ==
    ASSUME Ok, NEW s \in Slots, icache[s].ref > 0, dinode[Inum(s)].type # "none", Locks(s)
    PROVE  panicked' = "no"
<1>1. Type(s) = dinode[Inum(s)].type
  BY ReadFacts DEF Ok, Type, Inum
<1>2. icache[s].ref \in Nat
  BY RefNat DEF Ok
<1>3. ~(icache[s].ref < 1)
  BY <1>2
<1> QED
  BY <1>1, <1>3 DEF Locks, AfterIlock

LEMMA UsedSafe ==
    ASSUME Ok, DirInv, NEW p \in Procs, NEW s \in Slots, InUse(s), Locks(s)
    PROVE  panicked' = "no"
<1>1. icache[s].ref > 0 /\ dinode[Inum(s)].type # "none"
  BY InUseFacts, InUseOld
<1> QED
  BY <1>1, LocksSafe

\* What the calls lock is in use, or new.
LEMMA WantedSafe ==
    ASSUME Ok, DirInv, NEW p \in Procs,
           \/ pc[p] \in {"walk", "open", "create_found", "create_new", "unlink_ip", "link"} /\ Locks(ip[p])
           \/ pc[p] \in {"create", "unlink", "link_new"} /\ Locks(dp[p])
           \/ pc[p] = "link_undo" /\ Locks(old[p])
    PROVE  panicked' = "no"
<1>1. pc[p] \notin Putting3
  BY DEF Putting3
<1>2. CASE pc[p] \in {"walk", "open", "create_found", "unlink_ip", "link"} /\ Locks(ip[p])
  <2>1. ip[p] \in Slots /\ InUse(ip[p])
    BY <1>1, <1>2, NotPutting DEF Ok, HasIp, InUse, Uses
  <2> QED
    BY <1>2, <2>1, UsedSafe
<1>3. CASE pc[p] = "create_new" /\ Locks(ip[p])
  <2>1. ip[p] \in Slots /\ icache[ip[p]].ref > 0 /\ inum[p] # 0
    BY <1>1, <1>3, NotPutting, ValuesNow DEF Ok, HasIp, HandOf
  <2>2. dinode[inum[p]].type = NewType(p) /\ Inum(ip[p]) = inum[p]
    BY <1>3, <2>1 DEF DirInv, NewInv, NewOf
  <2>3. dinode[Inum(ip[p])].type # "none"
    BY <2>2 DEF NewType
  <2> QED
    BY <1>3, <2>1, <2>3, LocksSafe
<1>4. CASE pc[p] \in {"create", "unlink", "link_new"} /\ Locks(dp[p])
  <2>1. dp[p] \in Slots /\ InUse(dp[p])
    BY <1>1, <1>4, NotPutting DEF Ok, HasDp, InUse, Uses
  <2> QED
    BY <1>4, <2>1, UsedSafe
<1>5. CASE pc[p] = "link_undo" /\ Locks(old[p])
  <2>1. old[p] \in Slots /\ InUse(old[p])
    BY <1>1, <1>5, NotPutting DEF Ok, HasOld, InUse, Uses
  <2> QED
    BY <1>5, <2>1, UsedSafe
<1> QED
  BY <1>2, <1>3, <1>4, <1>5

\* unlink finds a link: the name it has found counts as one.
LEMMA UnlinkSafe ==
    ASSUME Ok, CallInv, DirInv, NEW p \in Procs, StopUnlink(p)
    PROVE  FALSE
<1>1. pc[p] = "unlink_ip" /\ Read(ip[p]).nlink < 1
  BY DEF StopUnlink
<1>2. /\ ip[p] \in Slots /\ icache[ip[p]].ref > 0 /\ Inum(ip[p]) \in Inums
      /\ Inum(dp[p]) \in Inums /\ rest[p] # <<>>
  BY <1>1, NotPutting DEF Ok, Putting3, HasIp, HasDp, HasRest, Inum
<1>3. Head(rest[p]) \in Names
  BY <1>2, PathHead
<1>4. dinode[Inum(dp[p])].ents[Head(rest[p])] = Inum(ip[p])
  BY <1>1 DEF DirInv, UnlinkInv, UnlinkOf
<1>5. dinode[Inum(ip[p])].nlink >= 1
  BY <1>2, <1>3, <1>4, NamedLinked DEF DirInv
<1>6. Read(ip[p]).nlink = dinode[Inum(ip[p])].nlink /\ dinode[Inum(ip[p])].nlink \in Int
  BY <1>2, ReadFacts DEF Ok, Inum, Good, DinodeRec
<1> QED
  BY <1>1, <1>5, <1>6

\* A way through an action that panics for neither.
LEMMA WaySafe ==
    ASSUME Ok, CallInv, DirInv, NEW p \in Procs,
           WayOfWalk(p) \/ WayOfCreate(p) \/ WayOfUnlink(p) \/ WayOfLink(p) \/ WayOfPut(p) \/ WayOfUser(p)
    PROVE  panicked' = "no"
<1>1. CASE WayOfWalk(p)
  <2>1. \/ pc[p] \in {"walk", "open", "create_found", "link"} /\ Locks(ip[p])
        \/ panicked' = panicked
    BY <1>1 DEF WayOfWalk, WalkParent, WalkFails, WalkOn, GivesUp, Opens, OpenFileFull, OpenFileDone
  <2> QED
    BY <2>1, WantedSafe DEF Ok
<1>2. CASE WayOfCreate(p)
  <2>1. \/ pc[p] = "create_new" /\ Locks(ip[p])
        \/ pc[p] = "create" /\ Locks(dp[p])
        \/ panicked' = panicked
    BY <1>2 DEF WayOfCreate, CreateFree, CreateTaken, IallocTakes, IallocGets, MkdirDone, CreateDone, CreateWrites
  <2> QED
    BY <2>1, WantedSafe DEF Ok
<1>3. CASE WayOfUnlink(p)
  <2>1. \/ pc[p] = "unlink_ip" /\ Locks(ip[p])
        \/ pc[p] = "unlink" /\ Locks(dp[p])
        \/ panicked' = panicked
    BY <1>3 DEF WayOfUnlink, UnlinkFails, UnlinkFinds, UnlinkRefused, UnlinkErases, UnlinkDecs
  <2> QED
    BY <2>1, WantedSafe DEF Ok
<1>4. CASE WayOfLink(p)
  <2>1. \/ pc[p] = "link" /\ Locks(ip[p])
        \/ pc[p] = "link_new" /\ Locks(dp[p])
        \/ pc[p] = "link_undo" /\ Locks(old[p])
        \/ panicked' = panicked
    BY <1>4 DEF WayOfLink, LinkCounts, LinkWalks, LinkNames, LinkTaken, LinkUndoes
  <2> QED
    BY <2>1, WantedSafe DEF Ok
<1>5. CASE WayOfPut(p)
  BY <1>5 DEF WayOfPut, Unlocks, PutFrees, PutDrops, Frees, DropsOne, DropsLast, Ok
<1>6. CASE WayOfUser(p)
  <2>1. CASE \E d \in Fds : Locks1(p, d)
    <3>1. PICK d \in Fds : ofile[p][d] # 0 /\ Locks(ftable[ofile[p][d]].ip)
      BY <2>1 DEF Locks1
    <3>2. InUse(ftable[ofile[p][d]].ip) /\ ftable[ofile[p][d]].ip \in Slots
      BY <3>1, FdInUse
    <3> QED
      BY <3>1, <3>2, UsedSafe
  <2>2. CASE \/ \E c \in Calls : Starts(p, c)
             \/ \E d \in Fds : CloseShared(p, d) \/ CloseLast(p, d) \/ Dups(p, d)
    BY <2>2 DEF Starts, CloseShared, CloseLast, Dups, Ok
  <2> QED
    BY <1>6, <2>1, <2>2 DEF WayOfUser
<1> QED
  BY <1>1, <1>2, <1>3, <1>4, <1>5, <1>6

LEMMA WayTurns ==
    ASSUME Ok, Ok', CallInv, DirInv, PlainPaths, NEW p \in Procs,
           WayOfWalk(p) \/ WayOfCreate(p) \/ WayOfUnlink(p) \/ WayOfLink(p) \/ WayOfPut(p) \/ WayOfUser(p)
    PROVE  Turned
<1>1. CASE WayOfWalk(p)
  BY <1>1, WalkParentTurn, WalkFailsTurn, WalkOnTurn, GivesUpTurn, OpensTurn, OpenFileFullTurn, OpenFileDoneTurn, Zenon
     DEF WayOfWalk
<1>2. CASE WayOfCreate(p)
  BY <1>2, CreateFreeTurn, CreateTakenTurn, IallocTakesTurn, IallocGetsTurn, MkdirDoneTurn, CreateDoneTurn, Zenon
     DEF WayOfCreate
<1>3. CASE WayOfUnlink(p)
  BY <1>3, UnlinkFailsTurn, UnlinkFindsTurn, UnlinkRefusedTurn, UnlinkErasesTurn, UnlinkDecsTurn, Zenon DEF WayOfUnlink
<1>4. CASE WayOfLink(p)
  BY <1>4, LinkCountsTurn, LinkWalksTurn, LinkNamesTurn, LinkTakenTurn, LinkUndoesTurn, Zenon DEF WayOfLink
<1>5. CASE WayOfPut(p)
  BY <1>5, UnlocksTurn, PutFreesTurn, PutDropsTurn, FreesTurn, DropsOneTurn, DropsLastTurn, Zenon DEF WayOfPut
<1>6. CASE WayOfUser(p)
  <2>1. CASE \E c \in Calls : Starts(p, c)
    BY <2>1, StartsTurn, Zenon
  <2>2. CASE \E d \in Fds : CloseShared(p, d) \/ CloseLast(p, d) \/ Dups(p, d) \/ Locks1(p, d)
    BY <2>2, CloseSharedTurn, CloseLastTurn, DupsTurn, LocksFileTurn, Zenon
  <2> QED
    BY <1>6, <2>1, <2>2, Zenon DEF WayOfUser
<1> QED
  BY <1>1, <1>2, <1>3, <1>4, <1>5, <1>6

\* A step of a process.
LEMMA StepTurns ==
    ASSUME Ok, CallInv, DirInv, PlainPaths, NEW p \in Procs, InCall(p) \/ FromUser(p)
    PROVE  NoLostInode' /\ (panicked' = "no" => CallInv' /\ DirInv')
<1>1. Good(icache', dinode') /\ (panicked' = "no" => Running')
  BY StepKeeps DEF Ok, Keeps
<1>2. CASE WayOfWalk(p) \/ WayOfCreate(p) \/ WayOfUnlink(p) \/ WayOfLink(p) \/ WayOfPut(p) \/ WayOfUser(p)
  <2>1. panicked' = "no"
    BY <1>2, WaySafe, Zenon
  <2>2. Ok'
    BY <1>1, <2>1 DEF Ok
  <2>3. Turned
    BY <1>2, <2>2, WayTurns, Zenon
  <2> QED
    BY <2>1, <2>3 DEF Turned, NoLostInode
<1>3. CASE Stop
  BY <1>3 DEF Stop, NoLostInode
<1>4. CASE StopUnlink(p)
  BY <1>4, UnlinkSafe
<1> QED
  BY <1>2, <1>3, <1>4, StepWays, Zenon DEF Ok

LEMMA TInvNext ==
    ASSUME PlainPaths
    PROVE  RInv /\ TInv /\ NoLostInode /\ [Next]_vars => TInv' /\ NoLostInode'
<1> SUFFICES ASSUME RInv, TInv, NoLostInode, [Next]_vars
             PROVE  TInv' /\ NoLostInode'
  OBVIOUS
<1>1. CASE UNCHANGED vars
  <2>1. /\ icache' = icache /\ dinode' = dinode /\ panicked' = panicked /\ ftable' = ftable
        /\ pc' = pc /\ ret' = ret /\ call' = call /\ rest' = rest /\ ip' = ip /\ dp' = dp /\ old' = old
        /\ inum' = inum /\ puts' = puts
    BY <1>1 DEF vars, files, locals
  <2>2. NoLostInode'
    BY <2>1 DEF NoLostInode
  <2>3. panicked = "no" => CallInv' /\ DirInv'
    <3> SUFFICES ASSUME CallInv, DirInv
                 PROVE  CallInv' /\ DirInv'
      BY DEF TInv
    <3>1. CallInv'
      BY <2>1 DEF CallInv, PathInv, LockInv, FreeInv, RootInv
    <3>2. FreshInv' /\ NewInv' /\ UnlinkInv' /\ OldInv' /\ DiskInv'
      BY <2>1 DEF DirInv, FreshInv, InUse, FileOn, Fresh, NewInv, NewOf, NewType, Op, UnlinkInv, UnlinkOf, OldInv, DiskInv, Inum
    <3>3. LinkInv'
      BY <2>1 DEF DirInv, LinkInv, LinkSum, NamesOf, Unlinkers, Linkers, SubDirs, Where, Inum
    <3> QED
      BY <3>1, <3>2, <3>3 DEF DirInv
  <2> QED
    BY <2>1, <2>2, <2>3 DEF TInv
<1>2. CASE panicked = "no" /\ \E p \in Procs : InCall(p) \/ FromUser(p)
  <2>1. Ok /\ CallInv /\ DirInv
    BY <1>2 DEF RInv, TInv, Ok
  <2>2. NoLostInode' /\ (panicked' = "no" => CallInv' /\ DirInv')
    BY <1>2, <2>1, StepTurns, Zenon
  <2> QED
    BY <2>2 DEF TInv
<1> QED
  BY <1>1, <1>2, StepRuns, Zenon DEF Next, Halted

LEMMA TInvInit == Init => TInv /\ NoLostInode
<1> SUFFICES ASSUME Init
             PROVE  CallInv /\ DirInv /\ NoLostInode
  BY DEF TInv
<1>1. \A p \in Procs : /\ pc[p] = "user" /\ ret[p] = "user" /\ call[p] = NoCall /\ rest[p] = <<>> /\ ip[p] = 0 /\ dp[p] = 0
                       /\ old[p] = 0 /\ inum[p] = 0 /\ puts[p] = <<>>
  BY DEF Init
<1>2. \A p \in Procs : Len(puts[p]) = 0 /\ First(puts[p]) = 0 /\ Second(puts[p]) = 0
  <2> SUFFICES ASSUME NEW p \in Procs
               PROVE  Len(puts[p]) = 0 /\ First(puts[p]) = 0 /\ Second(puts[p]) = 0
    OBVIOUS
  <2>1. Len(puts[p]) = 0
    BY <1>1
  <2> QED
    BY <2>1 DEF First, Second
<1>3. PathInv
  <2>1. <<>> \in Seq(Names) /\ NoCall.op # "link"
    BY DEF NoCall
  <2> QED
    BY <1>1, <2>1 DEF PathInv, PathOf
<1>4. LockInv /\ FreeInv
  <2> SUFFICES ASSUME NEW p \in Procs
               PROVE  LockOf(p, pc[p], ret[p], ip[p], dp[p], puts[p], icache) /\ FreeOf(pc[p], puts[p], icache)
    BY DEF LockInv, FreeInv
  <2>1. ~OwnsIp(pc[p], ret[p]) /\ ~OwnsDp(pc[p]) /\ ~OwnsPut1(pc[p], puts[p]) /\ ~OwnsPut2(puts[p])
    BY <1>1, <1>2 DEF OwnsIp, OwnsDp, OwnsPut1, OwnsPut2, Whither, Putting3
  <2> QED
    BY <1>1, <2>1, NoLocks DEF FreeOf
<1>5. /\ dinode[Root].type = "dir" /\ dinode[Root].nlink = 1 /\ Root \in Inums
      /\ \A n \in Inums : n # Root => dinode[n].type = "none" /\ dinode[n].nlink = 0
      /\ \A n \in Inums : \A x \in Names : dinode[n].ents[x] = 0
  <2>1. PICK t : t = [NoEntries EXCEPT !["."] = Root, ![".."] = Root]
    OBVIOUS
  <2>2. \A x \in Names : t[x] = 0 /\ NoEntries[x] = 0
    BY <2>1, FileSysAssumption DEF NoEntries, Dots
  <2>3. dinode = [n \in Inums |-> IF n = Root THEN [type |-> "dir", nlink |-> 1, ents |-> t]
                                  ELSE [type |-> "none", nlink |-> 0, ents |-> NoEntries]]
    BY <2>1 DEF Init
  <2>4. Root \in Inums
    BY FileSysAssumption DEF Root, Inums
  <2> QED
    BY <2>2, <2>3, <2>4
<1>6. RootInv
  <2>1. PICK r : r = [NoInode EXCEPT !.ref = Cardinality(Procs), !.inum = Root]
    OBVIOUS
  <2>2. r.inum = Root
    BY <2>1 DEF NoInode
  <2>3. icache = [s \in Slots |-> IF s = 1 THEN r ELSE NoInode] /\ 1 \in Slots
    BY <2>1, FileSysAssumption DEF Init, Slots
  <2> QED
    BY <2>2, <2>3 DEF RootInv
<1>7. FreshInv
  <2> SUFFICES ASSUME NEW s \in Slots, InUse(s)
               PROVE  Fresh(s)
    BY DEF FreshInv
  <2>1. s # 0
    BY DEF Slots
  <2>2. ~FileOn(s)
    BY DEF FileOn, Init
  <2>3. s = 1
    BY <1>1, <1>2, <2>1, <2>2 DEF InUse, Uses
  <2>4. Inum(s) = Root /\ Root # 0
    BY <1>6, <2>3 DEF RootInv, Inum, Root
  <2> QED
    BY <1>1, <1>5, <2>4 DEF Fresh
<1>8. NewInv /\ UnlinkInv /\ OldInv /\ DiskInv
  BY <1>1, <1>5 DEF NewInv, NewOf, UnlinkInv, UnlinkOf, OldInv, DiskInv
<1>9. LinkInv
  <2> SUFFICES ASSUME NEW n \in Inums
               PROVE  dinode[n].nlink >= LinkSum(n)
    BY DEF LinkInv
  <2>1. n # 0
    BY DEF Inums
  <2>2. \A e : e \notin NamesOf(n)
    BY <1>5, <2>1 DEF NamesOf
  <2>3. \A e : e \notin Unlinkers(n) /\ e \notin Linkers(n)
    BY <1>1 DEF Unlinkers, Linkers, Where, Whither, Putting3
  <2>4. \A e : e \notin SubDirs(n)
    BY <1>5 DEF SubDirs
  <2>5. /\ Cardinality(NamesOf(n)) = 0 /\ Cardinality(Unlinkers(n)) = 0 /\ Cardinality(Linkers(n)) = 0
        /\ Cardinality(SubDirs(n)) = 0
    BY <2>2, <2>3, <2>4, CardNone, Zenon
  <2>6. LinkSum(n) = Is(n, Root)
    BY <2>5, LinkSumParts
  <2> QED
    BY <1>5, <2>6 DEF Is
<1> QED
  BY <1>3, <1>4, <1>6, <1>7, <1>8, <1>9 DEF CallInv, DirInv, NoLostInode, Init

\* On paths without "." and "..", whatever unlink, link, create, mkdir, open and close do
\* meanwhile: ilock never meets an inode that iput has freed ("ilock: no type") or an
\* entry without a reference, and sys_unlink never finds a count of links below 1.  An
\* inode lives as long as a name, an open file or a call has it, and iput frees it once.
THEOREM NothingLost ==
    ASSUME PlainPaths
    PROVE  Spec => []NoLostInode
<1>1. Init => TInv /\ NoLostInode
  BY TInvInit
<1>2. RInv /\ TInv /\ NoLostInode /\ [Next]_vars => TInv' /\ NoLostInode'
  BY TInvNext
<1> QED
  BY <1>1, <1>2, RInvAlways, PTL DEF Spec
=============================================================================

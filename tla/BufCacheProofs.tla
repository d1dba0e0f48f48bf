---------------------------- MODULE BufCacheProofs ----------------------------
(***************************************************************************)
(* Proofs about BufCache for any number of processes, buffers and blocks.  *)
(*                                                                         *)
(* RefcntIsUsers and SleepersHaveWaker rest on what each label says of the *)
(* buffer its process is inside a call with, and on every queued buffer    *)
(* having a holder asleep in iderw.  ImplementsBlockStore rests on no      *)
(* block having two buffers and on a clean buffer having what the disk has.*)
(***************************************************************************)
EXTENDS BufCache, FiniteSetTheorems, WellFoundedInduction, TLAPS

\* What the refinement assumes beyond BufAssumption: the disk reads without error.
\* (After an error ideintr marks the buffer valid with what was in it.)
ReadsSucceed == FALSE \notin ReadStatus

Waiting == {"locking", "lockwait", "releasing"}
InDriver == {"io", "iowait", "iowoken"}

BufRec == [blockno : Blocks \cup {NoBlock}, valid : BOOLEAN, dirty : BOOLEAN,
           refcnt : Nat, data : Vals, owner : Procs \cup {NoProc}]

\* What each label says of the buffer the process is inside a call with.
CallInv ==
    \A p \in Procs :
        /\ pc[p] # "run" => cur[p] \in Bufs /\ buf[cur[p]].blockno \in Blocks
        /\ pc[p] \in Waiting => buf[cur[p]].owner # p
        /\ pc[p] = "lockwait" => buf[cur[p]].owner # NoProc
        /\ pc[p] \in InDriver => buf[cur[p]].owner = p
        /\ pc[p] = "iowait" => \E k \in 1..Len(idequeue) : idequeue[k] = cur[p]
        /\ pc[p] = "iowoken" => \/ buf[cur[p]].valid /\ ~buf[cur[p]].dirty
                                \/ \E k \in 1..Len(idequeue) : idequeue[k] = cur[p]

\* No block has two buffers.
Unique(bf) == \A i, j \in Bufs : bf[i].blockno = bf[j].blockno /\ bf[i].blockno \in Blocks => i = j

\* Whoever has a buffer has its contents, or is fetching them.
HeldInv ==
    /\ Unique(buf)
    /\ \A i \in Bufs :
        /\ buf[i].dirty => buf[i].valid
        /\ buf[i].owner # NoProc =>
             /\ buf[i].blockno \in Blocks
             /\ buf[i].valid \/ (cur[buf[i].owner] = i /\ pc[buf[i].owner] \in {"io", "iowait", "iowoken"})

\* The holder of a queued buffer is in iderw, and the controller has its data.
QueueInv ==
    /\ \A k \in 1..Len(idequeue) :
        /\ buf[idequeue[k]].owner \in Procs
        /\ pc[buf[idequeue[k]].owner] \in {"iowait", "iowoken"} /\ cur[buf[idequeue[k]].owner] = idequeue[k]
        /\ buf[idequeue[k]].valid => buf[idequeue[k]].dirty
        /\ \A l \in 1..Len(idequeue) : idequeue[l] = idequeue[k] => l = k
    /\ idequeue # <<>> => latch = Latched(idequeue[1])

\* The list has every buffer.
ListInv == \A i \in Bufs : \E k \in 1..NBUF : lru[k] = i

BInv == TypeOK /\ RefcntIsUsers /\ CallInv /\ HeldInv /\ QueueInv /\ ListInv

\* A clean buffer has what the disk has.
DiskInv ==
    \A i \in Bufs : buf[i].blockno \in Blocks /\ buf[i].valid /\ ~buf[i].dirty
                        => buf[i].data = disk[buf[i].blockno]

-----------------------------------------------------------------------------
(* Operators *)

\* A set of numbers up to n that is not empty has a largest one.
LEMMA Largest ==
    ASSUME NEW n \in Nat, NEW S \in SUBSET (1..n), S # {}
    PROVE  \E k \in S : \A l \in S : l <= k
<1> DEFINE T == {n - k : k \in S}
<1>1. T \subseteq Nat /\ T # {}
  <2>1. PICK k : k \in S
    OBVIOUS
  <2>2. n - k \in T
    BY <2>1
  <2>3. \A m \in S : n - m \in Nat
    OBVIOUS
  <2>4. T \subseteq Nat
    BY <2>3
  <2> QED
    BY <2>2, <2>4
<1> HIDE DEF T
<1>2. PICK x \in T : \A y \in T : ~(<<y, x>> \in OpToRel(<, Nat))
  BY <1>1, NatLessThanWellFounded, WFMin
<1>3. \A y \in T : ~(y < x)
  BY <1>1, <1>2 DEF OpToRel
<1>4. PICK k \in S : x = n - k
  BY DEF T
<1>5. \A l \in S : n - l \in T /\ l \in Nat /\ k \in Nat
  BY DEF T
<1> QED
  BY <1>3, <1>4, <1>5

\* When a buffer can be recycled, bget's second loop finds one.
LEMMA VictimFound ==
    ASSUME TypeOK, ListInv, \E i \in Bufs : Recyclable(i)
    PROVE  Victim \in 1..NBUF /\ lru[Victim] \in Bufs /\ Recyclable(lru[Victim])
<1> DEFINE S == {k \in 1..NBUF : Recyclable(lru[k])}
<1>1. S \in SUBSET (1..NBUF) /\ S # {}
  BY DEF ListInv
<1> HIDE DEF S
<1>2. PICK k \in S : \A l \in S : l <= k
  BY <1>1, Largest, BufAssumption
<1>3. k \in 1..NBUF /\ Recyclable(lru[k]) /\ \A l \in k+1..NBUF : ~Recyclable(lru[l])
  BY <1>1, <1>2, BufAssumption DEF S
<1>4. Victim \in 1..NBUF /\ Recyclable(lru[Victim])
  BY <1>3 DEF Victim
<1> QED
  BY <1>4 DEF TypeOK

\* brelse moves a buffer to the front and leaves every other one in the list.
LEMMA ToFrontList ==
    ASSUME TypeOK, ListInv, NEW i \in Bufs
    PROVE  /\ ToFront(i) \in [1..NBUF -> Bufs]
           /\ \A k, l \in 1..NBUF : ToFront(i)[k] = ToFront(i)[l] => k = l
           /\ \A j \in Bufs : \E k \in 1..NBUF : ToFront(i)[k] = j
<1> DEFINE n == CHOOSE n \in 1..NBUF : lru[n] = i
<1>1. n \in 1..NBUF /\ lru[n] = i
  BY DEF ListInv
<1>2. ToFront(i) = [k \in 1..NBUF |-> IF k = 1 THEN i ELSE IF k <= n THEN lru[k - 1] ELSE lru[k]]
  BY DEF ToFront
<1> HIDE DEF n
<1>3. NBUF \in Nat /\ n \in Nat /\ lru \in [1..NBUF -> Bufs] /\ \A k, l \in 1..NBUF : lru[k] = lru[l] => k = l
  BY <1>1, BufAssumption DEF TypeOK
<1> USE DEF Bufs
<1>4. ToFront(i) \in [1..NBUF -> Bufs]
  BY <1>1, <1>2, <1>3, SMTT(30)
<1>5. ASSUME NEW k \in 1..NBUF, NEW l \in 1..NBUF, ToFront(i)[k] = ToFront(i)[l]
      PROVE  k = l
  BY <1>1, <1>2, <1>3, <1>5, SMTT(30)
<1>6. ASSUME NEW j \in Bufs
      PROVE  \E k \in 1..NBUF : ToFront(i)[k] = j
  <2>1. PICK m \in 1..NBUF : lru[m] = j
    BY DEF ListInv
  <2>2. CASE m = n
    BY <1>1, <1>2, <1>3, <2>1, <2>2
  <2>3. CASE m < n
    <3>1. m + 1 \in 1..NBUF /\ ToFront(i)[m + 1] = j
      BY <1>1, <1>2, <1>3, <2>1, <2>3
    <3> QED
      BY <3>1
  <2>4. CASE m > n
    BY <1>1, <1>2, <1>3, <2>1, <2>4
  <2> QED
    BY <1>3, <2>2, <2>3, <2>4
<1> QED
  BY <1>4, <1>5, <1>6

\* The users of a buffer are finitely many.
LEMMA UsersCount ==
    ASSUME NEW S, S \subseteq Procs
    PROVE  /\ IsFiniteSet(S) /\ Cardinality(S) \in Nat
           /\ Cardinality(S) = 0 <=> S = {}
           /\ \A p \in Procs : /\ p \notin S => Cardinality(S \cup {p}) = Cardinality(S) + 1
                               /\ p \in S => Cardinality(S \ {p}) = Cardinality(S) - 1
<1>1. IsFiniteSet(S)
  BY BufAssumption, FS_Subset
<1> QED
  BY <1>1, FS_CardinalityType, FS_EmptySet, FS_AddElement, FS_RemoveElement

-----------------------------------------------------------------------------
(* The block store that the buffers and the disk stand for *)

Seen(bf, i) == bf[i].valid \/ bf[i].dirty
SeenIn(bf, c) == {i \in Bufs : bf[i].blockno = c /\ Seen(bf, i)}

MemOf(bf, dk) == [c \in Blocks |-> IF SeenIn(bf, c) = {} THEN dk[c]
                                   ELSE bf[CHOOSE i \in SeenIn(bf, c) : TRUE].data]
HolderOf(bf) == [c \in Blocks |-> IF SeenIn(bf, c) = {} THEN NoProc
                                  ELSE bf[CHOOSE i \in SeenIn(bf, c) : TRUE].owner]

Mem == [b \in Blocks |-> IF Cached(b) = {} THEN disk[b]
                         ELSE buf[CHOOSE i \in Cached(b) : TRUE].data]
Holder == [b \in Blocks |-> IF Cached(b) = {} THEN NoProc
                            ELSE buf[CHOOSE i \in Cached(b) : TRUE].owner]

LEMMA StoreView ==
    /\ Mem = MemOf(buf, disk) /\ Holder = HolderOf(buf)
    /\ Mem' = MemOf(buf', disk') /\ Holder' = HolderOf(buf')
BY DEF Mem, Holder, MemOf, HolderOf, SeenIn, Seen, Cached

\* A block is seen in its one buffer, or on the disk.
LEMMA SeenAt ==
    ASSUME NEW bf, NEW dk, Unique(bf), NEW c \in Blocks
    PROVE  /\ \A i \in Bufs : bf[i].blockno = c /\ Seen(bf, i) =>
                  MemOf(bf, dk)[c] = bf[i].data /\ HolderOf(bf)[c] = bf[i].owner
           /\ (\A i \in Bufs : bf[i].blockno = c => ~Seen(bf, i)) =>
                  MemOf(bf, dk)[c] = dk[c] /\ HolderOf(bf)[c] = NoProc
<1>1. ASSUME NEW i \in Bufs, bf[i].blockno = c, Seen(bf, i)
      PROVE  MemOf(bf, dk)[c] = bf[i].data /\ HolderOf(bf)[c] = bf[i].owner
  <2>1. SeenIn(bf, c) = {i}
    BY <1>1 DEF SeenIn, Unique
  <2>2. (CHOOSE j \in SeenIn(bf, c) : TRUE) = i
    BY <2>1
  <2> QED
    BY <2>1, <2>2 DEF MemOf, HolderOf
<1>2. ASSUME \A i \in Bufs : bf[i].blockno = c => ~Seen(bf, i)
      PROVE  MemOf(bf, dk)[c] = dk[c] /\ HolderOf(bf)[c] = NoProc
  <2>1. SeenIn(bf, c) = {}
    BY <1>2 DEF SeenIn
  <2> QED
    BY <2>1 DEF MemOf, HolderOf
<1> QED
  BY <1>1, <1>2

Shows(bf, i, c) == Unique(bf) /\ bf[i].blockno = c /\ Seen(bf, i)

LEMMA ShownAt ==
    ASSUME NEW bf, NEW dk, NEW i \in Bufs, NEW c \in Blocks, Shows(bf, i, c)
    PROVE  MemOf(bf, dk)[c] = bf[i].data /\ HolderOf(bf)[c] = bf[i].owner
BY SeenAt DEF Shows

\* Block c is in the same buffer, with the same contents and holder, or nowhere.
SameAt(bf, dk, bg, dl, c) ==
    /\ Unique(bf) /\ Unique(bg)
    /\ dk[c] = dl[c]
    /\ \A j \in Bufs : (bf[j].blockno = c /\ Seen(bf, j)) <=> (bg[j].blockno = c /\ Seen(bg, j))
    /\ \A j \in Bufs : bf[j].blockno = c /\ Seen(bf, j) =>
                          bg[j].data = bf[j].data /\ bg[j].owner = bf[j].owner

LEMMA StoreKept ==
    ASSUME NEW bf, NEW bg, NEW dk, NEW dl, NEW c \in Blocks, SameAt(bf, dk, bg, dl, c)
    PROVE  MemOf(bg, dl)[c] = MemOf(bf, dk)[c] /\ HolderOf(bg)[c] = HolderOf(bf)[c]
<1> USE DEF SameAt
<1>1. CASE \E j \in Bufs : bf[j].blockno = c /\ Seen(bf, j)
  <2>1. PICK j \in Bufs : bf[j].blockno = c /\ Seen(bf, j)
    BY <1>1
  <2>2. MemOf(bf, dk)[c] = bf[j].data /\ HolderOf(bf)[c] = bf[j].owner
    BY <2>1, SeenAt
  <2>3. MemOf(bg, dl)[c] = bg[j].data /\ HolderOf(bg)[c] = bg[j].owner
    BY <2>1, SeenAt
  <2> QED
    BY <2>1, <2>2, <2>3
<1>2. CASE ~\E j \in Bufs : bf[j].blockno = c /\ Seen(bf, j)
  <2>1. MemOf(bf, dk)[c] = dk[c] /\ HolderOf(bf)[c] = NoProc
    BY <1>2, SeenAt
  <2>2. MemOf(bg, dl)[c] = dl[c] /\ HolderOf(bg)[c] = NoProc
    BY <1>2, SeenAt
  <2> QED
    BY <2>1, <2>2
<1> QED
  BY <1>1, <1>2

\* Nothing changes of any block.
LEMMA StoreStutters ==
    ASSUME \A c \in Blocks : /\ MemOf(buf', disk')[c] = MemOf(buf, disk)[c]
                             /\ HolderOf(buf')[c] = HolderOf(buf)[c]
    PROVE  UNCHANGED <<Mem, Holder>>
<1>1. MemOf(buf', disk') = MemOf(buf, disk)
  BY DEF MemOf
<1>2. HolderOf(buf') = HolderOf(buf)
  BY DEF HolderOf
<1> QED
  BY <1>1, <1>2, StoreView

\* Nothing changes of any block but b.
OthersKept(b) ==
    \A c \in Blocks : c # b => /\ MemOf(buf', disk')[c] = MemOf(buf, disk)[c]
                               /\ HolderOf(buf')[c] = HolderOf(buf)[c]

\* One block changes: its holder or its contents.
LEMMA StoreSteps ==
    ASSUME NEW p \in Procs, NEW b \in Blocks, OthersKept(b)
    PROVE  /\ (HolderOf(buf)[b] = NoProc /\ HolderOf(buf')[b] = p /\ MemOf(buf', disk')[b] = MemOf(buf, disk)[b])
                => Store!Obtain(p, b)
           /\ (HolderOf(buf)[b] = p /\ HolderOf(buf')[b] = NoProc /\ MemOf(buf', disk')[b] = MemOf(buf, disk)[b])
                => Store!GiveBack(p, b)
           /\ \A v \in Vals :
                (HolderOf(buf)[b] = p /\ HolderOf(buf')[b] = p /\ MemOf(buf', disk')[b] = v)
                  => Store!Change(p, b, v)
<1> USE DEF OthersKept
<1>0. /\ MemOf(buf, disk) = [c \in Blocks |-> MemOf(buf, disk)[c]]
      /\ MemOf(buf', disk') = [c \in Blocks |-> MemOf(buf', disk')[c]]
      /\ HolderOf(buf) = [c \in Blocks |-> HolderOf(buf)[c]]
      /\ HolderOf(buf') = [c \in Blocks |-> HolderOf(buf')[c]]
  BY DEF MemOf, HolderOf
<1>1. MemOf(buf', disk') = [MemOf(buf, disk) EXCEPT ![b] = MemOf(buf', disk')[b]]
  BY <1>0
<1>2. HolderOf(buf') = [HolderOf(buf) EXCEPT ![b] = HolderOf(buf')[b]]
  BY <1>0
<1>3. MemOf(buf', disk')[b] = MemOf(buf, disk)[b] => Mem' = Mem
  <2>1. MemOf(buf', disk')[b] = MemOf(buf, disk)[b] => MemOf(buf', disk') = MemOf(buf, disk)
    BY DEF MemOf
  <2> QED
    BY <2>1, StoreView
<1>4. HolderOf(buf')[b] = HolderOf(buf)[b] => Holder' = Holder
  <2>1. HolderOf(buf')[b] = HolderOf(buf)[b] => HolderOf(buf') = HolderOf(buf)
    BY DEF HolderOf
  <2> QED
    BY <2>1, StoreView
<1>5. /\ Mem' = [Mem EXCEPT ![b] = MemOf(buf', disk')[b]]
      /\ Holder' = [Holder EXCEPT ![b] = HolderOf(buf')[b]]
      /\ Holder[b] = HolderOf(buf)[b]
  BY <1>1, <1>2, StoreView
<1>6. ASSUME HolderOf(buf)[b] = NoProc, HolderOf(buf')[b] = p, MemOf(buf', disk')[b] = MemOf(buf, disk)[b]
      PROVE  Store!Obtain(p, b)
  <2>1. Holder[b] = NoProc /\ Holder' = [Holder EXCEPT ![b] = p] /\ Mem' = Mem
    BY <1>3, <1>5, <1>6
  <2> QED
    BY <2>1 DEF Store!Obtain, Mem, Holder
<1>7. ASSUME HolderOf(buf)[b] = p, HolderOf(buf')[b] = NoProc, MemOf(buf', disk')[b] = MemOf(buf, disk)[b]
      PROVE  Store!GiveBack(p, b)
  <2>1. Holder[b] = p /\ Holder' = [Holder EXCEPT ![b] = NoProc] /\ Mem' = Mem
    BY <1>3, <1>5, <1>7
  <2> QED
    BY <2>1 DEF Store!GiveBack, Mem, Holder
<1>8. ASSUME NEW v \in Vals, HolderOf(buf)[b] = p, HolderOf(buf')[b] = p, MemOf(buf', disk')[b] = v
      PROVE  Store!Change(p, b, v)
  <2>1. Holder[b] = p /\ Holder' = Holder /\ Mem' = [Mem EXCEPT ![b] = v]
    BY <1>4, <1>5, <1>8
  <2> QED
    BY <2>1 DEF Store!Change, Mem, Holder
<1> QED
  BY <1>6, <1>7, <1>8

\* What a step of the cache is to its callers.
StoreStep == [Store!Next]_<<Mem, Holder>>

\* A step that keeps what is seen of every buffer.
LEMMA StoreQuiet ==
    ASSUME Unique(buf), Unique(buf'), disk' = disk,
           \A j \in Bufs : /\ buf'[j].valid = buf[j].valid /\ buf'[j].dirty = buf[j].dirty
                           /\ buf'[j].blockno = buf[j].blockno /\ buf'[j].data = buf[j].data
                           /\ buf'[j].owner = buf[j].owner
    PROVE  StoreStep
<1>1. ASSUME NEW c \in Blocks
      PROVE  /\ MemOf(buf', disk')[c] = MemOf(buf, disk)[c]
             /\ HolderOf(buf')[c] = HolderOf(buf)[c]
  <2>1. \A j \in Bufs : (buf[j].blockno = c /\ Seen(buf, j)) <=> (buf'[j].blockno = c /\ Seen(buf', j))
    BY DEF Seen
  <2>2. SameAt(buf, disk, buf', disk', c)
    BY <2>1 DEF SameAt
  <2> QED
    BY <2>2, StoreKept
<1> QED
  BY <1>1, StoreStutters DEF StoreStep

-----------------------------------------------------------------------------
(* The invariant holds at first and every step keeps it *)

\* binit leaves every buffer unused and in the list once.
LEMMA InitInv ==
    ASSUME Init
    PROVE  BInv /\ DiskInv
<1> USE DEF Init, Bufs
<1>1. TypeOK
  <2>1. buf \in [Bufs -> BufRec]
    <3>1. [blockno |-> NoBlock, valid |-> FALSE, dirty |-> FALSE,
           refcnt |-> 0, data |-> Zero, owner |-> NoProc] \in BufRec
      BY BufAssumption DEF BufRec
    <3> QED
      BY <3>1
  <2>2. lru \in [1..NBUF -> Bufs] /\ \A k, l \in 1..NBUF : lru[k] = lru[l] => k = l
    BY BufAssumption
  <2>3. idequeue \in Seq(Bufs) /\ panicked \in BOOLEAN
    <3>1. panicked = FALSE
      OBVIOUS
    <3>2. idequeue = <<>>
      OBVIOUS
    <3>3. idequeue \in Seq(Bufs)
      BY <3>2 DEF Bufs
    <3>4. panicked \in BOOLEAN
      BY <3>1
    <3> QED
      BY <3>3, <3>4
  <2>5. latch \in Vals /\ disk \in [Blocks -> Vals]
    BY BufAssumption
  <2>4. pc \in [Procs -> Labels] /\ cur \in [Procs -> 0..NBUF]
    BY BufAssumption DEF Labels
  <2> QED
    BY <2>1, <2>2, <2>3, <2>4, <2>5 DEF TypeOK, BufRec
<1>2. RefcntIsUsers
  <2>1. \A i \in Bufs : Users(i) = {}
    BY BufAssumption DEF Users
  <2> QED
    BY <2>1, FS_EmptySet DEF RefcntIsUsers
<1>3. CallInv /\ QueueInv
  BY DEF CallInv, QueueInv, Waiting, InDriver
<1>4. HeldInv
  BY BufAssumption DEF HeldInv, Unique
<1>5. ListInv
  <2>1. ASSUME NEW i \in Bufs
        PROVE  \E k \in 1..NBUF : lru[k] = i
    <3>1. NBUF + 1 - i \in 1..NBUF /\ lru[NBUF + 1 - i] = i
      BY BufAssumption
    <3> QED
      BY <3>1
  <2> QED
    BY <2>1 DEF ListInv
<1>6. DiskInv
  BY DEF DiskInv
<1> QED
  BY <1>1, <1>2, <1>3, <1>4, <1>5, <1>6 DEF BInv

\* What bget's two ways to a buffer have in common.
LEMMA BgetInv ==
    ASSUME BInv, NEW p \in Procs, NEW b \in Blocks, Bget(p, b), ~panicked'
    PROVE  BInv' /\ (DiskInv => DiskInv' /\ StoreStep)
<1> USE DEF BInv
<1>1. PICK i \in Bufs :
        /\ pc[p] = "run" /\ buf[i].owner # p
        /\ pc' = [pc EXCEPT ![p] = "locking"] /\ cur' = [cur EXCEPT ![p] = i]
        /\ UNCHANGED <<lru, idequeue, latch, disk, panicked>>
        /\ \/ buf[i].blockno = b /\ buf' = [buf EXCEPT ![i].refcnt = @ + 1]
           \/ /\ Recyclable(i) /\ \A j \in Bufs : buf[j].blockno # b
              /\ buf' = [buf EXCEPT ![i] = [buf[i] EXCEPT !.blockno = b, !.valid = FALSE, !.dirty = FALSE, !.refcnt = 1]]
  <2>1. CASE CachedIn(b) # {}
    <3> DEFINE i == CHOOSE i \in CachedIn(b) : TRUE
    <3>1. i \in Bufs /\ buf[i].blockno = b
      BY <2>1 DEF CachedIn
    <3>2. buf[i].owner # p
      <4>1. i \in Held(p) => buf[i].blockno < b
        BY DEF Bget
      <4> QED
        BY <3>1, <4>1, BufAssumption DEF Held
    <3>3. /\ pc[p] = "run" /\ buf' = [buf EXCEPT ![i].refcnt = @ + 1]
          /\ pc' = [pc EXCEPT ![p] = "locking"] /\ cur' = [cur EXCEPT ![p] = i]
          /\ UNCHANGED <<lru, idequeue, latch, disk, panicked>>
      BY <2>1 DEF Bget, At, Goto
    <3> HIDE DEF i
    <3> QED
      BY <3>1, <3>2, <3>3
  <2>2. CASE CachedIn(b) = {}
    <3>1. \E i \in Bufs : Recyclable(i)
      BY <2>2 DEF Bget, Panic
    <3> DEFINE i == lru[Victim]
    <3>2. i \in Bufs /\ Recyclable(i)
      BY <3>1, VictimFound
    <3>3. /\ pc[p] = "run" /\ buf' = [buf EXCEPT ![i] = Recycled(b)]
          /\ pc' = [pc EXCEPT ![p] = "locking"] /\ cur' = [cur EXCEPT ![p] = i]
          /\ UNCHANGED <<lru, idequeue, latch, disk, panicked>>
      BY <2>2, <3>1 DEF Bget, At, Goto
    <3>4. Users(i) = {}
      <4>1. Cardinality(Users(i)) = 0 /\ Users(i) \subseteq Procs
        BY <3>2 DEF Recyclable, RefcntIsUsers, Users
      <4> QED
        BY <4>1, UsersCount
    <3>5. buf[i].owner # p /\ \A j \in Bufs : buf[j].blockno # b
      BY <2>2, <3>4 DEF Users, CachedIn
    <3>6. Recycled(b) = [buf[i] EXCEPT !.blockno = b, !.valid = FALSE, !.dirty = FALSE, !.refcnt = 1]
      BY DEF Recycled
    <3> HIDE DEF i
    <3> QED
      BY <3>2, <3>3, <3>5, <3>6
  <2> QED
    BY <2>1, <2>2
<1>2. /\ buf'[i].blockno = b /\ buf'[i].owner = buf[i].owner
      /\ buf'[i].refcnt = buf[i].refcnt + 1
      /\ buf' \in [Bufs -> BufRec]
      /\ \A j \in Bufs : j # i => buf'[j] = buf[j]
      /\ \A j \in Bufs : buf'[j].owner = buf[j].owner /\ buf'[j].data = buf[j].data
      /\ \/ buf'[i].valid = buf[i].valid /\ buf'[i].dirty = buf[i].dirty /\ buf'[i].blockno = buf[i].blockno
         \/ Recyclable(i) /\ ~buf'[i].valid /\ ~buf'[i].dirty
  <2>1. buf \in [Bufs -> BufRec] /\ buf[i] \in BufRec
    BY DEF TypeOK, BufRec
  <2>2. CASE buf[i].blockno = b /\ buf' = [buf EXCEPT ![i].refcnt = @ + 1]
    <3>1. buf' = [buf EXCEPT ![i] = [buf[i] EXCEPT !.refcnt = buf[i].refcnt + 1]]
      BY <2>1, <2>2
    <3>2. PICK r : r = [buf[i] EXCEPT !.refcnt = buf[i].refcnt + 1]
      OBVIOUS
    <3>3. /\ r \in BufRec /\ r.refcnt = buf[i].refcnt + 1 /\ r.blockno = buf[i].blockno
          /\ r.owner = buf[i].owner /\ r.data = buf[i].data /\ r.valid = buf[i].valid /\ r.dirty = buf[i].dirty
      BY <2>1, <3>2 DEF BufRec
    <3> QED
      BY <2>1, <2>2, <3>1, <3>2, <3>3
  <2>3. CASE /\ Recyclable(i)
             /\ buf' = [buf EXCEPT ![i] = [buf[i] EXCEPT !.blockno = b, !.valid = FALSE, !.dirty = FALSE, !.refcnt = 1]]
    <3>2. PICK r : r = [buf[i] EXCEPT !.blockno = b, !.valid = FALSE, !.dirty = FALSE, !.refcnt = 1]
      OBVIOUS
    <3>3. /\ r.refcnt = 1 /\ r.blockno = b
          /\ r.owner = buf[i].owner /\ r.data = buf[i].data /\ ~r.valid /\ ~r.dirty
      BY <2>1, <3>2 DEF BufRec
    <3>4. r \in BufRec
      BY <2>1, <3>2 DEF BufRec
    <3>5. r.refcnt = buf[i].refcnt + 1
      BY <2>3, <3>3 DEF Recyclable
    <3> QED
      BY <2>1, <2>3, <3>2, <3>3, <3>4, <3>5
  <2> QED
    BY <1>1, <2>2, <2>3
<1>3. Recyclable(i) => buf[i].owner = NoProc /\ \A q \in Procs : cur[q] = i => pc[q] = "run"
  <2>1. Users(i) \subseteq Procs
    BY DEF Users
  <2>2. Recyclable(i) => Users(i) = {}
    BY <2>1, UsersCount DEF Recyclable, RefcntIsUsers
  <2> QED
    BY <2>2 DEF Users, TypeOK, CallInv, InDriver, Waiting, Labels
<1>4. TypeOK'
  <2>1. pc' \in [Procs -> Labels] /\ cur' \in [Procs -> 0..NBUF]
    BY <1>1 DEF TypeOK, Labels, Bufs
  <2> QED
    BY <1>1, <1>2, <2>1 DEF TypeOK, BufRec
<1>5. RefcntIsUsers'
  <2>1. ASSUME NEW j \in Bufs, j # i
        PROVE  buf'[j].refcnt = Cardinality(Users(j)')
    <3>1. Users(j)' = Users(j)
      BY <1>1, <1>2, <2>1 DEF Users, TypeOK
    <3> QED
      BY <1>2, <2>1, <3>1 DEF RefcntIsUsers
  <2>2. buf'[i].refcnt = Cardinality(Users(i)')
    <3>1. p \notin Users(i) /\ Users(i)' = Users(i) \cup {p} /\ Users(i) \subseteq Procs
      BY <1>1, <1>2 DEF Users, TypeOK
    <3> QED
      BY <1>2, <3>1, UsersCount DEF RefcntIsUsers
  <2> QED
    BY <2>1, <2>2 DEF RefcntIsUsers
<1>6. ASSUME NEW j \in Bufs
      PROVE  /\ buf[j].owner # NoProc \/ (\E q \in Procs : cur[q] = j /\ pc[q] # "run")
                    => /\ buf'[j].valid = buf[j].valid /\ buf'[j].dirty = buf[j].dirty
                       /\ buf'[j].blockno = buf[j].blockno
             /\ \/ buf'[j].valid = buf[j].valid /\ buf'[j].dirty = buf[j].dirty
                \/ ~buf'[j].valid /\ ~buf'[j].dirty
  <2>1. CASE j # i
    BY <1>2, <2>1
  <2>2. CASE j = i
    BY <1>2, <1>3, <2>2
  <2> QED
    BY <2>1, <2>2
<1>7. CallInv'
  <2>1. ASSUME NEW q \in Procs, q # p
        PROVE  /\ pc'[q] = pc[q] /\ cur'[q] = cur[q]
               /\ pc[q] # "run" => /\ cur[q] \in Bufs
                                   /\ buf'[cur[q]].valid = buf[cur[q]].valid
                                   /\ buf'[cur[q]].dirty = buf[cur[q]].dirty
                                   /\ buf'[cur[q]].blockno = buf[cur[q]].blockno
                                   /\ buf'[cur[q]].owner = buf[cur[q]].owner
    BY <1>1, <1>2, <1>6, <2>1, SMTT(30) DEF CallInv, TypeOK
  <2>2. ASSUME NEW q \in Procs
        PROVE  CallInv!(q)'
    <3>1. CASE q = p
      BY <1>1, <1>2, <3>1 DEF TypeOK, Waiting, InDriver
    <3>2. CASE q # p
      BY <1>1, <2>1, <3>2 DEF CallInv, Waiting, InDriver
    <3> QED
      BY <3>1, <3>2
  <2> QED
    BY <2>2 DEF CallInv
<1>8. HeldInv'
  <2>1. Unique(buf)'
    BY <1>1, <1>2 DEF HeldInv, Unique
  <2>2. ASSUME NEW j \in Bufs
        PROVE  /\ buf'[j].dirty => buf'[j].valid
               /\ buf'[j].owner # NoProc =>
                     /\ buf'[j].blockno \in Blocks
                     /\ buf'[j].valid \/ (cur'[buf'[j].owner] = j /\ pc'[buf'[j].owner] \in {"io", "iowait", "iowoken"})
    <3>1. buf[j].owner # NoProc => buf[j].owner \in Procs
      BY DEF TypeOK
    <3>2. buf[j].owner # NoProc /\ ~buf[j].valid => buf[j].owner # p
      BY <1>1 DEF HeldInv
    <3> QED
      BY <1>1, <1>2, <1>6, <3>1, <3>2 DEF HeldInv
  <2> QED
    BY <2>1, <2>2 DEF HeldInv
<1>9. QueueInv'
  <2>1. ASSUME NEW k \in 1..Len(idequeue)
        PROVE  /\ idequeue[k] \in Bufs /\ buf[idequeue[k]].owner \in Procs
               /\ buf[idequeue[k]].owner # NoProc /\ buf[idequeue[k]].owner # p
               /\ buf'[idequeue[k]].valid = buf[idequeue[k]].valid
               /\ buf'[idequeue[k]].dirty = buf[idequeue[k]].dirty
               /\ buf'[idequeue[k]].data = buf[idequeue[k]].data
               /\ buf'[idequeue[k]].owner = buf[idequeue[k]].owner
    <3>1. idequeue[k] \in Bufs
      BY DEF TypeOK
    <3>2. /\ buf[idequeue[k]].owner \in Procs /\ buf[idequeue[k]].owner # p
          /\ buf[idequeue[k]].owner # NoProc
      BY <1>1, BufAssumption DEF QueueInv
    <3> QED
      BY <1>2, <1>6, <3>1, <3>2
  <2>2. idequeue # <<>> => 1 \in 1..Len(idequeue)
    BY DEF TypeOK
  <2> QED
    BY <1>1, <2>1, <2>2 DEF QueueInv, Latched, TypeOK
<1>10. ListInv'
  BY <1>1 DEF ListInv
<1>11. DiskInv => DiskInv'
  <2>1. ASSUME NEW j \in Bufs, buf'[j].valid, ~buf'[j].dirty
        PROVE  buf[j].valid /\ ~buf[j].dirty /\ buf'[j].blockno = buf[j].blockno /\ buf'[j].data = buf[j].data
    BY <1>2, <2>1
  <2> QED
    BY <1>1, <2>1 DEF DiskInv
<1>12. ASSUME DiskInv
       PROVE  StoreStep
  <2>1. ASSUME NEW c \in Blocks
        PROVE  /\ MemOf(buf', disk')[c] = MemOf(buf, disk)[c]
               /\ HolderOf(buf')[c] = HolderOf(buf)[c]
    <3>0. Unique(buf) /\ Unique(buf')
      BY <1>8 DEF HeldInv
    <3>1. CASE \E j \in Bufs : buf'[j].blockno = c /\ Seen(buf', j)
      <4>1. PICK j \in Bufs : buf'[j].blockno = c /\ Seen(buf', j)
        BY <3>1
      <4>2. buf[j].blockno = c /\ Seen(buf, j)
        BY <1>2, <4>1 DEF Seen
      <4>3. MemOf(buf', disk')[c] = buf'[j].data /\ HolderOf(buf')[c] = buf'[j].owner
        BY <3>0, <4>1, SeenAt
      <4>4. MemOf(buf, disk)[c] = buf[j].data /\ HolderOf(buf)[c] = buf[j].owner
        BY <3>0, <4>2, SeenAt
      <4> QED
        BY <1>2, <4>3, <4>4
    <3>2. CASE ~\E j \in Bufs : buf'[j].blockno = c /\ Seen(buf', j)
      <4>1. MemOf(buf', disk')[c] = disk[c] /\ HolderOf(buf')[c] = NoProc
        <5>1. MemOf(buf', disk')[c] = disk'[c] /\ HolderOf(buf')[c] = NoProc
          BY <3>0, <3>2, SeenAt
        <5> QED
          BY <1>1, <5>1
      <4>2. CASE \E j \in Bufs : buf[j].blockno = c /\ Seen(buf, j)
        <5>1. PICK j \in Bufs : buf[j].blockno = c /\ Seen(buf, j)
          BY <4>2
        <5>2. j = i /\ Recyclable(i)
          BY <1>2, <3>2, <5>1 DEF Seen
        <5>3. buf[j].data = disk[c] /\ buf[j].owner = NoProc
          BY <1>3, <1>12, <5>1, <5>2 DEF DiskInv, Recyclable, Seen
        <5>4. MemOf(buf, disk)[c] = buf[j].data /\ HolderOf(buf)[c] = buf[j].owner
          BY <3>0, <5>1, SeenAt
        <5> QED
          BY <4>1, <5>3, <5>4
      <4>3. CASE ~\E j \in Bufs : buf[j].blockno = c /\ Seen(buf, j)
        <5>1. MemOf(buf, disk)[c] = disk[c] /\ HolderOf(buf)[c] = NoProc
          BY <3>0, <4>3, SeenAt
        <5> QED
          BY <4>1, <5>1
      <4> QED
        BY <4>2, <4>3
    <3> QED
      BY <3>1, <3>2
  <2> QED
    BY <2>1, StoreStutters DEF StoreStep
<1> QED
  BY <1>4, <1>5, <1>7, <1>8, <1>9, <1>10, <1>11, <1>12

\* acquiresleep.
LEMMA AcquireSleepInv ==
    ASSUME BInv, NEW p \in Procs, AcquireSleep(p)
    PROVE  BInv' /\ (DiskInv => DiskInv' /\ StoreStep)
<1> USE DEF BInv
<1> DEFINE i == cur[p]
<1>0. /\ pc[p] = "locking" /\ i \in Bufs /\ buf[i].owner # p
      /\ UNCHANGED <<lru, idequeue, latch, disk, panicked>>
      /\ buf \in [Bufs -> BufRec] /\ buf[i] \in BufRec
  BY DEF AcquireSleep, At, CallInv, Waiting, TypeOK, BufRec
<1>1. CASE buf[i].owner # NoProc
  <2>1. buf' = buf /\ pc' = [pc EXCEPT ![p] = "lockwait"] /\ cur' = cur
    BY <1>0, <1>1 DEF AcquireSleep, Goto, TypeOK
  <2>2. TypeOK'
    <3>1. pc' \in [Procs -> Labels]
      BY <2>1 DEF TypeOK, Labels
    <3> QED
      BY <1>0, <2>1, <3>1 DEF TypeOK
  <2>3. RefcntIsUsers'
    <3>1. \A j \in Bufs : Users(j)' = Users(j)
      BY <1>0, <2>1 DEF Users, TypeOK
    <3> QED
      BY <2>1, <3>1 DEF RefcntIsUsers
  <2>4. CallInv'
    BY <1>0, <1>1, <2>1 DEF CallInv, Waiting, InDriver, TypeOK
  <2>5. HeldInv'
    BY <1>0, <2>1 DEF HeldInv, TypeOK
  <2>6. QueueInv'
    BY <1>0, <2>1 DEF QueueInv, TypeOK, Latched
  <2>7. ListInv' /\ (DiskInv => DiskInv')
    BY <1>0, <2>1 DEF ListInv, DiskInv
  <2>8. StoreStep
    BY <1>0, <2>1, StoreQuiet DEF HeldInv
  <2> QED
    BY <2>2, <2>3, <2>4, <2>5, <2>6, <2>7, <2>8
<1>2. CASE buf[i].owner = NoProc
  <2>1. PICK l \in {"run", "io"}, c \in 0..NBUF :
          /\ buf' = [buf EXCEPT ![i] = [buf[i] EXCEPT !.owner = p]]
          /\ pc' = [pc EXCEPT ![p] = l] /\ cur' = [cur EXCEPT ![p] = c]
          /\ l = "run" => buf[i].valid
          /\ l = "io" => c = i
    <3>1. buf' = [buf EXCEPT ![i] = [buf[i] EXCEPT !.owner = p]]
      BY <1>0, <1>2 DEF AcquireSleep, Locked
    <3>2. CASE buf[i].valid
      <4>1. pc' = [pc EXCEPT ![p] = "run"] /\ cur' = [cur EXCEPT ![p] = 0]
        BY <1>0, <1>2, <3>2 DEF AcquireSleep, Goto
      <4>2. 0 \in 0..NBUF
        BY BufAssumption
      <4> QED
        BY <3>1, <3>2, <4>1, <4>2
    <3>3. CASE ~buf[i].valid
      <4>1. pc' = [pc EXCEPT ![p] = "io"] /\ cur' = [cur EXCEPT ![p] = i]
        BY <1>0, <1>2, <3>3 DEF AcquireSleep, Goto
      <4>2. i \in 0..NBUF
        BY <1>0, BufAssumption DEF Bufs
      <4> QED
        BY <3>1, <3>3, <4>1, <4>2
    <3> QED
      BY <3>2, <3>3
  <2>2. PICK r : r = [buf[i] EXCEPT !.owner = p]
    OBVIOUS
  <2>3. r \in BufRec /\ r.owner = p
    BY <1>0, <2>2 DEF BufRec
  <2>4. r.valid = buf[i].valid /\ r.dirty = buf[i].dirty /\ r.blockno = buf[i].blockno
        /\ r.data = buf[i].data /\ r.refcnt = buf[i].refcnt
    BY <1>0, <2>2 DEF BufRec
  <2>5. /\ buf' \in [Bufs -> BufRec]
        /\ buf'[i].owner = p /\ \A j \in Bufs : j # i => buf'[j] = buf[j]
        /\ \A j \in Bufs : /\ buf'[j].valid = buf[j].valid /\ buf'[j].dirty = buf[j].dirty
                           /\ buf'[j].blockno = buf[j].blockno /\ buf'[j].data = buf[j].data
                           /\ buf'[j].refcnt = buf[j].refcnt
    BY <1>0, <2>1, <2>2, <2>3, <2>4
  <2>6. TypeOK'
    <3>1. pc' \in [Procs -> Labels] /\ cur' \in [Procs -> 0..NBUF]
      BY <2>1 DEF TypeOK, Labels
    <3> QED
      BY <1>0, <2>5, <3>1 DEF TypeOK, BufRec
  <2>7. RefcntIsUsers'
    <3>1. ASSUME NEW j \in Bufs
          PROVE  Users(j)' = Users(j)
      BY <1>0, <1>2, <2>1, <2>5, BufAssumption DEF Users, TypeOK
    <3> QED
      BY <2>5, <3>1 DEF RefcntIsUsers
  <2>8. CallInv'
    <3>1. ASSUME NEW q \in Procs, q # p
          PROVE  pc'[q] = pc[q] /\ cur'[q] = cur[q]
      BY <2>1, <3>1 DEF TypeOK
    <3>2. ASSUME NEW q \in Procs
          PROVE  CallInv!(q)'
      <4>1. CASE q = p
        BY <1>0, <2>1, <2>5, <4>1 DEF TypeOK, CallInv, Waiting, InDriver
      <4>2. CASE q # p
        <5>1. CASE pc[q] # "run" /\ cur[q] = i
          BY <1>0, <1>2, <2>5, <3>1, <4>2, <5>1, BufAssumption DEF CallInv, Waiting, InDriver
        <5>2. CASE pc[q] # "run" /\ cur[q] # i
          BY <1>0, <2>5, <3>1, <4>2, <5>2 DEF CallInv, Waiting, InDriver
        <5>3. CASE pc[q] = "run"
          BY <3>1, <4>2, <5>3 DEF Waiting, InDriver
        <5> QED
          BY <5>1, <5>2, <5>3
      <4> QED
        BY <4>1, <4>2
    <3> QED
      BY <3>2 DEF CallInv
  <2>9. HeldInv'
    <3>1. Unique(buf)'
      BY <2>5 DEF HeldInv, Unique
    <3>2. ASSUME NEW j \in Bufs
          PROVE  /\ buf'[j].dirty => buf'[j].valid
                 /\ buf'[j].owner # NoProc =>
                      /\ buf'[j].blockno \in Blocks
                      /\ buf'[j].valid \/ (cur'[buf'[j].owner] = j /\ pc'[buf'[j].owner] \in {"io", "iowait", "iowoken"})
      <4>1. CASE j = i
        BY <1>0, <2>1, <2>5, <4>1 DEF HeldInv, CallInv, TypeOK
      <4>2. CASE j # i
        <5>1. buf[j].owner # NoProc /\ ~buf[j].valid => buf[j].owner # p /\ buf[j].owner \in Procs
          BY <1>0 DEF HeldInv, TypeOK
        <5> QED
          BY <2>1, <2>5, <4>2, <5>1 DEF HeldInv
      <4> QED
        BY <4>1, <4>2
    <3> QED
      BY <3>1, <3>2 DEF HeldInv
  <2>10. QueueInv'
    <3>1. ASSUME NEW k \in 1..Len(idequeue)
          PROVE  /\ idequeue[k] \in Bufs /\ buf[idequeue[k]].owner \in Procs
                 /\ buf[idequeue[k]].owner # p /\ idequeue[k] # i
      <4>1. idequeue[k] \in Bufs
        BY DEF TypeOK
      <4> QED
        BY <1>0, <1>2, <4>1, BufAssumption DEF QueueInv
    <3>2. idequeue # <<>> => 1 \in 1..Len(idequeue)
      BY DEF TypeOK
    <3> QED
      BY <1>0, <2>1, <2>5, <3>1, <3>2 DEF QueueInv, Latched, TypeOK
  <2>11. ListInv' /\ (DiskInv => DiskInv')
    BY <1>0, <2>5 DEF ListInv, DiskInv
  <2>12. StoreStep
    <3>0. Unique(buf) /\ Unique(buf') /\ disk' = disk
      BY <1>0, <2>9 DEF HeldInv
    <3>1. PICK b \in Blocks : b = buf[i].blockno
      BY <1>0 DEF CallInv
    <3>2. ASSUME NEW a \in Blocks, a # b \/ ~Seen(buf, i)
          PROVE  /\ MemOf(buf', disk')[a] = MemOf(buf, disk)[a]
                 /\ HolderOf(buf')[a] = HolderOf(buf)[a]
      <4>1. \A j \in Bufs : (buf[j].blockno = a /\ Seen(buf, j)) <=> (buf'[j].blockno = a /\ Seen(buf', j))
        BY <2>5 DEF Seen
      <4>2. \A j \in Bufs : buf[j].blockno = a /\ Seen(buf, j) =>
                               buf'[j].data = buf[j].data /\ buf'[j].owner = buf[j].owner
        BY <2>5, <3>1, <3>2
      <4>9. SameAt(buf, disk, buf', disk', a)
        BY <3>0, <4>1, <4>2 DEF SameAt
      <4> QED
        BY <4>9, StoreKept
    <3>3. CASE Seen(buf, i)
      <4>1. Seen(buf', i) /\ buf'[i].blockno = b
        BY <1>0, <2>5, <3>1, <3>3 DEF Seen
      <4>2. MemOf(buf, disk)[b] = buf[i].data /\ HolderOf(buf)[b] = NoProc
        BY <1>0, <1>2, <3>0, <3>1, <3>3, SeenAt
      <4>3. MemOf(buf', disk')[b] = buf'[i].data /\ HolderOf(buf')[b] = p
        <5>1. MemOf(buf', disk')[b] = buf'[i].data /\ HolderOf(buf')[b] = buf'[i].owner
          BY <1>0, <3>0, <4>1, SeenAt
        <5> QED
          BY <2>5, <5>1
      <4>4. Store!Obtain(p, b)
        <5>1. OthersKept(b)
          BY <3>2 DEF OthersKept
        <5> QED
          BY <5>1, <1>0, <2>5, <3>2, <4>2, <4>3, StoreSteps
      <4> QED
        BY <4>4 DEF StoreStep, Store!Next
    <3>4. CASE ~Seen(buf, i)
      BY <3>2, <3>4, StoreStutters DEF StoreStep
    <3> QED
      BY <3>3, <3>4
  <2> QED
    BY <2>6, <2>7, <2>8, <2>9, <2>10, <2>11, <2>12
<1> QED
  BY <1>1, <1>2

\* brelse's releasesleep.
LEMMA ReleaseSleepInv ==
    ASSUME BInv, NEW p \in Procs, NEW i \in Bufs, ReleaseSleep(p, i)
    PROVE  BInv' /\ (DiskInv => DiskInv' /\ StoreStep)
<1> USE DEF BInv
<1>0. /\ pc[p] = "run" /\ buf[i].owner = p
      /\ UNCHANGED <<lru, idequeue, latch, disk, panicked>>
      /\ buf' = [buf EXCEPT ![i] = [buf[i] EXCEPT !.owner = NoProc]]
      /\ pc' = [Woken("lockwait", i, "locking") EXCEPT ![p] = "releasing"]
      /\ cur' = [cur EXCEPT ![p] = i]
      /\ buf \in [Bufs -> BufRec] /\ buf[i] \in BufRec
  BY DEF ReleaseSleep, At, Unlocked, TypeOK, BufRec
<1>1. PICK r : r = [buf[i] EXCEPT !.owner = NoProc]
  OBVIOUS
<1>2. r \in BufRec /\ r.owner = NoProc
  BY <1>0, <1>1 DEF BufRec
<1>3. r.valid = buf[i].valid /\ r.dirty = buf[i].dirty /\ r.blockno = buf[i].blockno
      /\ r.data = buf[i].data /\ r.refcnt = buf[i].refcnt
  BY <1>0, <1>1 DEF BufRec
<1>4. /\ buf' \in [Bufs -> BufRec]
      /\ buf'[i].owner = NoProc /\ \A j \in Bufs : j # i => buf'[j] = buf[j]
      /\ \A j \in Bufs : /\ buf'[j].valid = buf[j].valid /\ buf'[j].dirty = buf[j].dirty
                         /\ buf'[j].blockno = buf[j].blockno /\ buf'[j].data = buf[j].data
                         /\ buf'[j].refcnt = buf[j].refcnt
  BY <1>0, <1>1, <1>2, <1>3
<1>5. /\ pc'[p] = "releasing" /\ cur'[p] = i
      /\ \A q \in Procs : q # p =>
           /\ cur'[q] = cur[q]
           /\ IF pc[q] = "lockwait" /\ cur[q] = i THEN pc'[q] = "locking" ELSE pc'[q] = pc[q]
  BY <1>0 DEF Woken, TypeOK
<1>6. TypeOK'
  <2>1. pc' \in [Procs -> Labels]
    BY <1>0 DEF TypeOK, Labels, Woken
  <2>2. cur' \in [Procs -> 0..NBUF]
    BY <1>0, BufAssumption DEF TypeOK, Bufs
  <2> QED
    BY <1>0, <1>4, <2>1, <2>2 DEF TypeOK, BufRec
<1>7. RefcntIsUsers'
  <2>1. ASSUME NEW j \in Bufs
        PROVE  Users(j)' = Users(j)
    <3>1. ASSUME NEW q \in Procs, q # p
          PROVE  q \in Users(j)' <=> q \in Users(j)
      BY <1>0, <1>4, <1>5, <3>1, BufAssumption DEF Users
    <3>2. p \in Users(j)' <=> p \in Users(j)
      BY <1>0, <1>4, <1>5, BufAssumption DEF Users
    <3> QED
      BY <3>1, <3>2 DEF Users
  <2> QED
    BY <1>4, <2>1 DEF RefcntIsUsers
<1>8. CallInv'
  <2>2. ASSUME NEW q \in Procs
        PROVE  CallInv!(q)'
    <3>1. CASE q = p
      BY <1>0, <1>4, <1>5, <3>1, BufAssumption DEF HeldInv, Waiting, InDriver
    <3>2. CASE q # p
      <4>1. CASE pc[q] # "run" /\ cur[q] = i
        BY <1>0, <1>4, <1>5, <3>2, <4>1, BufAssumption DEF CallInv, Waiting, InDriver
      <4>2. CASE pc[q] # "run" /\ cur[q] # i
        BY <1>0, <1>4, <1>5, <3>2, <4>2 DEF CallInv, Waiting, InDriver
      <4>3. CASE pc[q] = "run"
        BY <1>5, <3>2, <4>3 DEF Waiting, InDriver
      <4> QED
        BY <4>1, <4>2, <4>3
    <3> QED
      BY <3>1, <3>2
  <2> QED
    BY <2>2 DEF CallInv
<1>9. HeldInv'
  <2>1. Unique(buf)'
    BY <1>4 DEF HeldInv, Unique
  <2>2. ASSUME NEW j \in Bufs
        PROVE  /\ buf'[j].dirty => buf'[j].valid
               /\ buf'[j].owner # NoProc =>
                    /\ buf'[j].blockno \in Blocks
                    /\ buf'[j].valid \/ (cur'[buf'[j].owner] = j /\ pc'[buf'[j].owner] \in {"io", "iowait", "iowoken"})
    <3>1. CASE j = i
      BY <1>4, <3>1 DEF HeldInv
    <3>2. CASE j # i
      <4>1. buf[j].owner # NoProc /\ ~buf[j].valid => buf[j].owner # p /\ buf[j].owner \in Procs
        BY <1>0 DEF HeldInv, TypeOK
      <4> QED
        BY <1>4, <1>5, <3>2, <4>1 DEF HeldInv
    <3> QED
      BY <3>1, <3>2
  <2> QED
    BY <2>1, <2>2 DEF HeldInv
<1>10. QueueInv'
  <2>1. ASSUME NEW k \in 1..Len(idequeue)
        PROVE  /\ idequeue[k] \in Bufs /\ buf[idequeue[k]].owner \in Procs
               /\ buf[idequeue[k]].owner # p /\ idequeue[k] # i
    <3>1. idequeue[k] \in Bufs
      BY DEF TypeOK
    <3> QED
      BY <1>0, <3>1, BufAssumption DEF QueueInv
  <2>2. idequeue # <<>> => 1 \in 1..Len(idequeue)
    BY DEF TypeOK
  <2> QED
    BY <1>0, <1>4, <1>5, <2>1, <2>2 DEF QueueInv, Latched
<1>11. ListInv' /\ (DiskInv => DiskInv')
  BY <1>0, <1>4 DEF ListInv, DiskInv
<1>12. StoreStep
  <2>0. Unique(buf) /\ Unique(buf') /\ disk' = disk
    BY <1>0, <1>9 DEF HeldInv
  <2>1. PICK b \in Blocks : b = buf[i].blockno
    BY <1>0, BufAssumption DEF HeldInv
  <2>2. Seen(buf, i) /\ Seen(buf', i) /\ buf'[i].blockno = b
    BY <1>0, <1>4, <2>1, BufAssumption DEF HeldInv, Seen
  <2>3. ASSUME NEW c \in Blocks, c # b
        PROVE  /\ MemOf(buf', disk')[c] = MemOf(buf, disk)[c]
               /\ HolderOf(buf')[c] = HolderOf(buf)[c]
    <3>1. \A j \in Bufs : (buf[j].blockno = c /\ Seen(buf, j)) <=> (buf'[j].blockno = c /\ Seen(buf', j))
      BY <1>4, <2>1, <2>2, <2>3 DEF Seen
    <3>2. \A j \in Bufs : buf[j].blockno = c /\ Seen(buf, j) =>
                             buf'[j].data = buf[j].data /\ buf'[j].owner = buf[j].owner
      BY <1>4, <2>1, <2>3
    <3>9. SameAt(buf, disk, buf', disk', c)
      BY <2>0, <3>1, <3>2 DEF SameAt
    <3> QED
      BY <3>9, StoreKept
  <2>s. Shows(buf, i, b) /\ Shows(buf', i, b)
    BY <2>0, <2>1, <2>2 DEF Shows
  <2>4. MemOf(buf, disk)[b] = buf[i].data /\ HolderOf(buf)[b] = buf[i].owner
    BY <2>s, ShownAt
  <2>5. MemOf(buf', disk')[b] = buf'[i].data /\ HolderOf(buf')[b] = buf'[i].owner
    BY <2>s, ShownAt
  <2>6. Store!GiveBack(p, b)
    <3>1. OthersKept(b)
      BY <2>3 DEF OthersKept
    <3>2. HolderOf(buf)[b] = p /\ HolderOf(buf')[b] = NoProc /\ MemOf(buf', disk')[b] = MemOf(buf, disk)[b]
      BY <1>0, <1>4, <2>4, <2>5
    <3> QED
      BY <3>1, <3>2, StoreSteps
  <2> QED
    BY <2>6 DEF StoreStep, Store!Next
<1> QED
  BY <1>6, <1>7, <1>8, <1>9, <1>10, <1>11, <1>12

\* The rest of brelse.
LEMMA UnreferenceInv ==
    ASSUME BInv, NEW p \in Procs, Unreference(p)
    PROVE  BInv' /\ (DiskInv => DiskInv' /\ StoreStep)
<1> USE DEF BInv
<1>i. PICK i : i = cur[p]
  OBVIOUS
<1>0. /\ pc[p] = "releasing" /\ i \in Bufs /\ buf[i].owner # p
      /\ UNCHANGED <<idequeue, latch, disk, panicked>>
      /\ buf' = [buf EXCEPT ![i] = [buf[i] EXCEPT !.refcnt = buf[i].refcnt - 1]]
      /\ lru' = IF buf[i].refcnt = 1 THEN ToFront(i) ELSE lru
      /\ pc' = [pc EXCEPT ![p] = "run"] /\ cur' = [cur EXCEPT ![p] = 0]
      /\ buf \in [Bufs -> BufRec] /\ buf[i] \in BufRec
  BY <1>i DEF Unreference, At, Goto, CallInv, Waiting, TypeOK, BufRec
<1>1. /\ p \in Users(i) /\ Users(i) \subseteq Procs
      /\ buf[i].refcnt - 1 \in Nat /\ buf[i].refcnt - 1 = Cardinality(Users(i) \ {p})
  <2>1. p \in Users(i) /\ Users(i) \subseteq Procs
    BY <1>0, <1>i DEF Users
  <2>3. buf[i].refcnt = Cardinality(Users(i))
    BY <1>0 DEF RefcntIsUsers
  <2>4. Cardinality(Users(i) \ {p}) = Cardinality(Users(i)) - 1 /\ Cardinality(Users(i) \ {p}) \in Nat
    BY <2>1, UsersCount
  <2> QED
    BY <2>1, <2>3, <2>4
<1>2. PICK r : r = [buf[i] EXCEPT !.refcnt = buf[i].refcnt - 1]
  OBVIOUS
<1>3. r \in BufRec /\ r.refcnt = buf[i].refcnt - 1
  BY <1>0, <1>1, <1>2 DEF BufRec
<1>4. r.valid = buf[i].valid /\ r.dirty = buf[i].dirty /\ r.blockno = buf[i].blockno
      /\ r.data = buf[i].data /\ r.owner = buf[i].owner
  BY <1>0, <1>2 DEF BufRec
<1>5. /\ buf' \in [Bufs -> BufRec]
      /\ buf'[i].refcnt = buf[i].refcnt - 1 /\ \A j \in Bufs : j # i => buf'[j] = buf[j]
      /\ \A j \in Bufs : /\ buf'[j].valid = buf[j].valid /\ buf'[j].dirty = buf[j].dirty
                         /\ buf'[j].blockno = buf[j].blockno /\ buf'[j].data = buf[j].data
                         /\ buf'[j].owner = buf[j].owner
  BY <1>0, <1>2, <1>3, <1>4
<1>6. TypeOK' /\ ListInv'
  <2>1. pc' \in [Procs -> Labels] /\ cur' \in [Procs -> 0..NBUF]
    BY <1>0, BufAssumption DEF TypeOK, Labels
  <2>2. lru' \in [1..NBUF -> Bufs] /\ (\A k, l \in 1..NBUF : lru'[k] = lru'[l] => k = l) /\ ListInv'
    <3>1. CASE buf[i].refcnt = 1
      <4>1. lru' = ToFront(i)
        BY <1>0, <3>1
      <4>2. /\ ToFront(i) \in [1..NBUF -> Bufs]
            /\ \A k, l \in 1..NBUF : ToFront(i)[k] = ToFront(i)[l] => k = l
            /\ \A j \in Bufs : \E k \in 1..NBUF : ToFront(i)[k] = j
        BY <1>0, ToFrontList
      <4> QED
        BY <4>1, <4>2 DEF ListInv
    <3>2. CASE buf[i].refcnt # 1
      BY <1>0, <3>2 DEF ListInv, TypeOK
    <3> QED
      BY <3>1, <3>2
  <2> QED
    BY <1>0, <1>5, <2>1, <2>2 DEF TypeOK, BufRec
<1>7. RefcntIsUsers'
  <2>1. ASSUME NEW j \in Bufs, j # i
        PROVE  Users(j)' = Users(j)
    BY <1>0, <1>5, <1>i, <2>1 DEF Users, TypeOK
  <2>2. Users(i)' = Users(i) \ {p}
    BY <1>0, <1>5, <1>i DEF Users, TypeOK
  <2>3. ASSUME NEW j \in Bufs
        PROVE  buf'[j].refcnt = Cardinality(Users(j)')
    <3>1. CASE j = i
      BY <1>1, <1>5, <2>2, <3>1
    <3>2. CASE j # i
      BY <1>5, <2>1, <3>2 DEF RefcntIsUsers
    <3> QED
      BY <3>1, <3>2
  <2> QED
    BY <2>3 DEF RefcntIsUsers
<1>8. CallInv'
  BY <1>0, <1>5 DEF CallInv, TypeOK, Waiting, InDriver
<1>9. HeldInv'
  <2>1. Unique(buf)'
    BY <1>5 DEF HeldInv, Unique
  <2>2. ASSUME NEW j \in Bufs
        PROVE  /\ buf'[j].dirty => buf'[j].valid
               /\ buf'[j].owner # NoProc =>
                    /\ buf'[j].blockno \in Blocks
                    /\ buf'[j].valid \/ (cur'[buf'[j].owner] = j /\ pc'[buf'[j].owner] \in {"io", "iowait", "iowoken"})
    <3>1. buf[j].owner # NoProc /\ ~buf[j].valid => buf[j].owner # p /\ buf[j].owner \in Procs
      BY <1>0 DEF HeldInv, TypeOK
    <3> QED
      BY <1>0, <1>5, <3>1 DEF HeldInv
  <2> QED
    BY <2>1, <2>2 DEF HeldInv
<1>10. QueueInv'
  <2>1. ASSUME NEW k \in 1..Len(idequeue)
        PROVE  /\ idequeue[k] \in Bufs /\ buf[idequeue[k]].owner \in Procs
               /\ buf[idequeue[k]].owner # p
    <3>1. idequeue[k] \in Bufs
      BY DEF TypeOK
    <3>2. /\ buf[idequeue[k]].owner \in Procs
          /\ pc[buf[idequeue[k]].owner] \in {"iowait", "iowoken"}
      BY DEF QueueInv
    <3> QED
      BY <1>0, <3>1, <3>2
  <2>2. idequeue # <<>> => 1 \in 1..Len(idequeue)
    BY DEF TypeOK
  <2> QED
    BY <1>0, <1>5, <2>1, <2>2 DEF QueueInv, Latched
<1>11. DiskInv => DiskInv'
  BY <1>0, <1>5 DEF DiskInv
<1>12. StoreStep
  BY <1>0, <1>5, <1>9, StoreQuiet DEF HeldInv
<1> QED
  BY <1>6, <1>7, <1>8, <1>9, <1>10, <1>11, <1>12

\* A holder changes the data of its buffer: log_write or bwrite.
LEMMA WriteInv ==
    ASSUME BInv, NEW p \in Procs, NEW i \in Bufs, NEW v \in Vals, LogWrite(p, i, v) \/ Bwrite(p, i, v)
    PROVE  BInv' /\ (DiskInv => DiskInv' /\ StoreStep)
<1> USE DEF BInv
<1>0. /\ pc[p] = "run" /\ buf[i].owner = p
      /\ UNCHANGED <<lru, idequeue, latch, disk, panicked>>
      /\ buf' = [buf EXCEPT ![i] = [buf[i] EXCEPT !.data = v, !.dirty = TRUE]]
      /\ buf \in [Bufs -> BufRec] /\ buf[i] \in BufRec
  <2>1. buf \in [Bufs -> BufRec] /\ buf[i] \in BufRec
    BY DEF TypeOK, BufRec
  <2>2. /\ pc[p] = "run" /\ buf[i].owner = p
        /\ UNCHANGED <<lru, idequeue, latch, disk, panicked>>
        /\ buf' = [buf EXCEPT ![i].data = v, ![i].dirty = TRUE]
    BY DEF LogWrite, Bwrite, At
  <2> QED
    BY <2>1, <2>2
<1>1. \/ pc' = pc /\ cur' = cur
      \/ pc' = [pc EXCEPT ![p] = "io"] /\ cur' = [cur EXCEPT ![p] = i]
  BY DEF LogWrite, Bwrite, Goto
<1>2. PICK r : r = [buf[i] EXCEPT !.data = v, !.dirty = TRUE]
  OBVIOUS
<1>3. r \in BufRec /\ r.data = v /\ r.dirty
  BY <1>0, <1>2 DEF BufRec
<1>4. r.valid = buf[i].valid /\ r.blockno = buf[i].blockno /\ r.refcnt = buf[i].refcnt /\ r.owner = buf[i].owner
  BY <1>0, <1>2 DEF BufRec
<1>5. /\ buf' \in [Bufs -> BufRec] /\ buf'[i].dirty /\ buf'[i].data = v
      /\ \A j \in Bufs : j # i => buf'[j] = buf[j]
      /\ \A j \in Bufs : /\ buf'[j].valid = buf[j].valid /\ buf'[j].blockno = buf[j].blockno
                         /\ buf'[j].refcnt = buf[j].refcnt /\ buf'[j].owner = buf[j].owner
  BY <1>0, <1>2, <1>3, <1>4
<1>6. TypeOK'
  <2>1. pc' \in [Procs -> Labels] /\ cur' \in [Procs -> 0..NBUF]
    <3>1. i \in 0..NBUF
      BY BufAssumption DEF Bufs
    <3> QED
      BY <1>1, <3>1 DEF TypeOK, Labels
  <2> QED
    BY <1>0, <1>5, <2>1 DEF TypeOK, BufRec
<1>7. RefcntIsUsers'
  <2>1. ASSUME NEW j \in Bufs
        PROVE  Users(j)' = Users(j)
    BY <1>0, <1>1, <1>5 DEF Users, TypeOK
  <2> QED
    BY <1>5, <2>1 DEF RefcntIsUsers
<1>8. buf[i].valid /\ buf[i].blockno \in Blocks
  BY <1>0, BufAssumption DEF HeldInv
<1>9. CallInv'
  <2>1. ASSUME NEW q \in Procs
        PROVE  CallInv!(q)'
    <3>1. CASE q = p
      BY <1>0, <1>1, <1>5, <1>8, <3>1 DEF TypeOK, Waiting, InDriver
    <3>2. CASE q # p
      <4>1. pc'[q] = pc[q] /\ cur'[q] = cur[q]
        BY <1>1, <3>2 DEF TypeOK
      <4>2. pc[q] \in InDriver => cur[q] # i
        BY <1>0, <3>2 DEF CallInv
      <4> QED
        BY <1>0, <1>5, <4>1, <4>2 DEF CallInv, Waiting, InDriver
    <3> QED
      BY <3>1, <3>2
  <2> QED
    BY <2>1 DEF CallInv
<1>10. HeldInv'
  <2>1. Unique(buf)'
    BY <1>5 DEF HeldInv, Unique
  <2>2. ASSUME NEW j \in Bufs
        PROVE  /\ buf'[j].dirty => buf'[j].valid
               /\ buf'[j].owner # NoProc =>
                    /\ buf'[j].blockno \in Blocks
                    /\ buf'[j].valid \/ (cur'[buf'[j].owner] = j /\ pc'[buf'[j].owner] \in {"io", "iowait", "iowoken"})
    <3>1. buf[j].owner # NoProc /\ ~buf[j].valid => buf[j].owner # p /\ buf[j].owner \in Procs
      BY <1>0 DEF HeldInv, TypeOK
    <3>2. \A q \in Procs : q # p => pc'[q] = pc[q] /\ cur'[q] = cur[q]
      BY <1>1 DEF TypeOK
    <3> QED
      BY <1>5, <1>8, <3>1, <3>2 DEF HeldInv
  <2> QED
    BY <2>1, <2>2 DEF HeldInv
<1>11. QueueInv'
  <2>1. ASSUME NEW k \in 1..Len(idequeue)
        PROVE  /\ idequeue[k] \in Bufs /\ buf[idequeue[k]].owner \in Procs
               /\ buf[idequeue[k]].owner # p /\ idequeue[k] # i
               /\ pc'[buf[idequeue[k]].owner] = pc[buf[idequeue[k]].owner]
               /\ cur'[buf[idequeue[k]].owner] = cur[buf[idequeue[k]].owner]
    <3>1. idequeue[k] \in Bufs
      BY DEF TypeOK
    <3>2. /\ buf[idequeue[k]].owner \in Procs
          /\ pc[buf[idequeue[k]].owner] \in {"iowait", "iowoken"}
      BY DEF QueueInv
    <3>3. buf[idequeue[k]].owner # p
      BY <1>0, <3>2
    <3>4. \A q \in Procs : q # p => pc'[q] = pc[q] /\ cur'[q] = cur[q]
      BY <1>1 DEF TypeOK
    <3> QED
      BY <1>0, <3>1, <3>2, <3>3, <3>4
  <2>2. idequeue # <<>> => 1 \in 1..Len(idequeue)
    BY DEF TypeOK
  <2> QED
    BY <1>0, <1>5, <2>1, <2>2 DEF QueueInv, Latched
<1>12. ListInv' /\ (DiskInv => DiskInv')
  BY <1>0, <1>5 DEF ListInv, DiskInv
<1>13. StoreStep
  <2>0. Unique(buf) /\ Unique(buf') /\ disk' = disk
    BY <1>0, <1>10 DEF HeldInv
  <2>1. PICK b \in Blocks : b = buf[i].blockno
    BY <1>0, BufAssumption DEF HeldInv
  <2>2. Seen(buf, i) /\ Seen(buf', i) /\ buf'[i].blockno = b
    BY <1>0, <1>5, <2>1, BufAssumption DEF HeldInv, Seen
  <2>3. ASSUME NEW c \in Blocks, c # b
        PROVE  /\ MemOf(buf', disk')[c] = MemOf(buf, disk)[c]
               /\ HolderOf(buf')[c] = HolderOf(buf)[c]
    <3>1. \A j \in Bufs : (buf[j].blockno = c /\ Seen(buf, j)) <=> (buf'[j].blockno = c /\ Seen(buf', j))
      BY <1>5, <2>1, <2>2, <2>3 DEF Seen
    <3>2. \A j \in Bufs : buf[j].blockno = c /\ Seen(buf, j) =>
                             buf'[j].data = buf[j].data /\ buf'[j].owner = buf[j].owner
      BY <1>5, <2>1, <2>3
    <3>9. SameAt(buf, disk, buf', disk', c)
      BY <2>0, <3>1, <3>2 DEF SameAt
    <3> QED
      BY <3>9, StoreKept
  <2>s. Shows(buf, i, b) /\ Shows(buf', i, b)
    BY <2>0, <2>1, <2>2 DEF Shows
  <2>4. MemOf(buf, disk)[b] = buf[i].data /\ HolderOf(buf)[b] = buf[i].owner
    BY <2>s, ShownAt
  <2>5. MemOf(buf', disk')[b] = buf'[i].data /\ HolderOf(buf')[b] = buf'[i].owner
    BY <2>s, ShownAt
  <2>6. Store!Change(p, b, v)
    <3>1. OthersKept(b)
      BY <2>3 DEF OthersKept
    <3>2. HolderOf(buf)[b] = p /\ HolderOf(buf')[b] = p /\ MemOf(buf', disk')[b] = v
      BY <1>0, <1>5, <2>4, <2>5
    <3> QED
      BY <3>1, <3>2, StoreSteps
  <2> QED
    BY <2>6 DEF StoreStep, Store!Next
<1> QED
  BY <1>6, <1>7, <1>9, <1>10, <1>11, <1>12, <1>13

\* iderw queues its buffer.
LEMMA IderwInv ==
    ASSUME BInv, NEW p \in Procs, Iderw(p), ~panicked'
    PROVE  BInv' /\ (DiskInv => DiskInv' /\ StoreStep)
<1> USE DEF BInv
<1>i. PICK i : i = cur[p]
  OBVIOUS
<1>0. /\ pc[p] = "io" /\ i \in Bufs /\ buf[i].owner = p /\ buf[i].blockno \in Blocks
      /\ (buf[i].valid => buf[i].dirty)
      /\ idequeue' = Append(idequeue, i)
      /\ latch' = IF idequeue = <<>> THEN Latched(i) ELSE latch
      /\ pc' = [pc EXCEPT ![p] = "iowait"] /\ cur' = cur
      /\ UNCHANGED <<buf, lru, disk, panicked>>
  BY <1>i DEF Iderw, At, Goto, Panic, CallInv, InDriver, TypeOK
<1>1. /\ idequeue' \in Seq(Bufs) /\ Len(idequeue') = Len(idequeue) + 1
      /\ Len(idequeue) \in Nat
      /\ idequeue'[Len(idequeue) + 1] = i
      /\ \A k \in 1..Len(idequeue) : idequeue'[k] = idequeue[k] /\ idequeue[k] \in Bufs
  BY <1>0 DEF TypeOK
<1>2. TypeOK'
  <2>1. pc' \in [Procs -> Labels]
    BY <1>0 DEF TypeOK, Labels
  <2>2. Latched(i) \in Vals
    BY <1>0, BufAssumption DEF Latched, TypeOK
  <2> QED
    BY <1>0, <1>1, <2>1, <2>2 DEF TypeOK
<1>3. RefcntIsUsers'
  <2>1. ASSUME NEW j \in Bufs
        PROVE  Users(j)' = Users(j)
    BY <1>0 DEF Users, TypeOK
  <2> QED
    BY <1>0, <2>1 DEF RefcntIsUsers
<1>4. CallInv'
  <2>1. ASSUME NEW q \in Procs
        PROVE  CallInv!(q)'
    <3>1. CASE q = p
      <4>1. idequeue'[Len(idequeue) + 1] = cur'[q] /\ Len(idequeue) + 1 \in 1..Len(idequeue')
        BY <1>0, <1>1, <1>i, <3>1
      <4> QED
        BY <1>0, <1>i, <3>1, <4>1 DEF TypeOK, Waiting, InDriver
    <3>2. CASE q # p
      <4>1. pc'[q] = pc[q] /\ cur'[q] = cur[q]
        BY <1>0, <3>2 DEF TypeOK
      <4>2. ASSUME NEW k \in 1..Len(idequeue), idequeue[k] = cur[q]
            PROVE  \E l \in 1..Len(idequeue') : idequeue'[l] = cur'[q]
        <5>1. k \in 1..Len(idequeue')
          BY <1>1
        <5> QED
          BY <1>1, <4>1, <4>2, <5>1
      <4> QED
        BY <1>0, <4>1, <4>2 DEF CallInv
    <3> QED
      BY <3>1, <3>2
  <2> QED
    BY <2>1 DEF CallInv
<1>5. HeldInv'
  BY <1>0 DEF HeldInv, TypeOK
<1>6. QueueInv'
  <2>1. ASSUME NEW k \in 1..Len(idequeue)
        PROVE  idequeue[k] # i /\ buf[idequeue[k]].owner \in Procs /\ buf[idequeue[k]].owner # p
    BY <1>0, <1>1 DEF QueueInv
  <2>2. ASSUME NEW k \in 1..Len(idequeue')
        PROVE  /\ buf[idequeue'[k]].owner \in Procs
               /\ pc'[buf[idequeue'[k]].owner] \in {"iowait", "iowoken"} /\ cur[buf[idequeue'[k]].owner] = idequeue'[k]
               /\ buf[idequeue'[k]].valid => buf[idequeue'[k]].dirty
               /\ \A l \in 1..Len(idequeue') : idequeue'[l] = idequeue'[k] => l = k
    <3>0. \A l \in 1..Len(idequeue') : l \in 1..Len(idequeue) \/ l = Len(idequeue) + 1
      BY <1>1
    <3>1. CASE k \in 1..Len(idequeue)
      BY <1>0, <1>1, <2>1, <3>0, <3>1 DEF QueueInv, TypeOK
    <3>2. CASE k = Len(idequeue) + 1
      BY <1>0, <1>1, <1>i, <2>1, <3>0, <3>2 DEF TypeOK
    <3> QED
      BY <3>0, <3>1, <3>2
  <2>3. latch' = Latched(idequeue'[1])
    <3>1. CASE idequeue = <<>>
      <4>1. idequeue'[1] = i
        BY <1>0, <3>1
      <4> QED
        BY <1>0, <3>1, <4>1 DEF Latched
    <3>2. CASE idequeue # <<>>
      <4>1. idequeue'[1] = idequeue[1]
        BY <1>1, <3>2 DEF TypeOK
      <4> QED
        BY <1>0, <3>2, <4>1 DEF Latched, QueueInv
    <3> QED
      BY <3>1, <3>2
  <2> QED
    BY <1>0, <2>2, <2>3 DEF QueueInv, Latched
<1>7. ListInv' /\ (DiskInv => DiskInv')
  BY <1>0 DEF ListInv, DiskInv
<1>8. StoreStep
  BY <1>0, StoreQuiet DEF HeldInv
<1> QED
  BY <1>2, <1>3, <1>4, <1>5, <1>6, <1>7, <1>8

\* A sleeper that is woken before its time, or goes back to sleep in iderw because it was.
LEMMA StirInv ==
    ASSUME BInv, NEW p \in Procs, NEW m, pc' = [pc EXCEPT ![p] = m],
           UNCHANGED <<buf, lru, idequeue, latch, disk, cur, panicked>>,
           \/ pc[p] = "lockwait" /\ m = "locking"
           \/ pc[p] = "iowait" /\ m = "iowoken"
           \/ pc[p] = "iowoken" /\ m = "iowait" /\ \E k \in 1..Len(idequeue) : idequeue[k] = cur[p]
    PROVE  BInv' /\ (DiskInv => DiskInv' /\ StoreStep)
<1> USE DEF BInv
<1>0. pc'[p] = m /\ \A q \in Procs : q # p => pc'[q] = pc[q]
  BY DEF TypeOK
<1>1. TypeOK'
  <2>1. pc' \in [Procs -> Labels]
    BY DEF TypeOK, Labels
  <2> QED
    BY <2>1 DEF TypeOK
<1>2. RefcntIsUsers'
  <2>1. ASSUME NEW j \in Bufs
        PROVE  Users(j)' = Users(j)
    BY <1>0 DEF Users
  <2> QED
    BY <2>1 DEF RefcntIsUsers
<1>3. CallInv'
  <2>1. ASSUME NEW q \in Procs
        PROVE  CallInv!(q)'
    <3>1. CASE q = p
      BY <1>0, <3>1 DEF CallInv, Waiting, InDriver
    <3>2. CASE q # p
      BY <1>0, <3>2 DEF CallInv, Waiting, InDriver
    <3> QED
      BY <3>1, <3>2
  <2> QED
    BY <2>1 DEF CallInv
<1>4. HeldInv'
  <2>1. ASSUME NEW j \in Bufs, buf[j].owner # NoProc, ~buf[j].valid
        PROVE  cur[buf[j].owner] = j /\ pc'[buf[j].owner] \in {"io", "iowait", "iowoken"}
    <3>1. buf[j].owner \in Procs
      BY <2>1 DEF TypeOK
    <3> QED
      BY <1>0, <2>1, <3>1 DEF HeldInv
  <2> QED
    BY <2>1 DEF HeldInv
<1>5. QueueInv'
  <2>1. ASSUME NEW k \in 1..Len(idequeue)
        PROVE  pc'[buf[idequeue[k]].owner] \in {"iowait", "iowoken"}
    BY <1>0 DEF QueueInv
  <2> QED
    BY <2>1 DEF QueueInv, Latched
<1>6. ListInv' /\ (DiskInv => DiskInv')
  BY DEF ListInv, DiskInv
<1>7. StoreStep
  BY StoreQuiet DEF HeldInv
<1> QED
  BY <1>1, <1>2, <1>3, <1>4, <1>5, <1>6, <1>7

\* iderw returns when its request is done.
LEMMA IderwDoneInv ==
    ASSUME BInv, NEW p \in Procs, IderwWoken(p), buf[cur[p]].valid, ~buf[cur[p]].dirty
    PROVE  BInv' /\ (DiskInv => DiskInv' /\ StoreStep)
<1> USE DEF BInv
<1>0. /\ pc[p] = "iowoken"
      /\ pc' = [pc EXCEPT ![p] = "run"] /\ cur' = [cur EXCEPT ![p] = 0]
      /\ UNCHANGED <<buf, lru, idequeue, latch, disk, panicked>>
  BY DEF IderwWoken, At, Goto, CallInv
<1>1. TypeOK'
  <2>1. pc' \in [Procs -> Labels] /\ cur' \in [Procs -> 0..NBUF]
    BY <1>0, BufAssumption DEF TypeOK, Labels
  <2> QED
    BY <1>0, <2>1 DEF TypeOK
<1>2. RefcntIsUsers'
  <2>1. ASSUME NEW j \in Bufs
        PROVE  Users(j)' = Users(j)
    BY <1>0 DEF Users, TypeOK
  <2> QED
    BY <1>0, <2>1 DEF RefcntIsUsers
<1>3. CallInv'
  BY <1>0 DEF CallInv, TypeOK, Waiting, InDriver
<1>4. HeldInv'
  <2>1. ASSUME NEW j \in Bufs
        PROVE  buf[j].owner # NoProc /\ ~buf[j].valid => buf[j].owner # p /\ buf[j].owner \in Procs
    BY <1>0 DEF HeldInv, TypeOK
  <2> QED
    BY <1>0, <2>1 DEF HeldInv, TypeOK
<1>5. QueueInv'
  <2>1. ASSUME NEW k \in 1..Len(idequeue)
        PROVE  buf[idequeue[k]].owner \in Procs /\ buf[idequeue[k]].owner # p
    BY <1>0 DEF QueueInv
  <2> QED
    BY <1>0, <2>1 DEF QueueInv, TypeOK, Latched
<1>6. ListInv' /\ (DiskInv => DiskInv')
  BY <1>0 DEF ListInv, DiskInv
<1>7. StoreStep
  BY <1>0, StoreQuiet DEF HeldInv
<1> QED
  BY <1>1, <1>2, <1>3, <1>4, <1>5, <1>6, <1>7

LEMMA KillInv ==
    ASSUME BInv, NEW p \in Procs, Kill(p)
    PROVE  BInv' /\ (DiskInv => DiskInv' /\ StoreStep)
<1>1. cur' = cur /\ UNCHANGED <<buf, lru, idequeue, latch, disk, panicked>>
  BY DEF Kill, Goto, BInv, TypeOK
<1>2. CASE pc[p] = "lockwait" /\ pc' = [pc EXCEPT ![p] = "locking"]
  BY <1>1, <1>2, StirInv
<1>3. CASE pc[p] = "iowait" /\ pc' = [pc EXCEPT ![p] = "iowoken"]
  BY <1>1, <1>3, StirInv
<1> QED
  BY <1>2, <1>3 DEF Kill, Goto

\* A process that ideintr has woken finds its request done; one that was killed may find
\* it still queued.
LEMMA IderwWokenInv ==
    ASSUME BInv, NEW p \in Procs, IderwWoken(p)
    PROVE  BInv' /\ (DiskInv => DiskInv' /\ StoreStep)
<1>1. pc[p] = "iowoken" /\ UNCHANGED <<buf, lru, idequeue, latch, disk, panicked>>
  BY DEF IderwWoken, At
<1>2. CASE buf[cur[p]].valid /\ ~buf[cur[p]].dirty
  BY <1>2, IderwDoneInv
<1>3. CASE ~(buf[cur[p]].valid /\ ~buf[cur[p]].dirty)
  <2>1. pc' = [pc EXCEPT ![p] = "iowait"] /\ cur' = cur
    BY <1>3 DEF IderwWoken, Goto, BInv, TypeOK
  <2>2. \E k \in 1..Len(idequeue) : idequeue[k] = cur[p]
    BY <1>1, <1>3 DEF BInv, CallInv
  <2> QED
    BY <1>1, <2>1, <2>2, StirInv
<1> QED
  BY <1>2, <1>3

\* ideintr.  The one whose request is done wakes if it is asleep; it alone waits for
\* that buffer.
LEMMA IdeintrInv ==
    ASSUME BInv, NEW ok \in ReadStatus, Ideintr(ok)
    PROVE  BInv' /\ (ReadsSucceed /\ DiskInv => DiskInv' /\ StoreStep)
<1> USE DEF BInv
<1>i. PICK i : i = Head(idequeue)
  OBVIOUS
<1>b. PICK b : b = buf[i].blockno
  OBVIOUS
<1>q. PICK rest : rest = Tail(idequeue)
  OBVIOUS
<1>0. /\ idequeue # <<>>
      /\ buf' = [buf EXCEPT ![i].data  = IF ~buf[i].dirty /\ ok THEN disk[b] ELSE @,
                            ![i].valid = TRUE,
                            ![i].dirty = FALSE]
      /\ disk' = IF buf[i].dirty THEN [disk EXCEPT ![b] = latch] ELSE disk
      /\ pc' = Woken("iowait", i, "iowoken")
      /\ idequeue' = rest
      /\ latch' = IF rest = <<>> THEN Zero ELSE Latched(Head(rest))
      /\ UNCHANGED <<lru, cur, panicked>>
  BY <1>i, <1>b, <1>q DEF Ideintr
<1>1. /\ i = idequeue[1] /\ 1 \in 1..Len(idequeue) /\ i \in Bufs
      /\ rest \in Seq(Bufs) /\ Len(rest) = Len(idequeue) - 1
      /\ \A k \in 1..Len(rest) : /\ k + 1 \in 1..Len(idequeue) /\ rest[k] = idequeue[k + 1]
                                 /\ rest[k] \in Bufs
      /\ \A k \in 1..Len(idequeue) : k = 1 \/ (k - 1 \in 1..Len(rest) /\ rest[k - 1] = idequeue[k])
  <2>1. /\ idequeue \in Seq(Bufs) /\ idequeue # <<>>
        /\ i = idequeue[1] /\ rest \in Seq(Bufs) /\ Len(rest) = Len(idequeue) - 1
        /\ Len(idequeue) \in Nat /\ 1 \in 1..Len(idequeue)
        /\ \A k \in 1..Len(rest) : rest[k] = idequeue[k + 1]
    BY <1>0, <1>i, <1>q DEF TypeOK
  <2>2. i \in Bufs /\ \A k \in 1..Len(rest) : rest[k] \in Bufs /\ k + 1 \in 1..Len(idequeue)
    BY <2>1
  <2>3. ASSUME NEW k \in 1..Len(idequeue), k # 1
        PROVE  k - 1 \in 1..Len(rest) /\ rest[k - 1] = idequeue[k]
    <3>1. k - 1 \in 1..Len(rest) /\ (k - 1) + 1 = k
      BY <2>1, <2>3
    <3> QED
      BY <2>1, <3>1
  <2>4. \A k \in 1..Len(idequeue) : k = 1 \/ (k - 1 \in 1..Len(rest) /\ rest[k - 1] = idequeue[k])
    BY <2>3
  <2> QED
    BY <2>1, <2>2, <2>4
<1>2. PICK o \in Procs : /\ o = buf[i].owner /\ cur[o] = i /\ o # NoProc
                         /\ (buf[i].valid => buf[i].dirty)
  BY <1>1, BufAssumption DEF QueueInv
<1>3. b \in Blocks /\ buf \in [Bufs -> BufRec] /\ buf[i] \in BufRec
  BY <1>1, <1>2, <1>b DEF HeldInv, TypeOK, BufRec
<1>4. PICK d \in Vals : d = IF ~buf[i].dirty /\ ok THEN disk[b] ELSE buf[i].data
  BY <1>3 DEF BufRec, TypeOK
<1>5. PICK r : r = [buf[i] EXCEPT !.data = d, !.valid = TRUE, !.dirty = FALSE]
  OBVIOUS
<1>6. buf' = [buf EXCEPT ![i] = r]
  BY <1>0, <1>1, <1>3, <1>4, <1>5
<1>7. r \in BufRec /\ r.data = d /\ r.valid /\ ~r.dirty
  BY <1>3, <1>5 DEF BufRec
<1>8. r.blockno = b /\ r.refcnt = buf[i].refcnt /\ r.owner = o
  BY <1>2, <1>3, <1>5, <1>b DEF BufRec
<1>9. /\ buf' \in [Bufs -> BufRec] /\ buf'[i].data = d /\ buf'[i].valid /\ ~buf'[i].dirty
      /\ \A j \in Bufs : j # i => buf'[j] = buf[j]
      /\ \A j \in Bufs : /\ buf'[j].blockno = buf[j].blockno
                         /\ buf'[j].refcnt = buf[j].refcnt /\ buf'[j].owner = buf[j].owner
  BY <1>1, <1>2, <1>3, <1>6, <1>7, <1>8, <1>b
<1>10. \A q \in Procs : IF pc[q] = "iowait" /\ cur[q] = i THEN pc'[q] = "iowoken" ELSE pc'[q] = pc[q]
  BY <1>0 DEF Woken
<1>11. TypeOK'
  <2>1. pc' \in [Procs -> Labels]
    BY <1>0 DEF TypeOK, Labels, Woken
  <2>2. latch' \in Vals
    <3>1. CASE rest = <<>>
      BY <1>0, <3>1, BufAssumption
    <3>2. CASE rest # <<>>
      <4>1. Head(rest) \in Bufs
        BY <1>1, <3>2
      <4>2. Latched(Head(rest)) \in Vals
        BY <4>1, BufAssumption DEF Latched, TypeOK
      <4> QED
        BY <1>0, <3>2, <4>2
    <3> QED
      BY <3>1, <3>2
  <2>3. disk' \in [Blocks -> Vals]
    BY <1>0, <1>3 DEF TypeOK
  <2> QED
    BY <1>0, <1>1, <1>9, <2>1, <2>2, <2>3 DEF TypeOK, BufRec
<1>12. RefcntIsUsers'
  <2>1. ASSUME NEW j \in Bufs
        PROVE  Users(j)' = Users(j)
    BY <1>0, <1>9, <1>10 DEF Users
  <2> QED
    BY <1>9, <2>1 DEF RefcntIsUsers
<1>13. CallInv'
  <2>1. ASSUME NEW q \in Procs
        PROVE  CallInv!(q)'
    <3>1. CASE pc[q] = "iowait" /\ cur[q] = i
      BY <1>0, <1>9, <1>10, <3>1 DEF CallInv, Waiting, InDriver
    <3>2. CASE ~(pc[q] = "iowait" /\ cur[q] = i)
      <4>1. pc'[q] = pc[q] /\ cur'[q] = cur[q]
        BY <1>0, <1>10, <3>2
      <4>2. ASSUME NEW k \in 1..Len(idequeue), idequeue[k] = cur[q], cur[q] # i
            PROVE  \E l \in 1..Len(idequeue') : idequeue'[l] = cur[q]
        <5>1. k # 1
          BY <1>1, <4>2
        <5> QED
          BY <1>0, <1>1, <4>2, <5>1
      <4>3. pc[q] # "run" => cur[q] \in Bufs
        BY DEF CallInv
      <4>4. pc[q] = "iowait" => \E l \in 1..Len(idequeue') : idequeue'[l] = cur[q]
        BY <3>2, <4>2 DEF CallInv
      <4>5. pc[q] = "iowoken" => \/ buf'[cur[q]].valid /\ ~buf'[cur[q]].dirty
                                 \/ \E l \in 1..Len(idequeue') : idequeue'[l] = cur[q]
        BY <1>9, <4>2, <4>3 DEF CallInv
      <4> QED
        BY <1>9, <4>1, <4>3, <4>4, <4>5 DEF CallInv, Waiting, InDriver
    <3> QED
      BY <3>1, <3>2
  <2> QED
    BY <2>1 DEF CallInv
<1>14. HeldInv'
  <2>1. Unique(buf)'
    BY <1>9 DEF HeldInv, Unique
  <2>2. ASSUME NEW j \in Bufs
        PROVE  /\ buf'[j].dirty => buf'[j].valid
               /\ buf'[j].owner # NoProc =>
                    /\ buf'[j].blockno \in Blocks
                    /\ buf'[j].valid \/ (cur'[buf'[j].owner] = j /\ pc'[buf'[j].owner] \in {"io", "iowait", "iowoken"})
    <3>1. CASE j = i
      BY <1>3, <1>9, <1>b, <3>1
    <3>2. CASE j # i
      <4>1. buf[j].owner # NoProc /\ ~buf[j].valid => buf[j].owner \in Procs /\ cur[buf[j].owner] # i
        BY <3>2 DEF HeldInv, TypeOK
      <4> QED
        BY <1>0, <1>9, <1>10, <3>2, <4>1 DEF HeldInv
    <3> QED
      BY <3>1, <3>2
  <2> QED
    BY <2>1, <2>2 DEF HeldInv
<1>15. QueueInv'
  <2>1. ASSUME NEW k \in 1..Len(rest)
        PROVE  /\ rest[k] # i /\ buf[rest[k]].owner \in Procs
               /\ pc[buf[rest[k]].owner] \in {"iowait", "iowoken"} /\ cur[buf[rest[k]].owner] = rest[k]
               /\ buf[rest[k]].valid => buf[rest[k]].dirty
               /\ \A l \in 1..Len(rest) : rest[l] = rest[k] => l = k
    <3>1. PICK m \in 1..Len(idequeue) : m = k + 1 /\ rest[k] = idequeue[m]
      BY <1>1
    <3>2. rest[k] # i
      <4>1. m # 1
        BY <1>1, <3>1
      <4> QED
        BY <1>1, <3>1, <4>1 DEF QueueInv
    <3>3. ASSUME NEW l \in 1..Len(rest), rest[l] = rest[k]
          PROVE  l = k
      <4>1. l + 1 \in 1..Len(idequeue) /\ idequeue[l + 1] = idequeue[m]
        BY <1>1, <3>1, <3>3
      <4>2. l + 1 = m
        BY <4>1 DEF QueueInv
      <4> QED
        BY <3>1, <4>2, <1>1
    <3>4. /\ buf[idequeue[m]].owner \in Procs
          /\ pc[buf[idequeue[m]].owner] \in {"iowait", "iowoken"} /\ cur[buf[idequeue[m]].owner] = idequeue[m]
          /\ buf[idequeue[m]].valid => buf[idequeue[m]].dirty
      BY DEF QueueInv
    <3> QED
      BY <3>1, <3>2, <3>3, <3>4
  <2>2. ASSUME NEW k \in 1..Len(rest)
        PROVE  /\ buf'[rest[k]].owner \in Procs
               /\ pc'[buf'[rest[k]].owner] \in {"iowait", "iowoken"} /\ cur'[buf'[rest[k]].owner] = rest[k]
               /\ buf'[rest[k]].valid => buf'[rest[k]].dirty
               /\ \A l \in 1..Len(rest) : rest[l] = rest[k] => l = k
    <3>1. PICK x \in Procs : x = buf[rest[k]].owner
      BY <2>1
    <3>2. rest[k] \in Bufs /\ rest[k] # i /\ pc[x] \in {"iowait", "iowoken"} /\ cur[x] = rest[k]
      BY <1>1, <2>1, <3>1
    <3>3. pc'[x] \in {"iowait", "iowoken"} /\ cur'[x] = rest[k] /\ buf'[rest[k]] = buf[rest[k]]
      BY <1>0, <1>9, <1>10, <3>2
    <3> QED
      BY <2>1, <3>1, <3>3
  <2>3. rest # <<>> => latch' = Latched(rest[1]) /\ rest[1] # i /\ rest[1] \in Bufs
    <3>1. rest # <<>> => 1 \in 1..Len(rest) /\ Head(rest) = rest[1]
      BY <1>1
    <3> QED
      BY <1>0, <1>1, <2>1, <3>1
  <2> QED
    <3>1. rest # <<>> => latch' = Latched(idequeue[1])'
      BY <1>0, <1>9, <2>3 DEF Latched
    <3>2. rest = idequeue'
      BY <1>0
    <3>3. /\ \A k \in 1..Len(idequeue') :
               /\ buf'[idequeue'[k]].owner \in Procs
               /\ pc'[buf'[idequeue'[k]].owner] \in {"iowait", "iowoken"} /\ cur'[buf'[idequeue'[k]].owner] = idequeue'[k]
               /\ buf'[idequeue'[k]].valid => buf'[idequeue'[k]].dirty
               /\ \A l \in 1..Len(idequeue') : idequeue'[l] = idequeue'[k] => l = k
          /\ idequeue' # <<>> => latch' = Latched(idequeue[1])'
      BY <2>2, <3>1, <3>2
    <3> QED
      BY <3>3 DEF QueueInv
<1>16. ListInv'
  BY <1>0 DEF ListInv
<1>17. ASSUME ReadsSucceed, DiskInv
       PROVE  DiskInv'
  <2>1. ok
    BY <1>17, BufAssumption DEF ReadsSucceed
  <2>2. buf[i].dirty => latch = buf[i].data
    BY <1>0, <1>1 DEF QueueInv, Latched
  <2>3. disk'[b] = d
    BY <1>0, <1>3, <1>4, <2>1, <2>2 DEF TypeOK
  <2>4. ASSUME NEW j \in Bufs, buf'[j].blockno \in Blocks, buf'[j].valid, ~buf'[j].dirty
        PROVE  buf'[j].data = disk'[buf'[j].blockno]
    <3>1. CASE j = i
      BY <1>9, <1>b, <2>3, <3>1
    <3>2. CASE j # i
      <4>1. buf[j].blockno # b
        BY <1>1, <1>3, <1>b, <3>2 DEF HeldInv, Unique
      <4>2. disk'[buf[j].blockno] = disk[buf[j].blockno]
        BY <1>0, <1>9, <2>4, <4>1 DEF TypeOK
      <4> QED
        BY <1>9, <1>17, <2>4, <3>2, <4>2 DEF DiskInv
    <3> QED
      BY <3>1, <3>2
  <2> QED
    BY <2>4 DEF DiskInv
<1>18. ASSUME ReadsSucceed, DiskInv
       PROVE  StoreStep
  <2>0. Unique(buf) /\ Unique(buf')
    BY <1>14 DEF HeldInv
  <2>1. ASSUME NEW c \in Blocks, c # b
        PROVE  /\ MemOf(buf', disk')[c] = MemOf(buf, disk)[c]
               /\ HolderOf(buf')[c] = HolderOf(buf)[c]
    <3>1. \A j \in Bufs : (buf[j].blockno = c /\ Seen(buf, j)) <=> (buf'[j].blockno = c /\ Seen(buf', j))
      BY <1>9, <1>b, <2>1 DEF Seen
    <3>2. \A j \in Bufs : buf[j].blockno = c /\ Seen(buf, j) =>
                             buf'[j].data = buf[j].data /\ buf'[j].owner = buf[j].owner
      BY <1>9, <1>b, <2>1
    <3>3. disk'[c] = disk[c]
      BY <1>0, <2>1 DEF TypeOK
    <3>9. SameAt(buf, disk, buf', disk', c)
      BY <2>0, <3>1, <3>2, <3>3 DEF SameAt
    <3> QED
      BY <3>9, StoreKept
  <2>2. MemOf(buf', disk')[b] = d /\ HolderOf(buf')[b] = o
    <3>1. buf'[i].blockno = b /\ Seen(buf', i) /\ buf'[i].data = d /\ buf'[i].owner = o
      BY <1>1, <1>2, <1>9, <1>b DEF Seen
    <3>2. MemOf(buf', disk')[b] = buf'[i].data /\ HolderOf(buf')[b] = buf'[i].owner
      <4>1. Shows(buf', i, b)
        BY <2>0, <3>1 DEF Shows
      <4>2. i \in Bufs /\ b \in Blocks
        BY <1>1, <1>3
      <4> QED
        BY <4>1, <4>2, ShownAt
    <3> QED
      BY <3>1, <3>2
  <2>3. CASE buf[i].dirty
    <3>1. MemOf(buf, disk)[b] = buf[i].data /\ HolderOf(buf)[b] = buf[i].owner
      BY <1>1, <1>3, <1>b, <2>0, <2>3, SeenAt DEF Seen
    <3>2. ASSUME NEW c \in Blocks
          PROVE  /\ MemOf(buf', disk')[c] = MemOf(buf, disk)[c]
                 /\ HolderOf(buf')[c] = HolderOf(buf)[c]
      <4>1. CASE c = b
        BY <1>2, <1>4, <2>2, <2>3, <3>1, <4>1
      <4>2. CASE c # b
        BY <2>1, <4>2
      <4> QED
        BY <4>1, <4>2
    <3> QED
      BY <3>2, StoreStutters DEF StoreStep
  <2>4. CASE ~buf[i].dirty
    <3>1. \A j \in Bufs : buf[j].blockno = b => ~Seen(buf, j)
      BY <1>1, <1>2, <1>3, <1>b, <2>0, <2>4 DEF Seen, Unique
    <3>2. MemOf(buf, disk)[b] = disk[b] /\ HolderOf(buf)[b] = NoProc
      BY <1>3, <2>0, <3>1, SeenAt
    <3>3. d = disk[b]
      BY <1>4, <1>18, <2>4, BufAssumption DEF ReadsSucceed
    <3>4. Store!Obtain(o, b)
      <4>1. OthersKept(b)
        BY <2>1 DEF OthersKept
      <4> QED
        BY <4>1, <1>3, <2>1, <2>2, <3>2, <3>3, StoreSteps
    <3> QED
      BY <1>2, <1>3, <3>4 DEF StoreStep, Store!Next
  <2> QED
    BY <2>3, <2>4
<1> QED
  BY <1>11, <1>12, <1>13, <1>14, <1>15, <1>16, <1>17, <1>18

-----------------------------------------------------------------------------
(* Theorems *)

\* A panic stops the machine where it is.
LEMMA HaltInv ==
    ASSUME BInv, UNCHANGED <<buf, lru, idequeue, latch, disk, pc, cur>>, panicked' \in BOOLEAN
    PROVE  BInv' /\ (DiskInv => DiskInv' /\ StoreStep)
<1>1. TypeOK' /\ CallInv' /\ HeldInv' /\ QueueInv' /\ ListInv' /\ (DiskInv => DiskInv')
  BY DEF BInv, TypeOK, CallInv, HeldInv, QueueInv, ListInv, DiskInv, Latched
<1>2. RefcntIsUsers'
  BY DEF BInv, RefcntIsUsers, Users
<1>3. StoreStep
  BY StoreQuiet DEF BInv, HeldInv
<1> QED
  BY <1>1, <1>2, <1>3 DEF BInv

LEMMA NextInv ==
    ASSUME BInv, [Next]_vars
    PROVE  BInv' /\ (ReadsSucceed /\ DiskInv => DiskInv' /\ StoreStep)
<1>1. CASE UNCHANGED vars
  BY <1>1, HaltInv DEF vars, BInv, TypeOK
<1>2. CASE Halted
  BY <1>2, HaltInv DEF Halted, vars, BInv, TypeOK
<1>3. CASE Interrupt
  BY <1>3, IdeintrInv DEF Interrupt
<1>4. ASSUME NEW p \in Procs, InCall(p) \/ Client(p) \/ Kill(p)
      PROVE  BInv' /\ (DiskInv => DiskInv' /\ StoreStep)
  <2>1. CASE AcquireSleep(p)
    BY <2>1, AcquireSleepInv
  <2>2. CASE Unreference(p)
    BY <2>2, UnreferenceInv
  <2>3. CASE Iderw(p)
    <3>1. CASE Panic
      BY <3>1, HaltInv DEF Panic
    <3>2. CASE ~Panic
      <4>1. ~panicked'
        BY <2>3, <3>2 DEF Iderw, At
      <4> QED
        BY <2>3, <4>1, IderwInv
    <3> QED
      BY <3>1, <3>2
  <2>4. CASE IderwWoken(p)
    BY <2>4, IderwWokenInv
  <2>5. ASSUME NEW b \in Blocks, Bget(p, b)
        PROVE  BInv' /\ (DiskInv => DiskInv' /\ StoreStep)
    <3>1. CASE Panic
      BY <3>1, HaltInv DEF Panic
    <3>2. CASE ~Panic
      <4>1. ~panicked'
        BY <2>5, <3>2 DEF Bget, At
      <4> QED
        BY <2>5, <4>1, BgetInv
    <3> QED
      BY <3>1, <3>2
  <2>6. ASSUME NEW i \in Bufs, ReleaseSleep(p, i)
        PROVE  BInv' /\ (DiskInv => DiskInv' /\ StoreStep)
    BY <2>6, ReleaseSleepInv
  <2>7. ASSUME NEW i \in Bufs, NEW v \in Vals, LogWrite(p, i, v) \/ Bwrite(p, i, v)
        PROVE  BInv' /\ (DiskInv => DiskInv' /\ StoreStep)
    BY <2>7, WriteInv
  <2> QED
    BY <1>4, <2>1, <2>2, <2>3, <2>4, <2>5, <2>6, <2>7, KillInv DEF InCall, Client
<1> QED
  BY <1>1, <1>2, <1>3, <1>4 DEF Next

LEMMA Invariance == Spec => []BInv
<1>1. Init => BInv
  BY InitInv
<1>2. BInv /\ [Next]_vars => BInv'
  BY NextInv
<1> QED
  BY <1>1, <1>2, PTL DEF Spec

\* However bget's and brelse's steps outside bcache.lock interleave, refcnt is the
\* number of processes that have the buffer, wait for it or are giving it up.
THEOREM RefcntExact == Spec => []RefcntIsUsers
<1>1. BInv => RefcntIsUsers
  BY DEF BInv
<1> QED
  BY <1>1, Invariance, PTL

\* Nobody sleeps in acquiresleep on a free lock, or in iderw without the disk
\* having its request.
THEOREM WakerExists == Spec => []SleepersHaveWaker
<1>1. BInv => SleepersHaveWaker
  BY DEF BInv, CallInv, SleepersHaveWaker, Waiting, InDriver
<1> QED
  BY <1>1, Invariance, PTL

\* While the disk reads without error, callers of bread, bwrite and brelse see a
\* store of blocks, one holder at a time: recycling, write-back and the disk's
\* queue do not show.
THEOREM CacheIsStore ==
    ASSUME ReadsSucceed
    PROVE  Spec => ImplementsBlockStore
<1>1. Init => BInv /\ DiskInv /\ Store!Init
  <2>1. SUFFICES ASSUME Init PROVE BInv /\ DiskInv /\ Store!Init
    OBVIOUS
  <2>2. BInv /\ DiskInv
    BY <2>1, InitInv
  <2>3. \A b \in Blocks : Cached(b) = {} /\ disk[b] = Zero
    BY <2>1 DEF Init, Cached
  <2>4. Mem = [b \in Blocks |-> Zero] /\ Holder = [b \in Blocks |-> NoProc]
    BY <2>3 DEF Mem, Holder
  <2> QED
    BY <2>2, <2>4 DEF Store!Init, Mem, Holder
<1>2. BInv /\ DiskInv /\ [Next]_vars => BInv' /\ DiskInv' /\ StoreStep
  BY NextInv
<1>3. StoreStep => [Store!Next]_<<[b \in Blocks |-> IF Cached(b) = {} THEN disk[b]
                                                    ELSE buf[CHOOSE i \in Cached(b) : TRUE].data],
                                  [b \in Blocks |-> IF Cached(b) = {} THEN NoProc
                                                    ELSE buf[CHOOSE i \in Cached(b) : TRUE].owner]>>
  BY DEF StoreStep, Mem, Holder
<1> QED
  BY <1>1, <1>2, <1>3, PTL DEF Spec, ImplementsBlockStore, Store!Spec
=============================================================================

------------------------------ MODULE LogProofs ------------------------------
(***************************************************************************)
(* Proofs about Log for any number of processes, blocks and crashes.       *)
(*                                                                         *)
(* SpaceReserved rests on outstanding being the number of calls under way, *)
(* on each of them keeping to its share, and on what a call has written    *)
(* being in the log.  QuietMeansDurable and ImplementsAtomicDisk rest on   *)
(* where, in each step of commit and recovery, the last version of a block *)
(* is: in a pinned buffer, in the log area or at home.                     *)
(***************************************************************************)
EXTENDS Log, FiniteSetTheorems, FunctionTheorems, SequenceTheorems, TLAPS

\* What the theorems assume of the constants beyond LogAssumption: a call logs so
\* much less than begin_op reserves for it that the log area, which has a block
\* less than LOGSIZE when nlog is LOGSIZE, never fills up.
Ready ==
    /\ OpBlocks < MaxOpBlocks
    /\ LogSize + OpBlocks < LogBlocks - 1 + MaxOpBlocks

CommitLabels == {"write_log", "write_head", "install", "clear", "committed"}
ProcLabels == {"idle", "begin", "asleep", "inop"} \cup CommitLabels
BootLabels == {"read_head", "install", "clear", "booted"}

\* The pairs of a process of I and a block it has logged.
Pairs(I, W) == {x \in I \X Blocks : x[2] \in W[x[1]]}

\* The calls under way, the blocks they have logged, and the blocks in the log.
Inop == {p \in Procs : pc[p] = "inop"}
Used == Pairs(Inop, wrote)
InLog == {lh[i] : i \in 1..Len(lh)}

\* Who is where: calls run only after recovery, and one process at most commits,
\* while no call is under way.
CallInv ==
    /\ \A p \in Procs : pc[p] \in ProcLabels
    /\ pc[Boot] \in BootLabels
    /\ ~Booted => \A p \in Procs : pc[p] = "idle"
    /\ outstanding = Cardinality(Inop)
    /\ committing <=> \E p \in Procs : pc[p] \in CommitLabels
    /\ committing => outstanding = 0
    /\ \A p, q \in Procs : pc[p] \in CommitLabels /\ pc[q] \in CommitLabels => p = q

\* What a call logs: never more than its share, one block at a time, and what it has
\* logged is in the log.
ShareInv ==
    \A p \in Procs :
        /\ pend[p] # {} => pc[p] = "inop" /\ \E b \in Blocks : pend[p] = {b}
        /\ pc[p] = "inop" => /\ Cardinality(wrote[p] \cup pend[p]) <= OpBlocks
                             /\ wrote[p] \subseteq InLog

\* The log has room for everything, and nothing has panicked.
SpaceInv ==
    /\ Len(lh) + outstanding * MaxOpBlocks <= LogSize + Cardinality(Used)
    /\ panicked = FALSE

\* No block is in the log twice.
Distinct(s) == \A i, j \in 1..Len(s) : s[i] = s[j] => i = j

\* A buffer that is neither pinned nor in use has what the disk has; one that is, is
\* in the cache.
CacheInv ==
    \A b \in Blocks : IF b \in dirty \cup Locked THEN cache[b] # NotCached
                      ELSE cache[b] \in {NotCached, home[b]}

\* The first n blocks of the log area are what the calls see.
Copied(n) == \A i \in 1..n : logdata[i] = Mem[lh[i]]

\* The first n blocks of the log are at home.
Installed(n) == \A i \in 1..n : home[lh[i]] = logdata[i]

\* The log on disk and the pinned buffers in each phase.
PhaseInv ==
    /\ Distinct(lh) /\ Distinct(head)
    /\ Booted /\ (\A p \in Procs : pc[p] \notin {"install", "clear"}) =>
          head = <<>> /\ dirty = InLog
    /\ Booted /\ outstanding = 0 /\ ~committing => lh = <<>>
    /\ ~Booted => dirty = {}
    /\ \A p \in Procs :
        /\ pc[p] = "write_log"  => tail[p] < Len(lh) /\ Copied(tail[p])
        /\ pc[p] = "write_head" => 0 < Len(lh) /\ Copied(Len(lh))
        /\ pc[p] = "install"    => /\ Copied(Len(lh))
                                   /\ dirty = {lh[i] : i \in (tail[p] + 1)..Len(lh)}
        /\ pc[p] = "clear"      => dirty = {}
        /\ pc[p] = "committed"  => lh = <<>>
    /\ \A a \in Actors :
        /\ pc[a] = "install" => head = lh /\ tail[a] < Len(lh) /\ Installed(tail[a])
        /\ pc[a] = "clear"   => head = lh /\ Installed(Len(lh))

LInv == TypeOK /\ CallInv /\ ShareInv /\ SpaceInv /\ CacheInv /\ PhaseInv

-----------------------------------------------------------------------------
(* Counting *)

\* Processes that log at most k blocks each log at most k times as many in all.
LEMMA PairsBound ==
    ASSUME NEW I, IsFiniteSet(I), NEW W, NEW k \in Nat,
           \A p \in I : W[p] \subseteq Blocks /\ Cardinality(W[p]) <= k
    PROVE  /\ IsFiniteSet(Pairs(I, W)) /\ Cardinality(Pairs(I, W)) \in Nat
           /\ Cardinality(Pairs(I, W)) <= Cardinality(I) * k
<1> DEFINE Numbering(p) == {g \in [W[p] -> 1..k] : \A x, y \in W[p] : g[x] = g[y] => x = y}
           num(p) == CHOOSE g \in Numbering(p) : TRUE
           F == [x \in Pairs(I, W) |-> <<x[1], num(x[1])[x[2]]>>]
<1>1. ASSUME NEW p \in I
      PROVE  num(p) \in Numbering(p)
  <2>1. IsFiniteSet(W[p])
    BY LogAssumption, FS_Subset
  <2>2. Cardinality(W[p]) \in Nat /\ ExistsBijection(1..Cardinality(W[p]), W[p])
    BY <2>1, FS_CardinalityType
  <2>3. ExistsBijection(W[p], 1..Cardinality(W[p]))
    BY <2>2, Fun_ExistsBijSymmetric
  <2>4. PICK g : g \in Bijection(W[p], 1..Cardinality(W[p]))
    BY <2>3 DEF ExistsBijection
  <2>5. /\ g \in [W[p] -> 1..Cardinality(W[p])]
        /\ \A x, y \in W[p] : g[x] = g[y] => x = y
    <3> DEFINE S == W[p]
               T == 1..Cardinality(S)
    <3>1. g \in Injection(S, T)
      BY <2>4 DEF Bijection
    <3> HIDE DEF S, T
    <3>2. g \in [S -> T] /\ \A x, y \in S : g[x] = g[y] => x = y
      BY <3>1, Fun_InjectionProperties
    <3> QED
      BY <3>2 DEF S, T
  <2>6. \A m \in 1..Cardinality(W[p]) : m \in 1..k
    BY <2>2
  <2>7. g \in [W[p] -> 1..k]
    BY <2>5, <2>6
  <2> QED
    BY <2>5, <2>7
<1> HIDE DEF num
<1>2. F \in [Pairs(I, W) -> I \X (1..k)]
  BY <1>1 DEF Pairs
<1>3. ASSUME NEW x \in Pairs(I, W), NEW y \in Pairs(I, W), F[x] = F[y]
      PROVE  x = y
  <2>1. /\ x = <<x[1], x[2]>> /\ x[1] \in I /\ x[2] \in W[x[1]]
        /\ y = <<y[1], y[2]>> /\ y[1] \in I /\ y[2] \in W[y[1]]
    BY DEF Pairs
  <2>2. x[1] = y[1] /\ num(x[1])[x[2]] = num(y[1])[y[2]]
    BY <1>3
  <2>3. x[2] = y[2]
    BY <1>1, <2>1, <2>2
  <2> QED
    BY <2>1, <2>2, <2>3
<1> HIDE DEF F
<1>4. F \in Injection(Pairs(I, W), I \X (1..k))
  BY <1>2, <1>3, Fun_IsInj
<1>5. IsFiniteSet(1..k) /\ Cardinality(1..k) = k
  BY FS_Interval
<1>6. IsFiniteSet(I \X (1..k)) /\ Cardinality(I \X (1..k)) = Cardinality(I) * k
  BY <1>5, FS_Product
<1>7. IsFiniteSet(Pairs(I, W)) /\ Cardinality(Pairs(I, W)) <= Cardinality(I \X (1..k))
  BY <1>4, <1>6, FS_Injection
<1> QED
  BY <1>6, <1>7, FS_CardinalityType

\* The calls under way are finitely many and within their shares.
LEMMA UsedBound ==
    ASSUME TypeOK, ShareInv
    PROVE  /\ IsFiniteSet(Inop) /\ Cardinality(Inop) \in Nat
           /\ IsFiniteSet(Used) /\ Cardinality(Used) \in Nat
           /\ Cardinality(Used) <= Cardinality(Inop) * OpBlocks
<1>1. IsFiniteSet(Inop) /\ Cardinality(Inop) \in Nat
  <2>1. Inop \in SUBSET Procs
    BY DEF Inop
  <2> QED
    BY <2>1, LogAssumption, FS_Subset, FS_CardinalityType
<1>2. ASSUME NEW p \in Inop
      PROVE  wrote[p] \subseteq Blocks /\ Cardinality(wrote[p]) <= OpBlocks
  <2>1. p \in Procs /\ pc[p] = "inop" /\ wrote[p] \in SUBSET Blocks /\ pend[p] \in SUBSET Blocks
    BY DEF Inop, TypeOK
  <2>2. Cardinality(wrote[p] \cup pend[p]) <= OpBlocks
    BY <2>1 DEF ShareInv
  <2>3. wrote[p] \cup pend[p] \in SUBSET Blocks /\ wrote[p] \in SUBSET (wrote[p] \cup pend[p])
    BY <2>1
  <2>4. IsFiniteSet(wrote[p] \cup pend[p])
    BY <2>3, LogAssumption, FS_Subset
  <2>5. /\ IsFiniteSet(wrote[p]) /\ Cardinality(wrote[p]) <= Cardinality(wrote[p] \cup pend[p])
        /\ Cardinality(wrote[p] \cup pend[p]) \in Nat /\ Cardinality(wrote[p]) \in Nat
    BY <2>3, <2>4, FS_Subset, FS_CardinalityType
  <2> QED
    BY <2>1, <2>2, <2>5, LogAssumption
<1> QED
  BY <1>1, <1>2, PairsBound, LogAssumption DEF Used

\* While a call is under way there is room for another block, in the header and in
\* the log area, and nobody commits.
LEMMA RoomInside ==
    ASSUME LInv, Ready, NEW p \in Procs, pc[p] = "inop"
    PROVE  /\ Booted /\ ~committing /\ outstanding >= 1
           /\ Len(lh) < LogSize /\ Len(lh) < LogBlocks - 1
           /\ \A q \in Procs : pc[q] \notin CommitLabels
<1>1. Booted
  BY DEF LInv, CallInv
<1>2. outstanding \in Nat /\ outstanding # 0
  <2>1. p \in Inop
    BY DEF Inop
  <2>2. IsFiniteSet(Inop) /\ outstanding = Cardinality(Inop) /\ outstanding \in Nat
    BY UsedBound DEF LInv, CallInv
  <2> QED
    BY <2>1, <2>2, FS_EmptySet
<1>3. ~committing /\ \A q \in Procs : pc[q] \notin CommitLabels
  BY <1>2 DEF LInv, CallInv
<1>4. Len(lh) + outstanding * MaxOpBlocks <= LogSize + outstanding * OpBlocks
  <2>1. /\ Cardinality(Used) \in Nat /\ Cardinality(Used) <= outstanding * OpBlocks
        /\ Len(lh) + outstanding * MaxOpBlocks <= LogSize + Cardinality(Used)
    BY UsedBound DEF LInv, CallInv, SpaceInv
  <2>2. /\ outstanding * OpBlocks \in Nat /\ outstanding * MaxOpBlocks \in Nat
        /\ LogSize \in Nat /\ Len(lh) \in Nat
    BY <1>2, LogAssumption DEF LInv, TypeOK
  <2> QED
    BY <2>1, <2>2
<1>5. outstanding * (MaxOpBlocks - OpBlocks) >= MaxOpBlocks - OpBlocks
  BY <1>2, LogAssumption DEF Ready
<1>6. outstanding * (MaxOpBlocks - OpBlocks) = outstanding * MaxOpBlocks - outstanding * OpBlocks
  BY <1>2, LogAssumption
<1>7. Len(lh) <= LogSize - (MaxOpBlocks - OpBlocks)
  <2>1. Len(lh) \in Nat /\ outstanding * OpBlocks \in Nat /\ outstanding * MaxOpBlocks \in Nat
    BY <1>2, LogAssumption DEF LInv, TypeOK
  <2> QED
    BY <1>4, <1>5, <1>6, <2>1, LogAssumption
<1>8. Len(lh) \in Nat
  BY DEF LInv, TypeOK
<1> QED
  BY <1>1, <1>2, <1>3, <1>7, <1>8, LogAssumption DEF Ready

-----------------------------------------------------------------------------
(* What is on the disk and in the cache *)

\* Recovered and Mem as functions of the variables they read.
Replay(hm, ld, hd) ==
    [b \in Blocks |-> IF \E i \in 1..Len(hd) : hd[i] = b
                        THEN ld[CHOOSE i \in 1..Len(hd) : hd[i] = b] ELSE hm[b]]
View(hm, ca) == [b \in Blocks |-> IF ca[b] = NotCached THEN hm[b] ELSE ca[b]]

\* A block that is in the log comes back as its place in the log says, any other as
\* it is at home.
LEMMA ReplayAt ==
    ASSUME NEW hm, NEW ld, NEW hd \in Seq(Blocks), Distinct(hd)
    PROVE  /\ \A i \in 1..Len(hd) : Replay(hm, ld, hd)[hd[i]] = ld[i]
           /\ \A b \in Blocks : (\A i \in 1..Len(hd) : hd[i] # b) => Replay(hm, ld, hd)[b] = hm[b]
<1>1. ASSUME NEW i \in 1..Len(hd)
      PROVE  Replay(hm, ld, hd)[hd[i]] = ld[i]
  <2> DEFINE j == CHOOSE k \in 1..Len(hd) : hd[k] = hd[i]
  <2>1. hd[i] \in Blocks
    BY ElementOfSeq
  <2>2. j \in 1..Len(hd) /\ hd[j] = hd[i]
    OBVIOUS
  <2>3. j = i
    BY <2>2 DEF Distinct
  <2>4. Replay(hm, ld, hd)[hd[i]] = ld[j]
    BY <2>1 DEF Replay
  <2> QED
    BY <2>3, <2>4
<1>2. ASSUME NEW b \in Blocks, \A i \in 1..Len(hd) : hd[i] # b
      PROVE  Replay(hm, ld, hd)[b] = hm[b]
  BY <1>2 DEF Replay
<1> QED
  BY <1>1, <1>2

\* The blocks the file system sees: those that will be recovered until it has started.
Seen == IF Booted THEN Mem ELSE Recovered

-----------------------------------------------------------------------------
(* The invariant *)

LEMMA InitInv ==
    ASSUME Init
    PROVE  LInv /\ Disk!Init
<1> USE LogAssumption DEF Init
<1>0. lh = <<>> /\ head = <<>> /\ <<>> \in Seq(Blocks) /\ Len(<<>>) = 0
  BY EmptySeq
<1>1. pc \in [Actors -> Labels] /\ pc[Boot] = "read_head" /\ \A p \in Procs : pc[p] = "idle" /\ p \in Actors
  BY DEF Actors, Labels
<1>2. TypeOK
  <2>1. Len(lh) <= LogSize /\ Len(lh) <= LogBlocks - 1 /\ Len(head) <= LogSize /\ Len(head) <= LogBlocks - 1
    BY <1>0
  <2>2. tail \in [Actors -> 0..LogSize] /\ logdata \in [1..LogSize -> Vals]
    OBVIOUS
  <2>3. lh \in Seq(Blocks) /\ head \in Seq(Blocks)
    BY <1>0
  <2>4. /\ home \in [Blocks -> Vals] /\ cache \in [Blocks -> Vals \cup {NotCached}]
        /\ wrote \in [Procs -> SUBSET Blocks] /\ pend \in [Procs -> SUBSET Blocks]
    OBVIOUS
  <2>5. outstanding \in Nat /\ committing \in BOOLEAN /\ panicked \in BOOLEAN /\ dirty \subseteq Blocks
    OBVIOUS
  <2> QED
    BY <1>1, <2>1, <2>2, <2>3, <2>4, <2>5 DEF TypeOK
<1>3. Inop = {} /\ Used = {} /\ Cardinality(Inop) = 0 /\ Cardinality(Used) = 0
  BY <1>1, FS_EmptySet DEF Inop, Used, Pairs
<1>4. CallInv
  BY <1>1, <1>3 DEF CallInv, ProcLabels, BootLabels, CommitLabels
<1>5. ShareInv
  BY <1>1 DEF ShareInv
<1>6. SpaceInv
  BY <1>0, <1>3 DEF SpaceInv
<1>7. CacheInv
  BY DEF CacheInv, Locked
<1>8. PhaseInv
  <2>1. ~Booted /\ \A a \in Actors : pc[a] \in {"read_head", "idle"}
    BY <1>1 DEF Booted
  <2>2. Distinct(lh) /\ Distinct(head)
    BY <1>0 DEF Distinct
  <2> QED
    BY <1>1, <2>1, <2>2 DEF PhaseInv
<1>9. Disk!Init
  <2>1. Recovered = [b \in Blocks |-> Zero]
    BY <1>0 DEF Recovered, Logged
  <2> QED
    BY <1>1, <2>1 DEF Disk!Init, Booted
<1> QED
  BY <1>2, <1>4, <1>5, <1>6, <1>7, <1>8, <1>9 DEF LInv

\* begin_op finds no room and sleeps.
LEMMA BeginOpSleepInv ==
    ASSUME LInv, NEW p \in Procs, BeginOpSleep(p)
    PROVE  LInv' /\ UNCHANGED <<Seen, Recovered, outstanding>>
<1> USE LogAssumption DEF LInv
<1>0. /\ UNCHANGED <<home, logdata, head, lh, outstanding, committing, cache, dirty, tail, wrote, pend, panicked>>
      /\ pc' = [pc EXCEPT ![p] = "asleep"] /\ pc[p] \in {"idle", "begin"} /\ Booted
  BY DEF BeginOpSleep, disk, logv, bufs, work, Goto, Calling, At, CallInv
<1>1. p \in Actors /\ pc'[p] = "asleep" /\ \A a \in Actors : a # p => pc'[a] = pc[a]
  BY <1>0 DEF TypeOK, Actors
<1>2. TypeOK'
  BY <1>0 DEF TypeOK, Labels
<1>3. Inop' = Inop /\ Used' = Used /\ Booted' = Booted
  BY <1>0, <1>1 DEF Inop, Used, Pairs, Booted, Actors
<1>4. CallInv'
  BY <1>0, <1>1, <1>3 DEF CallInv, ProcLabels, CommitLabels, Actors, Booted
<1>5. ShareInv'
  BY <1>0, <1>1, ZenonT(40) DEF ShareInv, InLog, Actors
<1>6. SpaceInv'
  BY <1>0, <1>3 DEF SpaceInv
<1>7. CacheInv'
  BY <1>0 DEF CacheInv, Locked
<1>8. PhaseInv'
  BY <1>0, <1>1, <1>3 DEF PhaseInv, Distinct, InLog, Copied, Installed, Mem, Actors
<1>9. UNCHANGED <<Seen, Recovered, outstanding>>
  BY <1>0, <1>3 DEF Seen, Mem, Recovered, Logged
<1> QED
  BY <1>2, <1>4, <1>5, <1>6, <1>7, <1>8, <1>9

\* begin_op reserves space for a call that has logged nothing yet.
LEMMA BeginOpInv ==
    ASSUME LInv, NEW p \in Procs, BeginOp(p)
    PROVE  LInv' /\ Disk!BeginOp
<1> USE LogAssumption DEF LInv
<1>0. /\ UNCHANGED <<home, logdata, head, lh, committing, cache, dirty, tail, pend, panicked>>
      /\ pc' = [pc EXCEPT ![p] = "inop"] /\ pc[p] \in {"idle", "begin"} /\ Booted
      /\ outstanding' = outstanding + 1 /\ wrote' = [wrote EXCEPT ![p] = {}]
      /\ ~committing /\ ~(Len(lh) + (outstanding + 1) * MaxOpBlocks > LogSize)
  BY DEF BeginOp, disk, logv, bufs, work, Goto, Calling, At, CallInv, MustWait
<1>1. p \in Actors /\ pc'[p] = "inop" /\ \A a \in Actors : a # p => pc'[a] = pc[a]
  BY <1>0 DEF TypeOK, Actors
<1>2. wrote'[p] = {} /\ \A q \in Procs : q # p => wrote'[q] = wrote[q]
  BY <1>0 DEF TypeOK
<1>3. TypeOK'
  <2>1. outstanding' \in Nat
    BY <1>0 DEF TypeOK
  <2>2. pc' \in [Actors -> Labels]
    BY <1>0 DEF TypeOK, Labels
  <2>3. wrote' \in [Procs -> SUBSET Blocks]
    BY <1>0 DEF TypeOK
  <2> QED
    BY <1>0, <2>1, <2>2, <2>3 DEF TypeOK
<1>4. Inop' = Inop \cup {p} /\ p \notin Inop /\ Booted' = Booted
  BY <1>0, <1>1 DEF Inop, Booted, Actors
<1>5. Used' = Used
  <2>1. ASSUME NEW x \in Procs \X Blocks
        PROVE  x[1] \in Inop' /\ x[2] \in wrote'[x[1]] <=> x[1] \in Inop /\ x[2] \in wrote[x[1]]
    BY <1>2, <1>4
  <2>2. Inop \subseteq Procs /\ Inop' \subseteq Procs
    BY DEF Inop
  <2> QED
    BY <2>1, <2>2 DEF Used, Pairs
<1>6. CallInv'
  <2>1. outstanding' = Cardinality(Inop')
    BY <1>0, <1>4, UsedBound, FS_AddElement DEF CallInv
  <2> QED
    BY <1>0, <1>1, <1>4, <2>1 DEF CallInv, ProcLabels, CommitLabels, Actors, Booted
<1>7. ShareInv'
  <2>1. pend[p] = {}
    BY <1>0 DEF ShareInv
  <2>2. Cardinality(wrote'[p] \cup pend'[p]) = 0
    <3>1. wrote'[p] \cup pend'[p] = {}
      BY <1>0, <1>2, <2>1
    <3> QED
      BY <3>1, FS_EmptySet
  <2>3. InLog' = InLog
    BY <1>0 DEF InLog
  <2>4. ASSUME NEW q \in Procs, q # p
        PROVE  pc'[q] = pc[q] /\ pend'[q] = pend[q] /\ wrote'[q] = wrote[q]
    BY <1>0, <1>1, <1>2, <2>4 DEF Actors
  <2> QED
    <3>1. ASSUME NEW q \in Procs, q # p
          PROVE  /\ pend'[q] # {} => pc'[q] = "inop" /\ \E b \in Blocks : pend'[q] = {b}
                 /\ pc'[q] = "inop" => /\ Cardinality(wrote'[q] \cup pend'[q]) <= OpBlocks
                                      /\ wrote'[q] \subseteq InLog'
      BY <2>3, <2>4, <3>1 DEF ShareInv
    <3>2. pend'[p] = {} /\ Cardinality(wrote'[p] \cup pend'[p]) <= OpBlocks /\ wrote'[p] \subseteq InLog'
      BY <1>0, <1>2, <2>1, <2>2
    <3> QED
      BY <3>1, <3>2 DEF ShareInv
<1>8. SpaceInv'
  <2>1. Cardinality(Used) \in Nat
    BY UsedBound
  <2>2. Len(lh) \in Nat /\ (outstanding + 1) * MaxOpBlocks \in Nat
    BY DEF TypeOK
  <2> QED
    BY <1>0, <1>5, <2>1, <2>2 DEF SpaceInv
<1>9. CacheInv'
  BY <1>0 DEF CacheInv, Locked
<1>10. PhaseInv'
  <2>1. outstanding' # 0
    BY <1>0 DEF TypeOK
  <2> QED
    BY <1>0, <1>1, <1>4, <2>1 DEF PhaseInv, Distinct, InLog, Copied, Installed, Mem, Actors
<1>11. Disk!BeginOp
  BY <1>0, <1>4 DEF Disk!BeginOp, Mem, Recovered, Logged
<1> QED
  BY <1>3, <1>6, <1>7, <1>8, <1>9, <1>10, <1>11

\* Recovery reads the header it will replay; nothing else runs yet.
LEMMA ReadHeadInv ==
    ASSUME LInv, ReadHead
    PROVE  LInv' /\ UNCHANGED <<Seen, Recovered, outstanding>>
<1> USE LogAssumption DEF LInv
<1> DEFINE next == IF head = <<>> THEN "clear" ELSE "install"
<1>0. /\ UNCHANGED <<home, logdata, head, outstanding, committing, cache, dirty, wrote, pend, panicked>>
      /\ pc' = [pc EXCEPT ![Boot] = next] /\ pc[Boot] = "read_head" /\ ~Booted
      /\ tail' = [tail EXCEPT ![Boot] = 0] /\ lh' = head
  BY DEF ReadHead, disk, logv, bufs, work, Goto, At, Booted
<1>1. /\ Boot \in Actors /\ pc'[Boot] = next /\ tail'[Boot] = 0
      /\ \A p \in Procs : p # Boot /\ p \in Actors /\ pc'[p] = pc[p] /\ pc[p] = "idle"
  BY <1>0 DEF TypeOK, Actors, CallInv
<1>2. next \in {"clear", "install"} /\ ~Booted'
  BY <1>1 DEF Booted
<1>3. TypeOK'
  <2>1. lh' \in Seq(Blocks) /\ Len(lh') <= LogSize /\ Len(lh') <= LogBlocks - 1
    BY <1>0 DEF TypeOK
  <2>2. pc' \in [Actors -> Labels]
    BY <1>0, <1>2 DEF TypeOK, Labels
  <2>3. tail' \in [Actors -> 0..LogSize]
    <3>1. tail \in [Actors -> 0..LogSize] /\ 0 \in 0..LogSize
      BY DEF TypeOK
    <3> QED
      BY <1>0, <3>1
  <2> QED
    BY <1>0, <2>1, <2>2, <2>3 DEF TypeOK
<1>4. Inop = {} /\ Inop' = {} /\ Used' = Used
  BY <1>0, <1>1 DEF Inop, Used, Pairs
<1>5. CallInv'
  BY <1>0, <1>1, <1>2, <1>4 DEF CallInv, ProcLabels, CommitLabels, BootLabels
<1>6. ShareInv'
  BY <1>0, <1>1 DEF ShareInv
<1>7. SpaceInv'
  <2>1. outstanding = 0 /\ Cardinality(Used') \in Nat
    BY <1>4, UsedBound, FS_EmptySet DEF CallInv
  <2>2. Len(lh') \in Nat /\ Len(lh') <= LogSize
    BY <1>3 DEF TypeOK
  <2>3. 0 * MaxOpBlocks = 0
    OBVIOUS
  <2> QED
    BY <1>0, <2>1, <2>2, <2>3 DEF SpaceInv
<1>8. CacheInv'
  BY <1>0 DEF CacheInv, Locked
<1>9. PhaseInv'
  <2>1. Distinct(lh)' /\ Distinct(head)'
    BY <1>0 DEF PhaseInv, Distinct
  <2>2. dirty' = {}
    BY <1>0 DEF PhaseInv
  <2>3. pc'[Boot] = "install" => tail'[Boot] < Len(lh')
    <3>1. Len(head) \in Nat /\ (head # <<>> => Len(head) # 0)
      BY EmptySeq DEF TypeOK
    <3> QED
      BY <1>0, <1>1, <3>1
  <2>4. pc'[Boot] = "clear" => Len(lh') = 0
    BY <1>0, <1>1
  <2>5. \A a \in Actors : pc'[a] \in {"install", "clear"} => a = Boot
    BY <1>1 DEF Actors
  <2>6. ASSUME NEW a \in Actors
        PROVE  /\ pc'[a] = "install" => head' = lh' /\ tail'[a] < Len(lh') /\ Installed(tail[a])'
               /\ pc'[a] = "clear"   => head' = lh' /\ Installed(Len(lh))'
    BY <1>0, <1>1, <2>3, <2>4, <2>5 DEF Installed
  <2>7. \A p \in Procs : pc'[p] = "idle"
    BY <1>1
  <2> QED
    BY <1>2, <2>1, <2>2, <2>6, <2>7 DEF PhaseInv
<1>10. UNCHANGED <<Seen, Recovered, outstanding>>
  BY <1>0, <1>2 DEF Seen, Recovered, Logged
<1> QED
  BY <1>3, <1>5, <1>6, <1>7, <1>8, <1>9, <1>10

\* A call changes a block and enters log_write, which does not panic.
LEMMA LogCheckInv ==
    ASSUME LInv, Ready, NEW p \in Procs, NEW b \in Blocks, NEW v \in Vals, LogCheck(p, b, v)
    PROVE  LInv' /\ Disk!WriteBlock
<1> USE LogAssumption DEF LInv
<1>0. /\ UNCHANGED <<home, logdata, head, lh, outstanding, committing, dirty, pc, tail, wrote>>
      /\ pc[p] = "inop" /\ pend[p] = {} /\ b \notin Locked
      /\ Cardinality(wrote[p] \cup {b}) <= OpBlocks
      /\ cache' = [cache EXCEPT ![b] = v]
      /\ pend' = [pend EXCEPT ![p] = {b}]
      /\ panicked' = (LogFull \/ outstanding < 1)
  BY DEF LogCheck, disk, logv, bufs, work, At
<1>1. /\ Booted /\ ~committing /\ outstanding >= 1
      /\ Len(lh) < LogSize /\ Len(lh) < LogBlocks - 1
      /\ \A q \in Procs : pc[q] \notin CommitLabels
  BY <1>0, RoomInside
<1>2. panicked' = FALSE
  <2>1. Len(lh) \in Nat /\ outstanding \in Nat
    BY DEF TypeOK
  <2>2. ~LogFull /\ ~(outstanding < 1)
    BY <1>1, <2>1 DEF LogFull
  <2> QED
    BY <1>0, <2>2
<1>3. /\ pend'[p] = {b} /\ \A q \in Procs : q # p => pend'[q] = pend[q]
      /\ cache'[b] = v /\ \A c \in Blocks : c # b => cache'[c] = cache[c]
  BY <1>0 DEF TypeOK
<1>4. TypeOK'
  <2>1. pend' \in [Procs -> SUBSET Blocks]
    BY <1>0 DEF TypeOK
  <2>2. cache' \in [Blocks -> Vals \cup {NotCached}]
    BY <1>0 DEF TypeOK
  <2> QED
    BY <1>0, <1>2, <2>1, <2>2 DEF TypeOK
<1>5. Inop' = Inop /\ Used' = Used /\ Booted' = Booted /\ InLog' = InLog
  BY <1>0 DEF Inop, Used, Pairs, Booted, InLog
<1>6. CallInv'
  BY <1>0, <1>5 DEF CallInv
<1>7. ShareInv'
  <2>1. ASSUME NEW q \in Procs, q # p
        PROVE  /\ pend'[q] # {} => pc'[q] = "inop" /\ \E c \in Blocks : pend'[q] = {c}
               /\ pc'[q] = "inop" => /\ Cardinality(wrote'[q] \cup pend'[q]) <= OpBlocks
                                    /\ wrote'[q] \subseteq InLog'
    <3>1. pend'[q] = pend[q] /\ wrote'[q] = wrote[q] /\ pc'[q] = pc[q]
      BY <1>0, <1>3, <2>1
    <3> QED
      BY <1>5, <3>1 DEF ShareInv
  <2>2. pend'[p] = {b} /\ Cardinality(wrote'[p] \cup pend'[p]) <= OpBlocks /\ wrote'[p] \subseteq InLog'
    <3>1. wrote[p] \subseteq InLog
      BY <1>0 DEF ShareInv
    <3> QED
      BY <1>0, <1>3, <1>5, <3>1
  <2> QED
    BY <1>0, <2>1, <2>2 DEF ShareInv
<1>8. SpaceInv'
  BY <1>0, <1>2, <1>5 DEF SpaceInv
<1>9. Locked' = Locked \cup {b}
  <2>1. ASSUME NEW c
        PROVE  (\E q \in Procs : c \in pend'[q]) <=> (c = b \/ \E q \in Procs : c \in pend[q])
    BY <1>0, <1>3
  <2> QED
    BY <2>1 DEF Locked
<1>10. CacheInv'
  <2>1. v # NotCached
    OBVIOUS
  <2> QED
    BY <1>0, <1>3, <1>9, <2>1 DEF CacheInv
<1>11. PhaseInv'
  <2>1. head = <<>> /\ dirty = InLog
    BY <1>1 DEF PhaseInv, CommitLabels
  <2>2. Distinct(lh)' /\ Distinct(head)'
    BY <1>0 DEF PhaseInv, Distinct
  <2>3. Booted' /\ outstanding' # 0
    BY <1>0, <1>1, <1>5 DEF TypeOK
  <2>4. \A a \in Actors : pc'[a] \notin CommitLabels
    BY <1>0, <1>1 DEF Actors, CommitLabels, Booted
  <2> QED
    BY <1>0, <1>5, <2>1, <2>2, <2>3, <2>4 DEF PhaseInv, CommitLabels, Actors
<1>12. Disk!WriteBlock
  <2>1. Mem' = [Mem EXCEPT ![b] = v]
    <3>1. v # NotCached
      OBVIOUS
    <3>2. Mem \in [Blocks -> Vals] /\ Mem' \in [Blocks -> Vals]
      BY <1>0, <1>4 DEF TypeOK, Mem
    <3>3. ASSUME NEW c \in Blocks
          PROVE  Mem'[c] = IF c = b THEN v ELSE Mem[c]
      BY <1>0, <1>3, <3>1 DEF Mem
    <3> QED
      BY <3>2, <3>3
  <2>2. Recovered' = Recovered
    BY <1>0 DEF Recovered, Logged
  <2>3. outstanding > 0
    BY <1>1 DEF TypeOK
  <2> QED
    BY <1>0, <1>1, <1>5, <2>1, <2>2, <2>3 DEF Disk!WriteBlock
<1> QED
  BY <1>4, <1>6, <1>7, <1>8, <1>10, <1>11, <1>12

\* The rest of log_write: the block is in the log and pinned; absorption keeps one
\* place per block, so the log grows only with what the call uses of its share.
LEMMA LogWriteInv ==
    ASSUME LInv, Ready, NEW p \in Procs, LogWrite(p)
    PROVE  LInv' /\ UNCHANGED <<Seen, Recovered, outstanding>>
<1> USE LogAssumption DEF LInv
<1>a. PICK b \in pend[p] :
        /\ UNCHANGED <<home, logdata, head, outstanding, committing, cache, pc, tail, panicked>>
        /\ pc[p] = "inop" /\ lh' = Absorb(b) /\ dirty' = dirty \cup {b}
        /\ wrote' = [wrote EXCEPT ![p] = wrote[p] \cup {b}]
        /\ pend' = [pend EXCEPT ![p] = {}]
  BY DEF LogWrite, disk, logv, bufs, work, At
<1>b. b \in Blocks /\ pend[p] = {b}
  BY <1>a DEF TypeOK, ShareInv
<1>0. /\ UNCHANGED <<home, logdata, head, outstanding, committing, cache, pc, tail, panicked>>
      /\ pc[p] = "inop" /\ dirty' = dirty \cup {b}
      /\ wrote' = [wrote EXCEPT ![p] = wrote[p] \cup {b}]
      /\ pend' = [pend EXCEPT ![p] = {}]
  BY <1>a
<1>1. /\ Booted /\ ~committing /\ outstanding >= 1
      /\ Len(lh) < LogSize /\ Len(lh) < LogBlocks - 1
      /\ \A q \in Procs : pc[q] \notin CommitLabels
  BY <1>0, RoomInside
<1>2. /\ pend'[p] = {} /\ \A q \in Procs : q # p => pend'[q] = pend[q]
      /\ wrote'[p] = wrote[p] \cup {b} /\ \A q \in Procs : q # p => wrote'[q] = wrote[q]
  BY <1>0 DEF TypeOK
<1>3. /\ lh' \in Seq(Blocks) /\ Distinct(lh') /\ InLog' = InLog \cup {b}
      /\ \/ b \in InLog /\ Len(lh') = Len(lh)
         \/ b \notin InLog /\ Len(lh') = Len(lh) + 1
  <2>0. lh \in Seq(Blocks) /\ Distinct(lh) /\ Len(lh) \in Nat
    BY DEF TypeOK, PhaseInv
  <2>1. CASE b \in InLog
    <3>1. lh' = lh
      BY <1>a, <2>1 DEF Absorb, InLog
    <3> QED
      BY <2>0, <2>1, <3>1 DEF InLog, Distinct
  <2>2. CASE b \notin InLog
    <3>1. lh' = Append(lh, b)
      BY <1>a, <2>2 DEF Absorb, InLog
    <3>2. /\ lh' \in Seq(Blocks) /\ Len(lh') = Len(lh) + 1
          /\ \A i \in 1..Len(lh) : lh'[i] = lh[i]
          /\ lh'[Len(lh) + 1] = b
      BY <1>b, <2>0, <3>1, AppendProperties
    <3>3. \A i \in 1..Len(lh') : i \in 1..Len(lh) \/ i = Len(lh) + 1
      BY <2>0, <3>2
    <3>4. \A i \in 1..Len(lh) : lh[i] # b
      BY <2>2 DEF InLog
    <3>5. Distinct(lh')
      BY <2>0, <3>2, <3>3, <3>4 DEF Distinct
    <3>6. InLog' = InLog \cup {b}
      <4>1. \A i \in 1..Len(lh) : i \in 1..Len(lh')
        BY <2>0, <3>2
      <4>2. Len(lh) + 1 \in 1..Len(lh')
        BY <2>0, <3>2
      <4> QED
        BY <3>2, <3>3, <4>1, <4>2 DEF InLog
    <3> QED
      BY <2>2, <3>2, <3>5, <3>6
  <2> QED
    BY <2>1, <2>2
<1>4. TypeOK'
  <2>1. pend' \in [Procs -> SUBSET Blocks]
    BY <1>0 DEF TypeOK
  <2>2. wrote' \in [Procs -> SUBSET Blocks]
    BY <1>0, <1>b DEF TypeOK
  <2>3. Len(lh') <= LogSize /\ Len(lh') <= LogBlocks - 1
    <3>1. Len(lh) \in Nat
      BY DEF TypeOK
    <3> QED
      BY <1>1, <1>3, <3>1
  <2>4. dirty' \subseteq Blocks
    BY <1>0, <1>b DEF TypeOK
  <2> QED
    BY <1>0, <1>3, <2>1, <2>2, <2>3, <2>4 DEF TypeOK
<1>5. Inop' = Inop /\ Booted' = Booted
  BY <1>0 DEF Inop, Booted
<1>6. CallInv'
  BY <1>0, <1>5 DEF CallInv
<1>7. ShareInv'
  <2>1. ASSUME NEW q \in Procs, q # p
        PROVE  /\ pend'[q] # {} => pc'[q] = "inop" /\ \E c \in Blocks : pend'[q] = {c}
               /\ pc'[q] = "inop" => /\ Cardinality(wrote'[q] \cup pend'[q]) <= OpBlocks
                                    /\ wrote'[q] \subseteq InLog'
    <3>1. pend'[q] = pend[q] /\ wrote'[q] = wrote[q] /\ pc'[q] = pc[q]
      BY <1>0, <1>2, <2>1
    <3> QED
      BY <1>3, <3>1 DEF ShareInv
  <2>2. pend'[p] = {} /\ Cardinality(wrote'[p] \cup pend'[p]) <= OpBlocks /\ wrote'[p] \subseteq InLog'
    <3>1. wrote[p] \subseteq InLog /\ Cardinality(wrote[p] \cup pend[p]) <= OpBlocks
      BY <1>0 DEF ShareInv
    <3>2. wrote'[p] \cup pend'[p] = wrote[p] \cup pend[p]
      BY <1>b, <1>2
    <3> QED
      BY <1>2, <1>3, <3>1, <3>2
  <2> QED
    BY <1>0, <2>1, <2>2 DEF ShareInv
<1>8. SpaceInv'
  <2>1. Used' = Used \cup {<<p, b>>}
    <3>1. p \in Inop
      BY <1>0 DEF Inop
    <3>2. ASSUME NEW x
          PROVE  x \in Used' <=> x \in Used \cup {<<p, b>>}
      BY <1>b, <1>2, <1>5, <3>1 DEF Used, Pairs, Inop
    <3> QED
      BY <3>2
  <2>2. IsFiniteSet(Used) /\ Cardinality(Used) \in Nat
    BY UsedBound
  <2>3. <<p, b>> \in Used <=> b \in wrote[p]
    BY <1>0, <1>b DEF Used, Pairs, Inop
  <2>4. Cardinality(Used') = Cardinality(Used) + IF <<p, b>> \in Used THEN 0 ELSE 1
    <3> HIDE DEF Used
    <3>1. CASE <<p, b>> \in Used
      <4>1. Used' = Used
        BY <2>1, <3>1
      <4> QED
        BY <2>2, <3>1, <4>1
    <3>2. CASE <<p, b>> \notin Used
      BY <2>1, <2>2, <3>2, FS_AddElement
    <3> QED
      BY <3>1, <3>2
  <2>5. b \in wrote[p] => b \in InLog
    BY <1>0 DEF ShareInv
  <2>6. Len(lh) \in Nat /\ outstanding * MaxOpBlocks \in Nat
    BY DEF TypeOK
  <2>7. Len(lh) + outstanding * MaxOpBlocks <= LogSize + Cardinality(Used) /\ panicked = FALSE
    BY DEF SpaceInv
  <2>8. Len(lh') + outstanding * MaxOpBlocks <= LogSize + Cardinality(Used')
    BY <1>3, <2>2, <2>3, <2>4, <2>5, <2>6, <2>7
  <2> QED
    BY <1>0, <2>7, <2>8 DEF SpaceInv
<1>9. dirty' \cup Locked' = dirty \cup Locked
  <2>1. ASSUME NEW c
        PROVE  (c = b \/ \E q \in Procs : c \in pend'[q]) <=> (\E q \in Procs : c \in pend[q])
    BY <1>b, <1>2
  <2>2. Locked' \cup {b} = Locked
    BY <2>1 DEF Locked
  <2> QED
    BY <1>0, <2>2
<1>10. CacheInv'
  BY <1>0, <1>9 DEF CacheInv
<1>11. PhaseInv'
  <2>1. head = <<>> /\ dirty = InLog /\ Distinct(head)
    BY <1>1 DEF PhaseInv, CommitLabels
  <2>2. Distinct(lh)' /\ Distinct(head)'
    BY <1>0, <1>3, <2>1 DEF Distinct
  <2>3. Booted' /\ outstanding' # 0
    BY <1>0, <1>1, <1>5 DEF TypeOK
  <2>4. \A a \in Actors : pc'[a] \notin CommitLabels
    BY <1>0, <1>1 DEF Actors, CommitLabels, Booted
  <2>5. head' = <<>> /\ dirty' = InLog'
    BY <1>0, <1>3, <2>1
  <2> QED
    BY <2>2, <2>3, <2>4, <2>5 DEF PhaseInv, CommitLabels, Actors
<1>12. UNCHANGED <<Seen, Recovered, outstanding>>
  BY <1>0, <1>5 DEF Seen, Mem, Recovered, Logged
<1> QED
  BY <1>4, <1>6, <1>7, <1>8, <1>10, <1>11, <1>12

\* A call ends with its reservation released; the last one out commits.
LEMMA EndOpInv ==
    ASSUME LInv, Ready, NEW p \in Procs, EndOp(p)
    PROVE  LInv' /\ Disk!EndOp
<1> USE LogAssumption DEF LInv
<1>a. pc[p] = "inop" /\ pend[p] = {}
  BY DEF EndOp, At
<1>1. /\ Booted /\ ~committing /\ outstanding >= 1
      /\ \A q \in Procs : pc[q] \notin CommitLabels
  BY <1>a, RoomInside
<1>0. /\ UNCHANGED <<home, logdata, head, lh, cache, dirty, wrote, pend, panicked>>
      /\ outstanding' = outstanding - 1
  BY <1>1 DEF EndOp, disk, logv, bufs, work
<1>b. \/ /\ outstanding = 1 /\ committing' = TRUE
         /\ pc' = [pc EXCEPT ![p] = IF lh = <<>> THEN "committed" ELSE "write_log"]
         /\ tail' = [tail EXCEPT ![p] = 0]
      \/ /\ outstanding # 1 /\ UNCHANGED <<committing, tail>>
         /\ pc' = [x \in Actors |-> IF x = p THEN "idle"
                                    ELSE IF pc[x] = "asleep" THEN "begin" ELSE pc[x]]
  BY <1>1 DEF EndOp, Goto, WakeAnd
<1>2. /\ p \in Actors /\ Boot \in Actors /\ p # Boot /\ pc[Boot] = "booted"
      /\ \A q \in Procs : q \in Actors /\ pc[q] \in Labels
      /\ outstanding \in Nat \ {0}
  BY <1>1 DEF Actors, Booted, TypeOK
<1>3. pc' \in [Actors -> Labels] /\ tail' \in [Actors -> 0..LogSize]
  <2>1. tail \in [Actors -> 0..LogSize] /\ 0 \in 0..LogSize /\ pc \in [Actors -> Labels]
    BY DEF TypeOK
  <2>2. CASE outstanding = 1
    BY <1>b, <2>1, <2>2 DEF Labels
  <2>3. CASE outstanding # 1
    BY <1>b, <2>1, <2>3 DEF Labels
  <2> QED
    BY <2>2, <2>3
<1>4. /\ pc'[Boot] = "booted"
      /\ pc'[p] \in (IF outstanding = 1 THEN {"committed", "write_log"} ELSE {"idle"})
      /\ \A q \in Procs : q # p => pc'[q] = pc[q] \/ (pc[q] = "asleep" /\ pc'[q] = "begin")
  <2>1. pc \in [Actors -> Labels]
    BY DEF TypeOK
  <2>2. CASE outstanding = 1
    BY <1>b, <1>2, <2>1, <2>2
  <2>3. CASE outstanding # 1
    BY <1>b, <1>2, <2>1, <2>3
  <2> QED
    BY <2>2, <2>3
<1>5. TypeOK'
  <2>1. outstanding' \in Nat /\ committing' \in BOOLEAN
    <3>1. committing \in BOOLEAN
      BY DEF TypeOK
    <3>2. committing' \in BOOLEAN
      BY <1>b, <3>1
    <3> QED
      BY <1>0, <1>2, <3>2
  <2> QED
    BY <1>0, <1>3, <2>1 DEF TypeOK
<1>6. Inop' = Inop \ {p} /\ p \in Inop /\ Booted' /\ InLog' = InLog
  BY <1>0, <1>a, <1>4 DEF Inop, Booted, InLog
<1>7. outstanding' = Cardinality(Inop')
  BY <1>0, <1>6, UsedBound, FS_RemoveElement DEF CallInv
<1>8. CallInv'
  <2>1. CASE outstanding = 1
    <3>1. outstanding' = 0 /\ committing'
      BY <1>0, <1>b, <2>1
    <3>2. pc'[p] \in CommitLabels /\ \A q \in Procs : q # p => pc'[q] \notin CommitLabels
      BY <1>1, <1>4, <2>1 DEF CommitLabels
    <3>3. \A q \in Procs : pc'[q] \in ProcLabels
      BY <1>4, <2>1 DEF CallInv, ProcLabels, CommitLabels
    <3> QED
      BY <1>4, <1>6, <1>7, <3>1, <3>2, <3>3 DEF CallInv, BootLabels
  <2>2. CASE outstanding # 1
    <3>1. ~committing'
      BY <1>1, <1>b, <2>2
    <3>2. \A q \in Procs : pc'[q] \notin CommitLabels
      BY <1>1, <1>4, <2>2 DEF CommitLabels
    <3>3. \A q \in Procs : pc'[q] \in ProcLabels
      BY <1>4, <2>2 DEF CallInv, ProcLabels, CommitLabels
    <3> QED
      BY <1>4, <1>6, <1>7, <3>1, <3>2, <3>3 DEF CallInv, BootLabels
  <2> QED
    BY <2>1, <2>2
<1>9. ShareInv'
  <2>1. pc'[p] # "inop"
    BY <1>4
  <2>2. ASSUME NEW q \in Procs
        PROVE  /\ pend'[q] = pend[q] /\ wrote'[q] = wrote[q]
               /\ pc'[q] = "inop" => pc[q] = "inop"
               /\ pend[q] # {} => pc'[q] = pc[q]
    BY <1>0, <1>a, <1>4 DEF ShareInv
  <2> QED
    BY <1>6, <2>2 DEF ShareInv
<1>10. SpaceInv'
  <2> DEFINE own == Pairs({p}, wrote)
  <2>1. IsFiniteSet(own) /\ Cardinality(own) \in Nat /\ Cardinality(own) <= OpBlocks
    <3>1. IsFiniteSet({p}) /\ Cardinality({p}) = 1
      BY FS_Singleton
    <3>2. wrote[p] \subseteq Blocks /\ Cardinality(wrote[p]) <= OpBlocks
      <4>1. wrote[p] \cup pend[p] = wrote[p]
        BY <1>a
      <4> QED
        BY <1>a, <4>1 DEF ShareInv, TypeOK
    <3>3. Cardinality(own) <= Cardinality({p}) * OpBlocks /\ IsFiniteSet(own) /\ Cardinality(own) \in Nat
      BY <3>1, <3>2, PairsBound
    <3> QED
      BY <3>1, <3>3
  <2>2. Used = Used' \cup own
    <3>1. ASSUME NEW x
          PROVE  x \in Used <=> x \in Used' \/ x \in own
      BY <1>0, <1>6 DEF Used, Pairs
    <3> QED
      BY <3>1
  <2>3. IsFiniteSet(Used) /\ Cardinality(Used) \in Nat
    BY UsedBound
  <2>4. Used' \subseteq Used
    BY <2>2
  <2> HIDE DEF own
  <2>5. IsFiniteSet(Used') /\ Cardinality(Used') \in Nat
    BY <2>3, <2>4, FS_Subset, FS_CardinalityType
  <2>6. Cardinality(Used) <= Cardinality(Used') + Cardinality(own)
    <3> DEFINE A == Used'
               B == Used
    <3>1. IsFiniteSet(A) /\ IsFiniteSet(own) /\ B = A \cup own
      BY <2>1, <2>2, <2>5
    <3>2. Cardinality(A) \in Nat /\ Cardinality(own) \in Nat
      BY <2>1, <2>5
    <3> HIDE DEF A, B
    <3>3. IsFiniteSet(A \cap own) /\ Cardinality(A \cap own) \in Nat
      BY <3>1, FS_Intersection, FS_CardinalityType
    <3>4. Cardinality(B) = Cardinality(A) + Cardinality(own) - Cardinality(A \cap own)
      BY <3>1, FS_Union
    <3>5. Cardinality(B) <= Cardinality(A) + Cardinality(own)
      BY <3>2, <3>3, <3>4
    <3> QED
      BY <3>5 DEF A, B
  <2>7. outstanding' * MaxOpBlocks = outstanding * MaxOpBlocks - MaxOpBlocks
    BY <1>0, <1>2
  <2>8. Len(lh) \in Nat /\ outstanding * MaxOpBlocks \in Nat
    BY DEF TypeOK
  <2>9. Len(lh) + outstanding * MaxOpBlocks <= LogSize + Cardinality(Used) /\ panicked = FALSE
    BY DEF SpaceInv
  <2>10. Len(lh) + outstanding' * MaxOpBlocks <= LogSize + Cardinality(Used')
    BY <2>1, <2>3, <2>5, <2>6, <2>7, <2>8, <2>9 DEF Ready
  <2> QED
    BY <1>0, <2>9, <2>10 DEF SpaceInv
<1>11. CacheInv'
  BY <1>0 DEF CacheInv, Locked
<1>12. PhaseInv'
  <2>1. head = <<>> /\ dirty = InLog /\ Distinct(head) /\ Distinct(lh)
    BY <1>1 DEF PhaseInv, CommitLabels
  <2>2. Distinct(lh)' /\ Distinct(head)'
    BY <1>0, <2>1 DEF Distinct
  <2>3. head' = <<>> /\ dirty' = InLog'
    BY <1>0, <1>6, <2>1
  <2>4. \A a \in Actors : pc'[a] \notin {"write_head", "install", "clear"}
    BY <1>1, <1>4 DEF Actors, CommitLabels
  <2>5. ~(outstanding' = 0 /\ ~committing')
    BY <1>0, <1>b, <1>2
  <2>6. ASSUME NEW q \in Procs
        PROVE  /\ pc'[q] = "write_log" => tail'[q] < Len(lh') /\ Copied(tail[q])'
               /\ pc'[q] = "committed" => lh' = <<>>
    <3>1. CASE q # p \/ outstanding # 1
      BY <1>1, <1>4, <3>1 DEF CommitLabels
    <3>2. CASE q = p /\ outstanding = 1
      <4>1. tail'[q] = 0 /\ pc'[q] = IF lh = <<>> THEN "committed" ELSE "write_log"
        BY <1>b, <1>2, <3>2 DEF TypeOK
      <4>2. Len(lh) \in Nat /\ (lh # <<>> => Len(lh) # 0)
        BY EmptySeq DEF TypeOK
      <4>3. Copied(tail[q])'
        BY <4>1 DEF Copied
      <4> QED
        BY <1>0, <4>1, <4>2, <4>3
    <3> QED
      BY <3>1, <3>2
  <2>7. Booted'
    BY <1>6
  <2> QED
    BY <2>2, <2>3, <2>4, <2>5, <2>6, <2>7 DEF PhaseInv, Actors
<1>13. Disk!EndOp
  <2>1. Mem' = Mem /\ Recovered' = Recovered
    BY <1>0 DEF Mem, Recovered, Logged
  <2> QED
    BY <1>0, <1>1, <1>2, <1>6, <2>1 DEF Disk!EndOp
<1> QED
  BY <1>5, <1>8, <1>9, <1>10, <1>11, <1>12, <1>13

\* While a process commits no call is under way, and so no buffer is in use.
LEMMA Committing ==
    ASSUME LInv, NEW p \in Procs, pc[p] \in CommitLabels
    PROVE  /\ p \in Actors /\ p # Boot /\ Booted /\ committing /\ outstanding = 0
           /\ \A q \in Procs : pc[q] # "inop" /\ pend[q] = {} /\ (q # p => pc[q] \notin CommitLabels)
           /\ Inop = {} /\ Used = {} /\ Locked = {}
<1> USE LogAssumption DEF LInv
<1>1. committing /\ outstanding = 0 /\ \A q \in Procs : q # p => pc[q] \notin CommitLabels
  BY DEF CallInv
<1>2. Booted
  BY DEF CallInv, CommitLabels
<1>3. Inop = {}
  <2>1. IsFiniteSet(Inop) /\ Cardinality(Inop) = 0
    BY <1>1, UsedBound DEF CallInv
  <2> QED
    BY <2>1, FS_EmptySet
<1>4. \A q \in Procs : pc[q] # "inop" /\ pend[q] = {}
  BY <1>3 DEF Inop, ShareInv
<1>5. Used = {} /\ Locked = {}
  BY <1>3, <1>4 DEF Used, Pairs, Locked
<1> QED
  BY <1>1, <1>2, <1>3, <1>4, <1>5 DEF Actors

\* A step of the committing process that leaves the calls, the log in memory and the
\* other processes alone keeps the parts of the invariant that are about calls.
LEMMA CommitStep ==
    ASSUME LInv, NEW p \in Procs, pc[p] \in CommitLabels, NEW l \in CommitLabels,
           pc' = [pc EXCEPT ![p] = l],
           UNCHANGED <<outstanding, committing, wrote, pend, panicked>>
    PROVE  /\ CallInv' /\ ShareInv' /\ Booted' /\ Inop' = {} /\ Used' = {} /\ Locked' = {}
           /\ pc' \in [Actors -> Labels] /\ pc'[p] = l
           /\ \A a \in Actors : a # p => pc'[a] = pc[a] /\ pc'[a] \notin CommitLabels
<1> USE LogAssumption DEF LInv
<1>1. /\ p \in Actors /\ p # Boot /\ Booted /\ committing /\ outstanding = 0
      /\ \A q \in Procs : pc[q] # "inop" /\ pend[q] = {} /\ (q # p => pc[q] \notin CommitLabels)
      /\ Inop = {} /\ Used = {} /\ Locked = {}
  BY Committing
<1>2. /\ pc' \in [Actors -> Labels] /\ pc'[p] = l
      /\ \A a \in Actors : a # p => pc'[a] = pc[a]
  BY <1>1 DEF TypeOK, Labels, CommitLabels
<1>3. \A q \in Procs : q \in Actors
  BY DEF Actors
<1>4. pc'[Boot] = "booted" /\ pc[Boot] = "booted" /\ Booted'
  BY <1>1, <1>2 DEF Booted, Actors
<1>5. \A a \in Actors : a # p => pc'[a] \notin CommitLabels
  BY <1>1, <1>2, <1>4 DEF Actors, CommitLabels
<1>6. \A q \in Procs : pc'[q] # "inop"
  BY <1>1, <1>2, <1>3 DEF CommitLabels
<1>7. Inop' = {}
  BY <1>6 DEF Inop
<1>8. Used' = {} /\ Locked' = {}
  BY <1>1, <1>7 DEF Used, Pairs, Locked
<1>9. CallInv'
  <2>1. \A q \in Procs : pc'[q] \in ProcLabels
    BY <1>2, <1>3 DEF CallInv, ProcLabels
  <2>2. Cardinality(Inop') = 0
    BY <1>7, FS_EmptySet
  <2>3. committing' /\ outstanding' = 0
    BY <1>1
  <2> QED
    BY <1>2, <1>3, <1>4, <1>5, <2>1, <2>2, <2>3 DEF CallInv, BootLabels
<1>10. ShareInv'
  BY <1>1, <1>6 DEF ShareInv
<1> QED
  BY <1>2, <1>4, <1>5, <1>7, <1>8, <1>9, <1>10

\* write_log copies the next block from the cache to the log area, which the empty
\* header keeps out of sight.
LEMMA WriteLogInv ==
    ASSUME LInv, NEW p \in Procs, WriteLog(p)
    PROVE  LInv' /\ UNCHANGED <<Seen, Recovered, outstanding>>
<1> USE LogAssumption DEF LInv
<1> DEFINE t == tail[p] + 1
           next == IF t = Len(lh) THEN "write_head" ELSE "write_log"
<1>0. /\ UNCHANGED <<home, head, lh, outstanding, committing, cache, dirty, wrote, pend, panicked>>
      /\ pc[p] = "write_log" /\ pc' = [pc EXCEPT ![p] = next]
      /\ logdata' = [logdata EXCEPT ![t] = Mem[lh[t]]]
      /\ tail' = [tail EXCEPT ![p] = t]
  BY DEF WriteLog, disk, logv, bufs, work, Goto, At
<1>1. next \in {"write_head", "write_log"} /\ next \in CommitLabels /\ pc[p] \in CommitLabels
  BY <1>0 DEF CommitLabels
<1>2. /\ p \in Actors /\ Booted /\ outstanding = 0 /\ Used = {} /\ Locked = {} /\ committing
  BY <1>1, Committing
<1>3. /\ CallInv' /\ ShareInv' /\ Booted' /\ Used' = {} /\ Locked' = {}
      /\ pc' \in [Actors -> Labels] /\ pc'[p] = next
      /\ \A a \in Actors : a # p => pc'[a] = pc[a] /\ pc'[a] \notin CommitLabels
  <2> HIDE DEF next
  <2> QED
    BY <1>0, <1>1, CommitStep
<1>4. /\ tail[p] \in Nat /\ t \in 1..Len(lh) /\ t \in 1..LogSize /\ t \in 0..LogSize
      /\ lh[t] \in Blocks /\ Copied(tail[p]) /\ Len(lh) \in Nat
  <2>1. tail[p] \in 0..LogSize /\ Len(lh) \in Nat /\ Len(lh) <= LogSize /\ lh \in Seq(Blocks)
    BY <1>2 DEF TypeOK
  <2>2. tail[p] < Len(lh) /\ Copied(tail[p])
    BY <1>0 DEF PhaseInv
  <2>3. t \in 1..Len(lh)
    BY <2>1, <2>2
  <2> QED
    BY <2>1, <2>2, <2>3, ElementOfSeq
<1> HIDE DEF next
<1>5. TypeOK'
  <2>1. Mem[lh[t]] \in Vals
    BY <1>4 DEF Mem, TypeOK
  <2>2. logdata' \in [1..LogSize -> Vals]
    BY <1>0, <1>4, <2>1 DEF TypeOK
  <2>3. tail' \in [Actors -> 0..LogSize]
    BY <1>0, <1>4 DEF TypeOK
  <2> QED
    BY <1>0, <1>3, <2>2, <2>3 DEF TypeOK
<1>6. SpaceInv'
  BY <1>0, <1>2, <1>3 DEF SpaceInv
<1>7. CacheInv'
  BY <1>0, <1>2, <1>3 DEF CacheInv
<1>8. head = <<>> /\ dirty = InLog /\ Len(head) = 0
  BY <1>0, <1>1, <1>2, <1>3, Committing DEF PhaseInv, CommitLabels
<1>9. Mem' = Mem
  BY <1>0 DEF Mem
<1>10. tail'[p] = t /\ Copied(tail[p])'
  <2>1. ASSUME NEW i \in 1..t
        PROVE  logdata'[i] = Mem[lh[i]]
    <3>1. CASE i = t
      BY <1>0, <1>4, <3>1 DEF TypeOK
    <3>2. CASE i # t
      <4>1. i \in 1..tail[p] /\ i \in 1..LogSize
        BY <1>4, <3>2
      <4>2. logdata'[i] = logdata[i]
        BY <1>0, <1>4, <3>2, <4>1 DEF TypeOK
      <4> QED
        BY <1>4, <4>1, <4>2 DEF Copied
    <3> QED
      BY <3>1, <3>2
  <2>2. tail'[p] = t
    BY <1>0, <1>2 DEF TypeOK
  <2> HIDE DEF t
  <2> QED
    BY <1>0, <1>9, <2>1, <2>2 DEF Copied
<1>11. PhaseInv'
  <2>1. Distinct(lh)' /\ Distinct(head)'
    BY <1>0 DEF PhaseInv, Distinct
  <2>2. head' = <<>> /\ dirty' = InLog' /\ committing'
    BY <1>0, <1>2, <1>8 DEF InLog
  <2>3. pc'[p] = "write_log" => tail'[p] < Len(lh')
    BY <1>0, <1>3, <1>4, <1>10 DEF next
  <2>4. pc'[p] = "write_head" => 0 < Len(lh') /\ Copied(Len(lh))'
    <3>1. pc'[p] = "write_head" => tail'[p] = Len(lh')
      BY <1>0, <1>3, <1>10 DEF next
    <3>2. 0 < Len(lh')
      BY <1>0, <1>4
    <3> QED
      BY <1>10, <3>1, <3>2 DEF Copied
  <2>5. pc'[p] \in {"write_log", "write_head"}
    BY <1>1, <1>3
  <2>6. \A a \in Actors : a # p => pc'[a] \notin CommitLabels
    BY <1>3
  <2> QED
    BY <1>3, <1>10, <2>1, <2>2, <2>3, <2>4, <2>5, <2>6 DEF PhaseInv, Actors, CommitLabels
<1>12. Recovered' = Recovered
  BY <1>0, <1>8 DEF Recovered, Logged
<1> QED
  BY <1>0, <1>2, <1>3, <1>5, <1>6, <1>7, <1>9, <1>11, <1>12 DEF Seen

\* The commit point: once the header is written, replaying the log gives what the
\* calls see.
LEMMA WriteHeadInv ==
    ASSUME LInv, NEW p \in Procs, WriteHead(p)
    PROVE  LInv' /\ Disk!Commit
<1> USE LogAssumption DEF LInv
<1>0. /\ UNCHANGED <<home, logdata, lh, outstanding, committing, cache, dirty, wrote, pend, panicked>>
      /\ pc[p] = "write_head" /\ pc' = [pc EXCEPT ![p] = "install"]
      /\ head' = lh /\ tail' = [tail EXCEPT ![p] = 0]
  BY DEF WriteHead, disk, logv, bufs, work, Goto, At
<1>1. "install" \in CommitLabels /\ pc[p] \in CommitLabels
  BY <1>0 DEF CommitLabels
<1>2. /\ p \in Actors /\ p # Boot /\ Booted /\ outstanding = 0 /\ Used = {} /\ Locked = {} /\ committing
      /\ \A q \in Procs : q # p => pc[q] \notin CommitLabels
  BY <1>1, Committing
<1>3. /\ CallInv' /\ ShareInv' /\ Booted' /\ Used' = {} /\ Locked' = {}
      /\ pc' \in [Actors -> Labels] /\ pc'[p] = "install"
      /\ \A a \in Actors : a # p => pc'[a] = pc[a] /\ pc'[a] \notin CommitLabels
  BY <1>0, <1>1, CommitStep
<1>4. /\ dirty = InLog /\ Distinct(lh) /\ lh \in Seq(Blocks) /\ Len(lh) \in Nat
      /\ 0 < Len(lh) /\ Copied(Len(lh))
  BY <1>0, <1>2 DEF PhaseInv, TypeOK, CommitLabels
<1>5. TypeOK'
  <2>1. tail' \in [Actors -> 0..LogSize] /\ tail'[p] = 0
    <3>1. tail \in [Actors -> 0..LogSize] /\ 0 \in 0..LogSize
      BY DEF TypeOK
    <3> QED
      BY <1>0, <1>2, <3>1
  <2>2. head' \in Seq(Blocks) /\ Len(head') <= LogSize /\ Len(head') <= LogBlocks - 1
    BY <1>0 DEF TypeOK
  <2> QED
    BY <1>0, <1>3, <2>1, <2>2 DEF TypeOK
<1>6. SpaceInv'
  BY <1>0, <1>2, <1>3 DEF SpaceInv
<1>7. CacheInv'
  BY <1>0, <1>2, <1>3 DEF CacheInv
<1>8. Mem' = Mem
  BY <1>0 DEF Mem
<1>9. PhaseInv'
  <2>1. Distinct(lh)' /\ Distinct(head)'
    BY <1>0, <1>4 DEF Distinct
  <2>2. tail'[p] = 0
    BY <1>0, <1>2 DEF TypeOK
  <2>3. Copied(Len(lh))'
    BY <1>0, <1>4, <1>8 DEF Copied
  <2>4. dirty' = {lh'[i] : i \in (tail'[p] + 1)..Len(lh')}
    <3>1. (tail'[p] + 1)..Len(lh') = 1..Len(lh)
      BY <1>0, <2>2
    <3> QED
      BY <1>0, <1>4, <3>1 DEF InLog
  <2>5. head' = lh' /\ tail'[p] < Len(lh') /\ Installed(tail[p])'
    BY <1>0, <1>4, <2>2 DEF Installed
  <2>6. committing'
    BY <1>0, <1>2
  <2> QED
    BY <1>2, <1>3, <2>1, <2>3, <2>4, <2>5, <2>6 DEF PhaseInv, CommitLabels, Actors
<1>10. Recovered' = Mem
  <2>1. Recovered' = Replay(home, logdata, lh)
    BY <1>0 DEF Recovered, Logged, Replay
  <2>2. ASSUME NEW b \in Blocks
        PROVE  Replay(home, logdata, lh)[b] = Mem[b]
    <3>1. CASE b \in InLog
      <4>1. PICK i \in 1..Len(lh) : b = lh[i]
        BY <3>1 DEF InLog
      <4>2. Replay(home, logdata, lh)[lh[i]] = logdata[i]
        BY <1>4, ReplayAt
      <4> QED
        BY <1>4, <4>1, <4>2 DEF Copied
    <3>2. CASE b \notin InLog
      <4>1. Replay(home, logdata, lh)[b] = home[b]
        BY <1>4, <3>2, ReplayAt DEF InLog
      <4>2. cache[b] \in {NotCached, home[b]}
        BY <1>2, <1>4, <3>2 DEF CacheInv
      <4> QED
        BY <4>1, <4>2 DEF Mem
    <3> QED
      BY <3>1, <3>2
  <2> QED
    BY <2>1, <2>2 DEF Replay, Mem
<1>11. Disk!Commit
  BY <1>0, <1>2, <1>3, <1>8, <1>10 DEF Disk!Commit
<1> QED
  BY <1>3, <1>5, <1>6, <1>7, <1>9, <1>11

\* install_trans: the next block of the log goes home, from commit or recovery; what
\* a crash would leave and what the calls see stay as they are.
LEMMA InstallHome ==
    ASSUME LInv, NEW a \in Actors, pc[a] = "install",
           home' = [home EXCEPT ![lh[tail[a] + 1]] = logdata[tail[a] + 1]],
           UNCHANGED <<logdata, head, lh>>
    PROVE  /\ tail[a] \in Nat /\ tail[a] + 1 \in 1..Len(lh) /\ tail[a] + 1 \in 1..LogSize
           /\ lh[tail[a] + 1] \in Blocks /\ Recovered' = Recovered /\ Len(lh) \in Nat
           /\ home' \in [Blocks -> Vals] /\ head = lh /\ Distinct(lh)
           /\ \A i \in 1..(tail[a] + 1) : home'[lh[i]] = logdata[i]
<1> USE LogAssumption DEF LInv
<1> DEFINE t == tail[a] + 1
           b == lh[t]
<1>1. /\ tail[a] \in Nat /\ Len(lh) \in Nat /\ tail[a] < Len(lh) /\ Len(lh) <= LogSize
      /\ head = lh /\ lh \in Seq(Blocks) /\ Distinct(lh) /\ Installed(tail[a])
  BY DEF TypeOK, PhaseInv
<1>2. t \in 1..Len(lh) /\ t \in 1..LogSize
  BY <1>1
<1>3. b \in Blocks
  BY <1>1, <1>2, ElementOfSeq
<1>4. home' \in [Blocks -> Vals] /\ home'[b] = logdata[t] /\ \A c \in Blocks : c # b => home'[c] = home[c]
  BY <1>2, <1>3 DEF TypeOK
<1>5. ASSUME NEW i \in 1..t
      PROVE  home'[lh[i]] = logdata[i]
  <2>1. CASE i = t
    BY <1>4, <2>1
  <2>2. CASE i # t
    <3>1. i \in 1..tail[a] /\ i \in 1..Len(lh)
      BY <1>1, <2>2
    <3>2. lh[i] \in Blocks /\ lh[i] # b
      BY <1>1, <1>2, <2>2, <3>1, ElementOfSeq DEF Distinct
    <3> QED
      BY <1>1, <1>4, <3>1, <3>2 DEF Installed
  <2> QED
    BY <2>1, <2>2
<1>6. Recovered' = Recovered
  <2>1. Logged(b)
    BY <1>1, <1>2 DEF Logged
  <2>2. ASSUME NEW c \in Blocks
        PROVE  (Logged(c)' <=> Logged(c)) /\ (~Logged(c) => home'[c] = home[c])
    BY <1>4, <2>1, <2>2 DEF Logged
  <2> QED
    BY <2>2 DEF Recovered
<1> QED
  BY <1>1, <1>2, <1>3, <1>4, <1>5, <1>6

LEMMA InstallInv ==
    ASSUME LInv, NEW p \in Procs, Install(p)
    PROVE  LInv' /\ UNCHANGED <<Seen, Recovered, outstanding>>
<1> USE LogAssumption DEF LInv
<1> DEFINE t == tail[p] + 1
           b == lh[t]
           next == IF t = Len(lh) THEN "clear" ELSE "install"
<1>0. /\ UNCHANGED <<logdata, head, lh, outstanding, committing, wrote, pend, panicked>>
      /\ pc[p] = "install" /\ pc' = [pc EXCEPT ![p] = next]
      /\ home' = [home EXCEPT ![b] = logdata[t]]
      /\ cache' = [cache EXCEPT ![b] = logdata[t]]
      /\ dirty' = dirty \ {b}
      /\ tail' = [tail EXCEPT ![p] = t]
  BY DEF Install, disk, logv, bufs, work, Goto, At
<1>1. next \in {"clear", "install"} /\ next \in CommitLabels /\ pc[p] \in CommitLabels
  BY <1>0 DEF CommitLabels
<1>2. /\ p \in Actors /\ Booted /\ outstanding = 0 /\ Used = {} /\ Locked = {} /\ committing
  BY <1>1, Committing
<1>3. /\ CallInv' /\ ShareInv' /\ Booted' /\ Used' = {} /\ Locked' = {}
      /\ pc' \in [Actors -> Labels] /\ pc'[p] = next
      /\ \A a \in Actors : a # p => pc'[a] = pc[a] /\ pc'[a] \notin CommitLabels
  <2> HIDE DEF next
  <2> QED
    BY <1>0, <1>1, CommitStep
<1>4. /\ tail[p] \in Nat /\ t \in 1..Len(lh) /\ t \in 1..LogSize
      /\ b \in Blocks /\ Recovered' = Recovered /\ Len(lh) \in Nat
      /\ home' \in [Blocks -> Vals] /\ head = lh /\ Distinct(lh)
      /\ \A i \in 1..t : home'[lh[i]] = logdata[i]
  BY <1>0, <1>2, InstallHome
<1>5. Copied(Len(lh)) /\ dirty = {lh[i] : i \in (tail[p] + 1)..Len(lh)}
  BY <1>0 DEF PhaseInv
<1>6. /\ logdata[t] \in Vals /\ Mem[b] = logdata[t] /\ tail'[p] = t
      /\ cache' \in [Blocks -> Vals \cup {NotCached}]
      /\ cache'[b] = logdata[t] /\ \A c \in Blocks : c # b => cache'[c] = cache[c]
      /\ home'[b] = logdata[t] /\ \A c \in Blocks : c # b => home'[c] = home[c]
  BY <1>0, <1>2, <1>4, <1>5 DEF TypeOK, Copied
<1> HIDE DEF next
<1>7. TypeOK'
  <2>1. tail' \in [Actors -> 0..LogSize]
    <3>1. t \in 0..LogSize
      BY <1>4
    <3> QED
      BY <1>0, <3>1 DEF TypeOK
  <2>2. dirty' \subseteq Blocks
    BY <1>0 DEF TypeOK
  <2> QED
    BY <1>0, <1>3, <1>4, <1>6, <2>1, <2>2 DEF TypeOK
<1>8. SpaceInv'
  BY <1>0, <1>2, <1>3 DEF SpaceInv
<1> HIDE DEF t, b
<1>9. CacheInv'
  BY <1>0, <1>2, <1>3, <1>6 DEF CacheInv
<1>10. Mem' = Mem
  <2>1. ASSUME NEW c \in Blocks
        PROVE  Mem'[c] = Mem[c]
    <3>1. logdata[t] # NotCached
      BY <1>6
    <3> QED
      BY <1>6, <3>1 DEF Mem
  <2> QED
    BY <2>1 DEF Mem
<1>11. PhaseInv'
  <2>1. Distinct(lh)' /\ Distinct(head)'
    BY <1>0, <1>4 DEF Distinct
  <2>2. Copied(Len(lh))'
    BY <1>0, <1>5, <1>10 DEF Copied
  <2>3. dirty' = {lh'[i] : i \in (tail'[p] + 1)..Len(lh')}
    <3>1. \A i \in (tail[p] + 1)..Len(lh) : i \in 1..Len(lh) /\ (i = t \/ i \in (t + 1)..Len(lh))
      BY <1>4 DEF t
    <3>2. \A i \in (t + 1)..Len(lh) : i \in (tail[p] + 1)..Len(lh) /\ i \in 1..Len(lh) /\ i # t
      BY <1>4 DEF t
    <3>3. \A i \in 1..Len(lh) : i # t => lh[i] # b
      BY <1>4 DEF Distinct, b
    <3>4. {lh[i] : i \in (tail[p] + 1)..Len(lh)} \ {b} = {lh[i] : i \in (t + 1)..Len(lh)}
      BY <3>1, <3>2, <3>3 DEF b
    <3>5. (tail'[p] + 1)..Len(lh') = (t + 1)..Len(lh) /\ lh' = lh
      BY <1>0, <1>6
    <3>6. dirty' = {lh[i] : i \in (t + 1)..Len(lh)}
      BY <1>0, <1>5, <3>4
    <3> QED
      BY <3>5, <3>6
  <2>4. head' = lh'
    BY <1>0, <1>4
  <2>5. Installed(tail[p])'
    BY <1>0, <1>4, <1>6 DEF Installed
  <2>6. pc'[p] = "clear" => dirty' = {} /\ Installed(Len(lh))'
    <3>1. SUFFICES ASSUME pc'[p] = "clear"
                   PROVE  dirty' = {} /\ Installed(Len(lh))'
      OBVIOUS
    <3>2. t = Len(lh)
      BY <1>3, <3>1 DEF next
    <3>3. (tail'[p] + 1)..Len(lh') = {}
      BY <1>0, <1>4, <1>6, <3>2
    <3>4. tail'[p] = Len(lh')
      BY <1>0, <1>6, <3>2
    <3> QED
      BY <2>3, <2>5, <3>3, <3>4 DEF Installed
  <2>7. pc'[p] = "install" => tail'[p] < Len(lh')
    BY <1>0, <1>3, <1>4, <1>6 DEF next
  <2>8. pc'[p] \in {"clear", "install"} /\ committing'
    BY <1>0, <1>1, <1>2, <1>3
  <2> QED
    BY <1>2, <1>3, <2>1, <2>2, <2>3, <2>4, <2>5, <2>6, <2>7, <2>8 DEF PhaseInv, CommitLabels, Actors
<1> QED
  BY <1>0, <1>2, <1>3, <1>4, <1>7, <1>8, <1>9, <1>10, <1>11 DEF Seen

\* Before recovery is over no call is under way and no buffer is pinned or in use.
LEMMA Booting ==
    ASSUME LInv, ~Booted
    PROVE  /\ Boot \in Actors /\ dirty = {} /\ outstanding = 0 /\ ~committing
           /\ \A p \in Procs : p \in Actors /\ p # Boot /\ pc[p] = "idle" /\ pend[p] = {}
           /\ Inop = {} /\ Used = {} /\ Locked = {}
<1> USE LogAssumption DEF LInv
<1>1. \A p \in Procs : pc[p] = "idle" /\ pend[p] = {}
  BY DEF CallInv, ShareInv
<1>2. Inop = {} /\ Used = {} /\ Locked = {}
  BY <1>1 DEF Inop, Used, Pairs, Locked
<1>3. outstanding = 0 /\ ~committing
  BY <1>1, <1>2, FS_EmptySet DEF CallInv, CommitLabels
<1>4. dirty = {}
  BY DEF PhaseInv
<1> QED
  BY <1>1, <1>2, <1>3, <1>4 DEF Actors

\* A step of recovery to another label of it, or to its end.
LEMMA BootStep ==
    ASSUME LInv, ~Booted, NEW l \in BootLabels, pc' = [pc EXCEPT ![Boot] = l],
           UNCHANGED <<outstanding, committing, wrote, pend, panicked>>
    PROVE  /\ CallInv' /\ ShareInv' /\ Inop' = {} /\ Used' = {} /\ Locked' = {}
           /\ pc' \in [Actors -> Labels] /\ pc'[Boot] = l
           /\ \A p \in Procs : pc'[p] = "idle"
<1> USE LogAssumption DEF LInv
<1>1. /\ Boot \in Actors /\ outstanding = 0 /\ ~committing
      /\ \A p \in Procs : p \in Actors /\ p # Boot /\ pc[p] = "idle" /\ pend[p] = {}
      /\ Inop = {} /\ Used = {} /\ Locked = {}
  BY Booting
<1>2. pc' \in [Actors -> Labels] /\ pc'[Boot] = l /\ \A p \in Procs : pc'[p] = "idle"
  BY <1>1 DEF TypeOK, Labels, BootLabels
<1>3. Inop' = {} /\ Locked' = {}
  BY <1>1, <1>2 DEF Inop, Locked
<1>4. Used' = {}
  BY <1>3 DEF Used, Pairs
<1>5. Cardinality(Inop') = 0
  BY <1>3, FS_EmptySet
<1>6. CallInv'
  BY <1>1, <1>2, <1>5 DEF CallInv, ProcLabels, CommitLabels
<1>7. ShareInv'
  BY <1>1, <1>2 DEF ShareInv
<1> QED
  BY <1>2, <1>3, <1>4, <1>6, <1>7

LEMMA InstallBootInv ==
    ASSUME LInv, Install(Boot)
    PROVE  LInv' /\ UNCHANGED <<Seen, Recovered, outstanding>>
<1> USE LogAssumption DEF LInv
<1> DEFINE t == tail[Boot] + 1
           b == lh[t]
           next == IF t = Len(lh) THEN "clear" ELSE "install"
<1>0. /\ UNCHANGED <<logdata, head, lh, outstanding, committing, wrote, pend, panicked>>
      /\ pc[Boot] = "install" /\ pc' = [pc EXCEPT ![Boot] = next]
      /\ home' = [home EXCEPT ![b] = logdata[t]]
      /\ cache' = [cache EXCEPT ![b] = logdata[t]]
      /\ dirty' = dirty \ {b}
      /\ tail' = [tail EXCEPT ![Boot] = t]
  BY DEF Install, disk, logv, bufs, work, Goto, At
<1>1. next \in {"clear", "install"} /\ next \in BootLabels /\ ~Booted
  BY <1>0 DEF BootLabels, Booted
<1>2. Boot \in Actors /\ dirty = {} /\ outstanding = 0 /\ Used = {} /\ Locked = {}
  BY <1>1, Booting
<1>3. /\ CallInv' /\ ShareInv' /\ Used' = {} /\ Locked' = {}
      /\ pc' \in [Actors -> Labels] /\ pc'[Boot] = next /\ ~Booted'
      /\ \A p \in Procs : pc'[p] = "idle"
  <2> HIDE DEF next
  <2> QED
    BY <1>0, <1>1, BootStep DEF Booted
<1>4. /\ tail[Boot] \in Nat /\ t \in 1..Len(lh) /\ t \in 1..LogSize
      /\ b \in Blocks /\ Recovered' = Recovered /\ Len(lh) \in Nat
      /\ home' \in [Blocks -> Vals] /\ head = lh /\ Distinct(lh)
      /\ \A i \in 1..t : home'[lh[i]] = logdata[i]
  BY <1>0, <1>2, InstallHome
<1>6. /\ logdata[t] \in Vals /\ tail'[Boot] = t
      /\ cache' \in [Blocks -> Vals \cup {NotCached}]
      /\ cache'[b] = logdata[t] /\ \A c \in Blocks : c # b => cache'[c] = cache[c]
      /\ home'[b] = logdata[t] /\ \A c \in Blocks : c # b => home'[c] = home[c]
  BY <1>0, <1>2, <1>4 DEF TypeOK
<1> HIDE DEF next
<1>7. TypeOK'
  <2>1. tail' \in [Actors -> 0..LogSize]
    <3>1. t \in 0..LogSize
      BY <1>4
    <3> QED
      BY <1>0, <3>1 DEF TypeOK
  <2>2. dirty' \subseteq Blocks
    BY <1>0 DEF TypeOK
  <2> QED
    BY <1>0, <1>3, <1>4, <1>6, <2>1, <2>2 DEF TypeOK
<1>8. SpaceInv'
  BY <1>0, <1>2, <1>3 DEF SpaceInv
<1> HIDE DEF t, b
<1>9. CacheInv'
  BY <1>0, <1>2, <1>3, <1>6 DEF CacheInv
<1>11. PhaseInv'
  <2>1. Distinct(lh)' /\ Distinct(head)'
    BY <1>0, <1>4 DEF Distinct
  <2>4. head' = lh' /\ dirty' = {}
    BY <1>0, <1>2, <1>4
  <2>5. Installed(tail[Boot])'
    BY <1>0, <1>4, <1>6 DEF Installed
  <2>6. pc'[Boot] = "clear" => Installed(Len(lh))'
    <3>1. pc'[Boot] = "clear" => tail'[Boot] = Len(lh')
      BY <1>0, <1>3, <1>6 DEF next
    <3> QED
      BY <2>5, <3>1 DEF Installed
  <2>7. pc'[Boot] = "install" => tail'[Boot] < Len(lh')
    BY <1>0, <1>3, <1>4, <1>6 DEF next
  <2>8. \A a \in Actors : a = Boot \/ pc'[a] = "idle"
    BY <1>3 DEF Actors
  <2> QED
    BY <1>3, <2>1, <2>4, <2>5, <2>6, <2>7, <2>8 DEF PhaseInv
<1> QED
  BY <1>0, <1>1, <1>3, <1>4, <1>7, <1>8, <1>9, <1>11 DEF Seen

\* Where every block of the log has been installed the home blocks are what a crash
\* would leave, with the header or without it.
LEMMA AllHome ==
    ASSUME LInv, NEW a \in Actors, pc[a] = "clear"
    PROVE  Recovered = home
<1> USE DEF LInv
<1>1. head = lh /\ Installed(Len(lh)) /\ head \in Seq(Blocks) /\ Distinct(head) /\ home \in [Blocks -> Vals]
  BY DEF PhaseInv, TypeOK
<1>2. Recovered = Replay(home, logdata, head)
  BY DEF Recovered, Logged, Replay
<1>3. ASSUME NEW b \in Blocks
      PROVE  Replay(home, logdata, head)[b] = home[b]
  <2>1. CASE \E i \in 1..Len(head) : head[i] = b
    <3>1. PICK i \in 1..Len(head) : head[i] = b
      BY <2>1
    <3>2. Replay(home, logdata, head)[head[i]] = logdata[i]
      BY <1>1, ReplayAt
    <3> QED
      BY <1>1, <3>1, <3>2 DEF Installed
  <2>2. CASE ~ \E i \in 1..Len(head) : head[i] = b
    BY <1>1, <2>2, ReplayAt
  <2> QED
    BY <2>1, <2>2
<1>4. Recovered = [b \in Blocks |-> Recovered[b]] /\ home = [b \in Blocks |-> home[b]]
  BY <1>1 DEF Recovered
<1>5. \A b \in Blocks : Recovered[b] = home[b]
  BY <1>2, <1>3
<1> QED
  BY <1>4, <1>5

\* The header is emptied, at the end of commit or of recovery.
LEMMA ClearHeadInv ==
    ASSUME LInv, NEW p \in Procs, ClearHead(p)
    PROVE  LInv' /\ UNCHANGED <<Seen, Recovered, outstanding>>
<1> USE LogAssumption DEF LInv
<1>0. /\ UNCHANGED <<home, logdata, outstanding, committing, cache, dirty, tail, wrote, pend, panicked>>
      /\ pc[p] = "clear" /\ pc' = [pc EXCEPT ![p] = "committed"]
      /\ head' = <<>> /\ lh' = <<>>
  BY DEF ClearHead, disk, logv, bufs, work, Goto, At
<1>1. "committed" \in CommitLabels /\ pc[p] \in CommitLabels
  BY <1>0 DEF CommitLabels
<1>2. /\ p \in Actors /\ Booted /\ outstanding = 0 /\ Used = {} /\ Locked = {} /\ committing
  BY <1>1, Committing
<1>3. /\ CallInv' /\ ShareInv' /\ Booted' /\ Used' = {} /\ Locked' = {}
      /\ pc' \in [Actors -> Labels] /\ pc'[p] = "committed"
      /\ \A a \in Actors : a # p => pc'[a] = pc[a] /\ pc'[a] \notin CommitLabels
  BY <1>0, <1>1, CommitStep
<1>4. <<>> \in Seq(Blocks) /\ Len(<<>>) = 0 /\ Distinct(<<>>)
  BY EmptySeq DEF Distinct
<1>5. TypeOK'
  <2>1. lh' \in Seq(Blocks) /\ Len(lh') <= LogSize /\ Len(lh') <= LogBlocks - 1
    BY <1>0, <1>4
  <2> QED
    BY <1>0, <1>3, <2>1 DEF TypeOK
<1>6. SpaceInv'
  <2>1. Cardinality(Used') = 0 /\ Len(lh') = 0 /\ outstanding' * MaxOpBlocks = 0
    BY <1>0, <1>2, <1>3, <1>4, FS_EmptySet
  <2> QED
    BY <1>0, <2>1 DEF SpaceInv
<1>7. CacheInv'
  BY <1>0, <1>2, <1>3 DEF CacheInv
<1>8. PhaseInv'
  <2>1. dirty' = {} /\ InLog' = {}
    BY <1>0, <1>4 DEF PhaseInv, InLog
  <2>2. Distinct(lh)' /\ Distinct(head)'
    BY <1>0, <1>4 DEF Distinct
  <2> QED
    BY <1>0, <1>2, <1>3, <2>1, <2>2 DEF PhaseInv, CommitLabels, Actors
<1>9. Recovered' = Recovered
  <2>1. Recovered = home /\ home \in [Blocks -> Vals]
    BY <1>0, <1>2, AllHome DEF TypeOK
  <2>2. Recovered' = home
    BY <1>0, <1>4, <2>1 DEF Recovered, Logged
  <2> QED
    BY <2>1, <2>2
<1>10. Mem' = Mem
  BY <1>0 DEF Mem
<1> QED
  BY <1>0, <1>2, <1>3, <1>5, <1>6, <1>7, <1>8, <1>9, <1>10 DEF Seen

LEMMA ClearHeadBootInv ==
    ASSUME LInv, ClearHead(Boot)
    PROVE  LInv' /\ UNCHANGED <<Seen, Recovered, outstanding>>
<1> USE LogAssumption DEF LInv
<1>0. /\ UNCHANGED <<home, logdata, outstanding, committing, cache, dirty, tail, wrote, pend, panicked>>
      /\ pc[Boot] = "clear" /\ pc' = [pc EXCEPT ![Boot] = "booted"]
      /\ head' = <<>> /\ lh' = <<>>
  BY DEF ClearHead, disk, logv, bufs, work, Goto, At
<1>1. "booted" \in BootLabels /\ ~Booted
  BY <1>0 DEF BootLabels, Booted
<1>2. Boot \in Actors /\ dirty = {} /\ outstanding = 0 /\ Used = {} /\ Locked = {}
  BY <1>1, Booting
<1>3. /\ CallInv' /\ ShareInv' /\ Used' = {} /\ Locked' = {}
      /\ pc' \in [Actors -> Labels] /\ pc'[Boot] = "booted" /\ Booted'
      /\ \A p \in Procs : pc'[p] = "idle"
  BY <1>0, <1>1, BootStep DEF Booted
<1>4. <<>> \in Seq(Blocks) /\ Len(<<>>) = 0 /\ Distinct(<<>>)
  BY EmptySeq DEF Distinct
<1>5. TypeOK'
  <2>1. lh' \in Seq(Blocks) /\ Len(lh') <= LogSize /\ Len(lh') <= LogBlocks - 1
    BY <1>0, <1>4
  <2> QED
    BY <1>0, <1>3, <2>1 DEF TypeOK
<1>6. SpaceInv'
  <2>1. Cardinality(Used') = 0 /\ Len(lh') = 0 /\ outstanding' * MaxOpBlocks = 0
    BY <1>0, <1>2, <1>3, <1>4, FS_EmptySet
  <2> QED
    BY <1>0, <2>1 DEF SpaceInv
<1>7. CacheInv'
  BY <1>0, <1>2, <1>3 DEF CacheInv
<1>8. PhaseInv'
  <2>1. dirty' = {} /\ InLog' = {}
    BY <1>0, <1>2, <1>4 DEF InLog
  <2>2. Distinct(lh)' /\ Distinct(head)'
    BY <1>0, <1>4 DEF Distinct
  <2>3. \A a \in Actors : pc'[a] \in {"booted", "idle"}
    BY <1>3 DEF Actors
  <2> QED
    BY <1>0, <1>3, <2>1, <2>2, <2>3 DEF PhaseInv, Actors
<1>9. Recovered' = Recovered /\ Recovered = home /\ home \in [Blocks -> Vals]
  <2>1. Recovered = home /\ home \in [Blocks -> Vals]
    BY <1>0, <1>2, AllHome DEF TypeOK
  <2>2. Recovered' = home
    BY <1>0, <1>4, <2>1 DEF Recovered, Logged
  <2> QED
    BY <2>1, <2>2
<1>10. Mem' = home
  <2>1. \A b \in Blocks : cache[b] \in {NotCached, home[b]}
    BY <1>2 DEF CacheInv
  <2> QED
    BY <1>0, <1>9, <2>1 DEF Mem
<1> QED
  BY <1>0, <1>1, <1>3, <1>5, <1>6, <1>7, <1>8, <1>9, <1>10 DEF Seen

\* The commit is over and the calls waiting for it try again.
LEMMA FinishCommitInv ==
    ASSUME LInv, NEW p \in Procs, FinishCommit(p)
    PROVE  LInv' /\ UNCHANGED <<Seen, Recovered, outstanding>>
<1> USE LogAssumption DEF LInv
<1>0. /\ UNCHANGED <<home, logdata, head, lh, outstanding, cache, dirty, tail, wrote, pend, panicked>>
      /\ pc[p] = "committed" /\ committing' = FALSE
      /\ pc' = [x \in Actors |-> IF x = p THEN "idle"
                                 ELSE IF pc[x] = "asleep" THEN "begin" ELSE pc[x]]
  BY DEF FinishCommit, disk, logv, bufs, work, WakeAnd, At
<1>1. pc[p] \in CommitLabels
  BY <1>0 DEF CommitLabels
<1>2. /\ p \in Actors /\ p # Boot /\ Booted /\ outstanding = 0 /\ Inop = {} /\ Used = {} /\ committing
      /\ \A q \in Procs : pc[q] # "inop" /\ pend[q] = {} /\ (q # p => pc[q] \notin CommitLabels)
  BY <1>1, Committing
<1>3. /\ pc' \in [Actors -> Labels] /\ pc'[p] = "idle" /\ pc'[Boot] = "booted"
      /\ \A q \in Procs : q \in Actors /\ pc'[q] \in {"idle", "begin", "asleep"}
  <2>1. \A q \in Procs : pc[q] \in ProcLabels
    BY DEF CallInv
  <2>2. Boot \in Actors /\ pc[Boot] = "booted" /\ pc \in [Actors -> Labels]
    BY <1>2 DEF Booted, Actors, TypeOK
  <2>3. pc' \in [Actors -> Labels]
    BY <1>0, <2>2 DEF Labels
  <2>4. \A q \in Procs : q \in Actors
    BY DEF Actors
  <2> QED
    BY <1>0, <1>2, <2>1, <2>2, <2>3, <2>4 DEF ProcLabels, CommitLabels
<1>4. TypeOK'
  BY <1>0, <1>3 DEF TypeOK
<1>5. Inop' = {} /\ Booted'
  BY <1>3 DEF Inop, Booted
<1>6. Used' = {}
  BY <1>5 DEF Used, Pairs
<1>7. CallInv'
  <2>1. Cardinality(Inop') = 0
    BY <1>5, FS_EmptySet
  <2> QED
    BY <1>0, <1>2, <1>3, <1>5, <2>1 DEF CallInv, ProcLabels, CommitLabels, BootLabels
<1>8. ShareInv'
  BY <1>0, <1>2, <1>3 DEF ShareInv
<1>9. SpaceInv'
  BY <1>0, <1>2, <1>6 DEF SpaceInv
<1>10. CacheInv'
  BY <1>0 DEF CacheInv, Locked
<1>11. PhaseInv'
  <2>1. lh = <<>> /\ head = <<>> /\ dirty = InLog
    BY <1>0, <1>2 DEF PhaseInv, CommitLabels
  <2>2. Distinct(lh)' /\ Distinct(head)'
    BY <1>0 DEF PhaseInv, Distinct
  <2>3. InLog' = InLog
    BY <1>0 DEF InLog
  <2>4. \A a \in Actors : pc'[a] \in {"idle", "begin", "asleep", "booted"}
    BY <1>3 DEF Actors
  <2> QED
    BY <1>0, <1>3, <1>5, <2>1, <2>2, <2>3, <2>4 DEF PhaseInv, Actors
<1>12. UNCHANGED <<Seen, Recovered, outstanding>>
  BY <1>0, <1>2, <1>5 DEF Seen, Mem, Recovered, Logged
<1> QED
  BY <1>4, <1>7, <1>8, <1>9, <1>10, <1>11, <1>12

\* A buffer that is recycled held what the disk holds.
LEMMA RecycleInv ==
    ASSUME LInv, NEW b \in Blocks, Recycle(b)
    PROVE  LInv' /\ UNCHANGED <<Seen, Recovered, outstanding>>
<1> USE LogAssumption DEF LInv
<1>0. /\ UNCHANGED <<home, logdata, head, lh, outstanding, committing, dirty, pc, tail, wrote, pend, panicked>>
      /\ b \notin dirty \cup Locked /\ cache' = [cache EXCEPT ![b] = NotCached]
  BY DEF Recycle, disk, logv, bufs, work
<1>1. /\ cache'[b] = NotCached /\ (\A c \in Blocks : c # b => cache'[c] = cache[c])
      /\ cache' \in [Blocks -> Vals \cup {NotCached}]
  BY <1>0 DEF TypeOK
<1>2. Mem' = Mem
  <2>1. cache[b] \in {NotCached, home[b]}
    BY <1>0 DEF CacheInv
  <2> QED
    BY <1>0, <1>1, <2>1 DEF Mem
<1>3. Locked' = Locked /\ InLog' = InLog /\ Inop' = Inop /\ Used' = Used /\ Booted' = Booted
  BY <1>0 DEF Locked, InLog, Inop, Used, Pairs, Booted
<1>4. TypeOK'
  BY <1>0, <1>1 DEF TypeOK
<1>5. CallInv' /\ ShareInv' /\ SpaceInv'
  BY <1>0, <1>3 DEF CallInv, ShareInv, SpaceInv
<1>6. CacheInv'
  BY <1>0, <1>1, <1>3 DEF CacheInv
<1>7. PhaseInv'
  BY <1>0, <1>2, <1>3 DEF PhaseInv, Distinct, Copied, Installed
<1>8. UNCHANGED <<Seen, Recovered, outstanding>>
  BY <1>0, <1>2, <1>3 DEF Seen, Recovered, Logged
<1> QED
  BY <1>4, <1>5, <1>6, <1>7, <1>8

\* The machine stops: the disk keeps what it has, the rest starts again.
LEMMA CrashInv ==
    ASSUME LInv, Crash
    PROVE  LInv' /\ Disk!Crash
<1> USE LogAssumption DEF LInv
<1>0. /\ UNCHANGED <<home, logdata, head>> /\ lh' = <<>> /\ outstanding' = 0 /\ committing' = FALSE
      /\ cache' = [b \in Blocks |-> NotCached] /\ dirty' = {}
      /\ pc' = [a \in Actors |-> IF a = Boot THEN "read_head" ELSE "idle"]
      /\ tail' = [a \in Actors |-> 0]
      /\ wrote' = [p \in Procs |-> {}] /\ pend' = [p \in Procs |-> {}] /\ panicked' = FALSE
  BY DEF Crash, disk
<1>1. <<>> \in Seq(Blocks) /\ Len(<<>>) = 0
  BY EmptySeq
<1>2. /\ pc' \in [Actors -> Labels] /\ pc'[Boot] = "read_head" /\ ~Booted'
      /\ \A p \in Procs : pc'[p] = "idle" /\ p \in Actors
  BY <1>0 DEF Actors, Labels, Booted
<1>3. TypeOK'
  <2>1. lh' \in Seq(Blocks) /\ Len(lh') <= LogSize /\ Len(lh') <= LogBlocks - 1
    BY <1>0, <1>1
  <2>2. tail' \in [Actors -> 0..LogSize]
    BY <1>0
  <2>3. /\ wrote' \in [Procs -> SUBSET Blocks] /\ pend' \in [Procs -> SUBSET Blocks]
        /\ cache' \in [Blocks -> Vals \cup {NotCached}]
    BY <1>0
  <2>4. outstanding' \in Nat /\ committing' \in BOOLEAN /\ panicked' \in BOOLEAN /\ dirty' \subseteq Blocks
    BY <1>0
  <2> QED
    BY <1>0, <1>2, <2>1, <2>2, <2>3, <2>4 DEF TypeOK
<1>4. Inop' = {}
  BY <1>2 DEF Inop
<1>5. Used' = {}
  BY <1>4 DEF Used, Pairs
<1>6. Cardinality(Inop') = 0 /\ Cardinality(Used') = 0
  BY <1>4, <1>5, FS_EmptySet
<1>7. CallInv'
  BY <1>0, <1>2, <1>6 DEF CallInv, ProcLabels, BootLabels, CommitLabels
<1>8. ShareInv'
  BY <1>0, <1>2 DEF ShareInv
<1>9. SpaceInv'
  BY <1>0, <1>1, <1>6 DEF SpaceInv
<1>10. CacheInv'
  BY <1>0 DEF CacheInv, Locked
<1>11. PhaseInv'
  <2>1. Distinct(lh)' /\ Distinct(head)'
    BY <1>0, <1>1 DEF PhaseInv, Distinct
  <2>2. \A a \in Actors : pc'[a] \in {"read_head", "idle"}
    BY <1>2 DEF Actors
  <2> QED
    BY <1>0, <1>2, <2>1, <2>2 DEF PhaseInv, Actors
<1>12. Disk!Crash
  BY <1>0, <1>2 DEF Disk!Crash, Recovered, Logged
<1> QED
  BY <1>3, <1>7, <1>8, <1>9, <1>10, <1>11, <1>12

-----------------------------------------------------------------------------
(* Theorems *)

\* Every step of the log is a step of AtomicDisk, or leaves what AtomicDisk has alone.
LEMMA NextInv ==
    ASSUME LInv, Ready, [Next]_vars
    PROVE  LInv' /\ [Disk!Next]_<<Seen, Recovered, outstanding>>
<1>1. ASSUME NEW p \in Procs, Call(p)
      PROVE  LInv' /\ [Disk!Next]_<<Seen, Recovered, outstanding>>
  BY <1>1, BeginOpSleepInv, BeginOpInv, LogCheckInv, LogWriteInv, EndOpInv DEF Call, Disk!Next
<1>2. ASSUME NEW p \in Procs, Commit(p)
      PROVE  LInv' /\ [Disk!Next]_<<Seen, Recovered, outstanding>>
  BY <1>2, WriteLogInv, WriteHeadInv, InstallInv, ClearHeadInv, FinishCommitInv DEF Commit, Disk!Next
<1>3. ASSUME Recovery
      PROVE  LInv' /\ [Disk!Next]_<<Seen, Recovered, outstanding>>
  BY <1>3, ReadHeadInv, InstallBootInv, ClearHeadBootInv DEF Recovery
<1>4. ASSUME NEW b \in Blocks, Recycle(b)
      PROVE  LInv' /\ [Disk!Next]_<<Seen, Recovered, outstanding>>
  BY <1>4, RecycleInv
<1>5. ASSUME Crash
      PROVE  LInv' /\ [Disk!Next]_<<Seen, Recovered, outstanding>>
  BY <1>5, CrashInv DEF Disk!Next
<1>6. ASSUME UNCHANGED vars
      PROVE  LInv' /\ UNCHANGED <<Seen, Recovered, outstanding>>
  <2>1. UNCHANGED <<home, logdata, head, lh, outstanding, committing, cache, dirty, pc, tail, wrote, pend, panicked>>
    BY <1>6 DEF vars, disk, logv, bufs, work
  <2>2. Locked' = Locked /\ InLog' = InLog /\ Inop' = Inop /\ Used' = Used /\ Booted' = Booted /\ Mem' = Mem
    BY <2>1 DEF Locked, InLog, Inop, Used, Pairs, Booted, Mem
  <2>3. TypeOK'
    BY <2>1 DEF TypeOK, LInv
  <2>4. CallInv' /\ ShareInv' /\ SpaceInv' /\ CacheInv'
    BY <2>1, <2>2 DEF CallInv, ShareInv, SpaceInv, CacheInv, LInv
  <2>5. PhaseInv'
    BY <2>1, <2>2 DEF PhaseInv, Distinct, Copied, Installed, LInv
  <2>6. UNCHANGED <<Seen, Recovered, outstanding>>
    BY <2>1, <2>2 DEF Seen, Recovered, Logged
  <2> QED
    BY <2>3, <2>4, <2>5, <2>6 DEF LInv
<1> QED
  BY <1>1, <1>2, <1>3, <1>4, <1>5, <1>6 DEF Next

LEMMA Invariance ==
    ASSUME Ready
    PROVE  Spec => []LInv
<1>1. Init => LInv
  BY InitInv
<1>2. LInv /\ [Next]_vars => LInv'
  BY NextInv
<1> QED
  BY <1>1, <1>2, PTL DEF Spec

\* However many calls run at once and whenever the machine stops, the log has room
\* for all they reserved: neither log_write nor end_op panics.
THEOREM LogNeverFull ==
    ASSUME Ready
    PROVE  Spec => []SpaceReserved
<1>1. LInv => SpaceReserved
  <2> SUFFICES ASSUME LInv
               PROVE  SpaceReserved
    OBVIOUS
  <2>1. Used = {x \in Procs \X Blocks : pc[x[1]] = "inop" /\ x[2] \in wrote[x[1]]}
    BY DEF Used, Pairs, Inop
  <2> QED
    BY <2>1 DEF LInv, SpaceInv, SpaceReserved
<1> QED
  BY <1>1, Invariance, PTL

\* When the last call has ended and its commit is over, what a crash would leave is
\* what the calls see.
THEOREM Durable ==
    ASSUME Ready
    PROVE  Spec => []QuietMeansDurable
<1>1. LInv => QuietMeansDurable
  <2> SUFFICES ASSUME LInv, Booted, outstanding = 0, ~committing
               PROVE  Recovered = Mem
    BY DEF QuietMeansDurable
  <2>1. \A p \in Procs : pc[p] \notin CommitLabels
    BY DEF LInv, CallInv
  <2>2. head = <<>> /\ dirty = InLog /\ lh = <<>>
    BY <2>1 DEF LInv, PhaseInv, CommitLabels
  <2>3. dirty = {} /\ Len(head) = 0
    BY <2>2, EmptySeq DEF InLog
  <2>4. Inop = {}
    BY UsedBound, FS_EmptySet DEF LInv, CallInv
  <2>5. Locked = {}
    BY <2>4 DEF Locked, Inop, LInv, ShareInv
  <2>6. \A b \in Blocks : cache[b] \in {NotCached, home[b]}
    BY <2>3, <2>5 DEF LInv, CacheInv
  <2> QED
    BY <2>3, <2>6 DEF Recovered, Logged, Mem
<1> QED
  BY <1>1, Invariance, PTL

\* Crash atomicity of write_log, write_head, install_trans and recover_from_log: the
\* blocks that survive a crash change all at once, at the header write, and only to
\* what the calls see while none of them is under way.
THEOREM CrashAtomic ==
    ASSUME Ready
    PROVE  Spec => ImplementsAtomicDisk
<1>1. Init => Disk!Init
  BY InitInv
<1>2. LInv /\ [Next]_vars => [Disk!Next]_<<Seen, Recovered, outstanding>>
  BY NextInv
<1>3. [Disk!Next]_<<Seen, Recovered, outstanding>>
        => [Disk!Next]_<<IF Booted THEN Mem ELSE Recovered, Recovered, outstanding>>
  BY DEF Seen
<1> QED
  BY <1>1, <1>2, <1>3, Invariance, PTL DEF Spec, ImplementsAtomicDisk, Disk!Spec
=============================================================================

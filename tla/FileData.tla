------------------------------ MODULE FileData ------------------------------
(***************************************************************************)
(* The bytes of files: the block allocator and the block lists of inodes   *)
(* (fs.c), reads and writes through open files (file.c), and the image     *)
(* mkfs builds.                                                            *)
(*                                                                         *)
(* A block holds BSIZE units; a unit is a byte of a file or, in an         *)
(* indirect block, a block number.  Names are left to FileSys and the log  *)
(* to Log: here it keeps its promise, that what the calls have done lasts  *)
(* from the moment none is between begin_op and end_op, and that a crash   *)
(* goes back to the last such moment.                                      *)
(***************************************************************************)
EXTENDS Integers, Sequences, FiniteSets, SequencesExt

CONSTANTS
    Procs, NoProc,
    Inums,        \* inodes, 1..n
    Handles,      \* struct file
    NBlocks,      \* data blocks, numbered from 1
    BSIZE, NDIRECT,
    MAXOPBLOCKS,
    MaxGroup,     \* the transactions one commit of the log has room for
    Image,        \* sizes of the files mkfs puts on the disk
    Old, Vals,    \* the bytes of the image, and those that are written
    Sizes,        \* the n of read and write
    Zero

NINDIRECT == BSIZE
MAXFILE == NDIRECT + NINDIRECT

ASSUME FileDataAssumption ==
    /\ NoProc \notin Procs
    /\ NBlocks \in Nat /\ BSIZE \in Nat \ {0} /\ NDIRECT \in Nat \ {0}
    /\ MAXOPBLOCKS \in Nat /\ MAXOPBLOCKS >= 6 /\ MaxGroup \in Nat \ {0}
    /\ Image \in [Inums -> 0..MAXFILE * BSIZE] /\ Sizes \subseteq Nat \ {0}
    /\ Zero = 0 /\ Zero \notin Vals \cup {Old}

VARIABLES
    bitmap,   \* blocks marked in use
    data,     \* contents of the blocks
    dinode,   \* inodes on the disk, in the buffers of the log
    inode,    \* the copies in icache
    file,     \* what each struct file refers to, and its offset
    locked,   \* holder of the lock of an inode
    ops,      \* calls between begin_op and end_op
    grouped,  \* transactions begun since the last commit
    durable,  \* bitmap, data and dinode as a crash leaves them
    pc, call, tot,  \* the call of a process; done of its current writei
    panicked

disk == <<bitmap, data, dinode>>
locals == <<pc, call, tot>>
vars == <<disk, inode, file, locked, ops, grouped, durable, locals, panicked>>

Blocks == 1..NBlocks
Slots == 0..NDIRECT             \* ip->addrs; the last one is the indirect block
Empty == [k \in 0..BSIZE-1 |-> Zero]
NoFile == [ip |-> 0, off |-> 0]
NoInode == [type |-> 0, nlink |-> 0, size |-> 0, addrs |-> [k \in Slots |-> 0]]
NoCall == [op |-> "none"]

-----------------------------------------------------------------------------
(* mkfs *)

\* iappend, for one block of a file: the next free block, after an indirect block
\* if this is the first that needs one.
Iappend(img, x) ==
    LET i == x[1]
        bn == x[2]
        direct == bn < NDIRECT
        ind == IF img.inode[i].addrs[NDIRECT] = 0 THEN img.freeblock ELSE img.inode[i].addrs[NDIRECT]
        b == IF ~direct /\ img.inode[i].addrs[NDIRECT] = 0 THEN img.freeblock + 1 ELSE img.freeblock
        used == IF Image[i] - bn * BSIZE < BSIZE THEN Image[i] - bn * BSIZE ELSE BSIZE
        filled == [k \in 0..BSIZE-1 |-> IF k < used THEN Old ELSE Zero]
    IN  [freeblock |-> b + 1,
         inode |-> [img.inode EXCEPT ![i].size = @ + used,
                                     ![i].addrs[IF direct THEN bn ELSE NDIRECT] = IF direct THEN b ELSE ind],
         data |-> IF direct THEN [img.data EXCEPT ![b] = filled]
                  ELSE [img.data EXCEPT ![ind][bn - NDIRECT] = b, ![b] = filled]]

\* ialloc of each file of the image, then its blocks in turn.
Mkfs ==
    LET start == [freeblock |-> 1,
                  data |-> [b \in Blocks |-> Empty],
                  inode |-> [i \in Inums |-> IF Image[i] > 0 THEN [NoInode EXCEPT !.type = 1, !.nlink = 1]
                                             ELSE NoInode]]
        todo == SelectSeq([k \in 1..Cardinality(Inums) * MAXFILE |-> <<1 + (k - 1) \div MAXFILE, (k - 1) % MAXFILE>>],
                          LAMBDA x : x[2] * BSIZE < Image[x[1]])
    IN  FoldLeft(Iappend, start, todo)

\* balloc of mkfs: the blocks before the first free one are in use.
Init ==
    /\ bitmap = 1..Mkfs.freeblock-1
    /\ data = Mkfs.data /\ dinode = Mkfs.inode /\ inode = Mkfs.inode
    /\ file = [h \in Handles |-> NoFile]
    /\ locked = [i \in Inums |-> NoProc]
    /\ ops = 0 /\ grouped = 0 /\ durable = disk
    /\ pc = [p \in Procs |-> "user"] /\ call = [p \in Procs |-> NoCall]
    /\ tot = [p \in Procs |-> 0]
    /\ panicked = FALSE

-----------------------------------------------------------------------------
(* Helpers *)

At(p, label) == ~panicked /\ pc[p] = label
Set(f, p, x) == [f EXCEPT ![p] = x]
Goto(p, label) == pc' = Set(pc, p, label)
Min2(x, y) == IF x < y THEN x ELSE y

Panic == panicked' = TRUE /\ UNCHANGED <<disk, inode, file, locked, ops, grouped, durable, locals>>

Ip(p) == call[p].ip

\* begin_op, which waits for room in the log.
BeginOp == /\ grouped < MaxGroup
           /\ ops' = ops + 1 /\ grouped' = grouped + 1
           /\ UNCHANGED durable

\* end_op: the last one commits the group.
EndOp == /\ ops' = ops - 1
         /\ grouped' = IF ops = 1 THEN 0 ELSE grouped
         /\ durable' = IF ops = 1 THEN disk' ELSE durable

\* A transaction that is one step.
InOp == /\ grouped < MaxGroup
        /\ grouped' = IF ops = 0 THEN 0 ELSE grouped + 1
        /\ durable' = IF ops = 0 THEN disk' ELSE durable
        /\ UNCHANGED ops

Return(p) == /\ Goto(p, "user")
             /\ call' = Set(call, p, NoCall) /\ tot' = Set(tot, p, 0)

\* A directory entry or an open file refers to it.
Open(i) == {h \in Handles : file[h].ip = i}

\* balloc takes the first free block.
FirstFree(marked) == CHOOSE b \in Blocks \ marked : \A c \in Blocks \ marked : b <= c

-----------------------------------------------------------------------------
(* bmap *)

\* The address of block bn of an inode; 0 if there is none.
Addr(ip, bn) ==
    IF bn < NDIRECT THEN ip.addrs[bn]
    ELSE IF ip.addrs[NDIRECT] = 0 THEN 0 ELSE data[ip.addrs[NDIRECT]][bn - NDIRECT]

\* The blocks bmap must allocate for it: a data block, an indirect block before it.
Missing(ip, bn) ==
    IF Addr(ip, bn) # 0 THEN 0 ELSE IF bn >= NDIRECT /\ ip.addrs[NDIRECT] = 0 THEN 2 ELSE 1

\* Mutant: balloc forgets bzero, so an indirect block starts with old contents.
BmapDirty(ip, bn) ==
    LET first == FirstFree(bitmap)
        second == FirstFree(bitmap \cup {first})
        new == Missing(ip, bn)
        ind == IF new = 2 THEN first ELSE ip.addrs[NDIRECT]
        b == CASE new = 0 -> Addr(ip, bn) [] new = 1 -> first [] OTHER -> second
    IN  [addr |-> b,
         bitmap |-> bitmap \cup (CASE new = 0 -> {} [] new = 1 -> {b} [] OTHER -> {ind, b}),
         inode |-> IF bn < NDIRECT THEN [ip EXCEPT !.addrs[bn] = b] ELSE [ip EXCEPT !.addrs[NDIRECT] = ind],
         data |-> IF bn < NDIRECT THEN data ELSE [data EXCEPT ![ind][bn - NDIRECT] = b]]

\* What bmap makes of the disk and the inode: balloc marks and zeroes each block.
Bmap(ip, bn) ==
    LET first == FirstFree(bitmap)
        second == FirstFree(bitmap \cup {first})
        new == Missing(ip, bn)
        ind == IF new = 2 THEN first ELSE ip.addrs[NDIRECT]
        b == CASE new = 0 -> Addr(ip, bn) [] new = 1 -> first [] OTHER -> second
    IN  [addr |-> b,
         bitmap |-> bitmap \cup (CASE new = 0 -> {} [] new = 1 -> {b} [] OTHER -> {ind, b}),
         inode |-> IF bn < NDIRECT THEN [ip EXCEPT !.addrs[bn] = b] ELSE [ip EXCEPT !.addrs[NDIRECT] = ind],
         data |-> LET zeroed == [c \in Blocks |-> IF (new > 0 /\ c = b) \/ (new = 2 /\ c = ind) THEN Empty ELSE data[c]]
                  IN  IF bn < NDIRECT THEN zeroed ELSE [zeroed EXCEPT ![ind][bn - NDIRECT] = b]]

-----------------------------------------------------------------------------
(* filewrite *)

\* The bytes of one transaction: room for the inode, the indirect block, the bitmap
\* and two blocks of slop.
MaxChunk == ((MAXOPBLOCKS - 1 - 1 - 2) \div 2) * BSIZE

\* Up to begin_op of its first transaction.
FileWrite(p, h, v, n) ==
    /\ At(p, "user")
    /\ file[h].ip # 0
    /\ call' = Set(call, p, [op |-> "write", h |-> h, ip |-> file[h].ip, v |-> v, n |-> n])
    /\ BeginOp
    /\ Goto(p, "w_lock")
    /\ UNCHANGED <<disk, inode, file, locked, tot, panicked>>

Chunk(p) == Min2(call[p].n, MaxChunk)

\* begin_op of the next transaction.
WriteBegin(p) ==
    /\ At(p, "w_begin")
    /\ BeginOp
    /\ Goto(p, "w_lock")
    /\ UNCHANGED <<disk, inode, file, locked, call, tot, panicked>>

\* ilock, and the tests of writei: a chunk that would pass the largest file ends the call.
WriteLock(p) ==
    LET off == file[call[p].h].off
        bad == off > inode[Ip(p)].size \/ off + Chunk(p) > MAXFILE * BSIZE
    IN  /\ At(p, "w_lock")
        /\ locked[Ip(p)] = NoProc
        /\ UNCHANGED <<disk, inode, file, panicked>>
        /\ \/ bad /\ EndOp /\ Return(p) /\ UNCHANGED locked
           \/ ~bad /\ locked' = Set(locked, Ip(p), p) /\ Goto(p, "w_block")
              /\ UNCHANGED <<ops, grouped, durable, call, tot>>

\* Mutant: the copy starts at the first byte of the block.
WithinFromStart(off, m) == 0..m-1

\* The bytes of a block that memmove copies.
Within(off, m) == (off % BSIZE)..((off % BSIZE) + m - 1)

\* The loop of writei, for one block.
WriteBlock(p) ==
    LET off == file[call[p].h].off + tot[p]
        m == Min2(Chunk(p) - tot[p], BSIZE - (off % BSIZE))
        bn == off \div BSIZE
        x == Bmap(inode[Ip(p)], bn)
    IN  /\ At(p, "w_block")
        /\ tot[p] < Chunk(p)
        /\ IF Cardinality(Blocks \ bitmap) < Missing(inode[Ip(p)], bn) THEN Panic
           ELSE /\ bitmap' = x.bitmap
                /\ inode' = Set(inode, Ip(p), x.inode)
                /\ data' = [x.data EXCEPT ![x.addr] = [k \in DOMAIN @ |-> IF k \in Within(off, m) THEN call[p].v ELSE @[k]]]
                /\ tot' = [tot EXCEPT ![p] = @ + m]
                /\ UNCHANGED <<dinode, file, locked, ops, grouped, durable, pc, call, panicked>>

\* writei's last lines: the size of a file that has grown, for iupdate.
Grown(i, off) == IF off > inode[i].size THEN [inode EXCEPT ![i].size = off] ELSE inode

\* The end of writei and of the transaction; iupdate only when the file has grown.
WriteEnd(p) ==
    LET i == Ip(p)
        h == call[p].h
        off == file[h].off + tot[p]
        rest == call[p].n - Chunk(p)
    IN  /\ At(p, "w_block")
        /\ tot[p] = Chunk(p)
        /\ inode' = Grown(i, off)
        /\ dinode' = IF off > inode[i].size THEN Set(dinode, i, inode'[i]) ELSE dinode
        /\ file' = [file EXCEPT ![h].off = off]
        /\ locked' = Set(locked, i, NoProc)
        /\ UNCHANGED <<bitmap, data, panicked>>
        /\ EndOp
        /\ \/ rest = 0 /\ Return(p)
           \/ /\ rest > 0
              /\ call' = [call EXCEPT ![p].n = rest]
              /\ tot' = Set(tot, p, 0)
              /\ Goto(p, "w_begin")

-----------------------------------------------------------------------------
(* fileread *)

\* readi stops at the end of the file.
Readable(i, off, n) == Min2(n, inode[i].size - off)

\* The inode stays locked over all of fileread, so it is one step.  Only a hole would
\* make bmap allocate, outside of a transaction, where log_write panics.
FileRead(p, h, n) ==
    LET i == file[h].ip
        off == file[h].off
        m == Readable(i, off, n)
    IN  /\ At(p, "user")
        /\ i # 0 /\ locked[i] = NoProc
        /\ off <= inode[i].size
        /\ IF \E k \in off..off+m-1 : Addr(inode[i], k \div BSIZE) = 0 THEN Panic
           ELSE /\ file' = [file EXCEPT ![h].off = @ + m]
                /\ UNCHANGED <<disk, inode, locked, ops, grouped, durable, locals, panicked>>

-----------------------------------------------------------------------------
(* Opening, removing, and itrunc *)

\* Open, or create: iget and ilock read the inode unless another file holds it.
FileOpen(p, h, i) ==
    LET new == [NoInode EXCEPT !.type = 1, !.nlink = 1]
    IN  /\ At(p, "user")
        /\ file[h] = NoFile /\ locked[i] = NoProc
        /\ file' = Set(file, h, [ip |-> i, off |-> 0])
        /\ \/ /\ dinode[i].nlink > 0
              /\ inode' = IF Open(i) = {} THEN Set(inode, i, dinode[i]) ELSE inode
              /\ UNCHANGED dinode
           \/ /\ dinode[i].type = 0
              /\ dinode' = Set(dinode, i, new) /\ inode' = Set(inode, i, new)
        /\ UNCHANGED <<bitmap, data, locked, locals, panicked>>
        /\ InOp

\* unlink, or the close of an open file: begin_op and iput.  Unless it is the last of
\* all, which truncates, the call ends here.
FileDrop(p, i, links, rest) ==
    /\ At(p, "user")
    /\ locked[i] = NoProc
    /\ inode' = [inode EXCEPT ![i] = [(IF Open(i) = {} THEN dinode[i] ELSE @) EXCEPT !.nlink = links]]
    /\ dinode' = [dinode EXCEPT ![i].nlink = links]
    /\ UNCHANGED <<bitmap, data, tot, panicked>>
    /\ \/ /\ links = 0 /\ rest = {}
          /\ locked' = Set(locked, i, p)
          /\ BeginOp
          /\ call' = Set(call, p, [op |-> "drop", ip |-> i])
          /\ Goto(p, "trunc")
       \/ /\ links > 0 \/ rest # {}
          /\ InOp
          /\ UNCHANGED <<locked, pc, call>>

Unlink(p, i) ==
    /\ dinode[i].nlink > 0
    /\ FileDrop(p, i, 0, Open(i))
    /\ UNCHANGED file

FileClose(p, h) ==
    LET i == file[h].ip
    IN  /\ i # 0
        /\ \A q \in Procs : call[q].op = "write" => call[q].h # h
        /\ FileDrop(p, i, inode[i].nlink, Open(i) \ {h})
        /\ file' = Set(file, h, NoFile)

\* bfree of a block, if there is one; one that is free already is a panic.
Bfree(b) == bitmap' = bitmap \ {b}
AlreadyFree(b) == b # 0 /\ b \notin bitmap

\* itrunc: the direct blocks.
TruncDirect(p) ==
    LET i == Ip(p)
        b == inode[i].addrs[tot[p]]
    IN  /\ At(p, "trunc")
        /\ tot[p] < NDIRECT
        /\ IF AlreadyFree(b) THEN Panic
           ELSE /\ Bfree(b)
                /\ inode' = [inode EXCEPT ![i].addrs[tot[p]] = 0]
                /\ tot' = [tot EXCEPT ![p] = @ + 1]
                /\ UNCHANGED <<data, dinode, file, locked, ops, grouped, durable, pc, call, panicked>>

\* The blocks the indirect block lists, then itself.
TruncIndirect(p) ==
    LET i == Ip(p)
        ind == inode[i].addrs[NDIRECT]
        last == tot[p] = MAXFILE
        b == IF last THEN ind ELSE data[ind][tot[p] - NDIRECT]
    IN  /\ At(p, "trunc")
        /\ tot[p] >= NDIRECT /\ ind # 0
        /\ IF AlreadyFree(b) THEN Panic
           ELSE /\ Bfree(b)
                /\ inode' = IF last THEN [inode EXCEPT ![i].addrs[NDIRECT] = 0] ELSE inode
                /\ tot' = IF last THEN tot ELSE [tot EXCEPT ![p] = @ + 1]
                /\ UNCHANGED <<data, dinode, file, locked, ops, grouped, durable, pc, call, panicked>>

\* size = 0, iupdate, and iput's type = 0; releasesleep and end_op.
TruncEnd(p) ==
    LET i == Ip(p)
    IN  /\ At(p, "trunc")
        /\ tot[p] >= NDIRECT /\ inode[i].addrs[NDIRECT] = 0
        /\ inode' = [inode EXCEPT ![i].size = 0, ![i].type = 0]
        /\ dinode' = Set(dinode, i, inode'[i])
        /\ locked' = Set(locked, i, NoProc)
        /\ UNCHANGED <<bitmap, data, file, panicked>>
        /\ EndOp
        /\ Return(p)

-----------------------------------------------------------------------------
(* Specification *)

\* Power fails, or the panic is noticed: recovery leaves what was durable.
Crash ==
    /\ bitmap' = durable[1] /\ data' = durable[2] /\ dinode' = durable[3] /\ inode' = durable[3]
    /\ file' = [h \in Handles |-> NoFile]
    /\ locked' = [i \in Inums |-> NoProc]
    /\ ops' = 0 /\ grouped' = 0 /\ UNCHANGED durable
    /\ pc' = [p \in Procs |-> "user"] /\ call' = [p \in Procs |-> NoCall]
    /\ tot' = [p \in Procs |-> 0]
    /\ panicked' = FALSE

Calls(p) ==
    \/ \E h \in Handles, n \in Sizes : FileRead(p, h, n) \/ \E v \in Vals : FileWrite(p, h, v, n)
    \/ WriteBegin(p) \/ WriteLock(p) \/ WriteBlock(p) \/ WriteEnd(p)
    \/ \E i \in Inums : Unlink(p, i) \/ \E h \in Handles : FileOpen(p, h, i)
    \/ \E h \in Handles : FileClose(p, h)
    \/ TruncDirect(p) \/ TruncIndirect(p) \/ TruncEnd(p)

Next == Crash \/ \E p \in Procs : Calls(p)

Spec == Init /\ [][Next]_vars

-----------------------------------------------------------------------------
(* Properties *)

\* The blocks an inode has, and, while itrunc works, those it has left to free.
Indirect(ip, from, d) ==
    LET ind == ip.addrs[NDIRECT]
    IN  IF ind = 0 THEN {} ELSE {<<NDIRECT, ind>>} \cup {<<NDIRECT + 1 + k, d[ind][k]>> : k \in from..NINDIRECT-1}

Owned(ip, from, d) ==
    {x \in {<<k, ip.addrs[k]>> : k \in 0..NDIRECT-1} \cup Indirect(ip, from, d) : x[2] # 0}

Freed(i) ==
    LET ps == {p \in Procs : call[p].op = "drop" /\ Ip(p) = i /\ tot[p] > NDIRECT}
    IN  IF ps = {} THEN 0 ELSE tot[CHOOSE p \in ps : TRUE] - NDIRECT

OneOwner(marked, owned) ==
    /\ \A i, j \in Inums : \A x \in owned[i], y \in owned[j] : x[2] = y[2] => i = j /\ x = y
    /\ UNION {{x[2] : x \in owned[i]} : i \in Inums} = marked

\* Every block in use belongs to one place of one file, and every other is free: in
\* memory between any two steps of two calls, and on the disk after a crash.
BlocksHaveOneOwner ==
    /\ OneOwner(bitmap, [i \in Inums |-> Owned(inode[i], Freed(i), data)])
    /\ OneOwner(durable[1], [i \in Inums |-> Owned(durable[3][i], 0, durable[2])])

\* The bytes of a file, through its block list.
Bytes(ip, d) ==
    LET addr(bn) == IF bn < NDIRECT THEN ip.addrs[bn] ELSE d[ip.addrs[NDIRECT]][bn - NDIRECT]
    IN  [k \in 1..ip.size |-> d[addr((k - 1) \div BSIZE)][(k - 1) % BSIZE]]

Content(i) ==
    IF \E p \in Procs : call[p].op = "drop" /\ Ip(p) = i THEN <<>>
    ELSE Bytes(inode[i], data)

Files == INSTANCE FileStore
             WITH Initial <- [i \in Inums |-> Bytes(Mkfs.inode[i], Mkfs.data)],
                  content <- [i \in Inums |-> Content(i)],
                  saved <- [i \in Inums |-> Bytes(durable[3][i], durable[2])]

\* Blocks are shared out, reused and freed, calls are cut into transactions and cut
\* off by crashes, and still every file is a sequence of bytes of its own.
ImplementsFileStore == Files!Spec
=============================================================================

------------------------------ MODULE FileSys -------------------------------
(***************************************************************************)
(* Inodes, directories, open files and the system calls on them: fs.c,     *)
(* file.c, sysfile.c.                                                      *)
(*                                                                         *)
(* A process in a call holds references to cached inodes (iget, iput) and  *)
(* locks them one at a time or parent before child (ilock, iunlock).  What *)
(* it does between taking a lock and letting it go is one step when it     *)
(* takes no other lock meanwhile; iput is three steps, as it looks at ref, *)
(* frees the inode and drops ref under different locks.  A step that needs *)
(* a sleep lock waits for it to be free (BufCache models the sleeping).    *)
(*                                                                         *)
(* File contents are left out, directories are functions from names to     *)
(* inode numbers.  Calls run inside transactions: see Log.  Paths are      *)
(* absolute, name something below the root (the path "/", for which namex  *)
(* returns the root or no parent at once, is left out), and current        *)
(* directories stay at the root.                                           *)
(***************************************************************************)
EXTENDS Naturals, Sequences, FiniteSets

CONSTANTS
    Procs, NoProc,
    Names,       \* names a directory may hold besides "." and ".."
    NInodes,     \* sb.ninodes - 1: inodes on disk
    NINODE,      \* entries of the inode cache
    NFILE,       \* entries of the file table
    NOFILE,      \* descriptors of a process
    Calls        \* calls the processes make: op, path and, for link, new path

Root == 1        \* ROOTINO
Dots == {".", ".."}
Paths == Seq(Names \cup Dots) \ {<<>>}

ASSUME FileSysAssumption ==
    /\ NoProc \notin Procs
    /\ Names \cap Dots = {}
    /\ NInodes \in Nat \ {0} /\ NINODE \in Nat \ {0} /\ NFILE \in Nat /\ NOFILE \in Nat
    /\ IsFiniteSet(Procs) /\ IsFiniteSet(Names)
    /\ Calls \subseteq
          [op : {"open", "create", "mkdir", "unlink"}, path : Paths, write : BOOLEAN]
          \cup [op : {"link"}, path : Paths, new : Paths]

VARIABLES
    dinode,    \* on disk: type, nlink and, for a directory, its entries
    icache,    \* cached inodes; owner is the holder of the sleep lock
    ftable,    \* open files: reference count and inode
    ofile,     \* descriptors
    pc,        \* what each process does next
    call,      \* the call it is in
    rest,      \* path elements namex has not consumed
    ip, dp,    \* its pointers to cached inodes; 0 for none
    old,       \* the inode sys_link gives a new name
    inum,      \* the inode number ialloc chose
    puts,      \* iput calls to make: slot, and whether iunlock comes first
    ret,       \* what follows them
    panicked   \* the panic that stopped the machine, if any

locals == <<call, rest, ip, dp, old, inum>>
files == <<ftable, ofile>>
vars == <<dinode, icache, files, pc, locals, puts, ret, panicked>>

Inums == 1..NInodes
Slots == 1..NINODE
Files == 1..NFILE
Fds == 0..NOFILE-1
NoEntries == [n \in Names \cup Dots |-> 0]

-----------------------------------------------------------------------------
(* Helpers *)

At(p, label) == panicked = "no" /\ pc[p] = label
Goto(p, label) == pc' = [pc EXCEPT ![p] = label]
Panic(why) ==
    /\ panicked' = why
    /\ UNCHANGED <<dinode, icache, files, pc, locals, puts, ret>>

Set(f, p, v) == [f EXCEPT ![p] = v]

\* iput each slot of s in turn, then go on at label; held: iunlockput.
Put(s) == [slot |-> s, held |-> FALSE]
UnlockPut(s) == [slot |-> s, held |-> TRUE]
Putting(p, s, label) ==
    /\ puts' = Set(puts, p, s)
    /\ ret' = Set(ret, p, label)
    /\ Goto(p, "put")
NoPuts == UNCHANGED <<puts, ret>>

\* Back to user mode the call's arguments are gone.
NoCall == [op |-> "none"]
Resume(p, label) ==
    /\ Goto(p, label)
    /\ IF label = "user" THEN call' = Set(call, p, NoCall) /\ rest' = Set(rest, p, <<>>)
                         ELSE UNCHANGED <<call, rest>>

Op(p) == call[p].op

\* create, unlink and link want the parent of the last path element.
WantsParent(p) == Op(p) \in {"create", "mkdir", "unlink", "link_new"}

\* Where namex returns to with an inode, and without one.
Found(p) == IF Op(p) = "mkdir" THEN "create" ELSE Op(p)
Failed(p) == IF Op(p) = "link_new" THEN "link_undo" ELSE "user"

-----------------------------------------------------------------------------
(* iget, ilock *)

\* The first loop of iget.
InCache(n) == {s \in Slots : icache[s].ref > 0 /\ icache[s].inum = n}
Empty == {s \in Slots : icache[s].ref = 0}

CanIget(n) == InCache(n) # {} \/ Empty # {}

\* The entry iget returns.
Iget(n) ==
    IF InCache(n) # {} THEN CHOOSE s \in InCache(n) : TRUE
    ELSE CHOOSE s \in Empty : \A t \in Empty : s <= t

\* The cache c after that iget, which reads nothing from the disk.
Gotten(c, n) ==
    IF InCache(n) # {} THEN [c EXCEPT ![Iget(n)].ref = @ + 1]
    ELSE [c EXCEPT ![Iget(n)].inum = n, ![Iget(n)].ref = 1, ![Iget(n)].valid = FALSE]

\* The entry once ilock has read it from the disk if need be.
Read(s) ==
    IF icache[s].valid THEN icache[s]
    ELSE [icache[s] EXCEPT !.valid = TRUE, !.type = dinode[icache[s].inum].type,
                           !.nlink = dinode[icache[s].inum].nlink]

Locked(s) == [icache EXCEPT ![s] = Read(s)]
Hold(c, p, s) == [c EXCEPT ![s].owner = p]

\* The slot whose lock a process at this label takes next.
Wanted(p) ==
    CASE pc[p] \in {"walk", "open", "create_found", "create_new", "unlink_ip", "link"} -> ip[p]
      [] pc[p] \in {"create", "unlink", "link_new"} -> dp[p]
      [] pc[p] = "link_undo" -> old[p]
      [] pc[p] = "put" /\ ~Head(puts[p]).held -> Head(puts[p]).slot
      [] OTHER -> 0

\* ilock returns when the lock is free.
Ilock(p, label) == At(p, label) /\ icache[Wanted(p)].owner = NoProc

Type(s) == Read(s).type

\* The panics of ilock: no reference, or no type.
AfterIlock(s) == panicked' = IF icache[s].ref < 1 \/ Type(s) = "none" THEN "ilock" ELSE "no"

Entry(s, n) == dinode[icache[s].inum].ents[n]

-----------------------------------------------------------------------------
(* iunlock and iput *)

Iunlock(p) ==
    /\ At(p, "put")
    /\ Head(puts[p]).held
    /\ icache' = Hold(icache, NoProc, Head(puts[p]).slot)
    /\ puts' = [puts EXCEPT ![p][1].held = FALSE]
    /\ UNCHANGED <<dinode, files, pc, locals, ret, panicked>>

\* Mutant: the inode is freed while others refer to it.
LastLinkOnly(s) == icache[s].valid /\ icache[s].nlink = 0

LastUse(s) == icache[s].valid /\ icache[s].nlink = 0 /\ icache[s].ref = 1

\* acquiresleep, the test of nlink and ref, and releasesleep unless it frees.
IputTest(p) ==
    LET s == Head(puts[p]).slot
    IN  /\ At(p, "put")
        /\ ~Head(puts[p]).held
        /\ icache[s].owner = NoProc
        /\ IF LastUse(s) THEN icache' = Hold(icache, p, s) /\ Goto(p, "free")
                         ELSE Goto(p, "drop") /\ UNCHANGED icache
        /\ UNCHANGED <<dinode, files, locals, puts, ret, panicked>>

\* Mutant: the entry stays valid after the inode is freed.
FreedValid(s) == [icache EXCEPT ![s].type = "none", ![s].owner = NoProc]

Freed(s) == [icache EXCEPT ![s].type = "none", ![s].nlink = 0, ![s].valid = FALSE, ![s].owner = NoProc]

\* itrunc, type = 0, iupdate, valid = 0, releasesleep.
IputFree(p) ==
    LET s == Head(puts[p]).slot
    IN  /\ At(p, "free")
        /\ dinode' = [dinode EXCEPT ![icache[s].inum] =
                          [type |-> "none", nlink |-> 0, ents |-> NoEntries]]
        /\ icache' = Freed(s)
        /\ Goto(p, "drop")
        /\ UNCHANGED <<files, locals, puts, ret, panicked>>

\* What is left in an entry without references is never read: iget overwrites it.
NoInode == [ref |-> 0, inum |-> 0, valid |-> FALSE, type |-> "none", nlink |-> 0, owner |-> NoProc]

Dropped(s) ==
    [icache EXCEPT ![s] = IF icache[s].ref = 1 THEN NoInode ELSE [icache[s] EXCEPT !.ref = @ - 1]]

IputDrop(p) ==
    /\ At(p, "drop")
    /\ icache' = Dropped(Head(puts[p]).slot)
    /\ puts' = [puts EXCEPT ![p] = Tail(@)]
    /\ IF Len(puts[p]) > 1 THEN Resume(p, "put") /\ UNCHANGED ret
                            ELSE Resume(p, ret[p]) /\ ret' = Set(ret, p, "user")
    /\ UNCHANGED <<dinode, files, ip, dp, old, inum, panicked>>

-----------------------------------------------------------------------------
(* namex *)

\* A call enters namex with a reference to the root directory.
Start(p, c) ==
    /\ At(p, "user")
    /\ IF ~CanIget(Root) THEN Panic("iget")
       ELSE /\ icache' = Gotten(icache, Root)
            /\ call' = Set(call, p, c)
            /\ rest' = Set(rest, p, c.path)
            /\ ip' = Set(ip, p, Iget(Root))
            /\ Goto(p, "walk")
            /\ UNCHANGED <<dinode, files, dp, old, inum, puts, ret, panicked>>

\* One turn of the loop: ilock, dirlookup, iunlockput.
Walk(p) ==
    LET s == ip[p]
        n == Entry(s, Head(rest[p]))
        last == Len(rest[p]) = 1
    IN  /\ Ilock(p, "walk")
        /\ CASE Type(s) = "dir" /\ WantsParent(p) /\ last ->
                  /\ icache' = Locked(s)
                  /\ dp' = Set(dp, p, s)
                  /\ ip' = Set(ip, p, 0)
                  /\ Goto(p, Found(p))
                  /\ NoPuts /\ AfterIlock(s) /\ UNCHANGED rest
             [] Type(s) # "dir" \/ (~(WantsParent(p) /\ last) /\ n = 0) ->
                  /\ icache' = Locked(s)
                  /\ ip' = Set(ip, p, 0)
                  /\ Putting(p, <<Put(s)>>, Failed(p))
                  /\ AfterIlock(s) /\ UNCHANGED <<dp, rest>>
             [] OTHER ->
                  IF CanIget(n)
                  THEN /\ icache' = Gotten(Locked(s), n)
                       /\ ip' = Set(ip, p, Iget(n))
                       /\ rest' = Set(rest, p, Tail(rest[p]))
                       /\ Putting(p, <<Put(s)>>, IF last THEN Found(p) ELSE "walk")
                       /\ AfterIlock(s) /\ UNCHANGED dp
                  ELSE panicked' = "iget" /\ NoPuts /\ UNCHANGED <<icache, pc, ip, dp, rest>>
        /\ UNCHANGED <<dinode, files, call, old, inum>>

-----------------------------------------------------------------------------
(* sys_open, sys_close, sys_dup, the calls on an open file *)

\* open without O_CREATE: a directory opens only for reading.
Open(p) ==
    LET s == ip[p]
    IN  /\ Ilock(p, "open")
        /\ IF Type(s) = "dir" /\ call[p].write
             THEN /\ icache' = Locked(s)
                  /\ ip' = Set(ip, p, 0)
                  /\ Putting(p, <<Put(s)>>, "user")
             ELSE /\ icache' = Hold(Locked(s), p, s)
                  /\ Goto(p, "openfile")
                  /\ NoPuts /\ UNCHANGED ip
        /\ AfterIlock(s) /\ UNCHANGED <<dinode, files, call, rest, dp, old, inum>>

FreeFiles == {f \in Files : ftable[f].ref = 0}
FreeFds(p) == {d \in Fds : ofile[p][d] = 0}
Least(S) == CHOOSE x \in S : \A y \in S : x <= y

\* filealloc and fdalloc, with the inode locked; the file takes over the reference.
OpenFile(p) ==
    LET s == ip[p]
    IN  /\ At(p, "openfile")
        /\ ip' = Set(ip, p, 0)
        /\ IF FreeFiles = {} \/ FreeFds(p) = {}
             THEN Putting(p, <<UnlockPut(s)>>, "user") /\ UNCHANGED <<icache, files, call, rest>>
             ELSE LET f == Least(FreeFiles)
                  IN  /\ ftable' = Set(ftable, f, [ref |-> 1, ip |-> s])
                      /\ ofile' = [ofile EXCEPT ![p][Least(FreeFds(p))] = f]
                      /\ icache' = Hold(icache, NoProc, s)
                      /\ Resume(p, "user")
                      /\ NoPuts
        /\ UNCHANGED <<dinode, dp, old, inum, panicked>>

\* sys_close and fileclose: the last close puts the inode.
Close(p, d) ==
    LET f == ofile[p][d]
    IN  /\ At(p, "user")
        /\ f # 0
        /\ ofile' = [ofile EXCEPT ![p][d] = 0]
        /\ IF ftable[f].ref > 1
             THEN ftable' = [ftable EXCEPT ![f].ref = @ - 1] /\ NoPuts /\ UNCHANGED pc
             ELSE /\ ftable' = Set(ftable, f, [ref |-> 0, ip |-> 0])
                  /\ Putting(p, <<Put(ftable[f].ip)>>, "user")
        /\ UNCHANGED <<dinode, icache, locals, panicked>>

\* Mutant: the second descriptor is not counted.
DupUncounted(p, d) ==
    /\ At(p, "user")
    /\ ofile[p][d] # 0
    /\ FreeFds(p) # {}
    /\ ofile' = [ofile EXCEPT ![p][Least(FreeFds(p))] = ofile[p][d]]
    /\ UNCHANGED <<dinode, icache, ftable, pc, locals, puts, ret, panicked>>

\* sys_dup: fdalloc, then filedup.
Dup(p, d) ==
    /\ At(p, "user")
    /\ ofile[p][d] # 0
    /\ FreeFds(p) # {}
    /\ ofile' = [ofile EXCEPT ![p][Least(FreeFds(p))] = ofile[p][d]]
    /\ ftable' = [ftable EXCEPT ![ofile[p][d]].ref = @ + 1]
    /\ UNCHANGED <<dinode, icache, pc, locals, puts, ret, panicked>>

\* fileread, filewrite, filestat: the inode is locked for the length of the call.
UseFile(p, d) ==
    LET s == ftable[ofile[p][d]].ip
    IN  /\ At(p, "user")
        /\ ofile[p][d] # 0
        /\ icache[s].owner = NoProc
        /\ icache' = Locked(s)
        /\ AfterIlock(s)
        /\ UNCHANGED <<dinode, files, pc, locals, puts, ret>>

-----------------------------------------------------------------------------
(* create, for sys_open and sys_mkdir *)

\* With the parent locked: an existing name is looked at without the parent.
Create(p) ==
    LET s == dp[p]
        n == Entry(s, Head(rest[p]))
    IN  /\ Ilock(p, "create")
        /\ IF n = 0
             THEN /\ icache' = Hold(Locked(s), p, s)
                  /\ Goto(p, "ialloc")
                  /\ NoPuts /\ AfterIlock(s) /\ UNCHANGED <<ip, dp>>
             ELSE IF CanIget(n)
             THEN /\ icache' = Gotten(Locked(s), n)
                  /\ ip' = Set(ip, p, Iget(n))
                  /\ dp' = Set(dp, p, 0)
                  /\ Putting(p, <<Put(s)>>, "create_found")
                  /\ AfterIlock(s)
             ELSE panicked' = "iget" /\ NoPuts /\ UNCHANGED <<icache, pc, ip, dp>>
        /\ UNCHANGED <<dinode, files, call, rest, old, inum>>

\* Only open finds an existing plain file good enough.
CreateFound(p) ==
    LET s == ip[p]
    IN  /\ Ilock(p, "create_found")
        /\ IF Op(p) = "create" /\ Type(s) = "file"
             THEN /\ icache' = Hold(Locked(s), p, s)
                  /\ Goto(p, "openfile")
                  /\ NoPuts /\ UNCHANGED ip
             ELSE /\ icache' = Locked(s)
                  /\ ip' = Set(ip, p, 0)
                  /\ Putting(p, <<Put(s)>>, "user")
        /\ AfterIlock(s) /\ UNCHANGED <<dinode, files, call, rest, dp, old, inum>>

NewType(p) == IF Op(p) = "mkdir" THEN "dir" ELSE "file"
FreeInodes == {n \in Inums : dinode[n].type = "none"}

\* ialloc marks the first free inode on disk.
Ialloc(p) ==
    LET n == Least(FreeInodes)
    IN  /\ At(p, "ialloc")
        /\ IF FreeInodes = {} THEN Panic("ialloc")
           ELSE /\ dinode' = Set(dinode, n, [type |-> NewType(p), nlink |-> 0, ents |-> NoEntries])
                /\ inum' = Set(inum, p, n)
                /\ Goto(p, "ialloc_iget")
                /\ UNCHANGED <<icache, files, call, rest, ip, dp, old, puts, ret, panicked>>

\* ... and then asks the cache for it.
IallocIget(p) ==
    /\ At(p, "ialloc_iget")
    /\ IF ~CanIget(inum[p]) THEN Panic("iget")
       ELSE /\ icache' = Gotten(icache, inum[p])
            /\ ip' = Set(ip, p, Iget(inum[p]))
            /\ Goto(p, "create_new")
            /\ UNCHANGED <<dinode, files, call, rest, dp, old, inum, puts, ret, panicked>>

\* The new inode's link, the dots of a directory, its name in the parent; the
\* parent is unlocked and put while the new inode is locked.
CreateNew(p) ==
    LET s == ip[p]
        d == dp[p]
        n == icache[s].inum
        m == icache[d].inum
        dir == Op(p) = "mkdir"
        up == icache[d].nlink + (IF dir THEN 1 ELSE 0)
        ents == IF dir THEN [NoEntries EXCEPT !["."] = n, ![".."] = m] ELSE NoEntries
    IN  /\ Ilock(p, "create_new")
        /\ dinode' = [dinode EXCEPT ![n].nlink = 1, ![n].ents = ents,
                                    ![m].nlink = up, ![m].ents[Head(rest[p])] = n]
        /\ icache' = [Hold(Locked(s), p, s) EXCEPT ![s].nlink = 1, ![d].nlink = up]
        /\ dp' = Set(dp, p, 0)
        /\ inum' = Set(inum, p, 0)
        /\ IF dir THEN /\ ip' = Set(ip, p, 0)
                       /\ Putting(p, <<UnlockPut(d), UnlockPut(s)>>, "user")
                  ELSE /\ Putting(p, <<UnlockPut(d)>>, "openfile")
                       /\ UNCHANGED ip
        /\ AfterIlock(s) /\ UNCHANGED <<files, call, rest, old>>

-----------------------------------------------------------------------------
(* sys_unlink *)

Unlink(p) ==
    LET s == dp[p]
        n == Entry(s, Head(rest[p]))
    IN  /\ Ilock(p, "unlink")
        /\ IF Head(rest[p]) \in Dots \/ n = 0
             THEN /\ icache' = Locked(s)
                  /\ dp' = Set(dp, p, 0)
                  /\ Putting(p, <<Put(s)>>, "user")
                  /\ AfterIlock(s) /\ UNCHANGED ip
             ELSE IF CanIget(n)
             THEN /\ icache' = Hold(Gotten(Locked(s), n), p, s)
                  /\ ip' = Set(ip, p, Iget(n))
                  /\ Goto(p, "unlink_ip")
                  /\ NoPuts /\ AfterIlock(s) /\ UNCHANGED dp
             ELSE panicked' = "iget" /\ NoPuts /\ UNCHANGED <<icache, pc, ip, dp>>
        /\ UNCHANGED <<dinode, files, call, rest, old, inum>>

IsDirEmpty(n) == \A x \in Names : dinode[n].ents[x] = 0

\* With both locked the entry is erased; the parent is put first, its child locked.
UnlinkIp(p) ==
    LET s == ip[p]
        d == dp[p]
        n == icache[s].inum
        m == icache[d].inum
        down == icache[d].nlink - (IF Type(s) = "dir" THEN 1 ELSE 0)
    IN  /\ Ilock(p, "unlink_ip")
        /\ dp' = Set(dp, p, 0)
        /\ IF Read(s).nlink < 1
             THEN panicked' = "unlink" /\ NoPuts /\ UNCHANGED <<dinode, icache, ip, pc>>
             ELSE IF Type(s) = "dir" /\ ~IsDirEmpty(n)
             THEN /\ icache' = Locked(s)
                  /\ ip' = Set(ip, p, 0)
                  /\ Putting(p, <<Put(s), UnlockPut(d)>>, "user")
                  /\ AfterIlock(s) /\ UNCHANGED dinode
             ELSE /\ icache' = [Hold(Locked(s), p, s) EXCEPT ![d].nlink = down]
                  /\ dinode' = [dinode EXCEPT ![m].nlink = down, ![m].ents[Head(rest[p])] = 0]
                  /\ Putting(p, <<UnlockPut(d)>>, "unlink_dec")
                  /\ AfterIlock(s) /\ UNCHANGED ip
        /\ UNCHANGED <<files, call, rest, old, inum>>

\* The link is given up once the name is gone.
UnlinkDec(p) ==
    LET s == ip[p]
    IN  /\ At(p, "unlink_dec")
        /\ icache' = [icache EXCEPT ![s].nlink = @ - 1]
        /\ dinode' = [dinode EXCEPT ![icache[s].inum].nlink = icache[s].nlink - 1]
        /\ ip' = Set(ip, p, 0)
        /\ Putting(p, <<UnlockPut(s)>>, "user")
        /\ UNCHANGED <<files, call, rest, dp, old, inum, panicked>>

-----------------------------------------------------------------------------
(* sys_link *)

\* The link is counted before its name exists.
Link(p) ==
    LET s == ip[p]
        up == Read(s).nlink + 1
    IN  /\ Ilock(p, "link")
        /\ ip' = Set(ip, p, 0)
        /\ IF Type(s) = "dir"
             THEN /\ icache' = Locked(s)
                  /\ Putting(p, <<Put(s)>>, "user")
                  /\ UNCHANGED <<dinode, old>>
             ELSE /\ icache' = [Locked(s) EXCEPT ![s].nlink = up]
                  /\ dinode' = [dinode EXCEPT ![icache[s].inum].nlink = up]
                  /\ old' = Set(old, p, s)
                  /\ Goto(p, "link_walk")
                  /\ NoPuts
        /\ AfterIlock(s) /\ UNCHANGED <<files, call, rest, dp, inum>>

\* nameiparent(new).
LinkWalk(p) ==
    /\ At(p, "link_walk")
    /\ IF ~CanIget(Root) THEN Panic("iget")
       ELSE /\ icache' = Gotten(icache, Root)
            /\ call' = [call EXCEPT ![p].op = "link_new"]
            /\ rest' = Set(rest, p, call[p].new)
            /\ ip' = Set(ip, p, Iget(Root))
            /\ Goto(p, "walk")
            /\ UNCHANGED <<dinode, files, dp, old, inum, puts, ret, panicked>>

\* dirlink: a name that exists is looked up and put with the directory locked.
LinkNew(p) ==
    LET s == dp[p]
        n == Entry(s, Head(rest[p]))
    IN  /\ Ilock(p, "link_new")
        /\ dp' = Set(dp, p, 0)
        /\ IF n = 0
             THEN /\ icache' = Locked(s)
                  /\ dinode' = [dinode EXCEPT ![icache[s].inum].ents[Head(rest[p])] =
                                    icache[old[p]].inum]
                  /\ old' = Set(old, p, 0)
                  /\ Putting(p, <<Put(s), Put(old[p])>>, "user")
                  /\ AfterIlock(s)
             ELSE IF CanIget(n)
             THEN /\ icache' = Hold(Gotten(Locked(s), n), p, s)
                  /\ Putting(p, <<Put(Iget(n)), UnlockPut(s)>>, "link_undo")
                  /\ AfterIlock(s) /\ UNCHANGED <<dinode, old>>
             ELSE panicked' = "iget" /\ NoPuts /\ UNCHANGED <<dinode, icache, pc, old>>
        /\ UNCHANGED <<files, call, rest, ip, inum>>

\* cleanupsyslink.
LinkUndo(p) ==
    LET s == old[p]
        down == Read(s).nlink - 1
    IN  /\ Ilock(p, "link_undo")
        /\ icache' = [Locked(s) EXCEPT ![s].nlink = down]
        /\ dinode' = [dinode EXCEPT ![icache[s].inum].nlink = down]
        /\ old' = Set(old, p, 0)
        /\ Putting(p, <<Put(s)>>, "user")
        /\ AfterIlock(s) /\ UNCHANGED <<files, call, rest, ip, dp, inum>>

-----------------------------------------------------------------------------
(* Specification *)

\* The CPU spins in panic.
Halted == panicked # "no" /\ UNCHANGED vars

\* An image with an empty root directory, which is every process's cwd.
Init ==
    /\ dinode = [n \in Inums |->
                    IF n = Root THEN [type |-> "dir", nlink |-> 1,
                                      ents |-> [NoEntries EXCEPT !["."] = Root, ![".."] = Root]]
                    ELSE [type |-> "none", nlink |-> 0, ents |-> NoEntries]]
    /\ icache = [s \in Slots |-> IF s = 1 THEN [NoInode EXCEPT !.ref = Cardinality(Procs), !.inum = Root]
                                ELSE NoInode]
    /\ ftable = [f \in Files |-> [ref |-> 0, ip |-> 0]]
    /\ ofile = [p \in Procs |-> [d \in Fds |-> 0]]
    /\ pc = [p \in Procs |-> "user"]
    /\ call = [p \in Procs |-> NoCall]
    /\ rest = [p \in Procs |-> <<>>]
    /\ ip = [p \in Procs |-> 0]
    /\ dp = [p \in Procs |-> 0]
    /\ old = [p \in Procs |-> 0]
    /\ inum = [p \in Procs |-> 0]
    /\ puts = [p \in Procs |-> <<>>]
    /\ ret = [p \in Procs |-> "user"]
    /\ panicked = "no"

InCall(p) ==
    \/ Walk(p) \/ Open(p) \/ OpenFile(p)
    \/ Create(p) \/ CreateFound(p) \/ Ialloc(p) \/ IallocIget(p) \/ CreateNew(p)
    \/ Unlink(p) \/ UnlinkIp(p) \/ UnlinkDec(p)
    \/ Link(p) \/ LinkWalk(p) \/ LinkNew(p) \/ LinkUndo(p)
    \/ Iunlock(p) \/ IputTest(p) \/ IputFree(p) \/ IputDrop(p)

FromUser(p) ==
    \/ \E c \in Calls : Start(p, c)
    \/ \E d \in Fds : Close(p, d) \/ Dup(p, d) \/ UseFile(p, d)

Next ==
    \/ \E p \in Procs : InCall(p) \/ FromUser(p)
    \/ Halted

Spec == Init /\ [][Next]_vars

-----------------------------------------------------------------------------
(* Properties *)

Labels == {"user", "walk", "open", "openfile", "create", "create_found", "ialloc", "ialloc_iget",
           "create_new", "unlink", "unlink_ip", "unlink_dec", "link", "link_walk", "link_new",
           "link_undo", "put", "free", "drop"}

\* Types of the file system's variables.
TypeOK ==
    /\ dinode \in [Inums -> [type : {"none", "file", "dir"}, nlink : Nat,
                             ents : [Names \cup Dots -> 0..NInodes]]]
    /\ icache \in [Slots -> [ref : Nat, inum : 0..NInodes, valid : BOOLEAN,
                             type : {"none", "file", "dir"}, nlink : Nat, owner : Procs \cup {NoProc}]]
    /\ ftable \in [Files -> [ref : Nat, ip : 0..NINODE]]
    /\ ofile \in [Procs -> [Fds -> 0..NFILE]]
    /\ pc \in [Procs -> Labels] /\ ret \in [Procs -> Labels]
    /\ ip \in [Procs -> 0..NINODE] /\ dp \in [Procs -> 0..NINODE] /\ old \in [Procs -> 0..NINODE]
    /\ inum \in [Procs -> 0..NInodes]
    /\ puts \in [Procs -> Seq([slot : Slots, held : BOOLEAN])]

\* The pointers to slot s: current directories, open files, and what calls hold.
Pointers(s) ==
    Cardinality({p \in Procs : s = 1})
    + Cardinality({f \in Files : ftable[f].ref > 0 /\ ftable[f].ip = s})
    + Cardinality({p \in Procs : ip[p] = s}) + Cardinality({p \in Procs : dp[p] = s})
    + Cardinality({p \in Procs : old[p] = s})
    + Cardinality({e \in Procs \X (1..2) : e[2] <= Len(puts[e[1]]) /\ puts[e[1]][e[2]].slot = s})

\* "ip->ref tracks the number of in-memory pointers to the entry": no call, on any
\* path through its error exits, leaks a reference or puts one twice, and a file's
\* count is that of its descriptors.
RefsArePointers ==
    panicked = "no" =>
        /\ \A s \in Slots : icache[s].ref = Pointers(s)
        /\ \A f \in Files : ftable[f].ref = Cardinality({e \in Procs \X Fds : ofile[e[1]][e[2]] = f})

\* An inode is cached once, and what a free lock shows of it is what the disk has,
\* though its number may have been freed and taken again meanwhile.
CacheCoherent ==
    \A s \in Slots : icache[s].ref > 0 =>
        /\ \A t \in Slots : icache[t].ref > 0 /\ icache[t].inum = icache[s].inum => s = t
        /\ icache[s].valid => /\ icache[s].type = dinode[icache[s].inum].type
                              /\ icache[s].nlink = dinode[icache[s].inum].nlink

\* Nobody locks an inode that has been freed, or unlinks one without links: what a
\* call or an open file refers to stays allocated after its last name is gone.
NoLostInode == panicked \notin {"ilock", "unlink"}

=============================================================================

------------------------------ MODULE FileStore -----------------------------
(***************************************************************************)
(* What files promise: each is a sequence of bytes of its own.  A write    *)
(* puts bytes at an offset that is at most the length; nothing else        *)
(* changes a file but its removal, and a crash, which takes all of them    *)
(* back to an earlier moment.                                              *)
(***************************************************************************)
EXTENDS Integers, Sequences

CONSTANTS Inums, Vals, Initial

VARIABLES
    content,  \* the bytes of each file
    saved     \* what a crash leaves of them

Init == content = Initial /\ saved = Initial

\* From m to n by writing one byte over and over, at an offset of at most the length.
Write(m, n) ==
    /\ Len(n) >= Len(m)
    /\ LET changed == {k \in 1..Len(n) : k > Len(m) \/ n[k] # m[k]}
       IN  \E v \in Vals : \A j, l \in changed : \A k \in j..l : n[k] = v

Remove(n) == n = <<>>

\* One file changes, and a change may be made to last at once.
Change == /\ content' # content
          /\ \E i \in Inums :
                /\ \A j \in Inums \ {i} : content'[j] = content[j]
                /\ Remove(content'[i]) \/ Write(content[i], content'[i])
          /\ saved' \in {saved, content'}

Save == saved' = content /\ content' = content

Crash == content' = saved /\ saved' = saved

Next == Crash \/ Save \/ Change

Spec == Init /\ [][Next]_<<content, saved>>
=============================================================================

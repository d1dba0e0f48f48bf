----------------------------- MODULE MCFileSys ------------------------------
(* Calls for the runs of FileSys. *)
EXTENDS FileSys, TLC

One(op, path) == [op |-> op, path |-> path, write |-> FALSE]
LinkTo(path, new) == [op |-> "link", path |-> path, new |-> new]

\* A file in a directory that comes and goes, and its second name in the root.
DirCalls == {One("mkdir", <<"d">>), One("unlink", <<"d">>), One("create", <<"d", "a">>),
             One("unlink", <<"d", "a">>), LinkTo(<<"d", "a">>, <<"a">>), One("unlink", <<"a">>),
             [op |-> "open", path |-> <<"d">>, write |-> TRUE]}

Symmetric == Permutations(Procs)
=============================================================================

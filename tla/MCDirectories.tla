--------------------------- MODULE MCDirectories ---------------------------
(* The instances of Directories that TLC checks. *)
EXTENDS Directories, TLC

Call(op, path) == [op |-> op, path |-> path, new |-> <<>>]

\* Two processes, all blocks full: calls that meet in one directory.
MeetingCalls ==
    {Call("open", <<"b">>), Call("excl", <<"b">>), Call("mkdir", <<"c">>), Call("namei", <<>>),
     Call("rmdir", <<"d">>), Call("rmdir", <<".">>), Call("unlink", <<"a">>), Call("unlink", <<"d">>),
     Call("read", <<"d", "">>), Call("read", <<"d", "a">>), Call("mknod", <<"d", "a">>),
     Call("namei", <<"d", "..", "a">>),
     [op |-> "link", path |-> <<"a">>, new |-> <<"d", "b">>],
     [op |-> "link", path |-> <<"a">>, new |-> <<"d", "">>],
     [op |-> "link", path |-> <<"a">>, new |-> <<>>]}

Perms == Permutations(Procs)
=============================================================================

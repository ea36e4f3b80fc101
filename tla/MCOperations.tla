----------------------------- MODULE MCOperations -----------------------------
(***************************************************************************)
(* Five small sets of calls, each with the steps that disturb one thing:   *)
(* what has names in two directories; what is written after it has its     *)
(* name; a directory that a snapshot shares with the tree, and one that is *)
(* moved; and names that a file and a snapshot take in turns.              *)
(***************************************************************************)
EXTENDS Operations

CONSTANT written

A == <<"a">>
B == <<"b">>
S == <<"s">>

Call(op, path) == [op |-> op, path |-> path, to |-> path, kind |-> "file", data |-> NoData]
Data(op, path, data) == [Call(op, path) EXCEPT !.data = data]
Rename(path, to) == [Call("rename", path) EXCEPT !.to = to]
Mknod(path) == [Call("mknod", path) EXCEPT !.kind = "fifo"]

Moves ==
    {Call("mkdir", <<A>>), Call("create", <<A, B>>), Call("mkdir", <<B>>),
     Call("rmdir", <<A>>), Call("unlink", <<A, B>>), Call("getattr", <<A, B>>),
     Rename(<<A>>, <<B>>), Rename(<<A, B>>, <<B>>), Rename(<<B>>, <<A, B>>)}

Writes ==
    {Call("mkdir", <<A>>), Call("create", <<A, B>>), Mknod(<<A, B>>), Data("symlink", <<B>>, <<written>>),
     Data("write", <<A, B>>, <<written>>), Call("unlink", <<B>>), Call("rmdir", <<A>>), Mknod(<<A>>)}

Copies ==
    {Call("mkdir", <<A>>), Call("create", <<A, B>>), Data("write", <<A, B>>, <<written>>),
     Call("unlink", <<A, B>>), Call("rmdir", <<A>>), Call("readdir", <<A>>),
     Call("snapshot", <<S>>), Call("rollback", <<S>>), Call("getattr", <<S, A, B>>),
     Rename(<<A, B>>, <<B>>)}

MovedCopies ==
    {Call("mkdir", <<A>>), Call("create", <<A, B>>), Data("truncate", <<B, B>>, <<Zero, Zero>>),
     Data("write", <<B, B>>, <<written, written>>),
     Rename(<<A>>, <<B>>), Call("snapshot", <<S>>), Call("rollback", <<S>>)}

Restores ==
    {Call("create", <<B>>), Call("unlink", <<B>>), Call("getattr", <<B>>), Call("rmdir", <<B>>),
     Rename(<<B>>, <<S>>), Call("snapshot", <<S>>), Call("snapshot", <<B>>),
     Call("rollback", <<S>>), Call("rollback", <<B>>), Mknod(<<B>>)}

\* The next-state relation does not read the history, so states that differ in it
\* only have the same future.
View == <<volume, inode, path_to_inode_fast_map, changed, snapshots, sound, untold>>

SmallVolumes ==
    [moves |-> [inodes |-> 4, calls |-> Moves],
     writes |-> [inodes |-> 4, calls |-> Writes],
     copies |-> [inodes |-> 5, calls |-> Copies],
     movedCopies |-> [inodes |-> 5, calls |-> MovedCopies],
     restores |-> [inodes |-> 5, calls |-> Restores]]
===============================================================================

------------------------------ MODULE Namespace ------------------------------
(***************************************************************************)
(* What the operations promise to their callers: a tree of names and       *)
(* snapshots of it that never change.  A call that succeeds does one thing *)
(* to the name it is given and to nothing else; one that fails has a       *)
(* reason and does nothing.  What the code does besides has actions of its *)
(* own: Wipe, HalfLinked, HalfWritten, HalfRestored, Lose with what comes  *)
(* after it (Stray), and Break, after which the tree is Lost because a     *)
(* directory or file was damaged when the space ran out (see FileStore).   *)
(***************************************************************************)
EXTENDS Naturals, Sequences, SequencesExt, FiniteSets, TLC

CONSTANTS Calls, Mount, DirKinds, NoData, Zero, Lost

VARIABLES
    tree,   \* the kind and the data of each path, <<>> is the root
    shots,  \* the tree each snapshot has
    stray,  \* names were lost, and may still be reached
    call, answer    \* the last call, and its error

vars == <<tree, shots, stray, call, answer>>

InShot(p) == p # <<>> /\ Head(p) \in DOMAIN shots /\ Tail(p) \in DOMAIN shots[Head(p)]
Visible(p) == p \in DOMAIN tree \/ InShot(p)
KindOf(p) == IF InShot(p) THEN shots[Head(p)][Tail(p)].kind ELSE tree[p].kind
IsDir(p) == Visible(p) /\ KindOf(p) \in DirKinds
Below(p) == {q \in DOMAIN tree : IsStrictPrefix(p, q)}
Without(S) == [q \in DOMAIN tree \ S |-> tree[q]]
CanBeNew(p) == p # <<>> /\ ~Visible(p) /\ Front(p) \in DOMAIN tree /\ IsDir(Front(p))

Init ==
    /\ tree = (<<>> :> [kind |-> "directory", data |-> NoData])
    /\ shots = <<>>
    /\ stray = FALSE
    /\ call = Mount /\ answer = ""

Same == UNCHANGED <<tree, shots>>
------------------------------------------------------------------------------
\* What a call does when it succeeds.
Add(p, kind, data) ==
    /\ CanBeNew(p)
    /\ tree' = tree @@ (p :> [kind |-> kind, data |-> data])
    /\ UNCHANGED shots

Delete(p) ==
    /\ p # <<>> /\ p \in DOMAIN tree /\ Below(p) = {}
    /\ tree' = Without({p})
    /\ UNCHANGED shots

Sized(old, len) == [i \in 1 .. len |-> IF i <= Len(old) THEN old[i] ELSE Zero]
Patched(old, data, n) == [i \in DOMAIN old |-> IF i <= n THEN data[i] ELSE old[i]]
Longer(old, data) == IF Len(data) > Len(old) THEN Sized(old, Len(data)) ELSE old

Put(p, data) ==
    /\ p \in DOMAIN tree /\ KindOf(p) = "file"
    /\ tree' = [tree EXCEPT ![p].data = data]
    /\ UNCHANGED shots

Move(p, q) ==
    LET moved == {p} \cup Below(p)
        to(r) == q \o SubSeq(r, Len(p) + 1, Len(r))
    IN  /\ p # <<>> /\ p \in DOMAIN tree /\ CanBeNew(q) /\ ~IsPrefix(p, q)
        /\ tree' = Without(moved) @@ [r \in {to(m) : m \in moved} |->
                                        tree[CHOOSE m \in moved : to(m) = r]]
        /\ UNCHANGED shots

\* A device file takes its directory's place, and the entries are gone; those of
\* the root include the snapshots.
Wipe(p, kind) ==
    /\ CanBeNew(p)
    /\ LET d == Front(p)
       IN  /\ tree' = [Without(Below(d)) EXCEPT ![d] = [kind |-> kind, data |-> NoData]]
           /\ shots' = IF d = <<>> THEN <<>> ELSE shots

Snapshot(s) ==
    /\ IsDir(<<>>) /\ ~Visible(<<s>>)
    /\ shots' = shots @@ (s :> tree)
    /\ UNCHANGED tree

\* The snapshots stay; one whose name the restored tree has gets another name.
Rollback(s) ==
    /\ s \in DOMAIN shots
    /\ tree' = shots[s]
    /\ \A n \in DOMAIN shots' : \E m \in DOMAIN shots : shots'[n] = shots[m]
    /\ \A m \in DOMAIN shots :
          \/ m \in DOMAIN shots' /\ shots'[m] = shots[m]
          \/ <<m>> \in DOMAIN tree' /\ \E n \in DOMAIN shots' : shots'[n] = shots[m]

\* The kernel sends these for what they are meant for only.
Unsent(c) ==
    /\ Visible(c.path) /\ Same
    /\ \/ c.op \in {"write", "truncate"} /\ KindOf(c.path) # "file"
       \/ c.op = "rmdir" /\ KindOf(c.path) # "directory"

Succeed(c) ==
    LET p == c.path
        old == tree[p].data
    IN  \/ c.op = "getattr" /\ Visible(p) /\ Same
        \/ c.op = "readdir" /\ Visible(p) /\ IsDir(p) /\ Same
        \/ c.op = "mkdir" /\ Add(p, "directory", NoData)
        \/ c.op = "create" /\ Add(p, "file", NoData)
        \/ c.op = "symlink" /\ Add(p, "symlink", c.data)
        \/ c.op = "mknod" /\ Wipe(p, c.kind)
        \/ c.op = "write" /\ Put(p, Patched(Longer(old, c.data), c.data, Len(c.data)))
        \/ c.op = "truncate" /\ Put(p, Sized(old, Len(c.data)))
        \/ c.op = "unlink" /\ ~IsDir(p) /\ Delete(p)
        \/ c.op = "rmdir" /\ IsDir(p) /\ Delete(p)
        \/ c.op = "rename" /\ Move(p, c.to)
        \/ c.op = "snapshot" /\ Snapshot(Last(p))
        \/ c.op = "rollback" /\ Rollback(Last(p))
        \/ Unsent(c)
------------------------------------------------------------------------------
Makes == {"mkdir", "create", "symlink", "mknod"}

\* The directories a call needs, and what else it needs.
Directories(c) ==
    IF c.op = "readdir" THEN {c.path}
    ELSE IF c.op = "rename" THEN {Front(c.path), Front(c.to)}
    ELSE {Front(c.path)}
Needs(c) ==
    Directories(c) \cup (IF c.op \in Makes \cup {"rename", "snapshot"} THEN {} ELSE {c.path})

\* Why a call may fail.  For want of space (and of a block of its own for what it
\* shares with a snapshot, EIO) any call may.
Reason(c, e) ==
    \/ e = "ENOENT" /\ \E p \in Needs(c) : ~Visible(p)
    \/ e = "ENOTDIR" /\ \E p \in Directories(c) : \E k \in 0 .. Len(p) :
          Visible(SubSeq(p, 1, k)) /\ ~IsDir(SubSeq(p, 1, k))
    \/ e = "EEXIST" /\ c.op \in Makes \cup {"snapshot"} /\ Visible(c.path)
    \/ e = "ENOTEMPTY" /\ c.op = "rmdir" /\ (InShot(c.path) \/ Below(c.path) # {})
    \/ e = "EISDIR" /\ c.op = "unlink" /\ IsDir(c.path)
    \/ e = "EROFS" /\ \/ \E p \in Needs(c) : InShot(p)
                      \/ c.op = "rename" /\ shots # <<>>
    \/ e = "EPERM" /\ \/ c.op = "snapshot"
                      \/ c.op = "rollback" /\ shots = <<>>
    \/ e = "EIO" /\ \/ shots # <<>>
                    \/ c.op = "rename" /\ ~Visible(c.path)
    \/ e = "ENOSPC"

Fail(c) == answer' # "" /\ Reason(c, answer') /\ Same

\* A link whose target could not be written has its name already.
HalfLinked(c) ==
    /\ c.op = "symlink" /\ answer' = "ENOSPC"
    /\ Add(c.path, "symlink", NoData)

\* The first blocks are written; the file is no longer than it was.
HalfWritten(c) ==
    /\ c.op = "write" /\ answer' = "EIO"
    /\ c.path \in DOMAIN tree /\ Len(c.data) <= Len(tree[c.path].data)
    /\ \E n \in 1 .. Len(c.data) - 1 : Put(c.path, Patched(tree[c.path].data, c.data, n))

\* Snapshots that are younger than the one restored are lost.
HalfRestored(c) ==
    /\ c.op = "rollback" /\ answer' = "ENOSPC"
    /\ LET s == Last(c.path)
       IN  /\ s \in DOMAIN shots /\ s \in DOMAIN shots'
           /\ tree' = shots[s]
           /\ \A n \in DOMAIN shots' : \E m \in DOMAIN shots : shots'[n] = shots[m]
    /\ stray'

\* A rename that fails may have taken the name away, and one onto a name that is
\* taken does.
Lose(c) ==
    /\ c.op = "rename" /\ c.path # <<>> /\ c.path \in DOMAIN tree
    /\ \/ answer' = "ENOSPC"
       \/ answer' = "EEXIST" /\ Visible(c.to)
    /\ tree' = Without({c.path} \cup Below(c.path))
    /\ UNCHANGED shots
    /\ stray'

\* A name that is lost still leads to what it had, for a while: calls on it or
\* below it do nothing that is seen, names below it can be moved back, and names
\* moved to where they are lost, too.
Return(q) ==
    /\ CanBeNew(q)
    /\ tree' # Lost /\ q \in DOMAIN tree'
    /\ \A r \in DOMAIN tree' : IF r \in DOMAIN tree THEN tree'[r] = tree[r] ELSE IsPrefix(q, r)
    /\ DOMAIN tree \subseteq DOMAIN tree'
    /\ UNCHANGED shots

Stray(c) ==
    /\ stray
    /\ \/ Same
       \/ c.op = "rename" /\ Return(c.to)
       \/ /\ c.op = "rename" /\ c.path # <<>> /\ c.path \in DOMAIN tree
          /\ tree' = Without({c.path} \cup Below(c.path)) /\ UNCHANGED shots

\* Out of space a directory or a file is damaged (Inode); and a rollback does not
\* look whether the name is one of a snapshot.
Break(c) ==
    /\ \/ answer' = "ENOSPC"
       \/ c.op = "rollback" /\ answer' = "" /\ c.path \in DOMAIN tree
    /\ tree' = Lost /\ shots' = <<>>

Remount ==
    /\ call' = Mount /\ answer' = ""
    /\ Same /\ ~stray'

Next ==
    \/ Remount
    \/ \E c \in Calls :
        /\ call' = c /\ tree # Lost
        /\ \/ answer' = "" /\ Succeed(c) /\ (stray' => stray)
           \/ (Fail(c) \/ HalfLinked(c) \/ HalfWritten(c)) /\ (stray' => stray)
           \/ HalfRestored(c)
           \/ Lose(c)
           \/ Stray(c)
           \/ Break(c)

Spec == Init /\ [][Next]_vars
===============================================================================

------------------------------ MODULE Operations ------------------------------
(***************************************************************************)
(* The calls of src/src/ops/operations.cpp over the directories of         *)
(* src/src/abs/inode.cpp: paths and the map that remembers what they lead  *)
(* to, names, the copies get_inode makes of frozen inodes, snapshots and   *)
(* rollback, with every way a call can fail half way.                      *)
(*                                                                         *)
(* A call holds operations_mutex from beginning to end and is one action.  *)
(* It is written as a function of a state of the call: the inodes, the     *)
(* map, the inode it has come to, the error it has met, and its luck: how  *)
(* many of its steps that need space succeed before one does not.          *)
(* Allocation itself is in BlockStore, the blocks of a file in Inode; a    *)
(* directory fits in one block.                                            *)
(***************************************************************************)
EXTENDS Naturals, Sequences, FiniteSets, SequencesExt, TLC

CONSTANTS
    Volumes,        \* bound: for each the inodes it has room for, and the calls it gets:
                    \* [op, path, to, kind, data], the data of a call from the first block on
    Luck,           \* bound: after how many steps that need space a call may find none
    MaxSnapshots,   \* 127 in directory_t::snapshot
    Zero,           \* what a block that is added to a file holds
    Lost

Root == 0
\* st_mode & S_IFDIR: the bit is set for sockets, too.
DirKinds == {"directory", "socket"}
Kind == {"directory", "file", "symlink", "fifo", "socket"}

ASSUME OperationsAssumption ==
    /\ \A v \in DOMAIN Volumes :
          /\ Volumes[v].inodes \in Nat \ {0}
          /\ \A c \in Volumes[v].calls :
                /\ c.kind \in Kind
                /\ c.path \in Seq(Range(c.path)) /\ c.to \in Seq(Range(c.to))
    /\ Luck \subseteq Nat /\ MaxSnapshots \in Nat

VARIABLES
    inode,      \* the inodes in use: kind, data, the entries of a directory, the mark of get_attr
    path_to_inode_fast_map,
    changed,    \* content_changed_out_of_sync_to_get_inode
    snapshots,  \* snapshot_number in the header
    sound,      \* no directory or file was damaged when the space ran out
    untold,     \* a call that failed had replaced names, and did not say so
    volume,     \* the volume, which never changes
    call,       \* history, which no step reads: the last call,
    answer      \* and the error it returned, "" if none

vars == <<volume, inode, path_to_inode_fast_map, changed, snapshots, sound, untold, call, answer>>

Inode == 0 .. Volumes[volume].inodes

NoEntries == <<>>
NoData == <<>>
NewInode(kind) == [kind |-> kind, data |-> NoData, entries |-> NoEntries, frozen |-> 0]

\* do_init: what comes before any call.
Mount == [op |-> "mount", path |-> <<>>, to |-> <<>>, kind |-> "directory", data |-> NoData]

Init ==
    /\ inode = [i \in {Root} |-> NewInode("directory")]
    /\ path_to_inode_fast_map = <<>>
    /\ changed = TRUE
    /\ snapshots = 0
    /\ sound = TRUE /\ untold = FALSE
    /\ volume \in DOMAIN Volumes
    /\ call = Mount /\ answer = ""
------------------------------------------------------------------------------
(***************************************************************************)
(* The state of a call.                                                    *)
(***************************************************************************)
Begin(luck) ==
    [inode |-> inode, map |-> path_to_inode_fast_map, changed |-> changed,
     snapshots |-> snapshots, sound |-> sound, untold |-> untold,
     at |-> Root, err |-> "", luck |-> luck, short |-> FALSE]

Failed(s) == s.err # ""
Throw(s, e) == [s EXCEPT !.err = e]
Entries(s, d) == s.inode[d].entries
Frozen(s, i) == s.inode[i].frozen
Without(f, x) == [y \in DOMAIN f \ {x} |-> f[y]]
With(f, x, e) == [y \in DOMAIN f \cup {x} |-> IF y = x THEN e ELSE f[y]]
Over(f, g) == [y \in DOMAIN f \cup DOMAIN g |-> IF y \in DOMAIN f THEN f[y] ELSE g[y]]

\* A map that the next call clears is as good as empty.
Remembered(s) == IF s.changed THEN <<>> ELSE s.map

\* An inode is in use when something leads to it: blocks that are live and that
\* nothing leads to are a loss of space, which is not counted here.
Reached(s) ==
    LET used  == DOMAIN s.inode
        start == used \cap ({Root} \cup {Remembered(s)[k] : k \in DOMAIN Remembered(s)})
        Closed(S) == \A d \in S : \A n \in DOMAIN Entries(s, d) : Entries(s, d)[n] \in used => Entries(s, d)[n] \in S
        closed == {S \in {start \cup T : T \in SUBSET (used \ start)} : Closed(S)}
    IN  {i \in used : \A S \in closed : i \in S}

Do(s) ==
    /\ sound
    /\ inode' = LET used == Reached(s) IN [i \in used |-> s.inode[i]]
    /\ path_to_inode_fast_map' = Remembered(s)
    /\ changed' = s.changed
    /\ snapshots' = s.snapshots
    /\ sound' \in IF s.short THEN BOOLEAN ELSE {s.sound}
    /\ untold' = (s.untold /\ ~s.changed)
    /\ answer' = s.err
    /\ UNCHANGED volume

\* The next step, unless the one before it failed.
Then(s, Rest(_)) == IF Failed(s) THEN s ELSE Rest(s)
Check(s, ok, e) == IF ok THEN s ELSE Throw(s, e)

\* make_inode<directory_t>
AsDirectory(s) ==
    Then(Check(s, s.at \in DOMAIN s.inode, "EIO"), LAMBDA t :
        Check(t, t.inode[t.at].kind \in DirKinds, "ENOTDIR"))

\* directory_t::save_dentries.  Without a change of size nothing is resized; the
\* write of a block that is shared needs a new one, and so may a resize, which
\* can damage the directory when there is none (Inode, sound).
save_dentries(s, d, list) ==
    IF list = Entries(s, d) THEN s
    ELSE IF s.luck > 0 THEN [s EXCEPT !.inode[d].entries = list, !.luck = @ - 1]
    ELSE IF Cardinality(DOMAIN list) = Cardinality(DOMAIN Entries(s, d)) THEN Throw(s, "EIO")
    ELSE [Throw(s, "ENOSPC") EXCEPT !.short = TRUE]

\* An inode for each of the names, out of those not in use, which are all alike.
Gifts(s, names) == {own \in [names -> Inode \ DOMAIN s.inode] : IsInjective(own)}
Given(s, names) == CHOOSE own \in Gifts(s, names) : TRUE
Room(s, names) == Check(s, s.luck > 0 /\ Gifts(s, names) # {}, "ENOSPC")

\* Mutant: the mark of the frozen inode is taken away.
UnsharedInPlace(s, d) ==
    LET shared == {n \in DOMAIN Entries(s, d) : Frozen(s, Entries(s, d)[n]) = 1}
    IN  IF Frozen(s, d) # 0 THEN s
        ELSE [s EXCEPT !.inode = [i \in DOMAIN @ |->
                IF \E n \in shared : Entries(s, d)[n] = i THEN [@[i] EXCEPT !.frozen = 0] ELSE @[i]]]

\* directory_t::get_inode, its loop: every frozen child of a directory that is not
\* frozen gets an inode of its own; only the roots of snapshots do not.
Unshared(s, d) ==
    LET list   == Entries(s, d)
        shared == {n \in DOMAIN list : Frozen(s, list[n]) = 1}
        copies(own) == [i \in {own[n] : n \in shared} |->
                          [s.inode[list[CHOOSE n \in shared : own[n] = i]] EXCEPT !.frozen = 0]]
        with(own) == save_dentries([s EXCEPT !.inode = Over(@, copies(own))], d, Over(own, list))
    IN  IF Frozen(s, d) # 0 \/ shared = {} THEN s
        ELSE Then(Room(s, shared), LAMBDA t : with(Given(t, shared)))

get_inode(s, d, name) ==
    Then(Unshared(s, d), LAMBDA t :
    Then(Check(t, name \in DOMAIN Entries(t, d), "ENOENT"), LAMBDA u :
        [u EXCEPT !.at = Entries(u, d)[name]]))

\* The key of a path: the names, each followed by "::".  A name may contain that
\* itself, and is the sequence of the words between.
Key(path) == FlattenSeq(path)

\* One name of a path: the map is asked first, and told of what it did not know.
get_next(s, key, name) ==
    IF key \in DOMAIN s.map THEN [s EXCEPT !.at = s.map[key]]
    ELSE Then(AsDirectory(s), LAMBDA t :
         Then(get_inode(t, t.at, name), LAMBDA u : [u EXCEPT !.map = With(@, key, u.at)]))

get_inode_by_path(s, path) ==
    LET begun == [s EXCEPT !.at = Root, !.map = IF s.changed THEN <<>> ELSE @, !.changed = FALSE]
        after[k \in 0 .. Len(path)] ==
            IF k = 0 THEN begun
            ELSE Then(after[k - 1], LAMBDA t : get_next(t, Key(SubSeq(path, 1, k)), path[k]))
    IN  Then(after[Len(path)], LAMBDA t : Check(t, t.at \in DOMAIN t.inode, "EIO"))

Directory(s, path) == Then(get_inode_by_path(s, path), AsDirectory)

\* RETURN_EROFS_IF_INODE_IS_FROZEN
NotFrozen(s, i) == Check(s, Frozen(s, i) = 0, "EROFS")

\* The directory of a name, if it may change, and what makes a new inode there.
Parent(s, path) == Then(Directory(s, Front(path)), LAMBDA t : NotFrozen(t, t.at))

\* The end of a handler that changes names.
Announced(s) == [s EXCEPT !.changed = TRUE]

\* directory_t::create_dentry, in the directory the call has come to
create_dentry(s, name, kind) ==
    LET with(new) == save_dentries([s EXCEPT !.inode = With(@, new, NewInode(kind)), !.at = new],
                                   s.at, With(Entries(s, s.at), name, new))
    IN  Then(Check(s, name \notin DOMAIN Entries(s, s.at), "EEXIST"), LAMBDA t :
        Then(Room(t, {name}), LAMBDA u : with(Given(u, {name})[name])))

\* inode_t::resize to so many blocks, of the file the call has come to
resize(s, len) ==
    LET old == s.inode[s.at].data
    IN  IF len = Len(old) THEN s
        ELSE IF s.luck > 0
        THEN [s EXCEPT !.inode[s.at].data = [p \in 1 .. len |-> IF p <= Len(old) THEN old[p] ELSE Zero],
                       !.luck = @ - 1]
        ELSE [Throw(s, "ENOSPC") EXCEPT !.short = TRUE]

\* inode_t::write, block after block.  block_redirect puts each in a new block; when
\* there is none it is written in place, or, belonging to a snapshot, refuses.
Overwritten(old, data, n) == [p \in DOMAIN old |-> IF p <= n THEN data[p] ELSE old[p]]

write(s, data, own) ==
    LET old == s.inode[s.at].data
    IN  IF own \/ Len(data) <= s.luck
        THEN [s EXCEPT !.inode[s.at].data = Overwritten(old, data, Len(data))]
        ELSE Throw([s EXCEPT !.inode[s.at].data = Overwritten(old, data, s.luck)], "EIO")

\* A resize that changes the size gives the file blocks of its own for all that a
\* snapshot has (Inode): the write after it finds none that refuses.
put(s, data) ==
    LET old == s.inode[s.at].data
    IN  IF Len(data) > Len(old)
        THEN Then(resize(s, Len(data)), LAMBDA t : write(t, data, TRUE))
        ELSE write(s, data, s.snapshots = 0)

\* directory_t::unlink_inode: the names are read before get_inode gives frozen
\* children inodes of their own.
unlink_inode(s, d, name) ==
    LET list == Without(Entries(s, d), name)
    IN  Then(get_inode(s, d, name), LAMBDA t :
        Then(save_dentries(t, d, list), LAMBDA u : [u EXCEPT !.inode = Without(@, t.at)]))
------------------------------------------------------------------------------
(***************************************************************************)
(* The handlers.                                                           *)
(***************************************************************************)
\* do_getattr, do_access, do_open, do_read and do_readlink: all they change is
\* what finding the inode changes.
do_getattr(s, path) == get_inode_by_path(s, path)

do_readdir(s, path) == Directory(s, path)

do_mkdir(s, path) ==
    Then(Parent(s, path), LAMBDA dir :
    Then(create_dentry(dir, Last(path), "directory"), Announced))

\* The errors of its get_inode are ignored, a lack of space included.
do_create(s, path) ==
    LET Created(dir, found) ==
            IF ~Failed(found) THEN Throw(found, "EEXIST")
            ELSE Then(create_dentry([found EXCEPT !.err = "", !.at = dir], Last(path), "file"), Announced)
    IN  Then(Parent(s, path), LAMBDA dir : Created(dir.at, get_inode(dir, dir.at, Last(path))))

\* Mutant: only the kind of the directory changes.
do_mknod_keeps_entries(s, path, kind) ==
    Then(Parent(s, path), LAMBDA dir :
    Then(create_dentry(dir, Last(path), kind), LAMBDA new :
        Announced([new EXCEPT !.inode[dir.at].kind = kind])))

\* It gives the header of the new inode, which is empty, to the directory.
do_mknod(s, path, kind) ==
    Then(Parent(s, path), LAMBDA dir :
    Then(create_dentry(dir, Last(path), kind), LAMBDA new :
        Announced([new EXCEPT !.inode[dir.at] = NewInode(kind)])))

\* What a link leads to is written after the link has its name; the flag is set
\* only when that succeeds.
do_symlink(s, path, data) ==
    Then(Parent(s, path), LAMBDA dir :
    Then(create_dentry(dir, Last(path), "symlink"), LAMBDA new :
    Then(put(new, data), Announced)))

\* The file of a path, if it may change.
File(s, path) == Then(get_inode_by_path(s, path), LAMBDA t : NotFrozen(t, t.at))

\* The kernel sends a write, and what only resizes, for files only.
do_write(s, path, data) ==
    Then(File(s, path), LAMBDA t :
        IF t.inode[t.at].kind = "file" THEN put(t, data) ELSE t)

do_truncate(s, path, len) ==
    Then(File(s, path), LAMBDA t :
        IF t.inode[t.at].kind = "file" THEN resize(t, len) ELSE t)

\* Mutant: the flag is forgotten.
do_unlink_quietly(s, path) ==
    Then(Directory(s, Front(path)), LAMBDA dir :
    Then(get_inode(dir, dir.at, Last(path)), LAMBDA t :
    Then(NotFrozen(t, dir.at), LAMBDA u :
    Then(NotFrozen(u, u.at), LAMBDA child :
    Then(Check(child, child.inode[child.at].kind \notin DirKinds, "EISDIR"), LAMBDA v :
        unlink_inode(v, dir.at, Last(path)))))))

do_unlink(s, path) ==
    Then(Directory(s, Front(path)), LAMBDA dir :
    Then(get_inode(dir, dir.at, Last(path)), LAMBDA t :
    Then(NotFrozen(t, dir.at), LAMBDA u :
    Then(NotFrozen(u, u.at), LAMBDA child :
    Then(Check(child, child.inode[child.at].kind \notin DirKinds, "EISDIR"), LAMBDA v :
    Then(unlink_inode(v, dir.at, Last(path)), Announced))))))

\* The flag is set before it is known whether the directory can go.  The kernel
\* sends it for directories only.
do_rmdir(s, path) ==
    Then(Directory(s, Front(path)), LAMBDA dir :
    Then(get_inode(dir, dir.at, Last(path)), LAMBDA child :
        IF child.inode[child.at].kind # "directory" THEN child
        ELSE Then(Check(Announced(child), Frozen(child, child.at) # 1, "EROFS"), LAMBDA t :
             Then(Check(t, Entries(t, t.at) = NoEntries, "ENOTEMPTY"), LAMBDA u :
                unlink_inode(u, dir.at, Last(path))))))

\* The source directory is saved without the name before the target is looked at.
do_rename(s, path, name) ==
    LET Taken(t, to) == Last(name) \in DOMAIN Entries(t, to)
        Tell(t) == IF Failed(t) THEN [t EXCEPT !.untold = TRUE] ELSE Announced(t)
        Move(t, from, to, node) ==
            Then(NotFrozen(t, node), LAMBDA u :
            Then(save_dentries(u, from, Without(Entries(u, from), Last(path))), LAMBDA gone :
                Tell(Then(Check(gone, ~Taken(gone, to), "EEXIST"), LAMBDA v :
                    save_dentries(v, to, With(Entries(v, to), Last(name), node))))))
    IN  Then(Directory(s, Front(path)), LAMBDA from :
        Then(Directory(from, Front(name)), LAMBDA to :
        Then(NotFrozen(to, from.at), LAMBDA t :
        Then(NotFrozen(t, to.at), LAMBDA u :
        Then(Check(u, Last(path) \in DOMAIN Entries(u, from.at), "EIO"), LAMBDA v :
            Move(v, from.at, to.at, Entries(v, from.at)[Last(path)]))))))

\* directory_t::snapshot: the new inode gets what the root holds, its own name
\* included, and everything live is frozen.
do_snapshot(s, path) ==
    LET Freeze(new) ==
            [new EXCEPT
                !.snapshots = @ + 1,
                !.inode = [i \in DOMAIN @ |->
                             IF i = new.at THEN [@[Root] EXCEPT !.frozen = 2]
                             ELSE IF i # Root /\ @[i].frozen = 0 THEN [@[i] EXCEPT !.frozen = 1]
                             ELSE @[i]]]
    IN  Then(Check(s, Len(path) = 1, "EPERM"), LAMBDA t :
        Then(Directory(t, <<>>), LAMBDA root :
        Then(Check(root, Last(path) \notin DOMAIN Entries(root, Root), "EEXIST"), LAMBDA u :
        Then(Check(u, u.snapshots < MaxSnapshots, "EPERM"), LAMBDA v :
        Then(create_dentry(v, Last(path), "directory"), LAMBDA new : Announced(Freeze(new)))))))

\* reset_as appends a random number, and the inode.
Renamed(name, i) == [name EXCEPT ![Len(name)] = @ \o "_" \o ToString(i)]

\* Mutant: a snapshot whose name is taken is left out.
RestoredIfFree(s, base) ==
    LET has == Entries(s, Root)
    IN  Over(base, [n \in {m \in DOMAIN has : Frozen(s, has[m]) = 2} |-> has[n]])

\* The names the root has after a rollback: those of the snapshot, and those of
\* the snapshots it has now, which get another name if theirs is taken.
Restored(s, base) ==
    LET has   == Entries(s, Root)
        roots == {n \in DOMAIN has : Frozen(s, has[n]) = 2}
        clash == {n \in roots : n \in DOMAIN base /\ base[n] # has[n]}
        other == [r \in {Renamed(n, has[n]) : n \in clash} |->
                    has[CHOOSE n \in clash : Renamed(n, has[n]) = r]]
    IN  Over(base, Over([n \in roots \ clash |-> has[n]], other))

\* directory_t::reset_as: what is not frozen is freed, the root gets what the
\* snapshot holds, and the snapshots the root had are added.  That the name is
\* one of a snapshot is not checked: what another one leads to may be freed
\* before it is copied.
do_rollback(s, path) ==
    LET reset(snap) ==
            [snap EXCEPT !.inode =
                [i \in {j \in DOMAIN @ : j = Root \/ @[j].frozen # 0} |->
                    IF i = Root THEN [@[snap.at] EXCEPT !.frozen = 0] ELSE @[i]]]
        tell(t) == IF Failed(t) THEN [t EXCEPT !.untold = TRUE]
                   ELSE [Announced(t) EXCEPT !.map = <<>>]
    IN  Then(Check(s, Len(path) = 1, "EPERM"), LAMBDA t :
        Then(Directory(t, <<>>), LAMBDA root :
        Then(Check(root, root.snapshots > 0, "EPERM"), LAMBDA u :
        Then(get_inode(u, Root, Last(path)), LAMBDA snap :
            IF Frozen(snap, snap.at) # 2 THEN [snap EXCEPT !.sound = FALSE]
            ELSE tell(save_dentries(reset(snap), Root, Restored(snap, Entries(snap, snap.at))))))))

\* do_destroy, and do_init in another process.
remount ==
    /\ path_to_inode_fast_map' = <<>>
    /\ changed' = TRUE
    /\ untold' = FALSE
    /\ call' = Mount /\ answer' = ""
    /\ UNCHANGED <<volume, inode, snapshots, sound>>

Next ==
    \/ remount
    \/ \E luck \in Luck, c \in Volumes[volume].calls :
         LET s == Begin(luck)
         IN  /\ call' = c
             /\ \/ c.op = "getattr" /\ Do(do_getattr(s, c.path))
                \/ c.op = "readdir" /\ Do(do_readdir(s, c.path))
                \/ c.op = "mkdir" /\ Do(do_mkdir(s, c.path))
                \/ c.op = "create" /\ Do(do_create(s, c.path))
                \/ c.op = "mknod" /\ Do(do_mknod(s, c.path, c.kind))
                \/ c.op = "write" /\ Do(do_write(s, c.path, c.data))
                \/ c.op = "truncate" /\ Do(do_truncate(s, c.path, Len(c.data)))
                \/ c.op = "unlink" /\ Do(do_unlink(s, c.path))
                \/ c.op = "rmdir" /\ Do(do_rmdir(s, c.path))
                \/ c.op = "symlink" /\ Do(do_symlink(s, c.path, c.data))
                \/ c.op = "rename" /\ ~IsStrictPrefix(c.path, c.to) /\ Do(do_rename(s, c.path, c.to))
                \/ c.op = "snapshot" /\ Do(do_snapshot(s, c.path))
                \/ c.op = "rollback" /\ Do(do_rollback(s, c.path))

Spec == Init /\ [][Next]_vars
------------------------------------------------------------------------------
TypeOK ==
    /\ DOMAIN inode \subseteq Inode /\ Root \in DOMAIN inode
    /\ \A i \in DOMAIN inode :
        /\ inode[i].kind \in Kind /\ inode[i].frozen \in 0 .. 2
        /\ inode[i].kind \notin DirKinds => inode[i].entries = NoEntries
    /\ changed \in BOOLEAN /\ snapshots \in 0 .. MaxSnapshots
    /\ sound \in BOOLEAN /\ untold \in BOOLEAN
    /\ volume \in DOMAIN Volumes

\* The entries of the directories, as <<directory, name>>.
Names == UNION {{<<d, n>> : n \in DOMAIN inode[d].entries} : d \in DOMAIN inode}
LeadsTo(e) == inode[e[1]].entries[e[2]]

\* What a name leads to is in use; what is not frozen has one name, in a directory
\* that is not frozen either: a snapshot and the tree have no inode in common
\* that a call may change, whatever was renamed, restored or failed half way
\* (get_inode, snapshot, reset_as, do_rename).
NothingIsShared ==
    sound =>
        /\ \A e \in Names : LeadsTo(e) \in DOMAIN inode
        /\ \A e, f \in Names :
              inode[LeadsTo(e)].frozen = 0 =>
                  /\ inode[e[1]].frozen = 0
                  /\ LeadsTo(e) = LeadsTo(f) => e = f

\* Following the entries alone.
Step(i, name) ==
    IF i \in DOMAIN inode /\ name \in DOMAIN inode[i].entries THEN inode[i].entries[name] ELSE Lost
Walk(i, path) == FoldLeft(Step, i, path)

\* What is below a directory, snapshots left out.
below[i \in Inode] ==
    {<<>>} \cup UNION {{<<n>> \o path : path \in below[inode[i].entries[n]]} :
                          n \in {m \in DOMAIN inode[i].entries :
                                    /\ inode[i].entries[m] \in DOMAIN inode
                                    /\ inode[inode[i].entries[m]].frozen # 2}}
Seen(i) ==
    [path \in below[i] |-> [kind |-> inode[Walk(i, path)].kind, data |-> inode[Walk(i, path)].data]]

AllCalls == UNION {Volumes[v].calls : v \in DOMAIN Volumes}

\* The paths a call may look up, or may have looked up.
LookedUp == UNION {{SubSeq(p, 1, k) : k \in 1 .. Len(p)} :
                      p \in UNION {{c.path, c.to} : c \in AllCalls}}

\* While the flag is down, everything the map remembers is what the tree says, in a
\* snapshot or not: no path leads to an inode that was replaced, freed or given to
\* another name, also no path that names nothing any more, and no two paths with
\* one key differ, whichever calls failed, unless the last that did had already
\* changed the tree (get_inode_by_path, and every handler that sets the flag).
MapAgrees ==
    sound /\ ~changed /\ ~untold =>
        \A key \in DOMAIN path_to_inode_fast_map :
            LET paths == {p \in LookedUp : Key(p) = key}
            IN  /\ paths # {}
                /\ \A p \in paths : Walk(Root, p) = path_to_inode_fast_map[key]

SnapshotsSeen ==
    [n \in {m \in DOMAIN inode[Root].entries : inode[inode[Root].entries[m]].frozen = 2} |->
        Seen(inode[Root].entries[n])]

Namespace == INSTANCE Namespace WITH
    tree <- IF sound THEN Seen(Root) ELSE Lost,
    shots <- IF sound THEN SnapshotsSeen ELSE <<>>,
    stray <- untold,
    Calls <- AllCalls

\* A call that succeeds does what it promises to the name it is given and nothing to
\* any other, and one that fails has a reason and leaves everything as it was,
\* except where Namespace says otherwise; no snapshot ever changes, and a rollback
\* brings back what the snapshot had and keeps every snapshot (all of operations.cpp).
OperationsImplementNamespace == Namespace!Spec
===============================================================================

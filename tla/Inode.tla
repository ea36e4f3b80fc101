-------------------------------- MODULE Inode --------------------------------
(***************************************************************************)
(* The files of src/src/abs/inode.cpp: an inode points to blocks of        *)
(* pointers to blocks of pointers to storage blocks.  Snapshots freeze     *)
(* every block; from then on a file and its snapshots share them, and what *)
(* is changed is copied up to the inode.                                   *)
(*                                                                         *)
(* The blocks come from the block layer (BlockStore), which is used here   *)
(* as BlockService describes it: a block given out is nobody's, a frozen   *)
(* block is never written or freed, an allocation fails when every block   *)
(* is live.  All free blocks are alike, so the least is taken.  Sizes and  *)
(* offsets are counted in blocks.  The directory that names the files is   *)
(* the variable node, and its own blocks are not counted.                  *)
(***************************************************************************)
EXTENDS Naturals, Sequences, FiniteSets, Functions

CONSTANTS
    Volumes,            \* bound: the volumes, [blocks, files, sizes]: how many blocks the files
                        \* may use, which files there are, the sizes a resize asks for
    File,               \* names, ordered
    Content,            \* what may be written to a storage block
    Zero,               \* what mkblk puts there
    Fanout,             \* block_max_entries
    InodePointers,      \* inode_level_pointers
    MaxSize,            \* bound: blocks of a file
    MaxSnapshots,       \* bound: snapshots
    NoInode, Lost       \* no inode; the files when the space ran out and some are gone

ASSUME InodeAssumption ==
    /\ \A v \in Volumes : v.blocks \in Nat /\ v.files \subseteq File /\ v.sizes \subseteq 0 .. MaxSize
    /\ File \subseteq Nat
    /\ Fanout \in Nat \ {0} /\ InodePointers \in Nat
    /\ MaxSize \in Nat /\ MaxSize <= InodePointers * Fanout * Fanout
    /\ MaxSnapshots \in Nat

ASSUME SentinelAssumption ==
    /\ NoInode \notin Nat \cup Seq(Content \cup {Zero})
    /\ Lost \notin [File -> Seq(Content \cup {Zero}) \cup {NoInode}]

VARIABLES
    volume,     \* the volume, one of Volumes; it never changes
    vol,        \* the live blocks and what they hold: a content, pointers, a header and pointers
    frozen,     \* the blocks of snapshots
    node,       \* the inode of each file in the root directory
    snaps,      \* the snapshots: the inodes each has, and whether it is sound
    sound,      \* no call has freed a block that a file still points to
    leaky       \* some call has failed half way

vars == <<volume, vol, frozen, node, snaps, sound, leaky>>

Block == 1 .. volume.blocks
Live == DOMAIN vol
Free(v) == Block \ DOMAIN v

\* The i-th of the blocks in S, and one of them for each member of a set of numbers.
Nth(S, i) == CHOOSE b \in S : Cardinality({c \in S : c < b}) = i - 1
Given(who, S) == [x \in who |-> Nth(S, Cardinality({y \in who : y <= x}))]

Put(v, b, x) == [c \in DOMAIN v \cup {b} |-> IF c = b THEN x ELSE v[c]]
Drop(v, S) == [c \in DOMAIN v \ S |-> v[c]]
Replace(x, old, new) ==
    [x EXCEPT !.ptr = [i \in DOMAIN x.ptr |-> IF x.ptr[i] = old THEN new ELSE x.ptr[i]]]

\* What a list of pointer blocks points to, in order; all but the last are full,
\* since resize fills them so.
Linear(v, list) ==
    LET k   == Len(list)
        len == IF k = 0 THEN 0 ELSE (k - 1) * Fanout + Len(v[list[k]].ptr)
    IN  [i \in 1 .. len |-> v[list[(i - 1) \div Fanout + 1]].ptr[((i - 1) % Fanout) + 1]]

\* get_inode_block_pointers and the two linearized lists.
Level1(v, n) == v[n].ptr
Level2(v, n) == Linear(v, Level1(v, n))
Level3(v, n) == Linear(v, Level2(v, n))

Init ==
    /\ volume \in Volumes
    /\ vol = [b \in {} |-> Zero]
    /\ frozen = {}
    /\ node = [f \in File |-> NoInode]
    /\ snaps = <<>>
    /\ sound = TRUE
    /\ leaky = FALSE

\* The handlers refuse a frozen inode (RETURN_EROFS_IF_INODE_IS_FROZEN).  A file
\* whose blocks were freed under it is not followed any further.
Writable(f) == sound /\ node[f] # NoInode /\ node[f] \notin frozen
------------------------------------------------------------------------------
\* directory_t::create_dentry, the inode.
create(f) ==
    /\ sound /\ f \in volume.files /\ node[f] = NoInode /\ Free(vol) # {}
    /\ LET n == Nth(Free(vol), 1)
       IN  /\ vol' = Put(vol, n, [size |-> 0, ptr |-> <<>>])
           /\ node' = [node EXCEPT ![f] = n]
    /\ UNCHANGED <<frozen, snaps, sound, leaky>>

\* The children of the root that belong to a snapshot.
Shared == {f \in File : node[f] # NoInode /\ node[f] \in frozen}

\* directory_t::get_inode gives every frozen child an inode of its own, which
\* shares the blocks of the old one.  Out of space the new ones are not kept.
get_inode ==
    LET own == Given(Shared, Free(vol))
    IN  /\ sound /\ Shared # {}
        /\ IF Cardinality(Shared) <= Cardinality(Free(vol))
           THEN /\ node' = [f \in File |-> IF f \in Shared THEN own[f] ELSE node[f]]
                /\ vol' = [b \in Live \cup Range(own) |->
                              IF b \in Live THEN vol[b]
                              ELSE vol[node[CHOOSE f \in Shared : own[f] = b]]]
                /\ UNCHANGED leaky
           ELSE /\ vol' = [b \in Block |-> IF b \in Live THEN vol[b] ELSE Zero]
                /\ leaky' = TRUE
                /\ UNCHANGED node
        /\ UNCHANGED <<frozen, snaps, sound>>
------------------------------------------------------------------------------
(***************************************************************************)
(* inode_t::unblocked_resize.  It holds an object of class level3 for each *)
(* block of the file, existing ones first.  For a frozen block the object  *)
(* makes a copy.  An object that is destroyed while control_active frees   *)
(* its block, which is how blocks past the new size are freed; and when    *)
(* the space runs out the exception destroys every object.                 *)
(***************************************************************************)
\* Mutant: the last, partly filled pointer block is not counted.
CeilDiv(a, b) == (a + b - 1) \div b
Chunk(s, i) == SubSeq(s, (i - 1) * Fanout + 1, IF i * Fanout < Len(s) THEN i * Fanout ELSE Len(s))

\* The list of a level with the new length: cut, or extended by new blocks.
Fitted(s, len, new, skip) ==
    [i \in 1 .. len |-> IF i <= Len(s) THEN s[i] ELSE new[skip + i - Len(s)]]

Fails(freed, v, e) ==
    /\ vol' = Drop(v, freed)
    /\ sound' = (freed \cap Range(e) = {})
    /\ leaky' = TRUE

resize(f, size) ==
    LET n     == node[f]
        old3  == Level3(vol, n)
        old2  == Level2(vol, n)
        old1  == Level1(vol, n)
        old   == old3 \o old2 \o old1
        stale == Range(old) \cap frozen
        free  == Free(vol)
        enough(k) == Cardinality(Range(SubSeq(old, 1, k)) \cap frozen) <= Cardinality(free)
        \* the objects, the frozen blocks replaced by their copies
        copy    == Given(stale, free)
        mine(s) == [i \in DOMAIN s |-> IF s[i] \in frozen THEN copy[s[i]] ELSE s[i]]
        more == free \ Range(copy)
        len2 == CeilDiv(size, Fanout)
        len1 == CeilDiv(len2, Fanout)
        add3 == size - Len(old3)
        add2 == len2 - Len(old2)
        add1 == len1 - Len(old1)
        new  == Given(1 .. add3 + add2 + add1, more)
        new3 == Fitted(mine(old3), size, new, 0)
        new2 == Fitted(mine(old2), len2, new, add3)
        new1 == Fitted(mine(old1), len1, new, add3 + add2)
        used == Range(new3) \cup Range(new2) \cup Range(new1)
        at(s, b) == CHOOSE i \in DOMAIN s : s[i] = b
    IN  /\ Writable(f) /\ size # vol[n].size
        /\ \/ \* a copy cannot be made: the objects so far are destroyed
              /\ ~enough(Len(old))
              /\ Fails({old[k] : k \in {j \in DOMAIN old : enough(j)}} \ frozen, vol, old)
           \/ \* a new block cannot be made: the objects of the level at which that
              \* happens, and of those before it, have given up control already
              /\ enough(Len(old))
              /\ size > Len(old3) /\ add3 + add2 + add1 > Cardinality(more)
              /\ Fails(IF Cardinality(more) < add3 THEN Range(mine(old2)) \cup Range(mine(old1))
                       ELSE IF Cardinality(more) < add3 + add2 THEN Range(mine(old1)) ELSE {},
                       [b \in Block |-> IF b \in Live THEN vol[b] ELSE Zero], old)
           \/ /\ enough(Len(old))
              /\ size > Len(old3) => add3 + add2 + add1 <= Cardinality(more)
              /\ vol' = [b \in (Live \ (Range(old) \ frozen)) \cup used |->
                            IF b = n THEN [size |-> size, ptr |-> new1]
                            ELSE IF b \in Range(new1) THEN [ptr |-> Chunk(new2, at(new1, b))]
                            ELSE IF b \in Range(new2) THEN [ptr |-> Chunk(new3, at(new2, b))]
                            ELSE IF b \notin Range(new3) THEN vol[b]
                            ELSE IF at(new3, b) > Len(old3) THEN Zero
                            ELSE vol[old3[at(new3, b)]]]
              /\ UNCHANGED <<sound, leaky>>
        /\ UNCHANGED <<frozen, node, snaps>>
------------------------------------------------------------------------------
(***************************************************************************)
(* inode_t::write of one block: block_redirect puts the new content in a   *)
(* new block and redirect_3rd_level_block makes the tree point to it,      *)
(* copying the frozen pointer blocks on the way up.  When the space runs   *)
(* out block_redirect returns the old block: it is written in place, or,   *)
(* being frozen, refuses and the call fails.                               *)
(***************************************************************************)
Parent(v, level, b) == CHOOSE q \in Range(level) : b \in Range(v[q].ptr)

\* Mutants: the block that was redirected is not freed; the level 1 block is
\* written in place, frozen or not.
RedirectedKeep(v, n, b, c) ==
    LET new == Nth(Free(v), 1)
        p2  == Parent(v, Level2(v, n), b)
    IN  [vol |-> Put(Put(v, new, c), p2, Replace(v[p2], b, new)), done |-> TRUE]

RedirectedShallow(v, n, b, c) ==
    LET new  == Nth(Free(v), 1)
        v1   == Drop(Put(v, new, c), IF b \in frozen THEN {} ELSE {b})
        p2   == Parent(v, Level2(v, n), b)
        p1   == Parent(v, Level1(v, n), p2)
        new2 == Nth(Free(v1), 1)
    IN  IF p2 \notin frozen
        THEN [vol |-> Put(v1, p2, Replace(v[p2], b, new)), done |-> TRUE]
        ELSE IF Free(v1) = {} THEN [vol |-> v1, done |-> FALSE]
        ELSE [vol |-> Put(Put(v1, new2, Replace(v[p2], b, new)), p1, Replace(v[p1], p2, new2)),
              done |-> TRUE]

Redirected(v, n, b, c) ==
    LET new  == Nth(Free(v), 1)
        v1   == Drop(Put(v, new, c), IF b \in frozen THEN {} ELSE {b})
        p2   == Parent(v, Level2(v, n), b)
        p1   == Parent(v, Level1(v, n), p2)
        new2 == Nth(Free(v1), 1)
        v2   == Put(v1, new2, Replace(v[p2], b, new))
        new1 == Nth(Free(v2), 1)
    IN  IF p2 \notin frozen
        THEN [vol |-> Put(v1, p2, Replace(v[p2], b, new)), done |-> TRUE]
        ELSE IF Free(v1) = {} THEN [vol |-> v1, done |-> FALSE]
        ELSE IF p1 \notin frozen
        THEN [vol |-> Put(v2, p1, Replace(v[p1], p2, new2)), done |-> TRUE]
        ELSE IF Free(v2) = {} THEN [vol |-> v2, done |-> FALSE]
        ELSE [vol |-> Put(Put(v2, new1, Replace(v[p1], p2, new2)), n,
                          Replace(v[n], p1, new1)),
              done |-> TRUE]

\* Mutant: out of space, a block is written in place, frozen or not.
WriteInPlace(s, n, b, c) ==
    IF Free(s.vol) # {} THEN Redirected(s.vol, n, b, c)
    ELSE [s EXCEPT !.vol = Put(@, b, c)]

WriteBlock(s, n, b, c) ==
    IF ~s.done THEN s
    ELSE IF Free(s.vol) # {} THEN Redirected(s.vol, n, b, c)
    ELSE IF b \in frozen THEN [s EXCEPT !.done = FALSE]
    ELSE [s EXCEPT !.vol = Put(@, b, c)]

\* Block after block, until one cannot be written.
Written(v, n, first, last, c) ==
    LET blocks == Level3(v, n)
        after[p \in first - 1 .. last] ==
            IF p < first THEN [vol |-> v, done |-> TRUE]
            ELSE WriteBlock(after[p - 1], n, blocks[p], c)
    IN  after[last]

write(f, first, last, c) ==
    /\ Writable(f) /\ first <= last /\ last <= vol[node[f]].size
    /\ LET s == Written(vol, node[f], first, last, c)
       IN  /\ vol' = s.vol
           /\ leaky' = (leaky \/ ~s.done)
    /\ UNCHANGED <<frozen, node, snaps, sound>>

\* Mutants: the frozen blocks are freed too; the second level is forgotten.
unlink_self_all(f) ==
    /\ Writable(f)
    /\ vol' = Drop(vol, {node[f]} \cup Range(Level1(vol, node[f]))
                            \cup Range(Level2(vol, node[f])) \cup Range(Level3(vol, node[f])))
    /\ node' = [node EXCEPT ![f] = NoInode]
    /\ UNCHANGED <<frozen, snaps, sound, leaky>>

\* inode_t::unlink_self, after directory_t::unlink_inode took the name away.
unlink_self(f) ==
    LET n == node[f]
    IN  /\ Writable(f)
        /\ vol' = Drop(vol, ({n} \cup Range(Level1(vol, n)) \cup Range(Level2(vol, n))
                                 \cup Range(Level3(vol, n))) \ frozen)
        /\ node' = [node EXCEPT ![f] = NoInode]
        /\ UNCHANGED <<frozen, snaps, sound, leaky>>
------------------------------------------------------------------------------
\* directory_t::snapshot and freeze_block: the snapshot has the names the root
\* has, and every live block is frozen.
snapshot ==
    /\ Len(snaps) < MaxSnapshots
    /\ snaps' = Append(snaps, [node |-> node, sound |-> sound])
    /\ frozen' = frozen \cup Live
    /\ UNCHANGED <<vol, node, sound, leaky>>

\* directory_t::reset_as and filesystem::reset: what is not frozen is freed, the
\* root has the names of the snapshot.  It looks the snapshot up with get_inode,
\* which fails when there is no room for what that would duplicate.
reset_as(s) ==
    /\ Cardinality(Shared) <= Cardinality(Free(vol))
    /\ vol' = [b \in frozen |-> vol[b]]
    /\ node' = snaps[s].node
    /\ sound' = snaps[s].sound
    /\ UNCHANGED <<frozen, snaps, leaky>>

Next ==
    /\ UNCHANGED volume
    /\ \/ \E f \in File : create(f) \/ unlink_self(f)
       \/ get_inode
       \/ \E f \in File, size \in volume.sizes : resize(f, size)
       \/ \E f \in File, first, last \in 1 .. MaxSize, c \in Content : write(f, first, last, c)
       \/ snapshot
       \/ \E s \in DOMAIN snaps : reset_as(s)

Spec == Init /\ [][Next]_vars
------------------------------------------------------------------------------
Tree(n) == {n} \cup Range(Level1(vol, n)) \cup Range(Level2(vol, n)) \cup Range(Level3(vol, n))
Nodes(names) == {names[f] : f \in {g \in File : names[g] # NoInode}}

TypeOK ==
    /\ volume \in Volumes
    /\ Live \subseteq Block
    /\ \A b \in Live : \/ vol[b] \in Content \cup {Zero}
                       \/ vol[b] \in [ptr : Seq(Block)]
                       \/ vol[b] \in [size : 0 .. MaxSize, ptr : Seq(Block)]
    /\ frozen \subseteq Live
    /\ node \in [File -> Block \cup {NoInode}]
    /\ Len(snaps) <= MaxSnapshots
    /\ sound \in BOOLEAN /\ leaky \in BOOLEAN

\* Every inode, of a file or of a sound snapshot, is the root of a tree of live
\* blocks with as many storage blocks as its header says and no block twice; a
\* snapshot's blocks are frozen; and two files have no unfrozen block in common,
\* so that what resize, redirect and unlink free belongs to nobody else.
TreesAreTrees ==
    /\ sound =>
        \A n \in Nodes(node) :
            /\ Tree(n) \subseteq Live
            /\ Len(Level3(vol, n)) = vol[n].size
            /\ Cardinality(Tree(n)) =
                  1 + Len(Level1(vol, n)) + Len(Level2(vol, n)) + Len(Level3(vol, n))
            /\ \A m \in Nodes(node) \ {n} : Tree(n) \cap Tree(m) \subseteq frozen
    /\ \A s \in DOMAIN snaps : snaps[s].sound =>
        \A n \in Nodes(snaps[s].node) : Tree(n) \subseteq frozen

\* Unless a call failed half way every live block is reached from a file or from
\* a snapshot: nothing a redirect or a resize has copied is forgotten.
NothingLeaks ==
    ~leaky => Live = (UNION {Tree(n) : n \in Nodes(node)})
                     \cup (UNION {UNION {Tree(n) : n \in Nodes(snaps[s].node)} : s \in DOMAIN snaps})

Contents(names) ==
    [f \in File |->
        IF names[f] = NoInode THEN NoInode
        ELSE LET blocks == Level3(vol, names[f])
             IN  [p \in 1 .. vol[names[f]].size |-> vol[blocks[p]]]]

Files == INSTANCE FileStore WITH
    NoFile <- NoInode,
    files  <- IF sound THEN Contents(node) ELSE Lost,
    shots  <- [s \in DOMAIN snaps |-> IF snaps[s].sound THEN Contents(snaps[s].node) ELSE Lost]

\* To its readers the shared tree is a set of independent files and unchanging
\* snapshots: a write or a resize changes the blocks it names of the file it
\* names; a snapshot reads the same through everything that happens to the files
\* it shares blocks with, a resize that runs out of space and frees blocks in use
\* included; and a rollback brings it back.
InodesImplementFiles == Files!Spec
===============================================================================

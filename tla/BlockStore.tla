------------------------------ MODULE BlockStore ------------------------------
(***************************************************************************)
(* The data field of the file system: src/src/core/blk_manager.cpp (bitmap *)
(* and mirror, block attributes, the counters of the header) under         *)
(* src/src/abs/service.cpp (allocation that reclaims copy-on-write copies, *)
(* deallocation and overwriting that leave such copies, freezing, reset).  *)
(* One action is one call of that layer.  The callers hold the lock of     *)
(* ops/operations.cpp, so calls do not overlap.                            *)
(*                                                                         *)
(* What a caller may do is what the callers in abs/inode.cpp do:           *)
(*  - a block it was just given has the type of a copy until the caller    *)
(*    types it, and no other block is allocated before that (pending);     *)
(*  - it writes and drops blocks that are live.                            *)
(***************************************************************************)
EXTENDS Integers, FiniteSets

CONSTANTS
    BlockCount,     \* blk_count
    Content,        \* what a block may hold, a write replaces the whole
    LiveTypes,      \* INDEX_TYPE, POINTER_TYPE, STORAGE_TYPE: nothing tells them apart
    Word,           \* 2^64, the size of the counters
    MaxLinks,       \* 127, all seven bits of links
    MaxSnapshots,   \* 127 in directory_t::snapshot
    NoBlock, NoHeader

COW == "COW_REDUNDANCY_TYPE"

ASSUME StoreAssumption ==
    /\ BlockCount \in Nat \ {0}
    /\ Word \in Nat /\ Word > BlockCount
    /\ MaxLinks \in Nat /\ MaxLinks > 1
    /\ MaxSnapshots \in Nat
    /\ LiveTypes # {} /\ COW \notin LiveTypes
    /\ Content # {}

Block == 0 .. BlockCount - 1
Root == 0

ASSUME SentinelAssumption == NoBlock \notin Block

Attr == [frozen : 0 .. 3, type : LiveTypes \cup {COW}, type_backup : LiveTypes \cup {COW},
         cow_refresh_count : 0 .. 3, newly_allocated : BOOLEAN, links : 0 .. MaxLinks]

Header == [last : Block, allocated : 0 .. Word - 1, snapshots : 0 .. MaxSnapshots]

ASSUME HeaderSentinelAssumption == NoHeader \notin Header

VARIABLES
    bitmap,     \* block_bitmap
    mirror,     \* block_bitmap_mirror
    attr,       \* block_attr
    content,    \* the data blocks
    hdr,        \* runtime_info of the header: last_allocated_block, allocated_blocks, snapshot_number
    pending,    \* the block a caller was given and has not typed yet
    phase,      \* which of snapshot() and reset_as() is under way
    held        \* the copy of the header snapshot() took when it began

vars == <<bitmap, mirror, attr, content, hdr, pending, phase, held>>

Live(b) == bitmap[b] /\ attr[b].type # COW

\* allocate_new_block leaves a new block so, service.cpp:124; the second is what
\* mkblk, create_dentry and the other callers give it.
FreshAttr ==
    [frozen |-> 0, type |-> COW, type_backup |-> COW, cow_refresh_count |-> 0,
     newly_allocated |-> TRUE, links |-> 0]
TypedAttr(t, new) ==
    [frozen |-> 0, type |-> t, type_backup |-> COW, cow_refresh_count |-> 0,
     newly_allocated |-> new, links |-> 1]

\* A new file system: the root is allocated, and not counted.  mkfs leaves the
\* attribute table as it finds it, so a free block may look frozen.
Init ==
    /\ bitmap = [b \in Block |-> b = Root]
    /\ mirror = bitmap
    /\ \E t \in LiveTypes, stale \in {FreshAttr} \cup {[TypedAttr(x, TRUE) EXCEPT !.frozen = 1] : x \in LiveTypes} :
          attr = [b \in Block |-> IF b = Root THEN TypedAttr(t, TRUE) ELSE stale]
    /\ content \in [Block -> Content]
    /\ hdr = [last |-> Root, allocated |-> 0, snapshots |-> 0]
    /\ pending = NoBlock
    /\ phase = "idle"
    /\ held = NoHeader
------------------------------------------------------------------------------
(***************************************************************************)
(* Allocation.  blk_manager::allocate_block fails when the header says the *)
(* field is full or no bit is clear; unblocked_allocate_new_block then     *)
(* ages every copy, frees those with the lowest count and tries once more. *)
(* The operators below are that procedure in the current state: what is    *)
(* left after the reclamation (nothing changes when there was none), and   *)
(* the block the scan finds.                                               *)
(***************************************************************************)
\* Mutant: reclamation forgets to look at the type.
CopiesOfAnyType == {b \in Block : b # Root /\ bitmap[b] /\ attr[b].frozen = 0}

Copies == {b \in Block : bitmap[b] /\ attr[b].type = COW /\ attr[b].frozen = 0}

FirstTryFails == hdr.allocated = BlockCount \/ \A b \in Block : bitmap[b]

\* Mutant: ageing without the test for zero.
AgedPastZero ==
    [b \in Block |->
        IF FirstTryFails /\ b \in Copies
        THEN [attr[b] EXCEPT !.cow_refresh_count = @ - 1]
        ELSE attr[b]]

Aged ==
    [b \in Block |->
        IF FirstTryFails /\ b \in Copies /\ attr[b].cow_refresh_count > 0
        THEN [attr[b] EXCEPT !.cow_refresh_count = @ - 1]
        ELSE attr[b]]

\* Mutant: reclamation takes every copy, whatever its count.
ReclaimedAll == IF FirstTryFails THEN Copies ELSE {}

Reclaimed ==
    IF FirstTryFails
    THEN LET age == Aged
         IN  {b \in Copies :
                \A c \in Copies : age[b].cow_refresh_count <= age[c].cow_refresh_count}
    ELSE {}

Kept(map) == LET gone == Reclaimed IN [b \in Block |-> map[b] /\ b \notin gone]

\* Mutant: the blocks reclaimed are cleared in the map and not in the header.
CountNotReduced == hdr.allocated

CountKept == (hdr.allocated - Cardinality(Reclaimed)) % Word

CanAllocate ==
    /\ CountKept # BlockCount
    /\ LET kept == Kept(bitmap) IN \E b \in Block : ~kept[b]

Least(S) == CHOOSE b \in S : \A c \in S : b <= c

\* The scan starts at the block allocated last and wraps once.
Found ==
    LET kept  == Kept(bitmap)
        free  == {b \in Block : ~kept[b]}
        ahead == {b \in free : b >= hdr.last}
    IN  Least(IF ahead # {} THEN ahead ELSE free)

\* The maps and the header after an allocation that succeeds and gives up the
\* blocks in gone, and after one that fails.
Took(gone) ==
    /\ LET kept == Kept(bitmap) new == Found
       IN  bitmap' = [b \in Block |-> b \notin gone /\ (kept[b] \/ b = new)]
    /\ LET kept == Kept(mirror) new == Found
       IN  mirror' = [b \in Block |-> b \notin gone /\ (kept[b] \/ b = new)]
    /\ hdr' = [hdr EXCEPT !.last = Found,
                          !.allocated = (CountKept + 1 - Cardinality(gone)) % Word]

TookNothing(gone) ==
    /\ LET kept == Kept(bitmap) IN bitmap' = [b \in Block |-> b \notin gone /\ kept[b]]
    /\ LET kept == Kept(mirror) IN mirror' = [b \in Block |-> b \notin gone /\ kept[b]]
    /\ hdr' = [hdr EXCEPT !.allocated = (CountKept - Cardinality(gone)) % Word]

allocate_new_block ==
    /\ pending = NoBlock
    /\ \/ /\ CanAllocate
          /\ Took({})
          /\ attr' = [Aged EXCEPT ![Found] = FreshAttr]
          /\ pending' = Found
       \/ /\ ~CanAllocate
          /\ TookNothing({})
          /\ attr' = Aged
          /\ UNCHANGED pending
    /\ UNCHANGED <<content, phase, held>>
------------------------------------------------------------------------------
\* Mutant: the copy does not remember what it is a copy of.
RedundancyAttrNoBackup(a) ==
    [a EXCEPT !.type = COW, !.cow_refresh_count = 3]

\* The attributes of the copy that deallocation and overwriting leave.
RedundancyAttr(a) ==
    [a EXCEPT !.type = COW, !.type_backup = a.type, !.cow_refresh_count = 3]

\* unblocked_deallocate_block of an allocated block.  A request for a copy frees
\* it; none of the calls that snapshot() and reset_as() make is one.
deallocate_block(b) ==
    /\ b # Root /\ bitmap[b] /\ pending = NoBlock
    /\ attr[b].frozen = 0
    /\ \/ /\ attr[b].type = COW /\ phase = "idle"        \* blk_manager::free_block
          /\ bitmap' = [bitmap EXCEPT ![b] = FALSE]
          /\ mirror' = [mirror EXCEPT ![b] = FALSE]
          /\ hdr' = [hdr EXCEPT !.allocated = (@ - 1) % Word]
          /\ UNCHANGED <<attr, content>>
       \/ /\ attr[b].type # COW /\ CanAllocate
          /\ Took({b})
          /\ attr' = [Aged EXCEPT ![Found] = RedundancyAttr(attr[b])]
          /\ content' = [content EXCEPT ![Found] = content[b]]
       \/ /\ attr[b].type # COW /\ ~CanAllocate         \* cow cannot be enforced
          /\ TookNothing({b})
          /\ attr' = Aged
          /\ UNCHANGED content
    /\ UNCHANGED <<pending, phase, held>>

\* unblocked_write_block of a block that is not frozen; of one that is it throws.
WriteInPlace(b, c) ==
    /\ content' = [content EXCEPT ![b] = c]
    /\ UNCHANGED <<bitmap, mirror, hdr>>

WriteOverCopy(b, c) ==
    \/ /\ CanAllocate
       /\ Took({})
       /\ attr' = [Aged EXCEPT ![Found] = RedundancyAttr(attr[b])]
       /\ content' = [content EXCEPT ![Found] = content[b], ![b] = c]
    \/ /\ ~CanAllocate
       /\ TookNothing({})
       /\ attr' = Aged
       /\ content' = [content EXCEPT ![b] = c]

write_block(b, c, cow_active) ==
    /\ attr[b].frozen = 0
    /\ \/ b = pending /\ (cow_active => attr[b].newly_allocated)
       \/ pending = NoBlock /\ Live(b)
    /\ \/ /\ ~cow_active
          /\ WriteInPlace(b, c)
          /\ UNCHANGED attr
       \/ /\ cow_active /\ attr[b].newly_allocated
          /\ attr' = [attr EXCEPT ![b].newly_allocated = FALSE]
          /\ WriteInPlace(b, c)
       \/ /\ cow_active /\ ~attr[b].newly_allocated
          /\ WriteOverCopy(b, c)
    /\ UNCHANGED <<pending, phase, held>>

(***************************************************************************)
(* Attributes.  filesystem::set_attr refuses a frozen block.  Its callers  *)
(* type the block they were given, or mark as a copy a block they have     *)
(* dropped (inode_t::write does, with the attributes the block had; by     *)
(* then the block may be free or hold a copy already).  get_inode links    *)
(* the blocks of a frozen inode past the check.                            *)
(***************************************************************************)
set_attr_type(t, new) ==
    /\ pending # NoBlock
    /\ attr[pending].frozen = 0
    /\ attr' = [attr EXCEPT ![pending] = TypedAttr(t, new)]
    /\ pending' = NoBlock
    /\ UNCHANGED <<bitmap, mirror, content, hdr, phase, held>>

set_attr_dropped(b, t, new) ==
    /\ pending = NoBlock /\ b # Root /\ ~Live(b)
    /\ attr[b].frozen = 0
    /\ attr' = [attr EXCEPT ![b] = [TypedAttr(COW, new) EXCEPT !.type_backup = t]]
    /\ UNCHANGED <<bitmap, mirror, content, hdr, pending, phase, held>>

link_frozen(b) ==
    /\ pending = NoBlock /\ Live(b)
    /\ attr[b].frozen = 1 /\ attr[b].links < MaxLinks
    /\ attr' = [attr EXCEPT ![b].links = @ + 1]
    /\ UNCHANGED <<bitmap, mirror, content, hdr, pending, phase, held>>

delink_block(b) ==
    /\ pending = NoBlock /\ b # Root /\ Live(b)
    /\ ~(attr[b].frozen # 0 /\ attr[b].links = 1)
    /\ attr[b].links > 0
    /\ attr' = [attr EXCEPT ![b].links = @ - 1]
    /\ UNCHANGED <<bitmap, mirror, content, hdr, pending, phase, held>>
------------------------------------------------------------------------------
(***************************************************************************)
(* directory_t::snapshot: it reads the header, creates the root of the     *)
(* snapshot (calls of the layer), marks it, writes the header it read      *)
(* back with one snapshot more, and freezes.  An exception ends it early.  *)
(***************************************************************************)
snapshot_begin ==
    /\ pending = NoBlock /\ phase = "idle"
    /\ hdr.snapshots < MaxSnapshots
    /\ held' = hdr
    /\ phase' = "snapshot"
    /\ UNCHANGED <<bitmap, mirror, attr, content, hdr, pending>>

\* Mutant: the loop of freeze_block starts at block 0.
FreezeFromZero(a) ==
    [b \in Block |->
        IF bitmap[b] /\ a[b].frozen = 0 /\ a[b].type # COW
        THEN [a[b] EXCEPT !.frozen = 1, !.links = (@ + 1) % (MaxLinks + 1)]
        ELSE a[b]]

\* Mutant: the copies are frozen too.
FreezeCopiesToo(a) ==
    [b \in Block |->
        IF b # Root /\ bitmap[b] /\ a[b].frozen = 0
        THEN [a[b] EXCEPT !.frozen = 1, !.links = (@ + 1) % (MaxLinks + 1)]
        ELSE a[b]]

\* freeze_block, over the attributes a.
Freeze(a) ==
    [b \in Block |->
        IF b # Root /\ bitmap[b] /\ a[b].frozen = 0 /\ a[b].type # COW
        THEN [a[b] EXCEPT !.frozen = 1, !.links = (@ + 1) % (MaxLinks + 1)]
        ELSE a[b]]

snapshot_commit(root) ==
    /\ pending = NoBlock /\ phase = "snapshot"
    /\ root # Root /\ Live(root) /\ attr[root].frozen = 0
    /\ attr' = Freeze([attr EXCEPT ![root].frozen = 2])
    /\ hdr' = [held EXCEPT !.snapshots = @ + 1]
    /\ held' = NoHeader
    /\ phase' = "idle"
    /\ UNCHANGED <<bitmap, mirror, content, pending>>

(***************************************************************************)
(* directory_t::reset_as: filesystem::reset frees what is neither frozen   *)
(* nor a copy, the root gets the content of the snapshot; more calls of    *)
(* the layer follow, and at the end the root gets new attributes.          *)
(***************************************************************************)
\* Mutant: the reset frees frozen blocks with the rest.
DiscardedFrozenToo == {b \in Block : b # Root /\ Live(b)}

Discarded == {b \in Block : b # Root /\ Live(b) /\ attr[b].frozen = 0}

rollback_begin(c) ==
    /\ pending = NoBlock /\ phase = "idle"
    /\ hdr.snapshots > 0
    /\ bitmap' = [b \in Block |-> bitmap[b] /\ b \notin Discarded]
    /\ mirror' = [b \in Block |-> mirror[b] /\ b \notin Discarded]
    /\ hdr' = [hdr EXCEPT !.allocated = (@ - Cardinality(Discarded)) % Word]
    /\ content' = [content EXCEPT ![Root] = c]
    /\ phase' = "rollback"
    /\ UNCHANGED <<attr, pending, held>>

rollback_end(t, new) ==
    /\ pending = NoBlock /\ phase = "rollback"
    /\ attr' = [attr EXCEPT ![Root] = TypedAttr(t, new)]
    /\ phase' = "idle"
    /\ UNCHANGED <<bitmap, mirror, content, hdr, pending, held>>

aborted ==
    /\ pending = NoBlock /\ phase # "idle"
    /\ phase' = "idle"
    /\ held' = NoHeader
    /\ UNCHANGED <<bitmap, mirror, attr, content, hdr, pending>>

Next ==
    \/ allocate_new_block
    \/ \E b \in Block : deallocate_block(b) \/ link_frozen(b) \/ delink_block(b)
    \/ \E b \in Block, c \in Content, cow \in BOOLEAN : write_block(b, c, cow)
    \/ \E t \in LiveTypes, new \in BOOLEAN :
          set_attr_type(t, new) \/ rollback_end(t, new)
    \/ \E b \in Block, t \in LiveTypes, new \in BOOLEAN : set_attr_dropped(b, t, new)
    \/ snapshot_begin
    \/ \E b \in Block : snapshot_commit(b)
    \/ \E c \in Content : rollback_begin(c)
    \/ aborted

Spec == Init /\ [][Next]_vars
------------------------------------------------------------------------------
TypeOK ==
    /\ bitmap \in [Block -> BOOLEAN]
    /\ mirror \in [Block -> BOOLEAN]
    /\ attr \in [Block -> Attr]
    /\ content \in [Block -> Content]
    /\ hdr \in Header
    /\ pending \in Block \cup {NoBlock}
    /\ phase \in {"idle", "snapshot", "rollback"}
    /\ held \in Header \cup {NoHeader}

\* A block a caller was given is still its own when it types it: no call in
\* between reclaims it, although until then it looks like a copy with the lowest
\* count (unblocked_allocate_new_block).  The root stays live and is never frozen.
CallersKeepTheirBlocks ==
    /\ pending # NoBlock =>
          pending # Root /\ bitmap[pending] /\ attr[pending] \in {FreshAttr, [FreshAttr EXCEPT !.newly_allocated = FALSE]}
    /\ Live(Root) /\ attr[Root].frozen = 0

\* The two bitmaps never disagree, and until the first snapshot the header's
\* counter is the number of allocated blocks but for the root, through every
\* allocation, reclamation, copy and deallocation (update_runtime_info).
BookkeepingAgrees ==
    /\ mirror = bitmap
    /\ hdr.snapshots = 0 =>
          hdr.allocated + 1 = Cardinality({b \in Block : bitmap[b]})

\* blk_manager::no_space_available says the file system is running out of space,
\* and with the copies reclaimed on demand that means every block is live.  The
\* counter decides it too; before the first snapshot it decides it rightly.
DepletedOnlyWhenAllLive ==
    hdr.snapshots = 0 => (~CanAllocate => \A b \in Block : Live(b))

\* The same without the restriction: it fails, since snapshot() writes an old copy
\* of the counters back over the reclamations made while it ran.
NoSpaceMeansAllLive == ~CanAllocate => \A b \in Block : Live(b)

\* A block linked more than once belongs to a snapshot: unfrozen blocks, which
\* inode_t::write and level3::safe_delete may free, are not shared, and no
\* copy is frozen, so that reclamation never meets a block a snapshot needs.
SharedMeansFrozen ==
    \A b \in Block : bitmap[b] =>
        /\ attr[b].links > 1 => attr[b].frozen # 0
        /\ attr[b].type = COW => attr[b].frozen = 0

\* Nothing that happens after a snapshot changes a block it froze: it stays
\* allocated, with its content, type and mark, through writes to its neighbours,
\* reclamation, deallocation requests, later snapshots and rollbacks.
SnapshotsAreImmutable ==
    [][\A b \in Block : Live(b) /\ attr[b].frozen # 0 =>
            /\ bitmap'[b]
            /\ content'[b] = content[b]
            /\ attr'[b] = [attr[b] EXCEPT !.links = attr'[b].links]]_vars

\* Dropping or overwriting a block with copy-on-write on leaves its old content
\* in a copy that remembers its type, unless every block is live, or, once there
\* is a snapshot, the counter in the header says that the field is full: that one
\* may be wrong (NoSpaceMeansAllLive), and a change then leaves no copy although
\* a block is free (unblocked_deallocate_block, unblocked_write_block).
HasCopy(b) ==
    \E c \in Block : /\ bitmap'[c] /\ attr'[c].type = COW
                      /\ attr'[c].type_backup = attr[b].type
                      /\ attr'[c].cow_refresh_count = 3
                      /\ content'[c] = content[b]
Changes(b) ==
    /\ Live(b)
    /\ \/ deallocate_block(b)
       \/ ~attr[b].newly_allocated /\ \E c \in Content : write_block(b, c, TRUE)
CountedFull == hdr.snapshots > 0 /\ CountKept = BlockCount
ChangesLeaveACopy ==
    [][\A b \in Block :
          Changes(b) => HasCopy(b) \/ (\A x \in Block : Live(x)) \/ CountedFull]_vars

\* A call that reclaims, an allocation or a change that leaves a copy, takes the
\* copies with the lowest count and no others: a copy goes only when no copy is
\* older than it (cow_refresh_count, block_attr.h:16), and those that stay are a
\* count older.  Ageing makes counts of 0 and 1 equal.
Survives(c) == bitmap'[c] /\ pending' # c /\ attr'[c] = Aged[c]
OldestCopiesGoFirst ==
    [][allocate_new_block \/ (\E b \in Block : Changes(b)) =>
          \A b, c \in Copies :
             ~Survives(c) => \/ attr[c].cow_refresh_count <= attr[b].cow_refresh_count
                             \/ attr[c].cow_refresh_count = 1]_vars

Service == INSTANCE BlockService WITH
    live   <- {b \in Block : Live(b)},
    data   <- [b \in {x \in Block : Live(x)} |-> content[b]],
    frozen <- {b \in Block : Live(b) /\ attr[b].frozen # 0}

\* The layer does what BlockService says: to its callers the copies, their
\* reclamation and the scan do not exist.  In particular a block that is handed
\* out was nobody's, and no call changes a live block it was not asked to change.
StoreImplementsService == Service!Spec
===============================================================================

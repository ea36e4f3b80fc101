# A model of cow-file-storage

cow-file-storage (`cfs`) is a copy-on-write file system in user space: a FUSE
front end (`mount.cfs`), `mkfs.cfs`, `fsck.cfs` and a library that keeps
inodes, directories, snapshots and a journal on a block device or an image
file. This directory holds TLA+ modules translated from the library's C++
(`src/src`), TLC configurations that check them on small instances, and
theorems about them checked by TLAPS.

    tlc -workers 2 -config BlockStore.cfg BlockStore
    tlapm BlockStore_proofs.tla

`PROJECT.json` lists the components, the runs, the lines each definition
stands for (`map`), a mutant for each property, the findings, the hazards and
the theorems.

## 1. Inventory

The layers, bottom up. Every handler takes `operations_mutex`
(`ops/operations.cpp:13`), so no two of them run at once and the locks further
down are never contended. The exception is `do_fstat`, which has a mutex of its
own and reads a flag outside `operations_mutex`. Otherwise what is hard here is
not interleaving but long sequences of calls, space pressure in the middle of
one, errors half way, and a process that dies.

| Component | State | Operations | What makes it correct |
|---|---|---|---|
| Basic IO (`core/basic_io.cpp`) | the device | open, read and write of 512-byte sectors | - |
| Block cache (`core/block_io.cpp`, `block_io.h`) | cached blocks with the flags `out_of_sync`, `read_only`, `in_use`; the header in memory; access counts | `safe_at` and the handle it returns, `update`, `sync`, `update_runtime_info`, constructor and destructor | a block reads as it was last written; a handle's block is not evicted; `sync` is durable; the two headers agree; a killed volume is seen to be dirty |
| Bitmaps, attributes, block manager (`core/bitmap.cpp`, `block_attr.cpp`, `blk_manager.cpp`) | two bitmaps, 16 bits of attributes per block, `allocated_blocks` and `last_allocated_block` in the header | `allocate_block`, `free_block`, `get_attr`, `set_attr` | bitmaps and counter agree |
| Ring buffer (`core/ring_buffer.cpp`) | `rd_off`, `wr_off`, `flipped`, bytes | `write`, `read`, shadow read, `available_buffer` | a bounded queue; never outside its region |
| Journal (`core/journal.cpp`, `journal.h`) | the ring in the blocks before the backup header | `push_action`, `export_journaling` | the export is the recent history, in whole entries |
| Block service (`abs/service.cpp`) | the above | `allocate_new_block` (reclaims copies when the volume is full), `deallocate_block`, `write_block`, `set_attr`, `delink_block`, `freeze_block`, `reset`, `revert_transaction` (no caller) | a live block changes only when named; frozen blocks never change; a change leaves a copy of the old content when there is room |
| Inodes (`abs/inode.cpp:1-657`) | a three-level tree of pointer blocks per inode | `resize`, `write`, `read`, `redirect_3rd_level_block`, `unlink_self`, `rename` | the tree and the bitmap agree; `ENOSPC` half way leaves a tree |
| Directories, snapshots (`abs/inode.cpp:658-922`) | names and inode numbers in an inode's data; `snapshot_number` | `list_dentries`, `save_dentries`, `get_inode` (copies a frozen child), `create_dentry`, `unlink`, `snapshot`, `reset_as` | a snapshot reads the same for ever; a rollback brings it back |
| Operations (`ops/operations.cpp`) | path map, cached `statvfs`, two dirty flags | one handler per FUSE call | the map agrees with the tree; a failing handler leaves the tree as it was, `Namespace` says with which exceptions; a `statvfs` answer becomes current |
| mkfs and layout (`utils/mkfs.cpp`, `cfs.h`) | the static header | `solveC`, `make_head`, `clear_entries` | the regions tile the device |
| mount, fsck, journal_hd (`utils/`) | - | argument parsing; callbacks one to one; displays | fsck writes nothing |
| Helpers, checksums, `imgInTerm` | - | logging, colours, a vendored compressor, a vendored viewer | - |

How they interact: the operations resolve a path through `directory_t` to an
inode and call it; inodes call the block service by block number; the service
calls the block manager, which keeps its maps, attributes, counters and data in
blocks it takes from the cache by handle; each change of the service is
journalled first, through the same cache; and each change of the counters
writes both headers to the disk at once.

What is hard (each with its line in `PROJECT.json` under `hazards`):

- *Space pressure inside a call.* An allocation made by a write, a
  deallocation or a snapshot may age and free other blocks, while the caller
  holds numbers, attributes and a header it read earlier.
- *Unmarked states.* A block that was just allocated looks like the oldest
  copy until the caller types it; a dropped block has attributes written to it
  after the drop; a block is dirty and read-only at once if it is frozen before
  it is flushed.
- *Wraps.* The ring wraps and overwrites, the flag toggles, the two slices of
  a transfer are cut at different places; counters are unsigned.
- *Death.* The clean flag, the two headers, and cached blocks reach the disk
  in an order that matters when the process is killed.
- *Errors half way.* Out of space in a resize or a redirect, `EEXIST` in a
  rename, after which the map of paths and the tree may disagree.
- *Two locks and a flag.* `do_fstat` decides under one mutex and counts under
  another, while handlers raise its flag before or after their changes.

## 2. Plan

Order of work, the most important behaviour first. `done` means on disk,
checked and, where named, proved.

1. `RingBuffer`, `Journal`, `RingFifo`/`ByteQueue` - done, proved.
2. `BlockStore` and what it promises, `BlockService` - done, proved.
3. `BlockCache` and what it promises, `BlockMemory` - done, proved.
4. `Mkfs`: the search, the layout and the writes, with a kill between any two,
   over a range of devices - done, proved.
5. `Inode`, the pointer tree over blocks that may run out at any allocation,
   and what it promises, `FileStore` - done, in blocks, proved.
6. `Operations`: directories and their names, the map of paths, snapshots and
   rollback, and the error paths of every handler; what they promise,
   `Namespace` - done; types, sharing and the frozen inodes proved.
7. `Statvfs`: the threads, the two mutexes and the flag - done, proved, with
   liveness.
8. A proof still worth its length: that `Operations` implements `Namespace`, on
   volumes without names that share a key.
9. Not planned: `BlockStore` over `BlockCache` with a crash (the product is too
   large to explore), and `revert_transaction`, which has no caller.

## 3. Modules

`RingBuffer` - state and operators of `ring_buffer`: `write`, `read`,
`ReadBytes` with the two slices of each. The cells go `Slack` bytes past the end
of the ring, so that a write that left it would show. `Journal` pushes entries
and never consumes them (`journaling::push_action`), `Exported` is the scan of
`export_journaling`. An entry is its number (modulo `Serials`) and each byte the
pair of the number and the position; the sixteen-bit-and-more fields of
`entry_t` are not looked at by the ring. `RingFifo` drives the same ring with
writes that fit and reads of any size, as its unit test does, and refines
`ByteQueue`.

`BlockStore` - the block manager under the block service. A block is a number;
the packing of bits and of attributes into blocks is abstracted to functions.
One action is one call of `filesystem`: `allocate_new_block`,
`deallocate_block`, `write_block`, the uses of `set_attr`, `link_frozen`
(`get_inode`, which goes past `set_attr`), `delink_block`. The reclamation is
inside the calls that allocate, as in the code: `Aged`, `Reclaimed`, `Kept`,
`CountKept`, `Found` are the steps of `unblocked_allocate_new_block` and
`allocate_block`, and `Took`/`TookNothing` their effect on maps and header.
`snapshot()` and `reset_as()` are each two actions with ordinary calls between
them (`phase`), because they make such calls: the header read at the beginning
of `snapshot()` is `held` and is written back at its end. `aborted` is the
exception that ends either early. `pending` is the block a caller has been
given and has not typed. What the callers may do is what `abs/inode.cpp` does.
`MCBlockStore` has the bound of the run with four blocks and a snapshot.
`BlockService` is the layer's promise: live blocks with contents and freeze
marks, no copies, no reclamation, no scan.

`BlockCache` - `block_io_t`. A handle is a member of `handles`; a miss may
evict any set of the size the code computes, since the access counts are not
modelled; `job` is the position inside `unblocked_sync_header` and the calls
around it, so that evictions in the middle of it, and a kill between any two
writes of blocks, happen. A block is written in one step, though it has several
sectors: a kill in the middle of one is not there. `frozen` stands for the attribute test in
`blk_manager::safe_get_block`, which decides whether a handle is read-only.
`BlockMemory` is the promise: a memory, a durable copy that catches up, and a
session that may be lost.

`Inode` - the files of `inode.cpp` and their snapshots. A volume is a function
from live blocks to what they hold: content, pointers, or a size and pointers.
The blocks come from the layer below, taken as `BlockService` describes it; all
free blocks are alike to the code above it, so the least is taken. `Linear` puts
the lists of a level's pointer blocks one behind the other; every block but
the last is full, as `resize` fills them. `resize` is
`unblocked_resize` with the objects of `class level3` it builds: frozen blocks
are copied, blocks past the new size are freed by the destructors, and each of
the three ways it ends is a disjunct. When the space runs out, the destructors
of the objects whose `control_active` is still set free their blocks, also those
the file points to: when a copy of a frozen block cannot be made
(`inode.cpp:217-227`) those of the objects before it, when a new level 3 block
cannot (235) the level 2 and level 1 blocks, when a new level 2 block cannot (243)
the level 1 blocks. `sound` records that this happened; such
files are not followed any further, since nothing can be said of them, until a
rollback. `leaky` records that a call failed half way, after which blocks may be
live that nothing points to. `write` is `block_redirect` and
`redirect_3rd_level_block` block by block. `get_inode`, the duplication of
frozen inodes, is a step of its own because every handler looks the path up
first, lookups that only read included. `FileStore` is the promise: independent
files, snapshots that never change; `OutOfSpace` may lose the files and never a
snapshot.

`MCInode` has the two volumes of its run.

`Operations` - the handlers of `operations.cpp` over the directories of
`inode.cpp`. A handler is a function from a state of the call to a state of the
call: the inodes, the map of paths, where the call is, the error it has met and
its *luck*, the number of steps needing space that still succeed. `Then` goes on
unless the step before failed, as the exceptions and early returns of the code
do; `Do` makes one action of it, since a call holds `operations_mutex` from
beginning to end. So every handler fails at each of its steps, and what it had
done by then stays, as in the code. An inode has a kind, data (a value for each
block), the entries of a directory and the freeze mark; attributes, permissions and times
are not there. `resize` and `write` are two steps: a resize that changes the size copies all
the file shares with a snapshot or fails, so the write after it finds no block
that refuses; a write without one may stop after some of its blocks.
`get_inode` gives every frozen child of an unfrozen directory an
inode of its own, inside every look-up, also when the caller only reads.
`Key` is the key of the map: the names joined by `::`. The map is cleared
lazily, by the next look-up, so while the flag is up the model keeps it empty.
An inode is kept while a name or the map leads to it; live blocks that nothing
leads to are a loss of space and not followed. Too few inodes act as a full
volume. When a directory or a file is resized and there is no space, `sound` may
become false (`Inode` has what happens then), and so it does when a rollback is
given a name that is no snapshot, which `reset_as` does not check: the call
continues on blocks it has just freed. What a directory holds is then not
followed. `untold` says that a call failed after it had changed the tree and
before it raised the flag. The kernel's own checks are in the guards: a write is
sent for files only, `rmdir` for directories only, no rename into its own
subtree. `call` and `answer` are the last call and the error it returned:
history, for the refinement, which no step reads. `MCOperations` has five
volumes with their sets of calls, and the view that leaves the history out of
the states (properties of steps are looked at in every step all the same).

`Namespace` is the promise: a tree of names, and snapshots of it, with the call
and its error in sight. `Succeed(c)` is what the call `c` does when it returns no
error: to the name it was given, of the kind and with the data it was given, and
to nothing else. `Fail(c)` does nothing, and the error must have its `Reason`:
`ENOENT` only if a name the call needs is not there, `EEXIST` only if the name is
taken, and so on; only the lack of space may end any call. What callers would
not expect has a name of its own:

- `HalfLinked`: `do_symlink` has created the name when it finds no space for what
  the link leads to (`operations.cpp:369-371`): the link stays, empty.
- `HalfWritten`: a write within the file's length that a snapshot shares, and
  that finds no space at a later block, returns `EIO` and has written the first
  ones.
- `HalfRestored`: a rollback that fails when it adds the younger snapshots to
  the restored root (`inode.cpp:817`) has restored the tree and lost them.
- `Lose`: a rename that finds its target taken, or no space, has removed the
  source name already (`operations.cpp:448-456`).
- `Stray`: after a rename or rollback that failed so, the map of paths is not
  told, and until the next change that is, a call may find what is lost: it then
  does nothing that is seen, or moves what is below back (`Return`), or moves
  what it finds in the tree to where it is lost.
- `Wipe`: `do_mknod` saves the new inode's header through its parent
  (`operations.cpp:530-532`): the directory gets the mode and the size of the
  new inode, and its names are gone; in the root that includes the snapshots.
- `Break`: out of space, a directory or a file was damaged (`Inode`); or a
  rollback was given a name that is no snapshot. Nothing is said of the tree from
  then on.
- `Unsent`: calls the kernel does not send do nothing.

A reader who wants to know what the system guarantees to an application
reads this module. Each exception is needed: without any one of them the run
fails. None is listed as a finding: no document, comment or test of the
repository says otherwise.

`Statvfs` - `do_fstat` and the handlers as threads of FUSE, a step for each
lock, each read of the clock or the flag, each change of the number of blocks.
`elapsed` and `age` are times, saturated one past `Interval`, since the code
only asks `sec > 5`. A handler changes blocks and raises the flag in either
order: `do_write` raises it before it writes, most raise it after. One that
fails, or a look-up that duplicates inodes, may not raise it (`missed`).

`Mkfs` - `mkfs_main`: the assertions, the rounds of the binary search in
`solveC`, the outer loop that gives blocks up, the layout, and one step for each
sector written, with a kill between any two. Arithmetic is modulo `Word`, as
`blocks - 2` wraps on a device of fewer than two blocks. `AttrsPerSector`,
`MinJournal` and `JournalShare` are 256, 32 and 100 in the code; the bits in a
sector follow from the first.

`RingBuffer_proofs`, `Journal_proofs`, `BlockStore_proofs`, `BlockCache_proofs`,
`Mkfs_proofs`, `Statvfs_proofs`, `Inode_proofs`, `Operations_proofs` - theorems,
section 6. The first has the lemmas about `write` and `read`, which the journal
uses too, and then the theorems of `RingFifo`, whose operators `Journal_proofs`
sees and does not use.

Definitions marked "Mutant:" change one definition of the model each, the way
a plausible slip in the code would; the property `PROJECT.json` names with it
fails when the change is made.

## 4. Runs

Fairness is assumed in two modules. In `Mkfs`, weak fairness of the program's
step: a process that is not killed goes on. In `Statvfs`, weak fairness of the
clock and of each thread's own steps (`Running`): the operating system runs
threads that can run. Nothing is assumed of the order in which waiting threads
get a mutex (`std::mutex` promises none), nor that a handler is ever called; that
the handlers come to rest and that `statvfs` is called again and again are
premises of `EventuallyCurrent` itself. Everywhere else a call is one atomic
handler that returns, and the things that "must eventually happen" (a flush, a
header write) are inside a call and stated as what holds when it returns.
Deadlock is checked in every run except `mkfs`, a program that ends.

| Run | Bounds | Shows |
|---|---|---|
| `journal` | 19 bytes, entries of 4, numbers modulo 7 | 138 states, all laps. 19 is no multiple of 4, so entries are cut at every offset, and a full ring with a cut oldest entry is reached. `NoOverrun`, `ShadowIsRecentHistory`, `ExportsWholeEntries` |
| `journal_readable` | the same | finding 1 |
| `ring_fifo` | 4 bytes of 2 values, transfers of up to 3 | 2,675 states: every pair of offsets, both flags, both slices non-empty. `OffsetsAgreeWithFlag`, the refinement of `ByteQueue` |
| `block_store` | 3 blocks, 2 contents, 1 snapshot, `links` up to 2 | 144,280 states. A volume full of the root, a live block and a copy, before and after a snapshot and a rollback. Freeze, copies, the order of reclamation in allocations, deallocations and writes, refinement of `BlockService` |
| `block_store_counts` | 4 blocks, 1 content, 1 snapshot, no rollback, one link for each use (`LinkedOnce`) | 206,265 states. Two copies of different age with a live block; a header that counts a free block after a snapshot (finding 2). Counters, the verdict of no space, the copy that each change leaves |
| `block_store_no_space` | 4 blocks, 1 snapshot | finding 2 |
| `block_cache` | 6 blocks, 4 data blocks, 2 contents, cache of 3, 1 handle, 1 frozen block | 692,288 states. Eviction of two of three blocks, also between the two halves of a header write; the two sizes at which the cache outgrows its limit; sessions one after the other, kills |
| `block_cache_killed` | 5 blocks | finding 3 |
| `inode` | pointer blocks of 2 entries, 1 snapshot; a file of 1 or 3 blocks with 13 blocks, or two files of 0 or 2 blocks with 6 | 37,105 states. Trees, leaks, the refinement of `FileStore`, with and without space |
| `mkfs` | devices of 0 to 56 and of 63, 64, 65, 80, 83 and 121 sectors; blocks of 0, 1, 2, 3, 4 and 8 sectors; sectors of 2 bytes | 17,075 states. Devices that need two blocks for a bitmap, devices with no exact division, devices too small, and blocks so large that mkfs fails. Tiling, the search, a kill at every write, termination |
| `operations` | 4 or 5 inodes, 2 snapshots, 4 to 10 calls on each of five volumes, files of up to two blocks, space for 0, 1, 2 or all steps of a call | 19,981 states. Refinement of `Namespace`, with every exception in it; the map, sharing between tree and snapshots |
| `statvfs` | 3 threads, 2 blocks, an interval of 1 | 532,116 states. A thread that counts while one changes and one waits. The kept answer, and that it becomes current |

Why the bounds are enough. The ring's behaviour depends on the order of the
offsets and on the distance to the end only, and lengths without a common
divisor reach every such position. The block store treats all blocks other than
the root alike, except through the scan, which starts at the last allocation:
three blocks are the fewest in which a copy, a live block and the root compete,
with two copies of different age when none is live. Four and a snapshot are the
fewest in which the header's counter goes wrong with a block still free. `Word` is 16 for 2^64, so
that an underflow of the counter would show. A cache of 3 is the smallest in
which eviction takes something; the bound in `CacheIsBounded` is stated in the
constants. The devices of `mkfs` go past the first at which each rounding takes
another block; what is special is proved for all devices. The calls of
`operations` are chosen so that each volume brings together what can disturb one
another: names in two directories, writes after a name, a directory that a
snapshot shares with the tree and that is moved, and names that a file and a
snapshot take in turns; within a volume all sequences of any length are
explored. Three
threads are one more than the two mutexes can serve. In `Inode` only `a` is written and new blocks hold `z`: what a
snapshot shares with a file is told apart once the file is written.

## 5. Findings

1. `ring_buffer.cpp:119`: the flag is toggled whenever the writer reaches the
   physical end. In a ring that overwrites, both offsets are equal and the flag
   is set; the next time the end is reached exactly, the flag is cleared and
   the ring reads as empty: the whole history is gone until the next push.
   (`PushedIsReadable`.)
2. `inode.cpp:867`: `snapshot()` writes back a header it read before its own
   allocations. If one of them reclaimed copies, `allocated_blocks` is too high
   from then on, and an allocation is refused although a block is free.
   (`NoSpaceMeansAllLive`; before the first snapshot `DepletedOnlyWhenAllLive`
   holds.)
3. `block_io.cpp:73`: the destructor writes the clean flag before it flushes
   the cache. (`KilledVolumeIsDirty`.)

Not a finding in that sense, since nothing in the repository says otherwise
(the to-do list of the README leaves space errors open): a resize that runs out
of space can free blocks its file still uses. `Inode` models it, `sound` marks
it, and `InodesImplementFiles` shows that snapshots survive it. Others, met
while modelling:

- What `Namespace` has actions for (section 3).
- `operations.cpp:45`: a name that contains `::` has the key of another path.
- `operations.cpp:285` tests `st_mode & S_IFDIR`, a bit that sockets and block
  devices have too: they cannot be unlinked.
- `operations.cpp:472`: `do_fallocate` puts the allocation mode in `st_mode`.
- `mkfs.cpp:246-247`: more than one block is cleared at the start of the journal
  and of the data; with blocks of more sectors than there are blocks from the
  journal on, mkfs fails after it has cleared the old head
  (`FailsForLargeBlocksOnly` says when).
- `mkfs.cpp:344` writes the backup head in the last sector of the device; the
  cache writes it in the last block, which ends elsewhere when the sectors are
  no multiple of a block.
- `inode.cpp:868` copies `snapshot_number_dup3` over the other two duplicates
  and none of them ever gets the number.

## 6. Proofs

For every ring, whoever uses it (`RingBuffer_proofs`, lemmas): `WriteAround`,
a write that stays inside goes to the positions from the writer on, around the
end, and touches no other; `ReadAround`, a read returns the positions from the
reader on. They are the only place where the two slices are looked at.

For every ring of at least two entries, any entry size, any modulus of the
entries' numbers (`Journal_proofs`):

- `JournalTypeOK`, `JournalNoOverrun`. `NoOverrun` is not inductive: whether
  the second slice stays inside depends on the geometry of the offsets.
  `Geometry` says that with the flag down the reader is in the first entry and
  not ahead of the writer, and with the flag up the writer is not ahead of the
  reader, and behind it only while the reader is in the first entry. The step is
  a case split on where the first slice ends.
- `JournalShadowIsHistory`, `JournalExportsWhole`. The content is counted back
  from the writer, since the reader moves in jumps: `History` says that the
  `i`-th byte before the writer is the `i`-th last byte pushed, as far as there
  are bytes to read. A push shifts the count by one entry (`RecentFacts`, which
  rests on quotients and remainders). That a scan finds as many entries as fit
  is a bijection between the starts it finds and the numbers of whole entries
  (`StartsCounted`).

The invariant is `TypeOK /\ Geometry /\ NoOverrun /\ ScanBoundSound /\ History`.
Besides the size of the ring the theorems assume that a byte never written can
be told from one of an entry (`UntouchedAssumption`), which is how the model
marks it, and no claim about the code.

For every ring and every size of a transfer (the second part of
`RingBuffer_proofs`; `MaxTransfer` is a natural number, nothing else):

- `FifoStaysTyped`, `FifoOffsetsAgree`, and `FifoImplementsQueue`: the bytes before
  the reader are the queue, a write appends (`WriteAppends`), a read takes a
  prefix away (`ReadIsPrefix`, `ReadDrops`). `FifoTypeOK` and `OffsetsAgreeWithFlag`
  together are inductive: with offsets in the ring and a flag that tells which is
  ahead, the free space is what the code computes, and the case split is on which
  of the two transfers wraps.

For every number of blocks, contents, types, links, snapshots and word size
that `StoreAssumption` allows (`BlockStore_proofs`):

- `StoreTypeOK`: among others, `links` and `cow_refresh_count` never leave
  their bit-fields and `Found` is a block whenever `CanAllocate`.
- `StoreCallersKeepTheirBlocks`: the block handed out is not reclaimed before
  it is typed, and the root is never lost.
- `StoreSharedMeansFrozen`, and from it `StoreSnapshotsAreImmutable`: no step
  changes, unmarks or frees a frozen block.

The invariant is the conjunction of these with `HeldHasRoom` (the header
`snapshot()` holds has room for one snapshot more) and the equality of the two
bitmaps. The lemmas in front of it say what the operators of the allocation
do: what is reclaimed is a copy, what is found was free or reclaimed, ageing
changes nothing but the counts. Each action then has one step, each conjunct it
can disturb one below it. On top of it:

- `StoreBookkeepingAgrees`: until the first snapshot the counter of the header
  is the number of allocated blocks other than the root (`Counted`, an induction
  of its own over cardinalities). `CountKeptFacts` shows that what the header says
  after a reclamation is what is left. The header that `snapshot()` writes back
  has an older count: here finding 2 enters after the first snapshot.
- `StoreDepletedOnlyWhenAllLive`, from `Counted` and from what a pass of
  reclamation takes: while there is a copy, some copy has the least count and
  is taken (`ReclaimFrees`).
- `StoreChangesLeaveACopy`: a change leaves a copy unless every block is live
  or, after a snapshot, the header counts every block. The second is the gap of
  finding 2: without a snapshot `CountIsRight` makes it the first.
- `StoreOldestCopiesGoFirst`: of the copies, a call that reclaims, be it an
  allocation, a deallocation or a write, takes none before an older one.
- `StoreRefinesService`: `StoreImplementsService`. Live blocks, their contents
  and their marks are the abstract state. An allocation, ageing, reclamation and
  everything about copies is a stutter (`Unseen`); dropping a block is an
  abstract step whether or not a copy could be made. A rollback needs
  `SnapshotsHold`: once there is a snapshot something is frozen.

For every size of the volume and of the cache, every number of handles and
every content (`BlockCache_proofs`):

- `CacheTypeOK`, `CacheHandlesStayValid`, `CacheHeadersAgree`,
  `CacheSyncIsDurable`, `CacheReadOnlyWritesNothing`; `CacheStaysBounded`, by a
  count of what an eviction takes away; `CacheRefinesMemory`, the refinement of
  `BlockMemory`: fetches and evictions let the durable copy catch up, each
  of the two writes of a header is a write-through, a crash loses what was not
  flushed, and the rest of a header's steps are stutters.

All rest on one invariant, about what a cached block's flags say of the disk.
`FlagsAreTrue`: a block in sync has the disk's content, one out of sync is not
read-only, so that its eviction writes it. That alone is not inductive, because
a fetch of a cached block sets `read_only` on it; `ReadOnlyIsSynced` says why it
may: the header's blocks, frozen blocks and all blocks of a read-only session
are in sync then. `HeldIsInUse` has the blocks that are in use at each step of a
call, of which eviction takes none; `HeaderWritten` the header's blocks already
put; `SyncedSoFar` what `sync` has emptied.

For every set of devices and block sizes, every sector size and journal share
(`Mkfs_proofs`), with a word large enough for the sums (`MkfsAssumption`):

- `MkfsTypeOK`; `MkfsRegionsTile`: on a device of at least two blocks, whatever
  the search gave up, the regions lie in order between the two heads, each
  bitmap has a bit and the table an attribute for every data block.
- `MkfsSearchIsExact`: `solveC` gives up only when no number of data blocks uses
  the blocks exactly.
- `MkfsAllOrNothing`, `MkfsFailsForLargeBlocksOnly`: at every step of the
  writing, and so wherever it is killed, there is the old volume, none, or the new
  one complete; and the only way to run off the device is the one section 5
  lists.

The invariant of the search is `TypeOK /\ Searching /\ Settled`. `Searching` is the argument of
the binary search: below `lo` every number needs too few blocks, from `hi` on
enough. It rests on `NeededIncreases`, which rests on the lemmas about rounding
up (`CeilDivMonotone` and those it cites); `Settled` keeps, after the search,
that the answer is exact and that `info` is its layout, so that `RegionsTile`
follows by arithmetic (`CeilDivDouble` relates the attributes' bytes, computed
in two ways in `solveC` and `make_head`). For the writes there is `Progress`: the
head is written last and cleared first (`Heads`), and what each region holds in
the sectors that have been reached (`Regions`, one part for each). A sector
written by one span is not touched by a later one but for the two that put the
root's entry on a cleared block, which the order of the regions gives
(`SpansArePlaced`, `SpansFit`).

For every set of threads, number of blocks and interval (`Statvfs_proofs`):

- `StatvfsTypeOK`: each mutex is held exactly where the code holds it.
- `StatvfsIsCurrent`: `AnswerIsCurrent`. It speaks of states in which no handler
  runs; the invariant adds what holds inside one. `Told`: while a handler that
  has raised the flag is still inside, the flag is up (only a thread that has
  `operations_mutex` lowers it). `Excused`: if the flag is down and the answer
  is not current, some handler has changed blocks and not raised the flag yet.
  This is why reading the flag outside the lock is safe.

For every fanout of the pointer blocks, every set of volumes, files, sizes and
contents (`Inode_proofs`); `InodeAssumption` and `SentinelAssumption` say that
sizes are numbers, that there is at least one pointer in a block, and that
`NoInode` and `Lost` can be told from what they stand beside:

- `InodeTypeOK`, `InodeTreesAreTrees`, `InodeNothingLeaks`;
- `InodeImplementsFiles`: `InodesImplementFiles`. What a reader of a file or of a
  snapshot sees changes by a step of `FileStore` or not at all.

None of the three invariants is inductive by itself, and `IInv` adds to them:

- `Holds`, which a tree means when it is taken apart: the blocks of a level are
  *spelled* by the blocks above them, each but the last full, and no block is
  in two places (`Distinct`). With it a redirect changes one element of one
  list, and a resize is a matter of where lists are cut (`Quot` and `Rem` say
  which pointer block an element is in).
- `FrozenBelow`: what a frozen block of a file points to is frozen. A redirect
  goes up until it meets a block that is not frozen and writes that in place,
  which is why the snapshots do not see it.
- that two files have only frozen blocks in common, so that what one call writes
  or frees is in no other tree; that no two names have one inode (`OneName`);
- `ShotOK`: all blocks of a sound snapshot are frozen, so that no step touches
  them;
- while no call has failed half way, that the frozen blocks are those of
  snapshots and the live ones those of files and snapshots.

A write is a loop over the blocks of the file. `Loop` is its invariant
(`LoopStarts`, `LoopGoesOn`): a tree with the same lists but for the blocks
written, the frozen blocks as before. That the loop keeps it follows by taking the first
iteration that does not, since induction is not available (below). A resize has
a lemma for each of the three ways it ends; where it fails, the blocks freed are
the file's own or new ones, and never frozen.

For every set of volumes and of calls, with paths of any length and names of any
kind, and wherever a call runs out of space (`Operations_proofs`).
`OperationsAssumption` says that a call's paths are sequences, that a node it
makes is of a known kind, and that volumes have inodes:

- `OperationsTypeOK`, `OperationsNothingIsShared`;
- `OperationsFrozenStays`: no step changes an inode that is frozen and stays in
  use (`FrozenStays`, an action property stated with the proofs; the runs have
  it as part of the refinement of `Namespace`, where a snapshot does not change).

The invariant is that the inodes are `Tidy`: names lead to inodes there are; what
leads to an inode that is not frozen is not frozen, and there is one such name.
That is `NothingIsShared`, and holds on damaged volumes too (`NothingIsShared`
itself speaks of sound ones). Two parts are added. No name leads to the root, or
a rollback, which replaces it, would change what the name means. The root of a
snapshot is never empty: `do_rmdir` refuses a frozen directory but not the root
of a snapshot, and only `-ENOTEMPTY` stops it. It is not empty because a snapshot
enters its own root among the entries that it keeps.

A handler is a chain of calls each of which may fail, with what it has done left
in place. `Later(s, t)` says what each link of it preserves (tidy, frozen inodes
as they were, the state in its types), for those that fail as for those that do
not, and `LooksOn` the same of links that only follow names. Each handler is a
lemma (`MkdirKeeps` ... `RollbackKeeps`), and each way to change a directory one
below it: a name added (`AddedFits`), taken away (`RemovedFits`), a list replaced
(`ReplacedTidy`), frozen children given copies (`CopiedFacts`), everything
frozen by a snapshot (`FreezeTidy`), everything else dropped by a rollback
(`ResetTidy`, `RestoredFacts`), and what no name leads to dropped (`CutTidy`).
A path is followed by a recursive function; that it has a value for every length,
and that each of its states is one that `LooksOn` allows, follows from the least
length for which it would fail (`LeastFacts`, `PathFacts`).
The proof does not ask where the map leads: a stale or wrong entry can make a
handler fail or work on another inode, and the tree is tidy still.

Only model-checked: of `Operations` `MapAgrees` and `OperationsImplementNamespace`,
of `Mkfs` `Ends` and of `Statvfs` `EventuallyCurrent`. The last two are
liveness, which is out of the prover's reach, as `ENABLED` is and induction over
recursively defined data. `MapAgrees` does not hold of every set of calls: names
with `::` in them can have one key for two paths, and the map then holds the
inode of one of them. It rests besides, as it speaks of all that the map holds,
on what a walk over a path of any length computes, and so does the refinement,
which compares what is reached below a root.

## 7. Not modelled

- Most of the files under `src/` are not part of the file system:
  `imgInTerm` brings CImg and libpng, more than nine lines in ten of the
  repository's C and C++. Of the library's own code, some six thousand lines
  with the utilities, the modules cover the parts that keep state.
- Operations: `chown`, `chmod`, `utimens`, permissions and all times; names that
  contain `::`. In `Statvfs`, a system clock that is set back.
- The failing of a rollback or rename is followed in `Operations`, but `MapAgrees`
  does not speak of the time until the flag is next raised (`untold`): the code
  has no answer there that is right. Nothing is said of a volume on which
  a directory or file was damaged for lack of space.
- `stat_temp_list` (`service.h:86`, `inode.cpp:33-47`), the headers of inodes kept in
  memory: a header is read where it is kept. What could differ is what a call
  that failed has left in the list, most of all a rollback, which clears it
  only when it succeeds.
- Within `Inode`: bytes inside a block, times, modes and owners; the number of
  links of a frozen block (no frozen block is freed, whatever it is; the double
  count at `inode.cpp:723` is a hazard that no property covers). The blocks
  of the directories are not counted there, and in `Operations` a directory's
  data is one step that needs space or none.
- `Mkfs` takes its writes to reach the device in order: a process that dies, not
  a machine that loses power.
- `revert_transaction`: it has no caller. The meaning of the journalled actions
  is not used by any code that runs.
- An exception of the cache or the disk in the middle of a call of the block
  layer (an IO error): a call completes or ends with the exception the code
  itself throws. The state of the bitmaps on the disk after a kill, against the
  header: it would need `BlockStore` over `BlockCache`.
- FUSE itself, argument parsing, logging, colours, backtraces, the compressor,
  the image viewer and the checksum: no state of the file system, or pure
  functions.

------------------------------ MODULE BlockCache ------------------------------
(***************************************************************************)
(* src/src/core/block_io.cpp over src/src/core/basic_io.cpp: the cache of  *)
(* blocks, the handles through which the upper layers use them, the header *)
(* in its two places, sync, and the life of a session: mounted, closed or  *)
(* killed at any step.  The disk holds what was written; there is one      *)
(* thread (operations_mutex).                                              *)
(***************************************************************************)
EXTENDS Naturals, FiniteSets

CONSTANTS
    Blocks,         \* static_info.blocks
    Data,           \* contents of a block that is not a header
    Info,           \* runtime_info without the clean flag
    MaxCached,      \* max_cached_block_number
    MaxHandles,     \* bound: handles open at once
    MaxFrozen       \* bound: blocks of snapshots

ASSUME CacheAssumption ==
    /\ Blocks \in Nat /\ Blocks > 2
    /\ MaxCached \in Nat /\ MaxHandles \in Nat /\ MaxFrozen \in Nat

Idx == 0 .. Blocks - 1
First == 0
Last == Blocks - 1
DataIdx == Idx \ {First, Last}

Head == [clean : BOOLEAN, info : Info]
Value == Data \cup Head

VARIABLES
    disk,       \* the device
    cache,      \* block_cache: the cached blocks and their flags
    head,       \* cfs_head, the header in memory
    session,    \* "closed", "writable", "read_only"
    handles,    \* indices with a safe_block_t
    frozen,     \* blocks of snapshots: their handles are taken read-only
    job,        \* where the call under way is, "none" between calls
    cause       \* why unblocked_sync_header runs

vars == <<disk, cache, head, session, handles, frozen, job, cause>>

Cached == DOMAIN cache
NoCache == [i \in {} |-> 0]

\* A volume mkfs has just made, or one left by an earlier session.
Init ==
    /\ \E h \in Head :
          disk \in {d \in [Idx -> Value] :
                       /\ d[First] = h /\ d[Last] = h
                       /\ \A i \in DataIdx : d[i] \in Data}
    /\ cache = NoCache
    /\ head = disk[First]
    /\ session = "closed"
    /\ handles = {}
    /\ frozen = {}
    /\ job = "none"
    /\ cause = "none"
------------------------------------------------------------------------------
\* ~block_data_t of the blocks in S: sync() skips a read-only or clean block.
Written(S) ==
    [i \in Idx |->
        IF i \in S \cap Cached /\ ~cache[i].read_only /\ cache[i].out_of_sync
        THEN cache[i].data ELSE disk[i]]

\* Mutant: eviction does not look at in_use.
IdleOrNot == Cached

(***************************************************************************)
(* unblocked_at.  A full cache gives up two thirds, rounded down, of the   *)
(* blocks nobody uses; which ones is decided by access counts that are not *)
(* modelled, so any choice of that many is possible.                       *)
(***************************************************************************)
Idle == {i \in Cached : ~cache[i].in_use}

Evictions(i) ==
    IF i \in Cached \/ Cardinality(Cached) < MaxCached
    THEN {{}}
    ELSE {S \in SUBSET Idle : Cardinality(S) = (Cardinality(Idle) \div 3) * 2}

\* Mutant: a handle does not take over the mode of the session.
at_any_session(i, as_read_only) ==
    \E gone \in Evictions(i) :
        LET ro == as_read_only \/ i \in {First, Last}
            entry == IF i \in Cached
                     THEN [cache[i] EXCEPT !.read_only = ro, !.in_use = TRUE]
                     ELSE [data |-> disk[i], read_only |-> ro,
                           out_of_sync |-> FALSE, in_use |-> TRUE]
        IN  /\ disk' = Written(gone)
            /\ cache' = [j \in (Cached \ gone) \cup {i} |-> IF j = i THEN entry ELSE cache[j]]

\* Mutant: a block that was not cached has a flag nobody initialised.
at_unset_flag(i, as_read_only) ==
    /\ UNCHANGED disk
    /\ cache' = [j \in Cached \cup {i} |->
                    IF j \in Cached THEN cache[j]
                    ELSE [data |-> disk[i], read_only |-> as_read_only, in_use |-> TRUE]]

at(i, as_read_only) ==
    \E gone \in Evictions(i) :
        LET ro == as_read_only \/ i \in {First, Last} \/ session = "read_only"
            entry == IF i \in Cached
                     THEN [cache[i] EXCEPT !.read_only = ro, !.in_use = TRUE]
                     ELSE [data |-> disk[i], read_only |-> ro,
                           out_of_sync |-> FALSE, in_use |-> TRUE]
        IN  /\ disk' = Written(gone)
            /\ cache' = [j \in (Cached \ gone) \cup {i} |-> IF j = i THEN entry ELSE cache[j]]

\* A handle: taken, used, dropped.  The callers never have two of one block.
safe_at(i) ==
    /\ session # "closed" /\ job = "none"
    /\ i \notin handles /\ Cardinality(handles) < MaxHandles
    /\ at(i, i \in frozen)
    /\ handles' = handles \cup {i}
    /\ UNCHANGED <<head, session, frozen, job, cause>>

\* block_data_t::update; on a read-only block it throws.
update(i, v) ==
    /\ job = "none"
    /\ i \in handles /\ i \in Cached /\ ~cache[i].read_only
    /\ cache' = [cache EXCEPT ![i].data = v, ![i].out_of_sync = TRUE]
    /\ UNCHANGED <<disk, head, session, handles, frozen, job, cause>>

\* Mutant: the destructor of the handle leaves in_use set.
drop_handle_leaks(i) ==
    /\ job = "none"
    /\ i \in handles
    /\ handles' = handles \ {i}
    /\ UNCHANGED <<disk, cache, head, session, frozen, job, cause>>

drop_handle(i) ==
    /\ job = "none"
    /\ i \in handles
    /\ cache' = [j \in Cached |-> IF j = i THEN [cache[j] EXCEPT !.in_use = FALSE] ELSE cache[j]]
    /\ handles' = handles \ {i}
    /\ UNCHANGED <<disk, head, session, frozen, job, cause>>
------------------------------------------------------------------------------
(***************************************************************************)
(* unblocked_sync_header: both header blocks are fetched, then each is     *)
(* filled from the header in memory and written at once.                   *)
(***************************************************************************)
fetch_header(i, from, to) ==
    /\ job = from
    /\ at(i, FALSE)
    /\ job' = to
    /\ UNCHANGED <<head, session, handles, frozen, cause>>

\* Mutant: the header block is filled and not written.
put_header_in_cache(i) ==
    /\ cache' = [cache EXCEPT ![i].data = head, ![i].out_of_sync = FALSE, ![i].read_only = TRUE]
    /\ UNCHANGED disk

put_header(i) ==
    /\ cache' = [cache EXCEPT ![i].data = head, ![i].out_of_sync = FALSE, ![i].read_only = TRUE]
    /\ disk' = [disk EXCEPT ![i] = head]

fetch_first == fetch_header(First, "fetch_first", "fetch_last")
fetch_last == fetch_header(Last, "fetch_last", "put_first")

put_first ==
    /\ job = "put_first"
    /\ put_header(First)
    /\ job' = "put_last"
    /\ UNCHANGED <<head, session, handles, frozen, cause>>

put_last ==
    /\ job = "put_last"
    /\ put_header(Last)
    /\ job' = "release"
    /\ UNCHANGED <<head, session, handles, frozen, cause>>

release_headers ==
    /\ job = "release"
    /\ cache' = [j \in Cached |->
                    IF j \in {First, Last} THEN [cache[j] EXCEPT !.in_use = FALSE] ELSE cache[j]]
    /\ job' = IF cause = "close" THEN "clear" ELSE "none"
    /\ cause' = IF cause = "close" THEN cause ELSE "none"
    /\ UNCHANGED <<disk, head, session, handles, frozen>>

start_header_sync(why) ==
    /\ job' = "fetch_first"
    /\ cause' = why
------------------------------------------------------------------------------
\* update_runtime_info: blocks other than the header's may be in use.
update_runtime_info(info) ==
    /\ session = "writable" /\ job = "none"
    /\ handles \cap {First, Last} = {}
    /\ head' = [head EXCEPT !.info = info]
    /\ start_header_sync("update")
    /\ UNCHANGED <<disk, cache, session, handles, frozen>>

\* Mutant: sync writes the header only.
sync_header_only ==
    /\ session # "closed" /\ job \in {"none", "frozen"}
    /\ handles = {}
    /\ IF session = "writable"
       THEN start_header_sync("sync")
       ELSE UNCHANGED <<job, cause>>
    /\ UNCHANGED <<disk, cache, head, session, handles, frozen>>

\* block_io_t::sync: the cache is emptied, the header written.
sync ==
    /\ session # "closed" /\ job \in {"none", "frozen"}
    /\ handles = {}
    /\ disk' = Written(Cached)
    /\ cache' = NoCache
    /\ IF session = "writable"
       THEN start_header_sync("sync")
       ELSE UNCHANGED <<job, cause>>
    /\ UNCHANGED <<head, session, handles, frozen>>

\* Mutant: a snapshot that does not sync before it lets anybody in.
freeze_without_sync(S) ==
    /\ session = "writable" /\ job = "none"
    /\ handles = {}
    /\ frozen' = frozen \cup S
    /\ UNCHANGED <<disk, cache, head, session, handles, job, cause>>

\* do_snapshot freezes what is live and lets nobody in before it has synced.
freeze(S) ==
    /\ session = "writable" /\ job = "none"
    /\ handles = {}
    /\ frozen' = frozen \cup S
    /\ job' = "frozen"
    /\ UNCHANGED <<disk, cache, head, session, handles, cause>>

\* The constructor reads the header past the cache and marks the volume dirty.
mount(how) ==
    /\ session = "closed"
    /\ session' = how
    /\ head' = [disk[First] EXCEPT !.clean = FALSE]
    /\ IF how = "writable"
       THEN start_header_sync("mount")
       ELSE UNCHANGED <<job, cause>>
    /\ UNCHANGED <<disk, cache, handles, frozen>>

\* The destructor: the clean header first, the cached blocks after it.
unmount ==
    /\ session = "writable" /\ job = "none"
    /\ handles = {}
    /\ head' = [head EXCEPT !.clean = TRUE]
    /\ start_header_sync("close")
    /\ UNCHANGED <<disk, cache, session, handles, frozen>>

clear_cache ==
    /\ job = "clear"
    /\ disk' = Written(Cached)
    /\ cache' = NoCache
    /\ session' = "closed"
    /\ job' = "none" /\ cause' = "none"
    /\ UNCHANGED <<head, handles, frozen>>

\* A read-only session writes nothing when it ends.
unmount_read_only ==
    /\ session = "read_only" /\ job = "none"
    /\ handles = {}
    /\ disk' = Written(Cached)
    /\ cache' = NoCache
    /\ session' = "closed"
    /\ UNCHANGED <<head, handles, frozen, job, cause>>

\* The process dies.  The attributes that say what is frozen live in blocks of
\* their own: those marks that were not flushed are lost with the rest.
crash ==
    /\ session # "closed"
    /\ cache' = NoCache
    /\ session' = "closed"
    /\ handles' = {}
    /\ frozen' \in SUBSET frozen
    /\ job' = "none" /\ cause' = "none"
    /\ UNCHANGED <<disk, head>>

Next ==
    \/ \E i \in Idx : safe_at(i) \/ drop_handle(i)
    \/ \E i \in DataIdx, v \in Data : update(i, v)
    \/ fetch_first \/ fetch_last \/ put_first \/ put_last \/ release_headers
    \/ \E info \in Info : update_runtime_info(info)
    \/ sync
    \/ \E S \in SUBSET DataIdx : Cardinality(frozen \cup S) <= MaxFrozen /\ freeze(S)
    \/ \E how \in {"writable", "read_only"} : mount(how)
    \/ unmount \/ clear_cache \/ unmount_read_only
    \/ crash

Spec == Init /\ [][Next]_vars
------------------------------------------------------------------------------
View == [i \in Idx |-> IF i \in Cached THEN cache[i].data ELSE disk[i]]

TypeOK ==
    /\ disk \in [Idx -> Value]
    /\ Cached \subseteq Idx
    /\ \A i \in Cached : cache[i] \in [data : Value, read_only : BOOLEAN,
                                       out_of_sync : BOOLEAN, in_use : BOOLEAN]
    /\ head \in Head
    /\ session \in {"closed", "writable", "read_only"}
    /\ handles \subseteq Idx
    /\ frozen \subseteq DataIdx
    /\ job \in {"none", "frozen", "fetch_first", "fetch_last", "put_first", "put_last", "release", "clear"}
    /\ cause \in {"none", "update", "sync", "mount", "close"}

Memory == INSTANCE BlockMemory WITH
    memory <- View, durable <- disk, open <- session # "closed"

\* Through hits, misses, evictions and the read-only flag that a handle sets and
\* the next one clears, the cache is a memory: a block reads as it was last
\* written for as long as the session lasts, and what reaches the disk is what it
\* reads as.  A dirty block that is evicted while read-only would break it
\* (block_data_t::sync skips it).
CacheImplementsMemory == Memory!Spec

\* While a handle is open its block stays where the handle points: no eviction,
\* for another block or for the header's, takes it away (safe_block_t only
\* notices when the index has left the cache altogether).
HandlesStayValid == \A i \in handles : i \in Cached /\ cache[i].in_use

\* The cache outgrows max_cached_block_number only when that is smaller than
\* what a call keeps in use: the handles, the headers, and the two idle blocks
\* that (n / 3) * 2 rounds away.
CacheIsBounded ==
    Cardinality(Cached) <= IF MaxCached > MaxHandles + 4 THEN MaxCached ELSE MaxHandles + 4

\* Between calls of a writable session both headers on the disk are the header
\* in memory, and say that the volume is dirty: a process killed there is
\* noticed by the next mount.
HeadersAgree ==
    session = "writable" /\ job \in {"none", "frozen"} =>
        /\ disk[First] = head /\ disk[Last] = head
        /\ View[First] = head /\ View[Last] = head
        /\ ~head.clean

\* When sync returns (do_fsync, do_flush, do_snapshot) everything written before
\* it is on the disk.
SyncIsDurable ==
    job = "release" /\ cause = "sync" => disk = View

\* A session that was opened read-only (fsck) leaves the disk alone.
ReadOnlyWritesNothing == [][session = "read_only" => UNCHANGED disk]_vars

\* A volume whose writer was killed with blocks still to be written is dirty at
\* the next mount (block_io.h:104, "if filesystem is dirty on mount").  It fails:
\* the destructor writes the clean header before it flushes the blocks.
KilledVolumeIsDirty ==
    [][session = "writable" /\ crash /\ (\E i \in DataIdx : disk[i] # View[i])
        => ~disk[First].clean]_vars
===============================================================================

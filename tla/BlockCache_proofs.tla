--------------------------- MODULE BlockCache_proofs ---------------------------
(***************************************************************************)
(* For every size of the volume and of the cache: the cache implements the *)
(* memory BlockMemory, a block with a handle stays where it is, the cache  *)
(* is bounded, the headers agree between calls, what sync returned from is *)
(* on the disk, and a read-only session writes nothing.                    *)
(*                                                                         *)
(* All of it rests on what a cached block's flags say of the disk.  A      *)
(* block that is in sync has the disk's content, one that is not was not   *)
(* taken read-only, so that its eviction writes it; the header's blocks,   *)
(* those a snapshot has frozen and all blocks of a read-only session are   *)
(* in sync, which is why at() may set read_only on them.  The other parts  *)
(* say which blocks may be in use at each step of a call, and how much of  *)
(* the header has been written.                                            *)
(***************************************************************************)
EXTENDS BlockCache, FiniteSetTheorems, TLAPS

Headers == {First, Last}
HeaderJobs == {"fetch_first", "fetch_last", "put_first", "put_last", "release", "clear"}

\* The header's blocks the call under way has a handle on.
Fetched ==
    CASE job = "fetch_last" -> {First}
      [] job \in {"put_first", "put_last", "release"} -> Headers
      [] OTHER -> {}

\* The header's blocks that are as the header in memory.
Put ==
    CASE job = "put_last" -> {First}
      [] job \in {"none", "frozen", "release", "clear"} -> Headers
      [] OTHER -> {}

Synced(i) == ~cache[i].out_of_sync

\* A closed volume has no cache, and no call runs on it.
ClosedIsEmpty == session = "closed" => Cached = {} /\ handles = {} /\ job = "none"

\* A call is in the steps of the header exactly when it has a cause to.
CallHasCause ==
    /\ cause # "none" <=> job \in HeaderJobs
    /\ job # "none" => session = "writable"
    /\ job = "clear" => cause = "close"
    /\ job # "none" => handles \cap Headers = {}
    /\ cause = "close" => handles = {}

\* A block is in use for as long as it is held, by a handle or by the header's steps.
HeldIsInUse ==
    /\ \A i \in handles \cup Fetched : i \in Cached /\ cache[i].in_use
    /\ \A i \in Cached : cache[i].in_use => i \in handles \cup Fetched
    /\ Cardinality(handles) <= MaxHandles

\* What the flags of a cached block say of the disk.
FlagsAreTrue ==
    \A i \in Cached : IF Synced(i) THEN cache[i].data = disk[i] ELSE ~cache[i].read_only

\* What at() marks read-only is in sync, and stays so while it has a handle.
ReadOnlyIsSynced ==
    \A i \in Cached :
        /\ i \in Headers \/ session = "read_only" => Synced(i)
        /\ i \in frozen /\ job # "frozen" => Synced(i)
        /\ i \in handles /\ i \in frozen \cup Headers => cache[i].read_only
        /\ i \in handles /\ session = "read_only" => cache[i].read_only

\* sync() has emptied the cache before it writes the header.
SyncedSoFar == cause = "sync" => \A i \in Cached : Synced(i)

HeaderWritten ==
    /\ \A i \in Headers : disk[i] \in Head
    /\ session = "writable" =>
          /\ \A i \in Put : disk[i] = head
          /\ cause # "close" => ~head.clean

Inv ==
    /\ TypeOK
    /\ ClosedIsEmpty
    /\ CallHasCause
    /\ HeldIsInUse
    /\ FlagsAreTrue
    /\ ReadOnlyIsSynced
    /\ SyncedSoFar
    /\ HeaderWritten
------------------------------------------------------------------------------
Entry == [data : Value, read_only : BOOLEAN, out_of_sync : BOOLEAN, in_use : BOOLEAN]

LEMMA IndexFacts ==
    /\ First \in Idx /\ Last \in Idx /\ First # Last
    /\ DataIdx = Idx \ Headers /\ Headers \subseteq Idx
    /\ IsFiniteSet(Idx)
<1>1. First \in Idx /\ Last \in Idx /\ First # Last
  BY CacheAssumption DEF Idx, First, Last
<1>2. IsFiniteSet(0 .. Blocks - 1)
  <2>1. 0 \in Int /\ Blocks - 1 \in Int
    BY CacheAssumption
  <2> QED  BY <2>1, FS_Interval
<1> QED  BY <1>1, <1>2 DEF DataIdx, Headers, Idx

\* Writing back cached blocks: what reaches the disk is what the blocks read as.
LEMMA WrittenFacts ==
    ASSUME Inv, NEW S \in SUBSET Cached
    PROVE  /\ Written(S) \in [Idx -> Value]
           /\ \A i \in S : Written(S)[i] = cache[i].data
           /\ \A i \in Idx \ S : Written(S)[i] = disk[i]
           /\ \A i \in S : Synced(i) => Written(S)[i] = disk[i]
           /\ (\A i \in S : Synced(i)) => Written(S) = disk
           /\ \A i \in Headers : Written(S)[i] = disk[i]
<1>1. /\ disk \in [Idx -> Value] /\ Cached \subseteq Idx
      /\ \A i \in Cached : cache[i] \in Entry
  BY DEF Inv, TypeOK, Entry
<1>2. \A i \in Cached : /\ cache[i].data \in Value /\ cache[i].out_of_sync \in BOOLEAN
                         /\ cache[i].read_only \in BOOLEAN
  BY <1>1 DEF Entry
<1>3. \A i \in Cached : IF Synced(i) THEN cache[i].data = disk[i] ELSE ~cache[i].read_only
  BY DEF Inv, FlagsAreTrue
<1>4. S \subseteq Cached
  OBVIOUS
<1>5. Written(S) \in [Idx -> Value]
  BY <1>1, <1>2 DEF Written
<1>6. \A i \in S : Written(S)[i] = cache[i].data
  BY <1>1, <1>2, <1>3, <1>4 DEF Written, Synced
<1>7. \A i \in Idx \ S : Written(S)[i] = disk[i]
  BY DEF Written
<1>8. \A i \in S : Synced(i) => Written(S)[i] = disk[i]
  BY <1>3, <1>4, <1>6
<1>9. (\A i \in S : Synced(i)) => Written(S) = disk
  BY <1>1, <1>5, <1>7, <1>8
<1>10. \A i \in Headers : Written(S)[i] = disk[i]
  BY <1>7, <1>8, IndexFacts DEF Inv, ReadOnlyIsSynced
<1> QED  BY <1>5, <1>6, <1>7, <1>8, <1>9, <1>10

\* The same for the whole cache, after which the disk is the memory.
LEMMA FlushFacts ==
    ASSUME Inv
    PROVE  Written(Cached) = View
<1>1. Written(Cached) \in [Idx -> Value] /\ Cached \subseteq Idx
  BY WrittenFacts DEF Inv, TypeOK
<1>2. \A i \in Idx : Written(Cached)[i] = IF i \in Cached THEN cache[i].data ELSE disk[i]
  BY WrittenFacts
<1> QED  BY <1>1, <1>2 DEF View

\* What at() does for the block it is asked for, and leaves of the others.
LEMMA AtFacts ==
    ASSUME Inv, NEW i \in Idx, NEW ro \in BOOLEAN, at(i, ro),
           i \in Cached /\ ro => Synced(i)
    PROVE  /\ disk' \in [Idx -> Value] /\ Cached' \subseteq Cached \cup {i} /\ i \in Cached'
           /\ \A j \in Cached' \ {i} : j \in Cached /\ cache'[j] = cache[j]
           /\ \A j \in Cached : cache[j].in_use => j \in Cached'
           /\ cache'[i] \in Entry /\ cache'[i].in_use
           /\ cache'[i].read_only <=> ro \/ i \in Headers \/ session = "read_only"
           /\ cache'[i].data = IF i \in Cached THEN cache[i].data ELSE disk[i]
           /\ cache'[i].out_of_sync <=> i \in Cached /\ cache[i].out_of_sync
           /\ \A j \in Cached' : disk'[j] = disk[j]
           /\ \A j \in Idx : disk'[j] = disk[j] \/ disk'[j] = View[j]
           /\ \A j \in Idx \ Cached : disk'[j] = disk[j]
           /\ \A j \in Cached : Synced(j) => disk'[j] = disk[j]
           /\ (\A j \in Cached : Synced(j)) => disk' = disk
           /\ View' = View
<1> DEFINE Mode == ro \/ i \in {First, Last} \/ session = "read_only"
           New == IF i \in Cached
                  THEN [cache[i] EXCEPT !.read_only = Mode, !.in_use = TRUE]
                  ELSE [data |-> disk[i], read_only |-> Mode,
                        out_of_sync |-> FALSE, in_use |-> TRUE]
<1>1. PICK gone \in Evictions(i) :
        /\ disk' = Written(gone)
        /\ cache' = [j \in (Cached \ gone) \cup {i} |-> IF j = i THEN New ELSE cache[j]]
  BY DEF at
<1>2. gone \subseteq Idle /\ (i \in Cached => gone = {})
  BY <1>1 DEF Evictions
<1>3. gone \in SUBSET Cached /\ i \notin gone
  BY <1>2 DEF Idle
<1>4. /\ disk \in [Idx -> Value] /\ Cached \subseteq Idx
      /\ \A j \in Cached : cache[j] \in Entry
  BY DEF Inv, TypeOK, Entry
<1>5. /\ Written(gone) \in [Idx -> Value]
      /\ \A j \in gone : Written(gone)[j] = cache[j].data
      /\ \A j \in Idx \ gone : Written(gone)[j] = disk[j]
      /\ \A j \in gone : Synced(j) => Written(gone)[j] = disk[j]
      /\ (\A j \in gone : Synced(j)) => Written(gone) = disk
  BY <1>3, WrittenFacts
<1>6. New \in Entry /\ New.in_use /\ New.read_only = Mode
  <2>1. Mode \in BOOLEAN
    OBVIOUS
  <2> HIDE DEF Mode
  <2>2. CASE i \in Cached
    BY <1>4, <2>1, <2>2 DEF Entry
  <2>3. CASE i \notin Cached
    BY <1>4, <2>1, <2>3 DEF Entry
  <2> QED  BY <2>2, <2>3
<1>7. /\ New.data = IF i \in Cached THEN cache[i].data ELSE disk[i]
      /\ New.out_of_sync <=> i \in Cached /\ cache[i].out_of_sync
  <2> HIDE DEF Mode
  <2>1. CASE i \in Cached
    BY <1>4, <2>1 DEF Entry
  <2>2. CASE i \notin Cached
    BY <1>4, <2>2 DEF Entry
  <2> QED  BY <2>1, <2>2
<1>8. New.read_only <=> ro \/ i \in Headers \/ session = "read_only"
  BY <1>6 DEF Headers
<1> HIDE DEF New
<1>9. /\ Cached' = (Cached \ gone) \cup {i} /\ cache'[i] = New
      /\ \A j \in Cached' \ {i} : j \in Cached /\ cache'[j] = cache[j]
  BY <1>1 DEF Cached
<1>10. \A j \in Cached : cache[j].in_use => j \in Cached'
  BY <1>2, <1>9 DEF Idle
<1>11. /\ \A j \in Cached' : disk'[j] = disk[j]
       /\ \A j \in Idx \ Cached : disk'[j] = disk[j]
       /\ \A j \in Cached : Synced(j) => disk'[j] = disk[j]
       /\ (\A j \in Cached : Synced(j)) => disk' = disk
  BY <1>1, <1>3, <1>4, <1>5, <1>9
<1>12. View' = View
  <2>1. \A j \in Idx : View'[j] = IF j \in Cached' THEN cache'[j].data ELSE disk'[j]
    BY DEF View
  <2>2. \A j \in Idx : View[j] = IF j \in Cached THEN cache[j].data ELSE disk[j]
    BY DEF View
  <2>3. \A j \in Idx : View'[j] = View[j]
    BY <1>1, <1>3, <1>5, <1>7, <1>9, <2>1, <2>2
  <2> QED  BY <2>3 DEF View
<1>13. \A j \in Idx : disk'[j] = disk[j] \/ disk'[j] = View[j]
  BY <1>1, <1>3, <1>4, <1>5 DEF View
<1> QED  BY <1>1, <1>5, <1>6, <1>7, <1>8, <1>9, <1>10, <1>11, <1>12, <1>13

\* The parts of Inv with the cache and the disk in them, at a step that takes
\* block i through at().
LEMMA TakenFacts ==
    ASSUME Inv, NEW i \in Idx, NEW ro \in BOOLEAN, at(i, ro), session # "closed",
           i \in Cached /\ ro => Synced(i), UNCHANGED <<session, head, frozen>>
    PROVE  /\ disk' \in [Idx -> Value] /\ Cached' \subseteq Idx
           /\ \A j \in Cached' : cache'[j] \in Entry
           /\ FlagsAreTrue'
           /\ \A j \in Cached' : j \in Headers \/ session = "read_only" => Synced(j)'
           /\ \A j \in Cached' : Synced(j)' <=> (j \in Cached => Synced(j))
           /\ \A j \in Headers : disk'[j] = disk[j]
           /\ (\A j \in Cached : Synced(j)) => \A j \in Cached' : Synced(j)'
<1>1. /\ disk' \in [Idx -> Value] /\ Cached' \subseteq Cached \cup {i} /\ i \in Cached'
      /\ \A j \in Cached' \ {i} : j \in Cached /\ cache'[j] = cache[j]
      /\ cache'[i] \in Entry
      /\ cache'[i].read_only <=> ro \/ i \in Headers \/ session = "read_only"
      /\ cache'[i].data = IF i \in Cached THEN cache[i].data ELSE disk[i]
      /\ cache'[i].out_of_sync <=> i \in Cached /\ cache[i].out_of_sync
      /\ \A j \in Cached' : disk'[j] = disk[j]
      /\ \A j \in Idx \ Cached : disk'[j] = disk[j]
      /\ \A j \in Cached : Synced(j) => disk'[j] = disk[j]
  BY AtFacts
<1>2. /\ Cached \subseteq Idx
      /\ \A j \in Cached : cache[j] \in Entry
  BY DEF Inv, TypeOK, Entry
<1>3. /\ \A j \in Cached : IF Synced(j) THEN cache[j].data = disk[j] ELSE ~cache[j].read_only
      /\ \A j \in Cached : j \in Headers \/ session = "read_only" => Synced(j)
  BY DEF Inv, FlagsAreTrue, ReadOnlyIsSynced
<1>4. \A j \in Cached' : Synced(j)' <=> (j \in Cached => Synced(j))
  BY <1>1 DEF Synced
<1>5. FlagsAreTrue'
  <2> SUFFICES ASSUME NEW j \in Cached'
               PROVE  IF Synced(j)' THEN cache'[j].data = disk'[j] ELSE ~cache'[j].read_only
    BY DEF FlagsAreTrue
  <2>1. CASE j # i
    BY <1>1, <1>3, <2>1 DEF Synced
  <2>2. CASE j = i /\ i \in Cached /\ ~Synced(i)
    <3>1. i \notin Headers /\ session # "read_only" /\ ~ro
      BY <1>3, <2>2
    <3> QED  BY <1>1, <1>4, <2>2, <3>1
  <2>3. CASE j = i /\ (i \in Cached => Synced(i))
    BY <1>1, <1>3, <1>4, <2>3
  <2> QED  BY <2>1, <2>2, <2>3
<1>6. \A j \in Cached' : j \in Headers \/ session = "read_only" => Synced(j)'
  BY <1>3, <1>4
<1>7. \A j \in Headers : disk'[j] = disk[j]
  BY <1>1, <1>3, IndexFacts
<1>8. Cached' \subseteq Idx /\ \A j \in Cached' : cache'[j] \in Entry
  BY <1>1, <1>2
<1> QED  BY <1>1, <1>4, <1>5, <1>6, <1>7, <1>8

LEMMA SafeAtPreserves == ASSUME Inv, NEW i \in Idx, safe_at(i) PROVE Inv'
<1> DEFINE ro == i \in frozen
<1>1. /\ session # "closed" /\ job = "none" /\ i \notin handles
      /\ Cardinality(handles) < MaxHandles /\ handles' = handles \cup {i}
      /\ at(i, ro) /\ UNCHANGED <<head, session, frozen, job, cause>>
  BY DEF safe_at
<1>2. ro \in BOOLEAN /\ (i \in Cached /\ ro => Synced(i))
  BY <1>1 DEF Inv, ReadOnlyIsSynced
<1> HIDE DEF ro
<1>3. /\ i \in Cached'
      /\ \A j \in Cached' \ {i} : j \in Cached /\ cache'[j] = cache[j]
      /\ \A j \in Cached : cache[j].in_use => j \in Cached'
      /\ cache'[i].in_use
      /\ cache'[i].read_only <=> ro \/ i \in Headers \/ session = "read_only"
  BY <1>1, <1>2, AtFacts
<1>4. /\ disk' \in [Idx -> Value] /\ Cached' \subseteq Idx
      /\ \A j \in Cached' : cache'[j] \in Entry
      /\ FlagsAreTrue'
      /\ \A j \in Cached' : j \in Headers \/ session = "read_only" => Synced(j)'
      /\ \A j \in Cached' : Synced(j)' <=> (j \in Cached => Synced(j))
      /\ \A j \in Headers : disk'[j] = disk[j]
      /\ (\A j \in Cached : Synced(j)) => \A j \in Cached' : Synced(j)'
  BY <1>1, <1>2, TakenFacts
<1>5. TypeOK'
  BY <1>1, <1>4 DEF Inv, TypeOK, Entry
<1>6. ClosedIsEmpty' /\ CallHasCause'
  BY <1>1 DEF Inv, ClosedIsEmpty, CallHasCause, HeaderJobs
<1>7. HeldIsInUse'
  <2>1. Fetched = {} /\ Fetched' = {}
    BY <1>1 DEF Fetched
  <2>2. /\ \A j \in handles : j \in Cached /\ cache[j].in_use
        /\ \A j \in Cached : cache[j].in_use => j \in handles
    BY <2>1 DEF Inv, HeldIsInUse
  <2>3. Cardinality(handles') <= MaxHandles
    <3>1. IsFiniteSet(handles)
      BY IndexFacts, FS_Subset DEF Inv, TypeOK
    <3>2. Cardinality(handles') = Cardinality(handles) + 1 /\ Cardinality(handles) \in Nat
      BY <1>1, <3>1, FS_AddElement, FS_CardinalityType
    <3> QED  BY <1>1, <3>2, CacheAssumption
  <2>4. \A j \in handles' : j \in Cached' /\ cache'[j].in_use
    BY <1>1, <1>3, <2>2
  <2>5. \A j \in Cached' : cache'[j].in_use => j \in handles'
    BY <1>1, <1>3, <2>2
  <2> QED  BY <2>1, <2>3, <2>4, <2>5 DEF HeldIsInUse
<1>8. ReadOnlyIsSynced'
  <2>1. /\ \A j \in Cached : j \in frozen => Synced(j)
        /\ \A j \in Cached : j \in handles /\ j \in frozen \cup Headers => cache[j].read_only
        /\ \A j \in Cached : j \in handles /\ session = "read_only" => cache[j].read_only
    BY <1>1 DEF Inv, ReadOnlyIsSynced
  <2>2. \A j \in Cached' : j \in frozen => Synced(j)'
    BY <1>4, <2>1
  <2>3. \A j \in Cached' : j \in handles' /\ j \in frozen \cup Headers => cache'[j].read_only
    BY <1>1, <1>3, <2>1 DEF ro
  <2>4. \A j \in Cached' : j \in handles' /\ session = "read_only" => cache'[j].read_only
    BY <1>1, <1>3, <2>1
  <2> QED  BY <1>1, <1>4, <2>2, <2>3, <2>4 DEF ReadOnlyIsSynced
<1>9. SyncedSoFar'
  BY <1>1 DEF Inv, CallHasCause, HeaderJobs, SyncedSoFar
<1>10. HeaderWritten'
  BY <1>1, <1>4 DEF Inv, HeaderWritten, Put, Headers
<1> QED  BY <1>4, <1>5, <1>6, <1>7, <1>8, <1>9, <1>10 DEF Inv

LEMMA UpdatePreserves == ASSUME Inv, NEW i \in DataIdx, NEW v \in Data, update(i, v) PROVE Inv'
<1>1. /\ job = "none" /\ i \in handles /\ i \in Cached /\ ~cache[i].read_only
      /\ cache' = [cache EXCEPT ![i].data = v, ![i].out_of_sync = TRUE]
      /\ UNCHANGED <<disk, head, session, handles, frozen, job, cause>>
  BY DEF update
<1>2. Cached \subseteq Idx /\ \A j \in Cached : cache[j] \in Entry
  BY DEF Inv, TypeOK, Entry
<1>3. /\ i \notin Headers /\ v \in Value
      /\ i \notin frozen /\ session # "read_only"
  BY <1>1, IndexFacts DEF Inv, ReadOnlyIsSynced, Value
<1>4. cache[i] \in Entry
  BY <1>1, <1>2
<1>5. Cached' = Cached /\ \A j \in Cached \ {i} : cache'[j] = cache[j]
  BY <1>1 DEF Cached
<1>6. cache'[i] = [cache[i] EXCEPT !.data = v, !.out_of_sync = TRUE]
  BY <1>1, <1>4 DEF Entry, Cached
<1>7. /\ cache'[i] \in Entry /\ cache'[i].out_of_sync
      /\ cache'[i].read_only = cache[i].read_only /\ cache'[i].in_use = cache[i].in_use
  BY <1>3, <1>4, <1>6 DEF Entry
<1>8. ~Synced(i)' /\ \A j \in Cached \ {i} : Synced(j)' = Synced(j)
  BY <1>5, <1>7 DEF Synced
<1>9. \A j \in Cached : cache'[j].read_only = cache[j].read_only /\ cache'[j].in_use = cache[j].in_use
  BY <1>5, <1>7
<1>10. TypeOK'
  BY <1>1, <1>2, <1>5, <1>7 DEF Inv, TypeOK, Entry
<1>11. ClosedIsEmpty' /\ CallHasCause'
  BY <1>1, <1>5 DEF Inv, ClosedIsEmpty, CallHasCause
<1>12. HeldIsInUse'
  BY <1>1, <1>5, <1>9 DEF Inv, HeldIsInUse, Fetched
<1>13. FlagsAreTrue'
  BY <1>1, <1>5, <1>7, <1>8 DEF Inv, FlagsAreTrue
<1>14. ReadOnlyIsSynced'
  BY <1>1, <1>3, <1>5, <1>8, <1>9 DEF Inv, ReadOnlyIsSynced
<1>15. SyncedSoFar' /\ HeaderWritten'
  BY <1>1 DEF Inv, CallHasCause, HeaderJobs, SyncedSoFar, HeaderWritten, Put
<1> QED  BY <1>10, <1>11, <1>12, <1>13, <1>14, <1>15 DEF Inv

\* The steps that only take in_use off the blocks of a set that are released.
LEMMA ReleasedFacts ==
    ASSUME Inv, NEW S,
           cache' = [j \in Cached |-> IF j \in S THEN [cache[j] EXCEPT !.in_use = FALSE]
                                                 ELSE cache[j]],
           UNCHANGED <<disk, frozen, session>>
    PROVE  /\ Cached' = Cached /\ \A j \in Cached : cache'[j] \in Entry
           /\ \A j \in Cached : cache'[j].read_only = cache[j].read_only
           /\ \A j \in Cached : cache'[j].data = cache[j].data
           /\ \A j \in Cached : Synced(j)' = Synced(j)
           /\ \A j \in Cached : cache'[j].in_use <=> cache[j].in_use /\ j \notin S
           /\ FlagsAreTrue'
<1>1. \A j \in Cached : cache[j] \in Entry
  BY DEF Inv, TypeOK, Entry
<1>2. /\ Cached' = Cached
      /\ \A j \in Cached : j \notin S => cache'[j] = cache[j]
      /\ \A j \in Cached : j \in S => cache'[j] = [cache[j] EXCEPT !.in_use = FALSE]
  BY DEF Cached
<1>3. ASSUME NEW j \in Cached
      PROVE  /\ cache'[j] \in Entry /\ cache'[j].read_only = cache[j].read_only
             /\ cache'[j].data = cache[j].data /\ cache'[j].out_of_sync = cache[j].out_of_sync
             /\ cache'[j].in_use <=> cache[j].in_use /\ j \notin S
  BY <1>1, <1>2 DEF Entry
<1>4. \A j \in Cached : Synced(j)' = Synced(j)
  BY <1>3 DEF Synced
<1>5. FlagsAreTrue'
  BY <1>2, <1>3, <1>4 DEF Inv, FlagsAreTrue
<1> QED  BY <1>2, <1>3, <1>4, <1>5

LEMMA DropHandlePreserves == ASSUME Inv, NEW i \in Idx, drop_handle(i) PROVE Inv'
<1>1. /\ job = "none" /\ i \in handles /\ handles' = handles \ {i}
      /\ cache' = [j \in Cached |-> IF j \in {i} THEN [cache[j] EXCEPT !.in_use = FALSE]
                                                ELSE cache[j]]
      /\ UNCHANGED <<disk, head, session, frozen, job, cause>>
  BY DEF drop_handle
<1>2. /\ Cached' = Cached /\ \A j \in Cached : cache'[j] \in Entry
      /\ \A j \in Cached : cache'[j].read_only = cache[j].read_only
      /\ \A j \in Cached : Synced(j)' = Synced(j)
      /\ \A j \in Cached : cache'[j].in_use <=> cache[j].in_use /\ j \notin {i}
      /\ FlagsAreTrue'
  BY <1>1, ReleasedFacts
<1>3. TypeOK'
  BY <1>1, <1>2 DEF Inv, TypeOK, Entry
<1>4. ClosedIsEmpty' /\ CallHasCause'
  BY <1>1, <1>2 DEF Inv, ClosedIsEmpty, CallHasCause
<1>5. HeldIsInUse'
  <2>1. Fetched = {} /\ Fetched' = {}
    BY <1>1 DEF Fetched
  <2>2. Cardinality(handles') <= MaxHandles
    <3>1. IsFiniteSet(handles)
      BY IndexFacts, FS_Subset DEF Inv, TypeOK
    <3>2. /\ Cardinality(handles') = Cardinality(handles) - 1
          /\ Cardinality(handles) \in Nat
      BY <1>1, <3>1, FS_RemoveElement, FS_CardinalityType
    <3> QED  BY <3>2, CacheAssumption DEF Inv, HeldIsInUse
  <2> QED  BY <1>1, <1>2, <2>1, <2>2 DEF Inv, HeldIsInUse
<1>6. ReadOnlyIsSynced' /\ SyncedSoFar'
  BY <1>1, <1>2 DEF Inv, ReadOnlyIsSynced, SyncedSoFar
<1>7. HeaderWritten'
  BY <1>1 DEF Inv, HeaderWritten, Put
<1> QED  BY <1>2, <1>3, <1>4, <1>5, <1>6, <1>7 DEF Inv

LEMMA ReleasePreserves == ASSUME Inv, release_headers PROVE Inv'
<1>1. /\ job = "release"
      /\ cache' = [j \in Cached |-> IF j \in Headers THEN [cache[j] EXCEPT !.in_use = FALSE]
                                                     ELSE cache[j]]
      /\ UNCHANGED <<disk, head, session, handles, frozen>>
      /\ cause = "close" => job' = "clear" /\ cause' = cause
      /\ cause # "close" => job' = "none" /\ cause' = "none"
  BY DEF release_headers, Headers
<1>2. /\ Cached' = Cached /\ \A j \in Cached : cache'[j] \in Entry
      /\ \A j \in Cached : cache'[j].read_only = cache[j].read_only
      /\ \A j \in Cached : Synced(j)' = Synced(j)
      /\ \A j \in Cached : cache'[j].in_use <=> cache[j].in_use /\ j \notin Headers
      /\ FlagsAreTrue'
  BY <1>1, ReleasedFacts
<1>3. session = "writable" /\ handles \cap Headers = {}
  BY <1>1 DEF Inv, CallHasCause
<1>4. TypeOK'
  BY <1>1, <1>2 DEF Inv, TypeOK, Entry
<1>5. ClosedIsEmpty' /\ CallHasCause'
  BY <1>1, <1>3 DEF Inv, ClosedIsEmpty, CallHasCause, HeaderJobs
<1>6. HeldIsInUse'
  <2>1. Fetched = Headers /\ Fetched' = {}
    BY <1>1 DEF Fetched
  <2> QED  BY <1>1, <1>2, <1>3, <2>1 DEF Inv, HeldIsInUse
<1>7. ReadOnlyIsSynced' /\ SyncedSoFar'
  BY <1>1, <1>2 DEF Inv, ReadOnlyIsSynced, SyncedSoFar
<1>8. HeaderWritten'
  BY <1>1 DEF Inv, HeaderWritten, Put
<1> QED  BY <1>2, <1>4, <1>5, <1>6, <1>7, <1>8 DEF Inv

LEMMA FetchPreserves == ASSUME Inv, fetch_first \/ fetch_last PROVE Inv'
<1>1. PICK i \in Headers :
        /\ i = First => job = "fetch_first" /\ job' = "fetch_last"
        /\ i = Last => job = "fetch_last" /\ job' = "put_first"
        /\ at(i, FALSE) /\ UNCHANGED <<head, session, handles, frozen, cause>>
  BY IndexFacts DEF fetch_first, fetch_last, fetch_header, Headers
<1>2. /\ job \in {"fetch_first", "fetch_last"} /\ job' \in {"fetch_last", "put_first"}
      /\ Fetched' = Fetched \cup {i} /\ Put = {} /\ Put' = {}
  BY <1>1, IndexFacts DEF Fetched, Put, Headers
<1>3. /\ session = "writable" /\ handles \cap Headers = {} /\ cause # "none" /\ i \in Idx
      /\ cause = "close" => handles = {}
  BY <1>2, IndexFacts DEF Inv, CallHasCause, HeaderJobs
<1>4. /\ i \in Cached'
      /\ \A j \in Cached' \ {i} : j \in Cached /\ cache'[j] = cache[j]
      /\ \A j \in Cached : cache[j].in_use => j \in Cached'
      /\ cache'[i].in_use
  BY <1>1, <1>3, AtFacts
<1>5. /\ disk' \in [Idx -> Value] /\ Cached' \subseteq Idx
      /\ \A j \in Cached' : cache'[j] \in Entry
      /\ FlagsAreTrue'
      /\ \A j \in Cached' : j \in Headers \/ session = "read_only" => Synced(j)'
      /\ \A j \in Cached' : Synced(j)' <=> (j \in Cached => Synced(j))
      /\ \A j \in Headers : disk'[j] = disk[j]
      /\ (\A j \in Cached : Synced(j)) => \A j \in Cached' : Synced(j)'
  <2>1. session # "closed" /\ FALSE \in BOOLEAN /\ (i \in Cached /\ FALSE => Synced(i))
    BY <1>3
  <2>2. UNCHANGED <<session, head, frozen>> /\ at(i, FALSE)
    BY <1>1
  <2> QED  BY <1>3, <2>1, <2>2, TakenFacts
<1>6. TypeOK'
  BY <1>1, <1>2, <1>5 DEF Inv, TypeOK, Entry
<1>7. ClosedIsEmpty' /\ CallHasCause'
  BY <1>1, <1>2, <1>3 DEF ClosedIsEmpty, CallHasCause, HeaderJobs
<1>8. HeldIsInUse'
  <2>1. /\ \A j \in handles \cup Fetched : j \in Cached /\ cache[j].in_use
        /\ \A j \in Cached : cache[j].in_use => j \in handles \cup Fetched
        /\ Cardinality(handles) <= MaxHandles
    BY DEF Inv, HeldIsInUse
  <2>2. handles' \cup Fetched' = handles \cup Fetched \cup {i}
    BY <1>1, <1>2
  <2>3. \A j \in handles' \cup Fetched' : j \in Cached' /\ cache'[j].in_use
    BY <1>4, <2>1, <2>2
  <2>4. \A j \in Cached' : cache'[j].in_use => j \in handles' \cup Fetched'
    BY <1>4, <2>1, <2>2
  <2> QED  BY <1>1, <2>1, <2>3, <2>4 DEF HeldIsInUse
<1>9. ReadOnlyIsSynced'
  <2>1. /\ \A j \in Cached : j \in frozen => Synced(j)
        /\ \A j \in Cached : j \in handles /\ j \in frozen \cup Headers => cache[j].read_only
    BY <1>2 DEF Inv, ReadOnlyIsSynced
  <2>2. i \notin handles'
    BY <1>1, <1>3
  <2>3. \A j \in Cached' : j \in handles' /\ j \in frozen \cup Headers => cache'[j].read_only
    BY <1>1, <1>4, <2>1, <2>2
  <2> QED  BY <1>1, <1>3, <1>5, <2>1, <2>3 DEF ReadOnlyIsSynced
<1>10. SyncedSoFar' /\ HeaderWritten'
  BY <1>1, <1>2, <1>5 DEF Inv, SyncedSoFar, HeaderWritten
<1> QED  BY <1>5, <1>6, <1>7, <1>8, <1>9, <1>10 DEF Inv

LEMMA PutPreserves == ASSUME Inv, put_first \/ put_last PROVE Inv'
<1>1. PICK i \in Headers :
        /\ i = First => job = "put_first" /\ job' = "put_last"
        /\ i = Last => job = "put_last" /\ job' = "release"
        /\ put_header(i) /\ UNCHANGED <<head, session, handles, frozen, cause>>
  BY IndexFacts DEF put_first, put_last, Headers
<1>2. /\ job \in {"put_first", "put_last"} /\ job' \in {"put_last", "release"}
      /\ Fetched = Headers /\ Fetched' = Headers /\ Put' = Put \cup {i} /\ Put \subseteq Headers
  BY <1>1, IndexFacts DEF Fetched, Put, Headers
<1>3. /\ session = "writable" /\ handles \cap Headers = {} /\ cause # "none" /\ i \in Idx
      /\ cause = "close" => handles = {}
  BY <1>2, IndexFacts DEF Inv, CallHasCause, HeaderJobs
<1>4. /\ cache' = [cache EXCEPT ![i].data = head, ![i].out_of_sync = FALSE, ![i].read_only = TRUE]
      /\ disk' = [disk EXCEPT ![i] = head]
  BY <1>1 DEF put_header
<1>5. /\ disk \in [Idx -> Value] /\ head \in Value
      /\ Cached \subseteq Idx /\ \A j \in Cached : cache[j] \in Entry
  BY DEF Inv, TypeOK, Entry, Value
<1>6. i \in Cached /\ cache[i].in_use /\ cache[i] \in Entry
  BY <1>2, <1>5 DEF Inv, HeldIsInUse
<1>7. /\ Cached' = Cached /\ \A j \in Cached \ {i} : cache'[j] = cache[j]
      /\ cache'[i] = [cache[i] EXCEPT !.data = head, !.out_of_sync = FALSE, !.read_only = TRUE]
  BY <1>4, <1>6 DEF Entry, Cached
<1>8. /\ cache'[i] \in Entry /\ cache'[i].data = head /\ ~cache'[i].out_of_sync
      /\ cache'[i].read_only /\ cache'[i].in_use
  BY <1>5, <1>6, <1>7 DEF Entry
<1>9. /\ disk' \in [Idx -> Value] /\ disk'[i] = head
      /\ \A j \in Idx \ {i} : disk'[j] = disk[j]
  BY <1>3, <1>4, <1>5
<1>10. Synced(i)' /\ \A j \in Cached \ {i} : Synced(j)' = Synced(j)
  BY <1>7, <1>8 DEF Synced
<1>11. TypeOK'
  BY <1>1, <1>2, <1>5, <1>7, <1>8, <1>9 DEF Inv, TypeOK, Entry
<1>12. ClosedIsEmpty' /\ CallHasCause'
  BY <1>1, <1>2, <1>3 DEF ClosedIsEmpty, CallHasCause, HeaderJobs
<1>13. HeldIsInUse'
  BY <1>1, <1>2, <1>6, <1>7, <1>8 DEF Inv, HeldIsInUse
<1>14. FlagsAreTrue'
  BY <1>5, <1>7, <1>8, <1>9, <1>10 DEF Inv, FlagsAreTrue
<1>15. ReadOnlyIsSynced'
  BY <1>1, <1>2, <1>3, <1>7, <1>8, <1>10 DEF Inv, ReadOnlyIsSynced
<1>16. SyncedSoFar'
  BY <1>1, <1>7, <1>10 DEF Inv, SyncedSoFar
<1>17. HeaderWritten'
  <2>1. head \in Head
    BY DEF Inv, TypeOK
  <2>2. \A j \in Headers : disk'[j] = IF j = i THEN head ELSE disk[j]
    BY <1>9, IndexFacts
  <2>3. \A j \in Headers : disk'[j] \in Head
    BY <2>1, <2>2 DEF Inv, HeaderWritten
  <2>4. \A j \in Put' : disk'[j] = head
    BY <1>2, <1>3, <2>2 DEF Inv, HeaderWritten
  <2>5. cause # "close" => ~head.clean
    BY <1>3 DEF Inv, HeaderWritten
  <2> QED  BY <1>1, <2>3, <2>4, <2>5 DEF HeaderWritten
<1> QED  BY <1>11, <1>12, <1>13, <1>14, <1>15, <1>16, <1>17 DEF Inv

\* The calls that begin to write the header and leave the cache as it is.
LEMMA StartPreserves ==
    ASSUME Inv, (\E info \in Info : update_runtime_info(info)) \/ unmount
    PROVE  Inv'
<1>1. /\ session = "writable" /\ job = "none" /\ handles \cap Headers = {}
      /\ job' = "fetch_first" /\ cause' \in {"update", "close"}
      /\ head' \in Head /\ (cause' # "close" => head'.clean = head.clean)
      /\ cause' = "close" => handles = {}
      /\ UNCHANGED <<disk, cache, session, handles, frozen>>
  <2>1. head \in [clean : BOOLEAN, info : Info]
    BY DEF Inv, TypeOK, Head
  <2>2. CASE \E info \in Info : update_runtime_info(info)
    <3>1. PICK info \in Info : update_runtime_info(info)
      BY <2>2
    <3>2. head' = [head EXCEPT !.info = info]
      BY <3>1 DEF update_runtime_info
    <3>3. head' \in Head /\ head'.clean = head.clean
      BY <2>1, <3>2 DEF Head
    <3> QED  BY <3>1, <3>3 DEF update_runtime_info, start_header_sync, Headers
  <2>3. CASE unmount
    <3>1. head' \in Head
      BY <2>1, <2>3 DEF unmount, Head
    <3> QED  BY <2>3, <3>1 DEF unmount, start_header_sync
  <2> QED  BY <2>2, <2>3
<1>2. cause = "none" /\ Cached' = Cached
  BY <1>1 DEF Inv, CallHasCause, HeaderJobs, TypeOK, Cached
<1>3. Fetched = {} /\ Fetched' = {} /\ Put' = {} /\ Put = Headers
  BY <1>1 DEF Fetched, Put
<1>4. TypeOK'
  BY <1>1, <1>2 DEF Inv, TypeOK
<1>5. ClosedIsEmpty' /\ CallHasCause'
  BY <1>1 DEF ClosedIsEmpty, CallHasCause, HeaderJobs
<1>6. HeldIsInUse' /\ FlagsAreTrue'
  BY <1>1, <1>2, <1>3 DEF Inv, HeldIsInUse, FlagsAreTrue, Synced
<1>7. ReadOnlyIsSynced' /\ SyncedSoFar'
  BY <1>1, <1>2 DEF Inv, ReadOnlyIsSynced, SyncedSoFar, Synced
<1>8. HeaderWritten'
  BY <1>1, <1>2, <1>3 DEF Inv, HeaderWritten
<1> QED  BY <1>4, <1>5, <1>6, <1>7, <1>8 DEF Inv

\* A cache that is emptied while nothing is held.
LEMMA EmptiedFacts ==
    ASSUME Inv, cache' = NoCache, handles' = {}, Fetched' = {}
    PROVE  /\ Cached' = {} /\ HeldIsInUse' /\ FlagsAreTrue' /\ ReadOnlyIsSynced'
           /\ SyncedSoFar'
<1>1. Cached' = {}
  BY DEF Cached, NoCache
<1>2. Cardinality(handles') <= MaxHandles
  BY FS_EmptySet, CacheAssumption
<1>3. HeldIsInUse'
  BY <1>1, <1>2 DEF HeldIsInUse
<1> QED  BY <1>1, <1>3 DEF FlagsAreTrue, ReadOnlyIsSynced, SyncedSoFar

LEMMA SyncPreserves == ASSUME Inv, sync PROVE Inv'
<1>1. /\ session # "closed" /\ job \in {"none", "frozen"} /\ handles = {}
      /\ disk' = Written(Cached) /\ cache' = NoCache
      /\ session = "writable" => job' = "fetch_first" /\ cause' = "sync"
      /\ session # "writable" => UNCHANGED <<job, cause>>
      /\ UNCHANGED <<head, session, handles, frozen>>
  BY DEF sync, start_header_sync
<1>2. session \in {"writable", "read_only"} /\ (session = "read_only" => job = "none")
  BY <1>1 DEF Inv, TypeOK, CallHasCause
<1>3. Fetched' = {} /\ (session = "writable" => Put' = {})
  BY <1>1, <1>2 DEF Fetched, Put
<1>4. /\ Cached' = {} /\ HeldIsInUse' /\ FlagsAreTrue' /\ ReadOnlyIsSynced' /\ SyncedSoFar'
  BY <1>1, <1>3, EmptiedFacts
<1>5. disk' \in [Idx -> Value]
  BY <1>1, WrittenFacts
<1>6. TypeOK'
  BY <1>1, <1>2, <1>4, <1>5 DEF Inv, TypeOK
<1>7. ClosedIsEmpty' /\ CallHasCause'
  BY <1>1, <1>2 DEF Inv, ClosedIsEmpty, CallHasCause, HeaderJobs
<1>8. HeaderWritten'
  <2>1. cause # "close"
    BY <1>1 DEF Inv, CallHasCause, HeaderJobs
  <2>2. \A i \in Headers : disk'[i] = disk[i]
    BY <1>1, WrittenFacts
  <2> QED  BY <1>1, <1>3, <2>1, <2>2 DEF Inv, HeaderWritten
<1> QED  BY <1>4, <1>6, <1>7, <1>8 DEF Inv

LEMMA FreezePreserves == ASSUME Inv, NEW S \in SUBSET DataIdx, freeze(S) PROVE Inv'
<1>1. /\ session = "writable" /\ job = "none" /\ handles = {}
      /\ frozen' = frozen \cup S /\ job' = "frozen"
      /\ UNCHANGED <<disk, cache, head, session, handles, cause>>
  BY DEF freeze
<1>2. Cached' = Cached /\ Fetched = {} /\ Fetched' = {} /\ Put = Headers /\ Put' = Headers
  BY <1>1 DEF Cached, Fetched, Put
<1>3. TypeOK'
  BY <1>1, <1>2 DEF Inv, TypeOK
<1>4. ClosedIsEmpty' /\ CallHasCause'
  BY <1>1 DEF Inv, ClosedIsEmpty, CallHasCause, HeaderJobs
<1>5. HeldIsInUse' /\ FlagsAreTrue'
  BY <1>1, <1>2 DEF Inv, HeldIsInUse, FlagsAreTrue, Synced
<1>6. ReadOnlyIsSynced' /\ SyncedSoFar' /\ HeaderWritten'
  BY <1>1, <1>2 DEF Inv, ReadOnlyIsSynced, SyncedSoFar, HeaderWritten, Synced
<1> QED  BY <1>3, <1>4, <1>5, <1>6 DEF Inv

LEMMA MountPreserves ==
    ASSUME Inv, NEW how \in {"writable", "read_only"}, mount(how)
    PROVE  Inv'
<1>1. /\ session = "closed" /\ session' = how
      /\ head' = [disk[First] EXCEPT !.clean = FALSE]
      /\ how = "writable" => job' = "fetch_first" /\ cause' = "mount"
      /\ how # "writable" => UNCHANGED <<job, cause>>
      /\ UNCHANGED <<disk, cache, handles, frozen>>
  BY DEF mount, start_header_sync
<1>2. Cached = {} /\ handles = {} /\ job = "none" /\ cause = "none"
  BY <1>1 DEF Inv, ClosedIsEmpty, CallHasCause, HeaderJobs, TypeOK
<1>3. head' \in Head /\ ~head'.clean
  BY <1>1 DEF Inv, HeaderWritten, Headers, Head
<1>4. Cached' = {} /\ Fetched' = {} /\ (how = "writable" => Put' = {})
  BY <1>1, <1>2 DEF Cached, Fetched, Put
<1>5. TypeOK'
  BY <1>1, <1>2, <1>3, <1>4 DEF Inv, TypeOK
<1>6. ClosedIsEmpty' /\ CallHasCause'
  BY <1>1, <1>2 DEF ClosedIsEmpty, CallHasCause, HeaderJobs
<1>7. HeldIsInUse' /\ FlagsAreTrue'
  BY <1>1, <1>2, <1>4 DEF Inv, HeldIsInUse, FlagsAreTrue
<1>8. ReadOnlyIsSynced' /\ SyncedSoFar'
  BY <1>4 DEF ReadOnlyIsSynced, SyncedSoFar
<1>9. HeaderWritten'
  BY <1>1, <1>3, <1>4 DEF Inv, HeaderWritten
<1> QED  BY <1>5, <1>6, <1>7, <1>8, <1>9 DEF Inv

LEMMA EndPreserves == ASSUME Inv, clear_cache \/ unmount_read_only \/ crash PROVE Inv'
<1>1. /\ cache' = NoCache /\ session' = "closed" /\ head' = head /\ handles' = {}
      /\ job' = "none" /\ cause' = "none" /\ frozen' \subseteq frozen
      /\ disk' \in {disk, Written(Cached)}
      /\ \A i \in Headers : disk'[i] = disk[i]
  <2>1. CASE clear_cache
    <3>1. handles = {}
      BY <2>1 DEF clear_cache, Inv, CallHasCause, HeaderJobs
    <3> QED  BY <2>1, <3>1, WrittenFacts DEF clear_cache
  <2>2. CASE unmount_read_only
    <3>1. cause = "none"
      BY <2>2 DEF unmount_read_only, Inv, CallHasCause, HeaderJobs, TypeOK
    <3> QED  BY <2>2, <3>1, WrittenFacts DEF unmount_read_only
  <2>3. CASE crash
    BY <2>3 DEF crash
  <2> QED  BY <2>1, <2>2, <2>3
<1>2. Fetched' = {}
  BY <1>1 DEF Fetched
<1>3. Cached' = {} /\ HeldIsInUse' /\ FlagsAreTrue' /\ ReadOnlyIsSynced' /\ SyncedSoFar'
  BY <1>1, <1>2, EmptiedFacts
<1>4. disk' \in [Idx -> Value]
  BY <1>1, WrittenFacts DEF Inv, TypeOK
<1>5. TypeOK'
  BY <1>1, <1>3, <1>4 DEF Inv, TypeOK
<1>6. ClosedIsEmpty' /\ CallHasCause'
  BY <1>1, <1>3 DEF ClosedIsEmpty, CallHasCause, HeaderJobs
<1>7. HeaderWritten'
  BY <1>1 DEF Inv, HeaderWritten
<1> QED  BY <1>3, <1>5, <1>6, <1>7 DEF Inv

LEMMA InitHolds == Init => Inv
<1> SUFFICES ASSUME Init PROVE Inv
  OBVIOUS
<1>1. PICK h \in Head : /\ disk \in [Idx -> Value]
                        /\ disk[First] = h /\ disk[Last] = h
  BY DEF Init
<1>2. Cached = {} /\ Fetched = {}
  BY DEF Init, Cached, NoCache, Fetched
<1>3. TypeOK
  BY <1>1, <1>2 DEF Init, TypeOK
<1>4. ClosedIsEmpty /\ CallHasCause
  BY <1>2 DEF Init, ClosedIsEmpty, CallHasCause, HeaderJobs
<1>5. HeldIsInUse
  BY <1>2, FS_EmptySet, CacheAssumption DEF Init, HeldIsInUse
<1>6. FlagsAreTrue /\ ReadOnlyIsSynced /\ SyncedSoFar
  BY <1>2 DEF FlagsAreTrue, ReadOnlyIsSynced, SyncedSoFar
<1>7. HeaderWritten
  BY <1>1 DEF Init, HeaderWritten, Headers
<1> QED  BY <1>3, <1>4, <1>5, <1>6, <1>7 DEF Inv

LEMMA StepPreserves == ASSUME Inv, [Next]_vars PROVE Inv'
<1>1. CASE \E i \in Idx : safe_at(i) \/ drop_handle(i)
  BY <1>1, SafeAtPreserves, DropHandlePreserves
<1>2. CASE \E i \in DataIdx, v \in Data : update(i, v)
  BY <1>2, UpdatePreserves
<1>3. CASE fetch_first \/ fetch_last \/ put_first \/ put_last \/ release_headers
  BY <1>3, FetchPreserves, PutPreserves, ReleasePreserves
<1>4. CASE (\E info \in Info : update_runtime_info(info)) \/ unmount
  BY <1>4, StartPreserves
<1>5. CASE sync \/ \E S \in SUBSET DataIdx : freeze(S)
  BY <1>5, SyncPreserves, FreezePreserves
<1>6. CASE \E how \in {"writable", "read_only"} : mount(how)
  BY <1>6, MountPreserves
<1>7. CASE clear_cache \/ unmount_read_only \/ crash
  BY <1>7, EndPreserves
<1>8. CASE UNCHANGED vars
  BY <1>8 DEF vars, Inv, TypeOK, ClosedIsEmpty, CallHasCause, HeldIsInUse, FlagsAreTrue,
              ReadOnlyIsSynced, SyncedSoFar, HeaderWritten, Fetched, Put, Synced, Cached
<1> QED  BY <1>1, <1>2, <1>3, <1>4, <1>5, <1>6, <1>7, <1>8 DEF Next

LEMMA Inductive == Spec => []Inv
<1>1. Inv /\ [Next]_vars => Inv'
  BY StepPreserves
<1> QED  BY InitHolds, <1>1, PTL DEF Spec

------------------------------------------------------------------------------
\* No value in the cache, on the disk or among the flags is out of its type.
THEOREM CacheTypeOK == Spec => []TypeOK
BY Inductive, PTL DEF Inv

\* A block with a handle is in the cache, in use, whatever was fetched or
\* evicted since the handle was taken.
THEOREM CacheHandlesStayValid == Spec => []HandlesStayValid
<1>1. Inv => HandlesStayValid
  BY DEF Inv, HeldIsInUse, HandlesStayValid
<1> QED  BY <1>1, Inductive, PTL

\* Between calls of a writable session both headers, on the disk and in the
\* cache, are the header in memory and say that the volume is dirty.
THEOREM CacheHeadersAgree == Spec => []HeadersAgree
<1>1. ASSUME Inv, session = "writable", job \in {"none", "frozen"}
      PROVE  /\ disk[First] = head /\ disk[Last] = head
             /\ View[First] = head /\ View[Last] = head
             /\ ~head.clean
  <2>1. Put = Headers /\ cause = "none"
    BY <1>1 DEF Put, Inv, CallHasCause, HeaderJobs
  <2>2. /\ \A i \in Headers : disk[i] = head
        /\ ~head.clean
    BY <1>1, <2>1 DEF Inv, HeaderWritten
  <2>3. \A i \in Headers : i \in Cached => cache[i].data = disk[i]
    BY <1>1 DEF Inv, ReadOnlyIsSynced, FlagsAreTrue
  <2>4. \A i \in Headers : View[i] = head
    BY <2>2, <2>3, IndexFacts DEF View
  <2> QED  BY <2>2, <2>4 DEF Headers
<1>2. Inv => HeadersAgree
  BY <1>1 DEF HeadersAgree
<1> QED  BY <1>2, Inductive, PTL

\* When a sync has written the header, everything written before it is on the disk.
THEOREM CacheSyncIsDurable == Spec => []SyncIsDurable
<1>1. ASSUME Inv, cause = "sync" PROVE disk = View
  <2>1. \A i \in Cached : cache[i].data = disk[i]
    BY <1>1 DEF Inv, SyncedSoFar, FlagsAreTrue
  <2>2. disk \in [Idx -> Value]
    BY <1>1 DEF Inv, TypeOK
  <2> QED  BY <2>1, <2>2 DEF View
<1>2. Inv => SyncIsDurable
  BY <1>1 DEF SyncIsDurable
<1> QED  BY <1>2, Inductive, PTL
------------------------------------------------------------------------------
\* at() makes no more than one block's room too little: a full cache with at
\* least three idle blocks loses two, one with fewer is held by its handles.
LEMMA AtIsBounded ==
    ASSUME Inv, CacheIsBounded, NEW i \in Idx, NEW ro \in BOOLEAN, at(i, ro),
           Cardinality(handles \cup Fetched) <= MaxHandles + 1
    PROVE  CacheIsBounded'
<1> DEFINE Bound == IF MaxCached > MaxHandles + 4 THEN MaxCached ELSE MaxHandles + 4
<1>1. PICK gone \in Evictions(i) : Cached' = (Cached \ gone) \cup {i}
  BY DEF at, Cached
<1>2. /\ IsFiniteSet(Cached) /\ Cardinality(Cached) \in Nat
      /\ Cardinality(Cached) <= Bound
  BY IndexFacts, FS_Subset, FS_CardinalityType DEF Inv, TypeOK, CacheIsBounded
<1>3. Bound \in Nat /\ MaxCached <= Bound /\ MaxHandles + 4 <= Bound
  BY CacheAssumption
<1> HIDE DEF Bound
<1>4. CASE gone = {}
  <2>1. CASE i \in Cached
    <3>1. Cached' = Cached
      BY <1>1, <1>4, <2>1
    <3> QED  BY <1>2, <3>1 DEF CacheIsBounded, Bound
  <2>2. CASE i \notin Cached
    <3>1. Cardinality(Cached') = Cardinality(Cached) + 1
      BY <1>1, <1>2, <1>4, <2>2, FS_AddElement
    <3>2. Cardinality(Cached) + 1 <= Bound
      <4>1. CASE Cardinality(Cached) < MaxCached
        BY <1>2, <1>3, <4>1, CacheAssumption
      <4>2. CASE ~(Cardinality(Cached) < MaxCached)
        <5>1. /\ Cardinality(gone) = (Cardinality(Idle) \div 3) * 2
              /\ Cardinality(gone) = 0
          BY <1>1, <1>4, <2>2, <4>2, FS_EmptySet DEF Evictions
        <5>2. Cardinality(Idle) \in Nat /\ IsFiniteSet(Idle)
          BY <1>2, FS_Subset, FS_CardinalityType DEF Idle
        <5>3. Cardinality(Idle) <= 2
          BY <5>1, <5>2
        <5>4. Cached \subseteq Idle \cup (handles \cup Fetched)
          BY DEF Inv, HeldIsInUse, Idle
        <5>5. IsFiniteSet(handles \cup Fetched)
          <6>1. handles \cup Fetched \subseteq Cached
            BY DEF Inv, HeldIsInUse
          <6> QED  BY <1>2, <6>1, FS_Subset
        <5>6. /\ IsFiniteSet(Idle \cup (handles \cup Fetched))
              /\ Cardinality(Idle \cup (handles \cup Fetched)) \in Nat
              /\ Cardinality(Idle \cup (handles \cup Fetched))
                   <= Cardinality(Idle) + Cardinality(handles \cup Fetched)
          <6>1. /\ IsFiniteSet(Idle \cup (handles \cup Fetched))
                /\ Cardinality(Idle \cup (handles \cup Fetched))
                     = Cardinality(Idle) + Cardinality(handles \cup Fetched)
                         - Cardinality(Idle \cap (handles \cup Fetched))
            BY <5>2, <5>5, FS_Union
          <6>2. Cardinality(Idle \cap (handles \cup Fetched)) \in Nat
            BY <5>2, FS_Intersection, FS_CardinalityType
          <6>3. Cardinality(handles \cup Fetched) \in Nat
            BY <5>5, FS_CardinalityType
          <6>4. Cardinality(Idle \cup (handles \cup Fetched)) \in Nat
            BY <6>1, FS_CardinalityType
          <6> QED  BY <5>2, <6>1, <6>2, <6>3, <6>4
        <5>7. Cardinality(Cached) <= Cardinality(Idle \cup (handles \cup Fetched))
          BY <5>4, <5>6, FS_Subset
        <5>8. Cardinality(handles \cup Fetched) \in Nat
          BY <5>5, FS_CardinalityType
        <5> QED  BY <1>2, <1>3, <5>2, <5>3, <5>6, <5>7, <5>8, CacheAssumption
      <4> QED  BY <4>1, <4>2
    <3> QED  BY <3>1, <3>2 DEF CacheIsBounded, Bound
  <2> QED  BY <2>1, <2>2
<1>5. CASE gone # {}
  <2>1. /\ gone \subseteq Idle /\ Idle \subseteq Cached
        /\ Cardinality(gone) = (Cardinality(Idle) \div 3) * 2
    BY <1>1, <1>5 DEF Evictions, Idle
  <2>2. /\ IsFiniteSet(gone) /\ Cardinality(gone) \in Nat /\ Cardinality(gone) # 0
        /\ Cardinality(Idle) \in Nat
    BY <1>2, <1>5, <2>1, FS_Subset, FS_CardinalityType, FS_EmptySet
  <2>3. Cardinality(gone) >= 2
    BY <2>1, <2>2
  <2>4. /\ IsFiniteSet(Cached \ gone) /\ Cardinality(Cached \ gone) \in Nat
        /\ Cardinality(Cached \ gone) = Cardinality(Cached) - Cardinality(gone)
    <3>1. Cached \cap gone = gone
      BY <2>1
    <3> QED  BY <1>2, <3>1, FS_Difference, FS_CardinalityType
  <2>5. Cardinality(Cached') <= Cardinality(Cached \ gone) + 1
    <3>1. Cardinality((Cached \ gone) \cup {i}) =
            IF i \in Cached \ gone THEN Cardinality(Cached \ gone)
                                  ELSE Cardinality(Cached \ gone) + 1
      BY <2>4, FS_AddElement
    <3> QED  BY <1>1, <2>4, <3>1
  <2>6. Cardinality(Cached') \in Nat
    BY <1>1, <2>4, FS_AddElement, FS_CardinalityType
  <2> QED  BY <1>2, <1>3, <2>2, <2>3, <2>4, <2>5, <2>6 DEF CacheIsBounded, Bound
<1> QED  BY <1>4, <1>5
\* The cache outgrows max_cached_block_number only when that is smaller than
\* what a call keeps in use, whatever is evicted.
THEOREM CacheStaysBounded == Spec => []CacheIsBounded
<1>1. Init => CacheIsBounded
  <2>1. Init => Cached = {}
    BY DEF Init, Cached, NoCache
  <2> QED  BY <2>1, FS_EmptySet, CacheAssumption DEF CacheIsBounded
<1>2. Inv /\ CacheIsBounded /\ [Next]_vars => CacheIsBounded'
  <2> SUFFICES ASSUME Inv, CacheIsBounded, [Next]_vars PROVE CacheIsBounded'
    OBVIOUS
  <2>1. /\ IsFiniteSet(handles) /\ Cardinality(handles) \in Nat
        /\ Cardinality(handles) <= MaxHandles
    BY IndexFacts, FS_Subset, FS_CardinalityType DEF Inv, TypeOK, HeldIsInUse
  <2>2. CASE \E i \in Idx : safe_at(i)
    <3>1. PICK i \in Idx : safe_at(i)
      BY <2>2
    <3>2. at(i, i \in frozen) /\ (i \in frozen) \in BOOLEAN /\ handles \cup Fetched = handles
      BY <3>1 DEF safe_at, Fetched
    <3>3. Cardinality(handles) <= MaxHandles + 1
      BY <2>1, CacheAssumption
    <3>4. Cardinality(handles \cup Fetched) <= MaxHandles + 1
      BY <3>2, <3>3
    <3> QED  BY <3>2, <3>4, AtIsBounded
  <2>3. CASE fetch_first \/ fetch_last
    <3>1. PICK i \in Headers : at(i, FALSE) /\ job \in {"fetch_first", "fetch_last"}
      BY <2>3 DEF fetch_first, fetch_last, fetch_header, Headers
    <3>2. handles \cup Fetched \in {handles, handles \cup {First}}
      BY <3>1 DEF Fetched
    <3>3. /\ Cardinality(handles \cup {First}) =
               IF First \in handles THEN Cardinality(handles) ELSE Cardinality(handles) + 1
      BY <2>1, FS_AddElement
    <3>4. Cardinality(handles \cup Fetched) <= MaxHandles + 1
      <4>1. \A n \in Nat : n <= MaxHandles => n <= MaxHandles + 1 /\ n + 1 <= MaxHandles + 1
        BY CacheAssumption
      <4>2. CASE handles \cup Fetched = handles
        BY <2>1, <4>1, <4>2
      <4>3. CASE handles \cup Fetched = handles \cup {First}
        BY <2>1, <3>3, <4>1, <4>3
      <4> QED  BY <3>2, <4>2, <4>3
    <3> QED  BY <3>1, <3>4, AtIsBounded, IndexFacts
  <2>4. ASSUME Cached' \subseteq Cached PROVE CacheIsBounded'
    <3>1. /\ IsFiniteSet(Cached) /\ Cardinality(Cached) \in Nat
      BY IndexFacts, FS_Subset, FS_CardinalityType DEF Inv, TypeOK
    <3>2. Cardinality(Cached') <= Cardinality(Cached) /\ Cardinality(Cached') \in Nat
      BY <2>4, <3>1, FS_Subset, FS_CardinalityType
    <3> QED  BY <3>1, <3>2, CacheAssumption DEF CacheIsBounded
  <2>5. CASE \/ \E i \in Idx : drop_handle(i)
             \/ \E i \in DataIdx, v \in Data : update(i, v)
             \/ put_first \/ put_last \/ release_headers
    <3>1. Cached' = Cached
      BY <2>5 DEF drop_handle, update, put_first, put_last, put_header, release_headers, Cached
    <3> QED  BY <2>4, <3>1
  <2>6. CASE \/ \E info \in Info : update_runtime_info(info)
             \/ \E S \in SUBSET DataIdx : freeze(S)
             \/ \E how \in {"writable", "read_only"} : mount(how)
             \/ unmount \/ UNCHANGED vars
    <3>1. Cached' = Cached
      BY <2>6 DEF update_runtime_info, freeze, mount, unmount, vars, Cached
    <3> QED  BY <2>4, <3>1
  <2>7. CASE sync \/ clear_cache \/ unmount_read_only \/ crash
    <3>1. Cached' = {}
      BY <2>7 DEF sync, clear_cache, unmount_read_only, crash, Cached, NoCache
    <3> QED  BY <2>4, <3>1
  <2> QED  BY <2>2, <2>3, <2>5, <2>6, <2>7 DEF Next
<1> QED  BY <1>1, <1>2, Inductive, PTL DEF Spec
------------------------------------------------------------------------------
\* What a step does to the memory that the cache implements.
LEMMA AtIsFlush ==
    ASSUME Inv, NEW i \in Idx, NEW ro \in BOOLEAN, at(i, ro), session # "closed",
           i \in Cached /\ ro => Synced(i), session' = session
    PROVE  Memory!Flush
<1>1. /\ disk' \in [Idx -> Value] /\ View' = View
      /\ \A j \in Idx : disk'[j] = disk[j] \/ disk'[j] = View[j]
  BY AtFacts
<1> QED  BY <1>1 DEF Memory!Flush

LEMMA OneBlockFacts ==
    ASSUME NEW i \in Cached, NEW v, Cached \subseteq Idx, Cached' = Cached,
           cache'[i].data = v, \A j \in Cached \ {i} : cache'[j] = cache[j],
           \A j \in Idx \ {i} : disk'[j] = disk[j]
    PROVE  View' = [View EXCEPT ![i] = v]
<1>1. \A j \in Idx : View'[j] = IF j = i THEN v ELSE View[j]
  BY DEF View
<1>2. DOMAIN View = Idx /\ View' = [j \in Idx |-> View'[j]]
  BY DEF View
<1>3. [View EXCEPT ![i] = v] = [j \in Idx |-> IF j = i THEN v ELSE View[j]]
  BY <1>2
<1> HIDE DEF View
<1> QED  BY <1>1, <1>2, <1>3

LEMMA StepImplements ==
    ASSUME Inv, [Next]_vars
    PROVE  /\ [Memory!Next]_(Memory!vars)
           /\ session = "read_only" => disk' = disk
<1>1. CASE \E i \in Idx : safe_at(i)
  <2>1. PICK i \in Idx : safe_at(i)
    BY <1>1
  <2>2. /\ at(i, i \in frozen) /\ (i \in frozen) \in BOOLEAN /\ session # "closed"
        /\ session' = session /\ job = "none"
    BY <2>1 DEF safe_at
  <2>3. i \in Cached /\ i \in frozen => Synced(i)
    BY <2>2 DEF Inv, ReadOnlyIsSynced
  <2>4. Memory!Flush
    BY <2>2, <2>3, AtIsFlush
  <2>5. session = "read_only" => \A j \in Cached : Synced(j)
    BY DEF Inv, ReadOnlyIsSynced
  <2>6. (\A j \in Cached : Synced(j)) => disk' = disk
    BY <2>2, <2>3, AtFacts
  <2> QED  BY <2>4, <2>5, <2>6 DEF Memory!Next
<1>2. CASE fetch_first \/ fetch_last
  <2>1. PICK i \in Headers : /\ at(i, FALSE) /\ job \in {"fetch_first", "fetch_last"}
                             /\ session' = session
    BY <1>2 DEF fetch_first, fetch_last, fetch_header, Headers
  <2>2. session = "writable"
    BY <2>1 DEF Inv, CallHasCause
  <2>3. Memory!Flush
    BY <2>1, <2>2, AtIsFlush, IndexFacts
  <2> QED  BY <2>2, <2>3 DEF Memory!Next
<1>3. CASE \E i \in DataIdx, v \in Data : update(i, v)
  <2>1. PICK i \in DataIdx, v \in Data : update(i, v)
    BY <1>3
  <2>2. /\ i \in handles /\ i \in Cached /\ Cached \subseteq Idx
        /\ UNCHANGED <<disk, session>> /\ cache[i] \in Entry
        /\ cache' = [cache EXCEPT ![i].data = v, ![i].out_of_sync = TRUE]
    BY <2>1 DEF update, Inv, TypeOK, Entry
  <2>3. Cached' = Cached /\ cache'[i].data = v /\ \A j \in Cached \ {i} : cache'[j] = cache[j]
    BY <2>2 DEF Entry, Cached
  <2>4. View' = [View EXCEPT ![i] = v]
    BY <2>2, <2>3, OneBlockFacts
  <2>5. session # "closed"
    BY <2>2 DEF Inv, ClosedIsEmpty
  <2>6. v \in Value /\ i \in Idx
    BY <2>2 DEF Value
  <2>7. Memory!Write(i, v)
    BY <2>2, <2>4, <2>5 DEF Memory!Write
  <2> QED  BY <2>2, <2>6, <2>7 DEF Memory!Next
<1>4. CASE put_first \/ put_last
  <2>1. PICK i \in Headers : /\ put_header(i) /\ job \in {"put_first", "put_last"}
                             /\ session' = session
    BY <1>4 DEF put_first, put_last, Headers
  <2>2. session = "writable" /\ i \in Cached /\ Fetched = Headers
    BY <2>1 DEF Inv, CallHasCause, HeldIsInUse, Fetched
  <2>3. /\ disk' = [disk EXCEPT ![i] = head] /\ disk \in [Idx -> Value]
        /\ cache' = [cache EXCEPT ![i].data = head, ![i].out_of_sync = FALSE,
                                  ![i].read_only = TRUE]
        /\ cache[i] \in Entry /\ Cached \subseteq Idx /\ head \in Value /\ i \in Idx
    BY <2>1, <2>2 DEF put_header, Inv, TypeOK, Entry, Value
  <2>4. Cached' = Cached /\ cache'[i].data = head /\ \A j \in Cached \ {i} : cache'[j] = cache[j]
    BY <2>2, <2>3 DEF Entry, Cached
  <2>5. View' = [View EXCEPT ![i] = head]
    BY <2>2, <2>3, <2>4, OneBlockFacts
  <2>6. Memory!WriteThrough(i, head)
    BY <2>1, <2>2, <2>3, <2>5 DEF Memory!WriteThrough
  <2> QED  BY <2>2, <2>3, <2>6 DEF Memory!Next
<1>5. CASE release_headers \/ \E i \in Idx : drop_handle(i)
  <2>1. PICK S : /\ cache' = [j \in Cached |-> IF j \in S THEN [cache[j] EXCEPT !.in_use = FALSE]
                                                        ELSE cache[j]]
                 /\ UNCHANGED <<disk, frozen, session>>
    <3>1. CASE release_headers
      BY <3>1 DEF release_headers
    <3>2. CASE \E i \in Idx : drop_handle(i)
      <4>1. PICK i \in Idx : drop_handle(i)
        BY <3>2
      <4>2. /\ cache' = [j \in Cached |-> IF j \in {i} THEN [cache[j] EXCEPT !.in_use = FALSE]
                                                       ELSE cache[j]]
            /\ UNCHANGED <<disk, frozen, session>>
        BY <4>1 DEF drop_handle
      <4> QED  BY <4>2
    <3> QED  BY <1>5, <3>1, <3>2
  <2>2. Cached' = Cached /\ \A j \in Cached : cache'[j].data = cache[j].data
    BY <2>1, ReleasedFacts
  <2>3. View' = View
    BY <2>1, <2>2 DEF View
  <2> QED  BY <2>1, <2>3 DEF Memory!vars
<1>6. CASE (\E info \in Info : update_runtime_info(info)) \/ unmount
             \/ (\E S \in SUBSET DataIdx : freeze(S)) \/ UNCHANGED vars
  <2>1. UNCHANGED <<disk, cache, session>>
    BY <1>6 DEF update_runtime_info, unmount, freeze, vars
  <2>2. View' = View
    BY <2>1 DEF View, Cached
  <2> QED  BY <2>1, <2>2 DEF Memory!vars
<1>7. CASE \E how \in {"writable", "read_only"} : mount(how)
  <2>1. /\ UNCHANGED <<disk, cache>> /\ session = "closed" /\ session' # "closed"
    BY <1>7 DEF mount
  <2>2. View' = View
    BY <2>1 DEF View, Cached
  <2>3. Memory!Open
    BY <2>1, <2>2 DEF Memory!Open
  <2> QED  BY <2>1, <2>3 DEF Memory!Next
<1>8. CASE sync \/ clear_cache \/ unmount_read_only
  <2>1. /\ disk' = Written(Cached) /\ cache' = NoCache /\ session # "closed"
        /\ session' = IF sync THEN session ELSE "closed"
    BY <1>8 DEF sync, clear_cache, unmount_read_only, Inv, CallHasCause
  <2>2. disk' = View /\ disk' \in [Idx -> Value]
    BY <2>1, FlushFacts, WrittenFacts
  <2>3. View' = View
    <3>1. Cached' = {}
      BY <2>1 DEF Cached, NoCache
    <3>2. View' = [i \in Idx |-> disk'[i]]
      BY <3>1 DEF View
    <3> QED  BY <2>2, <3>2
  <2>4. session = "read_only" => disk' = disk
    <3>1. session = "read_only" => \A j \in Cached : Synced(j)
      BY DEF Inv, ReadOnlyIsSynced
    <3> QED  BY <2>1, <3>1, WrittenFacts
  <2>5. Memory!Flush \/ Memory!Close
    BY <2>1, <2>2, <2>3 DEF Memory!Flush, Memory!Close
  <2> QED  BY <2>4, <2>5 DEF Memory!Next
<1>9. CASE crash
  <2>1. /\ disk' = disk /\ cache' = NoCache /\ session # "closed" /\ session' = "closed"
    BY <1>9 DEF crash
  <2>2. View' = disk
    <3>1. Cached' = {}
      BY <2>1 DEF Cached, NoCache
    <3>2. View' = [i \in Idx |-> disk[i]]
      BY <2>1, <3>1 DEF View
    <3> QED  BY <3>2 DEF Inv, TypeOK
  <2>3. Memory!Lose
    BY <2>1, <2>2 DEF Memory!Lose
  <2> QED  BY <2>1, <2>3 DEF Memory!Next
<1> QED  BY <1>1, <1>2, <1>3, <1>4, <1>5, <1>6, <1>7, <1>8, <1>9 DEF Next

\* A session that was opened read-only leaves the disk alone.
THEOREM CacheReadOnlyWritesNothing == Spec => ReadOnlyWritesNothing
<1>1. Inv /\ [Next]_vars => [session = "read_only" => UNCHANGED disk]_vars
  BY StepImplements
<1>2. Spec => [][session = "read_only" => UNCHANGED disk]_vars
  BY <1>1, Inductive, PTL DEF Spec
<1> QED  BY <1>2, PTL DEF ReadOnlyWritesNothing

\* Through hits, misses, evictions, closed sessions and crashes the cache is a
\* memory with a durable copy: the refinement of BlockMemory.
THEOREM CacheRefinesMemory == Spec => CacheImplementsMemory
<1>1. Init => Memory!Init
  <2> SUFFICES ASSUME Init PROVE Memory!Init
    OBVIOUS
  <2>1. disk \in [Idx -> Value] /\ Cached = {} /\ session = "closed"
    BY DEF Init, Cached, NoCache
  <2>2. View = disk
    BY <2>1 DEF View
  <2> QED  BY <2>1, <2>2 DEF Memory!Init
<1>2. Inv /\ [Next]_vars => [Memory!Next]_(Memory!vars)
  BY StepImplements
<1> QED  BY <1>1, <1>2, Inductive, PTL DEF Spec, CacheImplementsMemory, Memory!Spec
===============================================================================

------------------------------- MODULE Journal -------------------------------
(***************************************************************************)
(* The journal of src/src/include/core/journal.h and core/journal.cpp:     *)
(* fixed-size entries appended to the ring and never consumed; a tool that *)
(* wants them takes a shadow read of everything and scans it for the magic *)
(* number.  An entry is its sequence number, counted modulo Serials so     *)
(* that the ring can be lapped any number of times; byte k of an entry is  *)
(* the pair of that number and k, and byte 1 stands for the magic.         *)
(***************************************************************************)
EXTENDS RingBuffer, FiniteSets

CONSTANTS
    EntrySize,      \* sizeof(entry_t)
    Serials         \* bound: entry numbers are taken modulo Serials

\* Thirty-two blocks hold many entries of 64 bytes; two are enough here.
ASSUME EntryAssumption ==
    /\ EntrySize \in Nat \ {0}
    /\ BufferLength >= 2 * EntrySize
ASSUME SerialsAssumption == Serials \in Nat \ {0}
\* A byte that was pushed can be told from one nobody has written.
ASSUME UntouchedAssumption == Untouched \notin (0 .. Serials - 1) \X (1 .. EntrySize)

VARIABLE next       \* the number of the entry to be pushed next

vars == <<rd_off, wr_off, flipped, cells, next>>

Entry(n) == [k \in 1 .. EntrySize |-> <<n, k>>]

Init == RingInit /\ next = 0

push_action ==
    /\ write(Entry(next))
    /\ next' = (next + 1) % Serials

Next == push_action

Spec == Init /\ [][Next]_vars

(***************************************************************************)
(* export_journaling: the shadow read, and the entries the scan finds in   *)
(* it.  A position holds an entry when the magic is there and the entry    *)
(* ends inside the data; from a magic the scan skips the whole entry, so   *)
(* in a buffer of whole entries no position inside one is looked at.       *)
(***************************************************************************)
Shadow == ReadBytes(Available)

\* The loop bound, buffer_len - sizeof(entry_t), in unsigned arithmetic:
\* meaningless unless the data is empty or holds one entry at least.
ScanBoundSound == Available = 0 \/ Available >= EntrySize

MagicAt(i) == Shadow[i] # Untouched /\ Shadow[i][2] = 1

\* Mutant: the scan stops one position early.
ExportedStopsEarly ==
    LET starts == {i \in 1 .. Available - EntrySize : MagicAt(i)}
    IN  [i \in starts |-> SubSeq(Shadow, i, i + EntrySize - 1)]

Exported ==
    LET starts == {i \in 1 .. Available - EntrySize + 1 : MagicAt(i)}
    IN  [i \in starts |-> SubSeq(Shadow, i, i + EntrySize - 1)]
------------------------------------------------------------------------------
TypeOK ==
    /\ rd_off \in Offsets
    /\ wr_off \in Offsets
    /\ flipped \in BOOLEAN
    /\ cells \in [Positions -> {Untouched} \cup ((0 .. Serials - 1) \X (1 .. EntrySize))]
    /\ next \in 0 .. Serials - 1

\* No push writes past the end of the journal region: the block that follows
\* it on the disk holds the backup header (linear_write has no bound of its
\* own, and the second slice of write() is not clipped).
NoOverrun ==
    \A p \in BufferLength .. BufferLength + Slack - 1 : cells[p] = Untouched

\* What a shadow read returns is the end of the history, in order and without
\* a gap: the last byte is the last byte pushed, the one before it the one
\* before that, and so on to the oldest, whatever laps and overwrites the ring
\* has been through (write() moves rd_off when it overwrites).
ShadowIsRecentHistory ==
    /\ Available <= BufferLength
    /\ \A i \in 0 .. Available - 1 :
        Shadow[Available - i] =
            <<(next - 1 - i \div EntrySize) % Serials, EntrySize - (i % EntrySize)>>

\* The scan of export_journaling returns whole entries, consecutive ones and as
\* many as there are, the newest last, also when the ring is full and its oldest
\* entry is cut; and its unsigned loop bound never wraps around.
ExportsWholeEntries ==
    /\ ScanBoundSound
    /\ Cardinality(DOMAIN Exported) = Available \div EntrySize
    /\ \A i \in DOMAIN Exported :
        /\ Exported[i] = Entry(Exported[i][1][1])
        /\ Exported[i][1][1] =
              (next - 1 - (Available - EntrySize + 1 - i) \div EntrySize) % Serials
        /\ (Available - EntrySize + 1 - i) % EntrySize = 0

\* An entry that was just pushed can be read back.  The test of the ring states
\* it of single bytes (src/src/utest/test.cpp:367); the code empties the ring
\* every second time the writer reaches the physical end of a full ring.
PushedIsReadable == [][Available' > 0]_vars
==============================================================================

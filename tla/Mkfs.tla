--------------------------------- MODULE Mkfs ---------------------------------
(***************************************************************************)
(* src/src/utils/mkfs.cpp: the search for a division of the device into    *)
(* regions, the layout, and the writes that make the volume, sector by     *)
(* sector.  The process may be killed between any two of them.             *)
(***************************************************************************)
EXTENDS Integers, Sequences

CONSTANTS
    Sectors,            \* bound: the sizes of the devices, in sectors
    Overs,              \* bound: the block sizes asked for, in sectors
    AttrsPerSector,     \* 256: an attribute has two bytes, a sector 512
    MinJournal,         \* 32
    JournalShare,       \* 100: the journal has one block in so many
    Word                \* 2^64

ASSUME MkfsAssumption ==
    /\ Sectors \subseteq Nat /\ Overs \subseteq Nat
    /\ AttrsPerSector \in Nat \ {0} /\ MinJournal \in Nat \ {0} /\ JournalShare \in Nat \ {0}
    /\ Word \in Nat /\ \A s \in Sectors : 4 * s + 4 <= Word

SectorSize == 2 * AttrsPerSector

VARIABLES
    sectors, over,      \* the device and block_over_sector; they never change
    pc,                 \* where the program is
    offset, lo, hi,     \* the search of make_head and solveC
    info,               \* static_info: where the regions start
    span, sector,       \* clear_entries and the heads: the write to come
    disk                \* the device

vars == <<sectors, over, pc, offset, lo, hi, info, span, sector, disk>>
search == <<offset, lo, hi>>

Ended == {"refused", "failed", "done", "killed"}
Sector == 0 .. sectors - 1

\* uint64_t
Wrap(x) == IF 0 <= x /\ x < Word THEN x ELSE x % Word

CeilDiv(len, align) == (len \div align) + (IF len % align = 0 THEN 0 ELSE 1)

\* A device with an old volume on it, or without.
Init ==
    /\ sectors \in Sectors /\ over \in Overs
    /\ pc = "check"
    /\ offset = 0 /\ lo = 0 /\ hi = 0
    /\ info = <<>>
    /\ span = 1 /\ sector = 0
    /\ \E first \in {"old_head", "old"} : disk = [s \in Sector |-> IF s = 0 THEN first ELSE "old"]
------------------------------------------------------------------------------
is_2_power_of(n) == \E i \in 0 .. n : 2 ^ i = n

blocks == sectors \div over
body_size == Wrap(blocks - 2)
journaling_section_size ==
    IF body_size \div JournalShare > MinJournal THEN body_size \div JournalShare ELSE MinJournal
left_over == body_size - journaling_section_size

\* The blocks that c data blocks need, with two bitmaps and the attributes.
Needed(c) ==
    Wrap(2 * CeilDiv(c, 8 * SectorSize * over) + CeilDiv(c, AttrsPerSector * over) + c)
Count == left_over - offset

\* Mutant: the space is not checked.
check_no_space ==
    /\ pc = "check"
    /\ IF over >= 1 /\ is_2_power_of(over) THEN pc' = "search" /\ hi' = left_over ELSE pc' = "refused" /\ UNCHANGED hi
    /\ UNCHANGED <<sectors, over, offset, lo, info, span, sector, disk>>

\* The assertions at the beginning of make_head.
check ==
    /\ pc = "check"
    /\ IF over >= 1 /\ is_2_power_of(over) /\ body_size > journaling_section_size
       THEN pc' = "search" /\ hi' = left_over
       ELSE pc' = "refused" /\ UNCHANGED hi
    /\ UNCHANGED <<sectors, over, offset, lo, info, span, sector, disk>>

\* Mutants: an exact answer is halved past; the upper half starts at the middle.
solveC_past ==
    /\ pc = "search" /\ lo < hi
    /\ LET mid == lo + (hi - lo) \div 2
       IN  IF Needed(mid) > Count THEN hi' = mid /\ UNCHANGED lo ELSE lo' = mid + 1 /\ UNCHANGED hi
    /\ UNCHANGED <<sectors, over, pc, offset, info, span, sector, disk>>

solveC_stuck ==
    /\ pc = "search" /\ lo < hi
    /\ LET mid == lo + (hi - lo) \div 2
       IN  IF Needed(mid) >= Count THEN hi' = mid /\ UNCHANGED lo ELSE lo' = mid /\ UNCHANGED hi
    /\ UNCHANGED <<sectors, over, pc, offset, info, span, sector, disk>>

\* One round of solveC.
solveC ==
    /\ pc = "search" /\ lo < hi
    /\ LET mid == lo + (hi - lo) \div 2
       IN  IF Needed(mid) >= Count THEN hi' = mid /\ UNCHANGED lo ELSE lo' = mid + 1 /\ UNCHANGED hi
    /\ UNCHANGED <<sectors, over, pc, offset, info, span, sector, disk>>

\* solveC has found no number of data blocks that uses Count blocks exactly.
one_less ==
    /\ pc = "search" /\ lo = hi /\ Needed(lo) # Count
    /\ offset' = offset + 1
    /\ lo' = 0 /\ hi' = Count - 1
    /\ pc' = IF offset + 1 < left_over THEN "search" ELSE "refused"
    /\ UNCHANGED <<sectors, over, info, span, sector, disk>>

\* Mutant: the table of attributes is sized as if they had one byte.
LayoutOneByte(c) ==
    LET bytes == over * SectorSize
        maps  == CeilDiv(c, bytes * 8)
        attrs == CeilDiv(c, bytes)
    IN  [data_bitmap |-> 1,
         data_bitmap_backup |-> 1 + maps,
         data_block_attribute_table |-> 1 + 2 * maps,
         data_table |-> 1 + 2 * maps + attrs,
         journal |-> 1 + 2 * maps + attrs + c,
         end |-> 1 + 2 * maps + attrs + c + journaling_section_size]

\* Where the regions start; each ends where the next one starts.
Layout(c) ==
    LET bytes == over * SectorSize
        maps  == CeilDiv(c, bytes * 8)
        attrs == CeilDiv(c * 2, bytes)
    IN  [data_bitmap |-> 1,
         data_bitmap_backup |-> 1 + maps,
         data_block_attribute_table |-> 1 + 2 * maps,
         data_table |-> 1 + 2 * maps + attrs,
         journal |-> 1 + 2 * maps + attrs + c,
         end |-> 1 + 2 * maps + attrs + c + journaling_section_size]

make_head ==
    /\ pc = "search" /\ lo = hi /\ Needed(lo) = Count
    /\ info' = Layout(lo)
    /\ pc' = "write"
    /\ UNCHANGED <<sectors, over, offset, lo, hi, span, sector, disk>>
------------------------------------------------------------------------------
(***************************************************************************)
(* The writes: spans of sectors, the first of which may differ from the    *)
(* rest.  basic_io_t::write refuses a sector outside the device.           *)
(***************************************************************************)
Span(from, to, first, rest) == [from |-> from, to |-> to, first |-> first, rest |-> rest]
\* Mutant: the end is cleared too.
ClearedWithEnd(start, end) == Span(start * over, (end + 1) * over, "zero", "zero")
Cleared(start, end) == Span(start * over, end * over, "zero", "zero")
FirstBit(start, end) == Span(start * over, end * over, "bit", "zero")
Single(s, content) == Span(s, s + 1, content, content)

\* Mutant: the head is written first.
SpansHeadFirst ==
    <<Single(0, "head"),
      Cleared(Wrap(blocks - 1), blocks),
      FirstBit(info.data_bitmap, info.data_bitmap_backup),
      FirstBit(info.data_bitmap_backup, info.data_block_attribute_table),
      Cleared(info.journal, info.journal + over),
      Cleared(info.data_table, info.data_table + over),
      Single(info.data_table * over, "root"),
      Single(info.data_block_attribute_table * over, "attr"),
      Single(0, "head"),
      Single(Wrap(sectors - 1), "head")>>

Spans ==
    <<Cleared(0, 1),
      Cleared(Wrap(blocks - 1), blocks),
      FirstBit(info.data_bitmap, info.data_bitmap_backup),
      FirstBit(info.data_bitmap_backup, info.data_block_attribute_table),
      Cleared(info.journal, info.journal + over),
      Cleared(info.data_table, info.data_table + over),
      Single(info.data_table * over, "root"),
      Single(info.data_block_attribute_table * over, "attr"),
      Single(0, "head"),
      Single(Wrap(sectors - 1), "head")>>

write ==
    LET s == Spans[span]
    IN  /\ pc = "write"
        /\ \/ /\ sector < s.to /\ sector < sectors
              /\ disk' = [disk EXCEPT ![sector] = IF sector = s.from THEN s.first ELSE s.rest]
              /\ sector' = sector + 1
              /\ UNCHANGED <<pc, span>>
           \/ /\ sector < s.to /\ sector >= sectors
              /\ pc' = "failed"
              /\ UNCHANGED <<span, sector, disk>>
           \/ /\ sector >= s.to /\ span < Len(Spans)
              /\ span' = span + 1
              /\ sector' = Spans[span + 1].from
              /\ UNCHANGED <<pc, disk>>
           \/ /\ sector >= s.to /\ span = Len(Spans)
              /\ pc' = "done"
              /\ UNCHANGED <<span, sector, disk>>
        /\ UNCHANGED <<sectors, over, search, info>>

kill ==
    /\ pc \notin Ended
    /\ pc' = "killed"
    /\ UNCHANGED <<sectors, over, search, info, span, sector, disk>>

Step == check \/ solveC \/ one_less \/ make_head \/ write

Next == Step \/ kill

\* A program that is not stopped goes on.
Spec == Init /\ [][Next]_vars /\ WF_vars(Step)
------------------------------------------------------------------------------
Content == {"old_head", "old", "zero", "bit", "root", "attr", "head"}

TypeOK ==
    /\ sectors \in Sectors /\ over \in Overs
    /\ pc \in {"check", "search", "write"} \cup Ended
    /\ offset \in Nat /\ lo \in Nat /\ hi \in Nat
    /\ span \in 1 .. 10 /\ sector \in Nat
    /\ disk \in [Sector -> Content]

\* A device of at least two blocks: with fewer, blocks - 2 wraps around and the
\* assertion that there is enough space is not the one that refuses it.
Sensible == over > 0 /\ blocks >= 2

Laid == info # <<>>

\* However the search ended, the regions lie between the two heads in the order
\* the mount expects, and each map has an entry for every data block.
RegionsTile ==
    Laid /\ Sensible =>
        LET bytes == over * SectorSize
            data  == info.journal - info.data_table
            map   == info.data_bitmap_backup - info.data_bitmap
            table == info.data_table - info.data_block_attribute_table
        IN  /\ info.data_bitmap = 1 /\ info.end <= blocks - 1
            /\ info.data_block_attribute_table - info.data_bitmap_backup = map
            /\ 0 < data /\ data <= map * bytes * 8 /\ 2 * data <= table * bytes
            /\ info.end - info.journal >= MinJournal

\* When solveC gives a number of blocks up no division uses exactly that many:
\* the search does not waste blocks because it halves past the answer.
SearchIsExact ==
    Sensible /\ pc = "search" /\ lo = hi /\ Needed(lo) # Count =>
        \A c \in 0 .. Count : Needed(c) # Count

In(s, start, end) == start * over <= s /\ s < end * over

\* What a mount relies on: the bitmaps are equal and have the root only, the root
\* and its attributes are there, the ring's offsets are zero.
Initialised ==
    /\ \A s \in Sector :
        /\ In(s, info.data_bitmap, info.data_block_attribute_table) =>
              disk[s] = IF s \in {info.data_bitmap * over, info.data_bitmap_backup * over}
                        THEN "bit" ELSE "zero"
        /\ In(s, info.journal, info.journal + 1) => disk[s] = "zero"
        /\ In(s, info.data_table, info.data_table + 1) =>
              disk[s] = IF s = info.data_table * over THEN "root" ELSE "zero"
    /\ disk[info.data_block_attribute_table * over] = "attr"

\* Whenever mkfs is killed or fails, a mount finds the old volume as it was, or
\* no volume, or the new one complete.
AllOrNothing ==
    sectors > 0 =>
        /\ disk[0] = "old_head" => \A s \in Sector \ {0} : disk[s] = "old"
        /\ disk[0] = "head" => Initialised

\* A layout that was found is written, unless a block has more sectors than the
\* device has blocks from the journal on: clear_entries clears block_over_sector
\* blocks of the journal, where one was meant, and runs off the end.
FailsForLargeBlocksOnly ==
    pc = "failed" /\ Sensible => over > blocks - info.journal

\* The search and the writes come to an end, for every device.
Ends == <>(pc \in Ended)
===============================================================================

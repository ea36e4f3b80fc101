----------------------------- MODULE RingBuffer -----------------------------
(***************************************************************************)
(* The byte ring of src/src/core/ring_buffer.cpp: two offsets, one flag    *)
(* and BufferLength bytes, all of them kept in the journal blocks.  This   *)
(* module has the state and the two operations; the modules that use the   *)
(* ring (Journal, RingFifo) decide who writes and reads what.              *)
(*                                                                         *)
(* The buffer is the last region before the backup header, so the cells    *)
(* past the end are modelled too: a linear_write that ran past the end     *)
(* would show in cells BufferLength .. BufferLength + Slack - 1.           *)
(***************************************************************************)
EXTENDS Integers, Sequences

CONSTANTS
    BufferLength,   \* buffer_length: bytes of the ring, without its metadata
    Slack,          \* bytes of the neighbouring region that are modelled
    Untouched       \* the value of a byte nobody has written

ASSUME BufferAssumption ==
    BufferLength \in Nat \ {0} /\ Slack \in Nat

VARIABLES
    rd_off,     \* first byte the reader has not consumed
    wr_off,     \* next byte to write
    flipped,    \* flags_t.flipped: the writer wrapped and the reader did not
    cells       \* the bytes

ringVars == <<rd_off, wr_off, flipped, cells>>

Offsets == 0 .. BufferLength - 1
Positions == 0 .. BufferLength + Slack - 1

\* The metadata block as mkfs clears it.
RingInit ==
    /\ rd_off = 0
    /\ wr_off = 0
    /\ flipped = FALSE
    /\ cells = [p \in Positions |-> Untouched]

Smaller(a, b) == IF a < b THEN a ELSE b

\* Mutant: the free space of a wrapped ring counted one too high.
FreeBytesOneTooMany ==
    IF flipped THEN rd_off - wr_off + 1 ELSE BufferLength - wr_off + rd_off

\* Mutant: the free space computed without the flag.
FreeBytesNoFlag == BufferLength - wr_off + rd_off

FreeBytes ==
    IF flipped THEN rd_off - wr_off ELSE BufferLength - wr_off + rd_off

Available ==
    IF flipped THEN (BufferLength - rd_off) + wr_off ELSE wr_off - rd_off

\* Mutant: <= for <, a full ring has no contiguous space.
ContiguousSpaceLessOrEqual(from, until) ==
    IF from <= until THEN until - from ELSE BufferLength - from

ContiguousSpace(from, until) ==
    IF from < until THEN until - from ELSE BufferLength - from

\* linear_write: no wrap of its own, it fills the positions from off on.
LinearWrite(c, data, off) ==
    [p \in Positions |->
        IF p \in off .. off + Len(data) - 1 THEN data[p - off + 1] ELSE c[p]]

LinearRead(off, size) == [i \in 1 .. size |-> cells[off + i - 1]]

(***************************************************************************)
(* ring_buffer::write.  The slice that fits before the other offset or the *)
(* physical end, the wrap, the rest; a write larger than the free space    *)
(* overwrites and moves the reader to the writer.                          *)
(***************************************************************************)
write(data) ==
    LET len       == Len(data)
        first     == Smaller(len, ContiguousSpace(wr_off, rd_off))
        atEnd     == wr_off + first = BufferLength
        second    == IF atEnd THEN 0 ELSE wr_off + first
        newWr     == second + (len - first)
    IN  /\ len <= BufferLength
        /\ cells' = LinearWrite(LinearWrite(cells, SubSeq(data, 1, first), wr_off),
                                SubSeq(data, first + 1, len), second)
        /\ wr_off' = newWr
        /\ flipped' = IF atEnd THEN ~flipped ELSE flipped
        /\ rd_off' = IF len > FreeBytes THEN newWr ELSE rd_off

(***************************************************************************)
(* ring_buffer::read.  What it returns is ReadBytes(want); a shadow read   *)
(* returns the same and leaves the offsets alone.                          *)
(***************************************************************************)
ReadBytes(want) ==
    LET len   == Smaller(want, Available)
        first == Smaller(len, ContiguousSpace(rd_off, wr_off))
        second == IF rd_off + first = BufferLength THEN 0 ELSE rd_off + first
    IN  LinearRead(rd_off, first) \o LinearRead(second, len - first)

\* Mutant: the reader wraps and forgets the flag.
read_no_unflip(want) ==
    LET len   == Smaller(want, Available)
        first == Smaller(len, ContiguousSpace(rd_off, wr_off))
        atEnd == rd_off + first = BufferLength
    IN  /\ rd_off' = (IF atEnd THEN 0 ELSE rd_off + first) + (len - first)
        /\ UNCHANGED <<flipped, wr_off, cells>>

read(want) ==
    LET len   == Smaller(want, Available)
        first == Smaller(len, ContiguousSpace(rd_off, wr_off))
        atEnd == rd_off + first = BufferLength
    IN  /\ rd_off' = (IF atEnd THEN 0 ELSE rd_off + first) + (len - first)
        /\ flipped' = IF atEnd THEN ~flipped ELSE flipped
        /\ UNCHANGED <<wr_off, cells>>
=============================================================================

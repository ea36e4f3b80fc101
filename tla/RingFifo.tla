------------------------------- MODULE RingFifo -------------------------------
(***************************************************************************)
(* The ring used as its unit test uses it (src/src/utest/test.cpp:339):    *)
(* writes that fit, reads of any size that consume, and the shadow reads   *)
(* of export_journaling.  The writer keeps within the free space, since a  *)
(* write that does not discards what was there.                            *)
(***************************************************************************)
EXTENDS RingBuffer

CONSTANTS Byte, MaxTransfer     \* MaxTransfer bounds one write or read

ASSUME TransferAssumption == MaxTransfer \in Nat

VARIABLE got        \* dst of the last read

fifoVars == <<rd_off, wr_off, flipped, cells, got>>

Chunks == UNION {[1 .. n -> Byte] : n \in 1 .. MaxTransfer}

FifoInit == RingInit /\ got = <<>>

Write(data) ==
    /\ Len(data) <= FreeBytes
    /\ write(data)
    /\ UNCHANGED got

Read(want) ==
    /\ read(want)
    /\ got' = ReadBytes(want)

ShadowRead(want) ==
    /\ got' = ReadBytes(want)
    /\ UNCHANGED ringVars

FifoNext ==
    \/ \E data \in Chunks : Write(data)
    \/ \E want \in 1 .. MaxTransfer : Read(want) \/ ShadowRead(want)

FifoSpec == FifoInit /\ [][FifoNext]_fifoVars
------------------------------------------------------------------------------
\* The ring is the queue: what a reader may see is ReadBytes(Available).
Queue == INSTANCE ByteQueue WITH
            queue <- ReadBytes(Available), Capacity <- BufferLength

\* Within its capacity, and up to the last byte of it, the ring implements a
\* first-in first-out queue: writes and reads of all sizes, each split at the
\* physical end or not, lose, duplicate and reorder nothing (ring_buffer::write
\* and ring_buffer::read).
RingImplementsQueue == Queue!Spec

FifoTypeOK ==
    /\ rd_off \in Offsets
    /\ wr_off \in Offsets
    /\ flipped \in BOOLEAN
    /\ cells \in [Positions -> {Untouched} \cup Byte]

\* The two offsets and the flag always describe a region of the buffer: a
\* writer that wrapped is never ahead of the reader, one that did not is never
\* behind it, so that an empty and a full ring are told apart by the flag.
OffsetsAgreeWithFlag == IF flipped THEN wr_off <= rd_off ELSE rd_off <= wr_off
===============================================================================

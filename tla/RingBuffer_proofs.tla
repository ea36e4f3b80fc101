-------------------------- MODULE RingBuffer_proofs --------------------------
(***************************************************************************)
(* What the two operations of the ring do to the bytes, for every length   *)
(* of the ring: however write() and read() slice their data, a write that  *)
(* stays in the ring goes to the positions from the writer on, around the  *)
(* end, and a read returns those from the reader on, around the end.       *)
(* With a writer that keeps within the free space the ring is then a queue *)
(* (the second part).                                                      *)
(***************************************************************************)
EXTENDS RingFifo, SequenceTheorems, TLAPS

\* The offsets and the flag, wherever the ring is used.
InRing ==
    /\ rd_off \in Offsets /\ wr_off \in Offsets /\ flipped \in BOOLEAN
    /\ IF flipped THEN wr_off <= rd_off ELSE rd_off <= wr_off

\* Where the i-th unread byte is, and how far the writer is from a position.
Place(i) == IF rd_off + i - 1 < BufferLength THEN rd_off + i - 1 ELSE rd_off + i - 1 - BufferLength
Ahead(p) == IF wr_off <= p THEN p - wr_off ELSE p - wr_off + BufferLength

\* What is free and what is unread add up to the ring.
LEMMA Shares ==
    ASSUME InRing
    PROVE  /\ Available \in 0 .. BufferLength
           /\ FreeBytes = BufferLength - Available
BY BufferAssumption DEF InRing, Offsets, Available, FreeBytes

\* The i-th unread byte is Available - i + 1 bytes behind the writer, and the bytes
\* beyond the unread ones are the next ones to be written.
LEMMA PlaceAhead ==
    ASSUME InRing, NEW i \in 1 .. BufferLength
    PROVE  /\ Place(i) \in Offsets
           /\ i <= Available => Ahead(Place(i)) = BufferLength - Available + i - 1
           /\ i > Available => Ahead(Place(i)) = i - Available - 1
BY BufferAssumption DEF InRing, Offsets, Available, Place, Ahead

\* Two sequences of the same length and elements are the same.
LEMMA SameSeq ==
    ASSUME NEW S, NEW s \in Seq(S), NEW t \in Seq(S), Len(s) = Len(t),
           \A i \in 1 .. Len(s) : s[i] = t[i]
    PROVE  s = t
OBVIOUS

\* linear_write changes the positions it is given, as many as there are bytes.
LinearlyWritten(S, c, data, off) ==
    /\ LinearWrite(c, data, off) \in [Positions -> S]
    /\ \A p \in Positions :
         LinearWrite(c, data, off)[p] =
             IF off <= p /\ p < off + Len(data) THEN data[p - off + 1] ELSE c[p]

LEMMA LinearWriteFacts ==
    ASSUME NEW S, NEW c \in [Positions -> S], NEW data \in Seq(S), NEW off \in Nat
    PROVE  LinearlyWritten(S, c, data, off)
<1>1. Len(data) \in Nat /\ \A i \in 1 .. Len(data) : data[i] \in S
    OBVIOUS
<1>2. ASSUME NEW p \in Positions
      PROVE  /\ LinearWrite(c, data, off)[p] \in S
             /\ LinearWrite(c, data, off)[p] =
                    IF off <= p /\ p < off + Len(data) THEN data[p - off + 1] ELSE c[p]
    <2>1. p \in Int
        BY BufferAssumption DEF Positions
    <2>2. CASE p \in off .. off + Len(data) - 1
        <3>1. p - off + 1 \in 1 .. Len(data)
            BY <1>1, <2>1, <2>2
        <3>2. LinearWrite(c, data, off)[p] = data[p - off + 1]
            BY <2>2 DEF LinearWrite
        <3> QED
            BY <1>1, <2>1, <2>2, <3>1, <3>2
    <2>3. CASE p \notin off .. off + Len(data) - 1
        <3>1. LinearWrite(c, data, off)[p] = c[p]
            BY <2>3 DEF LinearWrite
        <3> QED
            BY <1>1, <2>1, <2>3, <3>1
    <2> QED
        BY <2>2, <2>3
<1>3. LinearWrite(c, data, off) \in [Positions -> S]
    BY <1>2 DEF LinearWrite
<1> QED
    BY <1>2, <1>3 DEF LinearlyWritten

\* A write whose two slices end in the ring writes around it, and nothing else.
LEMMA WriteAround ==
    ASSUME NEW S, NEW data \in Seq(S), cells \in [Positions -> S],
           rd_off \in Offsets, wr_off \in Offsets, wr_off' \in Offsets, write(data)
    PROVE  /\ cells' \in [Positions -> S]
           /\ wr_off' = IF wr_off + Len(data) < BufferLength THEN wr_off + Len(data)
                        ELSE wr_off + Len(data) - BufferLength
           /\ \A p \in Offsets :
                cells'[p] = IF Ahead(p) < Len(data) THEN data[Ahead(p) + 1] ELSE cells[p]
           /\ \A p \in Positions : p >= BufferLength => cells'[p] = cells[p]
<1> DEFINE len    == Len(data)
           first  == Smaller(len, ContiguousSpace(wr_off, rd_off))
           second == IF wr_off + first = BufferLength THEN 0 ELSE wr_off + first
           one    == LinearWrite(cells, SubSeq(data, 1, first), wr_off)
           two    == LinearWrite(one, SubSeq(data, first + 1, len), second)
<1>1. /\ BufferLength \in Nat /\ BufferLength > 0 /\ Slack \in Nat
      /\ rd_off \in 0 .. BufferLength - 1 /\ wr_off \in 0 .. BufferLength - 1
      /\ wr_off' \in 0 .. BufferLength - 1 /\ len \in Nat
    BY BufferAssumption DEF Offsets
<1>2. len <= BufferLength /\ cells' = two /\ wr_off' = second + (len - first)
    BY DEF write
<1>3. first \in 0 .. len /\ wr_off + first <= BufferLength
    BY <1>1 DEF Smaller, ContiguousSpace
<1> HIDE DEF len, first, two, one
<1>4. /\ SubSeq(data, 1, first) \in Seq(S) /\ Len(SubSeq(data, 1, first)) = first
      /\ \A i \in 1 .. first : SubSeq(data, 1, first)[i] = data[i]
    BY <1>1, <1>3 DEF len
<1>5. /\ SubSeq(data, first + 1, len) \in Seq(S) /\ Len(SubSeq(data, first + 1, len)) = len - first
      /\ \A i \in 1 .. len - first : SubSeq(data, first + 1, len)[i] = data[first + i]
    BY <1>1, <1>3 DEF len
<1>6. /\ one \in [Positions -> S]
      /\ \A p \in Positions :
            one[p] = IF wr_off <= p /\ p < wr_off + first
                     THEN SubSeq(data, 1, first)[p - wr_off + 1] ELSE cells[p]
    <2> DEFINE d == SubSeq(data, 1, first)
    <2>1. wr_off \in Nat /\ d \in Seq(S) /\ Len(d) = first /\ cells \in [Positions -> S]
        BY <1>1, <1>4
    <2> HIDE DEF d
    <2>2. LinearlyWritten(S, cells, d, wr_off)
        BY ONLY <2>1, LinearWriteFacts
    <2> QED
        BY <2>1, <2>2 DEF one, d, LinearlyWritten
<1>7. /\ two \in [Positions -> S]
      /\ \A p \in Positions :
            two[p] = IF second <= p /\ p < second + (len - first)
                     THEN SubSeq(data, first + 1, len)[p - second + 1] ELSE one[p]
    <2> DEFINE d == SubSeq(data, first + 1, len)
    <2>1. second \in Nat /\ d \in Seq(S) /\ Len(d) = len - first /\ one \in [Positions -> S]
        BY <1>1, <1>3, <1>5, <1>6
    <2> HIDE DEF d, second
    <2>2. LinearlyWritten(S, one, d, second)
        BY ONLY <2>1, LinearWriteFacts
    <2> QED
        BY <2>1, <2>2 DEF two, d, LinearlyWritten
<1>8. ASSUME NEW p \in Positions
      PROVE  two[p] = IF second <= p /\ p < second + (len - first) THEN data[first + (p - second + 1)]
                      ELSE IF wr_off <= p /\ p < wr_off + first THEN data[p - wr_off + 1] ELSE cells[p]
    <2>1. p \in Nat /\ second \in Nat
        BY <1>1, <1>3 DEF Positions
    <2> HIDE DEF second
    <2>2. CASE second <= p /\ p < second + (len - first)
        <3>1. p - second + 1 \in 1 .. len - first
            BY <1>1, <1>3, <2>1, <2>2
        <3> QED
            BY <1>5, <1>7, <2>2, <3>1
    <2>3. CASE ~(second <= p /\ p < second + (len - first))
        <3>1. wr_off <= p /\ p < wr_off + first => p - wr_off + 1 \in 1 .. first
            BY <1>1, <1>3, <2>1
        <3> QED
            BY <1>4, <1>6, <1>7, <2>3, <3>1
    <2> QED
        BY <2>2, <2>3
<1>9. wr_off' = IF wr_off + len < BufferLength THEN wr_off + len ELSE wr_off + len - BufferLength
    BY <1>1, <1>2, <1>3
<1>10. ASSUME NEW p \in Offsets
       PROVE  two[p] = IF Ahead(p) < len THEN data[Ahead(p) + 1] ELSE cells[p]
    <2>1. p \in Positions /\ p \in 0 .. BufferLength - 1
        BY <1>1 DEF Positions, Offsets
    <2>2. CASE wr_off + first = BufferLength
        <3>1. second = 0 /\ first = BufferLength - wr_off
            BY <1>1, <1>3, <2>2
        <3> HIDE DEF second
        <3>2. CASE wr_off <= p
            <4>1. Ahead(p) = p - wr_off /\ Ahead(p) < first /\ ~(p < second + (len - first))
                BY <1>1, <1>2, <1>3, <2>1, <3>1, <3>2 DEF Ahead
            <4> QED
                BY <1>1, <1>3, <1>8, <2>1, <3>1, <3>2, <4>1
        <3>3. CASE p < wr_off
            <4>1. /\ Ahead(p) = p + first /\ (Ahead(p) < len <=> p < second + (len - first))
                  /\ second <= p /\ Ahead(p) + 1 = first + (p - second + 1)
                BY <1>1, <1>2, <1>3, <2>1, <3>1, <3>3 DEF Ahead
            <4> QED
                BY <1>1, <1>3, <1>8, <2>1, <3>3, <4>1
        <3> QED
            BY <1>1, <2>1, <3>2, <3>3
    <2>3. CASE wr_off + first # BufferLength
        <3>1. second = wr_off + first /\ wr_off + len < BufferLength
            BY <1>1, <1>2, <1>3, <2>3
        <3> HIDE DEF second
        <3>2. CASE wr_off <= p /\ p < wr_off + len
            <4>1. Ahead(p) = p - wr_off /\ Ahead(p) < len
                BY <1>1, <2>1, <3>2 DEF Ahead
            <4>2. second <= p => first + (p - second + 1) = Ahead(p) + 1
                BY <1>1, <1>3, <2>1, <3>1, <4>1
            <4> QED
                BY <1>1, <1>3, <1>8, <2>1, <3>1, <3>2, <4>1, <4>2
        <3>3. CASE ~(wr_off <= p /\ p < wr_off + len)
            <4>1. ~(Ahead(p) < len)
                BY <1>1, <2>1, <3>1, <3>3 DEF Ahead
            <4> QED
                BY <1>1, <1>3, <1>8, <2>1, <3>1, <3>3, <4>1
        <3> QED
            BY <3>2, <3>3
    <2> QED
        BY <2>2, <2>3
<1>11. ASSUME NEW p \in Positions, p >= BufferLength
       PROVE  two[p] = cells[p]
    <2>1. p \in Nat /\ second \in Nat /\ second + (len - first) < BufferLength
        BY <1>1, <1>2, <1>3 DEF Positions
    <2> QED
        BY <1>1, <1>3, <1>8, <1>11, <2>1
<1> QED
    BY <1>2, <1>7, <1>9, <1>10, <1>11 DEF len

\* A read returns the unread bytes in order, around the end, as many as are wanted
\* and there.
LEMMA ReadAround ==
    ASSUME NEW S, cells \in [Positions -> S], InRing, NEW want \in Nat
    PROVE  /\ ReadBytes(want) \in Seq(S)
           /\ Len(ReadBytes(want)) = Smaller(want, Available)
           /\ \A i \in 1 .. Smaller(want, Available) : ReadBytes(want)[i] = cells[Place(i)]
<1> DEFINE len    == Smaller(want, Available)
           first  == Smaller(len, ContiguousSpace(rd_off, wr_off))
           second == IF rd_off + first = BufferLength THEN 0 ELSE rd_off + first
           head   == LinearRead(rd_off, first)
           rest   == LinearRead(second, len - first)
<1>1. /\ BufferLength \in Nat /\ BufferLength > 0 /\ Slack \in Nat
      /\ rd_off \in 0 .. BufferLength - 1 /\ wr_off \in 0 .. BufferLength - 1 /\ flipped \in BOOLEAN
      /\ IF flipped THEN wr_off <= rd_off ELSE rd_off <= wr_off
      /\ Available \in Nat /\ Available <= BufferLength
    BY BufferAssumption, Shares DEF InRing, Offsets
<1>2. len \in Nat /\ len <= Available
    BY <1>1 DEF Smaller
<1> HIDE DEF len
<1>3. /\ first \in 0 .. len /\ rd_off + first <= BufferLength
      /\ rd_off + first = BufferLength \/ first = len
      /\ rd_off + first = BufferLength => len - first <= rd_off
    BY <1>1, <1>2 DEF Smaller, ContiguousSpace, Available
<1> HIDE DEF first
<1>4. second \in 0 .. BufferLength - 1 /\ second + (len - first) <= BufferLength
    BY <1>1, <1>2, <1>3
<1>5. /\ head \in Seq(S) /\ Len(head) = first
      /\ \A i \in 1 .. first : head[i] = cells[rd_off + i - 1]
    <2>1. \A i \in 1 .. first : rd_off + i - 1 \in Positions
        BY <1>1, <1>3 DEF Positions
    <2>2. head = [i \in 1 .. first |-> cells[rd_off + i - 1]] /\ first \in Nat
        BY <1>1, <1>2, <1>3 DEF LinearRead
    <2> HIDE DEF head
    <2> QED
        BY <2>1, <2>2
<1> HIDE DEF head
<1>6. /\ rest \in Seq(S) /\ Len(rest) = len - first
      /\ \A i \in 1 .. len - first : rest[i] = cells[second + i - 1]
    <2>1. \A i \in 1 .. len - first : second + i - 1 \in Positions
        BY <1>1, <1>2, <1>3, <1>4 DEF Positions
    <2>2. rest = [i \in 1 .. len - first |-> cells[second + i - 1]] /\ len - first \in Nat
        BY <1>1, <1>2, <1>3 DEF LinearRead
    <2> HIDE DEF rest, second
    <2> QED
        BY <2>1, <2>2
<1> HIDE DEF rest
<1> DEFINE both == head \o rest
<1>7. ReadBytes(want) = both
    BY DEF ReadBytes, len, first, head, rest
<1>8. /\ both \in Seq(S) /\ Len(both) = len
      /\ \A i \in 1 .. len : both[i] = IF i <= first THEN head[i] ELSE rest[i - first]
    <2>1. Len(head) + Len(rest) = len
        BY <1>2, <1>3, <1>5, <1>6
    <2>2. head \in Seq(S) /\ rest \in Seq(S)
        BY <1>5, <1>6
    <2>3. /\ both \in Seq(S) /\ Len(both) = Len(head) + Len(rest)
          /\ \A i \in 1 .. Len(head) + Len(rest) :
                both[i] = IF i <= Len(head) THEN head[i] ELSE rest[i - Len(head)]
        BY ONLY <2>2, ConcatProperties DEF both
    <2> HIDE DEF both
    <2> QED
        BY <1>5, <2>1, <2>3
<1> HIDE DEF both
<1>9. ASSUME NEW i \in 1 .. len PROVE both[i] = cells[Place(i)]
    <2>1. CASE i <= first
        <3>1. Place(i) = rd_off + i - 1
            BY <1>1, <1>2, <1>3, <2>1 DEF Place
        <3> QED
            BY <1>2, <1>3, <1>5, <1>8, <2>1, <3>1
    <2>2. CASE i > first
        <3>1. second = 0 /\ Place(i) = i - first - 1 /\ i - first \in 1 .. len - first
            BY <1>1, <1>2, <1>3, <2>2 DEF Place
        <3>2. rest[i - first] = cells[second + (i - first) - 1]
            BY <1>6, <3>1
        <3>3. second + (i - first) - 1 = i - first - 1
            BY <1>2, <1>3, <3>1
        <3> QED
            BY <1>2, <1>3, <1>8, <2>2, <3>1, <3>2, <3>3
    <2>3. i \in Int /\ first \in Int
        BY <1>2, <1>3
    <2> QED
        BY <2>1, <2>2, <2>3
<1> QED
    BY <1>7, <1>8, <1>9 DEF len

------------------------------------------------------------------------------
(***************************************************************************)
(* For every length of the ring and every size of a transfer: a writer     *)
(* that keeps within the free space and a reader make the ring a bounded   *)
(* first-in first-out queue of bytes.                                      *)
(***************************************************************************)
Cell == {Untouched} \cup Byte
Unread == ReadBytes(Available)

Inv == FifoTypeOK /\ OffsetsAgreeWithFlag

LEMMA RingSizes == BufferLength \in Nat /\ BufferLength > 0 /\ Slack \in Nat /\ MaxTransfer \in Nat
BY BufferAssumption, TransferAssumption

LEMMA InvIsInRing == Inv => InRing /\ cells \in [Positions -> Cell]
BY DEF Inv, FifoTypeOK, OffsetsAgreeWithFlag, InRing, Cell

LEMMA ChunkFacts ==
    ASSUME NEW data \in Chunks
    PROVE  data \in Seq(Cell) /\ Len(data) \in Nat \ {0}
<1>1. PICK n \in 1 .. MaxTransfer : data \in [1 .. n -> Byte]
    BY DEF Chunks
<1>2. n \in Nat \ {0}
    BY <1>1, RingSizes
<1> QED
    BY <1>1, <1>2 DEF Cell

\* What the reader has before it.
UnreadIsPlaced ==
    /\ Available \in 0 .. BufferLength
    /\ Unread \in Seq(Cell)
    /\ Len(Unread) = Available
    /\ \A i \in 1 .. Available : Unread[i] = cells[Place(i)]

LEMMA UnreadFacts == Inv => UnreadIsPlaced
<1>1. SUFFICES ASSUME Inv PROVE UnreadIsPlaced
    OBVIOUS
<1>2. InRing /\ cells \in [Positions -> Cell] /\ Available \in 0 .. BufferLength
    BY <1>1, InvIsInRing, Shares
<1>3. Available \in Nat /\ Smaller(Available, Available) = Available
    BY <1>2, RingSizes DEF Smaller
<1> DEFINE n == Available
<1>4. /\ ReadBytes(n) \in Seq(Cell)
      /\ Len(ReadBytes(n)) = Smaller(n, Available)
      /\ \A i \in 1 .. Smaller(n, Available) : ReadBytes(n)[i] = cells[Place(i)]
    <2>1. n \in Nat
        BY <1>3
    <2> HIDE DEF n
    <2> QED
        BY <1>2, <2>1, ReadAround
<1> QED
    BY <1>2, <1>3, <1>4 DEF Unread, UnreadIsPlaced

LEMMA UnreadFactsNext == Inv' => UnreadIsPlaced'
<1>1. Inv => UnreadIsPlaced
    BY UnreadFacts
<1> QED
    BY <1>1, PTL

\* A write within the free space appends to what is unread.
LEMMA WriteAppends ==
    ASSUME Inv, NEW data \in Chunks, Write(data)
    PROVE  Inv' /\ Unread' = Unread \o data /\ Len(Unread) + Len(data) <= BufferLength
<1>1. data \in Seq(Cell) /\ Len(data) \in Nat \ {0} /\ Len(data) <= FreeBytes /\ write(data)
    BY ChunkFacts DEF Write
<1>2. InRing /\ cells \in [Positions -> Cell]
    BY InvIsInRing
<1>3. /\ rd_off \in 0 .. BufferLength - 1 /\ wr_off \in 0 .. BufferLength - 1 /\ flipped \in BOOLEAN
      /\ IF flipped THEN wr_off <= rd_off ELSE rd_off <= wr_off
      /\ FreeBytes = BufferLength - Available /\ Available \in 0 .. BufferLength
    BY <1>2, Shares DEF InRing, Offsets
<1> DEFINE first == Smaller(Len(data), ContiguousSpace(wr_off, rd_off))
           atEnd == wr_off + first = BufferLength
           newWr == (IF atEnd THEN 0 ELSE wr_off + first) + (Len(data) - first)
<1>4. wr_off' = newWr /\ flipped' = (IF atEnd THEN ~flipped ELSE flipped) /\ rd_off' = rd_off
    <2>1. ~(Len(data) > FreeBytes)
        BY <1>1, <1>3, RingSizes
    <2> QED
        BY <1>1, <2>1 DEF write
<1>5. flipped' \in BOOLEAN
    BY <1>3, <1>4
<1>6. /\ wr_off' \in 0 .. BufferLength - 1
      /\ IF flipped' THEN wr_off' <= rd_off' ELSE rd_off' <= wr_off'
      /\ Available' = Available + Len(data)
    <2>1. CASE flipped
        <3>1. first = Len(data) /\ ~atEnd
            BY <1>1, <1>3, <2>1, RingSizes DEF Smaller, ContiguousSpace, FreeBytes
        <3>2. wr_off' = wr_off + Len(data)
            BY <1>1, <1>3, <1>4, <3>1
        <3>3. flipped'
            BY <1>4, <2>1, <3>1
        <3>4. /\ FreeBytes = rd_off - wr_off /\ Available = (BufferLength - rd_off) + wr_off
              /\ Available' = (BufferLength - rd_off') + wr_off'
            BY <2>1, <3>3 DEF FreeBytes, Available
        <3>5. wr_off <= rd_off
            BY <1>3, <2>1
        <3>6. /\ wr_off' \in 0 .. BufferLength - 1 /\ wr_off' <= rd_off'
              /\ Available' = Available + Len(data)
            BY <1>1, <1>3, <1>4, <3>2, <3>4, <3>5, RingSizes
        <3> QED
            BY <3>3, <3>6
    <2>2. CASE ~flipped /\ Len(data) < BufferLength - wr_off
        <3>1. first = Len(data) /\ ~atEnd
            BY <1>1, <1>3, <2>2, RingSizes DEF Smaller, ContiguousSpace
        <3>2. wr_off' = wr_off + Len(data)
            BY <1>1, <1>3, <1>4, <3>1
        <3>3. ~flipped'
            BY <1>4, <2>2, <3>1
        <3> QED
            BY <1>1, <1>3, <1>4, <1>5, <2>2, <3>2, <3>3, RingSizes DEF FreeBytes, Available
    <2>3. CASE ~flipped /\ Len(data) >= BufferLength - wr_off
        <3>1. first = BufferLength - wr_off /\ atEnd
            BY <1>1, <1>3, <2>3, RingSizes DEF Smaller, ContiguousSpace
        <3>2. wr_off' = Len(data) - (BufferLength - wr_off)
            BY <1>1, <1>3, <1>4, <3>1, RingSizes
        <3>3. flipped'
            BY <1>4, <2>3, <3>1
        <3>4. /\ FreeBytes = BufferLength - wr_off + rd_off /\ Available = wr_off - rd_off
              /\ Available' = (BufferLength - rd_off') + wr_off'
            BY <2>3, <3>3 DEF FreeBytes, Available
        <3>5. /\ wr_off' \in 0 .. BufferLength - 1 /\ wr_off' <= rd_off'
              /\ Available' = Available + Len(data)
            BY <1>1, <1>3, <1>4, <2>3, <3>2, <3>4, RingSizes
        <3> QED
            BY <3>3, <3>5
    <2> QED
        BY <1>1, <1>3, <2>1, <2>2, <2>3, RingSizes
<1> HIDE DEF newWr
<1>7. /\ cells' \in [Positions -> Cell]
      /\ \A p \in Offsets :
            cells'[p] = IF Ahead(p) < Len(data) THEN data[Ahead(p) + 1] ELSE cells[p]
    BY <1>1, <1>2, <1>6, WriteAround DEF InRing, Offsets
<1>8. Inv'
    BY <1>3, <1>4, <1>6, <1>7 DEF Inv, FifoTypeOK, OffsetsAgreeWithFlag, Offsets, Cell
<1>9. /\ Unread \in Seq(Cell) /\ Len(Unread) = Available
      /\ \A i \in 1 .. Available : Unread[i] = cells[Place(i)]
    BY UnreadFacts DEF UnreadIsPlaced
<1>10. /\ Unread' \in Seq(Cell) /\ Len(Unread') = Available'
      /\ \A i \in 1 .. Available' : Unread'[i] = cells'[Place(i)']
    BY <1>8, UnreadFactsNext DEF UnreadIsPlaced
<1> DEFINE both == Unread \o data
<1>11. /\ both \in Seq(Cell) /\ Len(both) = Available'
       /\ \A i \in 1 .. Available' : both[i] = IF i <= Available THEN Unread[i] ELSE data[i - Available]
    <2>1. /\ both \in Seq(Cell) /\ Len(both) = Len(Unread) + Len(data)
          /\ \A i \in 1 .. Len(Unread) + Len(data) :
                both[i] = IF i <= Len(Unread) THEN Unread[i] ELSE data[i - Len(Unread)]
        BY <1>1, <1>9, ConcatProperties
    <2> HIDE DEF both
    <2> QED
        BY <1>6, <1>9, <2>1
<1> HIDE DEF both
<1>12. ASSUME NEW i \in 1 .. Available' PROVE Unread'[i] = both[i]
    <2>1. i \in 1 .. BufferLength /\ Available' <= BufferLength
        BY <1>1, <1>3, <1>6, RingSizes
    <2>2. Place(i)' = Place(i)
        BY <1>4 DEF Place
    <2>3. /\ Place(i) \in Offsets
          /\ i <= Available => Ahead(Place(i)) = BufferLength - Available + i - 1
          /\ i > Available => Ahead(Place(i)) = i - Available - 1
        BY <1>2, <2>1, PlaceAhead
    <2>4. Unread'[i] = cells'[Place(i)]
        BY <1>10, <2>2
    <2>5. CASE i <= Available
        <3>1. ~(Ahead(Place(i)) < Len(data))
            BY <1>1, <1>3, <2>1, <2>3, <2>5, RingSizes
        <3>2. i \in 1 .. Available
            BY <1>3, <2>1, <2>5
        <3> QED
            BY <1>7, <1>9, <1>11, <2>3, <2>4, <2>5, <3>1, <3>2
    <2>6. CASE i > Available
        <3>1. Ahead(Place(i)) < Len(data) /\ Ahead(Place(i)) + 1 = i - Available
            BY <1>1, <1>3, <1>6, <2>1, <2>3, <2>6, RingSizes
        <3>2. ~(i <= Available)
            BY <1>3, <2>1, <2>6
        <3> QED
            BY <1>7, <1>11, <2>3, <2>4, <3>1, <3>2
    <2> QED
        BY <1>3, <2>1, <2>5, <2>6
<1>13. Unread' = both
    BY <1>10, <1>11, <1>12, SameSeq
<1>14. Len(Unread) + Len(data) <= BufferLength
    BY <1>1, <1>3, <1>9, RingSizes
<1> QED
    BY <1>8, <1>13, <1>14 DEF both

\* A read of any kind returns the first of the unread bytes.
LEMMA ReadIsPrefix ==
    ASSUME Inv, NEW want \in 1 .. MaxTransfer
    PROVE  /\ Smaller(want, Available) \in 0 .. Available
           /\ ReadBytes(want) = SubSeq(Unread, 1, Smaller(want, Available))
           /\ Len(ReadBytes(want)) = Smaller(want, Available)
<1> DEFINE len == Smaller(want, Available)
<1>1. InRing /\ cells \in [Positions -> Cell] /\ want \in Nat
    BY InvIsInRing, RingSizes
<1>2. /\ ReadBytes(want) \in Seq(Cell) /\ Len(ReadBytes(want)) = len
      /\ \A i \in 1 .. len : ReadBytes(want)[i] = cells[Place(i)]
    BY <1>1, ReadAround
<1>3. /\ Available \in Nat /\ Unread \in Seq(Cell) /\ Len(Unread) = Available
      /\ \A i \in 1 .. Available : Unread[i] = cells[Place(i)]
    BY UnreadFacts, RingSizes DEF UnreadIsPlaced
<1>4. len \in 0 .. Available
    BY <1>1, <1>3 DEF Smaller
<1> HIDE DEF len
<1> DEFINE p == SubSeq(Unread, 1, len)
<1>5. p \in Seq(Cell) /\ Len(p) = len /\ \A i \in 1 .. len : p[i] = Unread[i]
    BY <1>3, <1>4
<1> HIDE DEF p
<1>6. ReadBytes(want) = p
    <2>1. \A i \in 1 .. len : ReadBytes(want)[i] = p[i]
        BY <1>2, <1>3, <1>4, <1>5
    <2> QED
        BY <1>2, <1>5, <2>1, SameSeq
<1> QED
    BY <1>2, <1>4, <1>6 DEF len, p

\* A read that consumes drops what it returns.
LEMMA ReadDrops ==
    ASSUME Inv, NEW want \in 1 .. MaxTransfer, Read(want)
    PROVE  Inv' /\ Unread' = SubSeq(Unread, Smaller(want, Available) + 1, Len(Unread))
<1> DEFINE len   == Smaller(want, Available)
           first == Smaller(len, ContiguousSpace(rd_off, wr_off))
           atEnd == rd_off + first = BufferLength
           newRd == (IF atEnd THEN 0 ELSE rd_off + first) + (len - first)
<1>1. /\ rd_off' = newRd /\ flipped' = (IF atEnd THEN ~flipped ELSE flipped)
      /\ wr_off' = wr_off /\ cells' = cells
    BY DEF Read, read
<1>2. InRing /\ cells \in [Positions -> Cell]
    BY InvIsInRing
<1>3. /\ rd_off \in 0 .. BufferLength - 1 /\ wr_off \in 0 .. BufferLength - 1 /\ flipped \in BOOLEAN
      /\ IF flipped THEN wr_off <= rd_off ELSE rd_off <= wr_off
      /\ Available \in 0 .. BufferLength /\ len \in 0 .. Available
    BY <1>2, Shares, ReadIsPrefix DEF InRing, Offsets
<1> HIDE DEF len
<1>4. flipped' \in BOOLEAN
    BY <1>1, <1>3
<1>5. /\ rd_off' \in 0 .. BufferLength - 1
      /\ IF flipped' THEN wr_off' <= rd_off' ELSE rd_off' <= wr_off'
      /\ rd_off' = IF rd_off + len < BufferLength THEN rd_off + len ELSE rd_off + len - BufferLength
      /\ Available' = Available - len
    <2>1. CASE ~flipped
        <3>1. first = len /\ ~atEnd
            BY <1>3, <2>1, RingSizes DEF Smaller, ContiguousSpace, Available
        <3>2. rd_off' = rd_off + len
            BY <1>1, <1>3, <3>1
        <3>3. ~flipped'
            BY <1>1, <2>1, <3>1
        <3> QED
            BY <1>1, <1>3, <2>1, <3>2, <3>3, RingSizes DEF Available
    <2>2. CASE flipped /\ len < BufferLength - rd_off
        <3>1. first = len /\ ~atEnd
            BY <1>3, <2>2, RingSizes DEF Smaller, ContiguousSpace, Available
        <3>2. rd_off' = rd_off + len
            BY <1>1, <1>3, <3>1
        <3>3. flipped'
            BY <1>1, <2>2, <3>1
        <3>4. /\ Available = (BufferLength - rd_off) + wr_off
              /\ Available' = (BufferLength - rd_off') + wr_off'
            BY <2>2, <3>3 DEF Available
        <3>5. wr_off <= rd_off
            BY <1>3, <2>2
        <3>6. /\ rd_off' \in 0 .. BufferLength - 1 /\ wr_off' <= rd_off'
              /\ rd_off' = IF rd_off + len < BufferLength THEN rd_off + len ELSE rd_off + len - BufferLength
              /\ Available' = Available - len
            BY <1>1, <1>3, <2>2, <3>2, <3>4, <3>5, RingSizes
        <3> QED
            BY <3>3, <3>6
    <2>3. CASE flipped /\ len >= BufferLength - rd_off
        <3>1. first = BufferLength - rd_off /\ atEnd
            BY <1>3, <2>3, RingSizes DEF Smaller, ContiguousSpace, Available
        <3>2. rd_off' = len - (BufferLength - rd_off)
            BY <1>1, <1>3, <3>1, RingSizes
        <3>3. ~flipped'
            BY <1>1, <2>3, <3>1
        <3> QED
            BY <1>1, <1>3, <2>3, <3>2, <3>3, RingSizes DEF Available
    <2> QED
        BY <1>3, <2>1, <2>2, <2>3, RingSizes
<1> HIDE DEF newRd
<1>6. Inv'
    BY <1>1, <1>2, <1>3, <1>5 DEF Inv, FifoTypeOK, OffsetsAgreeWithFlag, Offsets, Cell
<1>7. /\ Unread \in Seq(Cell) /\ Len(Unread) = Available
      /\ \A i \in 1 .. Available : Unread[i] = cells[Place(i)]
    BY UnreadFacts DEF UnreadIsPlaced
<1>8. /\ Unread' \in Seq(Cell) /\ Len(Unread') = Available'
      /\ \A i \in 1 .. Available' : Unread'[i] = cells'[Place(i)']
    BY <1>6, UnreadFactsNext DEF UnreadIsPlaced
<1> DEFINE left == SubSeq(Unread, len + 1, Len(Unread))
<1>9. /\ left \in Seq(Cell) /\ Len(left) = Available'
      /\ \A i \in 1 .. Available' : left[i] = Unread[len + i]
    BY <1>3, <1>5, <1>7
<1> HIDE DEF left
<1>10. ASSUME NEW i \in 1 .. Available' PROVE Unread'[i] = left[i]
    <2>1. len + i \in 1 .. Available
        BY <1>3, <1>5
    <2>2. Place(i)' = Place(len + i)
        BY <1>3, <1>5, <2>1, RingSizes DEF Place
    <2> QED
        BY <1>1, <1>7, <1>8, <1>9, <2>1, <2>2
<1>11. Unread' = left
    BY <1>8, <1>9, <1>10, SameSeq
<1> QED
    BY <1>6, <1>11 DEF left, len
------------------------------------------------------------------------------
LEMMA InvInit == FifoInit => Inv /\ Unread = <<>>
<1>1. SUFFICES ASSUME FifoInit PROVE Inv /\ Unread = <<>>
    OBVIOUS
<1>2. rd_off = 0 /\ wr_off = 0 /\ flipped = FALSE /\ cells = [p \in Positions |-> Untouched]
    BY <1>1 DEF FifoInit, RingInit
<1>3. Inv
    <2>1. rd_off \in Offsets /\ wr_off \in Offsets /\ rd_off <= wr_off
        BY <1>2, RingSizes DEF Offsets
    <2>2. flipped \in BOOLEAN /\ ~flipped
        BY <1>2, Zenon
    <2>3. cells \in [Positions -> {Untouched} \cup Byte]
        BY <1>2
    <2> QED
        BY <2>1, <2>2, <2>3 DEF Inv, FifoTypeOK, OffsetsAgreeWithFlag
<1>4. Available = 0
    BY <1>2 DEF Available
<1>5. Unread \in Seq(Cell) /\ Len(Unread) = 0
    BY <1>3, <1>4, UnreadFacts DEF UnreadIsPlaced
<1> QED
    BY <1>3, <1>5

LEMMA StutterFacts ==
    ASSUME UNCHANGED ringVars
    PROVE  (Inv => Inv') /\ Unread' = Unread
BY DEF ringVars, Inv, FifoTypeOK, OffsetsAgreeWithFlag, Unread, ReadBytes, Available, LinearRead,
       Smaller, ContiguousSpace

LEMMA InvNext == Inv /\ [FifoNext]_fifoVars => Inv'
<1>1. SUFFICES ASSUME Inv, [FifoNext]_fifoVars PROVE Inv'
    OBVIOUS
<1>2. ASSUME NEW data \in Chunks, Write(data) PROVE Inv'
    BY <1>1, <1>2, WriteAppends
<1>3. ASSUME NEW want \in 1 .. MaxTransfer, Read(want) PROVE Inv'
    BY <1>1, <1>3, ReadDrops
<1>4. ASSUME NEW want \in 1 .. MaxTransfer, ShadowRead(want) PROVE Inv'
    BY <1>1, <1>4, StutterFacts DEF ShadowRead
<1>5. CASE UNCHANGED fifoVars
    BY <1>1, <1>5, StutterFacts DEF fifoVars, ringVars
<1> QED
    BY <1>1, <1>2, <1>3, <1>4, <1>5 DEF FifoNext

LEMMA InvHolds == FifoSpec => []Inv
<1>1. FifoInit => Inv
    BY InvInit
<1>2. Inv /\ [FifoNext]_fifoVars => Inv'
    BY InvNext
<1> QED
    BY <1>1, <1>2, PTL DEF FifoSpec

\* The offsets stay in the buffer without a modulus being taken, and every byte is
\* one that was written or an untouched one (ring_buffer::write, ring_buffer::read).
THEOREM FifoStaysTyped == FifoSpec => []FifoTypeOK
BY InvHolds, PTL DEF Inv

\* The flag always says which of the two offsets is ahead (ring_buffer::write and
\* read flip it at the physical end).
THEOREM FifoOffsetsAgree == FifoSpec => []OffsetsAgreeWithFlag
BY InvHolds, PTL DEF Inv

\* Every write within the free space, read and shadow read is a step of the queue
\* on the unread bytes: nothing is lost, duplicated or reordered, at any offset
\* and up to the last byte (ring_buffer::write, ring_buffer::read).
THEOREM FifoImplementsQueue == FifoSpec => RingImplementsQueue
<1>1. FifoInit => Queue!Init
    BY InvInit DEF Queue!Init, FifoInit, Unread
<1>2. Inv /\ [FifoNext]_fifoVars => [Queue!Next]_<<ReadBytes(Available), got>>
    <2>1. SUFFICES ASSUME Inv, [FifoNext]_fifoVars
                   PROVE  Queue!Next \/ UNCHANGED <<Unread, got>>
        BY DEF Unread
    <2>2. ASSUME NEW data \in Chunks, Write(data) PROVE Queue!Next
        <3>1. Unread' = Unread \o data /\ Len(Unread) + Len(data) <= BufferLength /\ got' = got
            BY <2>1, <2>2, WriteAppends DEF Write
        <3>2. Queue!Put(data)
            BY <3>1 DEF Queue!Put, Unread
        <3>3. data \in Queue!Chunks
            BY <2>2 DEF Chunks, Queue!Chunks
        <3> QED
            BY <3>2, <3>3 DEF Queue!Next
    <2>3. ASSUME NEW want \in 1 .. MaxTransfer
          PROVE  /\ ReadBytes(want) = Queue!Prefix(want)
                 /\ Len(Queue!Prefix(want)) = Smaller(want, Available)
        <3>1. Len(Unread) = Available
            BY <2>1, UnreadFacts DEF UnreadIsPlaced
        <3>2. /\ ReadBytes(want) = SubSeq(Unread, 1, Smaller(want, Available))
              /\ Len(ReadBytes(want)) = Smaller(want, Available)
            BY <2>1, ReadIsPrefix
        <3>3. Queue!Prefix(want) = SubSeq(Unread, 1, Smaller(want, Available))
            BY <3>1 DEF Queue!Prefix, Unread, Smaller
        <3> QED
            BY <3>2, <3>3
    <2>4. ASSUME NEW want \in 1 .. MaxTransfer, Read(want) PROVE Queue!Next
        <3>1. Unread' = SubSeq(Unread, Smaller(want, Available) + 1, Len(Unread))
              /\ got' = ReadBytes(want)
            BY <2>1, <2>4, ReadDrops DEF Read
        <3>2. Queue!Take(want)
            BY <2>3, <3>1 DEF Queue!Take, Unread
        <3> QED
            BY <3>2 DEF Queue!Next
    <2>5. ASSUME NEW want \in 1 .. MaxTransfer, ShadowRead(want) PROVE Queue!Next
        <3>1. Unread' = Unread /\ got' = ReadBytes(want)
            BY <2>5, StutterFacts DEF ShadowRead
        <3>2. Queue!Peek(want)
            BY <2>3, <3>1 DEF Queue!Peek, Unread
        <3> QED
            BY <3>2 DEF Queue!Next
    <2>6. CASE UNCHANGED fifoVars
        BY <2>6, StutterFacts DEF fifoVars, ringVars
    <2> QED
        BY <2>1, <2>2, <2>4, <2>5, <2>6 DEF FifoNext
<1> QED
    BY <1>1, <1>2, InvHolds, PTL DEF FifoSpec, RingImplementsQueue, Queue!Spec
==============================================================================

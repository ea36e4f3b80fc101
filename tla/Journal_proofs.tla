---------------------------- MODULE Journal_proofs ----------------------------
(***************************************************************************)
(* For every length of the ring and of the entries: the offsets stay in    *)
(* the ring, no push writes past its end, a shadow read returns the end of *)
(* the history and the scan finds its whole entries.  The argument for the *)
(* offsets is geometric.                                                   *)
(* While the flag is down the reader has not been moved since it was left  *)
(* near the start of the buffer; once an entry has overwritten the reader  *)
(* the two offsets are equal; and in between, the writer is behind the     *)
(* reader and both are in the first entry, where two entries of room are   *)
(* enough for the unclipped second slice of write() to end in the ring.    *)
(* The bytes are then counted back from the writer, whatever the reader    *)
(* does: the i-th of them is the i-th last byte pushed.                    *)
(***************************************************************************)
EXTENDS Journal, RingBuffer_proofs, FiniteSetTheorems

Geometry ==
    /\ ~flipped => rd_off <= wr_off /\ rd_off < EntrySize
    /\ flipped  => wr_off <= rd_off
    /\ flipped /\ wr_off < rd_off => rd_off < EntrySize

\* Where the byte is that was pushed i bytes before the last one, and what it is
\* when the entry to be pushed next has number n.
Behind(i) == IF wr_off - 1 - i >= 0 THEN wr_off - 1 - i ELSE wr_off - 1 - i + BufferLength
Recent(n, i) == <<(n - 1 - i \div EntrySize) % Serials, EntrySize - (i % EntrySize)>>

History == \A i \in Nat : i < Available => cells[Behind(i)] = Recent(next, i)

IInv == TypeOK /\ Geometry /\ NoOverrun /\ ScanBoundSound /\ History

Bytes == (0 .. Serials - 1) \X (1 .. EntrySize)

LEMMA ConstantFacts ==
    /\ BufferLength \in Nat /\ BufferLength > 0 /\ Slack \in Nat
    /\ EntrySize \in Nat /\ EntrySize > 0 /\ BufferLength >= 2 * EntrySize
    /\ Serials \in Nat /\ Serials > 0
BY BufferAssumption, EntryAssumption, SerialsAssumption

\* The bytes of an entry.
LEMMA EntryFacts ==
    ASSUME NEW n \in 0 .. Serials - 1
    PROVE  /\ Entry(n) \in Seq({Untouched} \cup Bytes)
           /\ Len(Entry(n)) = EntrySize
           /\ \A k \in 1 .. EntrySize : Entry(n)[k] = <<n, k>>
BY ConstantFacts DEF Entry, Bytes

LEMMA GeometryInRing == TypeOK /\ Geometry => InRing
BY DEF TypeOK, Geometry, InRing
------------------------------------------------------------------------------
\* A product of a positive number tells which factor is larger.
LEMMA Cancel ==
    ASSUME NEW m \in Nat \ {0}, NEW x \in Int, NEW y \in Int, m * x < m * y
    PROVE  x < y
<1>1. SUFFICES ASSUME y <= x PROVE FALSE
    OBVIOUS
<1>2. PICK d \in Nat : x = y + d
    BY <1>1, x - y \in Nat, x = y + (x - y)
<1>3. m * d >= 0
    OBVIOUS
<1>4. m * x = m * y + m * d
    BY <1>2
<1> QED
    BY <1>3, <1>4

LEMMA Division ==
    ASSUME NEW a \in Int, NEW m \in Nat \ {0}
    PROVE  /\ a \div m \in Int
           /\ a % m \in 0 .. m - 1
           /\ a = m * (a \div m) + (a % m)
    OBVIOUS

\* Quotient and remainder are the only numbers of that kind.
LEMMA DivisionUnique ==
    ASSUME NEW a \in Int, NEW m \in Nat \ {0}, NEW q \in Int, NEW r \in 0 .. m - 1, a = m * q + r
    PROVE  a \div m = q /\ a % m = r
<1> DEFINE p == a \div m
           s == a % m
<1>1. p \in Int /\ s \in 0 .. m - 1 /\ a = m * p + s
    BY Division
<1> HIDE DEF p, s
<1>2. m * p < m * (q + 1) /\ m * q < m * (p + 1)
    BY <1>1
<1>3. p < q + 1 /\ q < p + 1
    BY <1>1, <1>2, Cancel
<1>4. p = q /\ s = r
    BY <1>1, <1>3
<1> QED
    BY <1>4 DEF p, s

LEMMA SerialRange ==
    ASSUME NEW a \in Int
    PROVE  a % Serials \in 0 .. Serials - 1
<1>1. Serials \in Nat \ {0}
    BY ConstantFacts
<1> QED
    BY <1>1, Division

\* A whole divisor more changes the quotient by one and the remainder not at all.
LEMMA DivisionShift ==
    ASSUME NEW a \in Int, NEW m \in Nat \ {0}
    PROVE  (a - m) \div m = (a \div m) - 1 /\ (a - m) % m = a % m
<1> DEFINE p == a \div m
           s == a % m
<1>1. p \in Int /\ s \in 0 .. m - 1 /\ a = m * p + s
    BY Division
<1> HIDE DEF p, s
<1>2. a - m = m * (p - 1) + s
    BY <1>1
<1>3. (a - m) \div m = p - 1 /\ (a - m) % m = s
    BY <1>1, <1>2, DivisionUnique
<1> QED
    BY <1>3 DEF p, s

LEMMA DivisionSmall ==
    ASSUME NEW m \in Nat \ {0}, NEW a \in 0 .. m - 1
    PROVE  a \div m = 0 /\ a % m = a
<1>1. a = m * 0 + a
    OBVIOUS
<1> QED
    BY <1>1, DivisionUnique

\* The number of the entry pushed next, seen from the one after it.
LEMMA SerialBack ==
    ASSUME NEW n \in 0 .. Serials - 1, NEW k \in Int
    PROVE  (((n + 1) % Serials) - 1 - k) % Serials = (n - k) % Serials
<1>1. Serials \in Nat \ {0} /\ n \in Int
    BY ConstantFacts
<1>2. CASE n + 1 < Serials
    <2>1. n + 1 \in 0 .. Serials - 1
        BY <1>1, <1>2
    <2>2. (n + 1) % Serials = n + 1
        BY <1>1, <2>1, DivisionSmall
    <2> QED
        BY <1>1, <2>2
<1>3. CASE n + 1 = Serials
    <2>1. n + 1 = Serials * 1 + 0
        BY <1>1, <1>3
    <2>2. (n + 1) % Serials = 0
        BY <1>1, <2>1, DivisionUnique
    <2>3. (n - k - Serials) % Serials = (n - k) % Serials
        <3> DEFINE a == n - k
        <3>1. a \in Int
            BY <1>1
        <3> HIDE DEF a
        <3>2. (a - Serials) % Serials = a % Serials
            BY <1>1, <3>1, DivisionShift
        <3> QED
            BY <3>2 DEF a
    <2>4. 0 - 1 - k = n - k - Serials
        BY <1>1, <1>3
    <2> QED
        BY <2>2, <2>3, <2>4
<1> QED
    BY <1>1, <1>2, <1>3

\* The byte of an entry that was pushed i bytes before its last one, and the bytes
\* pushed before it.
LEMMA RecentFacts ==
    ASSUME NEW n \in 0 .. Serials - 1, NEW i \in Nat
    PROVE  /\ i < EntrySize => Recent((n + 1) % Serials, i) = <<n, EntrySize - i>>
           /\ i >= EntrySize => Recent((n + 1) % Serials, i) = Recent(n, i - EntrySize)
<1>1. EntrySize \in Nat \ {0} /\ Serials \in Nat \ {0} /\ n \in Int
    BY ConstantFacts
<1>2. i \div EntrySize \in Int
    BY <1>1, Division
<1>3. (((n + 1) % Serials) - 1 - i \div EntrySize) % Serials = (n - i \div EntrySize) % Serials
    BY <1>2, SerialBack
<1>4. ASSUME i < EntrySize PROVE Recent((n + 1) % Serials, i) = <<n, EntrySize - i>>
    <2>1. i \in 0 .. EntrySize - 1
        BY <1>1, <1>4
    <2>2. i \div EntrySize = 0 /\ i % EntrySize = i
        BY <1>1, <2>1, DivisionSmall
    <2>3. n % Serials = n
        BY <1>1, DivisionSmall
    <2>4. n - 0 = n
        BY <1>1
    <2> QED
        BY <1>3, <2>2, <2>3, <2>4 DEF Recent
<1>5. ASSUME i >= EntrySize PROVE Recent((n + 1) % Serials, i) = Recent(n, i - EntrySize)
    <2>1. (i - EntrySize) \div EntrySize = (i \div EntrySize) - 1 /\ (i - EntrySize) % EntrySize = i % EntrySize
        <3>1. i \in Int
            OBVIOUS
        <3> QED
            BY <1>1, <3>1, DivisionShift
    <2>2. n - 1 - ((i \div EntrySize) - 1) = n - i \div EntrySize
        BY <1>1, <1>2
    <2> QED
        BY <1>3, <2>1, <2>2 DEF Recent
<1> QED
    BY <1>4, <1>5
------------------------------------------------------------------------------
\* One push from a state of the invariant: where the offsets go.
LEMMA PushGeometry ==
    ASSUME IInv, push_action
    PROVE  /\ rd_off' \in Offsets /\ wr_off' \in Offsets /\ flipped' \in BOOLEAN
           /\ Geometry'
           /\ Available' \in {0, BufferLength, Available + EntrySize}
           /\ Available' <= Available + EntrySize /\ Available' <= BufferLength
<1>1. next \in 0 .. Serials - 1 /\ Len(Entry(next)) = EntrySize
    BY EntryFacts DEF IInv, TypeOK
<1>2. /\ rd_off \in 0 .. BufferLength - 1 /\ wr_off \in 0 .. BufferLength - 1 /\ flipped \in BOOLEAN
      /\ Geometry
    BY DEF IInv, TypeOK, Offsets
<1> DEFINE first  == Smaller(EntrySize, ContiguousSpace(wr_off, rd_off))
           atEnd  == wr_off + first = BufferLength
           newWr  == (IF atEnd THEN 0 ELSE wr_off + first) + (EntrySize - first)
<1>3. /\ wr_off' = newWr
      /\ flipped' = IF atEnd THEN ~flipped ELSE flipped
      /\ rd_off' = IF EntrySize > FreeBytes THEN newWr ELSE rd_off
    BY <1>1 DEF push_action, write
<1>4. flipped' \in BOOLEAN
    BY <1>2, <1>3
<1>5. CASE ~flipped /\ EntrySize < BufferLength - wr_off
    <2>1. rd_off <= wr_off /\ rd_off < EntrySize
        BY <1>2, <1>5 DEF Geometry
    <2>2. ContiguousSpace(wr_off, rd_off) = BufferLength - wr_off
        BY <1>2, <2>1, ConstantFacts DEF ContiguousSpace
    <2>3. first = EntrySize /\ ~atEnd
        BY <1>2, <1>5, <2>2, ConstantFacts DEF Smaller
    <2>4. ~flipped'
        BY <1>3, <1>5, <2>3
    <2>5. /\ FreeBytes = BufferLength - wr_off + rd_off
          /\ Available = wr_off - rd_off /\ Available' = wr_off' - rd_off'
        BY <1>5, <2>4 DEF FreeBytes, Available
    <2>6. wr_off' = wr_off + EntrySize /\ rd_off' = rd_off
        BY <1>2, <1>3, <1>5, <2>1, <2>3, <2>5, ConstantFacts
    <2> QED
        BY <1>2, <1>4, <1>5, <2>1, <2>4, <2>5, <2>6, ConstantFacts DEF Geometry, Offsets
<1>6. CASE ~flipped /\ EntrySize >= BufferLength - wr_off
    <2>1. rd_off <= wr_off /\ rd_off < EntrySize
        BY <1>2, <1>6 DEF Geometry
    <2>2. ContiguousSpace(wr_off, rd_off) = BufferLength - wr_off
        BY <1>2, <2>1, ConstantFacts DEF ContiguousSpace
    <2>3. first = BufferLength - wr_off /\ atEnd
        BY <1>2, <1>6, <2>2, ConstantFacts DEF Smaller
    <2>4. flipped'
        BY <1>3, <1>6, <2>3
    <2>5. /\ FreeBytes = BufferLength - wr_off + rd_off
          /\ Available = wr_off - rd_off /\ Available' = (BufferLength - rd_off') + wr_off'
        BY <1>6, <2>4 DEF FreeBytes, Available
    <2>6. newWr = EntrySize - (BufferLength - wr_off) /\ newWr \in 0 .. EntrySize - 1
        BY <1>2, <1>6, <2>3, ConstantFacts
    <2> HIDE DEF newWr
    <2>7. \/ rd_off' = wr_off' /\ EntrySize > BufferLength - wr_off + rd_off
          \/ rd_off' = rd_off /\ wr_off' <= rd_off
        BY <1>2, <1>3, <2>5, <2>6, ConstantFacts
    <2>8. /\ rd_off' \in 0 .. EntrySize - 1 /\ wr_off' \in 0 .. EntrySize - 1 /\ wr_off' <= rd_off'
          /\ Available' \in {BufferLength, Available + EntrySize} /\ Available' <= BufferLength
          /\ Available' <= Available + EntrySize
        BY <1>2, <1>3, <2>1, <2>5, <2>6, <2>7, ConstantFacts
    <2>9. rd_off' \in Offsets /\ wr_off' \in Offsets /\ Geometry'
        BY <2>4, <2>8, ConstantFacts DEF Geometry, Offsets
    <2> QED
        BY <1>4, <2>8, <2>9
<1>7. CASE flipped /\ wr_off = rd_off
    <2>1. /\ ContiguousSpace(wr_off, rd_off) = BufferLength - wr_off
          /\ FreeBytes = 0 /\ Available = BufferLength
        BY <1>2, <1>7, ConstantFacts DEF ContiguousSpace, FreeBytes, Available
    <2>2. rd_off' = wr_off'
        BY <1>3, <2>1, ConstantFacts
    <2>3. CASE EntrySize < BufferLength - wr_off
        <3>1. first = EntrySize /\ ~atEnd
            BY <1>2, <2>1, <2>3, ConstantFacts DEF Smaller
        <3>2. flipped'
            BY <1>3, <1>7, <3>1
        <3>3. wr_off' = wr_off + EntrySize
            BY <1>2, <1>3, <3>1, ConstantFacts
        <3>4. Available' = (BufferLength - rd_off') + wr_off'
            BY <3>2 DEF Available
        <3> QED
            BY <1>2, <1>4, <2>1, <2>2, <2>3, <3>2, <3>3, <3>4, ConstantFacts DEF Geometry, Offsets
    <2>4. CASE EntrySize >= BufferLength - wr_off
        <3>1. first = BufferLength - wr_off /\ atEnd
            BY <1>2, <2>1, <2>4, ConstantFacts DEF Smaller
        <3>2. ~flipped'
            BY <1>3, <1>7, <3>1
        <3>3. wr_off' = EntrySize - (BufferLength - wr_off) /\ wr_off' \in 0 .. EntrySize - 1
            BY <1>2, <1>3, <2>4, <3>1, ConstantFacts
        <3>4. Available' = wr_off' - rd_off'
            BY <3>2 DEF Available
        <3> QED
            BY <1>2, <1>4, <2>1, <2>2, <3>2, <3>3, <3>4, ConstantFacts DEF Geometry, Offsets
    <2> QED
        BY <1>2, <2>3, <2>4, ConstantFacts
<1>8. CASE flipped /\ wr_off # rd_off
    <2>1. wr_off < rd_off /\ rd_off < EntrySize
        BY <1>2, <1>8 DEF Geometry
    <2>2. /\ first = rd_off - wr_off /\ ~atEnd
        BY <1>2, <2>1, ConstantFacts DEF ContiguousSpace, Smaller
    <2>3. flipped'
        BY <1>3, <1>8, <2>2
    <2>4. /\ FreeBytes = rd_off - wr_off
          /\ Available = (BufferLength - rd_off) + wr_off
          /\ Available' = (BufferLength - rd_off') + wr_off'
        BY <1>8, <2>3 DEF FreeBytes, Available
    <2>5. wr_off' = wr_off + EntrySize /\ rd_off' = wr_off'
        BY <1>2, <1>3, <2>1, <2>2, <2>4, ConstantFacts
    <2> QED
        BY <1>2, <1>4, <2>1, <2>3, <2>4, <2>5, ConstantFacts DEF Geometry, Offsets
<1> QED
    BY <1>2, <1>5, <1>6, <1>7, <1>8, ConstantFacts

\* ... and where the bytes go.
LEMMA PushBytes ==
    ASSUME IInv, push_action
    PROVE  /\ cells' \in [Positions -> {Untouched} \cup Bytes]
           /\ next' = (next + 1) % Serials
           /\ wr_off' = IF wr_off + EntrySize < BufferLength THEN wr_off + EntrySize
                        ELSE wr_off + EntrySize - BufferLength
           /\ \A p \in Offsets :
                cells'[p] = IF Ahead(p) < EntrySize THEN <<next, Ahead(p) + 1>> ELSE cells[p]
           /\ \A p \in Positions : p >= BufferLength => cells'[p] = cells[p]
<1> DEFINE data == Entry(next)
<1>1. /\ data \in Seq({Untouched} \cup Bytes) /\ Len(data) = EntrySize
      /\ \A k \in 1 .. EntrySize : data[k] = <<next, k>>
    BY EntryFacts DEF IInv, TypeOK
<1>2. /\ cells \in [Positions -> {Untouched} \cup Bytes]
      /\ rd_off \in Offsets /\ wr_off \in Offsets /\ wr_off' \in Offsets
    BY PushGeometry DEF IInv, TypeOK, Bytes
<1>3. write(data) /\ next' = (next + 1) % Serials
    BY DEF push_action
<1> HIDE DEF data
<1>4. /\ cells' \in [Positions -> {Untouched} \cup Bytes]
      /\ wr_off' = IF wr_off + Len(data) < BufferLength THEN wr_off + Len(data)
                   ELSE wr_off + Len(data) - BufferLength
      /\ \A p \in Offsets :
            cells'[p] = IF Ahead(p) < Len(data) THEN data[Ahead(p) + 1] ELSE cells[p]
      /\ \A p \in Positions : p >= BufferLength => cells'[p] = cells[p]
    BY <1>1, <1>2, <1>3, WriteAround
<1>5. ASSUME NEW p \in Offsets
      PROVE  cells'[p] = IF Ahead(p) < EntrySize THEN <<next, Ahead(p) + 1>> ELSE cells[p]
    <2>1. Ahead(p) \in Nat
        BY <1>2, ConstantFacts DEF Ahead, Offsets
    <2>2. Ahead(p) < EntrySize => Ahead(p) + 1 \in 1 .. EntrySize
        BY <2>1, ConstantFacts
    <2> QED
        BY <1>1, <1>4, <2>2
<1> QED
    BY <1>1, <1>3, <1>4, <1>5

\* The push: the invariant is inductive.
LEMMA PushPreservesIInv ==
    ASSUME IInv, push_action
    PROVE  IInv'
<1>1. /\ rd_off' \in Offsets /\ wr_off' \in Offsets /\ flipped' \in BOOLEAN /\ Geometry'
      /\ Available' \in {0, BufferLength, Available + EntrySize}
      /\ Available' <= Available + EntrySize /\ Available' <= BufferLength
    BY PushGeometry
<1>2. /\ cells' \in [Positions -> {Untouched} \cup Bytes]
      /\ next' = (next + 1) % Serials
      /\ wr_off' = IF wr_off + EntrySize < BufferLength THEN wr_off + EntrySize
                   ELSE wr_off + EntrySize - BufferLength
      /\ \A p \in Offsets :
            cells'[p] = IF Ahead(p) < EntrySize THEN <<next, Ahead(p) + 1>> ELSE cells[p]
      /\ \A p \in Positions : p >= BufferLength => cells'[p] = cells[p]
    BY PushBytes
<1>3. /\ InRing /\ next \in 0 .. Serials - 1 /\ wr_off \in 0 .. BufferLength - 1
      /\ Available \in 0 .. BufferLength
    BY GeometryInRing, Shares DEF IInv, TypeOK, Offsets
<1>4. TypeOK'
    <2>1. next' \in 0 .. Serials - 1
        BY <1>2, <1>3, ConstantFacts, Division
    <2> QED
        BY <1>1, <1>2, <2>1 DEF TypeOK, Bytes
<1>5. NoOverrun'
    <2>1. ASSUME NEW p \in BufferLength .. BufferLength + Slack - 1
          PROVE  cells'[p] = Untouched
        <3>1. p \in Positions /\ p >= BufferLength
            BY ConstantFacts DEF Positions
        <3> QED
            BY <1>2, <3>1 DEF IInv, NoOverrun
    <2> QED
        BY <2>1 DEF NoOverrun
<1>6. ScanBoundSound'
    BY <1>1, <1>3, ConstantFacts DEF ScanBoundSound
<1>7. ASSUME NEW i \in Nat, i < Available'
      PROVE  cells'[Behind(i)'] = Recent(next', i)
    <2> DEFINE p == Behind(i)'
    <2>1. i \in Nat /\ i < BufferLength /\ i < Available + EntrySize
        <3>1. Available' \in Int /\ Available' <= Available + EntrySize /\ Available' <= BufferLength
            BY <1>1, <1>3, ConstantFacts
        <3> QED
            BY <1>3, <1>7, <3>1, ConstantFacts
    <2>2. p = IF wr_off' - 1 - i >= 0 THEN wr_off' - 1 - i ELSE wr_off' - 1 - i + BufferLength
        BY DEF Behind
    <2>3. p \in Offsets
        <3>1. PICK w \in 0 .. BufferLength - 1 : w = wr_off'
            BY <1>1 DEF Offsets
        <3>2. p = IF w - 1 - i >= 0 THEN w - 1 - i ELSE w - 1 - i + BufferLength
            BY <2>2, <3>1
        <3> HIDE DEF p
        <3> QED
            BY <2>1, <3>2, ConstantFacts DEF Offsets
    <2> HIDE DEF p
    <2>4. CASE i < EntrySize
        <3>1. Ahead(p) = EntrySize - 1 - i
            BY <1>2, <1>3, <2>1, <2>2, <2>4, ConstantFacts DEF Ahead
        <3>2. Ahead(p) < EntrySize /\ Ahead(p) + 1 = EntrySize - i
            BY <2>1, <2>4, <3>1, ConstantFacts
        <3>3. cells'[p] = <<next, EntrySize - i>>
            BY <1>2, <2>3, <3>2
        <3> QED
            BY <1>2, <1>3, <2>1, <2>4, <3>3, RecentFacts DEF p
    <2>5. CASE i >= EntrySize
        <3>1. i - EntrySize \in Nat /\ i - EntrySize < Available
            BY <1>3, <2>1, <2>5, ConstantFacts
        <3>2. p = Behind(i - EntrySize)
            BY <1>2, <1>3, <2>1, <2>2, <2>5, ConstantFacts DEF Behind
        <3>3. ~(Ahead(p) < EntrySize)
            BY <1>2, <1>3, <2>1, <2>2, <2>5, ConstantFacts DEF Ahead
        <3>4. cells'[p] = cells[p]
            BY <1>2, <2>3, <3>3
        <3>5. cells[p] = Recent(next, i - EntrySize)
            BY <3>1, <3>2 DEF IInv, History
        <3> QED
            BY <1>2, <1>3, <2>1, <2>5, <3>4, <3>5, RecentFacts DEF p
    <2> QED
        BY <2>1, <2>4, <2>5, ConstantFacts
<1>8. History'
    BY <1>7 DEF History
<1> QED
    BY <1>1, <1>4, <1>5, <1>6, <1>8 DEF IInv

LEMMA InitIInv == Init => IInv
<1> SUFFICES ASSUME Init PROVE IInv
    OBVIOUS
<1>1. rd_off = 0 /\ wr_off = 0 /\ flipped = FALSE /\ next = 0
    BY DEF Init, RingInit
<1>2. cells = [p \in Positions |-> Untouched]
    BY DEF Init, RingInit
<1>3. TypeOK
    <2>1. cells \in [Positions -> {Untouched} \cup ((0 .. Serials - 1) \X (1 .. EntrySize))]
        BY <1>2
    <2>2. flipped \in BOOLEAN
        BY Zenon DEF Init, RingInit
    <2>3. rd_off \in Offsets /\ wr_off \in Offsets /\ next \in 0 .. Serials - 1
        BY <1>1, ConstantFacts DEF Offsets
    <2> QED
        BY <2>1, <2>2, <2>3 DEF TypeOK
<1>4. NoOverrun
    BY <1>2, ConstantFacts DEF NoOverrun, Positions
<1>5. Available = 0
    BY <1>1 DEF Available
<1>6. ScanBoundSound /\ History
    BY <1>5 DEF ScanBoundSound, History
<1> QED
    BY <1>1, <1>3, <1>4, <1>6, ConstantFacts DEF IInv, Geometry

LEMMA StutterIInv ==
    ASSUME IInv, UNCHANGED vars
    PROVE  IInv'
<1>1. Available' = Available /\ \A i : Behind(i)' = Behind(i)
    BY DEF vars, Available, Behind
<1>2. History' /\ ScanBoundSound'
    BY <1>1 DEF IInv, vars, History, ScanBoundSound
<1> QED
    BY <1>2 DEF IInv, vars, TypeOK, Geometry, NoOverrun

LEMMA Inductive == Spec => []IInv
<1>1. IInv /\ [Next]_vars => IInv'
    BY PushPreservesIInv, StutterIInv DEF Next
<1> QED
    BY InitIInv, <1>1, PTL DEF Spec

\* The offsets, the flag and the bytes keep their types, for every ring that
\* holds two entries: the modulus that write() does not take is never missed.
THEOREM JournalTypeOK == Spec => []TypeOK
BY Inductive, PTL DEF IInv

\* Nothing the journal ever does writes past the end of its region, where the
\* backup header lies.
THEOREM JournalNoOverrun == Spec => []NoOverrun
BY Inductive, PTL DEF IInv
------------------------------------------------------------------------------
\* What export_journaling reads, counted from its end.
LEMMA ShadowFacts ==
    ASSUME IInv
    PROVE  /\ Available \in 0 .. BufferLength
           /\ Shadow \in Seq({Untouched} \cup Bytes) /\ Len(Shadow) = Available
           /\ \A i \in 0 .. Available - 1 : Shadow[Available - i] = Recent(next, i)
<1>1. InRing /\ cells \in [Positions -> {Untouched} \cup Bytes] /\ Available \in 0 .. BufferLength
    BY GeometryInRing, Shares DEF IInv, TypeOK, Bytes
<1>2. rd_off \in 0 .. BufferLength - 1 /\ wr_off \in 0 .. BufferLength - 1
    BY DEF IInv, TypeOK, Offsets
<1> DEFINE n == Available
<1>3. n \in Nat /\ Smaller(n, Available) = n
    BY <1>1, ConstantFacts DEF Smaller
<1>4. /\ ReadBytes(n) \in Seq({Untouched} \cup Bytes)
      /\ Len(ReadBytes(n)) = Smaller(n, Available)
      /\ \A i \in 1 .. Smaller(n, Available) : ReadBytes(n)[i] = cells[Place(i)]
    <2> HIDE DEF n
    <2> QED
        BY <1>1, <1>3, ReadAround
<1>5. ASSUME NEW i \in 0 .. Available - 1 PROVE Shadow[Available - i] = Recent(next, i)
    <2>1. Available - i \in 1 .. Available
        BY <1>1, ConstantFacts
    <2>2. Shadow[Available - i] = cells[Place(Available - i)]
        BY <1>3, <1>4, <2>1 DEF Shadow
    <2>3. Place(Available - i) = Behind(i)
        BY <1>1, <1>2, ConstantFacts DEF Place, Behind, Available, InRing
    <2>4. i \in Nat /\ i < Available
        BY <1>1, ConstantFacts
    <2> QED
        BY <2>2, <2>3, <2>4 DEF IInv, History
<1> QED
    BY <1>1, <1>3, <1>4, <1>5 DEF Shadow

\* However often the ring was lapped, a shadow read returns the last bytes pushed,
\* in order and without a gap (write() moves rd_off when it overwrites).
THEOREM JournalShadowIsHistory == Spec => []ShadowIsRecentHistory
<1>1. IInv => ShadowIsRecentHistory
    <2>1. SUFFICES ASSUME IInv PROVE ShadowIsRecentHistory
        OBVIOUS
    <2>2. /\ Available \in 0 .. BufferLength
          /\ \A i \in 0 .. Available - 1 : Shadow[Available - i] = Recent(next, i)
        BY <2>1, ShadowFacts
    <2> QED
        BY <2>2, ConstantFacts DEF ShadowIsRecentHistory, Recent
<1> QED
    BY <1>1, Inductive, PTL

------------------------------------------------------------------------------
\* The last byte pushed before a whole number of entries is the first of its entry.
LEMMA WholeEntries ==
    ASSUME NEW a \in Nat
    PROVE  a % EntrySize = EntrySize - 1 <=> (a + 1) % EntrySize = 0
<1> DEFINE q == a \div EntrySize
           r == a % EntrySize
<1>1. EntrySize \in Nat \ {0} /\ q \in Int /\ r \in 0 .. EntrySize - 1 /\ a = EntrySize * q + r
    BY ConstantFacts, Division
<1> HIDE DEF q, r
<1>2. CASE r = EntrySize - 1
    <2>1. a + 1 = EntrySize * (q + 1) + 0
        BY <1>1, <1>2
    <2>2. (a + 1) % EntrySize = 0
        BY <1>1, <2>1, DivisionUnique
    <2> QED
        BY <1>2, <2>2 DEF r
<1>3. CASE r # EntrySize - 1
    <2> DEFINE b == a + 1
               s == r + 1
    <2>1. b = EntrySize * q + s /\ s \in 0 .. EntrySize - 1 /\ b \in Int
        BY <1>1, <1>3
    <2> HIDE DEF b, s
    <2>2. b % EntrySize = s
        BY <1>1, <2>1, DivisionUnique
    <2>3. s # 0
        BY <1>1 DEF s
    <2> QED
        BY <1>3, <2>2, <2>3 DEF r, b
<1> QED
    BY <1>2, <1>3

\* The magic is at the positions that are whole entries away from the end.
LEMMA MagicFacts ==
    ASSUME IInv, NEW i \in 1 .. Available
    PROVE  MagicAt(i) <=> (Available - i + 1) % EntrySize = 0
<1> DEFINE a == Available - i
<1>1. /\ Available \in 0 .. BufferLength
      /\ \A j \in 0 .. Available - 1 : Shadow[Available - j] = Recent(next, j)
    BY ShadowFacts
<1>2. a \in Nat /\ a \in 0 .. Available - 1 /\ Available - a = i
    BY <1>1, ConstantFacts
<1>3. Shadow[i] = Recent(next, a)
    BY <1>1, <1>2
<1> HIDE DEF a
<1> DEFINE x == (next - 1 - a \div EntrySize) % Serials
           r == a % EntrySize
<1>4. Recent(next, a) = <<x, EntrySize - r>>
    BY DEF Recent
<1>5. r \in 0 .. EntrySize - 1
    <2>1. a \in Int /\ EntrySize \in Nat /\ EntrySize > 0
        BY <1>2, ConstantFacts
    <2> QED
        BY ONLY <2>1, Division
<1>6. x \in 0 .. Serials - 1
    <2>1. a \div EntrySize \in Int /\ next \in Int
        BY <1>2, ConstantFacts, Division DEF IInv, TypeOK
    <2> DEFINE y == next - 1 - a \div EntrySize
    <2>2. y \in Int
        BY <2>1
    <2> HIDE DEF y
    <2>3. y % Serials \in 0 .. Serials - 1
        BY <2>2, SerialRange
    <2> QED
        BY <2>3 DEF y
<1> HIDE DEF x, r
<1>7. <<x, EntrySize - r>> \in (0 .. Serials - 1) \X (1 .. EntrySize)
    BY <1>5, <1>6, ConstantFacts
<1>8. MagicAt(i) <=> EntrySize - r = 1
    BY <1>3, <1>4, <1>7, UntouchedAssumption DEF MagicAt
<1>9. EntrySize - r = 1 <=> r = EntrySize - 1
    BY <1>5, ConstantFacts
<1>10. r = EntrySize - 1 <=> (a + 1) % EntrySize = 0
    BY <1>2, WholeEntries DEF r
<1> QED
    BY <1>8, <1>9, <1>10 DEF a

\* What the scan finds: for every whole entry in the shadow the position of its
\* first byte.
LEMMA StartFacts ==
    ASSUME IInv, NEW i
    PROVE  i \in DOMAIN Exported <=>
                \E k \in 1 .. Available \div EntrySize : i = Available - EntrySize * k + 1
<1> DEFINE q == Available \div EntrySize
<1>1. Available \in Nat /\ EntrySize \in Nat \ {0}
    BY ShadowFacts, ConstantFacts
<1>2. q \in Int /\ Available % EntrySize \in 0 .. EntrySize - 1
      /\ Available = EntrySize * q + (Available % EntrySize)
    BY <1>1, Division
<1> HIDE DEF q
<1>3. DOMAIN Exported = {j \in 1 .. Available - EntrySize + 1 : MagicAt(j)}
    BY DEF Exported
<1>4. ASSUME i \in DOMAIN Exported
      PROVE  \E k \in 1 .. q : i = Available - EntrySize * k + 1
    <2>1. i \in 1 .. Available - EntrySize + 1 /\ i \in 1 .. Available /\ MagicAt(i)
        BY <1>1, <1>3, <1>4
    <2> DEFINE a == Available - i + 1
               k == a \div EntrySize
    <2>2. a \in Int /\ EntrySize <= a /\ a <= Available
        BY <1>1, <2>1
    <2>3. a % EntrySize = 0
        BY <2>1, MagicFacts
    <2> HIDE DEF a
    <2>4. k \in Int /\ a = EntrySize * k + 0
        BY <1>1, <2>2, <2>3, Division
    <2> HIDE DEF k
    <2>5. EntrySize * 0 < EntrySize * k /\ EntrySize * k < EntrySize * (q + 1)
        BY <1>1, <1>2, <2>2, <2>4
    <2>6. 0 < k /\ k < q + 1
        BY <1>1, <1>2, <2>4, <2>5, Cancel
    <2>7. i = Available - EntrySize * k + 1
        BY <1>1, <2>1, <2>4 DEF a
    <2>8. k \in 1 .. q
        BY <1>2, <2>4, <2>6
    <2> QED
        BY <2>7, <2>8
<1>5. ASSUME NEW k \in 1 .. q, i = Available - EntrySize * k + 1
      PROVE  i \in DOMAIN Exported
    <2>1. EntrySize * k <= EntrySize * q /\ EntrySize <= EntrySize * k /\ k \in Int
          /\ EntrySize * k \in Int /\ EntrySize * q \in Int
        <3>1. PICK d \in Nat, e \in Nat : q = k + d /\ k = 1 + e
            BY <1>2, q - k \in Nat, q = k + (q - k), k - 1 \in Nat, k = 1 + (k - 1)
        <3>2. EntrySize * d >= 0 /\ EntrySize * e >= 0 /\ EntrySize * d \in Int /\ EntrySize * e \in Int
            BY <1>1
        <3>3. EntrySize * q = EntrySize * k + EntrySize * d /\ EntrySize * k = EntrySize + EntrySize * e
            BY <1>1, <3>1
        <3> QED
            BY <1>1, <1>2, <3>2, <3>3
    <2>2. i \in 1 .. Available - EntrySize + 1 /\ i \in 1 .. Available
        BY <1>1, <1>2, <1>5, <2>1
    <2>3. Available - i + 1 = EntrySize * k + 0
        BY <1>1, <1>5, <2>1
    <2>4. (Available - i + 1) % EntrySize = 0
        BY <1>1, <2>1, <2>2, <2>3, DivisionUnique
    <2> QED
        BY <1>3, <2>2, <2>4, MagicFacts
<1> QED
    BY <1>4, <1>5 DEF q

\* There are as many as fit.
LEMMA StartsCounted ==
    ASSUME IInv
    PROVE  Cardinality(DOMAIN Exported) = Available \div EntrySize
<1> DEFINE q == Available \div EntrySize
           D == DOMAIN Exported
           f == [k \in 1 .. q |-> Available - EntrySize * k + 1]
<1>1. Available \in Nat /\ EntrySize \in Nat \ {0}
    BY ShadowFacts, ConstantFacts
<1>2. q \in Nat
    BY <1>1
<1>3. \A i : i \in D <=> \E k \in 1 .. q : i = Available - EntrySize * k + 1
    BY StartFacts
<1> HIDE DEF q, D
<1>4. f \in [1 .. q -> D]
    BY <1>3
<1>5. ASSUME NEW k \in 1 .. q, NEW l \in 1 .. q, f[k] = f[l] PROVE k = l
    <2>1. EntrySize * k = EntrySize * l
        <3>1. EntrySize * k \in Int /\ EntrySize * l \in Int
            BY <1>1, <1>2
        <3> QED
            BY <1>1, <1>5, <3>1
    <2>2. EntrySize * k < EntrySize * (l + 1) /\ EntrySize * l < EntrySize * (k + 1)
        BY <1>1, <1>2, <2>1
    <2>3. k < l + 1 /\ l < k + 1
        BY <1>1, <1>2, <2>2, Cancel
    <2> QED
        BY <1>2, <2>3
<1>6. \A i \in D : \E k \in 1 .. q : f[k] = i
    BY <1>3
<1> HIDE DEF f
<1>7. f \in Bijection(1 .. q, D)
    BY <1>4, <1>5, <1>6 DEF Bijection, Injection, Surjection, IsInjective
<1>8. ExistsBijection(1 .. q, D)
    BY <1>7 DEF ExistsBijection
<1>9. IsFiniteSet(1 .. q) /\ Cardinality(1 .. q) = q
    <2>1. IsFiniteSet(1 .. q) /\ Cardinality(1 .. q) = IF 1 > q THEN 0 ELSE q - 1 + 1
        BY <1>2, FS_Interval
    <2> QED
        BY <1>2, <2>1
<1>10. Cardinality(D) = q
    BY <1>8, <1>9, FS_Bijection
<1> QED
    BY <1>10 DEF q, D

\* The k-th last entry that is exported.
LEMMA ExportedFacts ==
    ASSUME IInv, NEW k \in 1 .. Available \div EntrySize, NEW i, i = Available - EntrySize * k + 1
    PROVE  /\ Exported[i] = Entry((next - k) % Serials)
           /\ (Available - EntrySize + 1 - i) \div EntrySize = k - 1
           /\ (Available - EntrySize + 1 - i) % EntrySize = 0
<1> DEFINE n == (next - k) % Serials
           b == Available - EntrySize * k
<1>1. Available \in Nat /\ EntrySize \in Nat \ {0} /\ k \in Nat \ {0} /\ next \in Int
      /\ EntrySize * k \in Int
    BY ShadowFacts, ConstantFacts DEF IInv, TypeOK
<1>2. i \in DOMAIN Exported
    BY StartFacts
<1>3. i \in 1 .. Available - EntrySize + 1 /\ Exported[i] = SubSeq(Shadow, i, i + EntrySize - 1)
    BY <1>2 DEF Exported
<1>4. /\ Shadow \in Seq({Untouched} \cup Bytes) /\ Len(Shadow) = Available
      /\ \A j \in 0 .. Available - 1 : Shadow[Available - j] = Recent(next, j)
    BY ShadowFacts
<1>5. n \in 0 .. Serials - 1
    BY <1>1, ConstantFacts, Division
<1> DEFINE e == SubSeq(Shadow, i, i + EntrySize - 1)
<1>6. /\ e \in Seq({Untouched} \cup Bytes) /\ Len(e) = EntrySize
      /\ \A j \in 1 .. EntrySize : e[j] = Shadow[i + j - 1]
    <2> DEFINE l == i + EntrySize - 1
    <2>1. /\ i \in Int /\ l \in Int /\ 1 <= i /\ i <= l /\ l <= Available
          /\ l - i + 1 = EntrySize
        BY <1>1, <1>3
    <2> HIDE DEF l
    <2>2. \A j \in i .. l : Shadow[j] \in {Untouched} \cup Bytes
        BY <1>1, <1>4, <2>1
    <2>3. /\ SubSeq(Shadow, i, l) \in Seq({Untouched} \cup Bytes)
          /\ Len(SubSeq(Shadow, i, l)) = IF i <= l THEN l - i + 1 ELSE 0
          /\ \A j \in 1 .. l - i + 1 : SubSeq(Shadow, i, l)[j] = Shadow[i + j - 1]
        BY <2>1, <2>2, SubSeqProperties
    <2> QED
        BY <2>1, <2>3 DEF l
<1> HIDE DEF e, n
<1>7. ASSUME NEW j \in 1 .. EntrySize PROVE e[j] = <<n, j>>
    <2> DEFINE a == Available - (i + j - 1)
    <2>1. a \in 0 .. Available - 1 /\ Available - a = i + j - 1
        BY <1>1, <1>3
    <2>2. e[j] = Recent(next, a)
        BY <1>4, <1>6, <2>1
    <2>3. a = EntrySize * (k - 1) + (EntrySize - j) /\ EntrySize - j \in 0 .. EntrySize - 1
        BY <1>1
    <2>4. a \div EntrySize = k - 1 /\ a % EntrySize = EntrySize - j
        <3> DEFINE q == k - 1
                   s == EntrySize - j
        <3>1. a \in Int /\ q \in Int /\ s \in 0 .. EntrySize - 1 /\ a = EntrySize * q + s
            BY <1>1, <2>1, <2>3
        <3> HIDE DEF a, q, s
        <3>2. a \div EntrySize = q /\ a % EntrySize = s
            BY <1>1, <3>1, DivisionUnique
        <3> QED
            BY <3>2 DEF q, s
    <2> HIDE DEF a
    <2>5. next - 1 - (k - 1) = next - k /\ EntrySize - (EntrySize - j) = j
        BY <1>1
    <2> QED
        BY <2>2, <2>4, <2>5 DEF Recent, n
<1>8. e = Entry(n)
    BY <1>5, <1>6, <1>7, EntryFacts, SameSeq
<1>9. Available - EntrySize + 1 - i = EntrySize * (k - 1) + 0
    BY <1>1
<1>10. /\ (Available - EntrySize + 1 - i) \div EntrySize = k - 1
       /\ (Available - EntrySize + 1 - i) % EntrySize = 0
    <2>1. Available - EntrySize + 1 - i \in Int
        BY <1>1, <1>3
    <2> QED
        BY <1>1, <1>9, <2>1, DivisionUnique
<1> QED
    BY <1>3, <1>8, <1>10 DEF e, n

\* The scan of a shadow read finds every entry that is whole, none that is cut, in
\* the order in which they were pushed, and its unsigned bound never wraps around
\* (export_journaling).
THEOREM JournalExportsWhole == Spec => []ExportsWholeEntries
<1>1. IInv => ExportsWholeEntries
    <2>1. SUFFICES ASSUME IInv PROVE ExportsWholeEntries
        OBVIOUS
    <2>2. ScanBoundSound /\ Cardinality(DOMAIN Exported) = Available \div EntrySize
        BY <2>1, StartsCounted DEF IInv
    <2>3. ASSUME NEW i \in DOMAIN Exported
          PROVE  /\ Exported[i] = Entry(Exported[i][1][1])
                 /\ Exported[i][1][1] =
                        (next - 1 - (Available - EntrySize + 1 - i) \div EntrySize) % Serials
                 /\ (Available - EntrySize + 1 - i) % EntrySize = 0
        <3>1. PICK k \in 1 .. Available \div EntrySize : i = Available - EntrySize * k + 1
            BY <2>1, StartFacts
        <3>2. /\ Exported[i] = Entry((next - k) % Serials)
              /\ (Available - EntrySize + 1 - i) \div EntrySize = k - 1
              /\ (Available - EntrySize + 1 - i) % EntrySize = 0
            BY <2>1, <3>1, ExportedFacts
        <3>3. next \in Int /\ k \in Int
            BY <2>1, ConstantFacts DEF IInv, TypeOK
        <3>4. (next - k) % Serials \in 0 .. Serials - 1
            <4> DEFINE y == next - k
            <4>1. y \in Int
                BY <3>3
            <4> HIDE DEF y
            <4>2. y % Serials \in 0 .. Serials - 1
                BY <4>1, SerialRange
            <4> QED
                BY <4>2 DEF y
        <3>5. Exported[i][1] = <<(next - k) % Serials, 1>>
            BY <3>2, <3>4, EntryFacts, ConstantFacts
        <3>6. next - 1 - (k - 1) = next - k
            BY <3>3
        <3> QED
            BY <3>2, <3>5, <3>6
    <2> QED
        BY <2>2, <2>3 DEF ExportsWholeEntries
<1> QED
    BY <1>1, Inductive, PTL
===============================================================================

----------------------------- MODULE Mkfs_proofs -----------------------------
(***************************************************************************)
(* Theorems about mkfs, for every device and every block size: the regions *)
(* it lays out tile the device, its search misses no division, and however *)
(* far its writes come a mount finds the old volume, none, or the new one. *)
(***************************************************************************)
EXTENDS Mkfs, TLAPS

\* What is left after the division is less than the divisor.
LEMMA Division ==
    ASSUME NEW a \in Nat, NEW m \in Nat \ {0}
    PROVE  /\ a \div m \in Nat
           /\ a % m \in 0 .. m - 1
           /\ a = m * (a \div m) + (a % m)
    OBVIOUS

\* A product of a positive number tells which factor is larger.
LEMMA Cancel ==
    ASSUME NEW m \in Nat \ {0}, NEW x \in Int, NEW y \in Int, m * x < m * y
    PROVE  x < y
<1>1. SUFFICES ASSUME y <= x PROVE FALSE
    OBVIOUS
<1>2. PICK d \in Nat : x = y + d
    BY <1>1
<1>3. m * d >= 0
    OBVIOUS
<1>4. m * x = m * y + m * d
    BY <1>2
<1> QED
    BY <1>3, <1>4

\* CeilDiv(a, m) blocks of m entries hold a entries, and one less does not.
LEMMA CeilDivBounds ==
    ASSUME NEW a \in Nat, NEW m \in Nat \ {0}
    PROVE  /\ CeilDiv(a, m) \in Nat
           /\ a <= m * CeilDiv(a, m)
           /\ m * (CeilDiv(a, m) - 1) < a
<1>1. a \div m \in Nat /\ a % m \in 0 .. m - 1 /\ a = m * (a \div m) + (a % m)
    BY Division
<1>2. CASE a % m = 0
    <2>1. CeilDiv(a, m) = a \div m
        BY <1>1, <1>2 DEF CeilDiv
    <2> QED
        BY <1>1, <1>2, <2>1
<1>3. CASE a % m # 0
    <2>1. CeilDiv(a, m) = (a \div m) + 1
        BY <1>1, <1>3 DEF CeilDiv
    <2> QED
        BY <1>1, <1>3, <2>1
<1> QED
    BY <1>2, <1>3

\* ... which determines it.
LEMMA CeilDivUnique ==
    ASSUME NEW a \in Nat, NEW m \in Nat \ {0}, NEW k \in Int,
           a <= m * k, m * (k - 1) < a
    PROVE  CeilDiv(a, m) = k
<1> DEFINE q == CeilDiv(a, m)
<1>1. q \in Nat /\ a <= m * q /\ m * (q - 1) < a
    BY CeilDivBounds
<1> HIDE DEF q
<1>2. m * (q - 1) < m * k /\ m * (k - 1) < m * q
    BY <1>1
<1>3. q - 1 < k
    BY <1>1, <1>2, Cancel
<1>4. k - 1 < q
    BY <1>1, <1>2, Cancel
<1>5. q = k
    BY <1>1, <1>3, <1>4
<1> QED
    BY <1>5 DEF q

LEMMA CeilDivSmall ==
    ASSUME NEW a \in Nat, NEW m \in Nat \ {0}
    PROVE  CeilDiv(a, m) <= a
<1> DEFINE q == CeilDiv(a, m)
<1>1. q \in Nat /\ m * (q - 1) < a
    BY CeilDivBounds
<1> HIDE DEF q
<1>2. CASE q = 0
    BY <1>2 DEF q
<1>3. CASE q > 0
    <2>1. q - 1 <= m * (q - 1)
        BY <1>1, <1>3
    <2>2. q <= a
        BY <1>1, <2>1
    <2> QED
        BY <2>2 DEF q
<1> QED
    BY <1>1, <1>2, <1>3

LEMMA CeilDivMonotone ==
    ASSUME NEW a \in Nat, NEW b \in Nat, NEW m \in Nat \ {0}, a <= b
    PROVE  CeilDiv(a, m) <= CeilDiv(b, m)
<1> DEFINE p == CeilDiv(a, m)
           q == CeilDiv(b, m)
<1>1. p \in Nat /\ m * (p - 1) < a /\ q \in Nat /\ b <= m * q
    BY CeilDivBounds
<1> HIDE DEF p, q
<1>2. m * (p - 1) < m * q
    BY <1>1
<1>3. p - 1 < q
    BY <1>1, <1>2, Cancel
<1>4. p <= q
    BY <1>1, <1>3
<1> QED
    BY <1>4 DEF p, q

\* The attributes of c blocks, two bytes each, need as many blocks as c entries.
LEMMA CeilDivDouble ==
    ASSUME NEW a \in Nat, NEW m \in Nat \ {0}
    PROVE  CeilDiv(2 * a, 2 * m) = CeilDiv(a, m)
<1> DEFINE q == CeilDiv(a, m)
<1>1. q \in Nat /\ a <= m * q /\ m * (q - 1) < a
    BY CeilDivBounds
<1> HIDE DEF q
<1>2. 2 * a \in Nat /\ 2 * m \in Nat \ {0}
    OBVIOUS
<1>3. 2 * a <= (2 * m) * q /\ (2 * m) * (q - 1) < 2 * a
    BY <1>1
<1>4. CeilDiv(2 * a, 2 * m) = q
    BY <1>1, <1>2, <1>3, CeilDivUnique
<1> QED
    BY <1>4 DEF q
------------------------------------------------------------------------------
(***************************************************************************)
(* The invariant.  While the search runs, every number of data blocks      *)
(* below lo needs too few blocks and every one from hi on enough; once the *)
(* layout is made it is that of lo, which needs Count blocks exactly.      *)
(***************************************************************************)
Suitable == over \in Nat \ {0} /\ body_size > journaling_section_size

Searching ==
    /\ pc = "check" => info = <<>> /\ offset = 0 /\ lo = 0
    /\ pc = "search" =>
          /\ Suitable /\ info = <<>>
          /\ offset < left_over /\ lo <= hi /\ hi <= Count
          /\ Sensible => /\ \A c \in 0 .. lo - 1 : Needed(c) < Count
                         /\ \A c \in hi .. Count : Needed(c) >= Count

Settled ==
    Laid \/ pc = "write" =>
        /\ Suitable
        /\ offset < left_over /\ lo <= Count
        /\ Needed(lo) = Count /\ info = Layout(lo)

IInv == TypeOK /\ Searching /\ Settled

\* The sizes make_head computes first.
LEMMA Sizes ==
    ASSUME sectors \in Sectors, over \in Nat \ {0}
    PROVE  /\ sectors \in Nat /\ blocks \in Nat /\ blocks <= sectors
           /\ Word \in Nat \ {0} /\ 4 * sectors + 4 <= Word
           /\ body_size \in Nat
           /\ Sensible => body_size = blocks - 2
           /\ journaling_section_size \in Nat \ {0}
           /\ journaling_section_size >= MinJournal
           /\ left_over \in Int
           /\ SectorSize \in Nat \ {0}
<1>1. sectors \in Nat /\ Word \in Nat /\ 4 * sectors + 4 <= Word
    BY MkfsAssumption
<1>2. blocks \in Nat /\ sectors % over \in 0 .. over - 1 /\ sectors = over * blocks + (sectors % over)
    BY <1>1, Division DEF blocks
<1>3. blocks <= over * blocks
    BY <1>2
<1>4. blocks <= sectors
    BY <1>1, <1>2, <1>3
<1>5. body_size \in Nat
    <2>1. CASE 0 <= blocks - 2 /\ blocks - 2 < Word
        BY <1>2, <2>1 DEF body_size, Wrap
    <2>2. CASE ~(0 <= blocks - 2 /\ blocks - 2 < Word)
        <3>1. (blocks - 2) % Word \in 0 .. Word - 1
            BY <1>1, <1>2
        <3> QED
            BY <2>2, <3>1 DEF body_size, Wrap
    <2> QED
        BY <2>1, <2>2
<1>6. Sensible => body_size = blocks - 2
    BY <1>1, <1>2, <1>4 DEF body_size, Wrap, Sensible
<1>7. MinJournal \in Nat \ {0} /\ JournalShare \in Nat \ {0} /\ SectorSize \in Nat \ {0}
    BY MkfsAssumption DEF SectorSize
<1>8. body_size \div JournalShare \in Nat
    BY <1>5, <1>7, Division
<1>9. journaling_section_size \in Nat \ {0} /\ journaling_section_size >= MinJournal
    BY <1>7, <1>8 DEF journaling_section_size
<1> QED
    BY <1>1, <1>2, <1>4, <1>5, <1>6, <1>7, <1>9 DEF left_over

LEMMA WrapIsNat ==
    ASSUME sectors \in Sectors, over \in Nat \ {0}, NEW x \in Int
    PROVE  Wrap(x) \in Nat
<1>1. Word \in Nat \ {0}
    BY Sizes
<1>2. x % Word \in 0 .. Word - 1
    BY <1>1
<1> QED
    BY <1>2 DEF Wrap

\* The blocks c data blocks need, without the wrap.
LEMMA NeededIsNat ==
    ASSUME sectors \in Sectors, over \in Nat \ {0}, NEW c \in Nat
    PROVE  Needed(c) \in Nat
<1> DEFINE m == 8 * SectorSize * over
           n == AttrsPerSector * over
           x == 2 * CeilDiv(c, m) + CeilDiv(c, n) + c
<1>1. m \in Nat \ {0} /\ n \in Nat \ {0} /\ Word \in Nat \ {0}
    BY Sizes, MkfsAssumption
<1>2. x \in Nat
    <2> HIDE DEF m, n
    <2>1. CeilDiv(c, m) \in Nat /\ CeilDiv(c, n) \in Nat
        BY <1>1, CeilDivBounds
    <2> QED
        BY <2>1
<1>3. Needed(c) = Wrap(x)
    BY DEF Needed
<1> HIDE DEF x
<1> QED
    BY <1>2, <1>3, WrapIsNat

LEMMA NeededExact ==
    ASSUME sectors \in Sectors, over \in Nat \ {0}, NEW c \in Nat, c <= sectors
    PROVE  Needed(c) = 2 * CeilDiv(c, 8 * SectorSize * over) + CeilDiv(c, AttrsPerSector * over) + c
<1> DEFINE m == 8 * SectorSize * over
           n == AttrsPerSector * over
           p == CeilDiv(c, m)
           q == CeilDiv(c, n)
<1>1. m \in Nat \ {0} /\ n \in Nat \ {0}
    BY Sizes, MkfsAssumption
<1>2. p \in Nat /\ p <= c /\ q \in Nat /\ q <= c
    BY <1>1, CeilDivBounds, CeilDivSmall
<1>3. sectors \in Nat /\ Word \in Nat /\ 4 * sectors + 4 <= Word
    BY Sizes
<1>4. Needed(c) = Wrap(2 * p + q + c)
    BY DEF Needed
<1> HIDE DEF p, q
<1>5. Wrap(2 * p + q + c) = 2 * p + q + c
    BY <1>2, <1>3 DEF Wrap
<1> QED
    BY <1>4, <1>5 DEF p, q

\* One data block more needs at least one block more.
LEMMA NeededIncreases ==
    ASSUME sectors \in Sectors, over \in Nat \ {0}, NEW c \in Nat, NEW d \in Nat,
           c < d, d <= sectors
    PROVE  Needed(c) < Needed(d)
<1> DEFINE m == 8 * SectorSize * over
           n == AttrsPerSector * over
<1>1. m \in Nat \ {0} /\ n \in Nat \ {0} /\ sectors \in Nat
    BY Sizes, MkfsAssumption
<1>2. Needed(c) = 2 * CeilDiv(c, m) + CeilDiv(c, n) + c
    BY <1>1, NeededExact
<1>3. Needed(d) = 2 * CeilDiv(d, m) + CeilDiv(d, n) + d
    BY <1>1, NeededExact
<1>4. CeilDiv(c, m) <= CeilDiv(d, m) /\ CeilDiv(c, n) <= CeilDiv(d, n)
    BY <1>1, CeilDivMonotone
<1>5. /\ CeilDiv(c, m) \in Nat /\ CeilDiv(d, m) \in Nat
      /\ CeilDiv(c, n) \in Nat /\ CeilDiv(d, n) \in Nat
    BY <1>1, CeilDivBounds
<1> HIDE DEF m, n
<1> QED
    BY <1>2, <1>3, <1>4, <1>5

\* Without data blocks nothing is needed.
LEMMA NeededZero ==
    ASSUME sectors \in Sectors, over \in Nat \ {0}
    PROVE  Needed(0) = 0
<1> DEFINE m == 8 * SectorSize * over
           n == AttrsPerSector * over
<1>1. m \in Nat \ {0} /\ n \in Nat \ {0} /\ sectors \in Nat
    BY Sizes, MkfsAssumption
<1>2. CeilDiv(0, m) \in Nat /\ CeilDiv(0, m) <= 0 /\ CeilDiv(0, n) \in Nat /\ CeilDiv(0, n) <= 0
    BY <1>1, CeilDivBounds, CeilDivSmall
<1>3. Needed(0) = 2 * CeilDiv(0, m) + CeilDiv(0, n) + 0
    BY <1>1, NeededExact
<1> HIDE DEF m, n
<1> QED
    BY <1>2, <1>3
------------------------------------------------------------------------------
\* The numbers of a layout.
LEMMA LayoutIsNat ==
    ASSUME sectors \in Sectors, over \in Nat \ {0}, NEW c \in Nat
    PROVE  Layout(c) \in [data_bitmap : Nat, data_bitmap_backup : Nat,
                          data_block_attribute_table : Nat, data_table : Nat,
                          journal : Nat, end : Nat]
<1> DEFINE bytes == over * SectorSize
           maps  == CeilDiv(c, bytes * 8)
           attrs == CeilDiv(c * 2, bytes)
<1>1. bytes \in Nat \ {0} /\ bytes * 8 \in Nat \ {0} /\ c * 2 \in Nat
    BY Sizes
<1>2. maps \in Nat /\ attrs \in Nat /\ journaling_section_size \in Nat
    <2> HIDE DEF bytes
    <2> QED
        BY <1>1, CeilDivBounds, Sizes
<1>3. Layout(c) = [data_bitmap |-> 1,
                   data_bitmap_backup |-> 1 + maps,
                   data_block_attribute_table |-> 1 + 2 * maps,
                   data_table |-> 1 + 2 * maps + attrs,
                   journal |-> 1 + 2 * maps + attrs + c,
                   end |-> 1 + 2 * maps + attrs + c + journaling_section_size]
    BY DEF Layout
<1> HIDE DEF maps, attrs
<1> QED
    BY <1>2, <1>3

\* Every span that is written starts at a sector number and has a known content.
LEMMA SpansAreTyped ==
    ASSUME sectors \in Sectors, over \in Nat \ {0}, lo \in Nat, info = Layout(lo), NEW i \in 1 .. 10
    PROVE  /\ Len(Spans) = 10
           /\ Spans[i].from \in Nat
           /\ Spans[i].first \in Content /\ Spans[i].rest \in Content
<1>1. /\ info.data_bitmap \in Nat /\ info.data_bitmap_backup \in Nat /\ info.journal \in Nat
      /\ info.data_table \in Nat /\ info.data_block_attribute_table \in Nat
    BY LayoutIsNat
<1>2. Wrap(blocks - 1) \in Nat /\ Wrap(sectors - 1) \in Nat
    BY Sizes, WrapIsNat
<1>3. Len(Spans) = 10
    BY DEF Spans
<1>4. \/ i = 1 \/ i = 2 \/ i = 3 \/ i = 4 \/ i = 5
      \/ i = 6 \/ i = 7 \/ i = 8 \/ i = 9 \/ i = 10
    OBVIOUS
<1>5. /\ Spans[1] = Cleared(0, 1)
      /\ Spans[2] = Cleared(Wrap(blocks - 1), blocks)
      /\ Spans[3] = FirstBit(info.data_bitmap, info.data_bitmap_backup)
      /\ Spans[4] = FirstBit(info.data_bitmap_backup, info.data_block_attribute_table)
      /\ Spans[5] = Cleared(info.journal, info.journal + over)
      /\ Spans[6] = Cleared(info.data_table, info.data_table + over)
      /\ Spans[7] = Single(info.data_table * over, "root")
      /\ Spans[8] = Single(info.data_block_attribute_table * over, "attr")
      /\ Spans[9] = Single(0, "head")
      /\ Spans[10] = Single(Wrap(sectors - 1), "head")
    BY DEF Spans
<1>6. /\ Spans[i].from \in Nat
      /\ Spans[i].first \in Content /\ Spans[i].rest \in Content
    BY <1>1, <1>2, <1>4, <1>5 DEF Cleared, FirstBit, Single, Span, Content
<1> QED
    BY <1>3, <1>6
------------------------------------------------------------------------------
LEMMA IInvInit == Init => IInv
<1>1. SUFFICES ASSUME Init PROVE IInv
    OBVIOUS
<1>2. sectors \in Nat
    BY <1>1, MkfsAssumption DEF Init
<1>3. TypeOK
    BY <1>1, <1>2 DEF Init, TypeOK, Ended, Content, Sector
<1>4. Searching /\ Settled
    BY <1>1 DEF Init, Searching, Settled, Laid
<1> QED
    BY <1>3, <1>4 DEF IInv

\* What follows from the device and the block size does not change.
LEMMA Frame ==
    ASSUME sectors' = sectors, over' = over
    PROVE  /\ blocks' = blocks /\ body_size' = body_size /\ left_over' = left_over
           /\ journaling_section_size' = journaling_section_size
           /\ Suitable' <=> Suitable
           /\ Sensible' <=> Sensible
           /\ \A c : Needed(c)' = Needed(c) /\ Layout(c)' = Layout(c)
<1>1. blocks' = blocks
    BY DEF blocks
<1>2. body_size' = body_size
    BY <1>1 DEF body_size
<1>3. journaling_section_size' = journaling_section_size
    BY <1>2 DEF journaling_section_size
<1>4. left_over' = left_over
    BY <1>2, <1>3 DEF left_over
<1>5. (Suitable' <=> Suitable) /\ (Sensible' <=> Sensible)
    BY <1>1, <1>2, <1>3 DEF Suitable, Sensible
<1>6. \A c : Needed(c)' = Needed(c)
    BY DEF Needed
<1>7. \A c : Layout(c)' = Layout(c)
    BY <1>3 DEF Layout
<1> QED
    BY <1>1, <1>2, <1>3, <1>4, <1>5, <1>6, <1>7

\* The bounds of the search, when it starts with offset o.
LEMMA SearchStarts ==
    ASSUME sectors \in Sectors, Suitable, NEW o \in Nat, o < left_over
    PROVE  /\ left_over - o \in Nat \ {0}
           /\ Sensible => \A c \in left_over - o .. left_over - o : Needed(c) >= left_over - o
<1>1. over \in Nat \ {0} /\ left_over - o \in Nat \ {0}
    BY Sizes DEF Suitable
<1>2. ASSUME Sensible PROVE Needed(left_over - o) >= left_over - o
    <2> DEFINE c == left_over - o
               p == CeilDiv(c, 8 * SectorSize * over)
               q == CeilDiv(c, AttrsPerSector * over)
    <2>1. c <= sectors
        BY <1>1, <1>2, Sizes DEF left_over
    <2>2. 8 * SectorSize * over \in Nat \ {0} /\ AttrsPerSector * over \in Nat \ {0}
        BY <1>1, Sizes, MkfsAssumption
    <2>3. Needed(c) = 2 * p + q + c
        BY <1>1, <2>1, NeededExact
    <2>4. p \in Nat /\ q \in Nat
        BY <1>1, <2>2, CeilDivBounds
    <2> HIDE DEF p, q, c
    <2>5. Needed(c) >= c
        BY <1>1, <2>3, <2>4 DEF c
    <2> QED
        BY <2>5 DEF c
<1> QED
    BY <1>1, <1>2

\* The middle of the search.
LEMMA Middle ==
    ASSUME NEW l \in Nat, NEW h \in Nat, l < h
    PROVE  /\ l + (h - l) \div 2 \in Nat
           /\ l <= l + (h - l) \div 2 /\ l + (h - l) \div 2 < h
    OBVIOUS

LEMMA IInvNext == IInv /\ [Next]_vars => IInv'
<1>1. SUFFICES ASSUME IInv, [Next]_vars PROVE IInv'
    OBVIOUS
<1>2. TypeOK /\ Searching /\ Settled
    BY <1>1 DEF IInv
<1>3. sectors \in Sectors /\ over \in Overs /\ over \in Nat /\ lo \in Nat /\ hi \in Nat /\ offset \in Nat
    BY <1>2, MkfsAssumption DEF TypeOK
<1>4. CASE check
    <2>1. sectors' = sectors /\ over' = over
        BY <1>4 DEF check
    <2>2. /\ pc = "check" /\ info = <<>> /\ offset = 0 /\ lo = 0
          /\ UNCHANGED <<offset, lo, info, span, sector, disk>>
        BY <1>2, <1>4 DEF check, Searching
    <2>3. CASE over >= 1 /\ is_2_power_of(over) /\ body_size > journaling_section_size
        <3>1. Suitable
            BY <1>3, <2>3 DEF Suitable
        <3>2. left_over \in Nat /\ 0 < left_over
            BY <1>3, <2>3, Sizes DEF left_over
        <3>3. pc' = "search" /\ hi' = left_over
            BY <1>4, <2>3 DEF check
        <3>4. TypeOK'
            BY <1>2, <2>1, <2>2, <3>2, <3>3 DEF TypeOK, Sector
        <3>5. Settled'
            BY <2>2, <3>3 DEF Settled, Laid
        <3>6. Count' = left_over /\ left_over - 0 = left_over
            BY <2>1, <2>2, <3>2, Frame DEF Count
        <3>7. Sensible => \A c \in left_over .. left_over : Needed(c) >= left_over
            BY <1>3, <3>1, <3>2, <3>6, SearchStarts
        <3>8. Searching'
            BY <2>1, <2>2, <3>1, <3>2, <3>3, <3>6, <3>7, Frame DEF Searching
        <3> QED
            BY <3>4, <3>5, <3>8 DEF IInv
    <2>4. CASE ~(over >= 1 /\ is_2_power_of(over) /\ body_size > journaling_section_size)
        <3>1. pc' = "refused" /\ hi' = hi
            BY <1>4, <2>4 DEF check
        <3> QED
            BY <1>2, <2>1, <2>2, <3>1 DEF IInv, TypeOK, Sector, Ended, Searching, Settled, Laid
    <2> QED
        BY <2>3, <2>4
<1>5. CASE solveC
    <2>1. /\ sectors' = sectors /\ over' = over /\ pc = "search" /\ lo < hi
          /\ UNCHANGED <<pc, offset, info, span, sector, disk>>
        BY <1>5 DEF solveC
    <2>2. Suitable /\ info = <<>> /\ offset < left_over /\ lo <= hi /\ hi <= Count
        BY <1>2, <2>1 DEF Searching
    <2>3. left_over \in Int /\ Count \in Nat /\ over \in Nat \ {0} /\ sectors \in Nat
        BY <1>3, <2>2, Sizes DEF Count, Suitable
    <2> DEFINE mid == lo + (hi - lo) \div 2
    <2>4. mid \in Nat /\ lo <= mid /\ mid < hi
        BY <1>3, <2>1, Middle
    <2>5. \/ Needed(mid) >= Count /\ hi' = mid /\ lo' = lo
          \/ ~(Needed(mid) >= Count) /\ lo' = mid + 1 /\ hi' = hi
        BY <1>5 DEF solveC
    <2> HIDE DEF mid
    <2>6. Count' = Count
        BY <2>1, Frame DEF Count
    <2>7. lo' \in Nat /\ hi' \in Nat /\ lo' <= hi' /\ hi' <= Count
        BY <1>3, <2>2, <2>3, <2>4, <2>5
    <2>8. TypeOK'
        BY <1>2, <2>1, <2>7 DEF TypeOK, Sector, Ended
    <2>9. Settled'
        BY <2>1, <2>2 DEF Settled, Laid
    <2>10. ASSUME Sensible
           PROVE  /\ \A c \in 0 .. lo' - 1 : Needed(c) < Count
                  /\ \A c \in hi' .. Count : Needed(c) >= Count
        <3>1. /\ \A c \in 0 .. lo - 1 : Needed(c) < Count
              /\ \A c \in hi .. Count : Needed(c) >= Count
            BY <1>2, <2>1, <2>10 DEF Searching
        <3>2. Count <= sectors
            BY <1>3, <2>3, <2>10, Sizes DEF Count, left_over
        <3>3. Needed(mid) \in Nat
            BY <1>3, <2>3, <2>4, NeededIsNat
        <3>4. \A c \in 0 .. mid : Needed(c) <= Needed(mid) /\ Needed(c) \in Nat
            <4>1. TAKE c \in 0 .. mid
            <4>2. Needed(c) \in Nat
                BY <1>3, <2>3, <2>4, NeededIsNat
            <4>3. mid <= sectors
                BY <1>3, <2>2, <2>3, <2>4, <3>2
            <4>4. CASE c = mid
                BY <4>4, <4>2
            <4>5. CASE c < mid
                <5>1. c \in Nat
                    BY <2>4
                <5> QED
                    BY <1>3, <2>3, <2>4, <3>3, <4>2, <4>3, <4>5, <5>1, NeededIncreases
            <4> QED
                BY <2>4, <4>4, <4>5
        <3>5. \A c \in mid .. Count : Needed(mid) <= Needed(c) /\ Needed(c) \in Nat
            <4>1. TAKE c \in mid .. Count
            <4>2. c \in Nat
                BY <2>3, <2>4
            <4>3. Needed(c) \in Nat
                BY <1>3, <2>3, <4>2, NeededIsNat
            <4>4. c <= sectors
                BY <2>3, <3>2, <4>2
            <4>5. CASE c = mid
                BY <4>5, <3>3
            <4>6. CASE mid < c
                BY <1>3, <2>3, <2>4, <3>3, <4>2, <4>3, <4>4, <4>6, NeededIncreases
            <4> QED
                BY <2>4, <4>2, <4>5, <4>6
        <3>6. CASE Needed(mid) >= Count /\ hi' = mid /\ lo' = lo
            BY <2>3, <3>1, <3>3, <3>5, <3>6
        <3>7. CASE ~(Needed(mid) >= Count) /\ lo' = mid + 1 /\ hi' = hi
            BY <2>3, <2>4, <3>1, <3>3, <3>4, <3>7
        <3> QED
            BY <2>5, <3>6, <3>7
    <2>11. Searching'
        BY <2>1, <2>2, <2>6, <2>7, <2>10, Frame DEF Searching
    <2> QED
        BY <2>8, <2>9, <2>11 DEF IInv
<1>6. CASE one_less
    <2>1. /\ sectors' = sectors /\ over' = over /\ pc = "search"
          /\ UNCHANGED <<info, span, sector, disk>>
          /\ offset' = offset + 1 /\ lo' = 0 /\ hi' = Count - 1
          /\ pc' = IF offset + 1 < left_over THEN "search" ELSE "refused"
        BY <1>6 DEF one_less
    <2>2. Suitable /\ info = <<>> /\ offset < left_over
        BY <1>2, <2>1 DEF Searching
    <2>3. left_over \in Int /\ offset + 1 \in Nat /\ hi' = left_over - (offset + 1) /\ hi' \in Nat
        BY <1>3, <2>1, <2>2, Sizes DEF Count, Suitable
    <2>4. TypeOK'
        BY <1>2, <2>1, <2>3 DEF TypeOK, Sector, Ended
    <2>5. Settled'
        BY <2>1, <2>2 DEF Settled, Laid
    <2>6. Count' = hi'
        BY <2>1, <2>3, Frame DEF Count
    <2>7. CASE offset + 1 < left_over
        <3>1. Sensible => \A c \in hi' .. hi' : Needed(c) >= hi'
            BY <1>3, <2>2, <2>3, <2>7, SearchStarts
        <3>2. Searching'
            BY <2>1, <2>2, <2>3, <2>6, <2>7, <3>1, Frame DEF Searching
        <3> QED
            BY <2>4, <2>5, <3>2 DEF IInv
    <2>8. CASE ~(offset + 1 < left_over)
        <3>1. Searching'
            BY <2>1, <2>8 DEF Searching
        <3> QED
            BY <2>4, <2>5, <3>1 DEF IInv
    <2> QED
        BY <2>7, <2>8
<1>7. CASE make_head
    <2>1. /\ sectors' = sectors /\ over' = over /\ pc = "search" /\ lo = hi
          /\ Needed(lo) = Count /\ info' = Layout(lo) /\ pc' = "write"
          /\ UNCHANGED <<offset, lo, hi, span, sector, disk>>
        BY <1>7 DEF make_head
    <2>2. Suitable /\ offset < left_over /\ hi <= Count
        BY <1>2, <2>1 DEF Searching
    <2>3. Count' = Count
        BY <2>1, Frame DEF Count
    <2>4. TypeOK'
        BY <1>2, <2>1 DEF TypeOK, Sector, Ended
    <2>5. Searching'
        BY <2>1 DEF Searching
    <2>6. Settled'
        BY <2>1, <2>2, <2>3, Frame DEF Settled
    <2> QED
        BY <2>4, <2>5, <2>6 DEF IInv
<1>8. CASE write
    <2>1. /\ sectors' = sectors /\ over' = over /\ pc = "write"
          /\ UNCHANGED <<offset, lo, hi, info>>
        BY <1>8 DEF write, search
    <2>2. Suitable /\ info = Layout(lo)
        BY <1>2, <2>1 DEF Settled
    <2>3. pc' \in {"write", "failed", "done"}
        BY <1>8, <2>1 DEF write
    <2>4. span \in 1 .. 10 /\ sector \in Nat /\ disk \in [Sector -> Content]
        BY <1>2 DEF TypeOK
    <2>5. over \in Nat \ {0} /\ sectors \in Nat
        BY <1>3, <2>2, Sizes DEF Suitable
    <2>6. /\ Len(Spans) = 10 /\ Spans[span].first \in Content /\ Spans[span].rest \in Content
        BY <1>3, <2>2, <2>4, <2>5, SpansAreTyped
    <2>7. span < 10 => span + 1 \in 1 .. 10 /\ Spans[span + 1].from \in Nat
        BY <1>3, <2>2, <2>4, <2>5, SpansAreTyped
    <2>8. span' \in 1 .. 10 /\ sector' \in Nat /\ disk' \in [Sector -> Content]
        BY <1>8, <2>4, <2>6, <2>7 DEF write
    <2>9. TypeOK'
        BY <1>2, <2>1, <2>3, <2>8 DEF TypeOK, Sector, Ended
    <2>10. Searching'
        BY <2>3 DEF Searching
    <2>11. Count' = Count
        BY <2>1, Frame DEF Count
    <2>12. Settled'
        BY <1>2, <2>1, <2>11, Frame DEF Settled
    <2> QED
        BY <2>9, <2>10, <2>12 DEF IInv
<1>9. CASE kill \/ UNCHANGED vars
    <2>1. /\ sectors' = sectors /\ over' = over
          /\ UNCHANGED <<offset, lo, hi, info, span, sector, disk>>
          /\ pc' = "killed" \/ pc' = pc
        BY <1>9 DEF kill, vars, search
    <2>2. Count' = Count /\ (Laid' <=> Laid)
        BY <2>1, Frame DEF Count, Laid
    <2>3. TypeOK'
        BY <1>2, <2>1 DEF TypeOK, Sector, Ended
    <2>4. Searching'
        BY <1>2, <2>1, <2>2, Frame DEF Searching
    <2>5. Settled'
        BY <1>2, <2>1, <2>2, Frame DEF Settled
    <2> QED
        BY <2>3, <2>4, <2>5 DEF IInv
<1> QED
    BY <1>1, <1>4, <1>5, <1>6, <1>7, <1>8, <1>9 DEF Next, Step

LEMMA IInvHolds == Spec => []IInv
<1>1. Init => IInv
    BY IInvInit
<1>2. IInv /\ [Next]_vars => IInv'
    BY IInvNext
<1> QED
    BY <1>1, <1>2, PTL DEF Spec
------------------------------------------------------------------------------
\* The variables keep their ranges: the search never leaves the numbers it began
\* with, and no sector is computed that is not a number.
THEOREM MkfsTypeOK == Spec => []TypeOK
<1>1. IInv => TypeOK
    BY DEF IInv
<1> QED
    BY <1>1, IInvHolds, PTL

LEMMA TileHolds == IInv => RegionsTile
<1>1. SUFFICES ASSUME IInv, Laid, Sensible PROVE RegionsTile
    BY DEF RegionsTile
<1> DEFINE bytes == over * SectorSize
           maps  == CeilDiv(lo, bytes * 8)
           attrs == CeilDiv(lo * 2, bytes)
<1>2. /\ Suitable /\ offset < left_over /\ lo <= Count
      /\ Needed(lo) = Count /\ info = Layout(lo)
    BY <1>1 DEF IInv, Settled
<1>3. sectors \in Sectors /\ over \in Nat \ {0} /\ lo \in Nat /\ offset \in Nat
    BY <1>1, <1>2 DEF IInv, TypeOK, Suitable
<1>4. /\ body_size = blocks - 2 /\ blocks \in Nat /\ blocks <= sectors /\ sectors \in Nat
      /\ journaling_section_size \in Nat \ {0} /\ journaling_section_size >= MinJournal
      /\ SectorSize \in Nat \ {0}
    BY <1>1, <1>3, Sizes
<1>5. Count = blocks - 2 - journaling_section_size - offset /\ Count > 0 /\ lo <= sectors
    BY <1>2, <1>3, <1>4 DEF Count, left_over
<1>6. bytes \in Nat \ {0} /\ bytes * 8 \in Nat \ {0} /\ lo * 2 \in Nat
    BY <1>3, <1>4
<1>7. Needed(lo) = 2 * maps + attrs + lo
    <2>1. Needed(lo) = 2 * CeilDiv(lo, 8 * SectorSize * over)
                         + CeilDiv(lo, AttrsPerSector * over) + lo
        BY <1>3, <1>5, NeededExact
    <2>2. 8 * SectorSize * over = bytes * 8
        BY <1>3, <1>4
    <2>3. AttrsPerSector * over \in Nat \ {0} /\ 2 * (AttrsPerSector * over) = bytes
        BY <1>3, MkfsAssumption DEF SectorSize
    <2>4. attrs = CeilDiv(2 * lo, 2 * (AttrsPerSector * over))
        BY <1>3, <2>3
    <2>5. attrs = CeilDiv(lo, AttrsPerSector * over)
        BY <1>3, <2>3, <2>4, CeilDivDouble
    <2> QED
        BY <2>1, <2>2, <2>5
<1>8. maps \in Nat /\ lo <= (bytes * 8) * maps /\ attrs \in Nat /\ lo * 2 <= bytes * attrs
    <2> HIDE DEF bytes
    <2> QED
        BY <1>3, <1>6, CeilDivBounds
<1>9. lo # 0
    BY <1>2, <1>3, <1>5, NeededZero
<1>10. info = [data_bitmap |-> 1,
               data_bitmap_backup |-> 1 + maps,
               data_block_attribute_table |-> 1 + 2 * maps,
               data_table |-> 1 + 2 * maps + attrs,
               journal |-> 1 + 2 * maps + attrs + lo,
               end |-> 1 + 2 * maps + attrs + lo + journaling_section_size]
    BY <1>2 DEF Layout
<1> HIDE DEF maps, attrs
<1>11. /\ info.data_bitmap = 1
       /\ info.data_bitmap_backup - info.data_bitmap = maps
       /\ info.data_block_attribute_table - info.data_bitmap_backup = maps
       /\ info.data_table - info.data_block_attribute_table = attrs
       /\ info.journal - info.data_table = lo
       /\ info.end - info.journal = journaling_section_size
       /\ info.end = 1 + Count + journaling_section_size
    BY <1>2, <1>3, <1>4, <1>5, <1>7, <1>8, <1>10
<1>12. info.end <= blocks - 1
    BY <1>3, <1>4, <1>5, <1>11
<1>13. lo <= maps * bytes * 8 /\ 2 * lo <= attrs * bytes
    BY <1>3, <1>6, <1>8
<1> QED
    BY <1>3, <1>4, <1>9, <1>11, <1>12, <1>13 DEF RegionsTile

\* On every device that has two blocks, with every block size mkfs accepts, the
\* layout it settles on is a partition of the blocks between the two heads, and
\* both maps and the attribute table have room for every data block
\* (make_head, solveC).
THEOREM MkfsRegionsTile == Spec => []RegionsTile
BY TileHolds, IInvHolds, PTL

\* The search gives a number of blocks up only when no number of data blocks
\* needs exactly that many: halving skips no solution (solveC).
THEOREM MkfsSearchIsExact == Spec => []SearchIsExact
<1>1. IInv => SearchIsExact
    <2>1. SUFFICES ASSUME IInv, Sensible, pc = "search", lo = hi, Needed(lo) # Count,
                          NEW c \in 0 .. Count
                   PROVE  Needed(c) # Count
        BY DEF SearchIsExact
    <2>2. /\ Suitable /\ offset < left_over /\ hi <= Count
          /\ \A d \in 0 .. lo - 1 : Needed(d) < Count
          /\ \A d \in hi .. Count : Needed(d) >= Count
        BY <2>1 DEF IInv, Searching
    <2>3. sectors \in Sectors /\ over \in Nat \ {0} /\ lo \in Nat /\ offset \in Nat
        BY <2>1, <2>2 DEF IInv, TypeOK, Suitable
    <2>4. Count \in Nat /\ Count <= sectors /\ c \in Nat
        BY <2>1, <2>2, <2>3, Sizes DEF Count, left_over
    <2>5. Needed(c) \in Nat /\ Needed(lo) \in Nat /\ Needed(lo) >= Count
        BY <2>1, <2>2, <2>3, <2>4, NeededIsNat
    <2>6. CASE c < lo
        BY <2>2, <2>3, <2>4, <2>5, <2>6
    <2>7. CASE c = lo
        BY <2>1, <2>7
    <2>8. CASE lo < c
        <3>1. c <= sectors
            BY <2>1, <2>3, <2>4, Sizes
        <3>2. Needed(lo) < Needed(c)
            BY <2>3, <2>4, <2>8, <3>1, NeededIncreases
        <3> QED
            BY <2>4, <2>5, <3>2
    <2> QED
        BY <2>3, <2>4, <2>6, <2>7, <2>8
<1> QED
    BY <1>1, IInvHolds, PTL

------------------------------------------------------------------------------
\* A layout that was made can be told from none.
LEMMA LayoutIsRecord == ASSUME NEW c PROVE Layout(c) # <<>>
BY DEF Layout

------------------------------------------------------------------------------
(***************************************************************************)
(* The writes.  The sectors where the regions start, of which the proofs   *)
(* need their order only, and what has been written behind the sector that *)
(* is written next.                                                        *)
(***************************************************************************)
bitmap_at == info.data_bitmap * over
backup_at == info.data_bitmap_backup * over
table_at  == info.data_block_attribute_table * over
root_at   == info.data_table * over
root_to   == (info.data_table + over) * over
ring_at   == info.journal * over
ring_to   == (info.journal + over) * over

Reached(i, s) == span > i \/ (span = i /\ sector > s)

\* Nothing is written before the layout is made; then the next sector lies in its
\* span, and on a device of fewer than two blocks the bitmap does not fit.
Placed ==
    /\ ~Laid => span = 1 /\ sector = 0
    /\ Laid => /\ Spans[span].from <= sector
               /\ sector <= sectors \/ sector = Spans[span].from
               /\ span > 3 => Sensible

\* The head of the old volume goes first, the head of the new one comes last.
Heads ==
    /\ span = 1 /\ sector = 0 => \A s \in Sector \ {0} : disk[s] = "old"
    /\ sectors > 0 /\ disk[0] = "old_head" => span = 1 /\ sector = 0
    /\ sectors > 0 /\ disk[0] = "head" => Reached(9, 0)

\* What a region holds as far as it has been written.
Bits(s) ==
    Reached(3, s) /\ bitmap_at <= s /\ s < backup_at =>
        disk[s] = IF s = bitmap_at THEN "bit" ELSE "zero"
BackupBits(s) ==
    Reached(4, s) /\ backup_at <= s /\ s < table_at =>
        disk[s] = IF s = backup_at THEN "bit" ELSE "zero"
Ring(s) == Reached(5, s) /\ ring_at <= s /\ s < ring_at + over => disk[s] = "zero"
Root(s) ==
    Reached(6, s) /\ root_at <= s /\ s < root_at + over =>
        disk[s] = IF s = root_at /\ Reached(7, s) THEN "root" ELSE "zero"
RootAttr(s) == Reached(8, s) /\ s = table_at => disk[s] = "attr"
Regions(s) == Bits(s) /\ BackupBits(s) /\ Ring(s) /\ Root(s) /\ RootAttr(s)

Progress ==
    /\ Placed
    /\ Heads
    /\ Laid => \A s \in Sector : Regions(s)
    /\ FailsForLargeBlocksOnly

\* Blocks that are apart are apart by a block's sectors.
LEMMA Apart ==
    ASSUME NEW m \in Nat \ {0}, NEW x \in Int, NEW y \in Int, x < y
    PROVE  x * m + m <= y * m
<1>1. PICK d \in Nat : y = x + 1 + d
    BY y - x - 1 \in Nat, y = x + 1 + (y - x - 1)
<1>2. y * m = x * m + m + d * m /\ d * m >= 0
    BY <1>1
<1> QED
    BY <1>2

LEMMA PositionsArePlaced ==
    ASSUME IInv, Laid
    PROVE  /\ sectors \in Nat /\ over \in Nat \ {0}
           /\ blocks \in Int /\ info.journal \in Int
           /\ bitmap_at \in Nat /\ backup_at \in Nat /\ table_at \in Nat
           /\ root_at \in Nat /\ ring_at \in Nat /\ root_to \in Int /\ ring_to \in Int
           /\ bitmap_at = over /\ bitmap_at + over <= backup_at
           /\ backup_at + over <= table_at /\ table_at + over <= root_at
           /\ root_at + over <= ring_at
           /\ root_at + over <= root_to /\ ring_at + over <= ring_to
           /\ (info.data_table + 1) * over = root_at + over
           /\ (info.journal + 1) * over = ring_at + over
           /\ blocks * over <= sectors
           /\ 2 * over <= sectors => Sensible
           /\ Sensible => ring_at + 2 * over <= sectors
           /\ Sensible /\ (ring_to > sectors \/ root_to > sectors) => over > blocks - info.journal
<1> DEFINE bytes == over * SectorSize
           maps  == CeilDiv(lo, bytes * 8)
           attrs == CeilDiv(lo * 2, bytes)
<1>1. /\ Suitable /\ offset < left_over /\ Needed(lo) = Count /\ info = Layout(lo)
    BY DEF IInv, Settled
<1>2. sectors \in Sectors /\ over \in Nat \ {0} /\ lo \in Nat /\ offset \in Nat
    BY <1>1 DEF IInv, TypeOK, Suitable
<1>3. /\ sectors \in Nat /\ SectorSize \in Nat \ {0} /\ left_over \in Int
      /\ journaling_section_size \in Nat \ {0} /\ blocks \in Nat
    BY <1>2, Sizes
<1>4. lo # 0
    BY <1>1, <1>2, <1>3, NeededZero DEF Count
<1>5. bytes \in Nat \ {0} /\ bytes * 8 \in Nat \ {0} /\ lo * 2 \in Nat
    BY <1>2, <1>3
<1>6. maps \in Nat /\ lo <= (bytes * 8) * maps /\ attrs \in Nat /\ lo * 2 <= bytes * attrs
    <2> HIDE DEF bytes
    <2> QED
        BY <1>2, <1>5, CeilDivBounds
<1>7. info = [data_bitmap |-> 1,
              data_bitmap_backup |-> 1 + maps,
              data_block_attribute_table |-> 1 + 2 * maps,
              data_table |-> 1 + 2 * maps + attrs,
              journal |-> 1 + 2 * maps + attrs + lo,
              end |-> 1 + 2 * maps + attrs + lo + journaling_section_size]
    BY <1>1 DEF Layout
<1>8. maps # 0 /\ attrs # 0
    <2> HIDE DEF maps, attrs, bytes
    <2> QED
        BY <1>2, <1>4, <1>5, <1>6
<1> HIDE DEF maps, attrs, bytes
<1>9. /\ info.data_bitmap = 1 /\ info.data_bitmap_backup \in Nat
      /\ info.data_block_attribute_table \in Nat /\ info.data_table \in Nat /\ info.journal \in Nat
      /\ 1 < info.data_bitmap_backup /\ info.data_bitmap_backup < info.data_block_attribute_table
      /\ info.data_block_attribute_table < info.data_table /\ info.data_table < info.journal
      /\ info.journal < info.end /\ info.end \in Nat
    BY <1>2, <1>3, <1>4, <1>6, <1>7, <1>8
<1>10. /\ bitmap_at \in Nat /\ backup_at \in Nat /\ table_at \in Nat
       /\ root_at \in Nat /\ ring_at \in Nat /\ root_to \in Int /\ ring_to \in Int
       /\ bitmap_at = over
    BY <1>2, <1>9 DEF bitmap_at, backup_at, table_at, root_at, ring_at, root_to, ring_to
<1>11. /\ bitmap_at + over <= backup_at /\ backup_at + over <= table_at
       /\ table_at + over <= root_at /\ root_at + over <= ring_at
    BY <1>2, <1>9, Apart DEF bitmap_at, backup_at, table_at, root_at, ring_at
<1>12. root_at + over <= root_to /\ ring_at + over <= ring_to
    BY <1>2, <1>9, Apart DEF root_at, root_to, ring_at, ring_to
<1>13. (info.data_table + 1) * over = root_at + over /\ (info.journal + 1) * over = ring_at + over
    BY <1>2, <1>9 DEF root_at, ring_at
<1>14. sectors % over \in 0 .. over - 1 /\ sectors = over * blocks + (sectors % over)
    BY <1>2, <1>3, Division DEF blocks
<1>15. blocks * over <= sectors /\ sectors < blocks * over + over
    BY <1>2, <1>3, <1>14
<1>16. ASSUME 2 * over <= sectors PROVE Sensible
    <2>1. SUFFICES ASSUME blocks < 2 PROVE FALSE
        BY <1>2, <1>3 DEF Sensible
    <2>2. blocks * over + over <= 2 * over
        BY <1>2, <1>3, <2>1, Apart
    <2> QED
        BY <1>2, <1>3, <1>15, <1>16, <2>2
<1>17. ASSUME Sensible PROVE ring_at + 2 * over <= sectors
    <2>1. info.end <= blocks - 1
        BY <1>17, TileHolds DEF RegionsTile
    <2>2. info.journal < info.end /\ info.end < blocks
        BY <1>3, <1>9, <2>1
    <2>3. info.journal * over + over <= info.end * over /\ info.end * over + over <= blocks * over
        BY <1>2, <1>3, <1>9, <2>2, Apart
    <2>4. info.end * over \in Int /\ blocks * over \in Int
        BY <1>2, <1>3, <1>9
    <2> QED
        BY <1>2, <1>3, <1>10, <1>15, <2>3, <2>4 DEF ring_at
<1>18. ASSUME ring_to > sectors \/ root_to > sectors PROVE over > blocks - info.journal
    <2>1. SUFFICES ASSUME info.journal + over <= blocks PROVE FALSE
        BY <1>2, <1>3, <1>9
    <2>2. (info.journal + over) * over <= blocks * over
        BY <1>2, <1>3, <1>9, <2>1, Apart
    <2>3. (info.data_table + over) * over <= blocks * over
        BY <1>2, <1>3, <1>9, <2>1, Apart
    <2>4. ring_to <= sectors /\ root_to <= sectors
        BY <1>2, <1>3, <1>9, <1>10, <1>15, <2>2, <2>3 DEF ring_to, root_to
    <2> QED
        BY <1>3, <1>10, <1>18, <2>4
<1> QED
    BY <1>2, <1>3, <1>9, <1>10, <1>11, <1>12, <1>13, <1>15, <1>16, <1>17, <1>18

\* The spans, by where they lie.
LEMMA SpansArePlaced ==
    ASSUME IInv, Laid
    PROVE  /\ Len(Spans) = 10
           /\ Spans[1] = Span(0, over, "zero", "zero")
           /\ \E f \in Nat, t \in Nat : t <= sectors /\ Spans[2] = Span(f, t, "zero", "zero")
           /\ Spans[3] = Span(bitmap_at, backup_at, "bit", "zero")
           /\ Spans[4] = Span(backup_at, table_at, "bit", "zero")
           /\ Spans[5] = Span(ring_at, ring_to, "zero", "zero")
           /\ Spans[6] = Span(root_at, root_to, "zero", "zero")
           /\ Spans[7] = Span(root_at, root_at + 1, "root", "root")
           /\ Spans[8] = Span(table_at, table_at + 1, "attr", "attr")
           /\ Spans[9] = Span(0, 1, "head", "head")
           /\ sectors > 0 => Spans[10] = Span(sectors - 1, sectors, "head", "head")
<1>1. /\ sectors \in Nat /\ over \in Nat \ {0} /\ blocks * over <= sectors
      /\ sectors \in Sectors
    BY PositionsArePlaced DEF IInv, TypeOK
<1>2. /\ Spans[1] = Cleared(0, 1)
      /\ Spans[2] = Cleared(Wrap(blocks - 1), blocks)
      /\ Spans[3] = FirstBit(info.data_bitmap, info.data_bitmap_backup)
      /\ Spans[4] = FirstBit(info.data_bitmap_backup, info.data_block_attribute_table)
      /\ Spans[5] = Cleared(info.journal, info.journal + over)
      /\ Spans[6] = Cleared(info.data_table, info.data_table + over)
      /\ Spans[7] = Single(info.data_table * over, "root")
      /\ Spans[8] = Single(info.data_block_attribute_table * over, "attr")
      /\ Spans[9] = Single(0, "head")
      /\ Spans[10] = Single(Wrap(sectors - 1), "head")
      /\ Len(Spans) = 10
    BY DEF Spans
<1>3. Spans[1] = Span(0, over, "zero", "zero")
    <2>1. 0 * over = 0 /\ 1 * over = over
        BY <1>1
    <2> QED
        BY <1>2, <2>1 DEF Cleared
<1>4. \E f \in Nat, t \in Nat : t <= sectors /\ Spans[2] = Span(f, t, "zero", "zero")
    <2>1. blocks \in Nat /\ Wrap(blocks - 1) \in Nat
        BY <1>1, Sizes, WrapIsNat
    <2>2. Wrap(blocks - 1) * over \in Nat /\ blocks * over \in Nat
        BY <1>1, <2>1
    <2> QED
        BY <1>1, <1>2, <2>2 DEF Cleared
<1>5. sectors > 0 => Spans[10] = Span(sectors - 1, sectors, "head", "head")
    <2>1. SUFFICES ASSUME sectors > 0 PROVE Spans[10] = Span(sectors - 1, sectors, "head", "head")
        OBVIOUS
    <2>2. Word \in Nat /\ 4 * sectors + 4 <= Word
        BY <1>1, Sizes
    <2>3. Wrap(sectors - 1) = sectors - 1 /\ (sectors - 1) + 1 = sectors
        BY <1>1, <2>1, <2>2 DEF Wrap
    <2> QED
        BY <1>2, <2>3 DEF Single
<1>6. /\ Spans[3] = Span(bitmap_at, backup_at, "bit", "zero")
      /\ Spans[4] = Span(backup_at, table_at, "bit", "zero")
      /\ Spans[5] = Span(ring_at, ring_to, "zero", "zero")
      /\ Spans[6] = Span(root_at, root_to, "zero", "zero")
    BY <1>2 DEF FirstBit, Cleared, bitmap_at, backup_at, table_at, ring_at, ring_to, root_at, root_to
<1>7. /\ Spans[7] = Span(root_at, root_at + 1, "root", "root")
      /\ Spans[8] = Span(table_at, table_at + 1, "attr", "attr")
      /\ Spans[9] = Span(0, 0 + 1, "head", "head") /\ 0 + 1 = 1
    BY <1>2 DEF Single, table_at, root_at
<1> QED
    BY <1>2, <1>3, <1>4, <1>5, <1>6, <1>7

\* Off the two spans that may run off the end, every span lies on the device.
LEMMA SpansFit ==
    ASSUME IInv, Laid, Sensible, NEW i \in 1 .. 10, Spans[i].to > sectors
    PROVE  over > blocks - info.journal
<1>1. \/ i = 1 \/ i = 2 \/ i = 3 \/ i = 4 \/ i = 5
      \/ i = 6 \/ i = 7 \/ i = 8 \/ i = 9 \/ i = 10
    OBVIOUS
<1>2. CASE i \in {5, 6}
    BY <1>2, SpansArePlaced, PositionsArePlaced DEF Span
<1>3. CASE i = 2
    BY <1>3, SpansArePlaced, PositionsArePlaced DEF Span
<1>4. CASE i \in {1, 3, 4, 7, 8, 9, 10}
    BY <1>4, SpansArePlaced, PositionsArePlaced DEF Span
<1> QED
    BY <1>1, <1>2, <1>3, <1>4

\* Where the regions start does not change once they are laid out.
LEMMA PositionsStay ==
    ASSUME IInv, info' = info, over' = over, sectors' = sectors
    PROVE  /\ bitmap_at' = bitmap_at /\ backup_at' = backup_at /\ table_at' = table_at
           /\ root_at' = root_at /\ root_to' = root_to /\ ring_at' = ring_at /\ ring_to' = ring_to
           /\ Spans' = Spans /\ (Laid' <=> Laid) /\ Sector' = Sector
<1>1. blocks' = blocks
    BY Frame
<1>2. Spans' = Spans
    BY <1>1 DEF Spans, Cleared, FirstBit, Single, Span, Wrap
<1> QED
    BY <1>2 DEF bitmap_at, backup_at, table_at, root_at, root_to, ring_at, ring_to, Laid, Sector

------------------------------------------------------------------------------
LEMMA ProgressInit == Init => Progress
<1>1. SUFFICES ASSUME Init PROVE Progress
    OBVIOUS
<1>2. sectors \in Nat /\ span = 1 /\ sector = 0 /\ ~Laid /\ pc = "check"
    BY <1>1, MkfsAssumption DEF Init, Laid
<1>3. PICK first \in {"old_head", "old"} : disk = [s \in Sector |-> IF s = 0 THEN first ELSE "old"]
    BY <1>1 DEF Init
<1>4. Heads
    BY <1>2, <1>3 DEF Heads, Sector
<1> QED
    BY <1>2, <1>4 DEF Progress, Placed, FailsForLargeBlocksOnly

\* The sector that is written has the content its region is to have, ...
LEMMA WrittenSector ==
    ASSUME IInv, Progress, Laid, NEW p \in Nat, p = sector, p < sectors, p < Spans[span].to,
           span' = span, sector' = p + 1,
           disk'[p] = IF p = Spans[span].from THEN Spans[span].first ELSE Spans[span].rest,
           UNCHANGED <<sectors, over, info>>
    PROVE  Regions(p)'
<1>1. /\ span \in 1 .. 10 /\ Spans[span].from <= p /\ sectors \in Nat
      /\ over \in Nat \ {0} /\ (span > 3 => Sensible)
    BY PositionsArePlaced DEF IInv, TypeOK, Progress, Placed
<1>2. /\ bitmap_at' = bitmap_at /\ backup_at' = backup_at /\ table_at' = table_at
      /\ root_at' = root_at /\ ring_at' = ring_at
    BY PositionsStay
<1>3. /\ bitmap_at \in Nat /\ backup_at \in Nat /\ table_at \in Nat /\ root_at \in Nat /\ ring_at \in Nat
      /\ bitmap_at = over /\ bitmap_at + over <= backup_at
      /\ backup_at + over <= table_at /\ table_at + over <= root_at /\ root_at + over <= ring_at
      /\ Sensible => ring_at + 2 * over <= sectors
    BY PositionsArePlaced
<1>4. /\ Reached(3, p)' <=> span >= 3
      /\ Reached(4, p)' <=> span >= 4
      /\ Reached(5, p)' <=> span >= 5
      /\ Reached(6, p)' <=> span >= 6
      /\ Reached(7, p)' <=> span >= 7
      /\ Reached(8, p)' <=> span >= 8
    BY <1>1 DEF Reached
<1> DEFINE d == disk'[p]
<1>5. d = IF p = Spans[span].from THEN Spans[span].first ELSE Spans[span].rest
    OBVIOUS
<1> HIDE DEF d
<1>6. \/ span \in {1, 2}
      \/ span = 3 /\ bitmap_at <= p /\ p < backup_at /\ d = IF p = bitmap_at THEN "bit" ELSE "zero"
      \/ span = 4 /\ backup_at <= p /\ p < table_at /\ d = IF p = backup_at THEN "bit" ELSE "zero"
      \/ span = 5 /\ ring_at <= p /\ d = "zero"
      \/ span = 6 /\ root_at <= p /\ d = "zero"
      \/ span = 7 /\ p = root_at /\ d = "root"
      \/ span = 8 /\ p = table_at /\ d = "attr"
      \/ span = 9 /\ p = 0
      \/ span = 10 /\ p = sectors - 1
    <2>1. \/ span \in {1, 2} \/ span = 3 \/ span = 4 \/ span = 5
          \/ span = 6 \/ span = 7 \/ span = 8 \/ span = 9 \/ span = 10
        BY <1>1
    <2> QED
        BY <1>1, <1>3, <1>5, <2>1, SpansArePlaced DEF Span
<1>7. Bits(p)'
    BY <1>1, <1>2, <1>3, <1>4, <1>6 DEF Bits, d
<1>8. BackupBits(p)'
    BY <1>1, <1>2, <1>3, <1>4, <1>6 DEF BackupBits, d
<1>9. Ring(p)'
    BY <1>1, <1>2, <1>3, <1>4, <1>6 DEF Ring, d
<1>10. Root(p)'
    BY <1>1, <1>2, <1>3, <1>4, <1>6 DEF Root, d
<1>11. RootAttr(p)'
    BY <1>1, <1>2, <1>3, <1>4, <1>6 DEF RootAttr, d
<1> QED
    BY <1>7, <1>8, <1>9, <1>10, <1>11 DEF Regions

\* ... every other one stays as it was, ...
LEMMA OtherSector ==
    ASSUME IInv, Progress, Laid, NEW p \in Sector, p # sector, span' = span, sector' = sector + 1,
           disk'[p] = disk[p], UNCHANGED <<sectors, over, info>>
    PROVE  Regions(p)'
<1>1. span \in 1 .. 10 /\ sector \in Nat /\ sectors \in Nat /\ p \in Int
    BY MkfsAssumption DEF IInv, TypeOK, Sector
<1>2. /\ bitmap_at' = bitmap_at /\ backup_at' = backup_at /\ table_at' = table_at
      /\ root_at' = root_at /\ ring_at' = ring_at
    BY PositionsStay
<1>3. \A i \in 3 .. 8 : Reached(i, p)' <=> Reached(i, p)
    BY <1>1 DEF Reached
<1>4. Regions(p)
    BY DEF Progress
<1> QED
    BY <1>2, <1>3, <1>4 DEF Regions, Bits, BackupBits, Ring, Root, RootAttr

\* ... and where a span ends its regions are complete and the next is not begun.
LEMMA NextSpan ==
    ASSUME IInv, Progress, Laid, NEW p \in Sector, span < 10, sector >= Spans[span].to,
           span' = span + 1, sector' = Spans[span + 1].from,
           UNCHANGED <<sectors, over, info, disk>>
    PROVE  Regions(p)'
<1>1. /\ span \in 1 .. 10 /\ sector \in Nat /\ sectors \in Nat /\ p \in Int
    BY MkfsAssumption DEF IInv, TypeOK, Sector
<1>2. /\ bitmap_at' = bitmap_at /\ backup_at' = backup_at /\ table_at' = table_at
      /\ root_at' = root_at /\ ring_at' = ring_at
    BY PositionsStay
<1>3. /\ bitmap_at \in Nat /\ backup_at \in Nat /\ table_at \in Nat /\ root_at \in Nat /\ ring_at \in Nat
      /\ root_to \in Int /\ ring_to \in Int /\ over \in Nat \ {0}
      /\ root_at + over <= root_to /\ ring_at + over <= ring_to
    BY PositionsArePlaced
<1>4. Regions(p)
    BY DEF Progress
<1>5. Bits(p)'
    <2>1. Reached(3, p)' /\ bitmap_at <= p /\ p < backup_at => Reached(3, p)
        BY <1>1, <1>3, SpansArePlaced DEF Reached, Span
    <2> QED
        BY <1>2, <1>4, <2>1 DEF Regions, Bits
<1>6. BackupBits(p)'
    <2>1. Reached(4, p)' /\ backup_at <= p /\ p < table_at => Reached(4, p)
        BY <1>1, <1>3, SpansArePlaced DEF Reached, Span
    <2> QED
        BY <1>2, <1>4, <2>1 DEF Regions, BackupBits
<1>7. Ring(p)'
    <2>1. Reached(5, p)' /\ ring_at <= p /\ p < ring_at + over => Reached(5, p)
        BY <1>1, <1>3, SpansArePlaced DEF Reached, Span
    <2> QED
        BY <1>2, <1>4, <2>1 DEF Regions, Ring
<1>8. Root(p)'
    <2>1. Reached(6, p)' /\ root_at <= p /\ p < root_at + over => Reached(6, p)
        BY <1>1, <1>3, SpansArePlaced DEF Reached, Span
    <2>2. p = root_at => (Reached(7, p)' <=> Reached(7, p))
        BY <1>1, <1>3, SpansArePlaced DEF Reached, Span
    <2> QED
        BY <1>2, <1>4, <2>1, <2>2 DEF Regions, Root
<1>9. RootAttr(p)'
    <2>1. Reached(8, p)' /\ p = table_at => Reached(8, p)
        BY <1>1, <1>3, SpansArePlaced DEF Reached, Span
    <2> QED
        BY <1>2, <1>4, <2>1 DEF Regions, RootAttr
<1> QED
    BY <1>5, <1>6, <1>7, <1>8, <1>9 DEF Regions

\* Nothing but write moves on the device.
LEMMA RegionsIdle ==
    ASSUME Progress, UNCHANGED <<sectors, over, info, span, sector, disk>>,
           pc' # "failed" \/ pc = "failed"
    PROVE  Progress'
<1>1. /\ blocks' = blocks /\ (Sensible' <=> Sensible) /\ (Laid' <=> Laid) /\ Sector' = Sector
    BY DEF Sensible, blocks, Laid, Sector
<1>2. /\ bitmap_at' = bitmap_at /\ backup_at' = backup_at /\ table_at' = table_at
      /\ root_at' = root_at /\ ring_at' = ring_at
    BY DEF bitmap_at, backup_at, table_at, root_at, ring_at
<1>3. Spans' = Spans
    BY <1>1 DEF Spans, Cleared, FirstBit, Single, Span, Wrap
<1>4. Placed'
    BY <1>1, <1>3 DEF Progress, Placed
<1>5. Heads'
    BY <1>1 DEF Progress, Heads, Reached
<1>6. \A s : Regions(s)' <=> Regions(s)
    BY <1>2 DEF Regions, Bits, BackupBits, Ring, Root, RootAttr, Reached
<1>7. FailsForLargeBlocksOnly'
    BY <1>1 DEF Progress, FailsForLargeBlocksOnly
<1> QED
    BY <1>1, <1>4, <1>5, <1>6, <1>7 DEF Progress

LEMMA ProgressNext == IInv /\ Progress /\ [Next]_vars => Progress'
<1>1. SUFFICES ASSUME IInv, Progress, [Next]_vars PROVE Progress'
    OBVIOUS
<1>2. /\ sectors \in Sectors /\ sectors \in Nat /\ over \in Nat /\ span \in 1 .. 10 /\ sector \in Nat
      /\ disk \in [Sector -> Content]
    BY <1>1, MkfsAssumption DEF IInv, TypeOK
<1>3. CASE check \/ solveC \/ one_less \/ kill \/ UNCHANGED vars
    <2>1. UNCHANGED <<sectors, over, info, span, sector, disk>> /\ (pc' # "failed" \/ pc = "failed")
        BY <1>3 DEF check, solveC, one_less, kill, search, vars
    <2> QED
        BY <1>1, <2>1, RegionsIdle
<1>4. CASE make_head
    <2>1. /\ pc = "search" /\ pc' = "write" /\ info' = Layout(lo)
          /\ UNCHANGED <<sectors, over, span, sector, disk>>
        BY <1>4 DEF make_head
    <2>2. ~Laid /\ span = 1 /\ sector = 0
        BY <1>1, <2>1 DEF IInv, Searching, Laid, Progress, Placed
    <2>3. Spans[1]'.from = 0
        <3>1. Spans[1]' = Span(0 * over, 1 * over, "zero", "zero") /\ 0 * over = 0
            BY <1>2, <2>1 DEF Spans, Cleared
        <3> QED
            BY <3>1 DEF Span
    <2>4. Placed'
        BY <1>2, <2>1, <2>2, <2>3 DEF Placed
    <2>5. Sector' = Sector /\ Heads'
        BY <1>1, <2>1 DEF Progress, Heads, Reached, Sector
    <2>6. \A p : Regions(p)'
        BY <2>1, <2>2 DEF Regions, Bits, BackupBits, Ring, Root, RootAttr, Reached
    <2>7. FailsForLargeBlocksOnly'
        BY <2>1 DEF FailsForLargeBlocksOnly
    <2> QED
        BY <2>4, <2>5, <2>6, <2>7 DEF Progress
<1>5. CASE write
    <2> DEFINE s == Spans[span]
    <2>1. pc = "write" /\ UNCHANGED <<sectors, over, info>>
        BY <1>5 DEF write
    <2>2. Laid
        BY <1>1, <2>1, LayoutIsRecord DEF IInv, Settled, Laid
    <2>3. /\ Sector' = Sector /\ Spans' = Spans /\ Laid' /\ (Sensible' <=> Sensible)
          /\ blocks' = blocks
        BY <1>1, <2>1, <2>2, PositionsStay, Frame
    <2>4. /\ s.from <= sector /\ (sector <= sectors \/ sector = s.from)
          /\ span > 3 => Sensible
        BY <1>1, <2>2 DEF Progress, Placed
    <2>5. Len(Spans) = 10
        BY <1>1, <2>2, SpansArePlaced
    <2>6. /\ s.from \in Nat
          /\ span < 10 => Spans[span + 1].from \in Nat
        <3>1. sectors \in Sectors /\ over \in Nat \ {0} /\ lo \in Nat /\ info = Layout(lo)
            BY <1>1, <1>2, <2>2 DEF IInv, TypeOK, Settled, Suitable
        <3> QED
            BY <1>2, <3>1, SpansAreTyped
    <2>7. CASE /\ sector < s.to /\ sector < sectors
               /\ disk' = [disk EXCEPT ![sector] = IF sector = s.from THEN s.first ELSE s.rest]
               /\ sector' = sector + 1
               /\ UNCHANGED <<pc, span>>
        <3>1. sector \in Sector
            BY <1>2, <2>7 DEF Sector
        <3>2. /\ disk'[sector] = IF sector = s.from THEN s.first ELSE s.rest
              /\ \A p \in Sector : p # sector => disk'[p] = disk[p]
            BY <1>2, <2>7, <3>1
        <3>3. \A p \in Sector : Regions(p)'
            <4>1. TAKE p \in Sector
            <4>2. p \in Nat
                BY <1>2 DEF Sector
            <4>3. CASE p = sector
                BY <1>1, <2>1, <2>2, <2>7, <3>2, <4>2, <4>3, WrittenSector
            <4>4. CASE p # sector
                BY <1>1, <2>1, <2>2, <2>7, <3>2, <4>4, OtherSector
            <4> QED
                BY <4>3, <4>4
        <3>4. Placed'
            <4>1. s.from <= sector' /\ sector' <= sectors'
                BY <1>2, <2>1, <2>4, <2>6, <2>7
            <4>2. Spans'[span'] = s
                BY <2>3, <2>7
            <4>3. span' > 3 => Sensible'
                BY <2>3, <2>4, <2>7
            <4> QED
                BY <2>3, <4>1, <4>2, <4>3 DEF Placed
        <3>5. /\ disk'[sector] # "old_head"
              /\ disk'[sector] = "head" => span \in {9, 10}
            <4>1. \/ span = 1 \/ span = 2 \/ span = 3 \/ span = 4 \/ span = 5
                  \/ span = 6 \/ span = 7 \/ span = 8 \/ span = 9 \/ span = 10
                BY <1>2
            <4>2. /\ s.first # "old_head" /\ s.rest # "old_head"
                  /\ s.first = "head" \/ s.rest = "head" => span \in {9, 10}
                BY <1>1, <1>2, <2>2, <2>7, <4>1, SpansArePlaced DEF Span
            <4> QED
                BY <3>2, <4>2
        <3>6. Heads'
            <4>1. sectors > 0 => 0 \in Sector
                BY <1>2 DEF Sector
            <4>2. sectors > 0 => disk'[0] # "old_head"
                BY <1>1, <1>2, <3>2, <3>5, <4>1 DEF Progress, Heads
            <4>3. sectors > 0 /\ disk'[0] = "head" => Reached(9, 0)'
                BY <1>1, <1>2, <2>7, <3>2, <3>5, <4>1 DEF Progress, Heads, Reached
            <4> QED
                BY <1>2, <2>1, <2>7, <4>2, <4>3 DEF Heads
        <3>7. FailsForLargeBlocksOnly'
            BY <2>1, <2>7 DEF FailsForLargeBlocksOnly
        <3> QED
            BY <2>3, <3>3, <3>4, <3>6, <3>7 DEF Progress
    <2>8. CASE /\ sector < s.to /\ sector >= sectors
               /\ pc' = "failed"
               /\ UNCHANGED <<span, sector, disk>>
        <3>1. sectors < s.to /\ s.to \in Int
            <4>1. \/ span = 1 \/ span = 2 \/ span = 3 \/ span = 4 \/ span = 5
                  \/ span = 6 \/ span = 7 \/ span = 8 \/ span = 9 \/ span = 10
                BY <1>2
            <4>2. s.to \in Int \/ (span = 10 /\ sectors = 0)
                BY <1>1, <1>2, <2>2, <4>1, SpansArePlaced, PositionsArePlaced DEF Span
            <4>3. span = 10 => sectors # 0
                BY <1>1, <2>2, <2>4, PositionsArePlaced
            <4> QED
                BY <1>2, <2>8, <4>2, <4>3
        <3>2. Sensible => over > blocks - info.journal
            BY <1>1, <1>2, <2>2, <3>1, SpansFit
        <3>3. FailsForLargeBlocksOnly'
            BY <2>1, <2>3, <3>2 DEF FailsForLargeBlocksOnly
        <3>4. Placed'
            BY <1>1, <2>1, <2>2, <2>3, <2>4, <2>8 DEF Placed
        <3>5. Heads'
            BY <1>1, <2>1, <2>3, <2>8 DEF Progress, Heads, Reached
        <3>6. \A p \in Sector : Regions(p)'
            BY <1>1, <2>1, <2>2, <2>8, PositionsStay
               DEF Progress, Regions, Bits, BackupBits, Ring, Root, RootAttr, Reached
        <3> QED
            BY <2>3, <3>3, <3>4, <3>5, <3>6 DEF Progress
    <2>9. CASE /\ sector >= s.to /\ span < Len(Spans)
               /\ span' = span + 1
               /\ sector' = Spans[span + 1].from
               /\ UNCHANGED <<pc, disk>>
        <3>1. \A p \in Sector : Regions(p)'
            BY <1>1, <2>1, <2>2, <2>5, <2>9, NextSpan
        <3>2. span + 1 > 3 => Sensible
            <4>1. SUFFICES ASSUME span = 3 PROVE Sensible
                BY <1>2, <2>4
            <4>2. s.from = over /\ s.to \in Nat /\ s.to >= 2 * over /\ over \in Nat \ {0}
                BY <1>1, <2>2, <4>1, SpansArePlaced, PositionsArePlaced DEF Span
            <4>3. 2 * over <= sectors
                BY <1>2, <2>4, <2>9, <4>2
            <4> QED
                BY <1>1, <2>2, <4>3, PositionsArePlaced
        <3>3. Placed'
            <4>1. Spans[span + 1].from <= sector' /\ sector' = Spans[span + 1].from
                BY <1>2, <2>5, <2>6, <2>9
            <4>2. Spans'[span'] = Spans[span + 1]
                BY <2>3, <2>9
            <4>3. span' > 3 => Sensible'
                BY <2>3, <2>9, <3>2
            <4> QED
                BY <2>3, <4>1, <4>2, <4>3 DEF Placed
        <3>4. sector > 0 \/ span > 1
            <4>1. span = 1 => s.to = over /\ over \in Nat \ {0}
                BY <1>1, <2>2, SpansArePlaced, PositionsArePlaced DEF Span
            <4> QED
                BY <1>2, <2>9, <4>1
        <3>5. Heads'
            <4>1. sectors > 0 => disk[0] # "old_head" /\ (disk[0] = "head" => Reached(9, 0))
                BY <1>1, <1>2, <3>4 DEF Progress, Heads
            <4> QED
                BY <1>2, <2>1, <2>9, <4>1 DEF Heads, Reached
        <3>6. FailsForLargeBlocksOnly'
            BY <2>1, <2>9 DEF FailsForLargeBlocksOnly
        <3> QED
            BY <2>3, <3>1, <3>3, <3>5, <3>6 DEF Progress
    <2>10. CASE pc' = "done" /\ UNCHANGED <<span, sector, disk>>
        BY <1>1, <2>1, <2>10, RegionsIdle
    <2> QED
        BY <1>5, <2>7, <2>8, <2>9, <2>10 DEF write
<1> QED
    BY <1>1, <1>3, <1>4, <1>5 DEF Next, Step

LEMMA ProgressHolds == Spec => []Progress
<1>1. Init => Progress
    BY ProgressInit
<1>2. IInv /\ Progress /\ [Next]_vars => Progress'
    BY ProgressNext
<1> QED
    BY <1>1, <1>2, IInvHolds, PTL DEF Spec
------------------------------------------------------------------------------
\* Wherever mkfs is killed or fails, on every device: while the head of the old
\* volume is there the rest of it is, too, and once the head of the new volume is
\* there the bitmaps, the root, its attributes and the ring are as a mount needs
\* them (clear_entries and the writes of main).
THEOREM MkfsAllOrNothing == Spec => []AllOrNothing
<1>1. IInv /\ Progress => AllOrNothing
    <2>1. SUFFICES ASSUME IInv, Progress, sectors > 0
                   PROVE  /\ disk[0] = "old_head" => \A s \in Sector \ {0} : disk[s] = "old"
                          /\ disk[0] = "head" => Initialised
        BY DEF AllOrNothing
    <2>2. disk[0] = "old_head" => \A s \in Sector \ {0} : disk[s] = "old"
        BY <2>1 DEF Progress, Heads
    <2>3. ASSUME disk[0] = "head" PROVE Initialised
        <3>1. span \in 1 .. 10 /\ sectors \in Nat /\ sector \in Nat
            BY <2>1, MkfsAssumption DEF IInv, TypeOK
        <3>2. Reached(9, 0)
            BY <2>1, <2>3 DEF Progress, Heads
        <3>3. Laid /\ Sensible
            BY <2>1, <3>1, <3>2 DEF Reached, Progress, Placed
        <3>4. \A i \in 3 .. 8 : \A s \in Sector : Reached(i, s)
            BY <3>1, <3>2 DEF Reached
        <3>5. \A s \in Sector : Regions(s)
            BY <2>1, <3>3 DEF Progress
        <3>6. /\ bitmap_at \in Nat /\ backup_at \in Nat /\ table_at \in Nat /\ root_at \in Nat /\ ring_at \in Nat
              /\ over \in Nat \ {0}
              /\ bitmap_at + over <= backup_at
              /\ backup_at + over <= table_at /\ table_at + over <= root_at /\ root_at + over <= ring_at
              /\ (info.data_table + 1) * over = root_at + over
              /\ (info.journal + 1) * over = ring_at + over
              /\ ring_at + 2 * over <= sectors
            BY <2>1, <3>3, PositionsArePlaced
        <3>7. ASSUME NEW s \in Sector, In(s, info.data_bitmap, info.data_block_attribute_table)
              PROVE  disk[s] = IF s \in {info.data_bitmap * over, info.data_bitmap_backup * over}
                               THEN "bit" ELSE "zero"
            <4>1. s \in Int /\ bitmap_at <= s /\ s < table_at
                BY <3>1, <3>7 DEF In, bitmap_at, table_at, Sector
            <4>2. Bits(s) /\ BackupBits(s) /\ Reached(3, s) /\ Reached(4, s)
                BY <3>4, <3>5 DEF Regions
            <4>3. disk[s] = IF s \in {bitmap_at, backup_at} THEN "bit" ELSE "zero"
                BY <3>6, <4>1, <4>2 DEF Bits, BackupBits
            <4> QED
                BY <4>3 DEF bitmap_at, backup_at
        <3>8. ASSUME NEW s \in Sector, In(s, info.journal, info.journal + 1)
              PROVE  disk[s] = "zero"
            <4>1. ring_at <= s /\ s < ring_at + over
                BY <3>6, <3>8 DEF In, ring_at
            <4> QED
                BY <3>4, <3>5, <4>1 DEF Regions, Ring
        <3>9. ASSUME NEW s \in Sector, In(s, info.data_table, info.data_table + 1)
              PROVE  disk[s] = IF s = info.data_table * over THEN "root" ELSE "zero"
            <4>1. root_at <= s /\ s < root_at + over
                BY <3>6, <3>9 DEF In, root_at
            <4>2. disk[s] = IF s = root_at THEN "root" ELSE "zero"
                BY <3>4, <3>5, <4>1 DEF Regions, Root
            <4> QED
                BY <4>2 DEF root_at
        <3>10. disk[info.data_block_attribute_table * over] = "attr"
            <4>1. table_at \in Sector
                BY <3>1, <3>6 DEF Sector
            <4>2. disk[table_at] = "attr"
                BY <3>4, <3>5, <4>1 DEF Regions, RootAttr
            <4> QED
                BY <4>2 DEF table_at
        <3> QED
            BY <3>7, <3>8, <3>9, <3>10 DEF Initialised
    <2> QED
        BY <2>1, <2>2, <2>3
<1> QED
    BY <1>1, IInvHolds, ProgressHolds, PTL

\* On every device of two blocks or more a write of mkfs fails only when a block
\* has more sectors than there are blocks from the journal on: every other span
\* lies on the device (clear_entries, basic_io_t::write).
THEOREM MkfsFailsForLargeBlocksOnly == Spec => []FailsForLargeBlocksOnly
<1>1. Progress => FailsForLargeBlocksOnly
    BY DEF Progress
<1> QED
    BY <1>1, ProgressHolds, PTL
===============================================================================

----------------------------- MODULE Inode_proofs -----------------------------
(***************************************************************************)
(* The files of a volume of any size, with pointer blocks of any fanout.   *)
(***************************************************************************)
EXTENDS Inode, FiniteSetTheorems, SequenceTheorems, WellFoundedInduction, TLAPS

PointerBlock == [ptr : Seq(Nat)]
InodeBlock == [size : 0 .. MaxSize, ptr : Seq(Nat)]

\* The blocks of list point to those of points, filled from the first on.
Spelled(v, list, points) ==
    /\ list \in Seq(Nat) /\ points \in Seq(Nat)
    /\ Len(list) = CeilDiv(Len(points), Fanout)
    /\ \A i \in 1 .. Len(list) : /\ list[i] \in DOMAIN v /\ v[list[i]] \in PointerBlock
                                 /\ v[list[i]].ptr = Chunk(points, i)

\* No block is twice in a tree.
Distinct(n, l1, l2, l3) ==
    /\ IsInjective(l1) /\ IsInjective(l2) /\ IsInjective(l3)
    /\ n \notin Range(l1) \cup Range(l2) \cup Range(l3)
    /\ Range(l1) \cap Range(l2) = {} /\ Range(l1) \cap Range(l3) = {}
    /\ Range(l2) \cap Range(l3) = {}

\* The inode n has these lists.
Holds(v, n, l1, l2, l3) ==
    /\ n \in DOMAIN v /\ v[n] \in InodeBlock
    /\ v[n].ptr = l1 /\ v[n].size = Len(l3)
    /\ Spelled(v, l1, l2) /\ Spelled(v, l2, l3)
    /\ \A b \in Range(l3) : b \in DOMAIN v /\ v[b] \in Content \cup {Zero}
    /\ Distinct(n, l1, l2, l3)

IsTree(v, n) == Holds(v, n, Level1(v, n), Level2(v, n), Level3(v, n))
Blocks(v, n) == {n} \cup Range(Level1(v, n)) \cup Range(Level2(v, n)) \cup Range(Level3(v, n))

\* What a frozen block points to is frozen.
FrozenBelow(v, fr, n) ==
    /\ n \in fr => Range(v[n].ptr) \subseteq fr
    /\ \A b \in Range(Level1(v, n)) \cup Range(Level2(v, n)) :
          b \in fr => Range(v[b].ptr) \subseteq fr

\* No two names have one inode.
OneName(names) == \A f, g \in File : names[f] = names[g] /\ names[f] # NoInode => f = g

FilesOK(v, fr, names) ==
    /\ \A n \in Nodes(names) : IsTree(v, n) /\ FrozenBelow(v, fr, n)
    /\ \A n, m \in Nodes(names) : n # m => Blocks(v, n) \cap Blocks(v, m) \subseteq fr

ShotOK(v, fr, names) == \A n \in Nodes(names) : IsTree(v, n) /\ Blocks(v, n) \subseteq fr

OfFiles(v, names) == UNION {Blocks(v, n) : n \in Nodes(names)}
OfShots(v, shots) == UNION {OfFiles(v, shots[s].node) : s \in DOMAIN shots}

Names == [File -> Block \cup {NoInode}]

IInv ==
    /\ TypeOK
    /\ OneName(node)
    /\ snaps \in Seq([node : Names, sound : BOOLEAN])
    /\ \A s \in DOMAIN snaps : OneName(snaps[s].node)
    /\ sound => FilesOK(vol, frozen, node)
    /\ \A s \in DOMAIN snaps : snaps[s].sound => ShotOK(vol, frozen, snaps[s].node)
    /\ ~leaky => /\ sound /\ \A s \in DOMAIN snaps : snaps[s].sound
                 /\ frozen = OfShots(vol, snaps)
                 /\ Live = OfFiles(vol, node) \cup frozen

------------------------------------------------------------------------------
(***************************************************************************)
(* Positions: which pointer block, and which place in it, a position of a  *)
(* list has.                                                               *)
(***************************************************************************)
Quot(i) == (i - 1) \div Fanout + 1
Rem(i) == ((i - 1) % Fanout) + 1

LEMMA FanoutIsNat == Fanout \in Nat /\ Fanout > 0
BY InodeAssumption

LEMMA Division ==
  ASSUME NEW a \in Int, NEW m \in Nat \ {0}
  PROVE  /\ a \div m \in Int
         /\ a % m \in 0 .. m - 1
         /\ a = m * (a \div m) + (a % m)
OBVIOUS

LEMMA Cancel ==
  ASSUME NEW m \in Nat \ {0}, NEW x \in Int, NEW y \in Int, m * x < m * y
  PROVE  x < y
<1>1. SUFFICES ASSUME y <= x PROVE FALSE
  OBVIOUS
<1>2. PICK d \in Nat : x = y + d
  BY <1>1, x - y \in Nat, x = y + (x - y)
<1>3. m * d >= 0
  OBVIOUS
<1>4. m * x = m * y + m * d
  BY <1>2
<1> QED  BY <1>3, <1>4

LEMMA RowsGrow ==
  ASSUME NEW m \in Nat \ {0}, NEW x \in Int, NEW y \in Int, x < y
  PROVE  x * m + m <= y * m
<1>1. PICK d \in Nat : y = x + 1 + d
  BY y - x - 1 \in Nat, y = x + 1 + (y - x - 1)
<1>2. y * m = x * m + m + d * m /\ d * m >= 0
  BY <1>1
<1> QED  BY <1>2

LEMMA PositionFacts ==
  ASSUME NEW i \in Nat \ {0}
  PROVE  /\ Quot(i) \in Nat \ {0} /\ Rem(i) \in 1 .. Fanout
         /\ i = (Quot(i) - 1) * Fanout + Rem(i)
<1>1. Fanout \in Nat \ {0}
  BY FanoutIsNat
<1> DEFINE a == (i - 1) \div Fanout
           b == (i - 1) % Fanout
<1>2. a \in Int /\ b \in 0 .. Fanout - 1 /\ i - 1 = Fanout * a + b
  <2>1. i - 1 \in Int
    OBVIOUS
  <2> QED  BY ONLY <1>1, <2>1, Division, Zenon
<1>3. Quot(i) = a + 1 /\ Rem(i) = b + 1
  BY DEF Quot, Rem
<1> HIDE DEF a, b
<1>4. Fanout * (0 - 1) < Fanout * a
  BY <1>1, <1>2
<1>5. a >= 0
  BY <1>1, <1>2, <1>4, Cancel
<1>6. (Quot(i) - 1) * Fanout = Fanout * a
  BY <1>1, <1>2, <1>3
<1> QED  BY <1>1, <1>2, <1>3, <1>5, <1>6

LEMMA PositionUnique ==
  ASSUME NEW q \in Nat \ {0}, NEW r \in 1 .. Fanout, NEW i \in Nat \ {0},
         i = (q - 1) * Fanout + r
  PROVE  Quot(i) = q /\ Rem(i) = r
<1>1. Fanout \in Nat \ {0}
  BY FanoutIsNat
<1>2. /\ Quot(i) \in Nat \ {0} /\ Rem(i) \in 1 .. Fanout
      /\ i = (Quot(i) - 1) * Fanout + Rem(i)
  BY PositionFacts
<1>3. ASSUME NEW x \in Nat \ {0}, NEW y \in Nat \ {0}, NEW s \in 1 .. Fanout, NEW t \in 1 .. Fanout,
             (x - 1) * Fanout + s = (y - 1) * Fanout + t, x < y
      PROVE  FALSE
  <2>1. (x - 1) * Fanout + Fanout <= (y - 1) * Fanout
    BY <1>1, <1>3, RowsGrow
  <2>2. (x - 1) * Fanout \in Int /\ (y - 1) * Fanout \in Int
    BY <1>1
  <2> QED  BY <1>1, <1>3, <2>1, <2>2
<1>4. Quot(i) = q
  BY <1>2, <1>3
<1> QED  BY <1>1, <1>2, <1>4

LEMMA CeilDivFacts ==
  ASSUME NEW len \in Nat
  PROVE  /\ CeilDiv(len, Fanout) \in Nat
         /\ len <= CeilDiv(len, Fanout) * Fanout
         /\ len > 0 => CeilDiv(len, Fanout) > 0 /\ (CeilDiv(len, Fanout) - 1) * Fanout < len
         /\ len = 0 => CeilDiv(len, Fanout) = 0
<1>1. Fanout \in Nat \ {0}
  BY FanoutIsNat
<1> DEFINE k == (len + Fanout - 1) \div Fanout
           b == (len + Fanout - 1) % Fanout
<1>2. k \in Int /\ b \in 0 .. Fanout - 1 /\ len + Fanout - 1 = Fanout * k + b
  <2>1. len + Fanout - 1 \in Int
    BY <1>1
  <2> QED  BY ONLY <1>1, <2>1, Division, Zenon
<1>3. CeilDiv(len, Fanout) = k
  BY DEF CeilDiv
<1> HIDE DEF k, b
<1>4. Fanout * k = k * Fanout /\ (k - 1) * Fanout = k * Fanout - Fanout /\ k * Fanout \in Int
  BY <1>1, <1>2
<1>5. Fanout * (0 - 1) < Fanout * k
  BY <1>1, <1>2, <1>4
<1>6. k \in Nat
  BY <1>1, <1>2, <1>5, Cancel
<1>7. ASSUME len > 0 PROVE k > 0
  <2>1. Fanout * 0 < Fanout * k
    BY <1>1, <1>2, <1>7
  <2> QED  BY <1>1, <1>2, <2>1, Cancel
<1>8. ASSUME len = 0 PROVE k = 0
  <2>1. Fanout * k < Fanout * 1
    BY <1>1, <1>2, <1>8
  <2> QED  BY <1>1, <1>2, <1>6, <2>1, Cancel
<1> QED  BY <1>1, <1>2, <1>3, <1>4, <1>6, <1>7, <1>8

\* Any number of rows that is neither too large nor too small is CeilDiv.
LEMMA RowOf ==
  ASSUME NEW len \in Nat, NEW i \in 1 .. len
  PROVE  Quot(i) \in 1 .. CeilDiv(len, Fanout)
<1>1. Fanout \in Nat \ {0}
  BY FanoutIsNat
<1>2. /\ Quot(i) \in Nat \ {0} /\ Rem(i) \in 1 .. Fanout
      /\ i = (Quot(i) - 1) * Fanout + Rem(i)
  BY PositionFacts
<1> DEFINE k == CeilDiv(len, Fanout)
<1>3. k \in Nat /\ len <= k * Fanout
  BY CeilDivFacts
<1> HIDE DEF k
<1>4. (Quot(i) - 1) * Fanout < k * Fanout
  BY <1>1, <1>2, <1>3
<1>5. Quot(i) - 1 < k
  BY <1>1, <1>2, <1>3, <1>4, Cancel
<1> QED  BY <1>2, <1>3, <1>5 DEF k

------------------------------------------------------------------------------
LEMMA ChunkFacts ==
  ASSUME NEW S, NEW s \in Seq(S), NEW q \in 1 .. CeilDiv(Len(s), Fanout)
  PROVE  /\ Chunk(s, q) \in Seq(S)
         /\ Len(Chunk(s, q)) = IF q < CeilDiv(Len(s), Fanout) THEN Fanout
                               ELSE Len(s) - (q - 1) * Fanout
         /\ Len(Chunk(s, q)) \in 1 .. Fanout
         /\ \A r \in 1 .. Len(Chunk(s, q)) :
               /\ (q - 1) * Fanout + r \in 1 .. Len(s)
               /\ Chunk(s, q)[r] = s[(q - 1) * Fanout + r]
<1> DEFINE len == Len(s)
           k == CeilDiv(len, Fanout)
           m == (q - 1) * Fanout
           to == IF q * Fanout < len THEN q * Fanout ELSE len
<1>1. Fanout \in Nat \ {0} /\ len \in Nat /\ s \in [1 .. len -> S]
  BY FanoutIsNat, LenProperties
<1>2. /\ k \in Nat /\ len <= k * Fanout
      /\ len > 0 => (k - 1) * Fanout < len
      /\ len = 0 => k = 0
  <2> HIDE DEF len
  <2> QED  BY <1>1, CeilDivFacts
<1>3. q \in 1 .. k /\ len > 0
  BY <1>1, <1>2
<1>4. Chunk(s, q) = SubSeq(s, m + 1, to)
  BY DEF Chunk
<1>5. q * Fanout = m + Fanout /\ m \in Nat
  <2>1. q - 1 \in Nat
    BY <1>3
  <2> QED  BY <1>1, <1>3, <2>1
<1>6. q < k => q * Fanout < len
  <2>1. SUFFICES ASSUME q < k PROVE q * Fanout < len
    OBVIOUS
  <2>2. q * Fanout <= (k - 1) * Fanout
    <3>1. CASE q = k - 1
      BY <1>1, <3>1
    <3>2. CASE q < k - 1
      BY <1>1, <1>2, <1>3, <3>2, RowsGrow
    <3> QED  BY <1>2, <1>3, <2>1, <3>1, <3>2
  <2>3. q * Fanout \in Int /\ (k - 1) * Fanout \in Int
    BY <1>1, <1>2, <1>3
  <2> QED  BY <1>1, <1>2, <1>3, <2>2, <2>3
<1>7. q = k => m < len /\ ~(q * Fanout < len) /\ len <= m + Fanout
  BY <1>1, <1>2, <1>3, <1>5
<1> HIDE DEF len, k, m
<1>8. to \in m + 1 .. len /\ to - m = IF q < k THEN Fanout ELSE len - m
  BY <1>1, <1>2, <1>3, <1>5, <1>6, <1>7
<1>9. to - m <= Fanout
  BY <1>1, <1>2, <1>3, <1>5, <1>6, <1>7
<1> HIDE DEF to
<1>10. \A i \in m + 1 .. to : s[i] \in S
  BY <1>1, <1>5, <1>8
<1>11. /\ Chunk(s, q) \in Seq(S)
       /\ Len(Chunk(s, q)) = to - m
       /\ \A r \in 1 .. to - m : Chunk(s, q)[r] = s[m + r]
  <2>1. m + 1 \in Int /\ to \in Int
    BY <1>5, <1>8, <1>1
  <2>2. /\ SubSeq(s, m + 1, to) \in Seq(S)
        /\ Len(SubSeq(s, m + 1, to)) = IF m + 1 <= to THEN to - (m + 1) + 1 ELSE 0
        /\ \A r \in 1 .. to - (m + 1) + 1 : SubSeq(s, m + 1, to)[r] = s[m + 1 + r - 1]
    BY <2>1, <1>10, SubSeqProperties
  <2>3. to - (m + 1) + 1 = to - m /\ m + 1 <= to
    BY <1>1, <1>5, <1>8
  <2>4. \A r \in 1 .. to - m : m + 1 + r - 1 = m + r
    BY <1>5
  <2> QED  BY <1>4, <2>2, <2>3, <2>4
<1>12. \A r \in 1 .. to - m : m + r \in 1 .. len
  BY <1>1, <1>5, <1>8
<1>13. to - m \in 1 .. Fanout
  BY <1>1, <1>5, <1>8, <1>9
<1> QED  BY <1>8, <1>11, <1>12, <1>13 DEF len, k, m

\* The entry of a pointer block that a position of the list stands for.
LEMMA PlaceFacts ==
  ASSUME NEW S, NEW s \in Seq(S), NEW i \in 1 .. Len(s)
  PROVE  /\ Quot(i) \in 1 .. CeilDiv(Len(s), Fanout)
         /\ Rem(i) \in 1 .. Len(Chunk(s, Quot(i)))
         /\ Chunk(s, Quot(i))[Rem(i)] = s[i]
<1>1. Fanout \in Nat \ {0} /\ Len(s) \in Nat
  BY FanoutIsNat, LenProperties
<1>2. /\ Quot(i) \in Nat \ {0} /\ Rem(i) \in 1 .. Fanout
      /\ i = (Quot(i) - 1) * Fanout + Rem(i)
  <2>1. i \in Nat \ {0}
    BY <1>1
  <2> QED  BY <2>1, PositionFacts
<1>3. Quot(i) \in 1 .. CeilDiv(Len(s), Fanout)
  BY <1>1, RowOf
<1> DEFINE q == Quot(i)
           len == Len(s)
<1>4. /\ Len(Chunk(s, q)) = IF q < CeilDiv(len, Fanout) THEN Fanout ELSE len - (q - 1) * Fanout
      /\ Len(Chunk(s, q)) \in 1 .. Fanout
      /\ \A r \in 1 .. Len(Chunk(s, q)) : Chunk(s, q)[r] = s[(q - 1) * Fanout + r]
  BY <1>3, ChunkFacts
<1>5. Rem(i) \in 1 .. Len(Chunk(s, q))
  <2>1. (q - 1) * Fanout \in Int
    BY <1>1, <1>2
  <2> QED  BY <1>1, <1>2, <1>4, <2>1
<1> QED  BY <1>2, <1>3, <1>4, <1>5

------------------------------------------------------------------------------
(***************************************************************************)
(* The lists of a tree are the ones its pointers spell.                    *)
(***************************************************************************)
\* The end of the last chunk is the end of the list.
LEMMA LinearFacts ==
  ASSUME NEW v, NEW list, NEW points, Spelled(v, list, points)
  PROVE  Linear(v, list) = points
<1> DEFINE k == Len(list)
           len == Len(points)
<1>1. /\ list \in Seq(Nat) /\ points \in Seq(Nat) /\ k = CeilDiv(len, Fanout)
      /\ \A i \in 1 .. k : v[list[i]].ptr = Chunk(points, i)
  BY DEF Spelled
<1>2. Fanout \in Nat \ {0} /\ len \in Nat /\ k \in Nat
  BY <1>1, FanoutIsNat, LenProperties
<1>3. /\ len <= k * Fanout /\ (len > 0 => k > 0) /\ (len = 0 => k = 0)
  <2> HIDE DEF len
  <2> QED  BY <1>1, <1>2, CeilDivFacts
<1>4. (IF k = 0 THEN 0 ELSE (k - 1) * Fanout + Len(v[list[k]].ptr)) = len
  <2>1. CASE k = 0
    BY <1>2, <1>3, <2>1
  <2>2. CASE k > 0
    <3>1. k \in 1 .. CeilDiv(len, Fanout)
      BY <1>1, <1>2, <2>2
    <3>2. Len(Chunk(points, k)) = IF k < CeilDiv(len, Fanout) THEN Fanout ELSE len - (k - 1) * Fanout
      <4> HIDE DEF k
      <4> QED  BY <1>1, <3>1, ChunkFacts
    <3>3. Len(v[list[k]].ptr) = len - (k - 1) * Fanout
      BY <1>1, <1>2, <2>2, <3>2
    <3>4. (k - 1) * Fanout \in Int
      BY <1>2
    <3> HIDE DEF k, len
    <3> QED  BY <1>2, <2>2, <3>3, <3>4
  <2> HIDE DEF k, len
  <2>3. k = 0 \/ k > 0
    BY <1>2
  <2> QED  BY <2>1, <2>2, <2>3
<1>5. Linear(v, list) = [i \in 1 .. len |-> v[list[Quot(i)]].ptr[Rem(i)]]
  BY <1>4 DEF Linear, Quot, Rem
<1>6. ASSUME NEW i \in 1 .. len
      PROVE  v[list[Quot(i)]].ptr[Rem(i)] = points[i]
  <2>1. Quot(i) \in 1 .. k /\ Chunk(points, Quot(i))[Rem(i)] = points[i]
    BY <1>1, <1>6, PlaceFacts
  <2> QED  BY <1>1, <2>1
<1>7. points = [i \in 1 .. len |-> points[i]]
  BY <1>1, LenProperties
<1> HIDE DEF len
<1> QED  BY <1>5, <1>6, <1>7

LEMMA Determined ==
  ASSUME NEW v, NEW n, NEW l1, NEW l2, NEW l3, Holds(v, n, l1, l2, l3)
  PROVE  /\ Level1(v, n) = l1 /\ Level2(v, n) = l2 /\ Level3(v, n) = l3
         /\ IsTree(v, n)
         /\ Blocks(v, n) = {n} \cup Range(l1) \cup Range(l2) \cup Range(l3)
<1>1. Level1(v, n) = l1 /\ Level2(v, n) = l2 /\ Level3(v, n) = l3
  BY LinearFacts DEF Holds, Level1, Level2, Level3
<1> QED  BY <1>1 DEF IsTree, Blocks

\* A tree is where its pointers are, its storage blocks hold what they hold.
LEMMA Kept ==
  ASSUME NEW v, NEW w, NEW fr, NEW n, IsTree(v, n),
         \A b \in {n} \cup Range(Level1(v, n)) \cup Range(Level2(v, n)) : b \in DOMAIN w /\ w[b] = v[b],
         \A b \in Range(Level3(v, n)) : b \in DOMAIN w /\ w[b] \in Content \cup {Zero}
  PROVE  /\ IsTree(w, n)
         /\ Level1(w, n) = Level1(v, n) /\ Level2(w, n) = Level2(v, n) /\ Level3(w, n) = Level3(v, n)
         /\ Blocks(w, n) = Blocks(v, n)
         /\ FrozenBelow(v, fr, n) => FrozenBelow(w, fr, n)
<1> DEFINE l1 == Level1(v, n)
           l2 == Level2(v, n)
           l3 == Level3(v, n)
<1>1. Holds(v, n, l1, l2, l3)
  BY DEF IsTree
<1>2. ASSUME NEW list, NEW points, Spelled(v, list, points),
             \A b \in Range(list) : b \in DOMAIN w /\ w[b] = v[b]
      PROVE  Spelled(w, list, points)
  <2>1. \A i \in 1 .. Len(list) : list[i] \in Range(list)
    BY <1>2, LenProperties DEF Spelled, Range
  <2> QED  BY <1>2, <2>1 DEF Spelled
<1>3. Spelled(w, l1, l2) /\ Spelled(w, l2, l3)
  BY <1>1, <1>2 DEF Holds
<1> HIDE DEF l1, l2, l3
<1>4. Holds(w, n, l1, l2, l3)
  BY <1>1, <1>3 DEF Holds, l1, l2, l3
<1>5. /\ Level1(w, n) = l1 /\ Level2(w, n) = l2 /\ Level3(w, n) = l3 /\ IsTree(w, n)
      /\ Blocks(w, n) = {n} \cup Range(l1) \cup Range(l2) \cup Range(l3)
  BY <1>4, Determined
<1>6. Blocks(w, n) = Blocks(v, n)
  BY <1>5 DEF Blocks, l1, l2, l3
<1>7. FrozenBelow(v, fr, n) => FrozenBelow(w, fr, n)
  BY <1>5 DEF FrozenBelow, l1, l2, l3
<1> QED  BY <1>5, <1>6, <1>7 DEF l1, l2, l3

\* A tree that another volume has unchanged.
LEMMA Same ==
  ASSUME NEW v, NEW w, NEW fr, NEW n, IsTree(v, n), \A b \in Blocks(v, n) : b \in DOMAIN w /\ w[b] = v[b]
  PROVE  /\ IsTree(w, n)
         /\ Level1(w, n) = Level1(v, n) /\ Level2(w, n) = Level2(v, n) /\ Level3(w, n) = Level3(v, n)
         /\ Blocks(w, n) = Blocks(v, n)
         /\ FrozenBelow(v, fr, n) => FrozenBelow(w, fr, n)
<1>1. \A b \in Range(Level3(v, n)) : w[b] \in Content \cup {Zero} /\ b \in DOMAIN w
  BY DEF Blocks, IsTree, Holds
<1>2. \A b \in {n} \cup Range(Level1(v, n)) \cup Range(Level2(v, n)) : b \in DOMAIN w /\ w[b] = v[b]
  BY DEF Blocks
<1> QED  BY <1>1, <1>2, Kept

\* Every block of a tree is live; below a frozen inode every block is frozen.
LEMMA TreeFacts ==
  ASSUME NEW v, NEW n, IsTree(v, n)
  PROVE  /\ Blocks(v, n) \subseteq DOMAIN v /\ n \in Blocks(v, n)
         /\ Level1(v, n) \in Seq(Nat) /\ Level2(v, n) \in Seq(Nat) /\ Level3(v, n) \in Seq(Nat)
         /\ Level1(v, n) = v[n].ptr
         /\ \A i \in 1 .. Len(Level2(v, n)) : Quot(i) \in 1 .. Len(Level1(v, n))
                /\ Level2(v, n)[i] \in Range(v[Level1(v, n)[Quot(i)]].ptr)
         /\ \A i \in 1 .. Len(Level3(v, n)) : Quot(i) \in 1 .. Len(Level2(v, n))
                /\ Level3(v, n)[i] \in Range(v[Level2(v, n)[Quot(i)]].ptr)
<1> DEFINE l1 == Level1(v, n)
           l2 == Level2(v, n)
           l3 == Level3(v, n)
<1>1. /\ Spelled(v, l1, l2) /\ Spelled(v, l2, l3) /\ n \in DOMAIN v
      /\ \A b \in Range(l3) : b \in DOMAIN v
      /\ v[n].ptr = l1
  BY DEF IsTree, Holds
<1>2. ASSUME NEW list, NEW points, Spelled(v, list, points)
      PROVE  /\ list \in Seq(Nat) /\ points \in Seq(Nat) /\ Range(list) \subseteq DOMAIN v
             /\ \A i \in 1 .. Len(points) : Quot(i) \in 1 .. Len(list)
                    /\ points[i] \in Range(v[list[Quot(i)]].ptr)
  <2>1. /\ list \in Seq(Nat) /\ points \in Seq(Nat) /\ Len(list) = CeilDiv(Len(points), Fanout)
        /\ \A i \in 1 .. Len(list) : list[i] \in DOMAIN v /\ v[list[i]].ptr = Chunk(points, i)
    BY <1>2 DEF Spelled
  <2>2. Range(list) \subseteq DOMAIN v
    BY <2>1, LenProperties DEF Range
  <2>3. ASSUME NEW i \in 1 .. Len(points)
        PROVE  Quot(i) \in 1 .. Len(list) /\ points[i] \in Range(v[list[Quot(i)]].ptr)
    <3>1. /\ Quot(i) \in 1 .. Len(list)
          /\ Rem(i) \in 1 .. Len(Chunk(points, Quot(i)))
          /\ Chunk(points, Quot(i))[Rem(i)] = points[i]
      BY <2>1, PlaceFacts
    <3>2. Chunk(points, Quot(i)) \in Seq(Nat)
      BY <2>1, <3>1, ChunkFacts
    <3>3. DOMAIN Chunk(points, Quot(i)) = 1 .. Len(Chunk(points, Quot(i)))
      BY <3>2, LenProperties
    <3>4. v[list[Quot(i)]].ptr = Chunk(points, Quot(i))
      BY <2>1, <3>1
    <3> QED  BY <3>1, <3>3, <3>4 DEF Range
  <2> QED  BY <2>1, <2>2, <2>3
<1>3. Blocks(v, n) \subseteq DOMAIN v /\ n \in Blocks(v, n)
  BY <1>1, <1>2 DEF Blocks
<1> QED  BY <1>1, <1>2, <1>3

LEMMA FrozenTree ==
  ASSUME NEW v, NEW fr, NEW n, IsTree(v, n), FrozenBelow(v, fr, n), n \in fr
  PROVE  Blocks(v, n) \subseteq fr
<1> DEFINE l1 == Level1(v, n)
           l2 == Level2(v, n)
           l3 == Level3(v, n)
<1>1. Range(l1) \subseteq fr
  BY TreeFacts DEF FrozenBelow
<1>2. ASSUME NEW b \in Range(l2) PROVE b \in fr
  <2>1. PICK i \in 1 .. Len(l2) : b = l2[i]
    BY TreeFacts, LenProperties DEF Range
  <2>2. Quot(i) \in 1 .. Len(l1) /\ b \in Range(v[l1[Quot(i)]].ptr)
    BY <2>1, TreeFacts
  <2>3. l1[Quot(i)] \in Range(l1)
    BY <2>2, TreeFacts, LenProperties DEF Range
  <2> QED  BY <1>1, <2>2, <2>3 DEF FrozenBelow
<1>3. ASSUME NEW b \in Range(l3) PROVE b \in fr
  <2>1. PICK i \in 1 .. Len(l3) : b = l3[i]
    BY TreeFacts, LenProperties DEF Range
  <2>2. Quot(i) \in 1 .. Len(l2) /\ b \in Range(v[l2[Quot(i)]].ptr)
    BY <2>1, TreeFacts
  <2>3. l2[Quot(i)] \in Range(l2)
    BY <2>2, TreeFacts, LenProperties DEF Range
  <2> QED  BY <1>2, <2>2, <2>3 DEF FrozenBelow
<1> QED  BY <1>1, <1>2, <1>3 DEF Blocks

------------------------------------------------------------------------------
(***************************************************************************)
(* The blocks an allocation gives.                                         *)
(***************************************************************************)
LEMMA LeastFacts ==
  ASSUME NEW S, S \subseteq Nat, S # {}
  PROVE  \E m \in S : \A c \in S : m <= c
<1> DEFINE R == OpToRel(<, Nat)
<1>1. IsWellFoundedOn(R, Nat)
  BY NatLessThanWellFounded
<1>2. \A x, y \in Nat : <<y, x>> \in R <=> y < x
  BY DEF OpToRel
<1> HIDE DEF R
<1>3. PICK m \in S : \A y \in S : ~ (<<y, m>> \in R)
  BY <1>1, WFMin, Zenon
<1>4. ASSUME NEW c \in S PROVE m <= c
  <2>1. ~(c < m)
    BY <1>2, <1>3
  <2> QED  BY <2>1
<1> QED  BY <1>3, <1>4

\* A finite set of numbers has a member with any number of smaller ones.
LEMMA NthFacts ==
  ASSUME NEW S, S \subseteq Nat, IsFiniteSet(S), NEW i \in 1 .. Cardinality(S)
  PROVE  Nth(S, i) \in S /\ Cardinality({c \in S : c < Nth(S, i)}) = i - 1
<1> DEFINE Has(j) == \E b \in S : Cardinality({c \in S : c < b}) = j - 1
           Without == {j \in 1 .. Cardinality(S) : ~Has(j)}
<1>1. Cardinality(S) \in Nat
  BY FS_CardinalityType
<1>2. SUFFICES Has(i)
  BY DEF Nth
<1>3. SUFFICES ASSUME Without # {} PROVE FALSE
  OBVIOUS
<1>4. PICK j \in Without : \A x \in Without : j <= x
  <2>1. Without \subseteq Nat
    BY <1>1
  <2> QED  BY <1>3, <2>1, LeastFacts
<1>5. j \in 1 .. Cardinality(S) /\ ~Has(j)
  OBVIOUS
<1>6. CASE j = 1
  <2>1. S # {}
    BY <1>1, <1>5, FS_EmptySet
  <2>2. PICK m \in S : \A c \in S : m <= c
    BY <2>1, LeastFacts
  <2>3. {c \in S : c < m} = {}
    <3>1. \A c \in S : ~(c < m)
      BY <2>2
    <3> QED  BY <3>1, Zenon
  <2> QED  BY <1>5, <1>6, <2>3, FS_EmptySet
<1>7. CASE j > 1
  <2>1. j - 1 \in 1 .. Cardinality(S) /\ ~(j <= j - 1)
    BY <1>1, <1>5, <1>7
  <2>2. Has(j - 1)
    BY <1>4, <2>1
  <2>3. PICK b \in S : Cardinality({c \in S : c < b}) = j - 1 - 1
    BY <2>2
  <2> DEFINE below == {c \in S : c < b}
             above == {c \in S : b < c}
  <2>4. IsFiniteSet(below) /\ below \cup {b} \subseteq S /\ b \notin below
    BY FS_Subset
  <2>5. IsFiniteSet(below \cup {b}) /\ Cardinality(below \cup {b}) = j - 1
    <3>1. Cardinality(below \cup {b}) = Cardinality(below) + 1
      BY <2>4, FS_AddElement
    <3>2. Cardinality(below) = j - 1 - 1
      BY <2>3
    <3> HIDE DEF below
    <3> QED  BY <2>4, <3>1, <3>2, <1>1, <1>5, FS_AddElement
  <2>6. above # {}
    <3>1. SUFFICES ASSUME above = {} PROVE FALSE
      OBVIOUS
    <3>2. \A c \in S : c < b \/ c = b
      BY <3>1
    <3>3. S = below \cup {b}
      BY <2>4, <3>2, Zenon
    <3> HIDE DEF below
    <3> QED  BY <1>1, <1>5, <2>5, <3>3
  <2>7. PICK m \in above : \A c \in above : m <= c
    BY <2>6, LeastFacts
  <2>8. {c \in S : c < m} = below \cup {b}
    <3>1. \A c \in S : c < m <=> c < b \/ c = b
      BY <2>7
    <3>2. \A c : c \in below \cup {b} <=> c \in S /\ (c < b \/ c = b)
      BY <2>3, Zenon
    <3> QED  BY <3>1, <3>2, Zenon
  <2>9. m \in S /\ Cardinality({c \in S : c < m}) = j - 1
    BY <2>5, <2>8
  <2> QED  BY <1>5, <2>9
<1> QED  BY <1>1, <1>5, <1>6, <1>7

LEMMA GivenFacts ==
  ASSUME NEW who, NEW S, who \subseteq Nat, S \subseteq Nat, IsFiniteSet(who), IsFiniteSet(S),
         Cardinality(who) <= Cardinality(S)
  PROVE  /\ Given(who, S) \in [who -> S]
         /\ \A x, y \in who : Given(who, S)[x] = Given(who, S)[y] => x = y
<1> DEFINE upto(x) == {y \in who : y <= x}
           rank(x) == Cardinality(upto(x))
<1>1. ASSUME NEW x \in who
      PROVE  IsFiniteSet(upto(x)) /\ rank(x) \in 1 .. Cardinality(S)
  <2>1. upto(x) \in SUBSET who
    OBVIOUS
  <2>2. IsFiniteSet(upto(x)) /\ rank(x) <= Cardinality(who)
    <3> HIDE DEF upto
    <3> QED  BY <2>1, FS_Subset
  <2>3. upto(x) # {}
    BY <1>1
  <2>4. rank(x) \in Nat /\ rank(x) # 0
    <3> HIDE DEF upto
    <3> QED  BY <2>2, <2>3, FS_CardinalityType, FS_EmptySet
  <2>5. Cardinality(who) \in Nat /\ Cardinality(S) \in Nat
    BY FS_CardinalityType
  <2> HIDE DEF rank
  <2> QED  BY <2>2, <2>4, <2>5
<1>2. ASSUME NEW x \in who, NEW y \in who, x < y, rank(x) = rank(y)
      PROVE  FALSE
  <2>1. upto(x) \in SUBSET upto(y) /\ upto(x) # upto(y)
    <3>1. \A z \in who : z <= x => z <= y
      BY <1>2
    <3>2. y \in upto(y) /\ y \notin upto(x)
      BY <1>2
    <3> QED  BY <3>1, <3>2, Zenon
  <2>2. IsFiniteSet(upto(y))
    BY <1>1
  <2> HIDE DEF upto
  <2>3. Cardinality(upto(y)) = Cardinality(upto(x)) => upto(y) = upto(x)
    BY <2>1, <2>2, FS_Subset
  <2> QED  BY <1>2, <2>1, <2>3
<1>3. ASSUME NEW x \in who
      PROVE  Given(who, S)[x] \in S
             /\ Cardinality({c \in S : c < Given(who, S)[x]}) = rank(x) - 1
  <2>1. Given(who, S)[x] = Nth(S, rank(x))
    BY DEF Given
  <2>2. rank(x) \in 1 .. Cardinality(S)
    BY <1>1
  <2> HIDE DEF rank
  <2> QED  BY <2>1, <2>2, NthFacts
<1>4. ASSUME NEW x \in who, NEW y \in who, Given(who, S)[x] = Given(who, S)[y]
      PROVE  x = y
  <2>1. rank(x) - 1 = rank(y) - 1
    BY <1>3, <1>4
  <2>2. rank(x) \in Nat /\ rank(y) \in Nat
    <3>1. rank(x) \in 1 .. Cardinality(S) /\ rank(y) \in 1 .. Cardinality(S)
      BY <1>1
    <3> HIDE DEF rank
    <3> QED  BY <3>1, FS_CardinalityType
  <2>3. rank(x) = rank(y)
    <3> HIDE DEF rank
    <3> QED  BY <2>1, <2>2
  <2>4. x < y \/ y < x \/ x = y
    OBVIOUS
  <2> QED  BY <1>2, <2>3, <2>4
<1>5. DOMAIN Given(who, S) = who /\ Given(who, S) = [x \in who |-> Given(who, S)[x]]
  BY DEF Given
<1> QED  BY <1>3, <1>4, <1>5

LEMMA BlockFacts ==
  ASSUME volume \in Volumes, NEW S \in SUBSET Block
  PROVE  IsFiniteSet(S) /\ Cardinality(S) \in Nat /\ S \subseteq Nat
<1>1. volume.blocks \in Nat
  BY InodeAssumption
<1>2. IsFiniteSet(Block) /\ Block \subseteq Nat
  BY <1>1, FS_Interval DEF Block
<1> QED  BY <1>2, FS_Subset, FS_CardinalityType

\* The block an allocation takes is free.
LEMMA FirstFree ==
  ASSUME volume \in Volumes, NEW v, Free(v) # {}
  PROVE  Nth(Free(v), 1) \in Block /\ Nth(Free(v), 1) \notin DOMAIN v /\ Nth(Free(v), 1) \in Nat
<1>1. Free(v) \in SUBSET Block
  BY DEF Free
<1>2. IsFiniteSet(Free(v)) /\ Cardinality(Free(v)) \in Nat /\ Free(v) \subseteq Nat
  BY <1>1, BlockFacts
<1>3. Cardinality(Free(v)) # 0
  BY <1>2, FS_EmptySet
<1>4. 1 \in 1 .. Cardinality(Free(v))
  BY <1>2, <1>3
<1>5. Nth(Free(v), 1) \in Free(v)
  BY <1>2, <1>4, NthFacts
<1> QED  BY <1>1, <1>2, <1>5 DEF Free

\* A list without repetitions names as many blocks as it is long.
LEMMA CountOfList ==
  ASSUME NEW s \in Seq(Nat), IsInjective(s)
  PROVE  IsFiniteSet(Range(s)) /\ Cardinality(Range(s)) = Len(s)
<1>1. Len(s) \in Nat /\ DOMAIN s = 1 .. Len(s)
  BY LenProperties
<1>2. s \in [1 .. Len(s) -> Range(s)] /\ s \in Seq(Nat)
  BY <1>1, LenProperties DEF Range
<1>3. s \in Bijection(1 .. Len(s), Range(s))
  BY <1>1, <1>2 DEF Bijection, Injection, Surjection, Range
<1>4. IsFiniteSet(1 .. Len(s)) /\ Cardinality(1 .. Len(s)) = Len(s)
  BY <1>1, FS_Interval, SMTT(30)
<1> QED  BY <1>3, <1>4, FS_Bijection DEF ExistsBijection

LEMMA CountOfTree ==
  ASSUME NEW v, NEW n, IsTree(v, n)
  PROVE  Cardinality(Blocks(v, n)) =
            1 + Len(Level1(v, n)) + Len(Level2(v, n)) + Len(Level3(v, n))
<1> DEFINE a == Range(Level1(v, n))
           b == Range(Level2(v, n))
           c == Range(Level3(v, n))
<1>1. /\ IsFiniteSet(a) /\ Cardinality(a) = Len(Level1(v, n)) /\ Len(Level1(v, n)) \in Nat
      /\ IsFiniteSet(b) /\ Cardinality(b) = Len(Level2(v, n)) /\ Len(Level2(v, n)) \in Nat
      /\ IsFiniteSet(c) /\ Cardinality(c) = Len(Level3(v, n)) /\ Len(Level3(v, n)) \in Nat
  BY TreeFacts, CountOfList, LenProperties DEF IsTree, Holds, Distinct
<1>2. n \notin a /\ a \cap b = {} /\ ({n} \cup a \cup b) \cap c = {} /\ ({n} \cup a) \cap b = {}
  BY DEF IsTree, Holds, Distinct
<1>3. Blocks(v, n) = a \cup {n} \cup b \cup c
  BY DEF Blocks
<1> HIDE DEF a, b, c
<1>4. IsFiniteSet(a \cup {n}) /\ Cardinality(a \cup {n}) = Cardinality(a) + 1
  BY <1>1, <1>2, FS_AddElement
<1>5. /\ IsFiniteSet(a \cup {n} \cup b)
      /\ Cardinality(a \cup {n} \cup b) = Cardinality(a \cup {n}) + Cardinality(b) - Cardinality((a \cup {n}) \cap b)
  BY <1>1, <1>4, FS_Union
<1>6. Cardinality(a \cup {n} \cup b \cup c) =
          Cardinality(a \cup {n} \cup b) + Cardinality(c) - Cardinality((a \cup {n} \cup b) \cap c)
  BY <1>1, <1>5, FS_Union
<1>7. (a \cup {n}) \cap b = {} /\ (a \cup {n} \cup b) \cap c = {} /\ Cardinality({}) = 0
  BY <1>2, FS_EmptySet
<1>8. Cardinality(Blocks(v, n)) =
          Len(Level1(v, n)) + 1 + Len(Level2(v, n)) - 0 + Len(Level3(v, n)) - 0
  BY <1>1, <1>3, <1>4, <1>5, <1>6, <1>7, Zenon
<1> QED  BY <1>1, <1>8

------------------------------------------------------------------------------
(***************************************************************************)
(* A redirect: one storage block of a tree is replaced, and with it the    *)
(* pointer blocks above it that are frozen.                                *)
(***************************************************************************)
Swap(s, i, x) == [s EXCEPT ![i] = x]

IsSwap(t, s, i, x) ==
    /\ t \in Seq(Nat) /\ Len(t) = Len(s)
    /\ \A j \in 1 .. Len(s) : t[j] = IF j = i THEN x ELSE s[j]
    /\ IsInjective(s) => Range(t) = (Range(s) \ {s[i]}) \cup {x}
    /\ IsInjective(s) /\ (x \notin Range(s) \/ x = s[i]) => IsInjective(t)

LEMMA SwapFacts ==
  ASSUME NEW s \in Seq(Nat), NEW i \in 1 .. Len(s), NEW x \in Nat
  PROVE  IsSwap(Swap(s, i, x), s, i, x)
<1>1. Len(s) \in Nat /\ DOMAIN s = 1 .. Len(s) /\ s \in [1 .. Len(s) -> Nat]
  BY LenProperties
<1>2. Swap(s, i, x) \in Seq(Nat) /\ Len(Swap(s, i, x)) = Len(s)
  BY ExceptSeq DEF Swap
<1>3. \A j \in 1 .. Len(s) : Swap(s, i, x)[j] = IF j = i THEN x ELSE s[j]
  BY <1>1 DEF Swap
<1>4. DOMAIN Swap(s, i, x) = 1 .. Len(s)
  BY <1>1 DEF Swap
<1>5. ASSUME IsInjective(s)
      PROVE  Range(Swap(s, i, x)) = (Range(s) \ {s[i]}) \cup {x}
  <2>1. \A j \in 1 .. Len(s) : j # i => s[j] # s[i]
    BY <1>1, <1>5 DEF IsInjective
  <2>2. ASSUME NEW y, y \in Range(Swap(s, i, x))
        PROVE  y \in (Range(s) \ {s[i]}) \cup {x}
    <3>1. PICK j \in 1 .. Len(s) : y = Swap(s, i, x)[j]
      BY <2>2, <1>4 DEF Range
    <3> QED  BY <3>1, <1>1, <1>3, <2>1 DEF Range
  <2>3. ASSUME NEW y, y \in (Range(s) \ {s[i]}) \cup {x}
        PROVE  y \in Range(Swap(s, i, x))
    <3>1. PICK j \in 1 .. Len(s) : y = IF j = i THEN x ELSE s[j]
      BY <2>3, <1>1 DEF Range
    <3> QED  BY <3>1, <1>3, <1>4 DEF Range
  <2> QED  BY <2>2, <2>3
<1>6. ASSUME IsInjective(s), x \notin Range(s) \/ x = s[i]
      PROVE  IsInjective(Swap(s, i, x))
  <2>1. \A j \in 1 .. Len(s) : j # i => s[j] # s[i] /\ s[j] # x
    BY <1>1, <1>6 DEF IsInjective, Range
  <2> QED  BY <1>1, <1>3, <1>4, <1>6, <2>1 DEF IsInjective
<1> QED  BY <1>2, <1>3, <1>5, <1>6 DEF IsSwap

IsReplaced(after, before, old, new) ==
    /\ Len(after) = Len(before)
    /\ \A r \in 1 .. Len(before) : after[r] = IF before[r] = old THEN new ELSE before[r]

LEMMA ReplaceFacts ==
  ASSUME NEW S, NEW x, x.ptr \in Seq(S), NEW old, NEW new \in S,
         "ptr" \in DOMAIN x
  PROVE  /\ Replace(x, old, new).ptr \in Seq(S)
         /\ IsReplaced(Replace(x, old, new).ptr, x.ptr, old, new)
<1>1. Len(x.ptr) \in Nat /\ DOMAIN x.ptr = 1 .. Len(x.ptr) /\ x.ptr \in [1 .. Len(x.ptr) -> S]
  BY LenProperties
<1> DEFINE after == [r \in 1 .. Len(x.ptr) |-> IF x.ptr[r] = old THEN new ELSE x.ptr[r]]
<1>2. Replace(x, old, new).ptr = after
  BY <1>1 DEF Replace
<1>3. \A r \in 1 .. Len(x.ptr) : (IF x.ptr[r] = old THEN new ELSE x.ptr[r]) \in S
  BY <1>1
<1>4. after \in Seq(S) /\ Len(after) = Len(x.ptr)
  BY <1>1, <1>3, IsASeq
<1> QED  BY <1>1, <1>2, <1>4 DEF IsReplaced

LEMMA ReplaceKind ==
  ASSUME NEW S, NEW old, NEW new \in S
  PROVE  /\ \A x \in [ptr : Seq(S)] : Replace(x, old, new) \in [ptr : Seq(S)]
         /\ \A x \in [size : 0 .. MaxSize, ptr : Seq(S)] :
               /\ Replace(x, old, new) \in [size : 0 .. MaxSize, ptr : Seq(S)]
               /\ Replace(x, old, new).size = x.size
<1>1. ASSUME NEW x \in [ptr : Seq(S)]
      PROVE  Replace(x, old, new) \in [ptr : Seq(S)]
  <2>1. Replace(x, old, new).ptr \in Seq(S)
    BY ReplaceFacts DEF IsReplaced
  <2>2. Replace(x, old, new) = [ptr |-> Replace(x, old, new).ptr]
    BY DEF Replace
  <2> QED  BY <2>1, <2>2
<1>2. ASSUME NEW x \in [size : 0 .. MaxSize, ptr : Seq(S)]
      PROVE  /\ Replace(x, old, new) \in [size : 0 .. MaxSize, ptr : Seq(S)]
             /\ Replace(x, old, new).size = x.size
  <2>1. Replace(x, old, new).ptr \in Seq(S)
    BY ReplaceFacts
  <2> DEFINE list == [i \in DOMAIN x.ptr |-> IF x.ptr[i] = old THEN new ELSE x.ptr[i]]
  <2>2. Replace(x, old, new) = [x EXCEPT !.ptr = list]
    BY DEF Replace
  <2> HIDE DEF list
  <2>3. Replace(x, old, new) = [size |-> x.size, ptr |-> list]
    BY <2>2
  <2>4. list \in Seq(S)
    BY <2>1, <2>3
  <2> QED  BY <2>3, <2>4
<1> QED  BY <1>1, <1>2

LEMMA ReplaceInInode ==
  ASSUME NEW x \in InodeBlock, NEW old, NEW new \in Nat, NEW y, y = Replace(x, old, new)
  PROVE  y \in InodeBlock /\ y.size = x.size
<1>1. x \in [size : 0 .. MaxSize, ptr : Seq(Nat)]
  BY DEF InodeBlock
<1> DEFINE list == [i \in DOMAIN x.ptr |-> IF x.ptr[i] = old THEN new ELSE x.ptr[i]]
<1>2. x.ptr \in Seq(Nat) /\ "ptr" \in DOMAIN x
  BY <1>1
<1>3. Replace(x, old, new).ptr \in Seq(Nat)
  BY <1>2, ReplaceFacts
<1>4. y = [x EXCEPT !.ptr = list]
  BY DEF Replace
<1> HIDE DEF list
<1>5. y = [size |-> x.size, ptr |-> list]
  BY <1>1, <1>4
<1>6. list \in Seq(Nat)
  BY <1>3, <1>5
<1> QED  BY <1>1, <1>5, <1>6 DEF InodeBlock

\* What is replaced by itself stays as it is.
LEMMA ReplaceSame ==
  ASSUME NEW x, x \in PointerBlock \/ x \in InodeBlock, NEW p
  PROVE  Replace(x, p, p) = x
<1>1. x.ptr \in Seq(Nat)
  BY DEF PointerBlock, InodeBlock
<1>2. x.ptr = [r \in DOMAIN x.ptr |-> x.ptr[r]]
  BY <1>1, LenProperties
<1>3. \A r \in DOMAIN x.ptr : (IF x.ptr[r] = p THEN p ELSE x.ptr[r]) = x.ptr[r]
  OBVIOUS
<1>4. [r \in DOMAIN x.ptr |-> IF x.ptr[r] = p THEN p ELSE x.ptr[r]] = x.ptr
  BY <1>2, <1>3
<1>5. [x EXCEPT !.ptr = x.ptr] = x
  BY DEF PointerBlock, InodeBlock
<1> QED  BY <1>4, <1>5 DEF Replace

\* One of the points is replaced, and the pointer block that points to it is
\* replaced or changed.
LEMMA Substituted ==
  ASSUME NEW v, NEW w, NEW list, NEW points, Spelled(v, list, points), IsInjective(points),
         NEW i \in 1 .. Len(points), NEW x \in Nat, NEW p \in Nat,
         \A k \in 1 .. Len(list) : k # Quot(i) => list[k] \in DOMAIN w /\ w[list[k]] = v[list[k]],
         p \in DOMAIN w, w[p] = Replace(v[list[Quot(i)]], points[i], x)
  PROVE  Spelled(w, Swap(list, Quot(i), p), Swap(points, i, x))
<1> DEFINE q == Quot(i)
           list2 == Swap(list, q, p)
           points2 == Swap(points, i, x)
<1>1. /\ list \in Seq(Nat) /\ points \in Seq(Nat) /\ Len(list) = CeilDiv(Len(points), Fanout)
      /\ \A k \in 1 .. Len(list) : v[list[k]] \in PointerBlock /\ v[list[k]].ptr = Chunk(points, k)
  BY DEF Spelled
<1>2. q \in 1 .. Len(list)
  BY <1>1, PlaceFacts
<1>3. /\ list2 \in Seq(Nat) /\ Len(list2) = Len(list)
      /\ \A k \in 1 .. Len(list) : list2[k] = IF k = q THEN p ELSE list[k]
  <2> HIDE DEF q
  <2> QED  BY <1>1, <1>2, SwapFacts, SMTT(30) DEF IsSwap
<1>4. /\ points2 \in Seq(Nat) /\ Len(points2) = Len(points)
      /\ \A j \in 1 .. Len(points) : points2[j] = IF j = i THEN x ELSE points[j]
  BY <1>1, SwapFacts DEF IsSwap
<1>5. ASSUME NEW k \in 1 .. Len(list)
      PROVE  /\ list2[k] \in DOMAIN w /\ w[list2[k]] \in PointerBlock
             /\ w[list2[k]].ptr = Chunk(points2, k)
  <2> DEFINE old == Chunk(points, k)
             new == Chunk(points2, k)
             place(r) == (k - 1) * Fanout + r
  <2>1. /\ old \in Seq(Nat) /\ Len(old) \in 1 .. Fanout
        /\ Len(old) = IF k < CeilDiv(Len(points), Fanout) THEN Fanout ELSE Len(points) - (k - 1) * Fanout
        /\ \A r \in 1 .. Len(old) : place(r) \in 1 .. Len(points) /\ old[r] = points[place(r)]
    BY <1>1, <1>5, ChunkFacts
  <2>2. k \in 1 .. CeilDiv(Len(points2), Fanout)
    BY <1>1, <1>4, <1>5
  <2>3. /\ new \in Seq(Nat)
        /\ Len(new) = IF k < CeilDiv(Len(points), Fanout) THEN Fanout ELSE Len(points) - (k - 1) * Fanout
        /\ \A r \in 1 .. Len(new) : new[r] = points2[place(r)]
    <3>1. Len(points2) = Len(points) /\ points2 \in Seq(Nat)
      BY <1>4
    <3> HIDE DEF points2, place
    <3>2. /\ Chunk(points2, k) \in Seq(Nat)
          /\ Len(Chunk(points2, k)) = IF k < CeilDiv(Len(points2), Fanout) THEN Fanout
                                      ELSE Len(points2) - (k - 1) * Fanout
          /\ \A r \in 1 .. Len(Chunk(points2, k)) :
                Chunk(points2, k)[r] = points2[(k - 1) * Fanout + r]
      BY <2>2, <3>1, ChunkFacts
    <3> HIDE DEF new
    <3> QED  BY <3>1, <3>2 DEF place, new
  <2>4. Len(new) = Len(old)
    BY <2>1, <2>3
  <2> HIDE DEF old, new, q, list2, points2
  <2>5. \A r \in 1 .. Len(old) : new[r] = IF place(r) = i THEN x ELSE old[r]
    <3>1. SUFFICES ASSUME NEW r \in 1 .. Len(old)
                   PROVE  new[r] = IF place(r) = i THEN x ELSE old[r]
      OBVIOUS
    <3>2. new[r] = points2[place(r)]
      BY <2>3, <2>4
    <3>3. place(r) \in 1 .. Len(points) /\ old[r] = points[place(r)]
      BY <2>1
    <3> HIDE DEF place
    <3> QED  BY <1>4, <3>2, <3>3
  <2>6. CASE k # q
    <3>1. ASSUME NEW r \in 1 .. Len(old) PROVE place(r) # i
      <4>1. SUFFICES ASSUME place(r) = i PROVE FALSE
        OBVIOUS
      <4>2. k \in Nat \ {0} /\ r \in 1 .. Fanout /\ i \in Nat \ {0} /\ i = (k - 1) * Fanout + r
        <5>1. Len(list) \in Nat /\ Len(points) \in Nat
          BY <1>1, LenProperties
        <5>2. Fanout \in Nat
          BY FanoutIsNat
        <5>3. r \in 1 .. Fanout
          BY <2>1, <5>2
        <5> QED  BY <1>5, <4>1, <5>1, <5>3
      <4>3. Quot(i) = k
        BY <4>2, PositionUnique
      <4> QED  BY <2>6, <4>3 DEF q
    <3>2. \A r \in 1 .. Len(old) : new[r] = old[r]
      BY <2>5, <3>1
    <3>3. new = old
      BY <2>1, <2>3, <2>4, <3>2, SeqEqual
    <3>4. list2[k] = list[k]
      BY <1>3, <2>6
    <3>5. list[k] \in DOMAIN w /\ w[list[k]] = v[list[k]]
      BY <1>5, <2>6 DEF q
    <3> QED  BY <1>1, <3>3, <3>4, <3>5 DEF old, new
  <2>7. CASE k = q
    <3>1. list2[k] = p /\ w[p] = Replace(v[list[k]], points[i], x)
      BY <1>3, <2>7 DEF q
    <3>2. v[list[k]] \in PointerBlock /\ v[list[k]].ptr = old
      BY <1>1 DEF old
    <3>3. w[p] \in PointerBlock
      BY <3>1, <3>2, ReplaceKind DEF PointerBlock
    <3>4. /\ w[p].ptr \in Seq(Nat) /\ Len(w[p].ptr) = Len(old)
          /\ \A r \in 1 .. Len(old) : w[p].ptr[r] = IF old[r] = points[i] THEN x ELSE old[r]
      <4>1. v[list[k]].ptr \in Seq(Nat) /\ "ptr" \in DOMAIN v[list[k]]
        BY <3>2 DEF PointerBlock
      <4> QED  BY <3>1, <3>2, <4>1, ReplaceFacts, SMTT(30) DEF IsReplaced
    <3>5. \A r \in 1 .. Len(old) : old[r] = points[i] <=> place(r) = i
      <4>1. \A j, k2 \in 1 .. Len(points) : points[j] = points[k2] => j = k2
        BY <1>1, LenProperties, SMTT(30) DEF IsInjective
      <4>2. SUFFICES ASSUME NEW r \in 1 .. Len(old)
                     PROVE  old[r] = points[i] <=> place(r) = i
        OBVIOUS
      <4>3. place(r) \in 1 .. Len(points) /\ old[r] = points[place(r)]
        BY <2>1
      <4> HIDE DEF place
      <4> QED  BY <4>1, <4>3
    <3>6. \A r \in 1 .. Len(old) : w[p].ptr[r] = new[r]
      BY <2>5, <3>4, <3>5
    <3>7. w[p].ptr = new
      <4>1. Len(w[p].ptr) = Len(new) /\ \A r \in 1 .. Len(w[p].ptr) : w[p].ptr[r] = new[r]
        BY <2>4, <3>4, <3>6
      <4> QED  BY <2>3, <3>4, <4>1, SeqEqual
    <3> QED  BY <3>1, <3>3, <3>7 DEF new
  <2> QED  BY <2>6, <2>7
<1> HIDE DEF q, list2, points2
<1>6. Spelled(w, list2, points2)
  BY <1>1, <1>3, <1>4, <1>5 DEF Spelled
<1> QED  BY <1>6 DEF q, list2, points2

\* The pointer block that points to a point of the list is found.
LEMMA ParentFacts ==
  ASSUME NEW v, NEW list, NEW points, Spelled(v, list, points), IsInjective(points),
         NEW i \in 1 .. Len(points)
  PROVE  Quot(i) \in 1 .. Len(list) /\ Parent(v, list, points[i]) = list[Quot(i)]
<1>1. /\ list \in Seq(Nat) /\ points \in Seq(Nat) /\ Len(list) = CeilDiv(Len(points), Fanout)
      /\ \A k \in 1 .. Len(list) : v[list[k]].ptr = Chunk(points, k)
      /\ DOMAIN list = 1 .. Len(list) /\ DOMAIN points = 1 .. Len(points)
  BY LenProperties DEF Spelled
<1>2. /\ Quot(i) \in 1 .. Len(list)
      /\ Rem(i) \in 1 .. Len(Chunk(points, Quot(i)))
      /\ Chunk(points, Quot(i))[Rem(i)] = points[i]
  BY <1>1, PlaceFacts
<1>3. ASSUME NEW k \in 1 .. Len(list)
      PROVE  points[i] \in Range(v[list[k]].ptr) <=> k = Quot(i)
  <2>1. /\ Chunk(points, k) \in Seq(Nat) /\ Len(Chunk(points, k)) \in 1 .. Fanout
        /\ \A r \in 1 .. Len(Chunk(points, k)) :
               /\ (k - 1) * Fanout + r \in 1 .. Len(points)
               /\ Chunk(points, k)[r] = points[(k - 1) * Fanout + r]
    <3>1. k \in 1 .. CeilDiv(Len(points), Fanout)
      BY <1>1
    <3> QED  BY <1>1, <3>1, ChunkFacts, SMTT(30)
  <2>2. v[list[k]].ptr = Chunk(points, k) /\ DOMAIN Chunk(points, k) = 1 .. Len(Chunk(points, k))
    BY <1>1, <2>1, LenProperties
  <2>3. ASSUME k = Quot(i) PROVE points[i] \in Range(v[list[k]].ptr)
    BY <1>2, <2>2, <2>3 DEF Range
  <2>4. ASSUME points[i] \in Range(v[list[k]].ptr) PROVE k = Quot(i)
    <3>1. PICK r \in 1 .. Len(Chunk(points, k)) : points[i] = Chunk(points, k)[r]
      BY <2>2, <2>4 DEF Range
    <3>2. i = (k - 1) * Fanout + r
      BY <1>1, <2>1, <3>1 DEF IsInjective
    <3>3. k \in Nat \ {0} /\ i \in Nat \ {0} /\ r \in 1 .. Fanout
      BY <1>1, <2>1, LenProperties, FanoutIsNat, SMTT(30)
    <3> QED  BY <3>2, <3>3, PositionUnique
  <2> QED  BY <2>3, <2>4
<1>4. \A p \in Range(list) : points[i] \in Range(v[p].ptr) <=> p = list[Quot(i)]
  <2>1. ASSUME NEW p \in Range(list), points[i] \in Range(v[p].ptr) PROVE p = list[Quot(i)]
    <3>1. PICK k \in 1 .. Len(list) : p = list[k]
      BY <1>1 DEF Range
    <3> QED  BY <1>3, <2>1, <3>1
  <2>2. points[i] \in Range(v[list[Quot(i)]].ptr)
    BY <1>2, <1>3
  <2> QED  BY <2>1, <2>2
<1>5. list[Quot(i)] \in Range(list)
  BY <1>1, <1>2 DEF Range
<1> QED  BY <1>2, <1>4, <1>5 DEF Parent

\* The storage block at position i becomes r3, the pointer blocks above it r2 and
\* r1, each of which is the old one or a new one.
LEMMA Rebuilt ==
  ASSUME NEW v, NEW w, NEW n, NEW l1, NEW l2, NEW l3, Holds(v, n, l1, l2, l3),
         NEW i \in 1 .. Len(l3), NEW r1 \in Nat, NEW r2 \in Nat, NEW r3 \in Nat,
         r3 \notin Blocks(v, n), r3 # r2, r3 # r1, r2 # r1,
         r2 = l2[Quot(i)] \/ r2 \notin Blocks(v, n),
         r1 = l1[Quot(Quot(i))] \/ r1 \notin Blocks(v, n),
         n \in DOMAIN w, w[n] = Replace(v[n], l1[Quot(Quot(i))], r1),
         r1 \in DOMAIN w, w[r1] = Replace(v[l1[Quot(Quot(i))]], l2[Quot(i)], r2),
         r2 \in DOMAIN w, w[r2] = Replace(v[l2[Quot(i)]], l3[i], r3),
         r3 \in DOMAIN w, w[r3] \in Content \cup {Zero},
         \A b \in Blocks(v, n) : b \notin {n, l1[Quot(Quot(i))], l2[Quot(i)], l3[i]} =>
                b \in DOMAIN w /\ w[b] = v[b]
  PROVE  Holds(w, n, Swap(l1, Quot(Quot(i)), r1), Swap(l2, Quot(i), r2), Swap(l3, i, r3))
<1> DEFINE q2 == Quot(i)
           q1 == Quot(q2)
           m1 == Swap(l1, q1, r1)
           m2 == Swap(l2, q2, r2)
           m3 == Swap(l3, i, r3)
           R1 == Range(l1)
           R2 == Range(l2)
           R3 == Range(l3)
<1>1. /\ n \in DOMAIN v /\ v[n] \in InodeBlock /\ v[n].ptr = l1 /\ v[n].size = Len(l3)
      /\ Spelled(v, l1, l2) /\ Spelled(v, l2, l3)
      /\ \A b \in R3 : b \in DOMAIN v /\ v[b] \in Content \cup {Zero}
      /\ IsInjective(l1) /\ IsInjective(l2) /\ IsInjective(l3)
      /\ n \notin R1 \cup R2 \cup R3 /\ R1 \cap R2 = {} /\ R1 \cap R3 = {} /\ R2 \cap R3 = {}
  BY DEF Holds, Distinct
<1>2. l1 \in Seq(Nat) /\ l2 \in Seq(Nat) /\ l3 \in Seq(Nat)
  BY <1>1 DEF Spelled
<1>3. Blocks(v, n) = {n} \cup R1 \cup R2 \cup R3
  BY Determined
<1>4. q2 \in 1 .. Len(l2)
  BY <1>1, ParentFacts
<1> HIDE DEF q2
<1>5. q1 \in 1 .. Len(l1)
  BY <1>1, <1>4, ParentFacts
<1> HIDE DEF q1
<1>6. /\ \A k \in 1 .. Len(l1) : l1[k] \in R1 /\ (k # q1 => l1[k] # l1[q1])
      /\ \A k \in 1 .. Len(l2) : l2[k] \in R2 /\ (k # q2 => l2[k] # l2[q2])
      /\ \A k \in 1 .. Len(l3) : l3[k] \in R3 /\ (k # i => l3[k] # l3[i])
  <2>1. ASSUME NEW s \in Seq(Nat), IsInjective(s), NEW q \in 1 .. Len(s)
        PROVE  \A k \in 1 .. Len(s) : s[k] \in Range(s) /\ (k # q => s[k] # s[q])
    BY <2>1, LenProperties DEF Range, IsInjective
  <2> QED  BY <1>1, <1>2, <1>4, <1>5, <2>1, SMTT(30)
<1>7. /\ m1 \in Seq(Nat) /\ Len(m1) = Len(l1) /\ Range(m1) = (R1 \ {l1[q1]}) \cup {r1}
      /\ \A k \in 1 .. Len(l1) : m1[k] = IF k = q1 THEN r1 ELSE l1[k]
  <2>1. IsSwap(m1, l1, q1, r1)
    BY <1>2, <1>5, SwapFacts
  <2> HIDE DEF m1
  <2> QED  BY <1>1, <2>1 DEF IsSwap
<1>8. /\ m2 \in Seq(Nat) /\ Range(m2) = (R2 \ {l2[q2]}) \cup {r2}
  <2>1. IsSwap(m2, l2, q2, r2)
    BY <1>2, <1>4, SwapFacts
  <2> HIDE DEF m2
  <2> QED  BY <1>1, <2>1 DEF IsSwap
<1>9. /\ m3 \in Seq(Nat) /\ Len(m3) = Len(l3) /\ Range(m3) = (R3 \ {l3[i]}) \cup {r3}
  <2>1. IsSwap(m3, l3, i, r3)
    BY <1>2, SwapFacts
  <2> HIDE DEF m3
  <2> QED  BY <1>1, <2>1 DEF IsSwap
<1>10. /\ r3 \notin {n} \cup R1 \cup R2 \cup R3
       /\ r2 = l2[q2] \/ r2 \notin {n} \cup R1 \cup R2 \cup R3
       /\ r1 = l1[q1] \/ r1 \notin {n} \cup R1 \cup R2 \cup R3
  BY <1>3 DEF q1, q2
<1>11. /\ l1[q1] \in R1 /\ l2[q2] \in R2 /\ l3[i] \in R3
  BY <1>4, <1>5, <1>6
<1>12. IsInjective(m1) /\ IsInjective(m2) /\ IsInjective(m3)
  BY <1>1, <1>2, <1>4, <1>5, <1>10, SwapFacts DEF IsSwap
<1>13. Distinct(n, m1, m2, m3)
  <2> HIDE DEF m1, m2, m3, R1, R2, R3
  <2>1. n \notin Range(m1) \cup Range(m2) \cup Range(m3)
    BY <1>1, <1>7, <1>8, <1>9, <1>10, <1>11
  <2>2. Range(m1) \cap Range(m2) = {} /\ Range(m1) \cap Range(m3) = {} /\ Range(m2) \cap Range(m3) = {}
    BY <1>1, <1>7, <1>8, <1>9, <1>10, <1>11
  <2> QED  BY <1>12, <2>1, <2>2 DEF Distinct
<1>14. \A b \in {n} \cup R1 \cup R2 \cup R3 : b \notin {n, l1[q1], l2[q2], l3[i]} =>
            b \in DOMAIN w /\ w[b] = v[b]
  BY <1>3 DEF q1, q2
<1>15. Spelled(w, m1, m2)
  <2> HIDE DEF R1, R2, R3
  <2>1. ASSUME NEW k \in 1 .. Len(l1), k # q1
        PROVE  l1[k] \in DOMAIN w /\ w[l1[k]] = v[l1[k]]
    <3>1. l1[k] \in R1 /\ l1[k] # l1[q1]
      BY <1>6, <2>1
    <3>2. l1[k] \notin {n, l2[q2], l3[i]}
      BY <1>1, <1>11, <3>1
    <3> QED  BY <1>14, <3>1, <3>2
  <2>2. w[r1] = Replace(v[l1[q1]], l2[q2], r2)
    BY DEF q1, q2
  <2> QED  BY <1>1, <1>4, <2>1, <2>2, Substituted DEF q1
<1>16. Spelled(w, m2, m3)
  <2> HIDE DEF R1, R2, R3
  <2>1. ASSUME NEW k \in 1 .. Len(l2), k # q2
        PROVE  l2[k] \in DOMAIN w /\ w[l2[k]] = v[l2[k]]
    <3>1. l2[k] \in R2 /\ l2[k] # l2[q2]
      BY <1>6, <2>1
    <3>2. l2[k] \notin {n, l1[q1], l3[i]}
      BY <1>1, <1>11, <3>1
    <3> QED  BY <1>14, <3>1, <3>2
  <2>2. w[r2] = Replace(v[l2[q2]], l3[i], r3)
    BY DEF q2
  <2> QED  BY <1>1, <2>1, <2>2, Substituted DEF q2
<1>17. \A b \in Range(m3) : b \in DOMAIN w /\ w[b] \in Content \cup {Zero}
  <2> HIDE DEF R1, R2, R3
  <2> QED  BY <1>1, <1>9, <1>11, <1>14
<1>18. w[n] \in InodeBlock /\ w[n].size = Len(m3) /\ w[n].ptr = m1
  <2>1. w[n] = Replace(v[n], l1[q1], r1)
    BY DEF q1, q2
  <2>2. w[n] \in InodeBlock /\ w[n].size = v[n].size
    <3> DEFINE x == v[n]
               y == w[n]
               old == l1[q1]
    <3>1. x \in InodeBlock /\ y = Replace(x, old, r1)
      BY <1>1, <2>1
    <3> HIDE DEF x, y, old
    <3>2. y \in InodeBlock /\ y.size = x.size
      BY <3>1, ReplaceInInode
    <3> QED  BY <3>2 DEF x, y
  <2>3. /\ w[n].ptr \in Seq(Nat) /\ Len(w[n].ptr) = Len(l1)
        /\ \A k \in 1 .. Len(l1) : w[n].ptr[k] = IF l1[k] = l1[q1] THEN r1 ELSE l1[k]
    <3>1. v[n].ptr \in Seq(Nat) /\ "ptr" \in DOMAIN v[n]
      BY <1>1 DEF InodeBlock
    <3> QED  BY <1>1, <2>1, <3>1, ReplaceFacts, SMTT(30) DEF IsReplaced
  <2>4. \A k \in 1 .. Len(l1) : w[n].ptr[k] = m1[k]
    BY <1>6, <1>7, <2>3
  <2>5. w[n].ptr = m1
    <3> DEFINE a == w[n].ptr
    <3>1. /\ a \in Seq(Nat) /\ m1 \in Seq(Nat) /\ Len(a) = Len(m1)
          /\ \A k \in 1 .. Len(a) : a[k] = m1[k]
      BY <1>7, <2>3, <2>4
    <3> HIDE DEF a, m1
    <3>2. a = m1
      BY <3>1, SeqEqual
    <3> QED  BY <3>2 DEF a
  <2> QED  BY <1>1, <1>9, <2>2, <2>5
<1> HIDE DEF m1, m2, m3
<1>19. Holds(w, n, m1, m2, m3)
  BY <1>13, <1>15, <1>16, <1>17, <1>18 DEF Holds
<1> QED  BY <1>19 DEF m1, m2, m3, q1, q2

------------------------------------------------------------------------------
(***************************************************************************)
(* What a call does to one file, and what that leaves alone.               *)
(***************************************************************************)
Kind(x) == \/ x \in Content \cup {Zero}
           \/ x \in [ptr : Seq(Block)]
           \/ x \in [size : 0 .. MaxSize, ptr : Seq(Block)]
Typed(v) == DOMAIN v \subseteq Block /\ \A b \in DOMAIN v : Kind(v[b])

\* Between v and w only the file of inode n changed: its blocks that are not frozen
\* may be gone, and blocks that were free may have come to it.
Rewritten(v, w, fr, n) ==
    /\ \A b \in DOMAIN v : b \notin Blocks(v, n) \ fr => b \in DOMAIN w /\ w[b] = v[b]
    /\ IsTree(w, n) /\ FrozenBelow(w, fr, n)
    /\ \A b \in Blocks(w, n) : b \in Blocks(v, n) \/ b \notin DOMAIN v
    /\ Typed(w)

\* Every block that came is in the tree.
Accounted(v, w, fr, n) ==
    \A b : b \in DOMAIN w <=> (b \in DOMAIN v /\ b \notin Blocks(v, n) \ fr) \/ b \in Blocks(w, n)

LEMMA SeqInto ==
  ASSUME NEW s \in Seq(Nat), NEW S, Range(s) \subseteq S
  PROVE  s \in Seq(S)
<1>1. Len(s) \in Nat /\ s \in [1 .. Len(s) -> Nat]
  BY LenProperties
<1>2. s \in [1 .. Len(s) -> S]
  BY <1>1 DEF Range
<1> QED  BY <1>1, <1>2, SeqDef

LEMMA TreeTyped ==
  ASSUME NEW v, NEW n, IsTree(v, n), Blocks(v, n) \subseteq Block
  PROVE  \A b \in Blocks(v, n) : Kind(v[b])
<1> DEFINE l1 == Level1(v, n)
           l2 == Level2(v, n)
           l3 == Level3(v, n)
<1>1. /\ v[n] \in InodeBlock /\ v[n].ptr = l1
      /\ Spelled(v, l1, l2) /\ Spelled(v, l2, l3)
      /\ \A b \in Range(l3) : v[b] \in Content \cup {Zero}
  BY DEF IsTree, Holds
<1>2. Range(l1) \subseteq Block /\ Range(l2) \subseteq Block /\ Range(l3) \subseteq Block
  BY DEF Blocks
<1>3. l1 \in Seq(Block) /\ l2 \in Seq(Block) /\ l3 \in Seq(Block)
  BY <1>1, <1>2, SeqInto DEF Spelled
<1>4. ASSUME NEW list, NEW points \in Seq(Block), Spelled(v, list, points), NEW b \in Range(list)
      PROVE  v[b] \in [ptr : Seq(Block)]
  <2>1. /\ list \in Seq(Nat) /\ Len(list) = CeilDiv(Len(points), Fanout)
        /\ \A i \in 1 .. Len(list) : v[list[i]] \in PointerBlock /\ v[list[i]].ptr = Chunk(points, i)
    BY <1>4 DEF Spelled
  <2>2. PICK i \in 1 .. Len(list) : b = list[i]
    BY <1>4, <2>1, LenProperties DEF Range
  <2>3. Chunk(points, i) \in Seq(Block)
    BY <2>1, ChunkFacts
  <2> QED  BY <2>1, <2>2, <2>3 DEF PointerBlock
<1>5. v[n] \in [size : 0 .. MaxSize, ptr : Seq(Block)]
  BY <1>1, <1>3 DEF InodeBlock
<1> HIDE DEF l1, l2, l3
<1>6. \A b \in Range(l1) \cup Range(l2) : v[b] \in [ptr : Seq(Block)]
  BY <1>1, <1>3, <1>4
<1> QED  BY <1>1, <1>5, <1>6 DEF Blocks, Kind, l1, l2, l3

\* The other files are as they were.
LEMMA OthersStay ==
  ASSUME NEW v, NEW w, NEW fr, NEW names, FilesOK(v, fr, names),
         NEW n \in Nodes(names), NEW m \in Nodes(names), m # n,
         \A b \in DOMAIN v : b \notin Blocks(v, n) \ fr => b \in DOMAIN w /\ w[b] = v[b]
  PROVE  /\ IsTree(w, m) /\ FrozenBelow(w, fr, m)
         /\ Level3(w, m) = Level3(v, m) /\ Blocks(w, m) = Blocks(v, m)
         /\ \A b \in Blocks(v, m) : b \in DOMAIN w /\ w[b] = v[b]
<1>1. /\ IsTree(v, m) /\ FrozenBelow(v, fr, m)
      /\ Blocks(v, m) \cap Blocks(v, n) \subseteq fr
  BY DEF FilesOK
<1>2. Blocks(v, m) \subseteq DOMAIN v
  BY <1>1, TreeFacts
<1>3. \A b \in Blocks(v, m) : b \in DOMAIN w /\ w[b] = v[b]
  BY <1>1, <1>2
<1> QED  BY <1>1, <1>3, Same

Covered(v, fr, names) == DOMAIN v = OfFiles(v, names) \cup fr

LEMMA FilesStay ==
  ASSUME NEW v, NEW w, NEW fr, NEW names, FilesOK(v, fr, names),
         NEW n \in Nodes(names), Rewritten(v, w, fr, n)
  PROVE  /\ FilesOK(w, fr, names)
         /\ Accounted(v, w, fr, n) /\ Covered(v, fr, names) => Covered(w, fr, names)
<1>1. \A b \in DOMAIN v : b \notin Blocks(v, n) \ fr => b \in DOMAIN w /\ w[b] = v[b]
  BY DEF Rewritten
<1>2. \A m \in Nodes(names) : m # n =>
         IsTree(w, m) /\ FrozenBelow(w, fr, m) /\ Blocks(w, m) = Blocks(v, m)
  BY <1>1, OthersStay
<1>3. IsTree(w, n) /\ FrozenBelow(w, fr, n)
      /\ \A b \in Blocks(w, n) : b \in Blocks(v, n) \/ b \notin DOMAIN v
  BY DEF Rewritten
<1>4. \A m \in Nodes(names) : Blocks(v, m) \subseteq DOMAIN v
  BY TreeFacts DEF FilesOK
<1>5. \A m, k \in Nodes(names) : m # k => Blocks(v, m) \cap Blocks(v, k) \subseteq fr
  BY DEF FilesOK
<1>6. \A m, k \in Nodes(names) : m # k => Blocks(w, m) \cap Blocks(w, k) \subseteq fr
  BY <1>2, <1>3, <1>4, <1>5
<1>7. FilesOK(w, fr, names)
  BY <1>2, <1>3, <1>6 DEF FilesOK
<1>8. ASSUME Accounted(v, w, fr, n), DOMAIN v = OfFiles(v, names) \cup fr
      PROVE  DOMAIN w = OfFiles(w, names) \cup fr
  <2>1. \A b : b \in OfFiles(w, names) <=> \E m \in Nodes(names) : b \in Blocks(w, m)
    BY DEF OfFiles
  <2>2. \A b : b \in OfFiles(v, names) <=> \E m \in Nodes(names) : b \in Blocks(v, m)
    BY DEF OfFiles
  <2>3. \A b : b \in DOMAIN w <=> (b \in DOMAIN v /\ b \notin Blocks(v, n) \ fr) \/ b \in Blocks(w, n)
    BY <1>8 DEF Accounted
  <2>4. ASSUME NEW b, b \in DOMAIN w PROVE b \in OfFiles(w, names) \cup fr
    BY <1>2, <1>8, <2>1, <2>2, <2>3, <2>4
  <2>5. ASSUME NEW b, b \in OfFiles(w, names) \cup fr PROVE b \in DOMAIN w
    <3>1. CASE b \in fr
      BY <1>8, <2>3, <3>1
    <3>2. CASE b \in Blocks(w, n)
      BY <2>3, <3>2
    <3>3. ASSUME NEW m \in Nodes(names), m # n, b \in Blocks(w, m) PROVE b \in DOMAIN w
      BY <1>2, <1>4, <1>5, <2>3, <3>3
    <3> QED  BY <2>1, <2>5, <3>1, <3>2, <3>3
  <2> QED  BY <2>4, <2>5
<1> QED  BY <1>7, <1>8 DEF Covered

\* The snapshots are as they were when the frozen blocks are.
Keeps(v, w, S) == \A b \in S : b \in DOMAIN w /\ w[b] = v[b]

LEMMA ShotStays ==
  ASSUME NEW v, NEW w, NEW fr, NEW names, ShotOK(v, fr, names), Keeps(v, w, fr)
  PROVE  /\ ShotOK(w, fr, names) /\ OfFiles(w, names) = OfFiles(v, names)
         /\ \A n \in Nodes(names) : /\ Level3(w, n) = Level3(v, n)
                                    /\ \A b \in Blocks(v, n) : w[b] = v[b]
<1>1. ASSUME NEW n \in Nodes(names)
      PROVE  /\ IsTree(w, n) /\ Blocks(w, n) = Blocks(v, n) /\ Level3(w, n) = Level3(v, n)
             /\ \A b \in Blocks(v, n) : w[b] = v[b]
             /\ Blocks(w, n) \subseteq fr
  <2>1. IsTree(v, n) /\ Blocks(v, n) \subseteq fr
    BY DEF ShotOK
  <2>2. \A b \in Blocks(v, n) : b \in DOMAIN w /\ w[b] = v[b]
    BY <2>1 DEF Keeps
  <2> QED  BY <2>1, <2>2, Same
<1> QED  BY <1>1 DEF ShotOK, OfFiles

LEMMA ShotsStay ==
  ASSUME NEW v, NEW w, NEW fr, NEW shots,
         \A s \in DOMAIN shots : shots[s].sound /\ ShotOK(v, fr, shots[s].node),
         Keeps(v, w, fr)
  PROVE  OfShots(w, shots) = OfShots(v, shots)
<1>1. ASSUME NEW s \in DOMAIN shots
      PROVE  OfFiles(w, shots[s].node) = OfFiles(v, shots[s].node)
  <2> DEFINE names == shots[s].node
  <2>1. ShotOK(v, fr, names)
    OBVIOUS
  <2> HIDE DEF names
  <2>2. OfFiles(w, names) = OfFiles(v, names)
    BY <2>1, ShotStays
  <2> QED  BY <2>2 DEF names
<1> QED  BY <1>1 DEF OfShots

------------------------------------------------------------------------------
(***************************************************************************)
(* A write of one block.                                                   *)
(***************************************************************************)
Same3(v, w, n, j) == /\ Level3(w, n)[j] = Level3(v, n)[j]
                     /\ w[Level3(w, n)[j]] = v[Level3(v, n)[j]]

\* Position i of the file holds c and the rest what it held, or nothing is written.
WriteStep(v, w, n, i, c, done) ==
    /\ Rewritten(v, w, frozen, n)
    /\ Len(Level3(w, n)) = Len(Level3(v, n))
    /\ \A j \in 1 .. Len(Level3(v, n)) : j # i => Same3(v, w, n, j)
    /\ done => w[Level3(w, n)[i]] = c /\ Accounted(v, w, frozen, n)
    /\ ~done => Same3(v, w, n, i)

\* v is a volume in which n is a file that may be written.
Open(v, n) ==
    /\ volume \in Volumes /\ Typed(v) /\ IsTree(v, n) /\ FrozenBelow(v, frozen, n)
    /\ n \notin frozen /\ frozen \subseteq DOMAIN v

\* w is v with the storage block b replaced by r3, and the pointer blocks p2 and p1
\* above it by r2 and r1.
Redirects(v, w, n, b, p2, p1, r1, r2, r3, c) ==
    /\ r1 \in Block /\ r2 \in Block /\ r3 \in Block
    /\ r3 \notin DOMAIN v /\ r3 # r2 /\ r3 # r1 /\ r2 # r1
    /\ (r2 = p2 /\ p2 \notin frozen) \/ (r2 \notin DOMAIN v /\ p2 \in frozen)
    /\ (r1 = p1 /\ p1 \notin frozen) \/ (r1 \notin DOMAIN v /\ p1 \in frozen)
    /\ \A x : x \in DOMAIN w <=> (x \in DOMAIN v /\ (x = b => b \in frozen)) \/ x \in {r1, r2, r3}
    /\ w[r3] = c /\ w[r2] = Replace(v[p2], b, r3) /\ w[r1] = Replace(v[p1], p2, r2)
    /\ w[n] = Replace(v[n], p1, r1)
    /\ \A x \in DOMAIN v : x \notin {n, p1, p2, b} => w[x] = v[x]
    /\ \A x \in frozen : w[x] = v[x]

LEMMA RedirectFacts ==
  ASSUME NEW v, NEW w, NEW n, Open(v, n), NEW i \in 1 .. Len(Level3(v, n)), NEW c \in Content,
         NEW b, NEW p2, NEW p1, b = Level3(v, n)[i], p2 = Level2(v, n)[Quot(i)],
         p1 = Level1(v, n)[Quot(Quot(i))],
         NEW r1, NEW r2, NEW r3, Redirects(v, w, n, b, p2, p1, r1, r2, r3, c)
  PROVE  WriteStep(v, w, n, i, c, TRUE)
<1> DEFINE l1 == Level1(v, n)
           l2 == Level2(v, n)
           l3 == Level3(v, n)
           m1 == Swap(l1, Quot(Quot(i)), r1)
           m2 == Swap(l2, Quot(i), r2)
           m3 == Swap(l3, i, r3)
<1>0. /\ r1 \in Block /\ r2 \in Block /\ r3 \in Block
      /\ r3 \notin DOMAIN v /\ r3 # r2 /\ r3 # r1 /\ r2 # r1
      /\ (r2 = p2 /\ p2 \notin frozen) \/ (r2 \notin DOMAIN v /\ p2 \in frozen)
      /\ (r1 = p1 /\ p1 \notin frozen) \/ (r1 \notin DOMAIN v /\ p1 \in frozen)
      /\ \A x : x \in DOMAIN w <=> (x \in DOMAIN v /\ (x = b => b \in frozen)) \/ x \in {r1, r2, r3}
      /\ w[r3] = c /\ w[r2] = Replace(v[p2], b, r3) /\ w[r1] = Replace(v[p1], p2, r2)
      /\ w[n] = Replace(v[n], p1, r1)
      /\ \A x \in DOMAIN v : x \notin {n, p1, p2, b} => w[x] = v[x]
      /\ \A x \in frozen : w[x] = v[x]
  BY DEF Redirects
<1>1. /\ Typed(v) /\ IsTree(v, n) /\ FrozenBelow(v, frozen, n) /\ n \notin frozen
      /\ frozen \subseteq DOMAIN v /\ volume \in Volumes
  BY <1>0 DEF Open
<1>2. /\ Holds(v, n, l1, l2, l3) /\ Distinct(n, l1, l2, l3)
      /\ Spelled(v, l1, l2) /\ Spelled(v, l2, l3)
      /\ l1 \in Seq(Nat) /\ l2 \in Seq(Nat) /\ l3 \in Seq(Nat)
  BY <1>0, <1>1, TreeFacts DEF IsTree, Holds
<1>3. /\ IsInjective(l1) /\ IsInjective(l2) /\ IsInjective(l3)
      /\ n \notin Range(l1) \cup Range(l2) \cup Range(l3)
      /\ Range(l1) \cap Range(l2) = {} /\ Range(l1) \cap Range(l3) = {}
      /\ Range(l2) \cap Range(l3) = {}
  BY <1>0, <1>2 DEF Distinct
<1>4. Blocks(v, n) = {n} \cup Range(l1) \cup Range(l2) \cup Range(l3) /\ Blocks(v, n) \subseteq DOMAIN v
  BY <1>0, <1>1, TreeFacts DEF Blocks
<1>5. Quot(i) \in 1 .. Len(l2) /\ Quot(Quot(i)) \in 1 .. Len(l1)
  <2>1. Quot(i) \in 1 .. Len(l2)
    BY <1>0, <1>2, <1>3, ParentFacts
  <2> QED  BY <1>0, <1>2, <1>3, <2>1, ParentFacts
<1>6. p1 \in Range(l1) /\ p2 \in Range(l2) /\ b \in Range(l3)
  BY <1>0, <1>2, <1>5, LenProperties DEF Range
<1>7. r1 \in Nat /\ r2 \in Nat /\ r3 \in Nat
  BY <1>0, <1>1, BlockFacts
<1>8. /\ r3 \notin Blocks(v, n) /\ (r2 = p2 \/ r2 \notin Blocks(v, n))
      /\ (r1 = p1 \/ r1 \notin Blocks(v, n))
  BY <1>0, <1>4
<1>9. /\ n \in DOMAIN w /\ r1 \in DOMAIN w /\ r2 \in DOMAIN w /\ r3 \in DOMAIN w
      /\ \A x \in Blocks(v, n) : x \notin {n, p1, p2, b} => x \in DOMAIN w /\ w[x] = v[x]
  <2>1. n # b /\ n \in DOMAIN v
    BY <1>0, <1>3, <1>4, <1>6
  <2> QED  BY <1>0, <1>4, <2>1
<1>10. Holds(w, n, m1, m2, m3)
  BY <1>0, <1>2, <1>7, <1>8, <1>9, Rebuilt
<1>11. /\ m3 \in Seq(Nat) /\ Len(m3) = Len(l3)
       /\ \A j \in 1 .. Len(l3) : m3[j] = IF j = i THEN r3 ELSE l3[j]
       /\ Range(m1) = (Range(l1) \ {p1}) \cup {r1} /\ Range(m2) = (Range(l2) \ {p2}) \cup {r2}
       /\ Range(m3) = (Range(l3) \ {b}) \cup {r3}
  <2>1. IsSwap(m1, l1, Quot(Quot(i)), r1) /\ IsSwap(m2, l2, Quot(i), r2) /\ IsSwap(m3, l3, i, r3)
    BY <1>0, <1>2, <1>5, <1>7, SwapFacts
  <2> HIDE DEF m1, m2, m3
  <2> QED  BY <1>0, <1>3, <2>1 DEF IsSwap
<1>12. /\ Level1(w, n) = m1 /\ Level2(w, n) = m2 /\ Level3(w, n) = m3 /\ IsTree(w, n)
       /\ Blocks(w, n) = {n} \cup Range(m1) \cup Range(m2) \cup Range(m3)
  BY <1>0, <1>10, Determined
<1> HIDE DEF l1, l2, l3, m1, m2, m3
<1>13. \A x \in DOMAIN v : x \notin Blocks(v, n) \ frozen => x \in DOMAIN w /\ w[x] = v[x]
  BY <1>0, <1>4, <1>6
<1>14. \A x \in Blocks(w, n) : x \in Blocks(v, n) \/ x \notin DOMAIN v
  BY <1>0, <1>4, <1>6, <1>11, <1>12
<1>15. r1 \notin frozen /\ r2 \notin frozen
  BY <1>0, <1>1
<1>16. FrozenBelow(w, frozen, n)
  <2>1. ASSUME NEW x \in Range(m1) \cup Range(m2), x \in frozen
        PROVE  Range(w[x].ptr) \subseteq frozen
    <3>1. x \in Range(l1) \cup Range(l2) /\ w[x] = v[x]
      BY <1>0, <1>11, <1>15, <2>1
    <3> QED  BY <1>0, <1>1, <2>1, <3>1 DEF FrozenBelow, l1, l2
  <2> QED  BY <1>0, <1>1, <1>12, <2>1 DEF FrozenBelow
<1>17. Typed(w)
  <2>1. DOMAIN w \subseteq Block
    BY <1>0, <1>1 DEF Typed
  <2>2. Blocks(w, n) \subseteq DOMAIN w
    BY <1>0, <1>12, TreeFacts
  <2>3. \A x \in Blocks(w, n) : Kind(w[x])
    BY <1>0, <1>12, <2>1, <2>2, TreeTyped
  <2>4. ASSUME NEW x \in DOMAIN w, x \notin Blocks(w, n) PROVE Kind(w[x])
    <3>1. x \notin {n, r1, r2, r3} /\ x \in DOMAIN v
      BY <1>0, <1>11, <1>12, <2>4
    <3>2. w[x] = v[x]
      BY <1>0, <3>1
    <3> QED  BY <1>0, <1>1, <3>1, <3>2 DEF Typed
  <2> QED  BY <1>0, <2>1, <2>3, <2>4 DEF Typed
<1>18. Accounted(v, w, frozen, n)
  <2>1. ASSUME NEW x, x \in DOMAIN w
        PROVE  (x \in DOMAIN v /\ x \notin Blocks(v, n) \ frozen) \/ x \in Blocks(w, n)
    BY <1>0, <1>4, <1>6, <1>11, <1>12, <2>1
  <2>2. ASSUME NEW x, (x \in DOMAIN v /\ x \notin Blocks(v, n) \ frozen) \/ x \in Blocks(w, n)
        PROVE  x \in DOMAIN w
    BY <1>0, <1>12, <1>13, <2>2, TreeFacts
  <2> QED  BY <1>0, <2>1, <2>2 DEF Accounted
<1>19. Rewritten(v, w, frozen, n)
  BY <1>0, <1>12, <1>13, <1>14, <1>16, <1>17 DEF Rewritten
<1>20. \A j \in 1 .. Len(l3) : j # i => Same3(v, w, n, j)
  <2>1. SUFFICES ASSUME NEW j \in 1 .. Len(l3), j # i PROVE Same3(v, w, n, j)
    OBVIOUS
  <2>2. m3[j] = l3[j]
    BY <1>0, <1>11, <2>1
  <2>3. l3[j] \in Range(l3) /\ l3[j] # b
    BY <1>0, <1>2, <1>3, <2>1, LenProperties DEF Range, IsInjective, l3
  <2>4. l3[j] \notin {n, p1, p2, b} /\ l3[j] \in DOMAIN v
    BY <1>0, <1>3, <1>4, <1>6, <2>3
  <2> QED  BY <1>0, <1>12, <2>2, <2>4 DEF Same3, l3
<1>21. w[Level3(w, n)[i]] = c /\ Len(Level3(w, n)) = Len(l3)
  BY <1>0, <1>11, <1>12 DEF l3
<1> QED  BY <1>0, <1>18, <1>19, <1>20, <1>21 DEF WriteStep, l3

\* Blocks that are taken and not used leave the file alone.
LEMMA Unwritten ==
  ASSUME NEW v, NEW w, NEW n, Open(v, n), NEW i \in 1 .. Len(Level3(v, n)), NEW c, Typed(w),
         \A x \in DOMAIN v : x \in DOMAIN w /\ w[x] = v[x]
  PROVE  WriteStep(v, w, n, i, c, FALSE)
<1>1. IsTree(v, n) /\ FrozenBelow(v, frozen, n) /\ Blocks(v, n) \subseteq DOMAIN v
  BY TreeFacts DEF Open
<1>2. /\ IsTree(w, n) /\ Level3(w, n) = Level3(v, n) /\ Blocks(w, n) = Blocks(v, n)
      /\ FrozenBelow(w, frozen, n)
  BY <1>1, Same
<1>3. Rewritten(v, w, frozen, n)
  BY <1>2 DEF Rewritten
<1>4. \A j \in 1 .. Len(Level3(v, n)) : Level3(v, n)[j] \in DOMAIN v
  BY <1>1, TreeFacts, LenProperties, SMTT(30) DEF Blocks, Range
<1>5. \A j \in 1 .. Len(Level3(v, n)) : Same3(v, w, n, j)
  BY <1>2, <1>4 DEF Same3
<1> QED  BY <1>2, <1>3, <1>5 DEF WriteStep

IsPut(w, v, b, x) ==
    /\ DOMAIN w = DOMAIN v \cup {b} /\ w[b] = x
    /\ \A y \in DOMAIN v : y # b => w[y] = v[y]
IsDrop(w, v, S) ==
    /\ DOMAIN w = DOMAIN v \ S
    /\ \A y \in DOMAIN v : y \notin S => w[y] = v[y]

LEMMA PutFacts == \A v, b, x : IsPut(Put(v, b, x), v, b, x)
BY DEF Put, IsPut

LEMMA DropFacts == \A v, S : IsDrop(Drop(v, S), v, S)
BY DEF Drop, IsDrop

LEMMA InPlace ==
  ASSUME NEW v, NEW n, Open(v, n), NEW i \in 1 .. Len(Level3(v, n)), NEW c \in Content,
         Level3(v, n)[i] \notin frozen
  PROVE  WriteStep(v, Put(v, Level3(v, n)[i], c), n, i, c, TRUE)
<1> DEFINE l3 == Level3(v, n)
           b == l3[i]
           w == Put(v, b, c)
<1>1. /\ IsTree(v, n) /\ FrozenBelow(v, frozen, n) /\ Blocks(v, n) \subseteq DOMAIN v
      /\ Typed(v) /\ l3 \in Seq(Nat) /\ IsInjective(l3)
      /\ {n} \cap Range(l3) = {} /\ Range(Level1(v, n)) \cap Range(l3) = {}
      /\ Range(Level2(v, n)) \cap Range(l3) = {}
      /\ \A x \in Range(l3) : v[x] \in Content \cup {Zero}
  BY TreeFacts, SMTT(30) DEF Open, IsTree, Holds, Distinct
<1>2. \A j \in 1 .. Len(l3) : l3[j] \in Range(l3) /\ (j # i => l3[j] # b)
  BY <1>1, LenProperties DEF Range, IsInjective
<1>3. b \in DOMAIN v /\ b \in Range(l3)
  BY <1>1, <1>2 DEF Blocks
<1>4. DOMAIN w = DOMAIN v /\ w[b] = c /\ \A x \in DOMAIN v : x # b => w[x] = v[x]
  <2>1. IsPut(w, v, b, c)
    BY PutFacts
  <2> HIDE DEF w
  <2> QED  BY <1>3, <2>1 DEF IsPut
<1> HIDE DEF w
<1>5. \A x \in {n} \cup Range(Level1(v, n)) \cup Range(Level2(v, n)) : x \in DOMAIN w /\ w[x] = v[x]
  BY <1>1, <1>3, <1>4 DEF Blocks
<1>6. \A x \in Range(l3) : x \in DOMAIN w /\ w[x] \in Content \cup {Zero}
  BY <1>1, <1>4 DEF Blocks
<1>7. /\ IsTree(w, n) /\ Level3(w, n) = l3 /\ Blocks(w, n) = Blocks(v, n)
      /\ FrozenBelow(w, frozen, n)
  <2>1. IsTree(v, n) /\ FrozenBelow(v, frozen, n)
    BY <1>1
  <2> QED  BY <1>5, <1>6, <2>1, Kept
<1>8. Typed(w)
  BY <1>1, <1>4 DEF Typed, Kind
<1>9. Rewritten(v, w, frozen, n) /\ Accounted(v, w, frozen, n)
  BY <1>1, <1>3, <1>4, <1>7, <1>8 DEF Rewritten, Accounted, Blocks
<1>10. \A j \in 1 .. Len(l3) : j # i => Same3(v, w, n, j)
  BY <1>1, <1>2, <1>4, <1>7 DEF Same3, Blocks
<1> HIDE DEF l3
<1>11. WriteStep(v, w, n, i, c, TRUE)
  BY <1>4, <1>7, <1>9, <1>10 DEF WriteStep, l3
<1> QED  BY <1>11 DEF w, l3

LEMMA RedirectedFacts ==
  ASSUME NEW v, NEW n, Open(v, n), NEW i \in 1 .. Len(Level3(v, n)), NEW c \in Content,
         Free(v) # {}
  PROVE  \E w, done : /\ Redirected(v, n, Level3(v, n)[i], c) = [vol |-> w, done |-> done]
                      /\ done \in BOOLEAN /\ WriteStep(v, w, n, i, c, done)
<1> DEFINE l1 == Level1(v, n)
           l2 == Level2(v, n)
           l3 == Level3(v, n)
           b == l3[i]
           p2 == l2[Quot(i)]
           p1 == l1[Quot(Quot(i))]
           new == Nth(Free(v), 1)
           v1 == Drop(Put(v, new, c), IF b \in frozen THEN {} ELSE {b})
           new2 == Nth(Free(v1), 1)
           v2 == Put(v1, new2, Replace(v[p2], b, new))
           new1 == Nth(Free(v2), 1)
           Goal == \E w, done : /\ Redirected(v, n, b, c) = [vol |-> w, done |-> done]
                                /\ done \in BOOLEAN /\ WriteStep(v, w, n, i, c, done)
<1>1. /\ Typed(v) /\ IsTree(v, n) /\ FrozenBelow(v, frozen, n) /\ n \notin frozen
      /\ frozen \subseteq DOMAIN v /\ volume \in Volumes
  BY DEF Open
<1>2. /\ Spelled(v, l1, l2) /\ Spelled(v, l2, l3) /\ Distinct(n, l1, l2, l3)
      /\ l1 \in Seq(Nat) /\ l2 \in Seq(Nat) /\ l3 \in Seq(Nat)
      /\ v[n] \in InodeBlock /\ v[n].ptr = l1
      /\ {n} \cup Range(l1) \cup Range(l2) \cup Range(l3) \subseteq DOMAIN v
  BY <1>1, TreeFacts DEF IsTree, Holds, Blocks
<1>3. /\ Quot(i) \in 1 .. Len(l2) /\ Parent(v, l2, b) = p2
  BY <1>2, ParentFacts DEF Distinct
<1>4. /\ Quot(Quot(i)) \in 1 .. Len(l1) /\ Parent(v, l1, p2) = p1
  BY <1>2, <1>3, ParentFacts DEF Distinct
<1>5. /\ p1 \in Range(l1) /\ p2 \in Range(l2) /\ b \in Range(l3)
      /\ v[p2] \in PointerBlock /\ v[p1] \in PointerBlock
      /\ b \in Range(v[p2].ptr) /\ p2 \in Range(v[p1].ptr)
  <2>1. p1 \in Range(l1) /\ p2 \in Range(l2) /\ b \in Range(l3)
    BY <1>2, <1>3, <1>4, LenProperties DEF Range
  <2>2. b \in Range(v[p2].ptr) /\ p2 \in Range(v[p1].ptr)
    BY <1>1, <1>3, TreeFacts
  <2>3. v[p2] \in PointerBlock /\ v[p1] \in PointerBlock
    BY <1>2, <1>3, <1>4 DEF Spelled
  <2> QED  BY <2>1, <2>2, <2>3
<1>6. /\ n \notin {p1, p2, b} /\ p1 # p2 /\ p1 # b /\ p2 # b
      /\ n \in DOMAIN v /\ p1 \in DOMAIN v /\ p2 \in DOMAIN v /\ b \in DOMAIN v
  BY <1>2, <1>5 DEF Distinct
<1>7. /\ p2 \in frozen => b \in frozen
      /\ p1 \in frozen => p2 \in frozen
  BY <1>1, <1>5 DEF FrozenBelow
<1>8. new \in Block /\ new \notin DOMAIN v
  BY <1>1, FirstFree
<1>9. DOMAIN v \subseteq Block /\ \A x \in DOMAIN v : Kind(v[x])
  BY <1>1 DEF Typed
<1>10. /\ Replace(v[p1], p2, p2) = v[p1] /\ Replace(v[n], p1, p1) = v[n]
  BY <1>2, <1>5, ReplaceSame
<1>11. Redirected(v, n, b, c) =
         IF p2 \notin frozen
         THEN [vol |-> Put(v1, p2, Replace(v[p2], b, new)), done |-> TRUE]
         ELSE IF Free(v1) = {} THEN [vol |-> v1, done |-> FALSE]
         ELSE IF p1 \notin frozen
         THEN [vol |-> Put(v2, p1, Replace(v[p1], p2, new2)), done |-> TRUE]
         ELSE IF Free(v2) = {} THEN [vol |-> v2, done |-> FALSE]
         ELSE [vol |-> Put(Put(v2, new1, Replace(v[p1], p2, new2)), n, Replace(v[n], p1, new1)),
               done |-> TRUE]
  BY <1>3, <1>4 DEF Redirected
<1>12. /\ \A x : x \in DOMAIN v1 <=> (x \in DOMAIN v /\ (x = b => b \in frozen)) \/ x = new
       /\ v1[new] = c
       /\ \A x \in DOMAIN v : (x = b => b \in frozen) => v1[x] = v[x]
  <2>1. DOMAIN Put(v, new, c) = DOMAIN v \cup {new}
    BY PutFacts DEF IsPut
  <2>2. \A x \in DOMAIN v : Put(v, new, c)[x] = v[x]
    BY <1>8, PutFacts DEF IsPut
  <2>3. Put(v, new, c)[new] = c
    BY PutFacts DEF IsPut
  <2> HIDE DEF new, b
  <2>4. /\ DOMAIN v1 = (DOMAIN v \cup {new}) \ (IF b \in frozen THEN {} ELSE {b})
        /\ \A x \in DOMAIN v \cup {new} : x \notin (IF b \in frozen THEN {} ELSE {b}) =>
              v1[x] = Put(v, new, c)[x]
    BY <2>1, DropFacts DEF IsDrop
  <2> HIDE DEF v1
  <2>5. new # b
    BY <1>6, <1>8 DEF b
  <2> QED  BY <1>6, <1>8, <2>2, <2>3, <2>4, <2>5
<1> HIDE DEF new, v1, l1, l2, l3, b, p1, p2
<1>13. ASSUME p2 \notin frozen PROVE Goal
  <2> DEFINE w == Put(v1, p2, Replace(v[p2], b, new))
  <2>1. /\ DOMAIN w = DOMAIN v1 \cup {p2} /\ w[p2] = Replace(v[p2], b, new)
        /\ \A x \in DOMAIN v1 : x # p2 => w[x] = v1[x]
    <3>1. IsPut(w, v1, p2, Replace(v[p2], b, new))
      BY PutFacts
    <3> HIDE DEF w
    <3> QED  BY <3>1 DEF IsPut
  <2>2. Redirected(v, n, b, c) = [vol |-> w, done |-> TRUE]
    BY <1>11, <1>13
  <2> HIDE DEF w
  <2>3. \A x : x \in DOMAIN w <=> (x \in DOMAIN v /\ (x = b => b \in frozen)) \/ x \in {p1, p2, new}
    BY <1>6, <1>12, <2>1
  <2>4. /\ w[new] = c /\ w[p1] = Replace(v[p1], p2, p2) /\ w[n] = Replace(v[n], p1, p1)
        /\ \A x \in DOMAIN v : x \notin {n, p1, p2, b} => w[x] = v[x]
        /\ \A x \in frozen : w[x] = v[x]
    BY <1>1, <1>6, <1>8, <1>10, <1>12, <1>13, <2>1
  <2>5. p1 \notin frozen /\ p1 \in Block /\ p2 \in Block /\ new # p1 /\ new # p2
    BY <1>6, <1>7, <1>8, <1>9, <1>13
  <2>6. WriteStep(v, w, n, i, c, TRUE)
    <3>1. Redirects(v, w, n, b, p2, p1, p1, p2, new, c)
      BY <1>6, <1>8, <1>13, <2>1, <2>3, <2>4, <2>5 DEF Redirects
    <3> QED  BY <3>1, RedirectFacts DEF b, p1, p2, l1, l2, l3
  <2> QED  BY <2>2, <2>6
<1>14. ASSUME p2 \in frozen PROVE Goal
  <2>1. /\ DOMAIN v1 = DOMAIN v \cup {new}
        /\ \A x \in DOMAIN v : v1[x] = v[x]
    BY <1>7, <1>12, <1>14
  <2>2. Typed(v1)
    BY <1>8, <1>9, <1>12, <2>1 DEF Typed, Kind
  <2>3. CASE Free(v1) = {}
    <3>1. Redirected(v, n, b, c) = [vol |-> v1, done |-> FALSE]
      BY <1>11, <1>14, <2>3
    <3>2. WriteStep(v, v1, n, i, c, FALSE)
      BY <2>1, <2>2, Unwritten DEF l3
    <3> QED  BY <3>1, <3>2
  <2>4. CASE Free(v1) # {}
    <3>1. new2 \in Block /\ new2 \notin DOMAIN v1
      BY <1>1, <2>4, FirstFree
    <3>2. /\ DOMAIN v2 = DOMAIN v \cup {new, new2} /\ v2[new2] = Replace(v[p2], b, new)
          /\ v2[new] = c /\ \A x \in DOMAIN v : v2[x] = v[x]
      <4> HIDE DEF new2
      <4>1. /\ DOMAIN v2 = DOMAIN v1 \cup {new2} /\ v2[new2] = Replace(v[p2], b, new)
            /\ \A x \in DOMAIN v1 : x # new2 => v2[x] = v1[x]
        <5>1. IsPut(v2, v1, new2, Replace(v[p2], b, new))
          BY PutFacts
        <5> HIDE DEF v2
        <5> QED  BY <5>1 DEF IsPut
      <4> HIDE DEF v2
      <4> QED  BY <1>12, <2>1, <3>1, <4>1
    <3> HIDE DEF new2, v2
    <3>3. Typed(v2)
      <4>1. v[p2] \in [ptr : Seq(Block)]
        <5>1. v[p2].ptr \in Seq(Nat) /\ "ptr" \in DOMAIN v[p2]
          BY <1>5 DEF PointerBlock
        <5>2. Range(v[p2].ptr) \subseteq Block
          <6>1. ASSUME NEW x \in Range(v[p2].ptr) PROVE x \in Range(l3)
            <7>1. PICK k \in 1 .. Len(v[p2].ptr) : x = v[p2].ptr[k]
              BY <5>1, LenProperties DEF Range
            <7>2. v[p2].ptr = Chunk(l3, Quot(i)) /\ Quot(i) \in 1 .. CeilDiv(Len(l3), Fanout)
              BY <1>2, <1>3 DEF Spelled, p2
            <7>3. /\ (Quot(i) - 1) * Fanout + k \in 1 .. Len(l3)
                  /\ x = l3[(Quot(i) - 1) * Fanout + k]
              BY <1>2, <7>1, <7>2, ChunkFacts, SMTT(30)
            <7> QED  BY <1>2, <7>3, LenProperties DEF Range
          <6> QED  BY <1>2, <1>9, <6>1
        <5>3. v[p2].ptr \in Seq(Block)
          BY <5>1, <5>2, SeqInto
        <5> QED  BY <1>5, <5>3 DEF PointerBlock
      <4>2. v2[new2] \in [ptr : Seq(Block)]
        BY <1>8, <3>2, <4>1, ReplaceKind
      <4> QED  BY <1>8, <1>9, <3>1, <3>2, <4>2 DEF Typed, Kind
    <3>4. CASE p1 \notin frozen
      <4> DEFINE w == Put(v2, p1, Replace(v[p1], p2, new2))
      <4>1. /\ DOMAIN w = DOMAIN v2 \cup {p1} /\ w[p1] = Replace(v[p1], p2, new2)
            /\ \A x \in DOMAIN v2 : x # p1 => w[x] = v2[x]
        <5>1. IsPut(w, v2, p1, Replace(v[p1], p2, new2))
          BY PutFacts
        <5> HIDE DEF w
        <5> QED  BY <5>1 DEF IsPut
      <4>2. Redirected(v, n, b, c) = [vol |-> w, done |-> TRUE]
        BY <1>11, <1>14, <2>4, <3>4 DEF v2, new2
      <4> HIDE DEF w
      <4>3. \A x : x \in DOMAIN w <=>
                (x \in DOMAIN v /\ (x = b => b \in frozen)) \/ x \in {p1, new2, new}
        BY <1>6, <1>7, <1>14, <3>2, <4>1
      <4>4. /\ w[new] = c /\ w[new2] = Replace(v[p2], b, new) /\ w[n] = Replace(v[n], p1, p1)
            /\ \A x \in DOMAIN v : x \notin {n, p1, p2, b} => w[x] = v[x]
            /\ \A x \in frozen : w[x] = v[x]
        BY <1>1, <1>6, <1>8, <1>10, <2>1, <3>1, <3>2, <3>4, <4>1
      <4>5. /\ p1 \in Block /\ new2 \notin DOMAIN v /\ new # new2 /\ new # p1 /\ new2 # p1
        BY <1>6, <1>8, <1>9, <2>1, <3>1
      <4>6. WriteStep(v, w, n, i, c, TRUE)
        <5>1. Redirects(v, w, n, b, p2, p1, p1, new2, new, c)
          BY <1>8, <1>14, <3>1, <3>4, <4>1, <4>3, <4>4, <4>5 DEF Redirects
        <5> QED  BY <5>1, RedirectFacts DEF b, p1, p2, l1, l2, l3
      <4> QED  BY <4>2, <4>6
    <3>5. CASE p1 \in frozen /\ Free(v2) = {}
      <4>1. Redirected(v, n, b, c) = [vol |-> v2, done |-> FALSE]
        BY <1>11, <1>14, <2>4, <3>5 DEF v2, new2
      <4>2. WriteStep(v, v2, n, i, c, FALSE)
        BY <3>2, <3>3, Unwritten DEF l3
      <4> QED  BY <4>1, <4>2
    <3>6. CASE p1 \in frozen /\ Free(v2) # {}
      <4>1. new1 \in Block /\ new1 \notin DOMAIN v2
        BY <1>1, <3>6, FirstFree
      <4> DEFINE x1 == Replace(v[p1], p2, new2)
                 v3 == Put(v2, new1, x1)
                 w == Put(v3, n, Replace(v[n], p1, new1))
      <4>2. Redirected(v, n, b, c) = [vol |-> w, done |-> TRUE]
        BY <1>11, <1>14, <2>4, <3>6 DEF v2, new2
      <4> HIDE DEF new1
      <4>3. /\ DOMAIN v3 = DOMAIN v2 \cup {new1} /\ v3[new1] = x1
            /\ \A x \in DOMAIN v2 : x # new1 => v3[x] = v2[x]
        <5>1. IsPut(v3, v2, new1, x1)
          BY PutFacts
        <5> HIDE DEF v3
        <5> QED  BY <5>1 DEF IsPut
      <4> HIDE DEF v3
      <4>4. /\ DOMAIN w = DOMAIN v3 \cup {n} /\ w[n] = Replace(v[n], p1, new1)
            /\ \A x \in DOMAIN v3 : x # n => w[x] = v3[x]
        <5>1. IsPut(w, v3, n, Replace(v[n], p1, new1))
          BY PutFacts
        <5> HIDE DEF w
        <5> QED  BY <5>1 DEF IsPut
      <4> HIDE DEF w, x1
      <4>5. \A x : x \in DOMAIN w <=>
                (x \in DOMAIN v /\ (x = b => b \in frozen)) \/ x \in {new1, new2, new}
        BY <1>6, <1>7, <1>14, <3>2, <4>3, <4>4
      <4>6. /\ w[new] = c /\ w[new2] = Replace(v[p2], b, new) /\ w[new1] = x1
            /\ \A x \in DOMAIN v : x \notin {n, p1, p2, b} => w[x] = v[x]
            /\ \A x \in frozen : w[x] = v[x]
        BY <1>1, <1>6, <1>8, <2>1, <3>1, <3>2, <4>1, <4>3, <4>4
      <4>7. /\ new2 \notin DOMAIN v /\ new1 \notin DOMAIN v /\ new # new2 /\ new # new1 /\ new2 # new1
        BY <1>8, <2>1, <3>1, <3>2, <4>1
      <4>8. WriteStep(v, w, n, i, c, TRUE)
        <5>1. Redirects(v, w, n, b, p2, p1, new1, new2, new, c)
          BY <1>8, <1>14, <3>1, <3>6, <4>1, <4>4, <4>5, <4>6, <4>7 DEF Redirects, x1
        <5> QED  BY <5>1, RedirectFacts DEF b, p1, p2, l1, l2, l3
      <4> QED  BY <4>2, <4>8
    <3> QED  BY <3>4, <3>5, <3>6
  <2> QED  BY <2>3, <2>4
<1> QED  BY <1>13, <1>14 DEF b, l3

\* The value of a state of the loop after the write of one block.
LEMMA WriteBlockFacts ==
  ASSUME NEW v, NEW n, Open(v, n), NEW i \in 1 .. Len(Level3(v, n)), NEW c \in Content
  PROVE  \E w, done : /\ WriteBlock([vol |-> v, done |-> TRUE], n, Level3(v, n)[i], c)
                            = [vol |-> w, done |-> done]
                      /\ done \in BOOLEAN /\ WriteStep(v, w, n, i, c, done)
<1> DEFINE s == [vol |-> v, done |-> TRUE]
           b == Level3(v, n)[i]
<1>1. WriteBlock(s, n, b, c) =
         IF Free(v) # {} THEN Redirected(v, n, b, c)
         ELSE IF b \in frozen THEN [s EXCEPT !.done = FALSE]
         ELSE [s EXCEPT !.vol = Put(@, b, c)]
  BY DEF WriteBlock
<1>2. CASE Free(v) # {}
  BY <1>1, <1>2, RedirectedFacts
<1>3. CASE Free(v) = {} /\ b \in frozen
  <2>1. WriteBlock(s, n, b, c) = [vol |-> v, done |-> FALSE]
    BY <1>1, <1>3
  <2>2. Typed(v)
    BY DEF Open
  <2>3. WriteStep(v, v, n, i, c, FALSE)
    BY <2>2, Unwritten
  <2> QED  BY <2>1, <2>3
<1>4. CASE Free(v) = {} /\ b \notin frozen
  <2>1. WriteBlock(s, n, b, c) = [vol |-> Put(v, b, c), done |-> TRUE]
    BY <1>1, <1>4
  <2> QED  BY <2>1, <1>4, InPlace
<1> QED  BY <1>2, <1>3, <1>4

------------------------------------------------------------------------------
(***************************************************************************)
(* The loop of a write.                                                    *)
(***************************************************************************)
LEMMA OpenStays ==
  ASSUME NEW v, NEW w, NEW n, Open(v, n), Rewritten(v, w, frozen, n)
  PROVE  Open(w, n) /\ \A b \in frozen : w[b] = v[b]
BY DEF Open, Rewritten

LEMMA RewrittenTwice ==
  ASSUME NEW v, NEW w, NEW x, NEW n, Open(v, n),
         Rewritten(v, w, frozen, n), Rewritten(w, x, frozen, n)
  PROVE  /\ Rewritten(v, x, frozen, n)
         /\ Accounted(v, w, frozen, n) /\ Accounted(w, x, frozen, n) => Accounted(v, x, frozen, n)
<1>1. /\ \A b \in DOMAIN v : b \notin Blocks(v, n) \ frozen => b \in DOMAIN w /\ w[b] = v[b]
      /\ \A b \in Blocks(w, n) : b \in Blocks(v, n) \/ b \notin DOMAIN v
      /\ \A b \in DOMAIN w : b \notin Blocks(w, n) \ frozen => b \in DOMAIN x /\ x[b] = w[b]
      /\ \A b \in Blocks(x, n) : b \in Blocks(w, n) \/ b \notin DOMAIN w
      /\ IsTree(w, n) /\ IsTree(x, n) /\ IsTree(v, n) /\ FrozenBelow(x, frozen, n) /\ Typed(x)
      /\ frozen \subseteq DOMAIN v
  BY DEF Rewritten, Open
<1>2. Blocks(w, n) \subseteq DOMAIN w /\ Blocks(x, n) \subseteq DOMAIN x /\ Blocks(v, n) \subseteq DOMAIN v
  BY <1>1, TreeFacts
<1>3. \A b \in DOMAIN v : b \notin Blocks(v, n) \ frozen => b \in DOMAIN x /\ x[b] = v[b]
  BY <1>1
<1>4. \A b \in Blocks(x, n) : b \in Blocks(v, n) \/ b \notin DOMAIN v
  BY <1>1
<1>5. ASSUME Accounted(v, w, frozen, n), Accounted(w, x, frozen, n)
      PROVE  Accounted(v, x, frozen, n)
  <2>1. /\ \A b : b \in DOMAIN w <=> (b \in DOMAIN v /\ b \notin Blocks(v, n) \ frozen) \/ b \in Blocks(w, n)
        /\ \A b : b \in DOMAIN x <=> (b \in DOMAIN w /\ b \notin Blocks(w, n) \ frozen) \/ b \in Blocks(x, n)
    BY <1>5 DEF Accounted
  <2>2. ASSUME NEW b, b \in DOMAIN x
        PROVE  (b \in DOMAIN v /\ b \notin Blocks(v, n) \ frozen) \/ b \in Blocks(x, n)
    BY <1>1, <2>1, <2>2
  <2>3. ASSUME NEW b, (b \in DOMAIN v /\ b \notin Blocks(v, n) \ frozen) \/ b \in Blocks(x, n)
        PROVE  b \in DOMAIN x
    BY <1>2, <1>3, <2>3
  <2> QED  BY <2>2, <2>3 DEF Accounted
<1> QED  BY <1>1, <1>3, <1>4, <1>5 DEF Rewritten

\* The positions from first to q hold c and the rest what it held.
WriteRun(v, w, n, first, q, c) ==
    /\ Rewritten(v, w, frozen, n)
    /\ Len(Level3(w, n)) = Len(Level3(v, n))
    /\ \A j \in 1 .. Len(Level3(v, n)) :
          IF j \in first .. q THEN w[Level3(w, n)[j]] = c ELSE Same3(v, w, n, j)

Loop(v, s, n, first, p, c) ==
    \E w, q, done : /\ s = [vol |-> w, done |-> done] /\ done \in BOOLEAN
                    /\ q \in first - 1 .. p /\ WriteRun(v, w, n, first, q, c)
                    /\ done => q = p /\ Accounted(v, w, frozen, n)

LEMMA LoopStarts ==
  ASSUME NEW v, NEW n, Open(v, n), NEW first \in Nat \ {0}, NEW c
  PROVE  Loop(v, [vol |-> v, done |-> TRUE], n, first, first - 1, c)
<1>1. Rewritten(v, v, frozen, n)
  BY DEF Rewritten, Open
<1>2. Accounted(v, v, frozen, n)
  BY TreeFacts DEF Accounted, Open
<1>3. \A j : Same3(v, v, n, j)
  BY DEF Same3
<1>4. \A j \in 1 .. Len(Level3(v, n)) : j \notin first .. first - 1
  OBVIOUS
<1>5. WriteRun(v, v, n, first, first - 1, c)
  BY <1>1, <1>3, <1>4 DEF WriteRun
<1>6. first - 1 \in first - 1 .. first - 1
  OBVIOUS
<1> QED  BY <1>2, <1>5, <1>6 DEF Loop

LEMMA LoopGoesOn ==
  ASSUME NEW v, NEW n, Open(v, n), NEW first \in Nat \ {0}, NEW c \in Content, NEW s,
         NEW p \in Nat, first <= p, p <= Len(Level3(v, n)), Loop(v, s, n, first, p - 1, c)
  PROVE  Loop(v, WriteBlock(s, n, Level3(v, n)[p], c), n, first, p, c)
<1> DEFINE len == Len(Level3(v, n))
<1>1. PICK w, q, done :
         /\ s = [vol |-> w, done |-> done] /\ done \in BOOLEAN
         /\ q \in first - 1 .. p - 1 /\ WriteRun(v, w, n, first, q, c)
         /\ done => q = p - 1 /\ Accounted(v, w, frozen, n)
  BY DEF Loop
<1>2. len \in Nat
  BY TreeFacts, LenProperties DEF Open
<1> HIDE DEF len
<1>3. /\ Rewritten(v, w, frozen, n) /\ Len(Level3(w, n)) = len
      /\ \A j \in 1 .. len :
            IF j \in first .. q THEN w[Level3(w, n)[j]] = c ELSE Same3(v, w, n, j)
  BY <1>1 DEF WriteRun, len
<1>4. CASE ~done
  <2>1. WriteBlock(s, n, Level3(v, n)[p], c) = s
    BY <1>1, <1>4 DEF WriteBlock
  <2>2. q \in first - 1 .. p
    BY <1>1
  <2> QED  BY <1>1, <1>4, <2>1, <2>2 DEF Loop
<1>5. CASE done
  <2>1. q = p - 1 /\ s = [vol |-> w, done |-> TRUE] /\ Accounted(v, w, frozen, n)
    BY <1>1, <1>5
  <2>2. Open(w, n)
    BY <1>3, OpenStays
  <2>3. p \in 1 .. len /\ p \notin first .. q
    BY <1>2, <2>1 DEF len
  <2>4. Level3(w, n)[p] = Level3(v, n)[p]
    BY <1>3, <2>3 DEF Same3
  <2>5. PICK x, more : /\ WriteBlock(s, n, Level3(v, n)[p], c) = [vol |-> x, done |-> more]
                       /\ more \in BOOLEAN /\ WriteStep(w, x, n, p, c, more)
    BY <1>3, <2>1, <2>2, <2>3, <2>4, WriteBlockFacts
  <2>6. /\ Rewritten(w, x, frozen, n) /\ Len(Level3(x, n)) = len
        /\ \A j \in 1 .. len : j # p => Same3(w, x, n, j)
        /\ more => x[Level3(x, n)[p]] = c /\ Accounted(w, x, frozen, n)
        /\ ~more => Same3(w, x, n, p)
    BY <1>3, <2>5 DEF WriteStep
  <2>7. /\ Rewritten(v, x, frozen, n)
        /\ more => Accounted(v, x, frozen, n)
    BY <1>3, <2>1, <2>6, RewrittenTwice
  <2>8. CASE more
    <3>1. ASSUME NEW j \in 1 .. len
          PROVE  IF j \in first .. p THEN x[Level3(x, n)[j]] = c ELSE Same3(v, x, n, j)
      <4>1. CASE j = p
        BY <2>6, <2>8, <4>1
      <4>2. CASE j # p
        <5>1. j \in first .. p <=> j \in first .. q
          BY <2>1, <4>2, <1>2
        <5>2. Same3(w, x, n, j)
          BY <2>6, <4>2
        <5> QED  BY <1>3, <5>1, <5>2 DEF Same3
      <4> QED  BY <4>1, <4>2
    <3>2. WriteRun(v, x, n, first, p, c)
      BY <2>6, <2>7, <3>1 DEF WriteRun, len
    <3>3. p \in first - 1 .. p
      OBVIOUS
    <3> QED  BY <2>5, <2>7, <2>8, <3>2, <3>3 DEF Loop
  <2>9. CASE ~more
    <3>1. \A j \in 1 .. len : Same3(w, x, n, j)
      BY <2>6, <2>9
    <3>2. \A j \in 1 .. len :
            IF j \in first .. q THEN x[Level3(x, n)[j]] = c ELSE Same3(v, x, n, j)
      BY <1>3, <3>1 DEF Same3
    <3>3. WriteRun(v, x, n, first, q, c)
      BY <2>6, <2>7, <3>2 DEF WriteRun, len
    <3>4. q \in first - 1 .. p
      BY <1>1
    <3> QED  BY <2>5, <2>9, <3>3, <3>4 DEF Loop
  <2> QED  BY <2>8, <2>9
<1> QED  BY <1>1, <1>4, <1>5

\* The function that Written computes exists, and each of its values is a state of
\* the loop.
LEMMA WrittenFacts ==
  ASSUME NEW v, NEW n, Open(v, n), NEW first \in Nat \ {0}, NEW last \in Nat, NEW c \in Content,
         first <= last, last <= Len(Level3(v, n))
  PROVE  Loop(v, Written(v, n, first, last, c), n, first, last, c)
<1> DEFINE blocks == Level3(v, n)
           start == [vol |-> v, done |-> TRUE]
           Runs(f, q) == f = [p \in first - 1 .. q |->
                                IF p < first THEN start ELSE WriteBlock(f[p - 1], n, blocks[p], c)]
           Without == {q \in Nat : q \in first .. last /\ ~(\E f : Runs(f, q))}
           Bad(f) == {p \in Nat : p \in first - 1 .. last /\ ~Loop(v, f[p], n, first, p, c)}
<1>1. Len(blocks) \in Nat
  BY TreeFacts, LenProperties DEF Open
<1>2. Written(v, n, first, last, c) = (CHOOSE f : Runs(f, last))[last]
  BY DEF Written
<1>3. Without = {}
  <2>1. SUFFICES ASSUME Without # {} PROVE FALSE
    OBVIOUS
  <2>2. PICK q \in Without : \A x \in Without : q <= x
    BY <2>1, LeastFacts
  <2>3. q \in first .. last /\ q - 1 \in Nat /\ ~(q <= q - 1)
    BY <2>2
  <2>4. \E f : Runs(f, q - 1)
    <3>1. CASE q = first
      <4>1. [p \in first - 1 .. q - 1 |->
                IF p < first THEN start
                ELSE WriteBlock([r \in first - 1 .. q - 1 |-> start][p - 1], n, blocks[p], c)]
            = [r \in first - 1 .. q - 1 |-> start]
        BY <3>1
      <4>2. Runs([r \in first - 1 .. q - 1 |-> start], q - 1)
        BY <4>1
      <4> QED  BY <4>2
    <3>2. CASE q # first
      <4>1. q - 1 \in first .. last /\ q - 1 \notin Without
        BY <2>2, <2>3, <3>2, SMTT(30)
      <4> QED  BY <2>3, <4>1
    <3> QED  BY <3>1, <3>2
  <2>5. PICK f : Runs(f, q - 1)
    BY <2>4
  <2> DEFINE g == [p \in first - 1 .. q |->
                     IF p = q THEN WriteBlock(f[q - 1], n, blocks[q], c) ELSE f[p]]
  <2>6. ASSUME NEW p \in first - 1 .. q
        PROVE  g[p] = IF p < first THEN start ELSE WriteBlock(g[p - 1], n, blocks[p], c)
    <3>1. CASE p = q
      <4>1. g[p - 1] = f[q - 1] /\ ~(p < first)
        BY <2>3, <3>1
      <4> QED  BY <3>1, <4>1
    <3>2. CASE p # q
      <4>1. p \in first - 1 .. q - 1
        BY <2>3, <2>6, <3>2
      <4>2. f[p] = IF p < first THEN start ELSE WriteBlock(f[p - 1], n, blocks[p], c)
        BY <2>5, <4>1
      <4>3. ~(p < first) => p - 1 \in first - 1 .. q /\ p - 1 # q
        BY <2>3, <4>1
      <4> QED  BY <2>6, <3>2, <4>2, <4>3
    <3> QED  BY <3>1, <3>2
  <2>7. g = [p \in first - 1 .. q |->
               IF p < first THEN start ELSE WriteBlock(g[p - 1], n, blocks[p], c)]
    <3>1. g = [p \in first - 1 .. q |-> g[p]]
      OBVIOUS
    <3> HIDE DEF g
    <3> QED  BY <2>6, <3>1
  <2>8. Runs(g, q)
    <3> HIDE DEF g
    <3> QED  BY <2>7
  <2> QED  BY <2>2, <2>8
<1>4. PICK f : Runs(f, last) /\ Written(v, n, first, last, c) = f[last]
  <2>1. last \in first .. last /\ last \notin Without
    BY <1>3, SMTT(30)
  <2>2. \E f : Runs(f, last)
    BY <2>1
  <2> QED  BY <1>2, <2>2
<1>5. \A p \in first - 1 .. last :
         f[p] = IF p < first THEN start ELSE WriteBlock(f[p - 1], n, blocks[p], c)
  BY <1>4
<1>6. Bad(f) = {}
  <2>1. SUFFICES ASSUME Bad(f) # {} PROVE FALSE
    OBVIOUS
  <2>2. PICK p \in Bad(f) : \A x \in Bad(f) : p <= x
    <3>1. Bad(f) \subseteq Nat
      OBVIOUS
    <3> HIDE DEF Bad
    <3> QED  BY <2>1, <3>1, LeastFacts
  <2>3. p \in first - 1 .. last /\ p \in Nat /\ ~Loop(v, f[p], n, first, p, c)
    BY <2>2
  <2>4. CASE p < first
    <3>1. p = first - 1
      BY <2>3, <2>4
    <3>2. f[p] = start
      BY <1>5, <2>3, <2>4
    <3> QED  BY <2>3, <3>1, <3>2, LoopStarts
  <2>5. CASE first <= p
    <3>1. p - 1 \in first - 1 .. last /\ p - 1 \in Nat /\ ~(p <= p - 1)
      BY <2>3, <2>5
    <3>2. Loop(v, f[p - 1], n, first, p - 1, c)
      BY <2>2, <3>1
    <3>3. f[p] = WriteBlock(f[p - 1], n, blocks[p], c)
      BY <1>5, <2>3, <2>5
    <3>4. p <= Len(Level3(v, n))
      BY <1>1, <2>3
    <3>5. Loop(v, f[p], n, first, p, c)
      BY <2>3, <2>5, <3>2, <3>3, <3>4, LoopGoesOn
    <3> QED  BY <2>3, <3>5
  <2> QED  BY <2>3, <2>4, <2>5
<1>7. last \in first - 1 .. last /\ last \notin Bad(f)
  BY <1>6
<1> QED  BY <1>4, <1>7

------------------------------------------------------------------------------
(***************************************************************************)
(* A resize.                                                               *)
(***************************************************************************)
LEMMA CeilDivGrows ==
  ASSUME NEW a \in Nat, NEW b \in Nat, a <= b
  PROVE  CeilDiv(a, Fanout) <= CeilDiv(b, Fanout)
<1>1. Fanout \in Nat \ {0}
  BY FanoutIsNat
<1> DEFINE x == CeilDiv(a, Fanout)
           y == CeilDiv(b, Fanout)
<1>2. x \in Nat /\ y \in Nat /\ b <= y * Fanout /\ (a > 0 => (x - 1) * Fanout < a) /\ (a = 0 => x = 0)
  BY CeilDivFacts
<1> HIDE DEF x, y
<1>3. SUFFICES ASSUME y < x PROVE FALSE
  BY <1>2 DEF x, y
<1>4. a > 0 /\ (x - 1) * Fanout < a
  BY <1>2, <1>3
<1>5. y * Fanout <= (x - 1) * Fanout
  <2>1. CASE y = x - 1
    BY <1>1, <1>2, <2>1
  <2>2. CASE y < x - 1
    <3>1. y * Fanout + Fanout <= (x - 1) * Fanout
      BY <1>1, <1>2, <2>2, RowsGrow
    <3>2. y * Fanout \in Int /\ (x - 1) * Fanout \in Int
      BY <1>1, <1>2
    <3> QED  BY <1>1, <3>1, <3>2
  <2> QED  BY <1>2, <1>3, <2>1, <2>2
<1>6. y * Fanout \in Int /\ (x - 1) * Fanout \in Int
  BY <1>1, <1>2
<1> QED  BY <1>2, <1>4, <1>5, <1>6

Renewed(s, copy) == [i \in DOMAIN s |-> IF s[i] \in frozen THEN copy[s[i]] ELSE s[i]]

\* Where a block of a new list of a level comes from.
\* The stale blocks are copied, and there are new blocks for the places from skip on.
Taken(v, stale, copy, total, new) ==
    /\ volume \in Volumes /\ DOMAIN v \subseteq Block /\ frozen \subseteq DOMAIN v
    /\ copy \in [stale -> Free(v)] /\ \A x, y \in stale : copy[x] = copy[y] => x = y
    /\ total \in Int /\ new \in [1 .. total -> Free(v) \ Range(copy)]
    /\ \A x, y \in 1 .. total : new[x] = new[y] => x = y
Fits(v, stale, copy, total, new, s, len, skip, t) ==
    /\ Taken(v, stale, copy, total, new)
    /\ s \in Seq(Nat) /\ IsInjective(s) /\ Range(s) \subseteq DOMAIN v
    /\ Range(s) \cap frozen \subseteq stale /\ len \in Nat /\ skip \in Int
    /\ \A k \in 1 .. len - Len(s) : skip + k \in 1 .. total
    /\ t = Fitted(Renewed(s, copy), len, new, skip)

LEMMA FittedFacts ==
  ASSUME NEW v, NEW stale, NEW copy, NEW total, NEW new, NEW s, NEW len, NEW skip, NEW t,
         Fits(v, stale, copy, total, new, s, len, skip, t)
  PROVE  /\ t \in Seq(Block) /\ t \in Seq(Nat) /\ Len(t) = len /\ IsInjective(t)
         /\ \A x \in Range(t) :
               \/ x \in Range(s) /\ x \notin frozen
               \/ \E y \in Range(s) \cap frozen : x = copy[y] /\ x \in Free(v)
               \/ \E k \in 1 .. total : /\ skip < k /\ k <= skip + (len - Len(s))
                                        /\ x = new[k] /\ x \in Free(v) \ Range(copy)
<1>0. /\ volume \in Volumes /\ DOMAIN v \subseteq Block /\ frozen \subseteq DOMAIN v
      /\ copy \in [stale -> Free(v)] /\ \A x, y \in stale : copy[x] = copy[y] => x = y
      /\ total \in Int /\ new \in [1 .. total -> Free(v) \ Range(copy)]
      /\ \A x, y \in 1 .. total : new[x] = new[y] => x = y
      /\ s \in Seq(Nat) /\ IsInjective(s) /\ Range(s) \subseteq DOMAIN v
      /\ Range(s) \cap frozen \subseteq stale /\ len \in Nat /\ skip \in Int
      /\ \A k \in 1 .. len - Len(s) : skip + k \in 1 .. total
      /\ t = Fitted(Renewed(s, copy), len, new, skip)
  BY DEF Fits, Taken
<1> DEFINE m == Len(s)
           r == Renewed(s, copy)
<1>1. m \in Nat /\ DOMAIN s = 1 .. m /\ \A i \in 1 .. m : s[i] \in Range(s) /\ s[i] \in Block
  BY <1>0, LenProperties DEF Range
<1>2. \A x \in Free(v) : x \in Block /\ x \notin DOMAIN v
  BY <1>0 DEF Free
<1>3. /\ DOMAIN r = 1 .. m
      /\ \A i \in 1 .. m : r[i] = IF s[i] \in frozen THEN copy[s[i]] ELSE s[i]
  BY <1>0, <1>1 DEF Renewed
<1>4. \A i \in 1 .. m : s[i] \in frozen => s[i] \in stale /\ copy[s[i]] \in Free(v)
  BY <1>0, <1>1
<1>5. \A i \in 1 .. m : r[i] \in Block
  BY <1>0, <1>1, <1>2, <1>3, <1>4
<1>6. Len(r) = m
  BY <1>0, <1>1, <1>3, <1>5, IsASeq DEF Renewed
<1> HIDE DEF m, r
<1>7. \A i \in 1 .. len : ~(i <= m) => /\ skip + i - m \in 1 .. total /\ skip < skip + i - m
                                       /\ skip + i - m <= skip + (len - m)
  <2>1. SUFFICES ASSUME NEW i \in 1 .. len, ~(i <= m)
                 PROVE  /\ skip + i - m \in 1 .. total /\ skip < skip + i - m
                        /\ skip + i - m <= skip + (len - m)
    BY <1>0
  <2>2. i - m \in 1 .. len - m /\ skip + (i - m) = skip + i - m
    BY <1>0, <1>1, <2>1
  <2>3. skip + (i - m) \in 1 .. total
    BY <1>0, <2>2 DEF m
  <2> QED  BY <1>0, <1>1, <2>1, <2>2, <2>3
<1>8. t = [i \in 1 .. len |-> IF i <= m THEN r[i] ELSE new[skip + i - m]]
  BY <1>0, <1>6 DEF Fitted, r
<1>9. ASSUME NEW i \in 1 .. len
      PROVE  IF i <= m THEN i \in 1 .. m /\ t[i] = r[i] /\ t[i] \in Block
             ELSE /\ t[i] = new[skip + i - m] /\ t[i] \in Free(v) \ Range(copy) /\ t[i] \in Block
  <2>1. CASE i <= m
    <3>1. i \in 1 .. m /\ t[i] = r[i]
      BY <1>0, <1>1, <1>8, <2>1
    <3> QED  BY <1>0, <1>5, <2>1, <3>1
  <2>2. CASE ~(i <= m)
    <3>1. t[i] = new[skip + i - m] /\ skip + i - m \in 1 .. total
      BY <1>0, <1>7, <1>8, <2>2
    <3>2. t[i] \in Free(v) \ Range(copy)
      BY <1>0, <3>1
    <3> QED  BY <1>0, <1>2, <2>2, <3>1, <3>2
  <2> QED  BY <1>0, <2>1, <2>2
<1>10. t \in Seq(Block) /\ Len(t) = len /\ DOMAIN t = 1 .. len
  <2>1. \A i \in 1 .. len : (IF i <= m THEN r[i] ELSE new[skip + i - m]) \in Block
    BY <1>0, <1>8, <1>9
  <2> QED  BY <1>0, <1>8, <2>1, IsASeq
<1>11. Block \subseteq Nat
  BY <1>0, BlockFacts
<1>12. t \in Seq(Nat)
  BY <1>0, <1>10, <1>11, SeqMonotonic
<1>13. ASSUME NEW i \in 1 .. len
       PROVE  \/ i \in 1 .. m /\ t[i] = s[i] /\ t[i] \in Range(s) /\ t[i] \notin frozen
              \/ i \in 1 .. m /\ s[i] \in Range(s) \cap frozen /\ t[i] = copy[s[i]] /\ t[i] \in Free(v)
                 /\ t[i] \in Range(copy)
              \/ ~(i <= m) /\ t[i] = new[skip + i - m] /\ t[i] \in Free(v) \ Range(copy)
  <2>1. CASE i <= m
    <3>1. i \in 1 .. m /\ t[i] = r[i]
      BY <1>0, <1>9, <2>1
    <3>2. s[i] \in frozen => copy[s[i]] \in Range(copy)
      BY <1>0, <1>4, <3>1 DEF Range
    <3> QED  BY <1>0, <1>1, <1>3, <1>4, <3>1, <3>2
  <2>2. CASE ~(i <= m)
    BY <1>0, <1>9, <2>2
  <2> QED  BY <1>0, <2>1, <2>2
<1>14. \A x \in Range(t) :
               \/ x \in Range(s) /\ x \notin frozen
               \/ \E y \in Range(s) \cap frozen : x = copy[y] /\ x \in Free(v)
               \/ \E k \in 1 .. total : /\ skip < k /\ k <= skip + (len - m)
                                        /\ x = new[k] /\ x \in Free(v) \ Range(copy)
  <2>1. SUFFICES ASSUME NEW x \in Range(t)
                 PROVE  \/ x \in Range(s) /\ x \notin frozen
                        \/ \E y \in Range(s) \cap frozen : x = copy[y] /\ x \in Free(v)
                        \/ \E k \in 1 .. total : /\ skip < k /\ k <= skip + (len - m)
                                                 /\ x = new[k] /\ x \in Free(v) \ Range(copy)
    BY <1>0
  <2>2. PICK i \in 1 .. len : x = t[i]
    BY <1>0, <1>10 DEF Range
  <2> QED  BY <1>0, <1>7, <1>13, <2>2
<1>15. IsInjective(t)
  <2>1. SUFFICES ASSUME NEW i \in 1 .. len, NEW j \in 1 .. len, t[i] = t[j] PROVE i = j
    BY <1>0, <1>10 DEF IsInjective
  <2>2. \A x \in 1 .. m, y \in 1 .. m : s[x] = s[y] => x = y
    BY <1>0, <1>1 DEF IsInjective
  <2>3. CASE i <= m /\ j <= m
    BY <1>0, <1>1, <1>2, <1>4, <1>13, <2>1, <2>2, <2>3
  <2>4. CASE ~(i <= m) /\ ~(j <= m)
    <3>1. new[skip + i - m] = new[skip + j - m]
      BY <1>0, <1>13, <2>1, <2>4, <1>1
    <3>2. skip + i - m = skip + j - m
      BY <1>0, <1>7, <2>4, <3>1
    <3> QED  BY <1>0, <1>1, <3>2
  <2>5. CASE ~(i <= m <=> j <= m)
    BY <1>0, <1>1, <1>2, <1>13, <2>1, <2>5
  <2> QED  BY <1>0, <2>3, <2>4, <2>5
<1> QED  BY <1>0, <1>10, <1>12, <1>14, <1>15 DEF m

\* What a resize does: out of space, blocks that are not frozen are freed and the
\* files are lost if one of them was the file's; or else the file has the new size.
Resized(n, size) ==
    /\ Rewritten(vol, vol', frozen, n) /\ Accounted(vol, vol', frozen, n)
    /\ Len(Level3(vol', n)) = size
    /\ \A i \in 1 .. size : vol'[Level3(vol', n)[i]] =
            IF i <= Len(Level3(vol, n)) THEN vol[Level3(vol, n)[i]] ELSE Zero
    /\ UNCHANGED <<sound, leaky>>

Exhausted ==
    /\ \A b \in frozen : b \in DOMAIN vol' /\ vol'[b] = vol[b]
    /\ sound' => \A b \in Live : b \in DOMAIN vol' /\ vol'[b] = vol[b]
    /\ Typed(vol') /\ sound' \in BOOLEAN /\ leaky' = TRUE

LEMMA ResizeOutcome ==
  ASSUME NEW f, NEW size \in 0 .. MaxSize, Open(vol, node[f]), resize(f, size)
  PROVE  Exhausted \/ Resized(node[f], size)
<1> DEFINE n     == node[f]
           old3  == Level3(vol, n)
           old2  == Level2(vol, n)
           old1  == Level1(vol, n)
           old   == old3 \o old2 \o old1
           stale == Range(old) \cap frozen
           free  == Free(vol)
           enough(k) == Cardinality(Range(SubSeq(old, 1, k)) \cap frozen) <= Cardinality(free)
           copy    == Given(stale, free)
           mine(s) == Renewed(s, copy)
           more == free \ Range(copy)
           len2 == CeilDiv(size, Fanout)
           len1 == CeilDiv(len2, Fanout)
           add3 == size - Len(old3)
           add2 == len2 - Len(old2)
           add1 == len1 - Len(old1)
           total == add3 + add2 + add1
           new  == Given(1 .. total, more)
           new3 == Fitted(mine(old3), size, new, 0)
           new2 == Fitted(mine(old2), len2, new, add3)
           new1 == Fitted(mine(old1), len1, new, add3 + add2)
           used == Range(new3) \cup Range(new2) \cup Range(new1)
           at(s, b) == CHOOSE i \in DOMAIN s : s[i] = b
           freed1 == {old[k] : k \in {j \in DOMAIN old : enough(j)}} \ frozen
           freed2 == IF Cardinality(more) < add3 THEN Range(mine(old2)) \cup Range(mine(old1))
                     ELSE IF Cardinality(more) < add3 + add2 THEN Range(mine(old1)) ELSE {}
           all == [b \in Block |-> IF b \in Live THEN vol[b] ELSE Zero]
<1>1. \/ Fails(freed1, vol, old)
      \/ enough(Len(old)) /\ Fails(freed2, all, old)
      \/ /\ enough(Len(old))
         /\ size > Len(old3) => total <= Cardinality(more)
         /\ vol' = [b \in (Live \ (Range(old) \ frozen)) \cup used |->
                            IF b = n THEN [size |-> size, ptr |-> new1]
                            ELSE IF b \in Range(new1) THEN [ptr |-> Chunk(new2, at(new1, b))]
                            ELSE IF b \in Range(new2) THEN [ptr |-> Chunk(new3, at(new2, b))]
                            ELSE IF b \notin Range(new3) THEN vol[b]
                            ELSE IF at(new3, b) > Len(old3) THEN Zero
                            ELSE vol[old3[at(new3, b)]]]
         /\ UNCHANGED <<sound, leaky>>
  BY DEF resize, Renewed
<1>2. /\ Typed(vol) /\ IsTree(vol, n) /\ FrozenBelow(vol, frozen, n) /\ n \notin frozen
      /\ frozen \subseteq Live /\ volume \in Volumes
  BY DEF Open, Live
<1>3. /\ Spelled(vol, old1, old2) /\ Spelled(vol, old2, old3) /\ Distinct(n, old1, old2, old3)
      /\ old1 \in Seq(Nat) /\ old2 \in Seq(Nat) /\ old3 \in Seq(Nat)
      /\ {n} \cup Range(old1) \cup Range(old2) \cup Range(old3) \subseteq Live
      /\ n \in Nat
  BY <1>2, TreeFacts, BlockFacts DEF IsTree, Holds, Blocks, Live, Typed
<1>4. /\ Live \subseteq Block /\ \A b \in Live : Kind(vol[b])
      /\ free \subseteq Block /\ \A b \in free : b \notin Live
      /\ \A b \in Block : b \in Live \/ b \in free
  BY <1>2 DEF Typed, Free, Live
<1>5. old \in Seq(Nat) /\ Range(old) = Range(old3) \cup Range(old2) \cup Range(old1)
  <2> HIDE DEF old3, old2, old1
  <2> DEFINE pair == old3 \o old2
  <2>1. pair \in Seq(Nat) /\ Range(pair) = Range(old3) \cup Range(old2)
    BY <1>3, ConcatProperties, RangeConcatenation
  <2> HIDE DEF pair
  <2>2. pair \o old1 \in Seq(Nat) /\ Range(pair \o old1) = Range(pair) \cup Range(old1)
    BY <1>3, <2>1, ConcatProperties, RangeConcatenation
  <2>3. old = pair \o old1
    BY DEF pair
  <2> QED  BY <2>1, <2>2, <2>3
<1> HIDE DEF old, n, old1, old2, old3, free
<1>6. ASSUME Fails(freed1, vol, old) PROVE Exhausted
  <2>1. vol' = Drop(vol, freed1) /\ sound' = (freed1 \cap Range(old) = {}) /\ leaky' = TRUE
    BY <1>6 DEF Fails
  <2>2. freed1 \subseteq Range(old) /\ freed1 \cap frozen = {}
    BY DEF Range
  <2> HIDE DEF freed1
  <2>3. DOMAIN vol' = Live \ freed1 /\ \A b \in Live : b \notin freed1 => vol'[b] = vol[b]
    BY <2>1, DropFacts DEF Live, IsDrop
  <2>4. Typed(vol')
    BY <1>4, <2>3 DEF Typed
  <2>5. sound' => freed1 = {}
    BY <2>1, <2>2
  <2> QED  BY <1>2, <2>1, <2>2, <2>3, <2>4, <2>5 DEF Exhausted
<1>7. ASSUME enough(Len(old))
      PROVE  /\ copy \in [stale -> free] /\ \A x, y \in stale : copy[x] = copy[y] => x = y
             /\ more \subseteq Nat /\ IsFiniteSet(more)
  <2>1. stale \in SUBSET Block /\ free \in SUBSET Block
    BY <1>2, <1>4
  <2>2. IsFiniteSet(stale) /\ IsFiniteSet(free) /\ stale \subseteq Nat /\ free \subseteq Nat
    BY <1>2, <2>1, BlockFacts
  <2>3. SubSeq(old, 1, Len(old)) = old
    BY <1>5, SubSeqFull
  <2>4. Cardinality(stale) <= Cardinality(free)
    BY <1>7, <2>3
  <2>5. more \subseteq Nat /\ IsFiniteSet(more)
    <3>1. more \in SUBSET Block
      BY <1>4
    <3> HIDE DEF more
    <3> QED  BY <1>2, <3>1, BlockFacts
  <2> HIDE DEF stale
  <2> QED  BY <2>2, <2>4, <2>5, GivenFacts
<1>8. ASSUME enough(Len(old)), Fails(freed2, all, old) PROVE Exhausted
  <2>1. vol' = Drop(all, freed2) /\ sound' = (freed2 \cap Range(old) = {}) /\ leaky' = TRUE
    BY <1>8 DEF Fails
  <2>2. ASSUME NEW s \in Seq(Nat), Range(s) \subseteq Range(old), NEW x \in Range(mine(s))
        PROVE  x \notin frozen /\ (x \in Live => x \in Range(old))
    <3>1. PICK i \in DOMAIN s : x = IF s[i] \in frozen THEN copy[s[i]] ELSE s[i]
      BY <2>2 DEF Range, Renewed
    <3>2. s[i] \in Range(old)
      BY <2>2 DEF Range
    <3>3. s[i] \in frozen => copy[s[i]] \in free
      BY <1>7, <1>8, <3>2
    <3> QED  BY <1>2, <1>4, <3>1, <3>2, <3>3
  <2>3. freed2 \subseteq Range(mine(old2)) \cup Range(mine(old1))
    OBVIOUS
  <2>4. \A x \in freed2 : x \notin frozen /\ (x \in Live => x \in Range(old))
    <3> HIDE DEF freed2
    <3> QED  BY <1>3, <1>5, <2>2, <2>3
  <2> HIDE DEF freed2
  <2>5. DOMAIN vol' = Block \ freed2 /\ \A b \in Block : b \notin freed2 => vol'[b] = all[b]
    <3>1. DOMAIN all = Block
      OBVIOUS
    <3> HIDE DEF all
    <3> QED  BY <2>1, <3>1, DropFacts DEF IsDrop
  <2>6. \A b \in Block : b \notin freed2 => vol'[b] = IF b \in Live THEN vol[b] ELSE Zero
    BY <2>5
  <2>7. Typed(vol')
    BY <1>4, <2>5, <2>6 DEF Typed, Kind
  <2>8. sound' => \A b \in Live : b \notin freed2
    BY <2>1, <2>4
  <2>9. \A b \in frozen : b \in DOMAIN vol' /\ vol'[b] = vol[b]
    BY <1>2, <1>4, <2>4, <2>5, <2>6
  <2>10. sound' => \A b \in Live : b \in DOMAIN vol' /\ vol'[b] = vol[b]
    BY <1>4, <2>5, <2>6, <2>8
  <2> QED  BY <2>1, <2>7, <2>9, <2>10 DEF Exhausted
<1>9. ASSUME enough(Len(old)),
             size > Len(old3) => total <= Cardinality(more),
             vol' = [b \in (Live \ (Range(old) \ frozen)) \cup used |->
                            IF b = n THEN [size |-> size, ptr |-> new1]
                            ELSE IF b \in Range(new1) THEN [ptr |-> Chunk(new2, at(new1, b))]
                            ELSE IF b \in Range(new2) THEN [ptr |-> Chunk(new3, at(new2, b))]
                            ELSE IF b \notin Range(new3) THEN vol[b]
                            ELSE IF at(new3, b) > Len(old3) THEN Zero
                            ELSE vol[old3[at(new3, b)]]],
             UNCHANGED <<sound, leaky>>
      PROVE  Resized(n, size)
  <2>1. /\ Len(old1) \in Nat /\ Len(old2) \in Nat /\ Len(old3) \in Nat
        /\ Len(old1) = CeilDiv(Len(old2), Fanout) /\ Len(old2) = CeilDiv(Len(old3), Fanout)
        /\ IsInjective(old1) /\ IsInjective(old2) /\ IsInjective(old3)
        /\ n \notin Range(old1) \cup Range(old2) \cup Range(old3)
        /\ Range(old1) \cap Range(old2) = {} /\ Range(old1) \cap Range(old3) = {}
        /\ Range(old2) \cap Range(old3) = {}
    BY <1>3, LenProperties DEF Spelled, Distinct
  <2>2. size \in Nat /\ len2 \in Nat /\ len1 \in Nat
    <3>1. size \in Nat
      BY InodeAssumption
    <3>2. len2 \in Nat
      BY <3>1, CeilDivFacts
    <3> HIDE DEF len2
    <3> QED  BY <3>1, <3>2, CeilDivFacts
  <2>3. /\ size > Len(old3) => len2 >= Len(old2) /\ len1 >= Len(old1)
        /\ size <= Len(old3) => len2 <= Len(old2) /\ len1 <= Len(old1)
    <3>1. /\ size > Len(old3) => len2 >= Len(old2)
          /\ size <= Len(old3) => len2 <= Len(old2)
      BY <2>1, <2>2, CeilDivGrows
    <3> HIDE DEF len2
    <3>2. /\ size > Len(old3) => len1 >= Len(old1)
          /\ size <= Len(old3) => len1 <= Len(old1)
      BY <2>1, <2>2, <3>1, CeilDivGrows
    <3> QED  BY <3>1, <3>2
  <2> HIDE DEF len1, len2
  <2>4. /\ add3 \in Int /\ add2 \in Int /\ add1 \in Int
        /\ (add3 > 0 /\ add2 >= 0 /\ add1 >= 0 /\ total <= Cardinality(more))
              \/ (add3 <= 0 /\ add2 <= 0 /\ add1 <= 0)
        /\ total = add3 + add2 + add1
    BY <1>9, <2>1, <2>2, <2>3
  <2> HIDE DEF add1, add2, add3, total
  <2>5. copy \in [stale -> free] /\ \A x, y \in stale : copy[x] = copy[y] => x = y
    BY <1>7, <1>9
  <2>6. new \in [1 .. total -> more] /\ \A x, y \in 1 .. total : new[x] = new[y] => x = y
    <3>1. more \subseteq Nat /\ IsFiniteSet(more) /\ Cardinality(more) \in Nat
      BY <1>7, <1>9, FS_CardinalityType
    <3>2. IsFiniteSet(1 .. total) /\ Cardinality(1 .. total) = IF 1 > total THEN 0 ELSE total - 1 + 1
      BY <2>4, FS_Interval
    <3> HIDE DEF more
    <3>3. Cardinality(1 .. total) <= Cardinality(more)
      BY <2>4, <3>1, <3>2
    <3>4. 1 .. total \subseteq Nat
      BY <2>4
    <3> QED  BY <3>1, <3>2, <3>3, <3>4, GivenFacts
  <2> DEFINE From(x, s, from, to) ==
                \/ x \in Range(s) /\ x \notin frozen
                \/ \E y \in Range(s) \cap frozen : x = copy[y] /\ x \in free
                \/ \E k \in 1 .. total : from < k /\ k <= to /\ x = new[k] /\ x \in more
  <2>7. ASSUME NEW s \in Seq(Nat), IsInjective(s), Range(s) \subseteq Range(old), NEW len \in Nat,
               NEW skip \in Int, \A k \in 1 .. len - Len(s) : skip + k \in 1 .. total,
               NEW t, t = Fitted(mine(s), len, new, skip)
        PROVE  /\ t \in Seq(Block) /\ t \in Seq(Nat) /\ Len(t) = len /\ IsInjective(t)
               /\ \A x \in Range(t) : From(x, s, skip, skip + (len - Len(s)))
    <3>1. Range(s) \subseteq Live /\ Range(s) \cap frozen \subseteq stale
      BY <1>3, <1>5, <2>7
    <3>2. total \in Int
      BY <2>4
    <3> HIDE DEF copy, new, stale
    <3>3. new \in [1 .. total -> Free(vol) \ Range(copy)] /\ copy \in [stale -> Free(vol)]
      BY <2>5, <2>6 DEF free
    <3>4. DOMAIN vol \subseteq Block /\ frozen \subseteq DOMAIN vol /\ Range(s) \subseteq DOMAIN vol
      BY <1>2, <1>4, <3>1 DEF Live
    <3>5. /\ t \in Seq(Block) /\ t \in Seq(Nat) /\ Len(t) = len /\ IsInjective(t)
          /\ \A x \in Range(t) :
               \/ x \in Range(s) /\ x \notin frozen
               \/ \E y \in Range(s) \cap frozen : x = copy[y] /\ x \in Free(vol)
               \/ \E k \in 1 .. total : /\ skip < k /\ k <= skip + (len - Len(s))
                                        /\ x = new[k] /\ x \in Free(vol) \ Range(copy)
      <4>1. Taken(vol, stale, copy, total, new)
        BY <1>2, <2>5, <2>6, <3>2, <3>3, <3>4 DEF Taken
      <4>2. t = Fitted(Renewed(s, copy), len, new, skip)
        BY <2>7
      <4>3. /\ s \in Seq(Nat) /\ IsInjective(s) /\ len \in Nat /\ skip \in Int
            /\ Range(s) \subseteq DOMAIN vol /\ Range(s) \cap frozen \subseteq stale
            /\ \A k \in 1 .. len - Len(s) : skip + k \in 1 .. total
        BY <2>7, <3>1, <3>4
      <4>4. Fits(vol, stale, copy, total, new, s, len, skip, t)
        BY <4>1, <4>2, <4>3 DEF Fits
      <4> QED  BY <4>4, FittedFacts
    <3> QED  BY <3>5 DEF free
  <2> HIDE DEF new, copy
  <2>8. /\ new3 \in Seq(Block) /\ new3 \in Seq(Nat) /\ Len(new3) = size /\ IsInjective(new3)
        /\ \A x \in Range(new3) : From(x, old3, 0, add3)
    <3>1. \A k \in 1 .. size - Len(old3) : 0 + k \in 1 .. total
      BY <2>1, <2>2, <2>4 DEF add3
    <3>2. 0 + (size - Len(old3)) = add3
      BY <2>1, <2>2 DEF add3
    <3> HIDE DEF mine, From
    <3>3. /\ new3 \in Seq(Block) /\ new3 \in Seq(Nat) /\ Len(new3) = size /\ IsInjective(new3)
          /\ \A x \in Range(new3) : From(x, old3, 0, 0 + (size - Len(old3)))
      BY <1>3, <1>5, <2>1, <2>2, <2>7, <3>1
    <3> QED  BY <3>2, <3>3
  <2>9. /\ new2 \in Seq(Block) /\ new2 \in Seq(Nat) /\ Len(new2) = len2 /\ IsInjective(new2)
        /\ \A x \in Range(new2) : From(x, old2, add3, add3 + add2)
    <3>1. \A k \in 1 .. len2 - Len(old2) : add3 + k \in 1 .. total
      BY <2>1, <2>2, <2>4 DEF add2
    <3>2. add3 + (len2 - Len(old2)) = add3 + add2
      BY DEF add2
    <3> HIDE DEF mine, From
    <3>3. /\ new2 \in Seq(Block) /\ new2 \in Seq(Nat) /\ Len(new2) = len2 /\ IsInjective(new2)
          /\ \A x \in Range(new2) : From(x, old2, add3, add3 + (len2 - Len(old2)))
      BY <1>3, <1>5, <2>1, <2>2, <2>4, <2>7, <3>1
    <3> QED  BY <3>2, <3>3
  <2>10. /\ new1 \in Seq(Block) /\ new1 \in Seq(Nat) /\ Len(new1) = len1 /\ IsInjective(new1)
         /\ \A x \in Range(new1) : From(x, old1, add3 + add2, total)
    <3>1. \A k \in 1 .. len1 - Len(old1) : add3 + add2 + k \in 1 .. total
      BY <2>1, <2>2, <2>4 DEF add1
    <3>2. add3 + add2 + (len1 - Len(old1)) = total /\ add3 + add2 \in Int
      BY <2>1, <2>2, <2>4 DEF add1
    <3> HIDE DEF mine, From
    <3>3. /\ new1 \in Seq(Block) /\ new1 \in Seq(Nat) /\ Len(new1) = len1 /\ IsInjective(new1)
          /\ \A x \in Range(new1) : From(x, old1, add3 + add2, add3 + add2 + (len1 - Len(old1)))
      <4>1. /\ old1 \in Seq(Nat) /\ IsInjective(old1) /\ Range(old1) \subseteq Range(old)
            /\ len1 \in Nat /\ add3 + add2 \in Int
            /\ \A k \in 1 .. len1 - Len(old1) : add3 + add2 + k \in 1 .. total
        BY <1>3, <1>5, <2>1, <2>2, <3>1, <3>2
      <4>2. new1 = Fitted(mine(old1), len1, new, add3 + add2)
        OBVIOUS
      <4> QED  BY <2>7, <4>1, <4>2
    <3> QED  BY <3>2, <3>3
  <2> HIDE DEF new1, new2, new3
  <2>11. ASSUME NEW x, NEW s, NEW from, NEW to, Range(s) \subseteq Range(old), From(x, s, from, to)
         PROVE  /\ (x \in Range(s) /\ x \notin frozen) \/ x \in free
                /\ x # n
    <3>1. (x \in Range(s) /\ x \notin frozen) \/ x \in free
      BY <2>11
    <3> QED  BY <1>3, <1>4, <1>5, <2>1, <2>11, <3>1
  <2>12. ASSUME NEW x, NEW s, NEW s2, Range(s) \cap Range(s2) = {}, Range(s) \cup Range(s2) \subseteq Range(old),
                NEW a \in Int, NEW b \in Int, NEW c \in Int, NEW d \in Int, b <= c \/ d <= c \/ b <= a,
                From(x, s, a, b), From(x, s2, c, d)
         PROVE  FALSE
    <3>1. \A y \in stale : copy[y] \in free /\ copy[y] \in Range(copy)
      BY <2>5 DEF Range
    <3>2. \A y \in (Range(s) \cup Range(s2)) \cap frozen : y \in stale
      BY <2>12
    <3>3. ASSUME NEW y \in Range(s) \cap frozen, x = copy[y] PROVE FALSE
      <4> HIDE DEF stale
      <4> QED  BY <1>3, <1>4, <1>5, <2>5, <2>12, <3>1, <3>2, <3>3
    <3>4. ASSUME NEW y \in Range(s2) \cap frozen, x = copy[y] PROVE FALSE
      <4> HIDE DEF stale
      <4> QED  BY <1>3, <1>4, <1>5, <2>5, <2>12, <3>1, <3>2, <3>4
    <3>5. ASSUME x \in Range(s) PROVE FALSE
      BY <1>3, <1>4, <1>5, <2>12, <3>3, <3>4, <3>5
    <3>6. ASSUME x \in Range(s2) PROVE FALSE
      BY <1>3, <1>4, <1>5, <2>12, <3>3, <3>4, <3>6
    <3>7. PICK k \in 1 .. total : a < k /\ k <= b /\ x = new[k]
      BY <2>12, <3>3, <3>5
    <3>8. PICK j \in 1 .. total : c < j /\ j <= d /\ x = new[j]
      BY <2>12, <3>4, <3>6
    <3>9. k = j
      BY <2>6, <3>7, <3>8
    <3> QED  BY <2>4, <2>12, <3>7, <3>8, <3>9
  <2>13. Distinct(n, new1, new2, new3)
    <3>1. /\ Range(old1) \cup Range(old2) \subseteq Range(old)
          /\ Range(old1) \cup Range(old3) \subseteq Range(old)
          /\ Range(old2) \cup Range(old3) \subseteq Range(old)
          /\ Range(old1) \subseteq Range(old) /\ Range(old2) \subseteq Range(old)
          /\ Range(old3) \subseteq Range(old)
      BY <1>5
    <3> HIDE DEF From
    <3>2. n \notin Range(new1) \cup Range(new2) \cup Range(new3)
      BY <2>8, <2>9, <2>10, <2>11, <3>1
    <3>3. Range(new2) \cap Range(new3) = {}
      BY <2>1, <2>4, <2>8, <2>9, <2>12, <3>1, SMTT(30)
    <3>4. total \in Int /\ add3 + add2 \in Int /\ (add3 <= add3 + add2 \/ total <= add3 + add2)
      BY <2>4
    <3>5. Range(new1) \cap Range(new3) = {}
      <4>1. SUFFICES ASSUME NEW x \in Range(new1), x \in Range(new3) PROVE FALSE
        OBVIOUS
      <4>2. From(x, old3, 0, add3) /\ From(x, old1, add3 + add2, total)
        BY <2>8, <2>10, <4>1
      <4> QED  BY <2>1, <2>4, <2>12, <3>1, <3>4, <4>2
    <3>6. Range(new1) \cap Range(new2) = {}
      <4>1. SUFFICES ASSUME NEW x \in Range(new1), x \in Range(new2) PROVE FALSE
        OBVIOUS
      <4>2. From(x, old2, add3, add3 + add2) /\ From(x, old1, add3 + add2, total)
        BY <2>9, <2>10, <4>1
      <4>3. add3 + add2 <= add3 + add2
        BY <3>4
      <4> QED  BY <2>1, <2>4, <2>12, <3>1, <3>4, <4>2, <4>3
    <3> QED  BY <2>8, <2>9, <2>10, <3>2, <3>3, <3>5, <3>6 DEF Distinct
  <2>14. \A x \in used : (x \in Range(old) /\ x \notin frozen) \/ x \in free
    <3> HIDE DEF From
    <3> QED  BY <1>5, <2>8, <2>9, <2>10, <2>11
  <2> HIDE DEF From
  <2>15. /\ n \notin Range(new1) \cup Range(new2) \cup Range(new3)
         /\ Range(new1) \cap Range(new2) = {} /\ Range(new1) \cap Range(new3) = {}
         /\ Range(new2) \cap Range(new3) = {}
    BY <2>13 DEF Distinct
  <2>16. ASSUME NEW s \in Seq(Nat), IsInjective(s), NEW i \in 1 .. Len(s)
         PROVE  s[i] \in Range(s) /\ at(s, s[i]) = i
    BY <2>16, LenProperties DEF IsInjective, Range
  <2> HIDE DEF at
  <2>17. /\ DOMAIN vol' = (Live \ (Range(old) \ frozen)) \cup used
         /\ n \in DOMAIN vol' /\ vol'[n] = [size |-> size, ptr |-> new1]
         /\ \A i \in 1 .. Len(new1) : /\ new1[i] \in DOMAIN vol'
                                      /\ vol'[new1[i]] = [ptr |-> Chunk(new2, i)]
         /\ \A i \in 1 .. Len(new2) : /\ new2[i] \in DOMAIN vol'
                                      /\ vol'[new2[i]] = [ptr |-> Chunk(new3, i)]
         /\ \A i \in 1 .. Len(new3) : /\ new3[i] \in DOMAIN vol'
                                      /\ vol'[new3[i]] = IF i > Len(old3) THEN Zero ELSE vol[old3[i]]
         /\ \A b \in Live : b \notin (Range(old) \ frozen) \cup used \cup {n} => vol'[b] = vol[b]
    <3>1. DOMAIN vol' = (Live \ (Range(old) \ frozen)) \cup used
      BY <1>9
    <3>2. n \in DOMAIN vol' /\ vol'[n] = [size |-> size, ptr |-> new1]
      BY <1>3, <1>5, <1>9, <2>1
    <3>3. ASSUME NEW i \in 1 .. Len(new1)
          PROVE  new1[i] \in DOMAIN vol' /\ vol'[new1[i]] = [ptr |-> Chunk(new2, i)]
      <4>1. new1[i] \in Range(new1) /\ at(new1, new1[i]) = i
        BY <2>10, <2>16
      <4> QED  BY <1>9, <2>15, <4>1
    <3>4. ASSUME NEW i \in 1 .. Len(new2)
          PROVE  new2[i] \in DOMAIN vol' /\ vol'[new2[i]] = [ptr |-> Chunk(new3, i)]
      <4>1. new2[i] \in Range(new2) /\ at(new2, new2[i]) = i
        BY <2>9, <2>16
      <4> QED  BY <1>9, <2>15, <4>1
    <3>5. ASSUME NEW i \in 1 .. Len(new3)
          PROVE  /\ new3[i] \in DOMAIN vol'
                 /\ vol'[new3[i]] = IF i > Len(old3) THEN Zero ELSE vol[old3[i]]
      <4>1. new3[i] \in Range(new3) /\ at(new3, new3[i]) = i
        BY <2>8, <2>16
      <4> QED  BY <1>9, <2>15, <4>1
    <3>6. \A b \in Live : b \notin (Range(old) \ frozen) \cup used \cup {n} => vol'[b] = vol[b]
      BY <1>9
    <3> QED  BY <3>1, <3>2, <3>3, <3>4, <3>5, <3>6
  <2>18. ASSUME NEW list \in Seq(Nat), NEW points \in Seq(Nat), Len(list) = CeilDiv(Len(points), Fanout),
                \A i \in 1 .. Len(list) : list[i] \in DOMAIN vol' /\ vol'[list[i]] = [ptr |-> Chunk(points, i)]
         PROVE  Spelled(vol', list, points)
    <3>1. \A i \in 1 .. Len(list) : Chunk(points, i) \in Seq(Nat)
      BY <2>18, ChunkFacts
    <3>2. ASSUME NEW i \in 1 .. Len(list)
          PROVE  /\ list[i] \in DOMAIN vol' /\ vol'[list[i]] \in PointerBlock
                 /\ vol'[list[i]].ptr = Chunk(points, i)
      <4> DEFINE ch == Chunk(points, i)
      <4>1. ch \in Seq(Nat) /\ list[i] \in DOMAIN vol' /\ vol'[list[i]] = [ptr |-> ch]
        BY <2>18, <3>1
      <4> HIDE DEF ch
      <4>2. vol'[list[i]] \in PointerBlock /\ vol'[list[i]].ptr = ch
        BY <4>1 DEF PointerBlock
      <4> QED  BY <4>1, <4>2 DEF ch
    <3> QED  BY <2>18, <3>2 DEF Spelled
  <2>19. Spelled(vol', new1, new2) /\ Spelled(vol', new2, new3)
    BY <2>8, <2>9, <2>10, <2>17, <2>18 DEF len1, len2
  <2>20. \A i \in 1 .. Len(old3) : vol[old3[i]] \in Content \cup {Zero}
    BY <1>2, <1>3, LenProperties DEF IsTree, Holds, Range, old3
  <2>21. \A b \in Range(new3) : b \in DOMAIN vol' /\ vol'[b] \in Content \cup {Zero}
    <3>1. SUFFICES ASSUME NEW i \in 1 .. Len(new3)
                   PROVE  new3[i] \in DOMAIN vol' /\ vol'[new3[i]] \in Content \cup {Zero}
      BY <2>8, LenProperties DEF Range
    <3> QED  BY <2>1, <2>2, <2>8, <2>17, <2>20, SMTT(30)
  <2>22. Holds(vol', n, new1, new2, new3)
    BY <2>8, <2>10, <2>13, <2>17, <2>19, <2>21 DEF Holds, InodeBlock
  <2>23. /\ Level1(vol', n) = new1 /\ Level2(vol', n) = new2 /\ Level3(vol', n) = new3 /\ IsTree(vol', n)
         /\ Blocks(vol', n) = {n} \cup Range(new1) \cup Range(new2) \cup Range(new3)
    BY <2>22, Determined
  <2>24. Blocks(vol, n) = {n} \cup Range(old)
    BY <1>5 DEF Blocks, old1, old2, old3
  <2>25. FrozenBelow(vol', frozen, n)
    BY <1>2, <1>4, <2>14, <2>23 DEF FrozenBelow
  <2>26. \A b \in Live : b \notin Blocks(vol, n) \ frozen => b \in DOMAIN vol' /\ vol'[b] = vol[b]
    BY <1>2, <1>4, <2>14, <2>17, <2>24
  <2>27. \A b \in Blocks(vol', n) : b \in Blocks(vol, n) \/ b \notin Live
    BY <1>4, <2>14, <2>23, <2>24
  <2>28. Typed(vol')
    <3>1. DOMAIN vol' \subseteq Block
      BY <1>3, <1>4, <1>5, <2>14, <2>17
    <3>2. Blocks(vol', n) \subseteq DOMAIN vol'
      BY <2>23, TreeFacts
    <3>3. \A b \in Blocks(vol', n) : Kind(vol'[b])
      BY <2>23, <3>1, <3>2, TreeTyped
    <3>4. ASSUME NEW b \in DOMAIN vol', b \notin Blocks(vol', n) PROVE Kind(vol'[b])
      BY <1>4, <2>17, <2>23, <3>4
    <3> QED  BY <3>1, <3>3, <3>4 DEF Typed
  <2>29. Accounted(vol, vol', frozen, n)
    BY <1>2, <1>3, <2>17, <2>23, <2>24 DEF Accounted, Live
  <2>30. Rewritten(vol, vol', frozen, n)
    BY <2>23, <2>25, <2>26, <2>27, <2>28 DEF Rewritten, Live
  <2>31. \A i \in 1 .. size : vol'[Level3(vol', n)[i]] =
            IF i <= Len(Level3(vol, n)) THEN vol[Level3(vol, n)[i]] ELSE Zero
    BY <2>1, <2>2, <2>8, <2>17, <2>23 DEF old3
  <2> QED  BY <1>9, <2>8, <2>23, <2>29, <2>30, <2>31 DEF Resized
<1> QED  BY <1>1, <1>6, <1>8, <1>9 DEF n

------------------------------------------------------------------------------
(***************************************************************************)
(* The invariant, action by action.                                        *)
(***************************************************************************)
LEMMA InvariantFacts ==
  ASSUME IInv
  PROVE  /\ volume \in Volumes /\ Typed(vol) /\ frozen \subseteq DOMAIN vol /\ node \in Names
         /\ Len(snaps) <= MaxSnapshots /\ sound \in BOOLEAN /\ leaky \in BOOLEAN
         /\ OneName(node) /\ snaps \in Seq([node : Names, sound : BOOLEAN])
         /\ \A s \in DOMAIN snaps : OneName(snaps[s].node)
         /\ sound => FilesOK(vol, frozen, node)
         /\ \A s \in DOMAIN snaps : snaps[s].sound => ShotOK(vol, frozen, snaps[s].node)
         /\ ~leaky => /\ sound /\ \A s \in DOMAIN snaps : snaps[s].sound
                      /\ frozen = OfShots(vol, snaps)
                      /\ DOMAIN vol = OfFiles(vol, node) \cup frozen
BY DEF IInv, TypeOK, Typed, Kind, Live, Names

LEMMA Establish ==
  ASSUME volume \in Volumes, UNCHANGED volume, Typed(vol'), frozen' \subseteq DOMAIN vol',
         node' \in Names, Len(snaps') <= MaxSnapshots, sound' \in BOOLEAN, leaky' \in BOOLEAN,
         OneName(node'), snaps' \in Seq([node : Names, sound : BOOLEAN]),
         \A s \in DOMAIN snaps' : OneName(snaps'[s].node),
         sound' => FilesOK(vol', frozen', node'),
         \A s \in DOMAIN snaps' : snaps'[s].sound => ShotOK(vol', frozen', snaps'[s].node),
         ~leaky' => /\ sound' /\ \A s \in DOMAIN snaps' : snaps'[s].sound
                    /\ frozen' = OfShots(vol', snaps')
                    /\ DOMAIN vol' = OfFiles(vol', node') \cup frozen'
  PROVE  IInv'
<1>1. Block' = Block /\ Names' = Names
  BY DEF Block, Names
<1>2. TypeOK'
  BY <1>1 DEF TypeOK, Typed, Kind, Live, Names
<1> QED  BY <1>1, <1>2 DEF IInv, Live

\* What a file's inode is, and that it may be written.
LEMMA OpenFile ==
  ASSUME IInv, NEW f \in File, Writable(f)
  PROVE  Open(vol, node[f]) /\ node[f] \in Nodes(node) /\ sound
<1>1. sound /\ node[f] \in Nodes(node) /\ node[f] \notin frozen
  BY DEF Writable, Nodes
<1>2. FilesOK(vol, frozen, node)
  BY <1>1, InvariantFacts
<1>3. IsTree(vol, node[f]) /\ FrozenBelow(vol, frozen, node[f])
  BY <1>1, <1>2 DEF FilesOK
<1> QED  BY <1>1, <1>3, InvariantFacts DEF Open

\* The snapshots, when what is frozen stays.
LEMMA ShotsKept ==
  ASSUME IInv, NEW w, Keeps(vol, w, frozen)
  PROVE  /\ \A s \in DOMAIN snaps : snaps[s].sound => ShotOK(w, frozen, snaps[s].node)
         /\ ~leaky => frozen = OfShots(w, snaps)
<1>1. ASSUME NEW s \in DOMAIN snaps, snaps[s].sound
      PROVE  ShotOK(w, frozen, snaps[s].node)
  <2> DEFINE names == snaps[s].node
  <2>1. ShotOK(vol, frozen, names)
    BY <1>1, InvariantFacts
  <2> HIDE DEF names
  <2>2. ShotOK(w, frozen, names)
    BY <2>1, ShotStays
  <2> QED  BY <2>2 DEF names
<1>2. ASSUME ~leaky PROVE frozen = OfShots(w, snaps)
  <2>1. /\ \A s \in DOMAIN snaps : snaps[s].sound /\ ShotOK(vol, frozen, snaps[s].node)
        /\ frozen = OfShots(vol, snaps)
    BY <1>2, InvariantFacts
  <2>2. OfShots(w, snaps) = OfShots(vol, snaps)
    BY <2>1, ShotsStay
  <2> QED  BY <2>1, <2>2
<1> QED  BY <1>1, <1>2

\* A call that changes one file, and may leave blocks behind when it fails.
LEMMA OneFileChanges ==
  ASSUME IInv, UNCHANGED <<volume, frozen, node, snaps, sound>>, sound,
         NEW n \in Nodes(node), Rewritten(vol, vol', frozen, n), leaky' \in BOOLEAN,
         ~leaky' => ~leaky /\ Accounted(vol, vol', frozen, n)
  PROVE  IInv'
<1>1. \A b \in DOMAIN vol : b \notin Blocks(vol, n) \ frozen => b \in DOMAIN vol' /\ vol'[b] = vol[b]
  BY DEF Rewritten
<1>2. Keeps(vol, vol', frozen)
  BY <1>1, InvariantFacts DEF Keeps
<1>3. FilesOK(vol, frozen, node)
  BY InvariantFacts
<1>4. /\ FilesOK(vol', frozen, node)
      /\ Accounted(vol, vol', frozen, n) /\ DOMAIN vol = OfFiles(vol, node) \cup frozen =>
            DOMAIN vol' = OfFiles(vol', node) \cup frozen
  <2> DEFINE w == vol'
  <2>1. FilesOK(vol, frozen, node) /\ n \in Nodes(node) /\ Rewritten(vol, w, frozen, n)
    BY <1>3
  <2> HIDE DEF w
  <2>2. FilesOK(w, frozen, node)
    BY <2>1, FilesStay
  <2>3. Accounted(vol, w, frozen, n) /\ Covered(vol, frozen, node) => Covered(w, frozen, node)
    BY <2>1, FilesStay
  <2> QED  BY <2>2, <2>3 DEF w, Covered
<1>5. /\ \A s \in DOMAIN snaps : snaps[s].sound => ShotOK(vol', frozen, snaps[s].node)
      /\ ~leaky => frozen = OfShots(vol', snaps)
  BY <1>2, ShotsKept
<1>6. Typed(vol') /\ frozen \subseteq DOMAIN vol'
  BY <1>2 DEF Rewritten, Keeps
<1> QED  BY <1>4, <1>5, <1>6, InvariantFacts, Establish

\* Nothing that is live changes.
LEMMA FilesKept ==
  ASSUME NEW v, NEW w, NEW fr, NEW names, FilesOK(v, fr, names), Keeps(v, w, DOMAIN v)
  PROVE  FilesOK(w, fr, names)
<1>1. ASSUME NEW n \in Nodes(names)
      PROVE  IsTree(w, n) /\ FrozenBelow(w, fr, n) /\ Blocks(w, n) = Blocks(v, n)
  <2>1. IsTree(v, n) /\ FrozenBelow(v, fr, n)
    BY DEF FilesOK
  <2>2. \A b \in Blocks(v, n) : b \in DOMAIN w /\ w[b] = v[b]
    BY <2>1, TreeFacts DEF Keeps
  <2> QED  BY <2>1, <2>2, Same
<1> QED  BY <1>1 DEF FilesOK

LEMMA ExhaustedKeeps ==
  ASSUME IInv, UNCHANGED <<volume, frozen, node, snaps>>, sound, Exhausted
  PROVE  IInv'
<1>1. /\ Keeps(vol, vol', frozen) /\ (sound' => Keeps(vol, vol', DOMAIN vol))
      /\ Typed(vol') /\ sound' \in BOOLEAN /\ leaky' = TRUE
  BY DEF Exhausted, Keeps, Live
<1>2. FilesOK(vol, frozen, node)
  BY InvariantFacts
<1>3. sound' => FilesOK(vol', frozen, node)
  BY <1>1, <1>2, FilesKept
<1>4. \A s \in DOMAIN snaps : snaps[s].sound => ShotOK(vol', frozen, snaps[s].node)
  BY <1>1, ShotsKept
<1>5. frozen \subseteq DOMAIN vol'
  BY <1>1 DEF Keeps
<1> QED  BY <1>1, <1>3, <1>4, <1>5, InvariantFacts, Establish

LEMMA ResizeKeeps ==
  ASSUME IInv, UNCHANGED volume, NEW f \in File, NEW size \in volume.sizes, resize(f, size)
  PROVE  IInv'
<1>1. Writable(f) /\ UNCHANGED <<frozen, node, snaps>>
  BY DEF resize
<1>2. Open(vol, node[f]) /\ node[f] \in Nodes(node) /\ sound
  BY <1>1, OpenFile
<1>3. size \in 0 .. MaxSize
  BY InvariantFacts, InodeAssumption
<1>4. Exhausted \/ Resized(node[f], size)
  BY <1>2, <1>3, ResizeOutcome
<1>5. CASE Exhausted
  BY <1>1, <1>2, <1>5, ExhaustedKeeps
<1>6. CASE Resized(node[f], size)
  BY <1>1, <1>2, <1>6, OneFileChanges, InvariantFacts DEF Resized
<1> QED  BY <1>4, <1>5, <1>6

LEMMA WriteKeeps ==
  ASSUME IInv, UNCHANGED volume, NEW f \in File, NEW first \in 1 .. MaxSize,
         NEW last \in 1 .. MaxSize, NEW c \in Content, write(f, first, last, c)
  PROVE  IInv'
<1> DEFINE n == node[f]
           s == Written(vol, n, first, last, c)
<1>1. /\ Writable(f) /\ UNCHANGED <<frozen, node, snaps, sound>>
      /\ vol' = s.vol /\ leaky' = (leaky \/ ~s.done) /\ first <= last /\ last <= vol[n].size
  BY DEF write
<1>2. Open(vol, n) /\ n \in Nodes(node) /\ sound
  BY <1>1, OpenFile
<1>3. vol[n].size = Len(Level3(vol, n))
  BY <1>2 DEF Open, IsTree, Holds
<1>4. first \in Nat \ {0} /\ last \in Nat
  BY InodeAssumption
<1> HIDE DEF n
<1>5. Loop(vol, s, n, first, last, c)
  BY <1>1, <1>2, <1>3, <1>4, WrittenFacts
<1> HIDE DEF s
<1>6. PICK w, q, done : /\ s = [vol |-> w, done |-> done] /\ done \in BOOLEAN
                        /\ WriteRun(vol, w, n, first, q, c)
                        /\ done => Accounted(vol, w, frozen, n)
  BY <1>5 DEF Loop
<1>7. vol' = w /\ leaky' = (leaky \/ ~done)
  BY <1>1, <1>6
<1>8. Rewritten(vol, vol', frozen, n) /\ (done => Accounted(vol, vol', frozen, n))
  BY <1>6, <1>7 DEF WriteRun
<1>9. leaky' \in BOOLEAN /\ (~leaky' => ~leaky /\ done)
  BY <1>6, <1>7, InvariantFacts
<1> QED  BY <1>1, <1>2, <1>8, <1>9, OneFileChanges

\* Nothing is in a list of no blocks.
LEMMA EmptyFile ==
  ASSUME NEW v, NEW n, n \in DOMAIN v, v[n] = [size |-> 0, ptr |-> <<>>]
  PROVE  /\ IsTree(v, n) /\ Blocks(v, n) = {n} /\ \A fr : n \notin fr => FrozenBelow(v, fr, n)
         /\ Level3(v, n) = <<>>
<1>1. <<>> \in Seq(Nat) /\ Len(<<>>) = 0 /\ Range(<<>>) = {} /\ IsInjective(<<>>)
  BY DEF Range, IsInjective
<1>2. CeilDiv(0, Fanout) = 0
  BY CeilDivFacts
<1>3. v[n] \in InodeBlock
  BY <1>1, InodeAssumption DEF InodeBlock
<1>4. Spelled(v, <<>>, <<>>)
  BY <1>1, <1>2 DEF Spelled
<1>5. Holds(v, n, <<>>, <<>>, <<>>)
  BY <1>1, <1>3, <1>4 DEF Holds, Distinct
<1>6. /\ Level1(v, n) = <<>> /\ Level2(v, n) = <<>> /\ Level3(v, n) = <<>> /\ IsTree(v, n)
      /\ Blocks(v, n) = {n} \cup Range(<<>>) \cup Range(<<>>) \cup Range(<<>>)
  BY <1>5, Determined
<1> QED  BY <1>1, <1>6 DEF FrozenBelow

LEMMA CreateKeeps ==
  ASSUME IInv, UNCHANGED volume, NEW f \in File, create(f)
  PROVE  IInv'
<1> DEFINE n == Nth(Free(vol), 1)
           x == [size |-> 0, ptr |-> <<>>]
<1>1. /\ sound /\ node[f] = NoInode /\ Free(vol) # {}
      /\ vol' = Put(vol, n, x) /\ node' = [node EXCEPT ![f] = n]
      /\ UNCHANGED <<frozen, snaps, sound, leaky>>
  BY DEF create
<1>2. n \in Block /\ n \notin DOMAIN vol /\ n \in Nat
  BY <1>1, FirstFree, InvariantFacts
<1> HIDE DEF n
<1>3. /\ DOMAIN vol' = DOMAIN vol \cup {n} /\ vol'[n] = x
      /\ \A b \in DOMAIN vol : vol'[b] = vol[b]
  <2>1. IsPut(vol', vol, n, x)
    BY <1>1, PutFacts
  <2> HIDE DEF x
  <2> QED  BY <1>2, <2>1 DEF IsPut
<1>4. FilesOK(vol, frozen, node) /\ node \in [File -> Block \cup {NoInode}] /\ OneName(node)
  BY <1>1, InvariantFacts DEF Names
<1>5. n # NoInode
  BY <1>2, SentinelAssumption
<1>6. \A m : m \in Nodes(node') <=> m \in Nodes(node) \/ m = n
  <2>1. ASSUME NEW m \in Nodes(node) PROVE m \in Nodes(node')
    <3>1. PICK g \in File : node[g] # NoInode /\ m = node[g]
      BY DEF Nodes
    <3>2. g # f
      BY <1>1, <3>1
    <3> QED  BY <1>1, <1>4, <3>1, <3>2 DEF Nodes
  <2>2. n \in Nodes(node')
    BY <1>1, <1>4, <1>5 DEF Nodes
  <2>3. ASSUME NEW m \in Nodes(node'), m # n PROVE m \in Nodes(node)
    <3>1. PICK g \in File : node'[g] # NoInode /\ m = node'[g]
      BY DEF Nodes
    <3> QED  BY <1>1, <1>4, <2>3, <3>1 DEF Nodes
  <2> QED  BY <2>1, <2>2, <2>3
<1>7. \A m \in Nodes(node) : Blocks(vol, m) \subseteq DOMAIN vol /\ m \in DOMAIN vol
  BY <1>4, TreeFacts DEF FilesOK
<1>8. OneName(node')
  <2>1. \A g \in File : node[g] # NoInode => node[g] # n
    BY <1>2, <1>7 DEF Nodes
  <2> QED  BY <1>1, <1>4, <2>1 DEF OneName
<1>9. Keeps(vol, vol', DOMAIN vol) /\ Keeps(vol, vol', frozen)
  BY <1>3, InvariantFacts DEF Keeps
<1>10. n \notin frozen
  BY <1>2, InvariantFacts
<1>11. IsTree(vol', n) /\ Blocks(vol', n) = {n} /\ FrozenBelow(vol', frozen, n)
  BY <1>3, <1>10, EmptyFile
<1>12. \A m \in Nodes(node) : IsTree(vol', m) /\ FrozenBelow(vol', frozen, m)
                              /\ Blocks(vol', m) = Blocks(vol, m)
  <2>1. SUFFICES ASSUME NEW m \in Nodes(node)
                 PROVE  IsTree(vol', m) /\ FrozenBelow(vol', frozen, m) /\ Blocks(vol', m) = Blocks(vol, m)
    OBVIOUS
  <2>2. IsTree(vol, m) /\ FrozenBelow(vol, frozen, m)
    BY <1>4 DEF FilesOK
  <2>3. \A b \in Blocks(vol, m) : b \in DOMAIN vol' /\ vol'[b] = vol[b]
    BY <1>3, <1>7
  <2> QED  BY <2>2, <2>3, Same
<1>13. FilesOK(vol', frozen, node')
  <2>1. \A m \in Nodes(node') : IsTree(vol', m) /\ FrozenBelow(vol', frozen, m)
    BY <1>6, <1>11, <1>12
  <2>2. \A m, k \in Nodes(node) : m # k => Blocks(vol, m) \cap Blocks(vol, k) \subseteq frozen
    BY <1>4 DEF FilesOK
  <2>3. \A m, k \in Nodes(node') : m # k => Blocks(vol', m) \cap Blocks(vol', k) \subseteq frozen
    BY <1>2, <1>6, <1>7, <1>11, <1>12, <2>2
  <2> QED  BY <2>1, <2>3 DEF FilesOK
<1>14. OfFiles(vol', node') = OfFiles(vol, node) \cup {n}
  <2>1. \A b : b \in OfFiles(vol', node') <=> \E m \in Nodes(node') : b \in Blocks(vol', m)
    BY DEF OfFiles
  <2>2. \A b : b \in OfFiles(vol, node) <=> \E m \in Nodes(node) : b \in Blocks(vol, m)
    BY DEF OfFiles
  <2>3. \A b : b \in OfFiles(vol', node') <=> b \in OfFiles(vol, node) \/ b = n
    BY <1>6, <1>11, <1>12, <2>1, <2>2
  <2> QED  BY <2>3
<1>15. /\ \A s \in DOMAIN snaps : snaps[s].sound => ShotOK(vol', frozen, snaps[s].node)
       /\ ~leaky => frozen = OfShots(vol', snaps)
  BY <1>9, ShotsKept
<1>16. Typed(vol') /\ node' \in Names
  <2>1. x \in [size : 0 .. MaxSize, ptr : Seq(Block)]
    BY InodeAssumption
  <2>2. Kind(x)
    BY <2>1 DEF Kind
  <2> HIDE DEF x
  <2> QED  BY <1>1, <1>2, <1>3, <1>4, <2>2, InvariantFacts DEF Typed, Names
<1>17. frozen \subseteq DOMAIN vol'
  BY <1>3, InvariantFacts
<1>18. ~leaky => DOMAIN vol' = OfFiles(vol', node') \cup frozen
  BY <1>3, <1>14, InvariantFacts
<1> QED  BY <1>1, <1>8, <1>13, <1>15, <1>16, <1>17, <1>18, InvariantFacts, Establish

LEMMA UnlinkKeeps ==
  ASSUME IInv, UNCHANGED volume, NEW f \in File, unlink_self(f)
  PROVE  IInv'
<1> DEFINE n == node[f]
           gone == Blocks(vol, n) \ frozen
<1>1. /\ Writable(f) /\ vol' = Drop(vol, gone) /\ node' = [node EXCEPT ![f] = NoInode]
      /\ UNCHANGED <<frozen, snaps, sound, leaky>>
  BY DEF unlink_self, Blocks
<1>2. sound /\ n # NoInode /\ n \in Nodes(node)
  BY <1>1, OpenFile DEF Writable
<1>3. FilesOK(vol, frozen, node) /\ node \in [File -> Block \cup {NoInode}] /\ OneName(node)
  BY <1>2, InvariantFacts DEF Names
<1>4. /\ DOMAIN vol' = DOMAIN vol \ gone /\ \A b \in DOMAIN vol : b \notin gone => vol'[b] = vol[b]
  <2> HIDE DEF gone
  <2>1. IsDrop(vol', vol, gone)
    BY <1>1, DropFacts
  <2> QED  BY <2>1 DEF IsDrop
<1>5. \A b \in DOMAIN vol : b \notin Blocks(vol, n) \ frozen => b \in DOMAIN vol' /\ vol'[b] = vol[b]
  BY <1>4
<1>6. \A m : m \in Nodes(node') <=> m \in Nodes(node) /\ m # n
  <2>1. ASSUME NEW m \in Nodes(node), m # n PROVE m \in Nodes(node')
    <3>1. PICK g \in File : node[g] # NoInode /\ m = node[g]
      BY <2>1 DEF Nodes
    <3>2. g # f
      BY <2>1, <3>1
    <3> QED  BY <1>1, <1>3, <3>1, <3>2 DEF Nodes
  <2>2. ASSUME NEW m \in Nodes(node') PROVE m \in Nodes(node) /\ m # n
    <3>1. PICK g \in File : node'[g] # NoInode /\ m = node'[g]
      BY <2>2 DEF Nodes
    <3>2. g # f /\ m = node[g]
      BY <1>1, <1>3, <3>1
    <3>3. m # n
      BY <1>3, <3>1, <3>2 DEF OneName
    <3> QED  BY <3>1, <3>2, <3>3 DEF Nodes
  <2> QED  BY <2>1, <2>2
<1> HIDE DEF n
<1>7. \A m \in Nodes(node') : /\ IsTree(vol', m) /\ FrozenBelow(vol', frozen, m)
                              /\ Blocks(vol', m) = Blocks(vol, m)
  <2>1. SUFFICES ASSUME NEW m \in Nodes(node), m # n
                 PROVE  IsTree(vol', m) /\ FrozenBelow(vol', frozen, m) /\ Blocks(vol', m) = Blocks(vol, m)
    BY <1>6
  <2> QED  BY <1>2, <1>3, <1>5, <2>1, OthersStay
<1>8. \A m, k \in Nodes(node) : m # k => Blocks(vol, m) \cap Blocks(vol, k) \subseteq frozen
  BY <1>3 DEF FilesOK
<1>9. FilesOK(vol', frozen, node')
  <2>1. \A m, k \in Nodes(node') : m # k => Blocks(vol', m) \cap Blocks(vol', k) \subseteq frozen
    BY <1>6, <1>7, <1>8
  <2> QED  BY <1>7, <2>1 DEF FilesOK
<1>10. OneName(node') /\ node' \in Names
  BY <1>1, <1>3 DEF OneName, Names
<1>11. Keeps(vol, vol', frozen) /\ frozen \subseteq DOMAIN vol'
  BY <1>5, InvariantFacts DEF Keeps
<1>12. /\ \A s \in DOMAIN snaps : snaps[s].sound => ShotOK(vol', frozen, snaps[s].node)
       /\ ~leaky => frozen = OfShots(vol', snaps)
  BY <1>11, ShotsKept
<1>13. Typed(vol')
  BY <1>4, InvariantFacts DEF Typed
<1>14. ~leaky => DOMAIN vol' = OfFiles(vol', node') \cup frozen
  <2>1. \A b : b \in OfFiles(vol', node') <=> \E m \in Nodes(node') : b \in Blocks(vol', m)
    BY DEF OfFiles
  <2>2. \A b : b \in OfFiles(vol, node) <=> \E m \in Nodes(node) : b \in Blocks(vol, m)
    BY DEF OfFiles
  <2>3. SUFFICES ASSUME ~leaky PROVE DOMAIN vol' = OfFiles(vol', node') \cup frozen
    OBVIOUS
  <2>4. DOMAIN vol = OfFiles(vol, node) \cup frozen
    BY <2>3, InvariantFacts
  <2>5. \A b : b \in DOMAIN vol' <=> b \in OfFiles(vol', node') \/ b \in frozen
    <3>1. ASSUME NEW b \in DOMAIN vol', b \notin frozen PROVE b \in OfFiles(vol', node')
      BY <1>4, <1>6, <1>7, <2>1, <2>2, <2>4, <3>1
    <3>2. ASSUME NEW m \in Nodes(node'), NEW b \in Blocks(vol', m) PROVE b \in DOMAIN vol'
      BY <1>7, <3>2, TreeFacts
    <3> QED  BY <1>11, <2>1, <3>1, <3>2
  <2> QED  BY <2>5
<1> QED  BY <1>1, <1>9, <1>10, <1>11, <1>12, <1>13, <1>14, InvariantFacts, Establish

\* What the pointer blocks of a tree point to is in it.
LEMMA PointersBelow ==
  ASSUME NEW v, NEW n, IsTree(v, n)
  PROVE  /\ Range(v[n].ptr) \subseteq Blocks(v, n)
         /\ \A b \in Range(Level1(v, n)) \cup Range(Level2(v, n)) : Range(v[b].ptr) \subseteq Blocks(v, n)
<1> DEFINE l1 == Level1(v, n)
           l2 == Level2(v, n)
           l3 == Level3(v, n)
<1>1. Spelled(v, l1, l2) /\ Spelled(v, l2, l3) /\ v[n].ptr = l1
  BY DEF IsTree, Holds
<1>2. ASSUME NEW list, NEW points, Spelled(v, list, points), NEW b \in Range(list)
      PROVE  Range(v[b].ptr) \subseteq Range(points)
  <2>1. /\ list \in Seq(Nat) /\ points \in Seq(Nat) /\ Len(list) = CeilDiv(Len(points), Fanout)
        /\ \A i \in 1 .. Len(list) : v[list[i]].ptr = Chunk(points, i)
    BY <1>2 DEF Spelled
  <2>2. PICK i \in 1 .. Len(list) : b = list[i]
    BY <1>2, <2>1, LenProperties DEF Range
  <2> DEFINE ch == Chunk(points, i)
  <2>3. /\ ch \in Seq(Nat)
        /\ \A r \in 1 .. Len(ch) : /\ (i - 1) * Fanout + r \in 1 .. Len(points)
                                   /\ ch[r] = points[(i - 1) * Fanout + r]
    BY <2>1, <2>2, ChunkFacts
  <2>4. v[b].ptr = ch
    BY <2>1, <2>2
  <2> HIDE DEF ch
  <2>5. \A r \in DOMAIN ch : ch[r] \in Range(points)
    <3>1. DOMAIN ch = 1 .. Len(ch) /\ DOMAIN points = 1 .. Len(points)
      BY <2>1, <2>3, LenProperties
    <3> QED  BY <2>3, <3>1 DEF Range
  <2> QED  BY <2>4, <2>5 DEF Range
<1>3. /\ \A b \in Range(l1) : Range(v[b].ptr) \subseteq Range(l2)
      /\ \A b \in Range(l2) : Range(v[b].ptr) \subseteq Range(l3)
  BY <1>1, <1>2
<1> QED  BY <1>1, <1>3 DEF Blocks

LEMMA AllFrozen ==
  ASSUME NEW v, NEW fr, NEW names, ShotOK(v, fr, names)
  PROVE  FilesOK(v, fr, names) /\ OfFiles(v, names) \subseteq fr
<1>1. ASSUME NEW n \in Nodes(names)
      PROVE  IsTree(v, n) /\ FrozenBelow(v, fr, n) /\ Blocks(v, n) \subseteq fr
  <2>1. IsTree(v, n) /\ Blocks(v, n) \subseteq fr
    BY DEF ShotOK
  <2> QED  BY <2>1, PointersBelow DEF FrozenBelow
<1> QED  BY <1>1 DEF FilesOK, OfFiles

LEMMA SnapshotKeeps ==
  ASSUME IInv, UNCHANGED volume, snapshot
  PROVE  IInv'
<1> DEFINE shot == [node |-> node, sound |-> sound]
<1>1. /\ Len(snaps) < MaxSnapshots /\ snaps' = Append(snaps, shot) /\ frozen' = frozen \cup DOMAIN vol
      /\ UNCHANGED <<vol, node, sound, leaky>>
  BY DEF snapshot, Live
<1>2. frozen' = DOMAIN vol
  BY <1>1, InvariantFacts
<1>3. /\ snaps \in Seq([node : Names, sound : BOOLEAN]) /\ shot \in [node : Names, sound : BOOLEAN]
      /\ shot.node = node /\ shot.sound = sound
  BY InvariantFacts
<1> HIDE DEF shot
<1>4. /\ snaps' \in Seq([node : Names, sound : BOOLEAN]) /\ Len(snaps') = Len(snaps) + 1
      /\ \A s \in 1 .. Len(snaps) : snaps'[s] = snaps[s]
      /\ snaps'[Len(snaps) + 1] = shot
  BY <1>1, <1>3, AppendProperties
<1>5. Len(snaps) \in Nat /\ DOMAIN snaps = 1 .. Len(snaps) /\ DOMAIN snaps' = 1 .. Len(snaps) + 1
  BY <1>3, <1>4, LenProperties
<1>6. \A s \in DOMAIN snaps' : \/ s \in DOMAIN snaps /\ snaps'[s] = snaps[s]
                               \/ s = Len(snaps) + 1 /\ snaps'[s] = shot
  BY <1>4, <1>5
<1>7. sound => /\ \A n \in Nodes(node) : IsTree(vol, n) /\ Blocks(vol, n) \subseteq DOMAIN vol
               /\ ShotOK(vol, frozen', node) /\ FilesOK(vol, frozen', node)
  <2>1. SUFFICES ASSUME sound
                 PROVE  /\ \A n \in Nodes(node) : IsTree(vol, n) /\ Blocks(vol, n) \subseteq DOMAIN vol
                        /\ ShotOK(vol, DOMAIN vol, node) /\ FilesOK(vol, DOMAIN vol, node)
    BY <1>2
  <2>2. FilesOK(vol, frozen, node)
    BY <2>1, InvariantFacts
  <2>3. \A n \in Nodes(node) : IsTree(vol, n) /\ Blocks(vol, n) \subseteq DOMAIN vol
    BY <2>2, TreeFacts DEF FilesOK
  <2>4. ShotOK(vol, DOMAIN vol, node)
    BY <2>3 DEF ShotOK
  <2> QED  BY <2>3, <2>4, AllFrozen
<1>8. \A s \in DOMAIN snaps' : snaps'[s].sound => ShotOK(vol, frozen', snaps'[s].node)
  <2>1. SUFFICES ASSUME NEW s \in DOMAIN snaps', snaps'[s].sound
                 PROVE  ShotOK(vol, frozen', snaps'[s].node)
    OBVIOUS
  <2>2. CASE s \in DOMAIN snaps /\ snaps'[s] = snaps[s]
    <3>1. ShotOK(vol, frozen, snaps[s].node)
      BY <2>1, <2>2, InvariantFacts
    <3> QED  BY <1>1, <2>2, <3>1 DEF ShotOK
  <2>3. CASE snaps'[s] = shot
    BY <1>3, <1>7, <2>1, <2>3
  <2> QED  BY <1>6, <2>2, <2>3
<1>9. \A s \in DOMAIN snaps' : OneName(snaps'[s].node)
  BY <1>3, <1>6, InvariantFacts
<1>10. ~leaky' => /\ sound' /\ \A s \in DOMAIN snaps' : snaps'[s].sound
                  /\ frozen' = OfShots(vol', snaps')
                  /\ DOMAIN vol' = OfFiles(vol', node') \cup frozen'
  <2>1. SUFFICES ASSUME ~leaky
                 PROVE  /\ sound /\ \A s \in DOMAIN snaps' : snaps'[s].sound
                        /\ frozen' = OfShots(vol, snaps')
                        /\ DOMAIN vol = OfFiles(vol, node) \cup frozen'
    BY <1>1
  <2>2. /\ sound /\ \A s \in DOMAIN snaps : snaps[s].sound
        /\ frozen = OfShots(vol, snaps) /\ DOMAIN vol = OfFiles(vol, node) \cup frozen
    BY <2>1, InvariantFacts
  <2>3. \A b : b \in OfShots(vol, snaps') <=> \E s \in DOMAIN snaps' : b \in OfFiles(vol, snaps'[s].node)
    BY DEF OfShots
  <2>4. \A b : b \in OfShots(vol, snaps) <=> \E s \in DOMAIN snaps : b \in OfFiles(vol, snaps[s].node)
    BY DEF OfShots
  <2>5. \A s \in DOMAIN snaps : s \in DOMAIN snaps' /\ snaps'[s] = snaps[s]
    BY <1>4, <1>5
  <2>6. Len(snaps) + 1 \in DOMAIN snaps'
    BY <1>5
  <2>7. \A b : b \in OfShots(vol, snaps') <=> b \in OfShots(vol, snaps) \/ b \in OfFiles(vol, node)
    BY <1>3, <1>4, <1>6, <2>3, <2>4, <2>5, <2>6
  <2>8. OfShots(vol, snaps') = OfShots(vol, snaps) \cup OfFiles(vol, node)
    BY <2>7
  <2> QED  BY <1>2, <1>3, <1>6, <2>2, <2>8
<1>11. Len(snaps') <= MaxSnapshots
  BY <1>1, <1>4, <1>5, InodeAssumption
<1> QED  BY <1>1, <1>2, <1>4, <1>7, <1>8, <1>9, <1>10, <1>11, InvariantFacts, Establish

LEMMA ResetKeeps ==
  ASSUME IInv, UNCHANGED volume, NEW s \in DOMAIN snaps, reset_as(s)
  PROVE  IInv'
<1> DEFINE names == snaps[s].node
<1>1. /\ vol' = [b \in frozen |-> vol[b]] /\ node' = names /\ sound' = snaps[s].sound
      /\ UNCHANGED <<frozen, snaps, leaky>>
  BY DEF reset_as
<1>2. snaps[s] \in [node : Names, sound : BOOLEAN]
  BY InvariantFacts, ElementOfSeq, LenProperties
<1>3. Keeps(vol, vol', frozen) /\ DOMAIN vol' = frozen
  BY <1>1 DEF Keeps
<1>4. /\ \A r \in DOMAIN snaps : snaps[r].sound => ShotOK(vol', frozen, snaps[r].node)
      /\ ~leaky => frozen = OfShots(vol', snaps)
  BY <1>3, ShotsKept
<1>5. names \in Names /\ snaps[s].sound \in BOOLEAN /\ OneName(names)
  BY <1>2, InvariantFacts
<1>6. snaps[s].sound => ShotOK(vol', frozen, names)
  BY <1>4
<1> HIDE DEF names
<1>7. snaps[s].sound => FilesOK(vol', frozen, names) /\ OfFiles(vol', names) \subseteq frozen
  BY <1>6, AllFrozen
<1>8. Typed(vol')
  BY <1>1, InvariantFacts DEF Typed
<1>9. ~leaky' => /\ sound' /\ \A r \in DOMAIN snaps' : snaps'[r].sound
                 /\ frozen' = OfShots(vol', snaps')
                 /\ DOMAIN vol' = OfFiles(vol', node') \cup frozen'
  BY <1>1, <1>3, <1>4, <1>7, InvariantFacts
<1> QED  BY <1>1, <1>3, <1>4, <1>5, <1>7, <1>8, <1>9, InvariantFacts, Establish

\* An inode that is a copy of a frozen one has the same blocks below it.
LEMMA CopyFacts ==
  ASSUME NEW v, NEW w, NEW fr, NEW n, NEW k, IsTree(v, n), FrozenBelow(v, fr, n), n \in fr,
         Keeps(v, w, DOMAIN v), k \in DOMAIN w, k \notin DOMAIN v, fr \subseteq DOMAIN v, w[k] = v[n]
  PROVE  /\ IsTree(w, k) /\ FrozenBelow(w, fr, k)
         /\ Level3(w, k) = Level3(v, n)
         /\ \A b \in Range(Level3(v, n)) : w[b] = v[b]
         /\ Blocks(w, k) \subseteq fr \cup {k} /\ k \in Blocks(w, k)
<1> DEFINE l1 == Level1(v, n)
           l2 == Level2(v, n)
           l3 == Level3(v, n)
<1>1. Holds(v, n, l1, l2, l3) /\ Blocks(v, n) = {n} \cup Range(l1) \cup Range(l2) \cup Range(l3)
  BY DEF IsTree, Blocks
<1>2. Blocks(v, n) \subseteq DOMAIN v /\ Blocks(v, n) \subseteq fr
  BY TreeFacts, FrozenTree
<1>3. /\ \A b \in Range(l1) : Range(v[b].ptr) \subseteq fr
      /\ \A b \in Range(l2) : Range(v[b].ptr) \subseteq fr
  BY <1>1, <1>2 DEF FrozenBelow
<1> HIDE DEF l1, l2, l3
<1>4. \A b \in Range(l1) \cup Range(l2) \cup Range(l3) : b \in DOMAIN w /\ w[b] = v[b]
  BY <1>1, <1>2 DEF Keeps
<1>5. ASSUME NEW list, NEW points, Spelled(v, list, points),
             \A b \in Range(list) : b \in DOMAIN w /\ w[b] = v[b]
      PROVE  Spelled(w, list, points)
  <2>1. \A i \in 1 .. Len(list) : list[i] \in Range(list)
    BY <1>5, LenProperties DEF Spelled, Range
  <2> QED  BY <1>5, <2>1 DEF Spelled
<1>6. Spelled(w, l1, l2) /\ Spelled(w, l2, l3)
  <2>1. Spelled(v, l1, l2) /\ Spelled(v, l2, l3)
    BY <1>1 DEF Holds
  <2> QED  BY <1>4, <1>5, <2>1
<1>7. k \notin Range(l1) \cup Range(l2) \cup Range(l3)
  BY <1>1, <1>2
<1>8. Holds(w, k, l1, l2, l3)
  BY <1>1, <1>4, <1>6, <1>7 DEF Holds, Distinct
<1>9. /\ Level1(w, k) = l1 /\ Level2(w, k) = l2 /\ Level3(w, k) = l3 /\ IsTree(w, k)
      /\ Blocks(w, k) = {k} \cup Range(l1) \cup Range(l2) \cup Range(l3)
  BY <1>8, Determined
<1>10. FrozenBelow(w, fr, k)
  BY <1>3, <1>4, <1>9 DEF FrozenBelow
<1> QED  BY <1>1, <1>2, <1>4, <1>9, <1>10 DEF l3

LEMMA FiniteShared ==
  ASSUME IInv
  PROVE  IsFiniteSet(Shared) /\ Shared \subseteq Nat
<1>1. node \in [File -> Block \cup {NoInode}] /\ OneName(node) /\ volume \in Volumes
  BY InvariantFacts DEF Names
<1> DEFINE own == [f \in Shared |-> node[f]]
<1>2. own \in Injection(Shared, Block)
  <2>1. \A f \in Shared : f \in File /\ node[f] \in Block /\ node[f] # NoInode
    BY <1>1 DEF Shared
  <2> QED  BY <1>1, <2>1 DEF Injection, IsInjective, OneName
<1>3. IsFiniteSet(Block)
  BY <1>1, BlockFacts
<1> HIDE DEF own
<1>4. IsFiniteSet(Shared)
  BY <1>2, <1>3, FS_Injection
<1> QED  BY <1>4, InodeAssumption DEF Shared

\* Every shared file has an inode of its own now.
LEMMA OwnInodes ==
  ASSUME IInv, get_inode, Cardinality(Shared) <= Cardinality(Free(vol))
  PROVE  /\ Keeps(vol, vol', DOMAIN vol) /\ DOMAIN vol' = DOMAIN vol \cup {node'[f] : f \in Shared}
         /\ \A f \in Shared : /\ f \in File /\ node[f] # NoInode /\ node[f] \in frozen
                              /\ node'[f] \in Block /\ node'[f] \notin DOMAIN vol
                              /\ vol'[node'[f]] = vol[node[f]]
         /\ \A f, g \in Shared : node'[f] = node'[g] => f = g
         /\ \A f \in File \ Shared : node'[f] = node[f]
         /\ DOMAIN node' = File
         /\ sound /\ UNCHANGED <<frozen, snaps, sound, leaky>>
<1> DEFINE own == Given(Shared, Free(vol))
<1>1. /\ sound /\ UNCHANGED <<frozen, snaps, sound, leaky>>
      /\ node' = [f \in File |-> IF f \in Shared THEN own[f] ELSE node[f]]
      /\ vol' = [b \in DOMAIN vol \cup Range(own) |->
                              IF b \in DOMAIN vol THEN vol[b]
                              ELSE vol[node[CHOOSE f \in Shared : own[f] = b]]]
  BY DEF get_inode, Live
<1>2. Free(vol) \in SUBSET Block
  BY DEF Free
<1>3. IsFiniteSet(Free(vol)) /\ Free(vol) \subseteq Nat
  BY <1>2, BlockFacts, InvariantFacts
<1>4. own \in [Shared -> Free(vol)] /\ \A x, y \in Shared : own[x] = own[y] => x = y
  BY <1>3, FiniteShared, GivenFacts
<1> HIDE DEF own
<1>5. \A f \in Shared : f \in File /\ node[f] # NoInode /\ node[f] \in frozen
  BY DEF Shared
<1>6. \A f \in Shared : node'[f] = own[f] /\ own[f] \in Block /\ own[f] \notin DOMAIN vol
  BY <1>1, <1>4, <1>5 DEF Free
<1>7. \A f \in Shared : own[f] \in Range(own) /\ (CHOOSE g \in Shared : own[g] = own[f]) = f
  BY <1>4 DEF Range
<1>8. \A f \in Shared : vol'[own[f]] = vol[node[f]]
  BY <1>1, <1>6, <1>7
<1>9. Range(own) = {node'[f] : f \in Shared}
  BY <1>4, <1>6 DEF Range
<1>10. DOMAIN vol' = DOMAIN vol \cup Range(own) /\ Keeps(vol, vol', DOMAIN vol)
  BY <1>1 DEF Keeps
<1>11. DOMAIN node' = File /\ \A f \in File \ Shared : node'[f] = node[f]
  BY <1>1
<1>12. DOMAIN vol' = DOMAIN vol \cup {node'[f] : f \in Shared}
  BY <1>9, <1>10
<1>13. \A f \in Shared : /\ node'[f] \in Block /\ node'[f] \notin DOMAIN vol
                         /\ vol'[node'[f]] = vol[node[f]]
  BY <1>6, <1>8
<1>14. \A f, g \in Shared : node'[f] = node'[g] => f = g
  BY <1>4, <1>6
<1>15. sound /\ UNCHANGED <<frozen, snaps, sound, leaky>> /\ Keeps(vol, vol', DOMAIN vol)
  BY <1>1, <1>10
<1> QED  BY <1>5, <1>11, <1>12, <1>13, <1>14, <1>15

LEMMA OwnTrees ==
  ASSUME IInv, get_inode, Cardinality(Shared) <= Cardinality(Free(vol))
  PROVE  /\ \A f \in Shared : /\ IsTree(vol', node'[f]) /\ FrozenBelow(vol', frozen, node'[f])
                              /\ Blocks(vol', node'[f]) \subseteq frozen \cup {node'[f]}
                              /\ node'[f] \in Blocks(vol', node'[f])
                              /\ Level3(vol', node'[f]) = Level3(vol, node[f])
                              /\ \A b \in Range(Level3(vol, node[f])) : vol'[b] = vol[b]
         /\ \A m \in Nodes(node) : /\ IsTree(vol', m) /\ FrozenBelow(vol', frozen, m)
                                   /\ Blocks(vol', m) = Blocks(vol, m)
                                   /\ Blocks(vol, m) \subseteq DOMAIN vol
                                   /\ m \in frozen => Blocks(vol, m) \subseteq frozen
                                   /\ Level3(vol', m) = Level3(vol, m)
                                   /\ \A b \in Blocks(vol, m) : vol'[b] = vol[b]
<1>1. FilesOK(vol, frozen, node) /\ Keeps(vol, vol', DOMAIN vol) /\ frozen \subseteq DOMAIN vol
  BY OwnInodes, InvariantFacts
<1>2. ASSUME NEW f \in Shared
      PROVE  /\ IsTree(vol', node'[f]) /\ FrozenBelow(vol', frozen, node'[f])
             /\ Blocks(vol', node'[f]) \subseteq frozen \cup {node'[f]}
             /\ node'[f] \in Blocks(vol', node'[f])
             /\ Level3(vol', node'[f]) = Level3(vol, node[f])
             /\ \A b \in Range(Level3(vol, node[f])) : vol'[b] = vol[b]
  <2> DEFINE n == node[f]
             k == node'[f]
  <2>1. /\ n \in Nodes(node) /\ n \in frozen /\ k \notin DOMAIN vol /\ vol'[k] = vol[n]
        /\ k \in DOMAIN vol'
    BY OwnInodes DEF Nodes
  <2>2. IsTree(vol, n) /\ FrozenBelow(vol, frozen, n)
    BY <1>1, <2>1 DEF FilesOK
  <2> HIDE DEF n, k
  <2>3. /\ IsTree(vol', k) /\ FrozenBelow(vol', frozen, k)
        /\ Level3(vol', k) = Level3(vol, n)
        /\ \A b \in Range(Level3(vol, n)) : vol'[b] = vol[b]
        /\ Blocks(vol', k) \subseteq frozen \cup {k} /\ k \in Blocks(vol', k)
    BY <1>1, <2>1, <2>2, CopyFacts
  <2> QED  BY <2>3 DEF n, k
<1>3. ASSUME NEW m \in Nodes(node)
      PROVE  /\ IsTree(vol', m) /\ FrozenBelow(vol', frozen, m)
             /\ Blocks(vol', m) = Blocks(vol, m)
             /\ Blocks(vol, m) \subseteq DOMAIN vol
             /\ m \in frozen => Blocks(vol, m) \subseteq frozen
             /\ Level3(vol', m) = Level3(vol, m)
             /\ \A b \in Blocks(vol, m) : vol'[b] = vol[b]
  <2>1. IsTree(vol, m) /\ FrozenBelow(vol, frozen, m)
    BY <1>1 DEF FilesOK
  <2>2. Blocks(vol, m) \subseteq DOMAIN vol
    BY <2>1, TreeFacts
  <2>3. \A b \in Blocks(vol, m) : b \in DOMAIN vol' /\ vol'[b] = vol[b]
    BY <1>1, <2>2 DEF Keeps
  <2>4. m \in frozen => Blocks(vol, m) \subseteq frozen
    BY <2>1, FrozenTree
  <2> QED  BY <2>1, <2>2, <2>3, <2>4, Same
<1> QED  BY <1>2, <1>3

LEMMA OwnNames ==
  ASSUME IInv, get_inode, Cardinality(Shared) <= Cardinality(Free(vol))
  PROVE  \A m : m \in Nodes(node') <=> \/ m \in Nodes(node) /\ m \notin frozen
                                       \/ \E f \in Shared : m = node'[f]
<1>1. ASSUME NEW m \in Nodes(node')
      PROVE  (m \in Nodes(node) /\ m \notin frozen) \/ \E f \in Shared : m = node'[f]
  <2>1. PICK f \in File : node'[f] # NoInode /\ m = node'[f]
    BY DEF Nodes
  <2>2. CASE f \notin Shared
    <3>1. m = node[f] /\ node[f] # NoInode
      BY <2>1, <2>2, OwnInodes
    <3> QED  BY <2>2, <3>1 DEF Shared, Nodes
  <2> QED  BY <2>1, <2>2
<1>2. ASSUME NEW m \in Nodes(node), m \notin frozen
      PROVE  m \in Nodes(node')
  <2>1. PICK f \in File : node[f] # NoInode /\ m = node[f]
    BY DEF Nodes
  <2>2. f \notin Shared
    BY <1>2, <2>1 DEF Shared
  <2> QED  BY <2>1, <2>2, OwnInodes DEF Nodes
<1>3. ASSUME NEW f \in Shared PROVE node'[f] \in Nodes(node')
  <2>1. node'[f] \in Nat /\ f \in File
    BY OwnInodes, BlockFacts, InvariantFacts
  <2>2. node'[f] # NoInode
    BY <2>1, SentinelAssumption
  <2> QED  BY <2>1, <2>2 DEF Nodes
<1> QED  BY <1>1, <1>2, <1>3

LEMMA GetInodeKeeps ==
  ASSUME IInv, UNCHANGED volume, get_inode
  PROVE  IInv'
<1>1. CASE ~(Cardinality(Shared) <= Cardinality(Free(vol)))
  <2>1. /\ sound /\ UNCHANGED <<frozen, node, snaps, sound>> /\ leaky' = TRUE
        /\ vol' = [b \in Block |-> IF b \in Live THEN vol[b] ELSE Zero]
    BY <1>1 DEF get_inode
  <2>2. Live \subseteq Block /\ \A b \in Live : Kind(vol[b])
    BY InvariantFacts DEF Typed, Live
  <2>3. Typed(vol')
    BY <2>1, <2>2 DEF Typed, Kind
  <2>4. frozen \subseteq Live /\ sound' \in BOOLEAN
    BY <2>1, InvariantFacts DEF Live
  <2>5. Exhausted
    BY <2>1, <2>2, <2>3, <2>4 DEF Exhausted
  <2> QED  BY <2>1, <2>5, ExhaustedKeeps
<1>2. CASE Cardinality(Shared) <= Cardinality(Free(vol))
  <2>1. /\ Keeps(vol, vol', DOMAIN vol) /\ DOMAIN vol' = DOMAIN vol \cup {node'[f] : f \in Shared}
        /\ \A f \in Shared : /\ f \in File /\ node[f] # NoInode /\ node[f] \in frozen
                             /\ node'[f] \in Block /\ node'[f] \notin DOMAIN vol
        /\ \A f, g \in Shared : node'[f] = node'[g] => f = g
        /\ \A f \in File \ Shared : node'[f] = node[f]
        /\ sound /\ UNCHANGED <<frozen, snaps, sound, leaky>>
    BY <1>2, OwnInodes
  <2>2. /\ \A f \in Shared : /\ IsTree(vol', node'[f]) /\ FrozenBelow(vol', frozen, node'[f])
                             /\ Blocks(vol', node'[f]) \subseteq frozen \cup {node'[f]}
                             /\ node'[f] \in Blocks(vol', node'[f])
        /\ \A m \in Nodes(node) : /\ IsTree(vol', m) /\ FrozenBelow(vol', frozen, m)
                                  /\ Blocks(vol', m) = Blocks(vol, m)
                                  /\ Blocks(vol, m) \subseteq DOMAIN vol
                                  /\ m \in frozen => Blocks(vol, m) \subseteq frozen
    BY <1>2, OwnTrees
  <2>3. \A m : m \in Nodes(node') <=> \/ m \in Nodes(node) /\ m \notin frozen
                                      \/ \E f \in Shared : m = node'[f]
    BY <1>2, OwnNames
  <2>4. FilesOK(vol, frozen, node) /\ OneName(node) /\ node \in [File -> Block \cup {NoInode}]
    BY <2>1, InvariantFacts DEF Names
  <2>5. \A m, k \in Nodes(node) : m # k => Blocks(vol, m) \cap Blocks(vol, k) \subseteq frozen
    BY <2>4 DEF FilesOK
  <2>6. FilesOK(vol', frozen, node')
    <3>1. \A m \in Nodes(node') : IsTree(vol', m) /\ FrozenBelow(vol', frozen, m)
      BY <2>2, <2>3
    <3>2. ASSUME NEW m \in Nodes(node'), NEW k \in Nodes(node'), m # k
          PROVE  Blocks(vol', m) \cap Blocks(vol', k) \subseteq frozen
      <4>1. CASE m \in Nodes(node) /\ k \in Nodes(node)
        BY <2>2, <2>5, <3>2, <4>1
      <4>2. ASSUME NEW f \in Shared, k = node'[f], m \in Nodes(node)
            PROVE  Blocks(vol', m) \cap Blocks(vol', k) \subseteq frozen
        BY <2>1, <2>2, <4>2
      <4>3. ASSUME NEW f \in Shared, m = node'[f], k \in Nodes(node)
            PROVE  Blocks(vol', m) \cap Blocks(vol', k) \subseteq frozen
        BY <2>1, <2>2, <4>3
      <4>4. ASSUME NEW f \in Shared, m = node'[f], NEW g \in Shared, k = node'[g]
            PROVE  Blocks(vol', m) \cap Blocks(vol', k) \subseteq frozen
        BY <2>2, <3>2, <4>4
      <4> QED  BY <2>3, <3>2, <4>1, <4>2, <4>3, <4>4
    <3> QED  BY <3>1, <3>2 DEF FilesOK
  <2>7. OneName(node')
    <3>1. \A f \in File : node[f] # NoInode => node[f] \in DOMAIN vol
      <4>1. \A m \in Nodes(node) : m \in DOMAIN vol
        BY <2>4, TreeFacts DEF FilesOK
      <4> QED  BY <4>1 DEF Nodes
    <3>2. SUFFICES ASSUME NEW f \in File, NEW g \in File, node'[f] = node'[g], node'[f] # NoInode
                   PROVE  f = g
      BY DEF OneName
    <3>3. CASE f \in Shared /\ g \in Shared
      BY <2>1, <3>2, <3>3
    <3>4. CASE f \notin Shared /\ g \notin Shared
      BY <2>1, <2>4, <3>2, <3>4 DEF OneName
    <3>5. CASE f \in Shared /\ g \notin Shared
      BY <2>1, <3>1, <3>2, <3>5
    <3>6. CASE f \notin Shared /\ g \in Shared
      BY <2>1, <3>1, <3>2, <3>6
    <3> QED  BY <3>3, <3>4, <3>5, <3>6
  <2>8. node' \in Names
    <3>1. \A f \in File : node'[f] \in Block \cup {NoInode}
      BY <2>1, <2>4
    <3>2. node' = [f \in File |-> node'[f]]
      BY <1>2 DEF get_inode
    <3> QED  BY <3>1, <3>2 DEF Names
  <2>9. Keeps(vol, vol', frozen) /\ frozen \subseteq DOMAIN vol'
    BY <2>1, InvariantFacts DEF Keeps
  <2>10. /\ \A s \in DOMAIN snaps : snaps[s].sound => ShotOK(vol', frozen, snaps[s].node)
         /\ ~leaky => frozen = OfShots(vol', snaps)
    BY <2>9, ShotsKept
  <2>11. Typed(vol')
    <3>1. DOMAIN vol' \subseteq Block
      BY <2>1, InvariantFacts DEF Typed
    <3>2. \A b \in DOMAIN vol : Kind(vol'[b])
      BY <2>1, InvariantFacts DEF Typed, Keeps
    <3>3. ASSUME NEW f \in Shared PROVE Kind(vol'[node'[f]])
      <4>1. vol'[node'[f]] = vol[node[f]] /\ node[f] \in frozen
        BY <1>2, OwnInodes
      <4> QED  BY <4>1, InvariantFacts DEF Typed
    <3> QED  BY <2>1, <3>1, <3>2, <3>3 DEF Typed
  <2>12. ~leaky => DOMAIN vol' = OfFiles(vol', node') \cup frozen
    <3>1. \A b : b \in OfFiles(vol', node') <=> \E m \in Nodes(node') : b \in Blocks(vol', m)
      BY DEF OfFiles
    <3>2. \A b : b \in OfFiles(vol, node) <=> \E m \in Nodes(node) : b \in Blocks(vol, m)
      BY DEF OfFiles
    <3>3. SUFFICES ASSUME ~leaky PROVE DOMAIN vol' = OfFiles(vol', node') \cup frozen
      OBVIOUS
    <3>4. DOMAIN vol = OfFiles(vol, node) \cup frozen
      BY <3>3, InvariantFacts
    <3>5. ASSUME NEW b \in DOMAIN vol', b \notin frozen PROVE b \in OfFiles(vol', node')
      <4>1. CASE b \in DOMAIN vol
        <5>1. PICK m \in Nodes(node) : b \in Blocks(vol, m)
          BY <3>2, <3>4, <3>5, <4>1
        <5>2. m \in Nodes(node') /\ b \in Blocks(vol', m)
          BY <2>2, <2>3, <3>5, <5>1
        <5> QED  BY <3>1, <5>2
      <4>2. ASSUME NEW f \in Shared, b = node'[f] PROVE b \in OfFiles(vol', node')
        BY <2>2, <2>3, <3>1, <4>2
      <4> QED  BY <2>1, <4>1, <4>2
    <3>6. ASSUME NEW m \in Nodes(node'), NEW b \in Blocks(vol', m) PROVE b \in DOMAIN vol'
      BY <2>6, TreeFacts DEF FilesOK
    <3> QED  BY <2>9, <3>1, <3>5, <3>6
  <2> QED  BY <2>1, <2>6, <2>7, <2>8, <2>9, <2>10, <2>11, <2>12, InvariantFacts, Establish
<1> QED  BY <1>1, <1>2

------------------------------------------------------------------------------
LEMMA InitInvariant ==
  ASSUME Init
  PROVE  IInv
<1>1. /\ volume \in Volumes /\ vol = [b \in {} |-> Zero] /\ frozen = {}
      /\ node = [f \in File |-> NoInode] /\ snaps = <<>> /\ sound = TRUE /\ leaky = FALSE
  BY DEF Init
<1>2. Nodes(node) = {} /\ DOMAIN vol = {} /\ DOMAIN snaps = {}
  <2>1. \A f \in File : node[f] = NoInode
    BY <1>1
  <2>2. \A n : n \notin Nodes(node)
    BY <2>1 DEF Nodes
  <2>3. DOMAIN vol = {} /\ DOMAIN snaps = {}
    BY <1>1
  <2> QED  BY <2>2, <2>3
<1>3. FilesOK(vol, frozen, node) /\ OneName(node) /\ node \in Names
  BY <1>1, <1>2 DEF FilesOK, OneName, Names
<1>4. OfFiles(vol, node) = {} /\ OfShots(vol, snaps) = {}
  BY <1>2 DEF OfFiles, OfShots
<1>5. Len(snaps) = 0 /\ snaps \in Seq([node : Names, sound : BOOLEAN])
  BY <1>1
<1>6. TypeOK
  <2>1. Live = {} /\ Len(snaps) <= MaxSnapshots
    BY <1>2, <1>5, InodeAssumption DEF Live
  <2>2. \A b \in Live : \/ vol[b] \in Content \cup {Zero}
                        \/ vol[b] \in [ptr : Seq(Block)]
                        \/ vol[b] \in [size : 0 .. MaxSize, ptr : Seq(Block)]
    BY <2>1
  <2>3. /\ volume \in Volumes /\ Live \subseteq Block /\ frozen \subseteq Live
        /\ node \in [File -> Block \cup {NoInode}] /\ sound \in BOOLEAN /\ leaky \in BOOLEAN
    BY <1>1, <1>3, <2>1 DEF Names
  <2> QED  BY <2>1, <2>2, <2>3 DEF TypeOK
<1> QED  BY <1>1, <1>2, <1>3, <1>4, <1>5, <1>6 DEF IInv, Live

LEMMA InvariantHolds ==
  Spec => []IInv
<1>1. Init => IInv
  BY InitInvariant
<1>2. IInv /\ [Next]_vars => IInv'
  <2>1. SUFFICES ASSUME IInv, [Next]_vars PROVE IInv'
    OBVIOUS
  <2>2. CASE UNCHANGED vars
    <3>1. UNCHANGED <<volume, vol, frozen, node, snaps, sound, leaky>>
      BY <2>2 DEF vars
    <3> QED  BY <2>1, <3>1, InvariantFacts, Establish
  <2>3. CASE Next
    <3>1. UNCHANGED volume
      BY <2>3 DEF Next
    <3>2. ASSUME NEW f \in File, create(f) PROVE IInv'
      BY <2>1, <3>1, <3>2, CreateKeeps
    <3>3. ASSUME NEW f \in File, unlink_self(f) PROVE IInv'
      BY <2>1, <3>1, <3>3, UnlinkKeeps
    <3>4. CASE get_inode
      BY <2>1, <3>1, <3>4, GetInodeKeeps
    <3>5. ASSUME NEW f \in File, NEW size \in volume.sizes, resize(f, size) PROVE IInv'
      BY <2>1, <3>1, <3>5, ResizeKeeps
    <3>6. ASSUME NEW f \in File, NEW first \in 1 .. MaxSize, NEW last \in 1 .. MaxSize,
                 NEW c \in Content, write(f, first, last, c)
          PROVE  IInv'
      BY <2>1, <3>1, <3>6, WriteKeeps
    <3>7. CASE snapshot
      BY <2>1, <3>1, <3>7, SnapshotKeeps
    <3>8. ASSUME NEW s \in DOMAIN snaps, reset_as(s) PROVE IInv'
      BY <2>1, <3>1, <3>8, ResetKeeps
    <3> QED  BY <2>3, <3>2, <3>3, <3>4, <3>5, <3>6, <3>7, <3>8 DEF Next
  <2> QED  BY <2>1, <2>2, <2>3
<1> QED  BY <1>1, <1>2, PTL DEF Spec

\* What is in a block is a content, a list of blocks or a header and a list of
\* blocks, what is frozen is live and every inode is a block: every allocation,
\* copy and release of inode.cpp stays within the volume.
THEOREM InodeTypeOK ==
  Spec => []TypeOK
<1>1. IInv => TypeOK
  BY DEF IInv
<1> QED  BY <1>1, InvariantHolds, PTL

\* Through every create, resize, write, unlink, snapshot and rollback, whether or
\* not space runs out on the way, every inode is the root of a tree of live blocks
\* of the size its header gives, in which no block is twice; a snapshot's blocks are
\* frozen; and two files share only frozen blocks.
THEOREM InodeTreesAreTrees ==
  Spec => []TreesAreTrees
<1>1. IInv => TreesAreTrees
  <2>1. SUFFICES ASSUME IInv PROVE TreesAreTrees
    OBVIOUS
  <2>2. \A n : Tree(n) = Blocks(vol, n)
    BY DEF Tree, Blocks
  <2>3. ASSUME sound, NEW n \in Nodes(node)
        PROVE  /\ Tree(n) \subseteq Live
               /\ Len(Level3(vol, n)) = vol[n].size
               /\ Cardinality(Tree(n)) =
                     1 + Len(Level1(vol, n)) + Len(Level2(vol, n)) + Len(Level3(vol, n))
               /\ \A m \in Nodes(node) \ {n} : Tree(n) \cap Tree(m) \subseteq frozen
    <3>1. FilesOK(vol, frozen, node)
      BY <2>1, <2>3, InvariantFacts
    <3>2. IsTree(vol, n)
      BY <3>1 DEF FilesOK
    <3>3. Len(Level3(vol, n)) = vol[n].size
      BY <3>2 DEF IsTree, Holds
    <3>4. \A m \in Nodes(node) \ {n} : Tree(n) \cap Tree(m) \subseteq frozen
      BY <2>2, <3>1 DEF FilesOK
    <3> QED  BY <2>2, <3>2, <3>3, <3>4, TreeFacts, CountOfTree DEF Live
  <2>4. ASSUME NEW s \in DOMAIN snaps, snaps[s].sound, NEW n \in Nodes(snaps[s].node)
        PROVE  Tree(n) \subseteq frozen
    <3>1. ShotOK(vol, frozen, snaps[s].node)
      BY <2>1, <2>4, InvariantFacts
    <3> QED  BY <2>2, <2>4, <3>1 DEF ShotOK
  <2> QED  BY <2>3, <2>4 DEF TreesAreTrees
<1> QED  BY <1>1, InvariantHolds, PTL

\* As long as no call has failed half way no block is live that neither a file nor
\* a snapshot reaches: a redirect frees the block it replaces unless a snapshot
\* has it, and a resize frees all that it cuts off.
THEOREM InodeNothingLeaks ==
  Spec => []NothingLeaks
<1>1. IInv => NothingLeaks
  <2>1. SUFFICES ASSUME IInv, ~leaky
                 PROVE  Live = (UNION {Tree(n) : n \in Nodes(node)})
                     \cup (UNION {UNION {Tree(n) : n \in Nodes(snaps[s].node)} : s \in DOMAIN snaps})
    BY DEF NothingLeaks
  <2>2. \A n : Tree(n) = Blocks(vol, n)
    BY DEF Tree, Blocks
  <2>3. \A names : UNION {Tree(n) : n \in Nodes(names)} = OfFiles(vol, names)
    BY <2>2 DEF OfFiles
  <2>4. UNION {UNION {Tree(n) : n \in Nodes(snaps[s].node)} : s \in DOMAIN snaps} = OfShots(vol, snaps)
    BY <2>3 DEF OfShots
  <2>5. Live = OfFiles(vol, node) \cup frozen /\ frozen = OfShots(vol, snaps)
    BY <2>1, InvariantFacts DEF Live
  <2>6. UNION {Tree(n) : n \in Nodes(node)} = OfFiles(vol, node)
    BY <2>3
  <2> HIDE DEF Tree, Nodes
  <2> QED  BY <2>4, <2>5, <2>6, Zenon
<1> QED  BY <1>1, InvariantHolds, PTL

------------------------------------------------------------------------------
(***************************************************************************)
(* What the files read as.                                                 *)
(***************************************************************************)
Read(v, n) == [p \in 1 .. v[n].size |-> v[Level3(v, n)[p]]]
ReadAll(v, names) == [f \in File |-> IF names[f] = NoInode THEN NoInode ELSE Read(v, names[f])]
View(v, known, names) == IF known THEN ReadAll(v, names) ELSE Lost
Views(v, shots) == [s \in DOMAIN shots |-> View(v, shots[s].sound, shots[s].node)]

FilesNow == IF sound THEN Contents(node) ELSE Lost
ShotsNow == [s \in DOMAIN snaps |-> IF snaps[s].sound THEN Contents(snaps[s].node) ELSE Lost]

LEMMA ViewNow == FilesNow = View(vol, sound, node) /\ ShotsNow = Views(vol, snaps)
BY DEF FilesNow, ShotsNow, Contents, View, Views, ReadAll, Read

LEMMA ViewNext == FilesNow' = View(vol', sound', node') /\ ShotsNow' = Views(vol', snaps')
BY DEF FilesNow, ShotsNow, Contents, View, Views, ReadAll, Read, Level3, Level2, Level1, Linear

LEMMA ReadFacts ==
  ASSUME NEW v, NEW n, IsTree(v, n)
  PROVE  /\ Read(v, n) \in Seq(Content \cup {Zero}) /\ Len(Read(v, n)) = Len(Level3(v, n))
         /\ DOMAIN Read(v, n) = 1 .. Len(Level3(v, n))
         /\ \A p \in 1 .. Len(Level3(v, n)) : Read(v, n)[p] = v[Level3(v, n)[p]]
         /\ Read(v, n) # NoInode
<1> DEFINE l3 == Level3(v, n)
           len == Len(l3)
           r == Read(v, n)
<1>1. l3 \in Seq(Nat) /\ v[n].size = len /\ \A b \in Range(l3) : v[b] \in Content \cup {Zero}
  BY TreeFacts DEF IsTree, Holds
<1>2. len \in Nat /\ \A p \in 1 .. len : l3[p] \in Range(l3)
  BY <1>1, LenProperties DEF Range
<1>3. r = [p \in 1 .. len |-> v[l3[p]]]
  BY <1>1 DEF Read
<1> HIDE DEF l3, len, r
<1>4. r \in Seq(Content \cup {Zero}) /\ Len(r) = len
  <2>1. \A p \in 1 .. len : v[l3[p]] \in Content \cup {Zero}
    BY <1>1, <1>2
  <2> QED  BY <1>2, <1>3, <2>1, IsASeq
<1>5. r # NoInode
  BY <1>4, SentinelAssumption
<1>6. DOMAIN r = 1 .. len /\ \A p \in 1 .. len : r[p] = v[l3[p]]
  BY <1>3
<1> QED  BY <1>4, <1>5, <1>6 DEF l3, len, r

\* Two trees with the same storage blocks, which hold the same.
SameBlocks(v, n, w, m) ==
    /\ IsTree(v, n) /\ IsTree(w, m)
    /\ Len(Level3(w, m)) = Len(Level3(v, n))
    /\ \A p \in 1 .. Len(Level3(v, n)) : w[Level3(w, m)[p]] = v[Level3(v, n)[p]]

LEMMA SameRead ==
  ASSUME NEW v, NEW n, NEW w, NEW m, SameBlocks(v, n, w, m)
  PROVE  Read(w, m) = Read(v, n)
<1> DEFINE a == Read(v, n)
           b == Read(w, m)
           len == Len(Level3(v, n))
<1>1. /\ IsTree(v, n) /\ IsTree(w, m) /\ Len(Level3(w, m)) = len
      /\ \A p \in 1 .. len : w[Level3(w, m)[p]] = v[Level3(v, n)[p]]
  BY DEF SameBlocks
<1>2. a \in Seq(Content \cup {Zero}) /\ Len(a) = len /\ \A p \in 1 .. len : a[p] = v[Level3(v, n)[p]]
  BY <1>1, ReadFacts
<1>3. b \in Seq(Content \cup {Zero}) /\ Len(b) = len /\ \A p \in 1 .. len : b[p] = w[Level3(w, m)[p]]
  BY <1>1, ReadFacts
<1> HIDE DEF a, b, len
<1>4. \A p \in 1 .. len : a[p] = b[p]
  BY <1>1, <1>2, <1>3
<1>5. a = b
  BY <1>2, <1>3, <1>4, SeqEqual
<1> QED  BY <1>5 DEF a, b

LEMMA UnchangedRead ==
  ASSUME NEW v, NEW n, NEW w, NEW m, IsTree(v, n), IsTree(w, m), Level3(w, m) = Level3(v, n),
         Keeps(v, w, Range(Level3(v, n)))
  PROVE  Read(w, m) = Read(v, n)
<1> DEFINE l3 == Level3(v, n)
<1>1. l3 \in Seq(Nat)
  BY TreeFacts
<1>2. \A p \in 1 .. Len(l3) : w[l3[p]] = v[l3[p]]
  <2> HIDE DEF l3
  <2>1. \A p \in 1 .. Len(l3) : l3[p] \in Range(l3)
    BY <1>1, LenProperties DEF Range
  <2> QED  BY <2>1 DEF Keeps, l3
<1>3. SameBlocks(v, n, w, m)
  BY <1>2 DEF SameBlocks
<1> QED  BY <1>3, SameRead

\* The files of a state are files and not one of the sentinels.
LEMMA FilesRead ==
  ASSUME NEW v, NEW fr, NEW names, FilesOK(v, fr, names)
  PROVE  /\ ReadAll(v, names) # Lost /\ DOMAIN ReadAll(v, names) = File
         /\ \A f \in File : /\ names[f] = NoInode <=> ReadAll(v, names)[f] = NoInode
                            /\ names[f] # NoInode => ReadAll(v, names)[f] = Read(v, names[f])
<1> DEFINE all == ReadAll(v, names)
<1>1. all = [f \in File |-> IF names[f] = NoInode THEN NoInode ELSE Read(v, names[f])]
  BY DEF ReadAll
<1>2. ASSUME NEW f \in File, names[f] # NoInode
      PROVE  Read(v, names[f]) \in Seq(Content \cup {Zero}) /\ Read(v, names[f]) # NoInode
  <2>1. names[f] \in Nodes(names)
    BY <1>2 DEF Nodes
  <2>2. IsTree(v, names[f])
    BY <2>1 DEF FilesOK
  <2> QED  BY <2>2, ReadFacts
<1> HIDE DEF all
<1>3. all \in [File -> Seq(Content \cup {Zero}) \cup {NoInode}]
  BY <1>1, <1>2
<1> QED  BY <1>1, <1>2, <1>3, SentinelAssumption DEF all

\* The view of all files when those of one name may have changed.
OnlyName(v, names, w, names2, f) ==
    \A g \in File \ {f} : /\ names2[g] = names[g]
                          /\ names[g] # NoInode => Read(w, names2[g]) = Read(v, names[g])

LEMMA ViewShift ==
  ASSUME NEW v, NEW names, NEW w, NEW names2, NEW f \in File, OnlyName(v, names, w, names2, f),
         NEW x, x = IF names2[f] = NoInode THEN NoInode ELSE Read(w, names2[f])
  PROVE  ReadAll(w, names2) = [ReadAll(v, names) EXCEPT ![f] = x]
<1> DEFINE a == ReadAll(v, names)
           b == ReadAll(w, names2)
<1>1. /\ a = [g \in File |-> IF names[g] = NoInode THEN NoInode ELSE Read(v, names[g])]
      /\ b = [g \in File |-> IF names2[g] = NoInode THEN NoInode ELSE Read(w, names2[g])]
  BY DEF ReadAll
<1> HIDE DEF a, b
<1>2. ASSUME NEW g \in File PROVE b[g] = [a EXCEPT ![f] = x][g]
  <2>1. CASE g = f
    BY <1>1, <2>1
  <2>2. CASE g # f
    <3>1. names2[g] = names[g] /\ (names[g] # NoInode => Read(w, names2[g]) = Read(v, names[g]))
      BY <2>2 DEF OnlyName
    <3> QED  BY <1>1, <2>2, <3>1
  <2> QED  BY <2>1, <2>2
<1>3. b = [g \in File |-> b[g]] /\ [a EXCEPT ![f] = x] = [g \in File |-> [a EXCEPT ![f] = x][g]]
  BY <1>1
<1>4. b = [a EXCEPT ![f] = x]
  <2> DEFINE e == [a EXCEPT ![f] = x]
  <2>1. b = [g \in File |-> b[g]] /\ e = [g \in File |-> e[g]] /\ \A g \in File : b[g] = e[g]
    BY <1>2, <1>3
  <2> HIDE DEF e
  <2>2. b = e
    BY <2>1
  <2> QED  BY <2>2 DEF e
<1> QED  BY <1>4 DEF a, b

LEMMA ViewSame ==
  ASSUME NEW v, NEW names, NEW w, NEW names2,
         \A g \in File : /\ names2[g] = NoInode <=> names[g] = NoInode
                         /\ names[g] # NoInode => Read(w, names2[g]) = Read(v, names[g])
  PROVE  ReadAll(w, names2) = ReadAll(v, names)
BY DEF ReadAll

\* A sound snapshot reads the same as long as what is frozen stays.
LEMMA ShotsRead ==
  ASSUME IInv, NEW w, Keeps(vol, w, frozen)
  PROVE  Views(w, snaps) = Views(vol, snaps)
<1>1. ASSUME NEW s \in DOMAIN snaps
      PROVE  View(w, snaps[s].sound, snaps[s].node) = View(vol, snaps[s].sound, snaps[s].node)
  <2> DEFINE names == snaps[s].node
  <2>1. SUFFICES ASSUME snaps[s].sound PROVE ReadAll(w, names) = ReadAll(vol, names)
    BY DEF View
  <2>2. ShotOK(vol, frozen, names) /\ ShotOK(w, frozen, names)
    BY <2>1, InvariantFacts, ShotsKept
  <2> HIDE DEF names
  <2>3. ASSUME NEW n \in Nodes(names) PROVE Read(w, n) = Read(vol, n)
    <3>1. IsTree(vol, n) /\ Blocks(vol, n) \subseteq frozen /\ IsTree(w, n)
      BY <2>2 DEF ShotOK
    <3>2. Level3(w, n) = Level3(vol, n)
      BY <2>2, ShotStays
    <3>3. Keeps(vol, w, Range(Level3(vol, n)))
      BY <3>1 DEF Keeps, Blocks
    <3> QED  BY <3>1, <3>2, <3>3, UnchangedRead
  <2>4. \A g \in File : names[g] # NoInode => Read(w, names[g]) = Read(vol, names[g])
    BY <2>3 DEF Nodes
  <2> QED  BY <2>4, ViewSame
<1> QED  BY <1>1 DEF Views

------------------------------------------------------------------------------
(***************************************************************************)
(* Every call is a step of FileStore, or changes nothing that is read.     *)
(***************************************************************************)
Simulates == Files!Next \/ (FilesNow' = FilesNow /\ ShotsNow' = ShotsNow)

\* While the files are known their view is that of the volume.
LEMMA Known ==
  ASSUME IInv, sound
  PROVE  /\ FilesNow = ReadAll(vol, node) /\ FilesNow # Lost
         /\ \A f \in File : /\ node[f] = NoInode <=> FilesNow[f] = NoInode
                            /\ node[f] # NoInode => FilesNow[f] = Read(vol, node[f])
<1>1. FilesOK(vol, frozen, node)
  BY InvariantFacts
<1>2. FilesNow = ReadAll(vol, node)
  BY ViewNow DEF View
<1> QED  BY <1>1, <1>2, FilesRead

LEMMA ShotsUnchanged ==
  ASSUME IInv, UNCHANGED snaps, Keeps(vol, vol', frozen)
  PROVE  ShotsNow' = ShotsNow
<1>1. Views(vol', snaps) = Views(vol, snaps)
  BY ShotsRead
<1> QED  BY <1>1, ViewNow, ViewNext

LEMMA SameFiles ==
  ASSUME IInv, UNCHANGED snaps, Keeps(vol, vol', frozen), sound, sound',
         ReadAll(vol', node') = ReadAll(vol, node)
  PROVE  Simulates
<1>1. FilesNow' = FilesNow
  BY ViewNow, ViewNext DEF View
<1> QED  BY <1>1, ShotsUnchanged DEF Simulates

LEMMA CreateSimulates ==
  ASSUME IInv, UNCHANGED volume, NEW f \in File, create(f)
  PROVE  Simulates
<1> DEFINE n == Nth(Free(vol), 1)
           x == [size |-> 0, ptr |-> <<>>]
<1>1. /\ sound /\ node[f] = NoInode /\ Free(vol) # {}
      /\ vol' = Put(vol, n, x) /\ node' = [node EXCEPT ![f] = n]
      /\ UNCHANGED <<frozen, snaps, sound, leaky>>
  BY DEF create
<1>2. n \in Block /\ n \notin DOMAIN vol /\ n \in Nat
  BY <1>1, FirstFree, InvariantFacts
<1> HIDE DEF n
<1>3. /\ DOMAIN vol' = DOMAIN vol \cup {n} /\ vol'[n] = x /\ Keeps(vol, vol', DOMAIN vol)
  <2>1. IsPut(vol', vol, n, x)
    BY <1>1, PutFacts
  <2> HIDE DEF x
  <2> QED  BY <1>2, <2>1 DEF IsPut, Keeps
<1>4. FilesOK(vol, frozen, node) /\ node \in [File -> Block \cup {NoInode}]
  BY <1>1, InvariantFacts DEF Names
<1>5. Keeps(vol, vol', frozen)
  BY <1>3, InvariantFacts DEF Keeps
<1>6. node'[f] = n /\ n # NoInode
  BY <1>1, <1>2, <1>4, SentinelAssumption
<1>7. Read(vol', n) = <<>>
  <2>1. IsTree(vol', n) /\ Level3(vol', n) = <<>>
    BY <1>3, EmptyFile
  <2>2. Read(vol', n) \in Seq(Content \cup {Zero}) /\ Len(Read(vol', n)) = 0
    BY <2>1, ReadFacts
  <2> QED  BY <2>2, EmptySeq
<1>8. OnlyName(vol, node, vol', node', f)
  <2>1. SUFFICES ASSUME NEW g \in File \ {f}, node[g] # NoInode
                 PROVE  Read(vol', node[g]) = Read(vol, node[g])
    BY <1>1, <1>4 DEF OnlyName
  <2> DEFINE m == node[g]
  <2>2. IsTree(vol, m)
    BY <1>4, <2>1 DEF FilesOK, Nodes
  <2> HIDE DEF m
  <2>3. Blocks(vol, m) \subseteq DOMAIN vol
    BY <2>2, TreeFacts
  <2>4. \A b \in Blocks(vol, m) : b \in DOMAIN vol' /\ vol'[b] = vol[b]
    BY <1>3, <2>3 DEF Keeps
  <2>5. IsTree(vol', m) /\ Level3(vol', m) = Level3(vol, m)
    BY <2>2, <2>4, Same
  <2>6. Keeps(vol, vol', Range(Level3(vol, m)))
    BY <2>4 DEF Keeps, Blocks
  <2>7. Read(vol', m) = Read(vol, m)
    BY <2>2, <2>5, <2>6, UnchangedRead
  <2> QED  BY <2>7 DEF m
<1>9. ReadAll(vol', node') = [ReadAll(vol, node) EXCEPT ![f] = <<>>]
  BY <1>6, <1>7, <1>8, ViewShift
<1>10. /\ FilesNow # Lost /\ FilesNow[f] = NoInode /\ FilesNow' = [FilesNow EXCEPT ![f] = <<>>]
       /\ ShotsNow' = ShotsNow
  BY <1>1, <1>5, <1>9, Known, ViewNext, ShotsUnchanged DEF View
<1>11. Files!Create(f)
  BY <1>10 DEF Files!Create, Files!Known, FilesNow, ShotsNow
<1> QED  BY <1>11 DEF Files!Next, Simulates

LEMMA UnlinkSimulates ==
  ASSUME IInv, UNCHANGED volume, NEW f \in File, unlink_self(f)
  PROVE  Simulates
<1> DEFINE n == node[f]
           gone == Blocks(vol, n) \ frozen
<1>1. /\ Writable(f) /\ vol' = Drop(vol, gone) /\ node' = [node EXCEPT ![f] = NoInode]
      /\ UNCHANGED <<frozen, snaps, sound, leaky>>
  BY DEF unlink_self, Blocks
<1>2. sound /\ n # NoInode /\ n \in Nodes(node)
  BY <1>1, OpenFile DEF Writable
<1>3. FilesOK(vol, frozen, node) /\ node \in [File -> Block \cup {NoInode}] /\ OneName(node)
  BY <1>2, InvariantFacts DEF Names
<1>4. \A b \in DOMAIN vol : b \notin Blocks(vol, n) \ frozen => b \in DOMAIN vol' /\ vol'[b] = vol[b]
  <2> HIDE DEF gone
  <2>1. IsDrop(vol', vol, gone)
    BY <1>1, DropFacts
  <2> QED  BY <2>1 DEF IsDrop, gone
<1>5. Keeps(vol, vol', frozen)
  BY <1>4, InvariantFacts DEF Keeps
<1>6. OnlyName(vol, node, vol', node', f)
  <2>1. SUFFICES ASSUME NEW g \in File \ {f}, node[g] # NoInode
                 PROVE  Read(vol', node[g]) = Read(vol, node[g])
    BY <1>1, <1>3 DEF OnlyName
  <2> DEFINE m == node[g]
  <2>2. m \in Nodes(node) /\ m # n
    BY <1>3, <2>1 DEF Nodes, OneName
  <2> HIDE DEF m, n
  <2>3. /\ IsTree(vol', m) /\ Level3(vol', m) = Level3(vol, m)
        /\ \A b \in Blocks(vol, m) : b \in DOMAIN vol' /\ vol'[b] = vol[b]
    BY <1>2, <1>3, <1>4, <2>2, OthersStay
  <2>4. IsTree(vol, m)
    BY <1>3, <2>2 DEF FilesOK
  <2>5. Keeps(vol, vol', Range(Level3(vol, m)))
    BY <2>3 DEF Keeps, Blocks
  <2>6. Read(vol', m) = Read(vol, m)
    BY <2>3, <2>4, <2>5, UnchangedRead
  <2> QED  BY <2>6 DEF m
<1>7. node'[f] = NoInode
  BY <1>1, <1>3
<1>8. ReadAll(vol', node') = [ReadAll(vol, node) EXCEPT ![f] = NoInode]
  BY <1>6, <1>7, ViewShift
<1>9. /\ FilesNow # Lost /\ FilesNow[f] # NoInode /\ FilesNow' = [FilesNow EXCEPT ![f] = NoInode]
      /\ ShotsNow' = ShotsNow
  BY <1>1, <1>2, <1>5, <1>8, Known, ViewNext, ShotsUnchanged DEF View
<1>10. Files!Remove(f)
  BY <1>9 DEF Files!Remove, Files!Exists, Files!Known, FilesNow, ShotsNow
<1> QED  BY <1>10 DEF Files!Next, Simulates

LEMMA GetInodeSimulates ==
  ASSUME IInv, UNCHANGED volume, get_inode
  PROVE  Simulates
<1>1. FilesOK(vol, frozen, node) /\ sound /\ frozen \subseteq DOMAIN vol
  BY InvariantFacts DEF get_inode
<1>2. CASE ~(Cardinality(Shared) <= Cardinality(Free(vol)))
  <2>1. /\ UNCHANGED <<frozen, node, snaps, sound>>
        /\ vol' = [b \in Block |-> IF b \in Live THEN vol[b] ELSE Zero]
    BY <1>2 DEF get_inode
  <2>2. Keeps(vol, vol', DOMAIN vol) /\ Keeps(vol, vol', frozen)
    BY <1>1, <2>1, InvariantFacts DEF Keeps, Typed, Live
  <2>3. ASSUME NEW m \in Nodes(node) PROVE Read(vol', m) = Read(vol, m)
    <3>1. IsTree(vol, m)
      BY <1>1 DEF FilesOK
    <3>2. \A b \in Blocks(vol, m) : b \in DOMAIN vol' /\ vol'[b] = vol[b]
      BY <2>2, <3>1, TreeFacts DEF Keeps
    <3>3. IsTree(vol', m) /\ Level3(vol', m) = Level3(vol, m)
      BY <3>1, <3>2, Same
    <3>4. Keeps(vol, vol', Range(Level3(vol, m)))
      BY <3>2 DEF Keeps, Blocks
    <3> QED  BY <3>1, <3>3, <3>4, UnchangedRead
  <2>4. \A g \in File : node[g] # NoInode => Read(vol', node[g]) = Read(vol, node[g])
    BY <2>3 DEF Nodes
  <2>5. ReadAll(vol', node') = ReadAll(vol, node)
    BY <2>1, <2>4, ViewSame
  <2> QED  BY <1>1, <2>1, <2>2, <2>5, SameFiles
<1>3. CASE Cardinality(Shared) <= Cardinality(Free(vol))
  <2>1. /\ Keeps(vol, vol', DOMAIN vol)
        /\ \A f \in Shared : /\ f \in File /\ node[f] # NoInode /\ node[f] \in frozen
                             /\ node'[f] \in Block /\ node'[f] \notin DOMAIN vol
        /\ \A f \in File \ Shared : node'[f] = node[f]
        /\ UNCHANGED <<frozen, snaps, sound, leaky>>
    BY <1>3, OwnInodes
  <2>2. /\ \A f \in Shared : /\ IsTree(vol', node'[f])
                             /\ Level3(vol', node'[f]) = Level3(vol, node[f])
                             /\ \A b \in Range(Level3(vol, node[f])) : vol'[b] = vol[b]
        /\ \A m \in Nodes(node) : /\ IsTree(vol', m) /\ Level3(vol', m) = Level3(vol, m)
                                  /\ \A b \in Blocks(vol, m) : vol'[b] = vol[b]
    BY <1>3, OwnTrees
  <2>3. ASSUME NEW g \in File, node[g] # NoInode
        PROVE  Read(vol', node'[g]) = Read(vol, node[g]) /\ node'[g] # NoInode
    <3> DEFINE n == node[g]
               m == node'[g]
    <3>1. n \in Nodes(node)
      BY <2>3 DEF Nodes
    <3>2. IsTree(vol, n)
      BY <1>1, <3>1 DEF FilesOK
    <3>3. \A b \in Range(Level3(vol, n)) : b \in DOMAIN vol
      BY <3>2, TreeFacts DEF Blocks
    <3>4. /\ IsTree(vol', m) /\ Level3(vol', m) = Level3(vol, n) /\ m # NoInode
          /\ \A b \in Range(Level3(vol, n)) : vol'[b] = vol[b]
      <4>1. CASE g \in Shared
        <5>1. m \in Nat
          BY <2>1, <4>1, BlockFacts, InvariantFacts
        <5>2. m # NoInode
          BY <5>1, SentinelAssumption
        <5> QED  BY <2>2, <4>1, <5>2
      <4>2. CASE g \notin Shared
        <5>1. m = n
          BY <2>1, <4>2
        <5> HIDE DEF m, n
        <5>2. /\ IsTree(vol', n) /\ Level3(vol', n) = Level3(vol, n)
              /\ \A b \in Range(Level3(vol, n)) : vol'[b] = vol[b]
          BY <2>2, <3>1 DEF Blocks
        <5> QED  BY <2>3, <5>1, <5>2 DEF n
      <4> QED  BY <4>1, <4>2
    <3> HIDE DEF n, m
    <3>5. Keeps(vol, vol', Range(Level3(vol, n)))
      BY <2>1, <3>3 DEF Keeps
    <3>6. Read(vol', m) = Read(vol, n)
      BY <3>2, <3>4, <3>5, UnchangedRead
    <3> QED  BY <3>4, <3>6 DEF n, m
  <2>4. ASSUME NEW g \in File, node[g] = NoInode PROVE node'[g] = NoInode
    <3>1. g \notin Shared
      BY <2>4, <2>1
    <3> QED  BY <2>1, <2>4, <3>1
  <2>5. ReadAll(vol', node') = ReadAll(vol, node)
    BY <2>3, <2>4, ViewSame
  <2>6. Keeps(vol, vol', frozen)
    BY <1>1, <2>1 DEF Keeps
  <2> QED  BY <1>1, <2>1, <2>5, <2>6, SameFiles
<1> QED  BY <1>2, <1>3

\* The files whose blocks a call did not touch read the same.
LEMMA OthersRead ==
  ASSUME IInv, UNCHANGED node, NEW f \in File, node[f] # NoInode, sound,
         Rewritten(vol, vol', frozen, node[f])
  PROVE  OnlyName(vol, node, vol', node', f) /\ Keeps(vol, vol', frozen)
<1> DEFINE n == node[f]
<1>1. \A b \in DOMAIN vol : b \notin Blocks(vol, n) \ frozen => b \in DOMAIN vol' /\ vol'[b] = vol[b]
  BY DEF Rewritten
<1>2. Keeps(vol, vol', frozen)
  BY <1>1, InvariantFacts DEF Keeps
<1>3. FilesOK(vol, frozen, node) /\ OneName(node) /\ n \in Nodes(node)
  BY InvariantFacts DEF Nodes
<1>4. SUFFICES ASSUME NEW g \in File \ {f}, node[g] # NoInode
               PROVE  Read(vol', node[g]) = Read(vol, node[g])
  BY <1>2 DEF OnlyName
<1> DEFINE m == node[g]
<1>5. m \in Nodes(node) /\ m # n
  BY <1>3, <1>4 DEF Nodes, OneName
<1> HIDE DEF m, n
<1>6. /\ IsTree(vol', m) /\ Level3(vol', m) = Level3(vol, m)
      /\ \A b \in Blocks(vol, m) : b \in DOMAIN vol' /\ vol'[b] = vol[b]
  BY <1>1, <1>3, <1>5, OthersStay
<1>7. IsTree(vol, m)
  BY <1>3, <1>5 DEF FilesOK
<1>8. Keeps(vol, vol', Range(Level3(vol, m)))
  BY <1>6 DEF Keeps, Blocks
<1>9. Read(vol', m) = Read(vol, m)
  BY <1>6, <1>7, <1>8, UnchangedRead
<1> QED  BY <1>9 DEF m

LEMMA ResizeSimulates ==
  ASSUME IInv, UNCHANGED volume, NEW f \in File, NEW size \in volume.sizes, resize(f, size)
  PROVE  Simulates
<1>1. Writable(f) /\ UNCHANGED <<frozen, node, snaps>> /\ node[f] # NoInode
  BY DEF resize, Writable
<1>2. Open(vol, node[f]) /\ node[f] \in Nodes(node) /\ sound
  BY <1>1, OpenFile
<1>3. size \in 0 .. MaxSize
  BY InvariantFacts, InodeAssumption
<1>4. Exhausted \/ Resized(node[f], size)
  BY <1>2, <1>3, ResizeOutcome
<1>5. CASE Exhausted
  <2>1. /\ Keeps(vol, vol', frozen) /\ (sound' => Keeps(vol, vol', DOMAIN vol))
        /\ sound' \in BOOLEAN
    BY <1>5 DEF Exhausted, Keeps, Live
  <2>2. ShotsNow' = ShotsNow
    BY <1>1, <2>1, ShotsUnchanged
  <2>3. CASE ~sound'
    <3>1. FilesNow' = Lost
      BY <2>3 DEF FilesNow
    <3>2. Files!OutOfSpace
      BY <2>2, <3>1 DEF Files!OutOfSpace, FilesNow, ShotsNow
    <3> QED  BY <3>2 DEF Files!Next, Simulates
  <2>4. CASE sound'
    <3>1. FilesOK(vol, frozen, node)
      BY <1>2, InvariantFacts
    <3>2. ASSUME NEW m \in Nodes(node) PROVE Read(vol', m) = Read(vol, m)
      <4>1. IsTree(vol, m)
        BY <3>1 DEF FilesOK
      <4>2. \A b \in Blocks(vol, m) : b \in DOMAIN vol' /\ vol'[b] = vol[b]
        BY <2>1, <2>4, <4>1, TreeFacts DEF Keeps
      <4>3. IsTree(vol', m) /\ Level3(vol', m) = Level3(vol, m)
        BY <4>1, <4>2, Same
      <4>4. Keeps(vol, vol', Range(Level3(vol, m)))
        BY <4>2 DEF Keeps, Blocks
      <4> QED  BY <4>1, <4>3, <4>4, UnchangedRead
    <3>3. \A g \in File : node[g] # NoInode => Read(vol', node[g]) = Read(vol, node[g])
      BY <3>2 DEF Nodes
    <3>4. ReadAll(vol', node') = ReadAll(vol, node)
      BY <1>1, <3>3, ViewSame
    <3> QED  BY <1>1, <1>2, <2>1, <2>4, <3>4, SameFiles
  <2> QED  BY <2>1, <2>3, <2>4
<1>6. CASE Resized(node[f], size)
  <2> DEFINE n == node[f]
             a == Read(vol, n)
             x == [p \in 1 .. size |-> IF p <= Len(a) THEN a[p] ELSE Zero]
  <2>1. /\ Rewritten(vol, vol', frozen, n) /\ Len(Level3(vol', n)) = size
        /\ \A p \in 1 .. size : vol'[Level3(vol', n)[p]] =
              IF p <= Len(Level3(vol, n)) THEN vol[Level3(vol, n)[p]] ELSE Zero
        /\ UNCHANGED <<sound, leaky>>
    BY <1>6 DEF Resized
  <2>2. OnlyName(vol, node, vol', node', f) /\ Keeps(vol, vol', frozen)
    BY <1>1, <1>2, <2>1, OthersRead
  <2>3. node'[f] = n /\ n # NoInode
    BY <1>1
  <2>4. IsTree(vol, n) /\ IsTree(vol', n)
    BY <1>2, <2>1 DEF Open, Rewritten
  <2> HIDE DEF n
  <2>5. Read(vol', n) = x
    <3> DEFINE b == Read(vol', n)
    <3>1. /\ Len(a) = Len(Level3(vol, n)) /\ Len(a) \in Nat
          /\ \A p \in 1 .. Len(a) : a[p] = vol[Level3(vol, n)[p]]
      BY <2>4, ReadFacts, LenProperties
    <3>2. /\ b \in Seq(Content \cup {Zero}) /\ Len(b) = size
          /\ \A p \in 1 .. size : b[p] = vol'[Level3(vol', n)[p]]
      BY <2>1, <2>4, ReadFacts
    <3> HIDE DEF a, b
    <3>3. \A p \in 1 .. size : b[p] = IF p <= Len(a) THEN a[p] ELSE Zero
      <4>1. SUFFICES ASSUME NEW p \in 1 .. size
                     PROVE  b[p] = IF p <= Len(a) THEN a[p] ELSE Zero
        OBVIOUS
      <4>2. p \in Nat /\ p >= 1
        BY <1>3, InodeAssumption
      <4>3. p <= Len(a) => p \in 1 .. Len(a)
        BY <3>1, <4>2
      <4> QED  BY <2>1, <3>1, <3>2, <4>1, <4>3
    <3>4. b = [p \in 1 .. size |-> b[p]]
      BY <3>2, LenProperties
    <3>5. b = x
      BY <3>3, <3>4
    <3> QED  BY <3>5 DEF b
  <2> HIDE DEF x
  <2>6. ReadAll(vol', node') = [ReadAll(vol, node) EXCEPT ![f] = x]
    BY <2>2, <2>3, <2>5, ViewShift
  <2>7. /\ FilesNow # Lost /\ FilesNow[f] # NoInode /\ FilesNow[f] = a
        /\ FilesNow' = [FilesNow EXCEPT ![f] = x] /\ ShotsNow' = ShotsNow
    BY <1>1, <1>2, <2>1, <2>2, <2>3, <2>6, Known, ViewNext, ShotsUnchanged DEF View, n
  <2>8. Files!Resize(f, size)
    <3> HIDE DEF a
    <3>1. x = [p \in 1 .. size |-> IF p <= Len(FilesNow[f]) THEN FilesNow[f][p] ELSE Zero]
      BY <2>7 DEF x
    <3> QED  BY <2>7, <3>1 DEF Files!Resize, Files!Exists, Files!Known, FilesNow, ShotsNow
  <2> QED  BY <1>3, <2>8 DEF Files!Next, Simulates
<1> QED  BY <1>4, <1>5, <1>6

LEMMA WriteSimulates ==
  ASSUME IInv, UNCHANGED volume, NEW f \in File, NEW first \in 1 .. MaxSize,
         NEW last \in 1 .. MaxSize, NEW c \in Content, write(f, first, last, c)
  PROVE  Simulates
<1> DEFINE n == node[f]
           s == Written(vol, n, first, last, c)
           a == Read(vol, n)
<1>1. /\ Writable(f) /\ UNCHANGED <<frozen, node, snaps, sound>> /\ n # NoInode
      /\ vol' = s.vol /\ first <= last /\ last <= vol[n].size
  BY DEF write, Writable
<1>2. Open(vol, n) /\ n \in Nodes(node) /\ sound
  BY <1>1, OpenFile
<1>3. vol[n].size = Len(Level3(vol, n))
  BY <1>2 DEF Open, IsTree, Holds
<1>4. first \in Nat \ {0} /\ last \in Nat /\ MaxSize \in Nat
  BY InodeAssumption
<1>5. node'[f] = n
  BY <1>1
<1> HIDE DEF n
<1>6. Loop(vol, s, n, first, last, c)
  BY <1>1, <1>2, <1>3, <1>4, WrittenFacts
<1> HIDE DEF s
<1>7. PICK w, q, done : /\ s = [vol |-> w, done |-> done]
                        /\ q \in first - 1 .. last /\ WriteRun(vol, w, n, first, q, c)
  BY <1>6 DEF Loop
<1>8. /\ Rewritten(vol, vol', frozen, n) /\ Len(Level3(vol', n)) = Len(Level3(vol, n))
      /\ \A j \in 1 .. Len(Level3(vol, n)) :
            IF j \in first .. q THEN vol'[Level3(vol', n)[j]] = c ELSE Same3(vol, vol', n, j)
  BY <1>1, <1>7 DEF WriteRun
<1>9. IsTree(vol, n) /\ IsTree(vol', n)
  BY <1>2, <1>8 DEF Open, Rewritten
<1>10. OnlyName(vol, node, vol', node', f) /\ Keeps(vol, vol', frozen)
  BY <1>1, <1>2, <1>8, OthersRead DEF n
<1> DEFINE x == [p \in DOMAIN a |-> IF p \in first .. q THEN c ELSE a[p]]
<1>11. /\ Len(a) = Len(Level3(vol, n)) /\ Len(a) \in Nat /\ DOMAIN a = 1 .. Len(a)
       /\ \A p \in 1 .. Len(a) : a[p] = vol[Level3(vol, n)[p]]
  BY <1>9, ReadFacts, LenProperties
<1>12. Read(vol', n) = x
  <2> DEFINE b == Read(vol', n)
  <2>1. /\ b \in Seq(Content \cup {Zero}) /\ Len(b) = Len(a)
        /\ \A p \in 1 .. Len(a) : b[p] = vol'[Level3(vol', n)[p]]
    BY <1>8, <1>9, <1>11, ReadFacts
  <2> HIDE DEF a, b
  <2>2. \A p \in 1 .. Len(a) : b[p] = IF p \in first .. q THEN c ELSE a[p]
    BY <1>8, <1>11, <2>1 DEF Same3
  <2>3. b = [p \in 1 .. Len(a) |-> b[p]]
    BY <2>1, LenProperties
  <2>4. b = x
    BY <1>11, <2>2, <2>3
  <2> QED  BY <2>4 DEF b
<1> HIDE DEF x
<1>13. ReadAll(vol', node') = [ReadAll(vol, node) EXCEPT ![f] = x]
  BY <1>1, <1>5, <1>10, <1>12, ViewShift
<1>14. /\ FilesNow # Lost /\ FilesNow[f] # NoInode /\ FilesNow[f] = a
       /\ FilesNow' = [FilesNow EXCEPT ![f] = x] /\ ShotsNow' = ShotsNow
  BY <1>1, <1>2, <1>10, <1>13, Known, ViewNext, ShotsUnchanged DEF View, n
<1>15. CASE q = first - 1
  <2> HIDE DEF a
  <2>1. \A p \in DOMAIN a : p \notin first .. q
    BY <1>4, <1>11, <1>15
  <2>2. x = [p \in DOMAIN a |-> a[p]]
    BY <2>1 DEF x
  <2>3. x = a
    BY <1>11, <2>2, <1>9, ReadFacts, LenProperties DEF a
  <2>4. FilesNow = [g \in File |-> FilesNow[g]]
    BY <1>2, Known DEF ReadAll
  <2>5. FilesNow' = FilesNow
    BY <1>14, <2>3, <2>4
  <2> QED  BY <1>14, <2>5 DEF Simulates
<1>16. CASE q # first - 1
  <2>1. q \in 1 .. MaxSize /\ q <= Len(a)
    BY <1>1, <1>3, <1>4, <1>7, <1>11, <1>16
  <2>2. Files!Write(f, first, q, c)
    <3> HIDE DEF a
    <3>1. x = [p \in DOMAIN FilesNow[f] |-> IF p \in first .. q THEN c ELSE FilesNow[f][p]]
      BY <1>14 DEF x
    <3>2. q <= Len(FilesNow[f])
      BY <1>14, <2>1
    <3> QED  BY <1>14, <3>1, <3>2 DEF Files!Write, Files!Exists, Files!Known, FilesNow, ShotsNow
  <2> QED  BY <2>1, <2>2 DEF Files!Next, Simulates
<1> QED  BY <1>15, <1>16

\* A sequence that continues another by one element is that sequence with the
\* element appended.
IsOneMore(a, b, n, e) ==
    /\ n \in Nat
    /\ a = [s \in 1 .. n |-> a[s]]
    /\ b = [s \in 1 .. n + 1 |-> b[s]]
    /\ \A s \in 1 .. n : b[s] = a[s]
    /\ b[n + 1] = e

LEMMA OneMore ==
  ASSUME NEW n, NEW a, NEW b, NEW e, IsOneMore(a, b, n, e)
  PROVE  b = Append(a, e)
<1>0. /\ n \in Nat /\ a = [s \in 1 .. n |-> a[s]] /\ b = [s \in 1 .. n + 1 |-> b[s]]
      /\ (\A s \in 1 .. n : b[s] = a[s]) /\ b[n + 1] = e
  BY DEF IsOneMore
<1> DEFINE S == {b[s] : s \in 1 .. n + 1}
<1>1. e \in S /\ (\A s \in 1 .. n : a[s] \in S) /\ \A s \in 1 .. n + 1 : b[s] \in S
  BY <1>0, SMTT(30)
<1> HIDE DEF S
<1>2. a \in Seq(S) /\ b \in Seq(S)
  <2>1. [s \in 1 .. n |-> a[s]] \in Seq(S)
    BY <1>0, <1>1, IsASeq
  <2>2. [s \in 1 .. n + 1 |-> b[s]] \in Seq(S)
    <3>1. n + 1 \in Nat
      BY <1>0
    <3> QED  BY <1>1, <3>1, IsASeq
  <2> QED  BY <1>0, <2>1, <2>2
<1>3. Len(a) = n /\ Len(b) = n + 1
  <2>1. DOMAIN a = 1 .. n /\ DOMAIN b = 1 .. n + 1
    BY <1>0
  <2>2. /\ Len(a) \in Nat /\ DOMAIN a = 1 .. Len(a)
        /\ Len(b) \in Nat /\ DOMAIN b = 1 .. Len(b)
    BY <1>2, LenProperties
  <2> QED  BY <1>0, <2>1, <2>2
<1> DEFINE c == Append(a, e)
<1>4. /\ c \in Seq(S) /\ Len(c) = n + 1
      /\ (\A s \in 1 .. n : c[s] = a[s]) /\ c[n + 1] = e
  BY <1>0, <1>1, <1>2, <1>3, AppendProperties
<1> HIDE DEF c
<1>5. \A s \in 1 .. n + 1 : b[s] = c[s]
  <2>1. TAKE s \in 1 .. n + 1
  <2>2. CASE s = n + 1
    BY <1>0, <1>4, <2>2
  <2>3. CASE s # n + 1
    <3>1. s \in 1 .. n
      BY <1>0, <2>3
    <3>2. b[s] = a[s] /\ c[s] = a[s]
      BY <1>0, <1>4, <3>1
    <3> QED  BY <3>2
  <2> QED  BY <2>2, <2>3
<1>6. b = c
  BY <1>0, <1>2, <1>3, <1>4, <1>5, SeqEqual
<1> QED  BY <1>6 DEF c

LEMMA SnapshotSimulates ==
  ASSUME IInv, UNCHANGED volume, snapshot
  PROVE  Simulates
<1> DEFINE shot == [node |-> node, sound |-> sound]
<1>1. snaps' = Append(snaps, shot) /\ UNCHANGED <<vol, node, sound>>
  BY DEF snapshot
<1>2. shot \in [node : Names, sound : BOOLEAN] /\ shot.node = node /\ shot.sound = sound
  BY InvariantFacts
<1> HIDE DEF shot
<1>3. /\ snaps' \in Seq([node : Names, sound : BOOLEAN]) /\ Len(snaps') = Len(snaps) + 1
      /\ \A s \in 1 .. Len(snaps) : snaps'[s] = snaps[s]
      /\ snaps'[Len(snaps) + 1] = shot
  BY <1>1, <1>2, AppendProperties, InvariantFacts
<1>4. Len(snaps) \in Nat /\ DOMAIN snaps = 1 .. Len(snaps) /\ DOMAIN snaps' = 1 .. Len(snaps) + 1
  BY <1>3, LenProperties, InvariantFacts
<1>5. FilesNow' = FilesNow
  BY <1>1, ViewNow, ViewNext
<1>6. ShotsNow' = Append(ShotsNow, FilesNow)
  <2> DEFINE a == Views(vol, snaps)
             b == Views(vol, snaps')
             len == Len(snaps)
             now == View(vol, sound, node)
  <2>1. /\ a = [s \in 1 .. len |-> View(vol, snaps[s].sound, snaps[s].node)]
        /\ b = [s \in 1 .. len + 1 |-> View(vol, snaps'[s].sound, snaps'[s].node)]
    BY <1>4 DEF Views
  <2>2. \A s \in 1 .. len : View(vol, snaps'[s].sound, snaps'[s].node) = a[s]
    BY <1>3, <2>1
  <2>3. View(vol, snaps'[len + 1].sound, snaps'[len + 1].node) = now
    BY <1>2, <1>3
  <2> HIDE DEF a, b, len, now
  <2>4. len \in Nat /\ Len(a) = len
    BY <1>4, <2>1 DEF len
  <2>5. a = [s \in 1 .. len |-> a[s]] /\ b = [s \in 1 .. len + 1 |-> b[s]]
    BY <2>1
  <2>6. (\A s \in 1 .. len : b[s] = a[s]) /\ b[len + 1] = now
    BY <2>1, <2>2, <2>3, <2>4
  <2>8. b = Append(a, now)
    <3>1. IsOneMore(a, b, len, now)
      BY <2>4, <2>5, <2>6 DEF IsOneMore
    <3> QED  BY <3>1, OneMore
  <2> QED  BY <1>1, <2>8, ViewNow, ViewNext DEF a, b, now
<1>7. Files!Snapshot
  BY <1>5, <1>6 DEF Files!Snapshot, FilesNow, ShotsNow
<1> QED  BY <1>7 DEF Files!Next, Simulates

LEMMA ResetSimulates ==
  ASSUME IInv, UNCHANGED volume, NEW s \in DOMAIN snaps, reset_as(s)
  PROVE  Simulates
<1>1. /\ vol' = [b \in frozen |-> vol[b]] /\ node' = snaps[s].node /\ sound' = snaps[s].sound
      /\ UNCHANGED <<frozen, snaps, leaky>>
  BY DEF reset_as
<1>2. Keeps(vol, vol', frozen)
  BY <1>1 DEF Keeps
<1>3. Views(vol', snaps) = Views(vol, snaps)
  BY <1>2, ShotsRead
<1>4. ShotsNow' = ShotsNow
  BY <1>1, <1>2, ShotsUnchanged
<1>5. FilesNow' = ShotsNow[s]
  <2>1. FilesNow' = View(vol', snaps[s].sound, snaps[s].node)
    BY <1>1, ViewNext
  <2>2. Views(vol', snaps)[s] = View(vol', snaps[s].sound, snaps[s].node)
    BY DEF Views
  <2> QED  BY <1>3, <2>1, <2>2, ViewNow
<1>6. s \in DOMAIN ShotsNow
  BY DEF ShotsNow
<1>7. Files!Restore(s)
  BY <1>4, <1>5 DEF Files!Restore, FilesNow, ShotsNow
<1> QED  BY <1>6, <1>7 DEF Files!Next, Simulates, ShotsNow

\* To its readers the shared tree is a set of independent files and unchanging
\* snapshots: every step of inode.cpp is a step of FileStore, in which files share
\* nothing, or one that no reader can see.
THEOREM InodeImplementsFiles ==
  Spec => InodesImplementFiles
<1>1. Init => Files!Init
  <2>1. SUFFICES ASSUME Init PROVE Files!Init
    OBVIOUS
  <2>2. sound = TRUE /\ node = [f \in File |-> NoInode] /\ snaps = <<>>
    BY <2>1 DEF Init
  <2>3. FilesNow = [f \in File |-> NoInode]
    BY <2>2, ViewNow DEF View, ReadAll
  <2>4. ShotsNow = <<>>
    BY <2>2 DEF ShotsNow
  <2> QED  BY <2>3, <2>4 DEF Files!Init, FilesNow, ShotsNow
<1>2. IInv /\ [Next]_vars => [Files!Next]_(Files!vars)
  <2>1. SUFFICES ASSUME IInv, [Next]_vars PROVE Simulates
    BY DEF Simulates, Files!vars, FilesNow, ShotsNow
  <2>2. CASE UNCHANGED vars
    <3>1. UNCHANGED <<vol, node, snaps, sound>>
      BY <2>2 DEF vars
    <3> QED  BY <3>1, ViewNow, ViewNext DEF Simulates
  <2>3. CASE Next
    <3>1. UNCHANGED volume
      BY <2>3 DEF Next
    <3>2. ASSUME NEW f \in File, create(f) PROVE Simulates
      BY <2>1, <3>1, <3>2, CreateSimulates
    <3>3. ASSUME NEW f \in File, unlink_self(f) PROVE Simulates
      BY <2>1, <3>1, <3>3, UnlinkSimulates
    <3>4. CASE get_inode
      BY <2>1, <3>1, <3>4, GetInodeSimulates
    <3>5. ASSUME NEW f \in File, NEW size \in volume.sizes, resize(f, size) PROVE Simulates
      BY <2>1, <3>1, <3>5, ResizeSimulates
    <3>6. ASSUME NEW f \in File, NEW first \in 1 .. MaxSize, NEW last \in 1 .. MaxSize,
                 NEW c \in Content, write(f, first, last, c)
          PROVE  Simulates
      BY <2>1, <3>1, <3>6, WriteSimulates
    <3>7. CASE snapshot
      BY <2>1, <3>1, <3>7, SnapshotSimulates
    <3>8. ASSUME NEW s \in DOMAIN snaps, reset_as(s) PROVE Simulates
      BY <2>1, <3>1, <3>8, ResetSimulates
    <3> QED  BY <2>3, <3>2, <3>3, <3>4, <3>5, <3>6, <3>7, <3>8 DEF Next
  <2> QED  BY <2>1, <2>2, <2>3
<1> QED  BY <1>1, <1>2, InvariantHolds, PTL DEF Spec, InodesImplementFiles, Files!Spec
===============================================================================

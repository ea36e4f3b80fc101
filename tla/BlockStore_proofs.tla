--------------------------- MODULE BlockStore_proofs ---------------------------
(***************************************************************************)
(* The block layer for any number of blocks, links and snapshots: its      *)
(* state stays well typed, callers keep what they were given, nothing that *)
(* is shared is left unfrozen, and no step changes a frozen block.         *)
(*                                                                         *)
(* IInv is those invariants and the agreement of the two bitmaps; it is    *)
(* inductive because reclamation looks at copies only, a copy is never     *)
(* frozen, and a block given out was free or just reclaimed.               *)
(* Counted adds the header's counter before the first snapshot, and        *)
(* SnapshotsHold what a rollback finds; with them an allocation fails only *)
(* when every block is live, changes leave copies that go oldest first,    *)
(* and the layer implements BlockService.                                  *)
(***************************************************************************)
EXTENDS BlockStore, FiniteSetTheorems, WellFoundedInduction, TLAPS

\* A snapshot under way has room for one more.
HeldHasRoom == phase = "snapshot" => held \in Header /\ held.snapshots < MaxSnapshots

IInv ==
    /\ TypeOK
    /\ HeldHasRoom
    /\ CallersKeepTheirBlocks
    /\ mirror = bitmap
    /\ SharedMeansFrozen
------------------------------------------------------------------------------
LEMMA ConstantFacts ==
    /\ BlockCount \in Nat /\ BlockCount > 0
    /\ Word \in Nat /\ Word > BlockCount
    /\ MaxLinks \in Nat /\ MaxLinks > 1 /\ MaxSnapshots \in Nat
    /\ Root \in Block /\ Block \subseteq Nat
    /\ NoBlock \notin Block /\ NoHeader \notin Header
    /\ COW \notin LiveTypes
BY StoreAssumption, SentinelAssumption, HeaderSentinelAssumption DEF Block, Root

\* A set of numbers has a least element: the scan finds the block it looks for.
LEMMA LeastFacts ==
    ASSUME NEW S, S \subseteq Nat, S # {}
    PROVE  Least(S) \in S /\ \A c \in S : Least(S) <= c
<1> DEFINE R == OpToRel(<, Nat)
<1>1. IsWellFoundedOn(R, Nat)
  BY NatLessThanWellFounded
<1>2. \A x, y \in Nat : <<y, x>> \in R <=> y < x
  BY DEF OpToRel
<1> HIDE DEF R
<1>3. PICK m \in S : \A y \in S : ~ (<<y, m>> \in R)
  BY <1>1, WFMin, Zenon
<1>4. ASSUME NEW c \in S PROVE m <= c
  <2>1. ~(c < m)
    BY <1>2, <1>3
  <2> QED  BY <2>1
<1> QED  BY <1>3, <1>4 DEF Least

LEMMA CountFacts ==
    ASSUME NEW S \in SUBSET Block
    PROVE  IsFiniteSet(S) /\ Cardinality(S) \in Nat
<1>1. IsFiniteSet(Block)
  BY FS_Interval, ConstantFacts DEF Block
<1> QED  BY <1>1, FS_Subset, FS_CardinalityType

\* The counters wrap, and stay in the range of their type.
LEMMA WrapFacts ==
    ASSUME NEW n \in Int
    PROVE  n % Word \in 0 .. Word - 1
BY ConstantFacts

LEMMA FreshAttrFacts ==
    /\ FreshAttr \in Attr /\ [FreshAttr EXCEPT !.newly_allocated = FALSE] \in Attr
    /\ FreshAttr.type = COW /\ FreshAttr.frozen = 0 /\ FreshAttr.links = 0
<1>1. 0 \in 0 .. 3 /\ 0 \in 0 .. MaxLinks /\ TRUE \in BOOLEAN /\ COW \in LiveTypes \cup {COW}
  BY ConstantFacts
<1> QED  BY <1>1 DEF FreshAttr, Attr

LEMMA TypedAttrFacts ==
    ASSUME NEW t \in LiveTypes \cup {COW}, NEW new \in BOOLEAN
    PROVE  /\ TypedAttr(t, new) \in Attr
           /\ TypedAttr(t, new).type = t /\ TypedAttr(t, new).frozen = 0
           /\ TypedAttr(t, new).links = 1
<1>1. 0 \in 0 .. 3 /\ 1 \in 0 .. MaxLinks /\ COW \in LiveTypes \cup {COW}
  BY ConstantFacts
<1>2. TypedAttr(t, new) \in Attr
  BY <1>1, Zenon DEF TypedAttr, Attr
<1>3. TypedAttr(t, new).type = t /\ TypedAttr(t, new).frozen = 0 /\ TypedAttr(t, new).links = 1
  BY Zenon DEF TypedAttr
<1> QED  BY <1>2, <1>3, Zenon

LEMMA RedundancyAttrFacts ==
    ASSUME NEW a \in Attr
    PROVE  /\ RedundancyAttr(a) \in Attr /\ RedundancyAttr(a).type = COW
           /\ RedundancyAttr(a).frozen = a.frozen /\ RedundancyAttr(a).links = a.links
<1>1. 3 \in 0 .. 3 /\ COW \in LiveTypes \cup {COW}
  OBVIOUS
<1> QED  BY <1>1 DEF RedundancyAttr, Attr
------------------------------------------------------------------------------
\* Reclamation meets copies only, and ages nothing else.
LEMMA ReclaimFacts ==
    ASSUME TypeOK
    PROVE  /\ Reclaimed \in SUBSET Copies /\ Copies \in SUBSET Block
           /\ \A b \in Copies : bitmap[b] /\ attr[b].type = COW /\ attr[b].frozen = 0
           /\ Cardinality(Reclaimed) \in Nat
           /\ CountKept \in 0 .. Word - 1
<1>1. Reclaimed \in SUBSET Copies /\ Copies \in SUBSET Block
  BY DEF Reclaimed, Copies
<1>2. Cardinality(Reclaimed) \in Nat
  BY <1>1, CountFacts
<1>3. hdr.allocated \in Int
  BY ConstantFacts DEF TypeOK, Header
<1>4. CountKept \in 0 .. Word - 1
  BY <1>2, <1>3, WrapFacts DEF CountKept
<1> QED  BY <1>1, <1>2, <1>4 DEF Copies

LEMMA AgedFacts ==
    ASSUME TypeOK, NEW b \in Block
    PROVE  /\ Aged[b] \in Attr
           /\ Aged[b].type = attr[b].type /\ Aged[b].frozen = attr[b].frozen
           /\ Aged[b].links = attr[b].links
           /\ b \notin Copies => Aged[b] = attr[b]
<1>1. attr[b] \in Attr
  BY DEF TypeOK
<1>2. CASE FirstTryFails /\ b \in Copies /\ attr[b].cow_refresh_count > 0
  <2>1. Aged[b] = [attr[b] EXCEPT !.cow_refresh_count = @ - 1]
    BY <1>2 DEF Aged
  <2>2. attr[b].cow_refresh_count - 1 \in 0 .. 3
    BY <1>1, <1>2 DEF Attr
  <2> QED  BY <1>1, <1>2, <2>1, <2>2 DEF Attr
<1>3. CASE ~(FirstTryFails /\ b \in Copies /\ attr[b].cow_refresh_count > 0)
  <2>1. Aged[b] = attr[b]
    BY <1>3 DEF Aged
  <2> QED  BY <1>1, <2>1
<1> QED  BY <1>2, <1>3

LEMMA AgedType == ASSUME TypeOK PROVE Aged \in [Block -> Attr]
BY AgedFacts DEF Aged

\* The block that is given out was free, or a copy that was just reclaimed.
LEMMA FoundFacts ==
    ASSUME TypeOK, CanAllocate
    PROVE  /\ Found \in Block
           /\ ~bitmap[Found] \/ Found \in Reclaimed
           /\ ~Live(Found)
<1> DEFINE free  == {b \in Block : ~Kept(bitmap)[b]}
           ahead == {b \in free : b >= hdr.last}
<1>1. free # {} /\ free \subseteq Nat /\ ahead \subseteq free
  BY ConstantFacts DEF CanAllocate
<1>2. Found = Least(IF ahead # {} THEN ahead ELSE free)
  BY DEF Found
<1>3. Found \in free
  BY <1>1, <1>2, LeastFacts
<1>4. \A b \in Block : Kept(bitmap)[b] <=> bitmap[b] /\ b \notin Reclaimed
  BY DEF Kept
<1> QED  BY <1>3, <1>4, ReclaimFacts DEF Live

\* The maps and the header after an allocation that succeeds.
LEMMA TookFacts ==
    ASSUME TypeOK, CanAllocate, NEW gone \in SUBSET Block, Took(gone)
    PROVE  /\ bitmap' \in [Block -> BOOLEAN] /\ mirror' \in [Block -> BOOLEAN]
           /\ hdr' \in Header
           /\ mirror = bitmap => mirror' = bitmap'
           /\ \A b \in Block :
                bitmap'[b] <=> b \notin gone /\ ((bitmap[b] /\ b \notin Reclaimed) \/ b = Found)
<1>1. Cardinality(gone) \in Nat
  BY CountFacts
<1>2. CountKept + 1 - Cardinality(gone) \in Int
  BY <1>1, ReclaimFacts
<1>3. (CountKept + 1 - Cardinality(gone)) % Word \in 0 .. Word - 1
  BY <1>2, WrapFacts
<1>4. hdr' = [hdr EXCEPT !.last = Found, !.allocated = (CountKept + 1 - Cardinality(gone)) % Word]
  BY DEF Took
<1>5. hdr' \in Header
  BY <1>3, <1>4, FoundFacts DEF TypeOK, Header
<1>6. /\ bitmap' = [b \in Block |-> b \notin gone /\ (Kept(bitmap)[b] \/ b = Found)]
      /\ mirror' = [b \in Block |-> b \notin gone /\ (Kept(mirror)[b] \/ b = Found)]
  BY DEF Took
<1>7. bitmap' \in [Block -> BOOLEAN] /\ mirror' \in [Block -> BOOLEAN]
  BY <1>6
<1>8. mirror = bitmap => mirror' = bitmap'
  BY <1>6
<1>9. \A b \in Block :
        bitmap'[b] <=> b \notin gone /\ ((bitmap[b] /\ b \notin Reclaimed) \/ b = Found)
  BY <1>6 DEF Kept
<1> QED  BY <1>5, <1>7, <1>8, <1>9

\* And after one that fails.
LEMMA TookNothingFacts ==
    ASSUME TypeOK, NEW gone \in SUBSET Block, TookNothing(gone)
    PROVE  /\ bitmap' \in [Block -> BOOLEAN] /\ mirror' \in [Block -> BOOLEAN]
           /\ hdr' \in Header
           /\ mirror = bitmap => mirror' = bitmap'
           /\ \A b \in Block : bitmap'[b] <=> b \notin gone /\ bitmap[b] /\ b \notin Reclaimed
<1>1. Cardinality(gone) \in Nat
  BY CountFacts
<1>2. CountKept - Cardinality(gone) \in Int
  BY <1>1, ReclaimFacts
<1>3. (CountKept - Cardinality(gone)) % Word \in 0 .. Word - 1
  BY <1>2, WrapFacts
<1>4. hdr' = [hdr EXCEPT !.allocated = (CountKept - Cardinality(gone)) % Word]
  BY DEF TookNothing
<1>5. hdr' \in Header
  BY <1>3, <1>4 DEF TypeOK, Header
<1>6. /\ bitmap' = [b \in Block |-> b \notin gone /\ Kept(bitmap)[b]]
      /\ mirror' = [b \in Block |-> b \notin gone /\ Kept(mirror)[b]]
  BY DEF TookNothing
<1>7. bitmap' \in [Block -> BOOLEAN] /\ mirror' \in [Block -> BOOLEAN]
  BY <1>6
<1>8. mirror = bitmap => mirror' = bitmap'
  BY <1>6
<1>9. \A b \in Block : bitmap'[b] <=> b \notin gone /\ bitmap[b] /\ b \notin Reclaimed
  BY <1>6 DEF Kept
<1> QED  BY <1>5, <1>7, <1>8, <1>9
------------------------------------------------------------------------------
\* What SharedMeansFrozen asks of the attributes of one block, and what
\* SnapshotsAreImmutable asks of one step.
Shared(a) == (a.links > 1 => a.frozen # 0) /\ (a.type = COW => a.frozen = 0)

FrozenStays ==
    \A b \in Block : Live(b) /\ attr[b].frozen # 0 =>
        /\ bitmap'[b]
        /\ content'[b] = content[b]
        /\ attr'[b] = [attr[b] EXCEPT !.links = attr'[b].links]

\* Every step leaves a frozen block's content and attributes as they are but for
\* the links; when nothing at all changes that is immediate.
LEMMA SameAttr ==
    ASSUME TypeOK, NEW b \in Block, attr'[b] = attr[b]
    PROVE  attr'[b] = [attr[b] EXCEPT !.links = attr'[b].links]
BY DEF TypeOK, Attr

\* Reclamation and the scan do not meet a live block.
LEMMA LiveFacts ==
    ASSUME TypeOK, NEW b \in Block, Live(b)
    PROVE  /\ b \notin Copies /\ b \notin Reclaimed /\ Aged[b] = attr[b]
           /\ CanAllocate => b # Found
BY ReclaimFacts, AgedFacts, FoundFacts DEF Live

LEMMA HeldKept ==
    ASSUME IInv, UNCHANGED <<phase, held>>
    PROVE  HeldHasRoom'
BY DEF IInv, HeldHasRoom

LEMMA AllocatePreserves ==
    ASSUME IInv, allocate_new_block
    PROVE  IInv' /\ FrozenStays
<1>1. TypeOK /\ mirror = bitmap /\ Live(Root) /\ attr[Root].frozen = 0 /\ Root \in Block
  BY ConstantFacts DEF IInv, CallersKeepTheirBlocks
<1>2. \A b \in Block : bitmap[b] => Shared(attr[b])
  BY DEF IInv, SharedMeansFrozen, Shared
<1>3. UNCHANGED <<content, phase, held>>
  BY DEF allocate_new_block
<1>4. CASE CanAllocate
  <2>1. Took({}) /\ attr' = [Aged EXCEPT ![Found] = FreshAttr] /\ pending' = Found
    BY <1>4 DEF allocate_new_block
  <2>2. Found \in Block /\ Found # Root
    BY <1>1, <1>4, FoundFacts
  <2>3. /\ bitmap' \in [Block -> BOOLEAN] /\ mirror' \in [Block -> BOOLEAN]
        /\ hdr' \in Header /\ mirror' = bitmap'
        /\ \A b \in Block : bitmap'[b] <=> ((bitmap[b] /\ b \notin Reclaimed) \/ b = Found)
    BY <1>1, <1>4, <2>1, TookFacts
  <2>4. attr' \in [Block -> Attr] /\ attr'[Found] = FreshAttr
        /\ \A b \in Block : b # Found => attr'[b] = Aged[b]
    BY <1>1, <2>1, <2>2, AgedType, FreshAttrFacts
  <2>5. TypeOK'
    BY <1>1, <1>3, <2>1, <2>2, <2>3, <2>4 DEF TypeOK
  <2>6. SharedMeansFrozen'
    <3>1. ASSUME NEW b \in Block, bitmap'[b] PROVE Shared(attr'[b])
      <4>1. CASE b = Found
        BY <2>4, <4>1, FreshAttrFacts DEF Shared
      <4>2. CASE b # Found
        BY <1>1, <1>2, <2>3, <2>4, <3>1, <4>2, AgedFacts DEF Shared
      <4> QED  BY <4>1, <4>2
    <3> QED  BY <3>1 DEF SharedMeansFrozen, Shared
  <2>7. CallersKeepTheirBlocks'
    <3>1. bitmap'[Root] /\ attr'[Root] = attr[Root]
      BY <1>1, <1>4, <2>2, <2>3, <2>4, LiveFacts DEF Live
    <3> QED  BY <1>1, <2>1, <2>2, <2>3, <2>4, <3>1 DEF CallersKeepTheirBlocks, Live
  <2>8. FrozenStays
    <3>1. ASSUME NEW b \in Block, Live(b), attr[b].frozen # 0
          PROVE  bitmap'[b] /\ content'[b] = content[b] /\ attr'[b] = attr[b]
      BY <1>1, <1>3, <1>4, <2>3, <2>4, <3>1, LiveFacts DEF Live
    <3> QED  BY <1>1, <3>1, SameAttr DEF FrozenStays
  <2> QED  BY <1>3, HeldKept, <2>3, <2>5, <2>6, <2>7, <2>8 DEF IInv
<1>5. CASE ~CanAllocate
  <2>1. TookNothing({}) /\ attr' = Aged /\ pending' = pending /\ pending = NoBlock
    BY <1>5 DEF allocate_new_block
  <2>2. /\ bitmap' \in [Block -> BOOLEAN] /\ mirror' \in [Block -> BOOLEAN]
        /\ hdr' \in Header /\ mirror' = bitmap'
        /\ \A b \in Block : bitmap'[b] <=> bitmap[b] /\ b \notin Reclaimed
    BY <1>1, <2>1, TookNothingFacts
  <2>3. TypeOK'
    BY <1>1, <1>3, <2>1, <2>2, AgedType DEF TypeOK
  <2>4. SharedMeansFrozen'
    BY <1>1, <1>2, <2>1, <2>2, AgedFacts DEF SharedMeansFrozen, Shared
  <2>5. CallersKeepTheirBlocks'
    BY <1>1, <2>1, <2>2, LiveFacts DEF CallersKeepTheirBlocks, Live
  <2>6. FrozenStays
    <3>1. ASSUME NEW b \in Block, Live(b), attr[b].frozen # 0
          PROVE  bitmap'[b] /\ content'[b] = content[b] /\ attr'[b] = attr[b]
      BY <1>1, <1>3, <2>1, <2>2, <3>1, LiveFacts DEF Live
    <3> QED  BY <1>1, <3>1, SameAttr DEF FrozenStays
  <2> QED  BY <1>3, HeldKept, <2>2, <2>3, <2>4, <2>5, <2>6 DEF IInv
<1> QED  BY <1>4, <1>5

LEMMA DeallocatePreserves ==
    ASSUME IInv, NEW b \in Block, deallocate_block(b)
    PROVE  IInv' /\ FrozenStays
<1>1. TypeOK /\ mirror = bitmap /\ Live(Root) /\ attr[Root].frozen = 0 /\ Root \in Block
  BY ConstantFacts DEF IInv, CallersKeepTheirBlocks
<1>2. \A x \in Block : bitmap[x] => Shared(attr[x])
  BY DEF IInv, SharedMeansFrozen, Shared
<1>3. /\ UNCHANGED <<pending, phase, held>> /\ pending = NoBlock
      /\ b # Root /\ bitmap[b] /\ attr[b].frozen = 0 /\ attr[b] \in Attr
  BY DEF deallocate_block, IInv, TypeOK
<1>4. CASE attr[b].type = COW
  <2>1. /\ bitmap' = [bitmap EXCEPT ![b] = FALSE] /\ mirror' = [mirror EXCEPT ![b] = FALSE]
        /\ hdr' = [hdr EXCEPT !.allocated = (@ - 1) % Word]
        /\ UNCHANGED <<attr, content>>
    BY <1>4 DEF deallocate_block
  <2>2. hdr' \in Header
    <3>1. hdr.allocated - 1 \in Int
      BY <1>1, ConstantFacts DEF TypeOK, Header
    <3>2. (hdr.allocated - 1) % Word \in 0 .. Word - 1
      BY <3>1, WrapFacts
    <3> QED  BY <1>1, <2>1, <3>2 DEF TypeOK, Header
  <2>3. TypeOK'
    BY <1>1, <1>3, <2>1, <2>2 DEF TypeOK
  <2>4. \A x \in Block : bitmap'[x] <=> bitmap[x] /\ x # b
    BY <1>1, <2>1 DEF TypeOK
  <2>5. SharedMeansFrozen' /\ CallersKeepTheirBlocks' /\ mirror' = bitmap'
    BY <1>1, <1>2, <1>3, <2>1, <2>4 DEF SharedMeansFrozen, Shared, CallersKeepTheirBlocks, Live
  <2>6. FrozenStays
    BY <1>1, <1>3, <2>1, <2>4, SameAttr DEF FrozenStays, Live
  <2> QED  BY <1>3, HeldKept, <2>3, <2>5, <2>6 DEF IInv
<1>5. CASE attr[b].type # COW /\ CanAllocate
  <2>1. /\ Took({b}) /\ attr' = [Aged EXCEPT ![Found] = RedundancyAttr(attr[b])]
        /\ content' = [content EXCEPT ![Found] = content[b]]
    BY <1>5 DEF deallocate_block
  <2>2. Found \in Block /\ Found # Root /\ ~Live(Found)
    BY <1>1, <1>5, FoundFacts
  <2>3. /\ bitmap' \in [Block -> BOOLEAN] /\ mirror' \in [Block -> BOOLEAN]
        /\ hdr' \in Header /\ mirror' = bitmap'
        /\ \A x \in Block : bitmap'[x] <=> x # b /\ ((bitmap[x] /\ x \notin Reclaimed) \/ x = Found)
    BY <1>1, <1>5, <2>1, TookFacts
  <2>4. attr' \in [Block -> Attr] /\ attr'[Found] = RedundancyAttr(attr[b])
        /\ \A x \in Block : x # Found => attr'[x] = Aged[x]
    BY <1>1, <1>3, <2>1, <2>2, AgedType, RedundancyAttrFacts
  <2>5. content' \in [Block -> Content] /\ \A x \in Block : x # Found => content'[x] = content[x]
    BY <1>1, <2>1, <2>2 DEF TypeOK
  <2>6. TypeOK'
    BY <1>1, <1>3, <2>3, <2>4, <2>5 DEF TypeOK
  <2>7. SharedMeansFrozen'
    <3>1. ASSUME NEW x \in Block, bitmap'[x] PROVE Shared(attr'[x])
      <4>1. CASE x = Found
        BY <1>2, <1>3, <2>4, <4>1, RedundancyAttrFacts DEF Shared
      <4>2. CASE x # Found
        BY <1>1, <1>2, <2>3, <2>4, <3>1, <4>2, AgedFacts DEF Shared
      <4> QED  BY <4>1, <4>2
    <3> QED  BY <3>1 DEF SharedMeansFrozen, Shared
  <2>8. CallersKeepTheirBlocks'
    <3>1. bitmap'[Root] /\ attr'[Root] = attr[Root]
      BY <1>1, <1>3, <1>5, <2>2, <2>3, <2>4, LiveFacts DEF Live
    <3> QED  BY <1>1, <1>3, <3>1 DEF CallersKeepTheirBlocks, Live
  <2>9. FrozenStays
    <3>1. ASSUME NEW x \in Block, Live(x), attr[x].frozen # 0
          PROVE  bitmap'[x] /\ content'[x] = content[x] /\ attr'[x] = attr[x]
      BY <1>1, <1>3, <1>5, <2>3, <2>4, <2>5, <3>1, LiveFacts DEF Live
    <3> QED  BY <1>1, <3>1, SameAttr DEF FrozenStays
  <2> QED  BY <1>3, HeldKept, <2>3, <2>6, <2>7, <2>8, <2>9 DEF IInv
<1>6. CASE attr[b].type # COW /\ ~CanAllocate
  <2>1. TookNothing({b}) /\ attr' = Aged /\ content' = content
    BY <1>6 DEF deallocate_block
  <2>2. /\ bitmap' \in [Block -> BOOLEAN] /\ mirror' \in [Block -> BOOLEAN]
        /\ hdr' \in Header /\ mirror' = bitmap'
        /\ \A x \in Block : bitmap'[x] <=> x # b /\ bitmap[x] /\ x \notin Reclaimed
    BY <1>1, <2>1, TookNothingFacts
  <2>3. TypeOK'
    BY <1>1, <1>3, <2>1, <2>2, AgedType DEF TypeOK
  <2>4. SharedMeansFrozen'
    BY <1>1, <1>2, <2>1, <2>2, AgedFacts DEF SharedMeansFrozen, Shared
  <2>5. CallersKeepTheirBlocks'
    BY <1>1, <1>3, <2>1, <2>2, LiveFacts DEF CallersKeepTheirBlocks, Live
  <2>6. FrozenStays
    <3>1. ASSUME NEW x \in Block, Live(x), attr[x].frozen # 0
          PROVE  bitmap'[x] /\ content'[x] = content[x] /\ attr'[x] = attr[x]
      BY <1>1, <1>3, <2>1, <2>2, <3>1, LiveFacts DEF Live
    <3> QED  BY <1>1, <3>1, SameAttr DEF FrozenStays
  <2> QED  BY <1>3, HeldKept, <2>2, <2>3, <2>4, <2>5, <2>6 DEF IInv
<1> QED  BY <1>4, <1>5, <1>6

LEMMA WritePreserves ==
    ASSUME IInv, NEW b \in Block, NEW c \in Content, NEW cow \in BOOLEAN,
           write_block(b, c, cow)
    PROVE  IInv' /\ FrozenStays
<1>1. TypeOK /\ mirror = bitmap /\ Live(Root) /\ attr[Root].frozen = 0 /\ Root \in Block
  BY ConstantFacts DEF IInv, CallersKeepTheirBlocks
<1>2. \A x \in Block : bitmap[x] => Shared(attr[x])
  BY DEF IInv, SharedMeansFrozen, Shared
<1>3. /\ UNCHANGED <<pending, phase, held>> /\ attr[b].frozen = 0 /\ attr[b] \in Attr
      /\ b = pending \/ (pending = NoBlock /\ Live(b))
  <2>1. UNCHANGED <<pending, phase, held>> /\ attr[b].frozen = 0
    BY DEF write_block
  <2>2. b = pending \/ (pending = NoBlock /\ Live(b))
    BY DEF write_block
  <2> QED  BY <1>1, <2>1, <2>2 DEF TypeOK
<1>4. CASE ~cow
  <2>1. WriteInPlace(b, c) /\ attr' = attr
    BY <1>4 DEF write_block
  <2>2. TypeOK' /\ mirror' = bitmap' /\ SharedMeansFrozen' /\ CallersKeepTheirBlocks'
    BY <1>1, <1>3, <2>1
       DEF IInv, WriteInPlace, TypeOK, SharedMeansFrozen, CallersKeepTheirBlocks, Live
  <2>3. FrozenStays
    BY <1>1, <1>3, <2>1, SameAttr DEF WriteInPlace, FrozenStays, Live, TypeOK
  <2> QED  BY <1>3, HeldKept, <2>2, <2>3 DEF IInv
<1>5. CASE cow /\ attr[b].newly_allocated
  <2>1. WriteInPlace(b, c) /\ attr' = [attr EXCEPT ![b].newly_allocated = FALSE]
    BY <1>5 DEF write_block
  <2>2. /\ attr' \in [Block -> Attr]
        /\ \A x \in Block : x # b => attr'[x] = attr[x]
        /\ attr'[b] = [attr[b] EXCEPT !.newly_allocated = FALSE]
        /\ attr'[b].type = attr[b].type /\ attr'[b].frozen = attr[b].frozen
        /\ attr'[b].links = attr[b].links
    BY <1>1, <1>3, <2>1 DEF TypeOK, Attr
  <2>3. /\ UNCHANGED <<bitmap, mirror, hdr>> /\ content' \in [Block -> Content]
        /\ \A x \in Block : x # b => content'[x] = content[x]
    BY <1>1, <2>1 DEF WriteInPlace, TypeOK
  <2>4. TypeOK'
    BY <1>1, <1>3, <2>2, <2>3 DEF TypeOK
  <2>5. SharedMeansFrozen'
    BY <1>2, <2>2, <2>3 DEF SharedMeansFrozen, Shared
  <2>6. CallersKeepTheirBlocks'
    <3>1. Live(Root)' /\ attr'[Root].frozen = 0
      BY <1>1, <2>2, <2>3 DEF Live
    <3>2. ASSUME pending' # NoBlock
          PROVE  /\ pending' # Root /\ bitmap'[pending']
                 /\ attr'[pending'] \in {FreshAttr, [FreshAttr EXCEPT !.newly_allocated = FALSE]}
      <4>1. pending' = b /\ pending = b
        BY <1>3, <3>2
      <4>2. /\ b # Root /\ bitmap[b]
            /\ attr[b] \in {FreshAttr, [FreshAttr EXCEPT !.newly_allocated = FALSE]}
        BY <1>3, <3>2, <4>1 DEF IInv, CallersKeepTheirBlocks
      <4>3. attr'[b] = [FreshAttr EXCEPT !.newly_allocated = FALSE]
        BY <2>2, <4>2 DEF FreshAttr
      <4> QED  BY <2>3, <4>1, <4>2, <4>3
    <3> QED  BY <3>1, <3>2 DEF CallersKeepTheirBlocks
  <2>7. FrozenStays
    BY <1>1, <1>3, <2>2, <2>3, SameAttr DEF FrozenStays, Live
  <2> QED  BY <1>3, HeldKept, <1>1, <2>3, <2>4, <2>5, <2>6, <2>7 DEF IInv
<1>6. CASE cow /\ ~attr[b].newly_allocated
  <2>1. WriteOverCopy(b, c) /\ pending = NoBlock /\ Live(b)
    BY <1>6 DEF write_block
  <2>2. CASE CanAllocate
    <3>1. /\ Took({}) /\ attr' = [Aged EXCEPT ![Found] = RedundancyAttr(attr[b])]
          /\ content' = [content EXCEPT ![Found] = content[b], ![b] = c]
      BY <2>1, <2>2 DEF WriteOverCopy
    <3>2. Found \in Block /\ Found # Root /\ ~Live(Found)
      BY <1>1, <2>2, FoundFacts
    <3>3. /\ bitmap' \in [Block -> BOOLEAN] /\ mirror' \in [Block -> BOOLEAN]
          /\ hdr' \in Header /\ mirror' = bitmap'
          /\ \A x \in Block : bitmap'[x] <=> ((bitmap[x] /\ x \notin Reclaimed) \/ x = Found)
      BY <1>1, <2>2, <3>1, TookFacts
    <3>4. attr' \in [Block -> Attr] /\ attr'[Found] = RedundancyAttr(attr[b])
          /\ \A x \in Block : x # Found => attr'[x] = Aged[x]
      BY <1>1, <1>3, <3>1, <3>2, AgedType, RedundancyAttrFacts
    <3>5. /\ content' \in [Block -> Content]
          /\ \A x \in Block : x # Found /\ x # b => content'[x] = content[x]
      BY <1>1, <3>1, <3>2 DEF TypeOK
    <3>6. TypeOK'
      BY <1>1, <1>3, <3>3, <3>4, <3>5 DEF TypeOK
    <3>7. SharedMeansFrozen'
      <4>1. ASSUME NEW x \in Block, bitmap'[x] PROVE Shared(attr'[x])
        <5>1. CASE x = Found
          BY <1>2, <1>3, <2>1, <3>4, <5>1, RedundancyAttrFacts DEF Shared, Live
        <5>2. CASE x # Found
          BY <1>1, <1>2, <3>3, <3>4, <4>1, <5>2, AgedFacts DEF Shared
        <5> QED  BY <5>1, <5>2
      <4> QED  BY <4>1 DEF SharedMeansFrozen, Shared
    <3>8. CallersKeepTheirBlocks'
      <4>1. bitmap'[Root] /\ attr'[Root] = attr[Root]
        BY <1>1, <2>2, <3>2, <3>3, <3>4, LiveFacts DEF Live
      <4> QED  BY <1>1, <1>3, <2>1, <4>1 DEF CallersKeepTheirBlocks, Live
    <3>9. FrozenStays
      <4>1. ASSUME NEW x \in Block, Live(x), attr[x].frozen # 0
            PROVE  bitmap'[x] /\ content'[x] = content[x] /\ attr'[x] = attr[x]
        BY <1>1, <1>3, <2>2, <3>3, <3>4, <3>5, <4>1, LiveFacts DEF Live
      <4> QED  BY <1>1, <4>1, SameAttr DEF FrozenStays
    <3> QED  BY <1>3, HeldKept, <3>3, <3>6, <3>7, <3>8, <3>9 DEF IInv
  <2>3. CASE ~CanAllocate
    <3>1. TookNothing({}) /\ attr' = Aged /\ content' = [content EXCEPT ![b] = c]
      BY <2>1, <2>3 DEF WriteOverCopy
    <3>2. /\ bitmap' \in [Block -> BOOLEAN] /\ mirror' \in [Block -> BOOLEAN]
          /\ hdr' \in Header /\ mirror' = bitmap'
          /\ \A x \in Block : bitmap'[x] <=> bitmap[x] /\ x \notin Reclaimed
      BY <1>1, <3>1, TookNothingFacts
    <3>3. /\ content' \in [Block -> Content]
          /\ \A x \in Block : x # b => content'[x] = content[x]
      BY <1>1, <3>1 DEF TypeOK
    <3>4. TypeOK'
      BY <1>1, <1>3, <3>1, <3>2, <3>3, AgedType DEF TypeOK
    <3>5. SharedMeansFrozen'
      BY <1>1, <1>2, <3>1, <3>2, AgedFacts DEF SharedMeansFrozen, Shared
    <3>6. CallersKeepTheirBlocks'
      BY <1>1, <1>3, <2>1, <3>1, <3>2, LiveFacts DEF CallersKeepTheirBlocks, Live
    <3>7. FrozenStays
      <4>1. ASSUME NEW x \in Block, Live(x), attr[x].frozen # 0
            PROVE  bitmap'[x] /\ content'[x] = content[x] /\ attr'[x] = attr[x]
        BY <1>1, <1>3, <3>1, <3>2, <3>3, <4>1, LiveFacts DEF Live
      <4> QED  BY <1>1, <4>1, SameAttr DEF FrozenStays
    <3> QED  BY <1>3, HeldKept, <3>2, <3>4, <3>5, <3>6, <3>7 DEF IInv
  <2> QED  BY <2>2, <2>3
<1> QED  BY <1>4, <1>5, <1>6
------------------------------------------------------------------------------
LEMMA SetTypePreserves ==
    ASSUME IInv, NEW t \in LiveTypes, NEW new \in BOOLEAN, set_attr_type(t, new)
    PROVE  IInv' /\ FrozenStays
<1>1. TypeOK /\ mirror = bitmap /\ Live(Root) /\ attr[Root].frozen = 0 /\ Root \in Block
  BY ConstantFacts DEF IInv, CallersKeepTheirBlocks
<1>2. /\ pending # NoBlock /\ pending \in Block /\ attr[pending].frozen = 0
      /\ attr' = [attr EXCEPT ![pending] = TypedAttr(t, new)] /\ pending' = NoBlock
      /\ UNCHANGED <<bitmap, mirror, content, hdr, phase, held>>
  BY <1>1 DEF set_attr_type, TypeOK
<1>3. pending # Root
  BY <1>2 DEF IInv, CallersKeepTheirBlocks
<1> HIDE DEF TypedAttr
<1>4. /\ attr' \in [Block -> Attr] /\ attr'[pending] = TypedAttr(t, new)
      /\ \A x \in Block : x # pending => attr'[x] = attr[x]
  BY <1>1, <1>2, TypedAttrFacts DEF TypeOK
<1>5. TypeOK'
  BY <1>1, <1>2, <1>4 DEF TypeOK
<1>6. SharedMeansFrozen'
  BY <1>2, <1>4, TypedAttrFacts, ConstantFacts DEF IInv, SharedMeansFrozen
<1>7. CallersKeepTheirBlocks'
  BY <1>1, <1>2, <1>3, <1>4 DEF CallersKeepTheirBlocks, Live
<1>8. FrozenStays
  BY <1>1, <1>2, <1>4, SameAttr DEF FrozenStays, Live
<1> QED  BY HeldKept, <1>1, <1>2, <1>5, <1>6, <1>7, <1>8 DEF IInv

LEMMA SetDroppedPreserves ==
    ASSUME IInv, NEW b \in Block, NEW t \in LiveTypes, NEW new \in BOOLEAN,
           set_attr_dropped(b, t, new)
    PROVE  IInv' /\ FrozenStays
<1> DEFINE a == [TypedAttr(COW, new) EXCEPT !.type_backup = t]
<1>1. TypeOK /\ mirror = bitmap /\ Live(Root) /\ attr[Root].frozen = 0 /\ Root \in Block
  BY ConstantFacts DEF IInv, CallersKeepTheirBlocks
<1>2. /\ pending = NoBlock /\ b # Root /\ ~Live(b) /\ attr' = [attr EXCEPT ![b] = a]
      /\ UNCHANGED <<bitmap, mirror, content, hdr, pending, phase, held>>
  BY DEF set_attr_dropped
<1>3. a \in Attr /\ a.frozen = 0 /\ a.links = 1 /\ a.type = COW
  <2>1. TypedAttr(COW, new) \in Attr /\ TypedAttr(COW, new).type = COW
        /\ TypedAttr(COW, new).frozen = 0 /\ TypedAttr(COW, new).links = 1
    BY TypedAttrFacts
  <2> QED  BY <2>1 DEF Attr
<1> HIDE DEF a
<1>4. /\ attr' \in [Block -> Attr] /\ attr'[b] = a
      /\ \A x \in Block : x # b => attr'[x] = attr[x]
  BY <1>1, <1>2, <1>3 DEF TypeOK
<1>5. TypeOK'
  BY <1>1, <1>2, <1>4 DEF TypeOK
<1>6. SharedMeansFrozen'
  BY <1>2, <1>3, <1>4 DEF IInv, SharedMeansFrozen
<1>7. CallersKeepTheirBlocks'
  BY <1>1, <1>2, <1>4 DEF CallersKeepTheirBlocks, Live
<1>8. FrozenStays
  BY <1>1, <1>2, <1>4, SameAttr DEF FrozenStays, Live
<1> QED  BY HeldKept, <1>1, <1>2, <1>5, <1>6, <1>7, <1>8 DEF IInv

\* Linking and unlinking change the links of one block and nothing else.
LEMMA LinksPreserves ==
    ASSUME IInv, NEW b \in Block, link_frozen(b) \/ delink_block(b)
    PROVE  IInv' /\ FrozenStays
<1>1. TypeOK /\ mirror = bitmap /\ Live(Root) /\ attr[Root].frozen = 0 /\ Root \in Block
  BY ConstantFacts DEF IInv, CallersKeepTheirBlocks
<1>2. attr[b] \in Attr /\ Live(b)
  BY <1>1 DEF TypeOK, link_frozen, delink_block
<1>3. PICK n \in 0 .. MaxLinks :
        /\ attr' = [attr EXCEPT ![b].links = n]
        /\ n <= attr[b].links \/ attr[b].frozen # 0
  <2>1. CASE link_frozen(b)
    <3>1. attr' = [attr EXCEPT ![b].links = attr[b].links + 1] /\ attr[b].frozen # 0
      BY <2>1 DEF link_frozen
    <3>2. attr[b].links + 1 \in 0 .. MaxLinks
      BY <1>2, <2>1, ConstantFacts DEF link_frozen, Attr
    <3> QED  BY <3>1, <3>2, Zenon
  <2>2. CASE delink_block(b)
    <3>1. attr' = [attr EXCEPT ![b].links = attr[b].links - 1]
      BY <2>2 DEF delink_block
    <3>2. attr[b].links \in Nat /\ attr[b].links - 1 \in 0 .. MaxLinks
      BY <1>2, <2>2, ConstantFacts DEF delink_block, Attr
    <3>3. attr[b].links - 1 <= attr[b].links
      BY <3>2
    <3> QED  BY <3>1, <3>2, <3>3, Zenon
  <2> QED  BY <2>1, <2>2
<1>4. UNCHANGED <<bitmap, mirror, content, hdr, pending, phase, held>> /\ pending = NoBlock
  BY DEF link_frozen, delink_block
<1>5. /\ attr' \in [Block -> Attr] /\ attr'[b] = [attr[b] EXCEPT !.links = n]
      /\ \A x \in Block : x # b => attr'[x] = attr[x]
      /\ attr'[b].type = attr[b].type /\ attr'[b].frozen = attr[b].frozen /\ attr'[b].links = n
  BY <1>1, <1>2, <1>3 DEF TypeOK, Attr
<1>6. TypeOK'
  BY <1>1, <1>4, <1>5 DEF TypeOK
<1>7. SharedMeansFrozen'
  <2>1. attr[b].links \in Nat /\ n \in Nat
    BY <1>2 DEF Attr
  <2> QED  BY <1>2, <1>3, <1>4, <1>5, <2>1 DEF IInv, SharedMeansFrozen, Live
<1>8. CallersKeepTheirBlocks'
  BY <1>1, <1>4, <1>5 DEF CallersKeepTheirBlocks, Live
<1>9. FrozenStays
  BY <1>1, <1>4, <1>5, SameAttr DEF FrozenStays, Live
<1> QED  BY HeldKept, <1>1, <1>4, <1>6, <1>7, <1>8, <1>9 DEF IInv
------------------------------------------------------------------------------
\* The snapshot freezes live blocks only, and frozen ones keep their mark.
LEMMA CommitPreserves ==
    ASSUME IInv, NEW root \in Block, snapshot_commit(root)
    PROVE  IInv' /\ FrozenStays
<1>1. TypeOK /\ mirror = bitmap /\ Live(Root) /\ attr[Root].frozen = 0 /\ Root \in Block
  BY ConstantFacts DEF IInv, CallersKeepTheirBlocks
<1> DEFINE marked == [attr EXCEPT ![root].frozen = 2]
<1>2. /\ pending = NoBlock /\ root # Root /\ Live(root) /\ attr[root].frozen = 0
      /\ attr' = Freeze(marked) /\ hdr' = [held EXCEPT !.snapshots = @ + 1]
      /\ held' = NoHeader /\ phase' = "idle"
      /\ UNCHANGED <<bitmap, mirror, content, pending>>
  BY DEF snapshot_commit
<1>3. /\ marked \in [Block -> Attr]
      /\ \A x \in Block : x # root => marked[x] = attr[x]
      /\ marked[root].frozen = 2 /\ marked[root].type = attr[root].type
  BY <1>1 DEF TypeOK, Attr
<1> HIDE DEF marked
<1>4. ASSUME NEW x \in Block
      PROVE  /\ attr'[x] \in Attr /\ attr'[x].type = marked[x].type
             /\ x # Root /\ bitmap[x] /\ marked[x].type # COW => attr'[x].frozen # 0
             /\ x = Root \/ ~bitmap[x] \/ marked[x].frozen # 0 \/ marked[x].type = COW
                   => attr'[x] = marked[x]
  <2>1. marked[x] \in Attr
    BY <1>3
  <2>2. CASE x # Root /\ bitmap[x] /\ marked[x].frozen = 0 /\ marked[x].type # COW
    <3> DEFINE n == (marked[x].links + 1) % (MaxLinks + 1)
    <3>1. attr'[x] = [marked[x] EXCEPT !.frozen = 1, !.links = n]
      BY <1>2, <2>2 DEF Freeze
    <3>2. n \in 0 .. MaxLinks
      BY <2>1, ConstantFacts DEF Attr
    <3> HIDE DEF n
    <3>3. /\ attr'[x] \in Attr /\ attr'[x].type = marked[x].type /\ attr'[x].frozen = 1
      <4>1. 1 \in 0 .. 3
        OBVIOUS
      <4> QED  BY <2>1, <3>1, <3>2, <4>1 DEF Attr
    <3> QED  BY <2>2, <3>3
  <2>3. CASE ~(x # Root /\ bitmap[x] /\ marked[x].frozen = 0 /\ marked[x].type # COW)
    BY <1>2, <2>1, <2>3 DEF Freeze
  <2> QED  BY <2>2, <2>3
<1>5. attr' \in [Block -> Attr]
  BY <1>2, <1>4 DEF Freeze
<1>6. hdr' \in Header
  <2>1. phase = "snapshot"
    BY DEF snapshot_commit
  <2>2. held \in Header /\ held.snapshots < MaxSnapshots
    BY <2>1 DEF IInv, HeldHasRoom
  <2>3. held.snapshots + 1 \in 0 .. MaxSnapshots
    BY <2>2, ConstantFacts DEF Header
  <2> QED  BY <1>2, <2>2, <2>3 DEF Header
<1>7. TypeOK'
  BY <1>1, <1>2, <1>5, <1>6 DEF TypeOK
<1>8. SharedMeansFrozen'
  BY <1>1, <1>2, <1>3, <1>4 DEF IInv, SharedMeansFrozen, Live
<1>9. CallersKeepTheirBlocks'
  BY <1>1, <1>2, <1>3, <1>4 DEF CallersKeepTheirBlocks, Live
<1>10. FrozenStays
  <2>1. ASSUME NEW x \in Block, Live(x), attr[x].frozen # 0
        PROVE  bitmap'[x] /\ content'[x] = content[x] /\ attr'[x] = attr[x]
    BY <1>2, <1>3, <1>4, <2>1 DEF Live
  <2> QED  BY <1>1, <2>1, SameAttr DEF FrozenStays
<1> QED  BY <1>1, <1>2, <1>7, <1>8, <1>9, <1>10 DEF IInv, HeldHasRoom

LEMMA RollbackPreserves ==
    ASSUME IInv, NEW c \in Content, rollback_begin(c)
    PROVE  IInv' /\ FrozenStays
<1>1. TypeOK /\ mirror = bitmap /\ Live(Root) /\ attr[Root].frozen = 0 /\ Root \in Block
  BY ConstantFacts DEF IInv, CallersKeepTheirBlocks
<1>2. /\ pending = NoBlock
      /\ bitmap' = [b \in Block |-> bitmap[b] /\ b \notin Discarded]
      /\ mirror' = [b \in Block |-> mirror[b] /\ b \notin Discarded]
      /\ hdr' = [hdr EXCEPT !.allocated = (@ - Cardinality(Discarded)) % Word]
      /\ content' = [content EXCEPT ![Root] = c]
      /\ phase' = "rollback" /\ UNCHANGED <<attr, pending, held>>
  BY DEF rollback_begin
<1>3. \A b \in Block : b \in Discarded <=> b # Root /\ Live(b) /\ attr[b].frozen = 0
  BY DEF Discarded
<1>4. hdr' \in Header
  <2>1. Cardinality(Discarded) \in Nat
    BY CountFacts DEF Discarded
  <2>2. hdr.allocated - Cardinality(Discarded) \in Int
    BY <1>1, <2>1, ConstantFacts DEF TypeOK, Header
  <2>3. (hdr.allocated - Cardinality(Discarded)) % Word \in 0 .. Word - 1
    BY <2>2, WrapFacts
  <2> QED  BY <1>1, <1>2, <2>3 DEF TypeOK, Header
<1>5. /\ bitmap' \in [Block -> BOOLEAN] /\ mirror' \in [Block -> BOOLEAN] /\ mirror' = bitmap'
      /\ \A b \in Block : bitmap'[b] <=> bitmap[b] /\ b \notin Discarded
  BY <1>1, <1>2
<1>6. TypeOK'
  BY <1>1, <1>2, <1>4, <1>5 DEF TypeOK
<1>7. SharedMeansFrozen'
  BY <1>2, <1>5 DEF IInv, SharedMeansFrozen
<1>8. CallersKeepTheirBlocks'
  BY <1>1, <1>2, <1>3, <1>5 DEF CallersKeepTheirBlocks, Live
<1>9. FrozenStays
  <2>1. ASSUME NEW b \in Block, Live(b), attr[b].frozen # 0
        PROVE  bitmap'[b] /\ content'[b] = content[b] /\ attr'[b] = attr[b]
    BY <1>1, <1>2, <1>3, <1>5, <2>1 DEF Live, TypeOK
  <2> QED  BY <1>1, <2>1, SameAttr DEF FrozenStays
<1> QED  BY <1>2, <1>5, <1>6, <1>7, <1>8, <1>9 DEF IInv, HeldHasRoom

LEMMA RollbackEndPreserves ==
    ASSUME IInv, NEW t \in LiveTypes, NEW new \in BOOLEAN, rollback_end(t, new)
    PROVE  IInv' /\ FrozenStays
<1>1. TypeOK /\ mirror = bitmap /\ Live(Root) /\ attr[Root].frozen = 0 /\ Root \in Block
  BY ConstantFacts DEF IInv, CallersKeepTheirBlocks
<1>2. /\ pending = NoBlock /\ attr' = [attr EXCEPT ![Root] = TypedAttr(t, new)] /\ phase' = "idle"
      /\ UNCHANGED <<bitmap, mirror, content, hdr, pending, held>>
  BY DEF rollback_end
<1> HIDE DEF TypedAttr
<1>3. /\ attr' \in [Block -> Attr] /\ attr'[Root] = TypedAttr(t, new)
      /\ \A x \in Block : x # Root => attr'[x] = attr[x]
  BY <1>1, <1>2, TypedAttrFacts DEF TypeOK
<1>4. TypeOK'
  BY <1>1, <1>2, <1>3 DEF TypeOK
<1>5. SharedMeansFrozen'
  BY <1>2, <1>3, TypedAttrFacts, ConstantFacts DEF IInv, SharedMeansFrozen
<1>6. CallersKeepTheirBlocks'
  BY <1>1, <1>2, <1>3, TypedAttrFacts, ConstantFacts DEF CallersKeepTheirBlocks, Live
<1>7. FrozenStays
  BY <1>1, <1>2, <1>3, SameAttr DEF FrozenStays, Live
<1> QED  BY <1>1, <1>2, <1>4, <1>5, <1>6, <1>7 DEF IInv, HeldHasRoom

\* snapshot_begin and the end of a call that threw leave the blocks alone, and
\* so does a step that changes nothing.
LEMMA ControlPreserves ==
    ASSUME IInv, snapshot_begin \/ aborted \/ UNCHANGED vars
    PROVE  IInv' /\ FrozenStays
<1>1. UNCHANGED <<bitmap, mirror, attr, content, hdr, pending>>
  BY DEF snapshot_begin, aborted, vars
<1>2. TypeOK /\ mirror = bitmap
  BY DEF IInv
<1>3. phase' \in {"idle", "snapshot", "rollback"} /\ held' \in Header \cup {NoHeader} /\ HeldHasRoom'
  BY <1>2 DEF snapshot_begin, aborted, vars, IInv, HeldHasRoom, TypeOK
<1>4. TypeOK'
  BY <1>1, <1>2, <1>3 DEF TypeOK
<1>5. SharedMeansFrozen' /\ CallersKeepTheirBlocks'
  BY <1>1 DEF IInv, SharedMeansFrozen, CallersKeepTheirBlocks, Live
<1>6. FrozenStays
  BY <1>1, <1>2, SameAttr DEF FrozenStays, Live
<1> QED  BY <1>1, <1>2, <1>3, <1>4, <1>5, <1>6 DEF IInv
------------------------------------------------------------------------------
LEMMA InitIInv == Init => IInv
<1> SUFFICES ASSUME Init PROVE IInv
  OBVIOUS
<1>1. /\ bitmap = [b \in Block |-> b = Root] /\ mirror = bitmap
      /\ content \in [Block -> Content]
      /\ hdr = [last |-> Root, allocated |-> 0, snapshots |-> 0]
      /\ pending = NoBlock /\ phase = "idle" /\ held = NoHeader
  BY DEF Init
<1>2. PICK t \in LiveTypes,
           stale \in {FreshAttr} \cup {[TypedAttr(x, TRUE) EXCEPT !.frozen = 1] : x \in LiveTypes} :
         attr = [b \in Block |-> IF b = Root THEN TypedAttr(t, TRUE) ELSE stale]
  BY DEF Init
<1>3. stale \in Attr
  <2>1. CASE stale = FreshAttr
    BY <2>1, FreshAttrFacts
  <2>2. CASE \E x \in LiveTypes : stale = [TypedAttr(x, TRUE) EXCEPT !.frozen = 1]
    <3>1. PICK x \in LiveTypes : stale = [TypedAttr(x, TRUE) EXCEPT !.frozen = 1]
      BY <2>2
    <3> HIDE DEF TypedAttr
    <3>2. TypedAttr(x, TRUE) \in Attr
      BY TypedAttrFacts, Zenon
    <3>3. 1 \in 0 .. 3
      OBVIOUS
    <3> QED  BY <3>1, <3>2, <3>3 DEF Attr
  <2> QED  BY <1>2, <2>1, <2>2
<1>4. attr \in [Block -> Attr] /\ attr[Root] = TypedAttr(t, TRUE)
  <2>1. TypedAttr(t, TRUE) \in Attr
    BY TypedAttrFacts
  <2> HIDE DEF TypedAttr
  <2> QED  BY <1>2, <1>3, <2>1, ConstantFacts
<1>5. attr[Root].type = t /\ attr[Root].frozen = 0 /\ attr[Root].links = 1
  <2>1. t \in LiveTypes \cup {COW} /\ TRUE \in BOOLEAN
    BY <1>2
  <2>2. /\ TypedAttr(t, TRUE).type = t /\ TypedAttr(t, TRUE).frozen = 0
        /\ TypedAttr(t, TRUE).links = 1
    BY ONLY <2>1, TypedAttrFacts, Zenon
  <2> QED  BY ONLY <1>4, <2>2
<1>6. hdr \in Header
  BY <1>1, ConstantFacts DEF Header
<1>7. bitmap \in [Block -> BOOLEAN] /\ \A b \in Block : bitmap[b] <=> b = Root
  BY <1>1
<1>8. TypeOK
  BY <1>1, <1>4, <1>6, <1>7 DEF TypeOK
<1>9. CallersKeepTheirBlocks /\ SharedMeansFrozen
  BY <1>1, <1>5, <1>7, ConstantFacts DEF CallersKeepTheirBlocks, SharedMeansFrozen, Live
<1> QED  BY <1>1, <1>8, <1>9 DEF IInv, HeldHasRoom

LEMMA StepPreserves ==
    ASSUME IInv, [Next]_vars
    PROVE  IInv' /\ FrozenStays
<1>1. CASE allocate_new_block
  BY <1>1, AllocatePreserves
<1>2. CASE \E b \in Block : deallocate_block(b) \/ link_frozen(b) \/ delink_block(b)
  BY <1>2, DeallocatePreserves, LinksPreserves
<1>3. CASE \E b \in Block, c \in Content, cow \in BOOLEAN : write_block(b, c, cow)
  BY <1>3, WritePreserves
<1>4. CASE \E t \in LiveTypes, new \in BOOLEAN : set_attr_type(t, new) \/ rollback_end(t, new)
  BY <1>4, SetTypePreserves, RollbackEndPreserves
<1>5. CASE \E b \in Block, t \in LiveTypes, new \in BOOLEAN : set_attr_dropped(b, t, new)
  BY <1>5, SetDroppedPreserves
<1>6. CASE \E b \in Block : snapshot_commit(b)
  BY <1>6, CommitPreserves
<1>7. CASE \E c \in Content : rollback_begin(c)
  BY <1>7, RollbackPreserves
<1>8. CASE snapshot_begin \/ aborted \/ UNCHANGED vars
  BY <1>8, ControlPreserves
<1> QED  BY <1>1, <1>2, <1>3, <1>4, <1>5, <1>6, <1>7, <1>8 DEF Next

LEMMA Inductive == Spec => []IInv
<1>1. IInv /\ [Next]_vars => IInv'
  BY StepPreserves
<1> QED  BY InitIInv, <1>1, PTL DEF Spec

\* The state of the block layer keeps its types: no counter of an attribute goes
\* below zero or past its bits, and the header's counters stay words.
THEOREM StoreTypeOK == Spec => []TypeOK
BY Inductive, PTL DEF IInv

\* A block that was handed out stays with its caller until it is typed, and the
\* root is always live and never frozen.
THEOREM StoreCallersKeepTheirBlocks == Spec => []CallersKeepTheirBlocks
BY Inductive, PTL DEF IInv

\* What is linked twice is frozen, and no copy is frozen.
THEOREM StoreSharedMeansFrozen == Spec => []SharedMeansFrozen
BY Inductive, PTL DEF IInv

\* No sequence of calls of the layer changes a block that a snapshot froze.
THEOREM StoreSnapshotsAreImmutable == Spec => SnapshotsAreImmutable
<1>1. IInv /\ [Next]_vars => [FrozenStays]_vars
  BY StepPreserves
<1>2. Spec => [][FrozenStays]_vars
  BY <1>1, Inductive, PTL DEF Spec
<1> QED  BY <1>2, PTL DEF SnapshotsAreImmutable, FrozenStays

------------------------------------------------------------------------------
(***************************************************************************)
(* The counter.  Until the first snapshot it is the number of allocated    *)
(* blocks but for the root: what an allocation takes was not allocated     *)
(* any more, what it gives up was, and neither is the root, so that        *)
(* nothing is counted twice and nothing wraps.                             *)
(***************************************************************************)
Allocated == {b \in Block : bitmap[b]}
LeftOver == Allocated \ Reclaimed

Counted == hdr.snapshots = 0 => hdr.allocated + 1 = Cardinality(Allocated)

LEMMA SmallFacts ==
    ASSUME NEW n \in Nat, n <= BlockCount
    PROVE  n % Word = n
BY ConstantFacts

LEMMA SubsetFacts ==
    ASSUME NEW S \in SUBSET Block
    PROVE  IsFiniteSet(S) /\ Cardinality(S) \in Nat /\ Cardinality(S) <= BlockCount
<1>1. IsFiniteSet(Block) /\ Cardinality(Block) = BlockCount
  <2>1. 0 \in Int /\ BlockCount - 1 \in Int /\ ~(0 > BlockCount - 1)
    BY ConstantFacts
  <2>2. /\ IsFiniteSet(0 .. BlockCount - 1)
        /\ Cardinality(0 .. BlockCount - 1) = (BlockCount - 1) - 0 + 1
    BY <2>1, FS_Interval
  <2> QED  BY <2>2, ConstantFacts DEF Block
<1> QED  BY <1>1, FS_Subset, FS_CardinalityType

\* What the counter says once the copies have been reclaimed.
LEMMA CountKeptFacts ==
    ASSUME IInv, Counted, hdr.snapshots = 0
    PROVE  /\ CountKept + 1 = Cardinality(LeftOver)
           /\ CountKept \in Nat /\ CountKept < BlockCount
           /\ LeftOver \in SUBSET Block /\ Root \in LeftOver
<1>1. TypeOK /\ Live(Root) /\ Root \in Block
  BY ConstantFacts DEF IInv, CallersKeepTheirBlocks
<1>2. Root \notin Reclaimed /\ Reclaimed \in SUBSET Copies /\ Copies \subseteq Allocated
  BY <1>1, LiveFacts, ReclaimFacts DEF Allocated
<1>3. LeftOver \in SUBSET Block /\ Root \in LeftOver /\ Allocated \in SUBSET Block
  BY <1>1, <1>2 DEF Allocated, LeftOver, Live
<1>4. Cardinality(LeftOver) = Cardinality(Allocated) - Cardinality(Reclaimed)
  <2>1. Allocated \cap Reclaimed = Reclaimed
    BY <1>2
  <2> QED  BY <1>3, <2>1, SubsetFacts, FS_Difference DEF LeftOver
<1>5. Cardinality(LeftOver) \in Nat /\ Cardinality(LeftOver) <= BlockCount
  BY <1>3, SubsetFacts
<1>6. Cardinality(LeftOver) # 0
  BY <1>3, SubsetFacts, FS_EmptySet
<1>7. hdr.allocated - Cardinality(Reclaimed) = Cardinality(LeftOver) - 1
  <2>1. /\ hdr.allocated \in Int /\ hdr.allocated + 1 = Cardinality(Allocated)
        /\ Cardinality(Reclaimed) \in Nat /\ Cardinality(Allocated) \in Nat
    BY <1>1, <1>3, ReclaimFacts, SubsetFacts, ConstantFacts DEF Counted, TypeOK, Header
  <2> QED  BY <1>4, <1>5, <2>1
<1>8. CountKept = Cardinality(LeftOver) - 1
  <2>1. Cardinality(LeftOver) - 1 \in Nat /\ Cardinality(LeftOver) - 1 <= BlockCount
    BY <1>5, <1>6, ConstantFacts
  <2> QED  BY <1>7, <2>1, SmallFacts DEF CountKept
<1> QED  BY <1>3, <1>5, <1>6, <1>8, ConstantFacts

\* An allocation that succeeds, alone or on behalf of a block that is given up.
LEMMA TookCounts ==
    ASSUME IInv, Counted, CanAllocate, NEW gone, Took(gone),
           gone = {} \/ \E b \in Block : gone = {b} /\ Live(b)
    PROVE  Counted'
<1>1. TypeOK /\ gone \in SUBSET Block
  BY DEF IInv
<1>2. /\ \A b \in Block :
           bitmap'[b] <=> b \notin gone /\ ((bitmap[b] /\ b \notin Reclaimed) \/ b = Found)
      /\ Found \in Block /\ Found \notin LeftOver /\ ~Live(Found)
  BY <1>1, TookFacts, FoundFacts DEF LeftOver, Allocated
<1>3. hdr' = [hdr EXCEPT !.last = Found, !.allocated = (CountKept + 1 - Cardinality(gone)) % Word]
  BY DEF Took
<1>4. /\ hdr'.snapshots = hdr.snapshots
      /\ hdr'.allocated = (CountKept + 1 - Cardinality(gone)) % Word
  BY <1>1, <1>3 DEF TypeOK, Header
<1>5. Allocated' = (LeftOver \cup {Found}) \ gone
  BY <1>2 DEF Allocated, LeftOver
<1> SUFFICES ASSUME hdr.snapshots = 0 PROVE hdr'.allocated + 1 = Cardinality(Allocated')
  BY <1>4 DEF Counted
<1>6. /\ CountKept + 1 = Cardinality(LeftOver) /\ CountKept \in Nat /\ CountKept < BlockCount
      /\ IsFiniteSet(LeftOver)
  BY CountKeptFacts, SubsetFacts
<1>7. /\ Cardinality(LeftOver \cup {Found}) = CountKept + 2
      /\ IsFiniteSet(LeftOver \cup {Found})
  BY <1>2, <1>6, FS_AddElement
<1>8. CASE gone = {}
  <2>1. Allocated' = LeftOver \cup {Found} /\ Cardinality(gone) = 0
    BY <1>5, <1>8, FS_EmptySet
  <2>2. CountKept + 1 \in Nat /\ CountKept + 1 <= BlockCount
    BY <1>6, ConstantFacts
  <2>3. hdr'.allocated = CountKept + 1
    BY <1>4, <1>6, <2>1, <2>2, SmallFacts
  <2> QED  BY <1>6, <1>7, <2>1, <2>3
<1>9. CASE \E b \in Block : gone = {b} /\ Live(b)
  <2>1. PICK b \in Block : gone = {b} /\ Live(b)
    BY <1>9
  <2>2. b \in LeftOver \cup {Found}
    BY <1>1, <2>1, LiveFacts DEF LeftOver, Allocated, Live
  <2>3. Cardinality(Allocated') = CountKept + 1
    <3>1. Cardinality((LeftOver \cup {Found}) \ {b}) = Cardinality(LeftOver \cup {Found}) - 1
      BY <1>7, <2>2, FS_RemoveElement
    <3> QED  BY <1>5, <1>6, <1>7, <2>1, <3>1
  <2>4. Cardinality(gone) = 1
    BY <2>1, FS_Singleton
  <2>5. hdr'.allocated = CountKept
    BY <1>4, <1>6, <2>4, SmallFacts, ConstantFacts
  <2> QED  BY <2>3, <2>5
<1> QED  BY <1>8, <1>9

\* One that fails gives up what was asked for all the same.
LEMMA TookNothingCounts ==
    ASSUME IInv, Counted, NEW gone, TookNothing(gone),
           gone = {} \/ \E b \in Block : gone = {b} /\ Live(b) /\ b # Root
    PROVE  Counted'
<1>1. TypeOK /\ gone \in SUBSET Block
  BY DEF IInv
<1>2. \A b \in Block : bitmap'[b] <=> b \notin gone /\ bitmap[b] /\ b \notin Reclaimed
  BY <1>1, TookNothingFacts
<1>3. hdr' = [hdr EXCEPT !.allocated = (CountKept - Cardinality(gone)) % Word]
  BY DEF TookNothing
<1>4. /\ hdr'.snapshots = hdr.snapshots
      /\ hdr'.allocated = (CountKept - Cardinality(gone)) % Word
  BY <1>1, <1>3 DEF TypeOK, Header
<1>5. Allocated' = LeftOver \ gone
  BY <1>2 DEF Allocated, LeftOver
<1> SUFFICES ASSUME hdr.snapshots = 0 PROVE hdr'.allocated + 1 = Cardinality(Allocated')
  BY <1>4 DEF Counted
<1>6. /\ CountKept + 1 = Cardinality(LeftOver) /\ CountKept \in Nat /\ CountKept < BlockCount
      /\ IsFiniteSet(LeftOver) /\ Root \in LeftOver
  BY CountKeptFacts, SubsetFacts
<1>7. CASE gone = {}
  <2>1. Allocated' = LeftOver /\ Cardinality(gone) = 0
    BY <1>5, <1>7, FS_EmptySet
  <2>2. hdr'.allocated = CountKept
    BY <1>4, <1>6, <2>1, SmallFacts, ConstantFacts
  <2> QED  BY <1>6, <2>1, <2>2
<1>8. CASE \E b \in Block : gone = {b} /\ Live(b) /\ b # Root
  <2>1. PICK b \in Block : gone = {b} /\ Live(b) /\ b # Root
    BY <1>8
  <2>2. b \in LeftOver
    BY <1>1, <2>1, LiveFacts DEF LeftOver, Allocated, Live
  <2>3. Cardinality(Allocated') = CountKept /\ IsFiniteSet(Allocated')
    BY <1>5, <1>6, <2>1, <2>2, FS_RemoveElement
  <2>4. Cardinality(Allocated') # 0
    <3>1. Root \in Allocated'
      BY <1>5, <1>6, <2>1
    <3> QED  BY <2>3, <3>1, FS_EmptySet
  <2>5. CountKept - 1 \in Nat /\ CountKept - 1 <= BlockCount
    BY <1>6, <2>3, <2>4, ConstantFacts
  <2>6. Cardinality(gone) = 1
    BY <2>1, FS_Singleton
  <2>7. hdr'.allocated = CountKept - 1
    BY <1>4, <2>5, <2>6, SmallFacts
  <2> QED  BY <1>6, <2>3, <2>7
<1> QED  BY <1>7, <1>8

LEMMA StepCounts ==
    ASSUME IInv, Counted, [Next]_vars
    PROVE  Counted'
<1> USE DEF Counted
<1>1. TypeOK /\ Live(Root) /\ Root \in Block
  BY ConstantFacts DEF IInv, CallersKeepTheirBlocks
<1>2. ASSUME UNCHANGED <<bitmap, hdr>> PROVE Counted'
  BY <1>2 DEF Allocated
<1>3. CASE allocate_new_block
  BY <1>3, TookCounts, TookNothingCounts DEF allocate_new_block
<1>4. CASE \E b \in Block : deallocate_block(b)
  <2>1. PICK b \in Block : deallocate_block(b)
    BY <1>4
  <2>2. CASE attr[b].type = COW
    <3>1. /\ b # Root /\ bitmap[b] /\ bitmap' = [bitmap EXCEPT ![b] = FALSE]
          /\ hdr' = [hdr EXCEPT !.allocated = (@ - 1) % Word]
      BY <2>1, <2>2 DEF deallocate_block
    <3>2. hdr'.snapshots = hdr.snapshots /\ hdr'.allocated = (hdr.allocated - 1) % Word
      BY <1>1, <3>1 DEF TypeOK, Header
    <3>3. Allocated' = Allocated \ {b} /\ b \in Allocated /\ Root \in Allocated'
      BY <1>1, <3>1 DEF Allocated, TypeOK, Live
    <3>4. /\ Cardinality(Allocated) \in Nat /\ Cardinality(Allocated) <= BlockCount
          /\ IsFiniteSet(Allocated)
      BY SubsetFacts DEF Allocated
    <3>5. Cardinality(Allocated') = Cardinality(Allocated) - 1 /\ IsFiniteSet(Allocated')
      BY <3>3, <3>4, FS_RemoveElement
    <3>6. Cardinality(Allocated') \in Nat /\ Cardinality(Allocated') # 0
      BY <3>3, <3>5, FS_EmptySet, FS_CardinalityType
    <3>7. CASE hdr.snapshots = 0
      <4>1. hdr.allocated \in Nat
        BY <1>1, ConstantFacts DEF TypeOK, Header
      <4>2. hdr.allocated - 1 = Cardinality(Allocated') - 1
        BY <3>4, <3>5, <3>7, <4>1
      <4>3. Cardinality(Allocated') - 1 \in Nat /\ Cardinality(Allocated') - 1 <= BlockCount
        BY <3>4, <3>5, <3>6, ConstantFacts
      <4>4. hdr'.allocated = Cardinality(Allocated') - 1
        BY <3>2, <4>2, <4>3, SmallFacts
      <4> QED  BY <3>4, <3>5, <4>4
    <3> QED  BY <3>2, <3>7
  <2>3. CASE attr[b].type # COW
    BY <2>1, <2>3, TookCounts, TookNothingCounts DEF deallocate_block, Live
  <2> QED  BY <2>2, <2>3
<1>5. CASE \E b \in Block, c \in Content, cow \in BOOLEAN : write_block(b, c, cow)
  BY <1>2, <1>5, TookCounts, TookNothingCounts DEF write_block, WriteInPlace, WriteOverCopy
<1>6. CASE \E b \in Block : snapshot_commit(b)
  <2>1. /\ hdr' = [held EXCEPT !.snapshots = @ + 1] /\ phase = "snapshot"
    BY <1>6 DEF snapshot_commit
  <2>2. held \in Header
    BY <2>1 DEF IInv, HeldHasRoom
  <2>3. hdr'.snapshots = held.snapshots + 1 /\ held.snapshots \in Nat
    BY <2>1, <2>2, ConstantFacts DEF Header
  <2> QED  BY <2>3
<1>7. CASE \E c \in Content : rollback_begin(c)
  <2>1. hdr'.snapshots = hdr.snapshots /\ hdr.snapshots > 0
    BY <1>1, <1>7 DEF rollback_begin, TypeOK, Header
  <2> QED  BY <1>1, <2>1, ConstantFacts DEF TypeOK, Header
<1>8. CASE (\E t \in LiveTypes, new \in BOOLEAN : set_attr_type(t, new) \/ rollback_end(t, new))
             \/ (\E b \in Block, t \in LiveTypes, new \in BOOLEAN : set_attr_dropped(b, t, new))
             \/ (\E b \in Block : link_frozen(b) \/ delink_block(b))
             \/ snapshot_begin \/ aborted \/ UNCHANGED vars
  <2>1. UNCHANGED <<bitmap, hdr>>
    BY <1>8 DEF set_attr_type, rollback_end, set_attr_dropped, link_frozen, delink_block,
                snapshot_begin, aborted, vars
  <2> QED  BY <1>2, <2>1
<1> QED  BY <1>3, <1>4, <1>5, <1>6, <1>7, <1>8 DEF Next

LEMMA InitCounted == Init => Counted
<1> SUFFICES ASSUME Init PROVE Counted
  OBVIOUS
<1>1. hdr.allocated = 0 /\ \A b \in Block : bitmap[b] <=> b = Root
  BY DEF Init
<1>2. Allocated = {Root}
  BY <1>1, ConstantFacts DEF Allocated
<1>3. Cardinality(Allocated) = 1
  BY <1>2, FS_Singleton
<1> QED  BY <1>1, <1>3 DEF Counted

\* The bitmaps agree, and until the first snapshot the header's counter is the
\* number of allocated blocks but for the root: no call counts a block twice, and
\* the counter does not wrap.
THEOREM StoreBookkeepingAgrees == Spec => []BookkeepingAgrees
<1>1. IInv /\ Counted /\ [Next]_vars => Counted'
  BY StepCounts
<1>2. IInv /\ Counted => BookkeepingAgrees
  BY DEF IInv, Counted, Allocated, BookkeepingAgrees
<1> QED  BY InitCounted, <1>1, <1>2, Inductive, PTL DEF Spec

\* Among copies one has the lowest count: a reclamation that is needed and can
\* free something does.
LEMMA ReclaimFrees ==
    ASSUME TypeOK, FirstTryFails, Copies # {}
    PROVE  Reclaimed # {}
<1> DEFINE counts == {Aged[b].cow_refresh_count : b \in Copies}
<1>1. \A b \in Copies : Aged[b].cow_refresh_count \in Nat
  BY AgedFacts, ReclaimFacts DEF Attr
<1>2. counts # {} /\ counts \subseteq Nat
  BY <1>1
<1>3. Least(counts) \in counts /\ \A n \in counts : Least(counts) <= n
  BY <1>2, LeastFacts
<1>4. PICK b \in Copies : \A c \in Copies : Aged[b].cow_refresh_count <= Aged[c].cow_refresh_count
  BY <1>3
<1>5. b \in Reclaimed
  BY <1>4 DEF Reclaimed
<1> QED  BY <1>5

\* When there is no block to allocate although the counter does not say so, every
\* block is live; before the first snapshot the counter is right.
LEMMA DepletedWhenAllLive ==
    ASSUME IInv, CountKept # BlockCount, ~CanAllocate, NEW b \in Block
    PROVE  Live(b)
<1>1. TypeOK
  BY DEF IInv
<1>2. \A x \in Block : bitmap[x] /\ x \notin Reclaimed
  BY DEF CanAllocate, Kept
<1>3. FirstTryFails /\ Reclaimed = {}
  BY <1>1, <1>2, ReclaimFacts DEF FirstTryFails
<1>4. Copies = {}
  BY <1>1, <1>3, ReclaimFrees
<1>5. bitmap[b] /\ (attr[b].type = COW => attr[b].frozen = 0)
  BY <1>2 DEF IInv, SharedMeansFrozen
<1> QED  BY <1>4, <1>5 DEF Copies, Live

LEMMA CountIsRight ==
    ASSUME IInv, Counted, hdr.snapshots = 0
    PROVE  CountKept # BlockCount
BY CountKeptFacts, ConstantFacts

\* Before the first snapshot an allocation fails only when every block is live.
THEOREM StoreDepletedOnlyWhenAllLive == Spec => []DepletedOnlyWhenAllLive
<1>1. IInv /\ Counted => DepletedOnlyWhenAllLive
  BY CountIsRight, DepletedWhenAllLive DEF DepletedOnlyWhenAllLive
<1>2. IInv /\ Counted /\ [Next]_vars => Counted'
  BY StepCounts
<1> QED  BY InitCounted, <1>1, <1>2, Inductive, PTL DEF Spec

------------------------------------------------------------------------------
\* Where an allocation succeeds for the sake of block b, its copy is in the block found.
LEMMA CopyIsLeft ==
    ASSUME IInv, NEW b \in Block, Live(b), CanAllocate, NEW gone \in SUBSET {b}, Took(gone),
           attr' = [Aged EXCEPT ![Found] = RedundancyAttr(attr[b])],
           content'[Found] = content[b]
    PROVE  HasCopy(b)
<1>1. TypeOK /\ attr[b] \in Attr
  BY DEF IInv, TypeOK
<1>2. Found \in Block /\ Found # b
  BY <1>1, FoundFacts
<1>3. bitmap'[Found]
  BY <1>1, <1>2, TookFacts
<1>4. attr'[Found] = RedundancyAttr(attr[b])
  BY <1>1, <1>2, AgedType
<1>5. /\ RedundancyAttr(attr[b]).type = COW
      /\ RedundancyAttr(attr[b]).type_backup = attr[b].type
      /\ RedundancyAttr(attr[b]).cow_refresh_count = 3
  BY <1>1 DEF RedundancyAttr, Attr
<1> QED  BY <1>2, <1>3, <1>4, <1>5 DEF HasCopy

\* Dropping or overwriting a block leaves its content in a copy that remembers
\* its type, unless every block is live or the counter, after a snapshot, says that
\* there is no room: before the first snapshot it is right (Counted).
THEOREM StoreChangesLeaveACopy == Spec => ChangesLeaveACopy
<1>1. ASSUME IInv, NEW b \in Block, Live(b), deallocate_block(b), CanAllocate
      PROVE  HasCopy(b)
  <2>1. /\ Took({b}) /\ attr' = [Aged EXCEPT ![Found] = RedundancyAttr(attr[b])]
        /\ content' = [content EXCEPT ![Found] = content[b]]
    BY <1>1 DEF deallocate_block, Live
  <2>2. Found \in Block /\ content \in [Block -> Content]
    BY <1>1, FoundFacts DEF IInv, TypeOK
  <2> QED  BY <1>1, <2>1, <2>2, CopyIsLeft
<1>2. ASSUME IInv, NEW b \in Block, Live(b), ~attr[b].newly_allocated, CanAllocate,
             NEW c \in Content, write_block(b, c, TRUE)
      PROVE  HasCopy(b)
  <2>1. /\ Took({}) /\ attr' = [Aged EXCEPT ![Found] = RedundancyAttr(attr[b])]
        /\ content' = [content EXCEPT ![Found] = content[b], ![b] = c]
    BY <1>2 DEF write_block, WriteOverCopy
  <2>2. Found \in Block /\ Found # b /\ content \in [Block -> Content]
    BY <1>2, FoundFacts DEF IInv, TypeOK
  <2>3. content'[Found] = content[b]
    BY <2>1, <2>2
  <2> QED  BY <1>2, <2>1, <2>3, CopyIsLeft
<1>3. ASSUME IInv, Counted, ~CanAllocate
      PROVE  (\A x \in Block : Live(x)) \/ CountedFull
  <2>1. CASE CountKept # BlockCount
    BY <1>3, <2>1, DepletedWhenAllLive
  <2>2. CASE CountKept = BlockCount
    <3>1. hdr.snapshots \in Nat /\ hdr.snapshots # 0
      BY <1>3, <2>2, CountIsRight, ConstantFacts DEF IInv, TypeOK, Header
    <3> QED  BY <2>2, <3>1 DEF CountedFull
  <2> QED  BY <2>1, <2>2
<1> DEFINE A == \A b \in Block :
                   Changes(b) => HasCopy(b) \/ (\A x \in Block : Live(x)) \/ CountedFull
<1>4. IInv /\ Counted => A
  BY <1>1, <1>2, <1>3 DEF Changes
<1>5. IInv /\ Counted => [A]_vars
  BY <1>4
<1>6. IInv /\ Counted /\ [Next]_vars => Counted'
  BY StepCounts
<1> QED  BY <1>5, <1>6, InitCounted, Inductive, PTL DEF ChangesLeaveACopy, Spec

\* What is a copy and is not reclaimed stays one, whatever the call.
LEMMA SurvivesUnreclaimed ==
    ASSUME IInv, allocate_new_block \/ (\E b \in Block : Changes(b)),
           NEW c \in Copies, c \notin Reclaimed
    PROVE  Survives(c)
<1>1. TypeOK /\ c \in Block /\ bitmap[c] /\ ~Live(c)
  BY DEF IInv, Copies, Live
<1>2. CanAllocate => Found \in Block /\ Found # c
  BY <1>1, FoundFacts
<1>3. ASSUME NEW gone \in SUBSET Block, c \notin gone, CanAllocate, Took(gone)
      PROVE  bitmap'[c]
  BY <1>1, <1>3, TookFacts
<1>4. ASSUME NEW gone \in SUBSET Block, c \notin gone, TookNothing(gone)
      PROVE  bitmap'[c]
  BY <1>1, <1>4, TookNothingFacts
<1>5. CASE allocate_new_block
  <2>1. CASE CanAllocate
    <3>1. Took({}) /\ attr' = [Aged EXCEPT ![Found] = FreshAttr] /\ pending' = Found
      BY <1>5, <2>1 DEF allocate_new_block
    <3>2. attr'[c] = Aged[c]
      BY <1>1, <1>2, <2>1, <3>1 DEF Aged
    <3> QED  BY <1>2, <1>3, <2>1, <3>1, <3>2 DEF Survives
  <2>2. CASE ~CanAllocate
    <3>1. TookNothing({}) /\ attr' = Aged /\ pending' = NoBlock
      BY <1>5, <2>2 DEF allocate_new_block
    <3> QED  BY <1>1, <1>4, <3>1, ConstantFacts DEF Survives
  <2> QED  BY <2>1, <2>2
<1>6. ASSUME NEW b \in Block, Changes(b)
      PROVE  Survives(c)
  <2>1. Live(b) /\ b # c /\ pending' = NoBlock
    BY <1>1, <1>6 DEF Changes, deallocate_block, write_block, Live
  <2>2. PICK gone \in {{b}, {}} :
           \/ /\ CanAllocate /\ Took(gone)
              /\ attr' = [Aged EXCEPT ![Found] = RedundancyAttr(attr[b])]
           \/ ~CanAllocate /\ TookNothing(gone) /\ attr' = Aged
    BY <1>6, <2>1 DEF Changes, deallocate_block, write_block, WriteOverCopy, Live
  <2>3. gone \in SUBSET Block /\ c \notin gone
    BY <2>1, <2>2
  <2>4. attr'[c] = Aged[c]
    BY <1>1, <1>2, <2>2 DEF Aged
  <2> QED  BY <1>1, <1>3, <1>4, <2>1, <2>2, <2>3, <2>4, ConstantFacts DEF Survives
<1> QED  BY <1>5, <1>6

\* No call that reclaims takes a copy before an older one.
THEOREM StoreOldestCopiesGoFirst == Spec => OldestCopiesGoFirst
<1> DEFINE Reclaims == allocate_new_block \/ \E b \in Block : Changes(b)
<1>1. ASSUME IInv, Reclaims, NEW b \in Copies, NEW c \in Copies, ~Survives(c)
      PROVE  \/ attr[c].cow_refresh_count <= attr[b].cow_refresh_count
             \/ attr[c].cow_refresh_count = 1
  <2>1. TypeOK
    BY <1>1 DEF IInv
  <2>2. c \in Reclaimed
    BY <1>1, SurvivesUnreclaimed
  <2>3. FirstTryFails /\ Aged[c].cow_refresh_count <= Aged[b].cow_refresh_count
    BY <2>2 DEF Reclaimed
  <2>4. ASSUME NEW x \in Copies
        PROVE  /\ attr[x].cow_refresh_count \in Nat
               /\ Aged[x].cow_refresh_count = IF attr[x].cow_refresh_count > 0
                                              THEN attr[x].cow_refresh_count - 1 ELSE 0
    <3>1. x \in Block /\ attr[x] \in Attr
      BY <2>1 DEF Copies, TypeOK
    <3>2. Aged[x] = IF attr[x].cow_refresh_count > 0
                    THEN [attr[x] EXCEPT !.cow_refresh_count = @ - 1] ELSE attr[x]
      BY <2>3, <3>1 DEF Aged
    <3> QED  BY <3>1, <3>2 DEF Attr
  <2> QED  BY <2>3, <2>4
<1> DEFINE A == Reclaims =>
                  \A b, c \in Copies :
                     ~Survives(c) => \/ attr[c].cow_refresh_count <= attr[b].cow_refresh_count
                                     \/ attr[c].cow_refresh_count = 1
<1> HIDE DEF Reclaims
<1>2. IInv => A
  BY <1>1
<1>3. IInv => [A]_vars
  BY <1>2
<1> QED  BY <1>3, Inductive, PTL DEF OldestCopiesGoFirst, Reclaims
------------------------------------------------------------------------------
(***************************************************************************)
(* The refinement of BlockService.  Most steps do not show: they change    *)
(* copies, links or marks that no caller sees.  A rollback needs that a    *)
(* snapshot that was counted has left something frozen.                    *)
(***************************************************************************)
Lives == {b \in Block : Live(b)}
Data == [b \in Lives |-> content[b]]
Frozen == {b \in Block : Live(b) /\ attr[b].frozen # 0}

SnapshotsHold == hdr.snapshots > 0 => Frozen # {}

LEMMA Unseen ==
    ASSUME \A b \in Block : Live(b)' <=> Live(b),
           \A b \in Block : Live(b) => content'[b] = content[b] /\ attr'[b].frozen = attr[b].frozen
    PROVE  UNCHANGED Service!vars
<1>1. Lives' = Lives /\ Data' = Data /\ Frozen' = Frozen
  BY DEF Lives, Data, Frozen
<1> QED  BY <1>1 DEF Service!vars, Lives, Data, Frozen

LEMMA AllocateImplements ==
    ASSUME IInv, allocate_new_block
    PROVE  UNCHANGED Service!vars
<1>1. TypeOK /\ content' = content
  BY DEF IInv, allocate_new_block
<1>2. CASE CanAllocate
  <2>1. Took({}) /\ attr' = [Aged EXCEPT ![Found] = FreshAttr]
    BY <1>2 DEF allocate_new_block
  <2>2. Found \in Block /\ ~Live(Found)
    BY <1>1, <1>2, FoundFacts
  <2>3. \A b \in Block : bitmap'[b] <=> ((bitmap[b] /\ b \notin Reclaimed) \/ b = Found)
    BY <1>1, <1>2, <2>1, TookFacts
  <2>4. attr'[Found] = FreshAttr /\ \A b \in Block : b # Found => attr'[b] = Aged[b]
    BY <1>1, <2>1, <2>2, AgedType
  <2>5. ASSUME NEW b \in Block
        PROVE  (Live(b)' <=> Live(b)) /\ (Live(b) => attr'[b].frozen = attr[b].frozen)
    BY <1>1, <1>2, <2>2, <2>3, <2>4, LiveFacts, AgedFacts, FreshAttrFacts DEF Live
  <2> QED  BY <1>1, <2>5, Unseen
<1>3. CASE ~CanAllocate
  <2>1. TookNothing({}) /\ attr' = Aged
    BY <1>3 DEF allocate_new_block
  <2>2. \A b \in Block : bitmap'[b] <=> bitmap[b] /\ b \notin Reclaimed
    BY <1>1, <2>1, TookNothingFacts
  <2>3. ASSUME NEW b \in Block
        PROVE  (Live(b)' <=> Live(b)) /\ (Live(b) => attr'[b].frozen = attr[b].frozen)
    BY <1>1, <2>1, <2>2, LiveFacts, AgedFacts DEF Live
  <2> QED  BY <1>1, <2>3, Unseen
<1> QED  BY <1>2, <1>3

LEMMA DeallocateImplements ==
    ASSUME IInv, NEW b \in Block, deallocate_block(b)
    PROVE  [Service!Next]_(Service!vars)
<1>1. /\ TypeOK /\ b # Root /\ bitmap[b] /\ attr[b].frozen = 0
  BY DEF IInv, deallocate_block
<1>2. CASE attr[b].type = COW
  <2>1. bitmap' = [bitmap EXCEPT ![b] = FALSE] /\ UNCHANGED <<attr, content>>
    BY <1>2 DEF deallocate_block
  <2>2. \A x \in Block : Live(x)' <=> Live(x)
    BY <1>1, <1>2, <2>1 DEF TypeOK, Live
  <2> QED  BY <2>1, <2>2, Unseen
<1>3. CASE attr[b].type # COW
  <2>1. \A x \in Block : /\ Live(x)' <=> Live(x) /\ x # b
                         /\ Live(x)' => content'[x] = content[x] /\ attr'[x].frozen = attr[x].frozen
    <3>1. CASE CanAllocate
      <4>1. /\ Took({b}) /\ attr' = [Aged EXCEPT ![Found] = RedundancyAttr(attr[b])]
            /\ content' = [content EXCEPT ![Found] = content[b]]
        BY <1>3, <3>1 DEF deallocate_block
      <4>2. Found \in Block /\ ~Live(Found)
        BY <1>1, <3>1, FoundFacts
      <4>3. \A x \in Block :
               bitmap'[x] <=> x \notin {b} /\ ((bitmap[x] /\ x \notin Reclaimed) \/ x = Found)
        BY <1>1, <3>1, <4>1, TookFacts
      <4>4. /\ attr'[Found] = RedundancyAttr(attr[b]) /\ attr'[Found].type = COW
            /\ \A x \in Block : x # Found => attr'[x] = Aged[x] /\ content'[x] = content[x]
        BY <1>1, <4>1, <4>2, AgedType, RedundancyAttrFacts DEF TypeOK
      <4> QED  BY <1>1, <3>1, <4>2, <4>3, <4>4, LiveFacts, AgedFacts DEF Live
    <3>2. CASE ~CanAllocate
      <4>1. TookNothing({b}) /\ attr' = Aged /\ content' = content
        BY <1>3, <3>2 DEF deallocate_block
      <4>2. \A x \in Block : bitmap'[x] <=> x \notin {b} /\ bitmap[x] /\ x \notin Reclaimed
        BY <1>1, <4>1, TookNothingFacts
      <4> QED  BY <1>1, <4>1, <4>2, LiveFacts, AgedFacts DEF Live
    <3> QED  BY <3>1, <3>2
  <2>2. Lives' = Lives \ {b} /\ b \in Lives /\ b \notin Frozen
    BY <1>1, <1>3, <2>1 DEF Lives, Frozen, Live
  <2>3. Frozen' = Frozen
    BY <1>1, <2>1, <2>2 DEF Frozen, Lives
  <2>4. Data' = [x \in Lives \ {b} |-> Data[x]]
    BY <2>1, <2>2 DEF Data, Lives
  <2>5. Service!Drop(b)
    BY <1>1, <2>2, <2>3, <2>4 DEF Service!Drop, Lives, Data, Frozen
  <2> QED  BY <2>5 DEF Service!Next
<1> QED  BY <1>2, <1>3

LEMMA WriteImplements ==
    ASSUME IInv, NEW b \in Block, NEW c \in Content, NEW cow \in BOOLEAN, write_block(b, c, cow)
    PROVE  [Service!Next]_(Service!vars)
<1>1. TypeOK /\ attr[b].frozen = 0
  BY DEF IInv, write_block
<1>2. CASE ~Live(b)
  <2>1. b = pending /\ (cow => attr[b].newly_allocated)
    BY <1>2 DEF write_block
  <2>2. attr[b].type = COW /\ attr[b] \in Attr
    BY <1>1, <2>1, FreshAttrFacts, ConstantFacts DEF IInv, CallersKeepTheirBlocks, FreshAttr, TypeOK
  <2>3. /\ content' = [content EXCEPT ![b] = c] /\ bitmap' = bitmap
        /\ attr' \in {attr, [attr EXCEPT ![b].newly_allocated = FALSE]}
    BY <2>1 DEF write_block, WriteInPlace
  <2>4. attr'[b].type = COW /\ \A x \in Block \ {b} : attr'[x] = attr[x] /\ content'[x] = content[x]
    BY <1>1, <2>2, <2>3 DEF TypeOK, Attr
  <2>5. \A x \in Block : Live(x)' <=> Live(x)
    BY <2>2, <2>3, <2>4 DEF Live
  <2> QED  BY <1>2, <2>4, <2>5, Unseen
<1>3. CASE Live(b)
  <2>1. \A x \in Block : /\ Live(x)' <=> Live(x)
                         /\ Live(x) => /\ content'[x] = IF x = b THEN c ELSE content[x]
                                       /\ attr'[x].frozen = attr[x].frozen
    <3>1. CASE /\ content' = [content EXCEPT ![b] = c] /\ bitmap' = bitmap
               /\ attr' \in {attr, [attr EXCEPT ![b].newly_allocated = FALSE]}
      <4>1. \A x \in Block : attr'[x].type = attr[x].type /\ attr'[x].frozen = attr[x].frozen
        BY <1>1, <3>1 DEF TypeOK, Attr
      <4> QED  BY <1>1, <3>1, <4>1 DEF TypeOK, Live
    <3>2. CASE CanAllocate /\ WriteOverCopy(b, c)
      <4>1. /\ Took({}) /\ attr' = [Aged EXCEPT ![Found] = RedundancyAttr(attr[b])]
            /\ content' = [content EXCEPT ![Found] = content[b], ![b] = c]
        BY <3>2 DEF WriteOverCopy
      <4>2. Found \in Block /\ ~Live(Found) /\ Found # b
        BY <1>1, <1>3, <3>2, FoundFacts
      <4>3. \A x \in Block : bitmap'[x] <=> ((bitmap[x] /\ x \notin Reclaimed) \/ x = Found)
        BY <1>1, <3>2, <4>1, TookFacts
      <4>4. /\ attr'[Found] = RedundancyAttr(attr[b]) /\ attr'[Found].type = COW
            /\ \A x \in Block : x # Found =>
                  attr'[x] = Aged[x] /\ content'[x] = IF x = b THEN c ELSE content[x]
        BY <1>1, <4>1, <4>2, AgedType, RedundancyAttrFacts DEF TypeOK
      <4> QED  BY <1>1, <3>2, <4>2, <4>3, <4>4, LiveFacts, AgedFacts DEF Live
    <3>3. CASE ~CanAllocate /\ WriteOverCopy(b, c)
      <4>1. TookNothing({}) /\ attr' = Aged /\ content' = [content EXCEPT ![b] = c]
        BY <3>3 DEF WriteOverCopy
      <4>2. \A x \in Block : bitmap'[x] <=> bitmap[x] /\ x \notin Reclaimed
        BY <1>1, <4>1, TookNothingFacts
      <4> QED  BY <1>1, <4>1, <4>2, LiveFacts, AgedFacts DEF Live, TypeOK
    <3> QED  BY <3>1, <3>2, <3>3 DEF write_block, WriteInPlace
  <2>2. Lives' = Lives /\ Frozen' = Frozen /\ b \in Lives \ Frozen
    BY <1>1, <1>3, <2>1 DEF Lives, Frozen
  <2>3. Data' = [Data EXCEPT ![b] = c]
    <3>1. Data' = [x \in Lives |-> IF x = b THEN c ELSE content[x]]
      BY <2>1, <2>2 DEF Data, Lives
    <3> QED  BY <2>2, <3>1 DEF Data
  <2>4. Service!Overwrite(b, c)
    BY <2>2, <2>3 DEF Service!Overwrite, Lives, Data, Frozen
  <2> QED  BY <2>4 DEF Service!Next
<1> QED  BY <1>2, <1>3

LEMMA SetTypeImplements ==
    ASSUME IInv, NEW t \in LiveTypes, NEW new \in BOOLEAN, set_attr_type(t, new)
    PROVE  [Service!Next]_(Service!vars)
<1>0. PICK b \in Block, c \in Content : b = pending /\ c = content[b]
  BY DEF IInv, TypeOK, set_attr_type
<1>1. /\ TypeOK /\ bitmap[b] /\ attr[b].type = COW
      /\ attr' = [attr EXCEPT ![b] = TypedAttr(t, new)] /\ UNCHANGED <<bitmap, content>>
  BY <1>0, FreshAttrFacts, ConstantFacts
     DEF IInv, CallersKeepTheirBlocks, FreshAttr, set_attr_type
<1>2. TypedAttr(t, new).type = t /\ TypedAttr(t, new).frozen = 0 /\ t # COW
  BY TypedAttrFacts, ConstantFacts
<1>3. attr'[b] = TypedAttr(t, new) /\ \A x \in Block \ {b} : attr'[x] = attr[x]
  BY <1>1 DEF TypeOK
<1>4. attr'[b].type = t /\ attr'[b].frozen = 0
  BY <1>2, <1>3
<1>5. Lives' = Lives \cup {b} /\ b \notin Lives /\ Frozen' = Frozen
  BY <1>1, <1>2, <1>3, <1>4 DEF Lives, Frozen, Live
<1>6. Data' = [x \in Lives \cup {b} |-> IF x = b THEN c ELSE Data[x]]
  BY <1>0, <1>1, <1>5 DEF Data
<1>7. Service!Publish(b, c)
  BY <1>5, <1>6 DEF Service!Publish, Lives, Data, Frozen
<1> QED  BY <1>7 DEF Service!Next

\* The calls that change marks and links no caller sees.
LEMMA MarksImplement ==
    ASSUME IInv,
           \/ \E b \in Block, t \in LiveTypes, new \in BOOLEAN : set_attr_dropped(b, t, new)
           \/ \E t \in LiveTypes, new \in BOOLEAN : rollback_end(t, new)
           \/ \E b \in Block : link_frozen(b) \/ delink_block(b)
           \/ snapshot_begin \/ aborted \/ UNCHANGED vars
    PROVE  UNCHANGED Service!vars
<1>1. TypeOK /\ Live(Root) /\ attr[Root].frozen = 0 /\ Root \in Block
  BY ConstantFacts DEF IInv, CallersKeepTheirBlocks
<1>2. CASE \E b \in Block, t \in LiveTypes, new \in BOOLEAN : set_attr_dropped(b, t, new)
  <2>1. PICK b \in Block, t \in LiveTypes, new \in BOOLEAN : set_attr_dropped(b, t, new)
    BY <1>2
  <2>2. /\ ~Live(b) /\ UNCHANGED <<bitmap, content>>
        /\ attr' = [attr EXCEPT ![b] = [TypedAttr(COW, new) EXCEPT !.type_backup = t]]
    BY <2>1 DEF set_attr_dropped
  <2>3. [TypedAttr(COW, new) EXCEPT !.type_backup = t].type = COW
    BY Zenon DEF TypedAttr
  <2>4. attr'[b].type = COW /\ \A x \in Block \ {b} : attr'[x] = attr[x]
    BY <1>1, <2>2, <2>3 DEF TypeOK
  <2>5. ASSUME NEW x \in Block
        PROVE  (Live(x)' <=> Live(x)) /\ (Live(x) => attr'[x].frozen = attr[x].frozen)
    BY <2>2, <2>4 DEF Live
  <2> QED  BY <2>2, <2>5, Unseen
<1>3. CASE \E t \in LiveTypes, new \in BOOLEAN : rollback_end(t, new)
  <2>1. PICK t \in LiveTypes, new \in BOOLEAN : rollback_end(t, new)
    BY <1>3
  <2>2. attr' = [attr EXCEPT ![Root] = TypedAttr(t, new)] /\ UNCHANGED <<bitmap, content>>
    BY <2>1 DEF rollback_end
  <2>3. TypedAttr(t, new).type = t /\ TypedAttr(t, new).frozen = 0 /\ t # COW
    BY TypedAttrFacts, ConstantFacts
  <2>4. attr'[Root] = TypedAttr(t, new) /\ \A x \in Block \ {Root} : attr'[x] = attr[x]
    BY <1>1, <2>2 DEF TypeOK
  <2>5. attr'[Root].type # COW /\ attr'[Root].frozen = attr[Root].frozen
    BY <1>1, <2>3, <2>4
  <2>6. ASSUME NEW x \in Block
        PROVE  (Live(x)' <=> Live(x)) /\ (Live(x) => attr'[x].frozen = attr[x].frozen)
    BY <1>1, <2>2, <2>4, <2>5 DEF Live
  <2> QED  BY <2>2, <2>6, Unseen
<1>4. CASE \E b \in Block : link_frozen(b) \/ delink_block(b)
  <2>1. PICK b \in Block, n \in {1, -1} : /\ attr' = [attr EXCEPT ![b].links = @ + n]
                                          /\ UNCHANGED <<bitmap, content>>
    BY <1>4 DEF link_frozen, delink_block
  <2>2. \A x \in Block : attr'[x].type = attr[x].type /\ attr'[x].frozen = attr[x].frozen
    BY <1>1, <2>1 DEF TypeOK, Attr
  <2> QED  BY <2>1, <2>2, Unseen DEF Live
<1>5. CASE snapshot_begin \/ aborted \/ UNCHANGED vars
  <2>1. UNCHANGED <<bitmap, attr, content>>
    BY <1>5 DEF snapshot_begin, aborted, vars
  <2> QED  BY <2>1, Unseen DEF Live
<1> QED  BY <1>2, <1>3, <1>4, <1>5

LEMMA CommitImplements ==
    ASSUME IInv, NEW root \in Block, snapshot_commit(root)
    PROVE  Service!FreezeAll /\ Frozen' # {}
<1>1. /\ TypeOK /\ Live(Root) /\ attr[Root].frozen = 0 /\ Root \in Block
      /\ root # Root /\ Live(root) /\ UNCHANGED <<bitmap, content>>
      /\ attr' = Freeze([attr EXCEPT ![root].frozen = 2])
  BY ConstantFacts DEF IInv, CallersKeepTheirBlocks, snapshot_commit
<1> DEFINE marked == [attr EXCEPT ![root].frozen = 2]
<1>2. ASSUME NEW b \in Block
      PROVE  /\ marked[b] \in Attr /\ marked[b].type = attr[b].type
             /\ marked[b].frozen = IF b = root THEN 2 ELSE attr[b].frozen
  BY <1>1 DEF TypeOK, Attr
<1>3. ASSUME NEW b \in Block
      PROVE  attr'[b] = IF b # Root /\ bitmap[b] /\ marked[b].frozen = 0 /\ marked[b].type # COW
                        THEN [marked[b] EXCEPT !.frozen = 1, !.links = (@ + 1) % (MaxLinks + 1)]
                        ELSE marked[b]
  BY <1>1 DEF Freeze
<1> HIDE DEF marked
<1>4. ASSUME NEW b \in Block
      PROVE  /\ attr'[b].type = attr[b].type
             /\ Live(b) => (attr'[b].frozen = 0 <=> b = Root)
  <2>1. CASE b # Root /\ bitmap[b] /\ marked[b].frozen = 0 /\ marked[b].type # COW
    <3>1. attr'[b] = [marked[b] EXCEPT !.frozen = 1, !.links = (@ + 1) % (MaxLinks + 1)]
      BY <1>3, <2>1
    <3>2. attr'[b].type = marked[b].type /\ attr'[b].frozen = 1
      BY <1>2, <3>1 DEF Attr
    <3> QED  BY <1>2, <2>1, <3>2
  <2>2. CASE ~(b # Root /\ bitmap[b] /\ marked[b].frozen = 0 /\ marked[b].type # COW)
    BY <1>1, <1>2, <1>3, <2>2 DEF Live
  <2> QED  BY <2>1, <2>2
<1>5. Lives' = Lives /\ Frozen' = Lives \ {Root}
  BY <1>1, <1>4 DEF Lives, Frozen, Live
<1>6. Data' = Data
  BY <1>1, <1>5 DEF Data
<1>7. Service!FreezeAll
  BY <1>5, <1>6 DEF Service!FreezeAll, Lives, Data, Frozen
<1>8. root \in Frozen'
  BY <1>1, <1>5 DEF Lives
<1> QED  BY <1>7, <1>8

LEMMA RollbackImplements ==
    ASSUME IInv, SnapshotsHold, NEW c \in Content, rollback_begin(c)
    PROVE  [Service!Next]_(Service!vars) /\ Frozen' = Frozen
<1>1. /\ TypeOK /\ Live(Root) /\ attr[Root].frozen = 0 /\ Root \in Block /\ Frozen # {}
      /\ bitmap' = [b \in Block |-> bitmap[b] /\ b \notin Discarded]
      /\ content' = [content EXCEPT ![Root] = c] /\ attr' = attr
  BY ConstantFacts DEF IInv, CallersKeepTheirBlocks, SnapshotsHold, rollback_begin
<1>2. Lives' = Frozen \cup {Root} /\ Frozen' = Frozen /\ Frozen \subseteq Lives
  BY <1>1 DEF Lives, Frozen, Live, Discarded
<1>3. Data' = [x \in Frozen \cup {Root} |-> IF x = Root THEN c ELSE Data[x]]
  <2>1. \A x \in Block : content'[x] = IF x = Root THEN c ELSE content[x]
    BY <1>1 DEF TypeOK
  <2>2. \A x \in Frozen \cup {Root} : content'[x] = IF x = Root THEN c ELSE Data[x]
    BY <1>1, <1>2, <2>1 DEF Data, Lives, Frozen
  <2> QED  BY <1>2, <2>2 DEF Data
<1>4. Service!Rollback(c)
  BY <1>1, <1>2, <1>3 DEF Service!Rollback, Lives, Data, Frozen
<1> QED  BY <1>2, <1>4 DEF Service!Next

LEMMA StepImplements ==
    ASSUME IInv, SnapshotsHold, [Next]_vars
    PROVE  [Service!Next]_(Service!vars)
<1>1. CASE allocate_new_block
  BY <1>1, AllocateImplements
<1>2. CASE \E b \in Block : deallocate_block(b)
  BY <1>2, DeallocateImplements
<1>3. CASE \E b \in Block, c \in Content, cow \in BOOLEAN : write_block(b, c, cow)
  BY <1>3, WriteImplements
<1>4. CASE \E t \in LiveTypes, new \in BOOLEAN : set_attr_type(t, new)
  BY <1>4, SetTypeImplements
<1>5. CASE \/ \E b \in Block, t \in LiveTypes, new \in BOOLEAN : set_attr_dropped(b, t, new)
           \/ \E t \in LiveTypes, new \in BOOLEAN : rollback_end(t, new)
           \/ \E b \in Block : link_frozen(b) \/ delink_block(b)
           \/ snapshot_begin \/ aborted \/ UNCHANGED vars
  BY <1>5, MarksImplement
<1>6. CASE \E b \in Block : snapshot_commit(b)
  BY <1>6, CommitImplements DEF Service!Next
<1>7. CASE \E c \in Content : rollback_begin(c)
  BY <1>7, RollbackImplements
<1> QED  BY <1>1, <1>2, <1>3, <1>4, <1>5, <1>6, <1>7 DEF Next

\* What is frozen stays, and a snapshot that is counted has frozen its root.
LEMMA SnapshotsKeepHolding ==
    ASSUME IInv, SnapshotsHold, [Next]_vars
    PROVE  SnapshotsHold'
<1>1. FrozenStays /\ TypeOK
  BY StepPreserves DEF IInv
<1>2. ASSUME NEW b \in Frozen PROVE b \in Frozen'
  <2>1. /\ b \in Block /\ attr[b].frozen # 0 /\ attr[b].type # COW
        /\ bitmap'[b] /\ attr'[b] = [attr[b] EXCEPT !.links = attr'[b].links]
    BY <1>1 DEF Frozen, FrozenStays, Live
  <2>2. attr'[b].frozen = attr[b].frozen /\ attr'[b].type = attr[b].type
    BY <1>1, <2>1 DEF TypeOK, Attr
  <2> QED  BY <2>1, <2>2 DEF Frozen, Live
<1>3. CASE \E b \in Block : snapshot_commit(b)
  BY <1>3, CommitImplements DEF SnapshotsHold
<1>4. CASE ~\E b \in Block : snapshot_commit(b)
  <2>1. hdr'.snapshots = hdr.snapshots
    BY <1>1, <1>4 DEF Next, vars, allocate_new_block, Took, TookNothing, deallocate_block,
         write_block, WriteInPlace, WriteOverCopy, set_attr_type, rollback_end,
         set_attr_dropped, link_frozen, delink_block, snapshot_begin, rollback_begin, aborted,
         TypeOK, Header
  <2> QED  BY <1>2, <2>1 DEF SnapshotsHold
<1> QED  BY <1>3, <1>4

\* To its callers the layer is BlockService: copies, reclamation and the scan do
\* not exist, and no call changes a live block it was not asked to change.
THEOREM StoreRefinesService == Spec => StoreImplementsService
<1>1. Init => Service!Init /\ SnapshotsHold
  <2> SUFFICES ASSUME Init PROVE Service!Init /\ SnapshotsHold
    OBVIOUS
  <2>1. IInv
    BY InitIInv
  <2>2. Live(Root) /\ attr[Root].frozen = 0 /\ Root \in Block /\ content \in [Block -> Content]
    BY <2>1, ConstantFacts DEF IInv, CallersKeepTheirBlocks, TypeOK
  <2>3. hdr.snapshots = 0 /\ \A b \in Block : bitmap[b] <=> b = Root
    BY DEF Init
  <2>4. Lives = {Root} /\ Frozen = {}
    BY <2>2, <2>3 DEF Lives, Frozen, Live
  <2>5. Data \in [{Root} -> Content]
    BY <2>2, <2>4 DEF Data
  <2> QED  BY <2>3, <2>4, <2>5 DEF Service!Init, SnapshotsHold, Lives, Data, Frozen
<1>2. IInv /\ SnapshotsHold /\ [Next]_vars => SnapshotsHold' /\ [Service!Next]_(Service!vars)
  BY StepImplements, SnapshotsKeepHolding
<1> QED  BY <1>1, <1>2, Inductive, PTL DEF Spec, StoreImplementsService, Service!Spec
===============================================================================

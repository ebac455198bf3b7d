------------------------- MODULE INodeBitmapProofs -------------------------
(***************************************************************************)
(* Proofs about INodeBitmap, for every layout that satisfies its           *)
(* assumptions.  What BlockAllocatorProofs shows of the allocator alone is *)
(* used as it is, through the refinement.                                  *)
(***************************************************************************)
EXTENDS INodeBitmap, BlockAllocatorProofs

\* The block bitmap, the first of the three areas behind the super block.
BitmapArea == BitmapStart .. BitmapStart + BitmapBlocks - 1

\* The areas lie in the metadata and reset_bitmap reserves all but the last of them.
LEMMA AreaFacts ==
    /\ BitsPerBlock \in Nat \ {0} /\ BitmapBlocks \in Nat \ {0} /\ BitmapStart = 1
    /\ InodeValidBlocks \in Nat \ {0} /\ InodeBlocks \in Nat \ {0}
    /\ ValidStart = 1 + BitmapBlocks /\ InodeStart = ValidStart + InodeValidBlocks
    /\ BasicBlocks = InodeStart + InodeBlocks
    /\ Metadata = 0 .. BasicBlocks - 1 /\ BitmapArea \subseteq Metadata
    /\ 0 .. InodeStart - 1 \subseteq Reserved
<1>1. /\ BitsPerBlock \in Nat \ {0} /\ BitmapBlocks \in Nat \ {0} /\ BitmapStart = 1
      /\ InodeValidBlocks \in Nat \ {0} /\ InodeBlocks \in Nat \ {0}
  BY LayoutFacts, LayoutAssumption
<1>2. /\ ValidStart = 1 + BitmapBlocks /\ InodeStart = ValidStart + InodeValidBlocks
      /\ BasicBlocks = InodeStart + InodeBlocks
  BY <1>1 DEF ValidStart, InodeStart, BasicBlocks, BitmapStart
<1>3. Metadata = 0 .. BasicBlocks - 1 /\ BitmapArea \subseteq Metadata
  BY <1>1, <1>2 DEF Metadata, BitmapArea
<1>4. 0 .. InodeStart - 1 \subseteq Reserved
  <2> DEFINE p == FullBitmapBlocks * BitsPerBlock
  <2>1. p \in Int /\ BasicBlocks = p + RemainingBlocks
    BY <1>1, LayoutFacts
  <2>2. RemainingBlocks \in Nat /\ RemainingBlocks <= InodeBlocks
    BY <1>1, LayoutFacts, InodeAssumption DEF Bit
  <2>3. Reserved = 0 .. p - 1
    BY DEF Reserved
  <2> HIDE DEF p
  <2> QED
    BY <1>1, <1>2, <2>1, <2>2, <2>3
<1> QED
  BY <1>1, <1>2, <1>3, <1>4

\* The quotients of the first n * m numbers by m are the numbers below n.
LEMMA QuotientBelow ==
    ASSUME NEW n \in Nat, NEW m \in Nat \ {0}, NEW x \in 0 .. n * m - 1
    PROVE  x \div m \in 0 .. n - 1
<1> DEFINE q == x \div m
           r == x % m
<1>1. n * m \in Nat
  OBVIOUS
<1>2. x \in Nat /\ x < n * m
  BY <1>1
<1>3. q \in Int /\ r \in 0 .. m - 1 /\ x = q * m + r
  BY <1>2, DivisionRemainder
<1> HIDE DEF q, r
<1>4. q * m \in Int
  BY <1>3
<1>5. CASE q >= n
  <2>1. q * m >= n * m
    BY <1>3, <1>5
  <2> QED
    BY <1>1, <1>2, <1>3, <1>4, <2>1
<1>6. CASE q <= -1
  <2>1. q * m <= (-1) * m
    BY <1>3, <1>6
  <2> QED
    BY <1>2, <1>3, <1>4, <2>1
<1> QED
  BY <1>3, <1>5, <1>6 DEF q

\* Every inode has a bit of the inode bitmap, and no two have the same.
LEMMA ValidFacts ==
    /\ Root \in Inode
    /\ \A i \in Inode : /\ ValidLba(i) \in ValidStart .. InodeStart - 1
                        /\ i % BitsPerBlock \in Bit
    /\ \A i, j \in Inode :
          ValidLba(i) = ValidLba(j) /\ i % BitsPerBlock = j % BitsPerBlock => i = j
<1> DEFINE B == BitsPerBlock
<1>1. B \in Nat \ {0} /\ InodeValidBlocks \in Nat \ {0} /\ ValidStart \in Nat
      /\ InodeStart = ValidStart + InodeValidBlocks
  BY AreaFacts
<1>2. Inode = 0 .. InodeValidBlocks * B - 1 /\ InodeValidBlocks * B \in Nat
  BY <1>1, InodeAssumption DEF Inode
<1>3. InodeValidBlocks * B >= 1
  <2>1. InodeValidBlocks * B >= 1 * B
    BY <1>1
  <2> QED
    BY <1>1, <1>2, <2>1
<1>4. ASSUME NEW i \in Inode
      PROVE  /\ i \div B \in 0 .. InodeValidBlocks - 1 /\ i % B \in 0 .. B - 1
             /\ i = (i \div B) * B + (i % B)
  <2>1. i \in 0 .. InodeValidBlocks * B - 1 /\ i \in Int
    BY <1>2
  <2>2. i \div B \in 0 .. InodeValidBlocks - 1
    BY <1>1, <2>1, QuotientBelow
  <2> QED
    BY <1>1, <2>1, <2>2, DivisionRemainder
<1>5. Root \in Inode
  BY <1>2, <1>3 DEF Root
<1>6. ASSUME NEW i \in Inode
      PROVE  ValidLba(i) \in ValidStart .. InodeStart - 1 /\ i % B \in Bit
  <2>1. i \div B \in 0 .. InodeValidBlocks - 1 /\ i % B \in 0 .. B - 1
    BY <1>4
  <2>2. ValidLba(i) = ValidStart + (i \div B)
    BY DEF ValidLba
  <2> QED
    BY <1>1, <2>1, <2>2 DEF Bit
<1>7. ASSUME NEW i \in Inode, NEW j \in Inode, ValidLba(i) = ValidLba(j), i % B = j % B
      PROVE  i = j
  <2>1. PICK k, l \in Int : k = i \div B /\ l = j \div B
    BY <1>4
  <2>2. i \div B = j \div B
    <3>1. ValidStart + k = ValidStart + l
      BY <1>7, <2>1 DEF ValidLba
    <3> QED
      BY <1>1, <2>1, <3>1
  <2> QED
    BY <1>4, <1>7, <2>2
<1> QED
  BY <1>5, <1>6, <1>7

\* Every inode of the table has a slot of its own, in the table.
LEMMA SlotFacts ==
    /\ \A i \in Inode : /\ SlotLba(i) \in TableBlocks
                          /\ SlotBits(i) \subseteq Bit /\ TypeBit(i) \in SlotBits(i)
    /\ \A i, j \in Inode :
          SlotLba(i) = SlotLba(j) /\ i # j => SlotBits(i) \cap SlotBits(j) = {}
<1> DEFINE P == InodesPerBlock
           S == SlotSize
<1>1. /\ P \in Nat \ {0} /\ P <= BitsPerBlock /\ BitsPerBlock \in Nat \ {0}
      /\ InodeBlocks \in Nat \ {0} /\ InodeStart \in Nat /\ BasicBlocks = InodeStart + InodeBlocks
  BY AreaFacts, InodeAssumption
<1>2. S \in Nat /\ S >= 2 /\ P * S <= BitsPerBlock
  <2>1. /\ S \in Int /\ BitsPerBlock % P \in 0 .. P - 1
        /\ BitsPerBlock = S * P + (BitsPerBlock % P)
    BY <1>1, DivisionRemainder DEF SlotSize
  <2>2. S >= 2
    BY InodeAssumption
  <2>3. S * P = P * S /\ S * P \in Int
    BY <1>1, <2>1
  <2> QED
    BY <1>1, <2>1, <2>2, <2>3
<1>3. Inode = 0 .. InodeBlocks * P - 1
  BY <1>1 DEF Inode, InodesCnt
<1>4. ASSUME NEW i \in Inode
      PROVE  /\ i \div P \in 0 .. InodeBlocks - 1 /\ i % P \in 0 .. P - 1
             /\ i = (i \div P) * P + (i % P)
  <2>1. i \in 0 .. InodeBlocks * P - 1 /\ i \in Int
    BY <1>1, <1>3
  <2>2. i \div P \in 0 .. InodeBlocks - 1
    BY <1>1, <2>1, QuotientBelow
  <2> QED
    BY <1>1, <2>1, <2>2, DivisionRemainder
<1> HIDE DEF S, P
<1>5. \A i \in Inode : /\ SlotLba(i) = InodeStart + (i \div P)
                         /\ SlotFirst(i) = (i % P) * S
                         /\ TypeBit(i) = SlotFirst(i) + S - 1
                         /\ SlotBits(i) = SlotFirst(i) .. SlotFirst(i) + S - 1
  BY DEF SlotLba, SlotFirst, TypeBit, SlotBits, S, P
\* A slot lies before every slot that comes later in its block.
<1>6. ASSUME NEW k \in Nat, NEW l \in Nat, k < l
      PROVE  k * S \in Nat /\ l * S \in Nat /\ k * S + S <= l * S
  <2>1. (k + 1) * S <= l * S
    BY <1>2, <1>6
  <2>2. (k + 1) * S = k * S + S
    BY <1>2
  <2>3. k * S \in Nat /\ l * S \in Nat
    BY <1>2
  <2> QED
    BY <2>1, <2>2, <2>3
<1>7. ASSUME NEW i \in Inode
      PROVE  /\ SlotLba(i) \in TableBlocks
             /\ SlotBits(i) \subseteq Bit /\ TypeBit(i) \in SlotBits(i)
  <2>1. SlotLba(i) \in TableBlocks
    <3>1. PICK q \in 0 .. InodeBlocks - 1 : q = i \div P
      BY <1>4
    <3>2. SlotLba(i) = InodeStart + q
      BY <1>5, <3>1
    <3> QED
      BY <1>1, <3>2 DEF TableBlocks
  <2>2. PICK k \in Nat : k = i % P /\ k < P
    BY <1>1, <1>4 DEF P
  <2>3. k * S \in Nat /\ k * S + S <= P * S /\ P * S \in Nat
    BY <1>1, <1>6, <2>2
  <2>4. SlotFirst(i) = k * S
    BY <1>5, <2>2
  <2>5. PICK f \in Nat : f = SlotFirst(i) /\ f + S <= BitsPerBlock
    BY <1>1, <1>2, <2>3, <2>4 DEF P, S
  <2>6. SlotBits(i) = f .. f + S - 1 /\ TypeBit(i) = f + S - 1
    BY <1>5, <2>5
  <2> QED
    BY <1>1, <1>2, <2>1, <2>5, <2>6 DEF Bit, S
<1>8. ASSUME NEW i \in Inode, NEW j \in Inode, SlotLba(i) = SlotLba(j), i # j
      PROVE  SlotBits(i) \cap SlotBits(j) = {}
  <2>1. i \div P \in Int /\ j \div P \in Int
    BY <1>4
  <2>2. i \div P = j \div P
    BY <1>1, <1>5, <1>8, <2>1
  <2>3. i % P # j % P
    BY <1>4, <1>8, <2>2
  <2>4. PICK k, l \in Nat : k = i % P /\ l = j % P
    BY <1>1, <1>4 DEF P
  <2>5. PICK f, g \in Nat : f = k * S /\ g = l * S
    BY <1>2 DEF S
  <2>6. f + S <= g \/ g + S <= f
    BY <1>6, <2>3, <2>4, <2>5
  <2>7. SlotBits(i) = f .. f + S - 1 /\ SlotBits(j) = g .. g + S - 1
    BY <1>5, <2>4, <2>5
  <2> QED
    BY <1>2, <2>6, <2>7 DEF S
<1> QED
  BY <1>7, <1>8
-----------------------------------------------------------------------------
\* What the metadata may hold, the slot of an inode in it, and a write of a block.
Disk == [Metadata -> SUBSET Bit]
SlotOf(blocks, i) == blocks[SlotLba(i)] \cap SlotBits(i)
With(blocks, lba, bits) == [blocks EXCEPT ![lba] = bits]

\* A slot that is written leaves the other slots and the bitmaps alone.
LEMMA SlotWritten ==
    ASSUME NEW old \in Disk, NEW i \in Inode, NEW bits, bits \subseteq SlotBits(i),
           NEW new, new = WithSlot(old, i, bits)
    PROVE  /\ new \in Disk
           /\ \A lba \in Metadata \ TableBlocks : new[lba] = old[lba]
           /\ \A j \in Inode \ {i} : SlotOf(new, j) = SlotOf(old, j)
           /\ SlotOf(new, i) = bits
<1>1. TableBlocks \subseteq Metadata
  BY AreaFacts DEF TableBlocks
<1>2. SlotLba(i) \in TableBlocks /\ bits \subseteq SlotBits(i) /\ SlotBits(i) \subseteq Bit
  BY SlotFacts
<1>3. new = [old EXCEPT ![SlotLba(i)] = (old[SlotLba(i)] \ SlotBits(i)) \cup bits]
  BY DEF WithSlot
<1>4. new \in Disk
  BY <1>1, <1>2, <1>3 DEF Disk
<1>5. \A lba \in Metadata \ {SlotLba(i)} : new[lba] = old[lba]
  BY <1>3 DEF Disk
<1>6. new[SlotLba(i)] = (old[SlotLba(i)] \ SlotBits(i)) \cup bits
  BY <1>1, <1>2, <1>3 DEF Disk
<1>7. ASSUME NEW j \in Inode \ {i}
      PROVE  SlotOf(new, j) = SlotOf(old, j)
  <2>1. SlotLba(j) \in Metadata
    BY <1>1, SlotFacts
  <2>2. CASE SlotLba(j) = SlotLba(i)
    <3>1. SlotBits(i) \cap SlotBits(j) = {}
      BY <2>2, SlotFacts
    <3> QED
      BY <1>2, <1>6, <2>2, <3>1 DEF SlotOf
  <2> QED
    BY <1>5, <2>1, <2>2 DEF SlotOf
<1>8. SlotOf(new, i) = bits
  BY <1>2, <1>6 DEF SlotOf
<1> QED
  BY <1>2, <1>4, <1>5, <1>7, <1>8

\* A block before the table that is written leaves the slots and the other blocks alone.
LEMMA BlockWritten ==
    ASSUME NEW old \in Disk, NEW lba \in Metadata \ TableBlocks, NEW bits \in SUBSET Bit,
           NEW new, new = With(old, lba, bits)
    PROVE  /\ new \in Disk /\ new[lba] = bits
           /\ \A l \in Metadata \ {lba} : new[l] = old[l]
           /\ \A j \in Inode : SlotOf(new, j) = SlotOf(old, j)
<1>1. TableBlocks \subseteq Metadata
  BY AreaFacts DEF TableBlocks
<1>2. new \in Disk /\ new[lba] = bits /\ \A l \in Metadata \ {lba} : new[l] = old[l]
  BY DEF Disk, With
<1> QED
  BY <1>1, <1>2, SlotFacts DEF SlotOf

\* A freshly formatted disk: the bitmap is as the allocator wants it, the first
\* inode is in use.
LEMMA FormattedFacts ==
    /\ FormattedDisk \in Disk
    /\ \A lba \in BitmapArea : FormattedDisk[lba] = ResetBitmap(ClearedDisk)[lba]
    /\ \A i \in Inode : i % BitsPerBlock \in FormattedDisk[ValidLba(i)] <=> i = Root
    /\ \A i \in Inode \ {Root} : SlotOf(FormattedDisk, i) \subseteq Misplaced(i)
<1> DEFINE reset == ResetBitmap(ClearedDisk)
           old == [reset EXCEPT ![ValidStart] = {0}]
<1>1. reset \in Disk
  BY ResetMarksReserved DEF Disk
<1>2. ValidStart \in Metadata \ TableBlocks /\ {0} \in SUBSET Bit
  BY AreaFacts DEF TableBlocks, Bit
<1>3. /\ \A lba \in ValidStart .. InodeStart - 1 : reset[lba] = {}
      /\ \A lba \in TableBlocks : lba # InodeStart + FullBitmapBlocks => reset[lba] = {}
      /\ reset[InodeStart + FullBitmapBlocks] = 0 .. RemainingBlocks - 1
  <2>1. \A lba \in ValidStart .. BasicBlocks - 1 :
           /\ lba \in Metadata
           /\ lba \notin BitmapStart .. BitmapStart + FullBitmapBlocks - 1
           /\ lba < InodeStart => lba # InodeStart + FullBitmapBlocks
           /\ ClearedDisk[lba] = {}
    BY AreaFacts, LayoutFacts DEF ClearedDisk
  <2>2. /\ InodeStart + FullBitmapBlocks \in Metadata /\ ClearedDisk[InodeStart + FullBitmapBlocks] = {}
        /\ InodeStart + FullBitmapBlocks \notin BitmapStart .. BitmapStart + FullBitmapBlocks - 1
    BY AreaFacts, LayoutFacts DEF ClearedDisk
  <2>3. /\ \A lba \in ValidStart .. InodeStart - 1 : lba \in ValidStart .. BasicBlocks - 1 /\ lba < InodeStart
        /\ TableBlocks \subseteq ValidStart .. BasicBlocks - 1
    BY AreaFacts DEF TableBlocks
  <2> QED
    BY <2>1, <2>2, <2>3 DEF ResetBitmap
<1>4. old = With(reset, ValidStart, {0})
  BY DEF With
<1>5. FormattedDisk = WithSlot(old, Root, SlotBits(Root))
  BY DEF FormattedDisk, FormattedMetadata
<1> HIDE DEF reset, old
<1>6. /\ old \in Disk /\ old[ValidStart] = {0}
      /\ \A l \in Metadata \ {ValidStart} : old[l] = reset[l]
      /\ \A j \in Inode : SlotOf(old, j) = SlotOf(reset, j)
  BY <1>1, <1>2, <1>4, BlockWritten
<1>7. /\ FormattedDisk \in Disk
      /\ \A lba \in Metadata \ TableBlocks : FormattedDisk[lba] = old[lba]
      /\ \A j \in Inode \ {Root} : SlotOf(FormattedDisk, j) = SlotOf(old, j)
  BY <1>5, <1>6, SlotWritten, ValidFacts
<1>8. \A lba \in BitmapArea : FormattedDisk[lba] = reset[lba]
  <2>1. \A lba \in BitmapArea : lba \in Metadata \ TableBlocks /\ lba # ValidStart
    BY AreaFacts DEF BitmapArea, TableBlocks
  <2> QED
    BY <1>6, <1>7, <2>1
<1>9. ASSUME NEW i \in Inode
      PROVE  i % BitsPerBlock \in FormattedDisk[ValidLba(i)] <=> i = Root
  <2>1. ValidLba(i) \in ValidStart .. InodeStart - 1 /\ ValidLba(i) \in Metadata \ TableBlocks
    BY ValidFacts, AreaFacts DEF TableBlocks
  <2>2. ValidLba(Root) = ValidStart /\ Root % BitsPerBlock = 0
    <3>1. (0 * BitsPerBlock + 0) \div BitsPerBlock = 0 /\ (0 * BitsPerBlock + 0) % BitsPerBlock = 0
      BY AreaFacts, DivisionUnique
    <3>2. 0 * BitsPerBlock + 0 = 0
      BY AreaFacts
    <3>3. 0 \div BitsPerBlock = 0 /\ 0 % BitsPerBlock = 0
      BY <3>1, <3>2
    <3> QED
      BY <3>3, AreaFacts DEF ValidLba, Root
  <2>3. CASE ValidLba(i) = ValidStart
    <3>1. FormattedDisk[ValidLba(i)] = {0}
      BY <1>6, <1>7, <2>1, <2>3
    <3>2. i % BitsPerBlock = 0 <=> i = Root
      BY <2>2, <2>3, ValidFacts
    <3> QED
      BY <3>1, <3>2
  <2>4. CASE ValidLba(i) # ValidStart
    <3>1. FormattedDisk[ValidLba(i)] = {}
      BY <1>3, <1>6, <1>7, <2>1, <2>4
    <3> QED
      BY <2>2, <2>4, <3>1
  <2> QED
    BY <2>3, <2>4
<1>10. ASSUME NEW i \in Inode \ {Root}
       PROVE  SlotOf(FormattedDisk, i) \subseteq Misplaced(i)
  <2>1. SlotLba(i) \in TableBlocks
    BY SlotFacts
  <2>2. SlotOf(FormattedDisk, i) = SlotOf(reset, i)
    BY <1>6, <1>7
  <2>3. CASE SlotLba(i) = InodeStart + FullBitmapBlocks
    BY <1>3, <2>2, <2>3 DEF SlotOf, Misplaced
  <2>4. CASE SlotLba(i) # InodeStart + FullBitmapBlocks
    BY <1>3, <2>1, <2>2, <2>4 DEF SlotOf
  <2> QED
    BY <2>3, <2>4
<1> QED
  BY <1>7, <1>8, <1>9, <1>10 DEF reset
-----------------------------------------------------------------------------
\* The metadata as the allocator would leave it by itself, and its theorems.
Masked ==
    [lba \in Metadata |->
        IF lba \in BitmapStart .. BitmapStart + BitmapBlocks - 1 THEN block[lba]
        ELSE FormattedMetadata[lba]]

Alloc == INSTANCE BlockAllocatorProofs WITH block <- Masked

\* The two copies of the allocator have the same layout ...
LEMMA SameLayout ==
    /\ Alloc!BitmapBlocks = BitmapBlocks /\ Alloc!BitmapStart = BitmapStart
    /\ Alloc!BasicBlocks = BasicBlocks /\ Alloc!FullBitmapBlocks = FullBitmapBlocks
    /\ Alloc!RemainingBlocks = RemainingBlocks /\ Alloc!InodeStart = InodeStart
    /\ Alloc!Metadata = Metadata /\ Alloc!Bit = Bit /\ Alloc!BitmapIndex = BitmapIndex
    /\ Alloc!Lba = Lba /\ Alloc!Reserved = Reserved
    /\ Alloc!FromCursor = FromCursor /\ Alloc!BeforeCursor = BeforeCursor
  BY DEF Alloc!BitmapBlocks, BitmapBlocks, Alloc!BitmapStart, BitmapStart,
         Alloc!BasicBlocks, BasicBlocks, Alloc!FullBitmapBlocks, FullBitmapBlocks,
         Alloc!RemainingBlocks, RemainingBlocks, Alloc!InodeStart, InodeStart,
         Alloc!Metadata, Metadata, Alloc!Bit, Bit, Alloc!BitmapIndex, BitmapIndex,
         Alloc!Lba, Lba, Alloc!Reserved, Reserved,
         Alloc!FromCursor, FromCursor, Alloc!BeforeCursor, BeforeCursor

\* ... and format it the same.
LEMMA SameReset == Alloc!ResetBitmap(Alloc!ClearedDisk) = ResetBitmap(ClearedDisk)
  BY SameLayout DEF Alloc!ResetBitmap, ResetBitmap, Alloc!ClearedDisk, ClearedDisk

\* What BlockAllocatorProofs shows.
LEMMA AllocInit == Alloc!Init => Alloc!IInv
  BY Alloc!InitEstablishes, LayoutAssumption, SizeAssumption, ResultAssumption, SameLayout

\* No step of the allocator leaves its invariant.
LEMMA AllocNext == Alloc!IInv /\ [Alloc!Next]_Alloc!vars => Alloc!IInv'
  BY Alloc!NextKeeps, LayoutAssumption, SizeAssumption, ResultAssumption, SameLayout

\* The bitmap of the masked metadata is that of the metadata.
LEMMA SameBitmap == \A i \in BitmapIndex : Alloc!Bitmap(i) = Bitmap(i)
<1> SUFFICES ASSUME NEW i \in BitmapIndex PROVE Alloc!Bitmap(i) = Bitmap(i)
  OBVIOUS
<1>1. BitmapStart + i \in BitmapArea /\ BitmapStart + i \in Metadata
  BY AreaFacts DEF BitmapIndex, BitmapArea
<1>2. Masked[BitmapStart + i] = block[BitmapStart + i]
  BY <1>1 DEF Masked, BitmapArea
<1> QED
  BY <1>2, SameLayout DEF Alloc!Bitmap, Bitmap

\* What the allocator's invariant says of the metadata themselves.
LEMMA AllocFacts ==
    Alloc!IInv /\ block \in Disk =>
        TypeOK /\ Reserved \cap owned = {} /\ \A lba \in Lba : Marked(lba) <=> lba \in Reserved \cup owned
<1> SUFFICES ASSUME Alloc!IInv, block \in Disk
             PROVE  /\ TypeOK /\ Reserved \cap owned = {}
                    /\ \A lba \in Lba : Marked(lba) <=> lba \in Reserved \cup owned
  OBVIOUS
<1>1. TypeOK
  BY SameLayout DEF Alloc!IInv, Alloc!TypeOK, TypeOK, Disk
<1>2. Reserved \cap owned = {}
  BY SameLayout DEF Alloc!IInv, Alloc!BitmapTracksOwners
<1>3. ASSUME NEW lba \in Lba
      PROVE  Marked(lba) <=> lba \in Reserved \cup owned
  <2>1. Alloc!Marked(lba) <=> lba \in Reserved \cup owned
    BY SameLayout DEF Alloc!IInv, Alloc!BitmapTracksOwners
  <2>2. lba \div BitsPerBlock \in BitmapIndex
    BY LbaParts
  <2> QED
    BY <2>1, <2>2, SameBitmap DEF Alloc!Marked, Marked
<1> QED
  BY <1>1, <1>2, <1>3
-----------------------------------------------------------------------------
\* The block lba before the table and the slot of i have been written, nothing else.
Wrote(old, new, lba, bits, i, slot) ==
    /\ new \in Disk /\ new[lba] = bits
    /\ \A l \in (Metadata \ TableBlocks) \ {lba} : new[l] = old[l]
    /\ \A j \in Inode \ {i} : SlotOf(new, j) = SlotOf(old, j)
    /\ SlotOf(new, i) = slot

\* Writing a block before the table and then a slot does that.
LEMMA TwoWritten ==
    ASSUME NEW old \in Disk, NEW lba \in Metadata \ TableBlocks, NEW bits \in SUBSET Bit,
           NEW i \in Inode, NEW slot, slot \subseteq SlotBits(i)
    PROVE  Wrote(old, WithSlot(With(old, lba, bits), i, slot), lba, bits, i, slot)
<1> DEFINE new == WithSlot(With(old, lba, bits), i, slot)
<1>1. PICK mid : mid = With(old, lba, bits)
  OBVIOUS
<1>2. /\ mid \in Disk /\ mid[lba] = bits
      /\ \A l \in Metadata \ {lba} : mid[l] = old[l]
      /\ \A j \in Inode : SlotOf(mid, j) = SlotOf(old, j)
  BY <1>1, BlockWritten
<1>3. new = WithSlot(mid, i, slot)
  BY <1>1
<1> HIDE DEF new
<1>4. /\ new \in Disk
      /\ \A l \in Metadata \ TableBlocks : new[l] = mid[l]
      /\ \A j \in Inode \ {i} : SlotOf(new, j) = SlotOf(mid, j)
      /\ SlotOf(new, i) = slot
  BY <1>2, <1>3, SlotWritten
<1>5. Wrote(old, new, lba, bits, i, slot)
  BY <1>2, <1>4 DEF Wrote
<1> QED
  BY <1>5 DEF new

\* What may be written to a slot lies in it.
LEMMA SlotContents ==
    ASSUME NEW i \in Inode
    PROVE  /\ Slot(i) = SlotOf(block, i)
           /\ \A type \in FileType : Typed(i, Slot(i), type) \subseteq SlotBits(i)
           /\ Slot(i) \cup Filled(i) \subseteq SlotBits(i)
  BY SlotFacts DEF Slot, SlotOf, Typed, Filled

\* A step leaves the slots of the other inodes, the bitmap, the inode bitmap.
SlotsKept(i) == \A j \in Inode \ {i} : Slot(j)' = Slot(j)
BitmapKept == \A lba \in BitmapArea : block'[lba] = block[lba]
InodeBitmapKept == \A lba \in ValidStart .. InodeStart - 1 : block'[lba] = block[lba]

\* The areas are disjoint.
LEMMA Areas ==
    /\ \A lba \in BitmapArea : lba \in Metadata \ TableBlocks /\ lba \notin ValidStart .. InodeStart - 1
    /\ \A lba \in ValidStart .. InodeStart - 1 : lba \in Metadata \ TableBlocks /\ lba \notin BitmapArea
    /\ TableBlocks \subseteq Metadata
  BY AreaFacts DEF BitmapArea, TableBlocks

\* allocate_inode: one bit of the inode bitmap, and the inode's slot.
LEMMA AllocateWrites ==
    ASSUME block \in Disk, NEW i \in Inode, NEW type \in FileType,
           block' = WithSlot([block EXCEPT ![ValidLba(i)] = @ \cup {i % BitsPerBlock}],
                             i, Typed(i, Slot(i), type))
    PROVE  /\ block' \in Disk /\ BitmapKept /\ SlotsKept(i)
           /\ \A j \in Inode : InodeMarked(j)' <=> InodeMarked(j) \/ j = i
<1>1. ValidLba(i) \in ValidStart .. InodeStart - 1 /\ i % BitsPerBlock \in Bit
  BY ValidFacts
<1>2. ValidLba(i) \in Metadata \ TableBlocks /\ ValidLba(i) \notin BitmapArea
  BY <1>1, Areas
<1>3. PICK bits \in SUBSET Bit : bits = block[ValidLba(i)] \cup {i % BitsPerBlock}
  BY <1>1, <1>2 DEF Disk
<1>4. PICK slot : slot = Typed(i, Slot(i), type) /\ slot \subseteq SlotBits(i)
  BY SlotContents
<1>5. block' = WithSlot(With(block, ValidLba(i), bits), i, slot)
  BY <1>3, <1>4 DEF With
<1>6. /\ block' \in Disk /\ block'[ValidLba(i)] = bits
      /\ \A l \in (Metadata \ TableBlocks) \ {ValidLba(i)} : block'[l] = block[l]
      /\ \A j \in Inode \ {i} : SlotOf(block', j) = SlotOf(block, j)
  <2>1. slot \subseteq SlotBits(i)
    BY <1>4
  <2>2. block \in Disk /\ i \in Inode
    OBVIOUS
  <2> QED
    <3>1. Wrote(block, WithSlot(With(block, ValidLba(i), bits), i, slot), ValidLba(i), bits, i, slot)
      BY <1>2, <2>1, <2>2, TwoWritten
    <3> QED
      BY <1>5, <3>1 DEF Wrote
<1>7. BitmapKept
  BY <1>2, <1>6, Areas DEF BitmapKept
<1>8. SlotsKept(i)
  BY <1>6 DEF SlotsKept, Slot, SlotOf
<1>9. ASSUME NEW j \in Inode
      PROVE  InodeMarked(j)' <=> InodeMarked(j) \/ j = i
  <2>1. ValidLba(j) \in Metadata \ TableBlocks
    BY ValidFacts, Areas
  <2>2. CASE ValidLba(j) = ValidLba(i)
    <3>1. j % BitsPerBlock = i % BitsPerBlock <=> j = i
      BY <2>2, ValidFacts
    <3> QED
      BY <1>3, <1>6, <2>2, <3>1 DEF InodeMarked
  <2>3. CASE ValidLba(j) # ValidLba(i)
    BY <1>6, <2>1, <2>3 DEF InodeMarked
  <2> QED
    BY <2>2, <2>3
<1> QED
  BY <1>6, <1>7, <1>8, <1>9

\* The first half of free_inode: the inode's bit and its slot.
LEMMA WipeWrites ==
    ASSUME block \in Disk, NEW i \in Inode, NEW new, new = Wiped(i)
    PROVE  /\ new \in Disk
           /\ \A lba \in BitmapArea : new[lba] = block[lba]
           /\ \A j \in Inode \ {i} : SlotOf(new, j) = SlotOf(block, j)
           /\ SlotOf(new, i) = {}
           /\ \A j \in Inode : j % BitsPerBlock \in new[ValidLba(j)] <=> InodeMarked(j) /\ j # i
<1>1. ValidLba(i) \in ValidStart .. InodeStart - 1
  BY ValidFacts
<1>2. ValidLba(i) \in Metadata \ TableBlocks /\ ValidLba(i) \notin BitmapArea
  BY <1>1, Areas
<1>3. PICK bits \in SUBSET Bit : bits = block[ValidLba(i)] \ {i % BitsPerBlock}
  BY <1>1, <1>2 DEF Disk
<1>4. new = WithSlot(With(block, ValidLba(i), bits), i, {})
  BY <1>3 DEF With, Wiped
<1>5. /\ new \in Disk /\ new[ValidLba(i)] = bits
      /\ \A l \in (Metadata \ TableBlocks) \ {ValidLba(i)} : new[l] = block[l]
      /\ \A j \in Inode \ {i} : SlotOf(new, j) = SlotOf(block, j)
      /\ SlotOf(new, i) = {}
  BY <1>2, <1>4, TwoWritten DEF Wrote
<1>6. ASSUME NEW j \in Inode
      PROVE  j % BitsPerBlock \in new[ValidLba(j)] <=> InodeMarked(j) /\ j # i
  <2>1. ValidLba(j) \in Metadata \ TableBlocks
    BY ValidFacts, Areas
  <2>2. CASE ValidLba(j) = ValidLba(i)
    <3>1. j % BitsPerBlock = i % BitsPerBlock <=> j = i
      BY <2>2, ValidFacts
    <3> QED
      BY <1>3, <1>5, <2>2, <3>1 DEF InodeMarked
  <2>3. CASE ValidLba(j) # ValidLba(i)
    BY <1>5, <2>1, <2>3 DEF InodeMarked
  <2> QED
    BY <2>2, <2>3
<1> QED
  BY <1>2, <1>5, <1>6, Areas

\* free_inode: the inode's bit and slot, and the bit of its data block if it has one.
LEMMA FreeWrites ==
    ASSUME block \in Disk, NEW i \in Inode, NEW lba, block' = Returned(Wiped(i), lba)
    PROVE  /\ block' \in Disk /\ SlotsKept(i) /\ Slot(i)' = {}
           /\ \A l \in BitmapArea : block'[l] = Returned(block, lba)[l]
           /\ \A j \in Inode : InodeMarked(j)' <=> InodeMarked(j) /\ j # i
<1>1. PICK mid : mid = Wiped(i)
  OBVIOUS
<1>2. /\ mid \in Disk
      /\ \A l \in BitmapArea : mid[l] = block[l]
      /\ \A j \in Inode \ {i} : SlotOf(mid, j) = SlotOf(block, j)
      /\ SlotOf(mid, i) = {}
      /\ \A j \in Inode : j % BitsPerBlock \in mid[ValidLba(j)] <=> InodeMarked(j) /\ j # i
  BY <1>1, WipeWrites
<1>3. CASE lba \notin Lba
  <2>1. block' = mid /\ Returned(block, lba) = block
    BY <1>1, <1>3 DEF Returned
  <2> QED
    BY <1>2, <2>1 DEF SlotsKept, Slot, SlotOf, InodeMarked
<1>4. CASE lba \in Lba
  <2> DEFINE place == BitmapStart + lba \div BitsPerBlock
  <2>1. lba \div BitsPerBlock \in BitmapIndex
    BY <1>4, LbaParts
  <2>2. place \in BitmapArea
    BY <2>1, AreaFacts DEF BitmapArea, BitmapIndex
  <2>3. /\ block' = [mid EXCEPT ![place] = mid[place] \ {lba % BitsPerBlock}]
        /\ Returned(block, lba) = [block EXCEPT ![place] = block[place] \ {lba % BitsPerBlock}]
    BY <1>1, <1>4 DEF Returned
  <2> HIDE DEF place
  <2>4. PICK bits \in SUBSET Bit : bits = mid[place] \ {lba % BitsPerBlock}
    BY <1>2, <2>2, Areas DEF Disk
  <2>5. block' = With(mid, place, bits)
    BY <2>3, <2>4 DEF With
  <2>6. /\ block' \in Disk /\ block'[place] = bits
        /\ \A l \in Metadata \ {place} : block'[l] = mid[l]
        /\ \A j \in Inode : SlotOf(block', j) = SlotOf(mid, j)
    BY <1>2, <2>2, <2>5, Areas, BlockWritten
  <2>7. \A l \in BitmapArea : block'[l] = Returned(block, lba)[l]
    BY <1>2, <2>2, <2>3, <2>4, <2>6, Areas DEF Disk
  <2>8. \A j \in Inode : InodeMarked(j)' <=> InodeMarked(j) /\ j # i
    <3>1. \A j \in Inode : block'[ValidLba(j)] = mid[ValidLba(j)]
      BY <2>2, <2>6, Areas, ValidFacts
    <3> QED
      BY <1>2, <3>1 DEF InodeMarked
  <2> QED
    BY <1>2, <2>6, <2>7, <2>8 DEF SlotsKept, Slot, SlotOf
<1> QED
  BY <1>3, <1>4

\* write_data inside the inode: its slot alone.
LEMMA InlineWrites ==
    ASSUME block \in Disk, NEW i \in Inode,
           block' = WithSlot(block, i, Slot(i) \cup Filled(i))
    PROVE  block' \in Disk /\ BitmapKept /\ InodeBitmapKept /\ SlotsKept(i)
<1>1. PICK slot : slot = Slot(i) \cup Filled(i) /\ slot \subseteq SlotBits(i)
  BY SlotContents
<1>2. block' = WithSlot(block, i, slot)
  BY <1>1
<1>3. /\ block' \in Disk
      /\ \A lba \in Metadata \ TableBlocks : block'[lba] = block[lba]
      /\ \A j \in Inode \ {i} : SlotOf(block', j) = SlotOf(block, j)
  BY <1>1, <1>2, SlotWritten
<1> QED
  BY <1>3, Areas DEF BitmapKept, InodeBitmapKept, SlotsKept, Slot, SlotOf

\* write_data in block lba: that block, the slot of i, and what the slots in the block say.
WroteAt(old, lba, i) ==
    /\ block' \in Disk
    /\ \A l \in (Metadata \ TableBlocks) \ {lba} : block'[l] = old[l]
    /\ \A j \in Inode \ {i} : SlotLba(j) # lba => SlotOf(block', j) = SlotOf(old, j) /\ at'[j] = at[j]
    /\ at' \in [Inode -> Pointer] /\ at'[i] = lba
    /\ strays' = strays \cup (TableBlocks \cap {lba})

LEMMA WriteAtFacts ==
    ASSUME NEW old \in Disk, NEW lba \in Lba, NEW i \in Inode, at \in [Inode -> Pointer],
           WriteAt(old, lba, i)
    PROVE  WroteAt(old, lba, i)
<1>1. PICK data \in Contents, kept \in SUBSET SlotsOf(lba) :
         /\ block' = WithSlot(Overwritten(old, lba, data, kept), i, Slot(i) \cup Filled(i))
         /\ at' = [j \in Inode |-> IF j = i THEN lba
                                   ELSE IF j \in SlotsOf(lba) \ kept THEN data.says ELSE at[j]]
         /\ strays' = strays \cup (TableBlocks \cap {lba})
  BY DEF WriteAt
<1>2. data.bits \in SUBSET Bit /\ data.says \in Pointer
  BY InodeAssumption
<1>3. PICK mid : mid = Overwritten(old, lba, data, kept)
  OBVIOUS
<1>4. mid \in Disk /\ \A l \in Metadata \ {lba} : mid[l] = old[l]
  <2>1. CASE lba \notin Metadata
    BY <1>3, <2>1 DEF Overwritten
  <2>2. CASE lba \in Metadata
    <3>1. PICK keep : keep = UNION {SlotBits(j) : j \in kept}
      OBVIOUS
    <3>2. mid = [old EXCEPT ![lba] = (data.bits \ keep) \cup (old[lba] \cap keep)]
      BY <1>3, <2>2, <3>1 DEF Overwritten
    <3>3. (data.bits \ keep) \cup (old[lba] \cap keep) \in SUBSET Bit
      BY <1>2, <2>2 DEF Disk
    <3> QED
      BY <2>2, <3>2, <3>3 DEF Disk
  <2> QED
    BY <2>1, <2>2
<1>5. PICK slot : slot = Slot(i) \cup Filled(i) /\ slot \subseteq SlotBits(i)
  BY SlotContents
<1>6. block' = WithSlot(mid, i, slot)
  BY <1>1, <1>3, <1>5
<1>7. /\ block' \in Disk
      /\ \A l \in Metadata \ TableBlocks : block'[l] = mid[l]
      /\ \A j \in Inode \ {i} : SlotOf(block', j) = SlotOf(mid, j)
  BY <1>4, <1>5, <1>6, SlotWritten
<1>8. ASSUME NEW j \in Inode \ {i}, SlotLba(j) # lba
      PROVE  SlotOf(block', j) = SlotOf(old, j) /\ at'[j] = at[j]
  <2>1. SlotLba(j) \in Metadata \ {lba}
    BY <1>8, SlotFacts, Areas
  <2>2. SlotOf(mid, j) = SlotOf(old, j)
    BY <1>4, <2>1 DEF SlotOf
  <2>3. j \notin SlotsOf(lba)
    BY <1>8 DEF SlotsOf
  <2> QED
    BY <1>1, <1>7, <2>2, <2>3
<1>9. at' \in [Inode -> Pointer] /\ at'[i] = lba
  BY <1>1, <1>2 DEF Pointer
<1> QED
  BY <1>1, <1>4, <1>7, <1>8, <1>9 DEF WroteAt
-----------------------------------------------------------------------------
\* The inode bitmap says which inodes are in use, and the counter follows.
InodesFit ==
    /\ \A i \in Inode : InodeMarked(i) <=> i \in in_use
    /\ (free_inodes + Cardinality(in_use)) % CounterModulus = InodesCnt % CounterModulus

\* A file's block is handed out, to that file alone.
DataFit ==
    /\ \A i \in in_use : at[i] \in Lba => at[i] \in owned
    /\ \A i, j \in in_use : at[i] = at[j] /\ at[i] \in Lba => i = j

\* No inode in use has file data in its block.
Apart == \A i \in in_use : SlotLba(i) \notin strays

\* The other inodes are as format or free_inode left them.
BlankSlot(i) ==
    /\ Slot(i) \subseteq Misplaced(i)
    /\ at[i] = NoLba \/ (at[i] = Neither /\ Misplaced(i) # {})

FreeBlank == \A i \in Inode \ in_use : SlotLba(i) \notin strays => BlankSlot(i)

\* The inductive invariant: the types, and before file data has lain in a block of an
\* inode in use the allocator's own invariant and what ties the inodes to it.
Clean == Alloc!IInv /\ InodesFit /\ DataFit /\ Apart /\ FreeBlank
InodeInv == TypeOKAll /\ (Unmixed => Clean)

\* What an operation on inode i does from there: to the allocator an operation of its
\* own or nothing, to the other inodes nothing unless file data gets into their block.
OthersKept(i) ==
    \A j \in Inode \ {i} : SlotLba(j) \notin strays' => Slot(j)' = Slot(j) /\ at'[j] = at[j]

DataKept(i) ==
    /\ \A j \in in_use \ {i} : at[j] \in owned => at[j] \in owned'
    /\ i \in in_use' /\ SlotLba(i) \notin strays' /\ at'[i] \in Lba
          => at'[i] \in owned' /\ \A j \in in_use \ {i} : at[j] # at'[i]

Step(i) ==
    /\ [Alloc!Next]_Alloc!vars /\ InodesFit' /\ OthersKept(i) /\ DataKept(i)
    /\ strays \subseteq strays' /\ in_use' \ {i} = in_use \ {i}
    /\ i \notin in_use' /\ SlotLba(i) \notin strays' => Slot(i)' = {} /\ at'[i] = NoLba

\* If i stays in use it is a write of i that changes its slot, or file data in it.
OwnWrite(i) ==
    \/ i \notin in_use \cap in_use' \/ SlotLba(i) \in strays'
    \/ UNCHANGED <<block, at>> \/ WriteData(i)

Stepped == \E i \in Inode : Step(i) /\ OwnWrite(i)

\* The allocator's LBAs are numbers, the other pointers are not.
LEMMA PointerFacts ==
    /\ Lba \subseteq Int /\ NoLba \notin Lba /\ Neither \notin Lba
    /\ TypeOKAll => block \in Disk /\ at \in [Inode -> Pointer] /\ owned \subseteq Lba
<1>1. Lba \subseteq Int
  BY AreaFacts DEF Lba
<1> QED
  BY <1>1, ResultAssumption, InodeAssumption DEF TypeOKAll, TypeOK, Disk

\* A counter stays within its width.
LEMMA CounterRange ==
    /\ CounterModulus \in Nat \ {0}
    /\ \A n \in Int : n % CounterModulus \in 0 .. CounterModulus - 1
    /\ TypeOKAll => free_blocks \in Int /\ free_inodes \in Int
<1>1. CounterModulus \in Nat \ {0}
  BY LayoutAssumption
<1> QED
  BY <1>1, DivisionRemainder DEF TypeOKAll, TypeOK

\* An operation is counted once file data shares a block with an inode in use.
LEMMA NotedFacts == TypeOKAll /\ Noted => mixed' \in 0 .. MaxMixed /\ (Unmixed' => Unmixed /\ Apart')
<1> SUFFICES ASSUME TypeOKAll, Noted
             PROVE  mixed' \in 0 .. MaxMixed /\ (Unmixed' => Unmixed /\ Apart')
  OBVIOUS
<1>1. /\ mixed \in Nat /\ MaxMixed \in Nat /\ mixed < MaxMixed
      /\ mixed' = IF Unmixed /\ \A i \in in_use' : SlotLba(i) \notin strays' THEN 0 ELSE mixed + 1
  BY InodeAssumption DEF TypeOKAll, Noted
<1>2. mixed' \in 0 .. MaxMixed
  BY <1>1
<1>3. mixed' = 0 => Unmixed /\ \A i \in in_use' : SlotLba(i) \notin strays'
  BY <1>1
<1> QED
  BY <1>2, <1>3 DEF Unmixed, Apart

\* The types after a step that keeps them one by one.
LEMMA TypesNext ==
    ASSUME block' \in Disk, last_alloc_bitmap_blk_idx' \in BitmapIndex,
           free_blocks' \in 0 .. CounterModulus - 1, owned' \subseteq Lba,
           ret' \in Lba \cup {NoLba, Done}, free_inodes' \in 0 .. CounterModulus - 1,
           at' \in [Inode -> Pointer],
           Root \in in_use', in_use' \subseteq Inode, strays' \subseteq TableBlocks,
           mixed' \in 0 .. MaxMixed
    PROVE  TypeOKAll'
<1>1. TypeOK'
  BY DEF TypeOK, Disk
<1> QED
  BY <1>1 DEF TypeOKAll

\* The allocator does not take part in a step that leaves its bitmap and variables.
LEMMA AllocStutters ==
    ASSUME BitmapKept, UNCHANGED <<ret, last_alloc_bitmap_blk_idx, free_blocks, owned>>
    PROVE  UNCHANGED Alloc!vars
<1>1. Masked' = Masked
  BY DEF BitmapKept, BitmapArea, Masked
<1> QED
  BY <1>1 DEF Alloc!vars

\* Neither do the inodes in one that leaves theirs.
LEMMA InodesStay ==
    ASSUME InodesFit, InodeBitmapKept, UNCHANGED <<free_inodes, in_use>>
    PROVE  InodesFit'
<1>1. \A i \in Inode : InodeMarked(i)' <=> InodeMarked(i)
  BY ValidFacts DEF InodeBitmapKept, InodeMarked
<1> QED
  BY <1>1 DEF InodesFit

\* Inodes are finitely many.
LEMMA FiniteInUse == in_use \subseteq Inode => IsFiniteSet(in_use)
<1>1. IsFiniteSet(Inode)
  <2>1. InodeValidBlocks * BitsPerBlock - 1 \in Int
    BY AreaFacts
  <2> QED
    BY <2>1, FS_Interval, InodeAssumption DEF Inode
<1> QED
  BY <1>1, FS_Subset

\* allocate_inode: the allocator does not notice; the inode is a new one.
LEMMA AllocateInodeStep ==
    ASSUME TypeOKAll, NEW type \in FileType, AllocateInode(type)
    PROVE  TypeOKAll' /\ (Clean => Stepped)
<1>1. PICK i \in Inode :
         /\ FirstFree(i)
         /\ block' = WithSlot([block EXCEPT ![ValidLba(i)] = @ \cup {i % BitsPerBlock}],
                              i, Typed(i, Slot(i), type))
         /\ free_inodes' = (free_inodes - 1) % CounterModulus
         /\ in_use' = in_use \cup {i}
         /\ UNCHANGED <<ret, last_alloc_bitmap_blk_idx, free_blocks, owned, at, strays>>
         /\ Noted
  BY DEF AllocateInode
<1>2. /\ block' \in Disk /\ BitmapKept /\ SlotsKept(i)
      /\ \A j \in Inode : InodeMarked(j)' <=> InodeMarked(j) \/ j = i
  BY <1>1, PointerFacts, AllocateWrites
<1>3. TypeOKAll'
  <2>1. free_inodes' \in 0 .. CounterModulus - 1
    BY <1>1, CounterRange
  <2>2. mixed' \in 0 .. MaxMixed
    BY <1>1, NotedFacts
  <2> QED
    BY <1>1, <1>2, <2>1, <2>2, TypesNext DEF TypeOKAll, TypeOK
<1>4. ASSUME Clean
      PROVE  Stepped
  <2>1. i \notin in_use /\ in_use \subseteq Inode
    BY <1>1, <1>4 DEF Clean, InodesFit, FirstFree, TypeOKAll
  <2>2. InodesFit'
    <3>1. Cardinality(in_use') = Cardinality(in_use) + 1 /\ Cardinality(in_use) \in Nat
      BY <1>1, <2>1, FiniteInUse, FS_AddElement, FS_CardinalityType
    <3>2. PICK c \in Int : c = Cardinality(in_use) /\ c + 1 = Cardinality(in_use')
      BY <3>1
    <3>3. (((free_inodes - 1) % CounterModulus) + (c + 1)) % CounterModulus
              = (free_inodes + c) % CounterModulus
      BY CounterRange, CounterTake
    <3>4. (free_inodes' + Cardinality(in_use')) % CounterModulus = InodesCnt' % CounterModulus
      BY <1>1, <1>4, <3>2, <3>3 DEF Clean, InodesFit, InodesCnt
    <3>5. \A j \in Inode : InodeMarked(j)' <=> j \in in_use'
      BY <1>1, <1>2, <1>4 DEF Clean, InodesFit
    <3> QED
      BY <3>4, <3>5 DEF InodesFit
  <2>3. OthersKept(i)
    BY <1>1, <1>2 DEF OthersKept, SlotsKept
  <2>4. SlotLba(i) \notin strays' => at'[i] \notin Lba
    BY <1>1, <1>4, <2>1, PointerFacts DEF Clean, FreeBlank, BlankSlot
  <2>5. UNCHANGED Alloc!vars
    BY <1>1, <1>2, AllocStutters
  <2> QED
    BY <1>1, <2>1, <2>2, <2>3, <2>4, <2>5 DEF Stepped, Step, DataKept, OwnWrite
<1> QED
  BY <1>3, <1>4

\* A step that changes no block, no slot and nothing of the allocator.
LEMMA NothingStep ==
    ASSUME TypeOKAll, UNCHANGED <<block, at, in_use, strays, owned, free_inodes>>,
           [Alloc!Next]_Alloc!vars
    PROVE  Clean => Stepped
<1> SUFFICES ASSUME Clean PROVE Stepped
  OBVIOUS
<1>1. InodesFit'
  BY InodesStay DEF InodeBitmapKept, Clean
<1>2. OthersKept(Root)
  BY DEF OthersKept, Slot
<1>3. DataKept(Root)
  BY DEF DataKept, Clean, DataFit, TypeOKAll
<1> QED
  BY <1>1, <1>2, <1>3, ValidFacts DEF Step, Stepped, OwnWrite, TypeOKAll

\* allocate_inode without an inode left, and write_data without a block left or of an
\* inode of no storage type.
LEMMA RefusedStep ==
    ASSUME TypeOKAll, NEW i \in Inode, AllocateInodeRefused \/ WriteRefused(i) \/ WriteNothing(i)
    PROVE  TypeOKAll' /\ (Clean => Stepped) /\ UNCHANGED <<in_use, strays, mixed>>
<1>1. /\ UNCHANGED <<block, last_alloc_bitmap_blk_idx, free_blocks, owned, free_inodes, at, in_use, strays, mixed>>
      /\ ret' = ret \/ WriteRefused(i)
  BY DEF AllocateInodeRefused, WriteRefused, WriteNothing
<1>2. TypeOKAll'
  <2>1. ret' \in Lba \cup {NoLba, Done}
    BY <1>1 DEF WriteRefused, TypeOKAll, TypeOK
  <2> QED
    BY <1>1, <2>1, TypesNext DEF TypeOKAll, TypeOK, Disk
<1>3. ASSUME Clean
      PROVE  [Alloc!Next]_Alloc!vars
  <2>1. CASE ret' = ret
    BY <1>1, <2>1, AllocStutters DEF BitmapKept
  <2>2. CASE WriteRefused(i)
    <3>1. FromCursor \in SUBSET BitmapIndex /\ BeforeCursor \in SUBSET BitmapIndex
      BY SearchRanges DEF TypeOKAll
    <3>2. ~Alloc!HasClear(Alloc!FromCursor) /\ ~Alloc!HasClear(Alloc!BeforeCursor)
      BY <2>2, <3>1, SameBitmap, SameLayout DEF WriteRefused, Alloc!HasClear, HasClear
    <3>3. Masked' = Masked
      BY <1>1 DEF Masked
    <3> QED
      BY <1>1, <2>2, <3>2, <3>3 DEF WriteRefused, Alloc!AllocateRefused, Alloc!Next
  <2> QED
    BY <1>1, <2>1, <2>2
<1> QED
  BY <1>1, <1>2, <1>3, NothingStep

\* free_block, for the allocator alone.
LEMMA FreeInodeAlloc ==
    ASSUME TypeOKAll, NEW lba \in owned,
           \A l \in BitmapArea : block'[l] = Returned(block, lba)[l],
           free_blocks' = (free_blocks + 1) % CounterModulus,
           owned' = owned \ {lba}, ret' = Done, UNCHANGED last_alloc_bitmap_blk_idx
    PROVE  Alloc!Next
<1>1. lba \in Lba
  BY PointerFacts
<1> DEFINE place == BitmapStart + lba \div BitsPerBlock
<1>2. place \in BitmapArea
  BY <1>1, LbaParts, AreaFacts DEF BitmapArea, BitmapIndex
<1>3. Returned(block, lba) = [block EXCEPT ![place] = block[place] \ {lba % BitsPerBlock}]
  BY <1>1 DEF Returned
<1> HIDE DEF place
<1>4. Masked' = [Masked EXCEPT ![place] = Masked[place] \ {lba % BitsPerBlock}]
  <2>1. /\ Masked'[place] = Masked[place] \ {lba % BitsPerBlock}
        /\ \A l \in Metadata \ {place} : Masked'[l] = Masked[l]
    BY <1>2, <1>3, Areas, PointerFacts DEF Disk, Masked, BitmapArea
  <2>2. Masked' = [l \in Metadata |-> Masked'[l]] /\ DOMAIN Masked = Metadata
    BY DEF Masked
  <2> QED
    BY <1>2, <2>1, <2>2, Areas
<1>5. Alloc!FreeBlock(lba)
  BY <1>4, SameLayout DEF Alloc!FreeBlock, place
<1> QED
  BY <1>1, <1>5, SameLayout DEF Alloc!Next

\* free_inode: a free_block of the allocator, or nothing it notices.
LEMMA FreeInodeStep ==
    ASSUME TypeOKAll, NEW i \in Inode, FreeInode(i)
    PROVE  TypeOKAll' /\ (Clean => Stepped)
<1>1. /\ i \in in_use \ {Root}
      /\ block' = Returned(Wiped(i), at[i])
      /\ free_blocks' = IF at[i] \in Lba THEN (free_blocks + 1) % CounterModulus ELSE free_blocks
      /\ owned' = owned \ {at[i]}
      /\ ret' = IF at[i] \in Lba THEN Done ELSE ret
      /\ free_inodes' = (free_inodes + 1) % CounterModulus
      /\ at' = [at EXCEPT ![i] = NoLba]
      /\ in_use' = in_use \ {i}
      /\ UNCHANGED <<last_alloc_bitmap_blk_idx, strays>>
      /\ Noted
  BY DEF FreeInode
<1>2. /\ block' \in Disk /\ SlotsKept(i) /\ Slot(i)' = {}
      /\ \A l \in BitmapArea : block'[l] = Returned(block, at[i])[l]
      /\ \A j \in Inode : InodeMarked(j)' <=> InodeMarked(j) /\ j # i
  BY <1>1, FreeWrites, PointerFacts
<1>3. at' \in [Inode -> Pointer] /\ at'[i] = NoLba /\ \A j \in Inode \ {i} : at'[j] = at[j]
  BY <1>1, PointerFacts DEF Pointer
<1>4. TypeOKAll'
  <2>1. free_inodes' \in 0 .. CounterModulus - 1
    BY <1>1, CounterRange
  <2>2. free_blocks' \in 0 .. CounterModulus - 1
    BY <1>1, CounterRange DEF TypeOKAll, TypeOK
  <2>3. mixed' \in 0 .. MaxMixed
    BY <1>1, NotedFacts
  <2> QED
    BY <1>1, <1>2, <1>3, <2>1, <2>2, <2>3, TypesNext DEF TypeOKAll, TypeOK
<1>5. ASSUME Clean
      PROVE  Stepped
  <2>1. InodesFit'
    <3>1. Cardinality(in_use') = Cardinality(in_use) - 1 /\ Cardinality(in_use) \in Nat
      BY <1>1, FiniteInUse, FS_RemoveElement, FS_CardinalityType DEF TypeOKAll
    <3>2. PICK c \in Int : c = Cardinality(in_use) /\ c - 1 = Cardinality(in_use')
      BY <3>1
    <3>3. (((free_inodes + 1) % CounterModulus) + (c - 1)) % CounterModulus
              = (free_inodes + c) % CounterModulus
      BY CounterRange, CounterGiveBack
    <3>4. (free_inodes' + Cardinality(in_use')) % CounterModulus = InodesCnt' % CounterModulus
      BY <1>1, <1>5, <3>2, <3>3 DEF Clean, InodesFit, InodesCnt
    <3>5. \A j \in Inode : InodeMarked(j)' <=> j \in in_use'
      BY <1>1, <1>2, <1>5 DEF Clean, InodesFit
    <3> QED
      BY <3>4, <3>5 DEF InodesFit
  <2>2. OthersKept(i)
    BY <1>2, <1>3 DEF OthersKept, SlotsKept
  <2>3. \A j \in in_use \ {i} : at[j] \in owned => at[j] \in owned'
    BY <1>1, <1>5, PointerFacts DEF Clean, DataFit
  <2>4. [Alloc!Next]_Alloc!vars
    <3>1. CASE at[i] \notin Lba
      <4>1. BitmapKept
        BY <1>2, <3>1 DEF Returned, BitmapKept
      <4>2. owned' = owned /\ free_blocks' = free_blocks /\ ret' = ret
        BY <1>1, <3>1, PointerFacts
      <4> QED
        BY <1>1, <4>1, <4>2, AllocStutters
    <3>2. CASE at[i] \in Lba
      <4>1. at[i] \in owned
        BY <1>1, <1>5, <3>2 DEF Clean, DataFit
      <4>2. PICK lba \in owned : lba = at[i]
        BY <4>1
      <4> QED
        BY <1>1, <1>2, <3>2, <4>2, FreeInodeAlloc
    <3> QED
      BY <3>1, <3>2
  <2>5. DataKept(i)
    BY <1>1, <2>3 DEF DataKept
  <2> QED
    BY <1>1, <1>2, <1>3, <2>1, <2>2, <2>4, <2>5 DEF Stepped, Step, OwnWrite
<1> QED
  BY <1>4, <1>5

\* write_data inside the inode: nothing the allocator notices.
LEMMA WriteInlineStep ==
    ASSUME TypeOKAll, NEW i \in Inode, WriteInline(i)
    PROVE  TypeOKAll' /\ (Clean => Stepped)
<1>1. /\ i \in in_use /\ at[i] = NoLba
      /\ block' = WithSlot(block, i, Slot(i) \cup Filled(i))
      /\ UNCHANGED <<ret, last_alloc_bitmap_blk_idx, free_blocks, owned, free_inodes, at, in_use, strays>>
      /\ Noted
  BY DEF WriteInline
<1>2. block' \in Disk /\ BitmapKept /\ InodeBitmapKept /\ SlotsKept(i)
  BY <1>1, InlineWrites, PointerFacts
<1>3. TypeOKAll'
  <2>1. mixed' \in 0 .. MaxMixed
    BY <1>1, NotedFacts
  <2> QED
    BY <1>1, <1>2, <2>1, TypesNext DEF TypeOKAll, TypeOK
<1>4. ASSUME Clean
      PROVE  Stepped
  <2>1. InodesFit' /\ UNCHANGED Alloc!vars
    BY <1>1, <1>2, <1>4, AllocStutters, InodesStay DEF Clean
  <2>2. OthersKept(i) /\ DataKept(i)
    BY <1>1, <1>2, PointerFacts DEF OthersKept, SlotsKept, DataKept
  <2> QED
    BY <1>1, <2>1, <2>2 DEF Step, Stepped, OwnWrite, WriteData
<1> QED
  BY <1>3, <1>4

\* What allocate_block finds is clear, so it is neither reserved nor handed out.
LEMMA FoundFree ==
    ASSUME TypeOKAll, NEW k \in BitmapIndex, NEW b \in Bit, Found(k, b)
    PROVE  /\ k * BitsPerBlock + b \in Lba
           /\ Clean => k * BitsPerBlock + b \notin Reserved \cup owned
<1>1. /\ k * BitsPerBlock + b \in Lba
      /\ (k * BitsPerBlock + b) \div BitsPerBlock = k
      /\ (k * BitsPerBlock + b) % BitsPerBlock = b
  BY PartsLba
<1>2. ~Marked(k * BitsPerBlock + b)
  BY <1>1 DEF Found, FirstClear, Marked
<1>3. Clean => \A lba \in Lba : Marked(lba) <=> lba \in Reserved \cup owned
  BY AllocFacts, PointerFacts DEF Clean
<1> QED
  BY <1>1, <1>2, <1>3

\* The allocator by itself would take it.
LEMMA MovedAlloc ==
    ASSUME TypeOKAll, NEW k \in BitmapIndex, NEW b \in Bit, Found(k, b),
           block'[BitmapStart + k] = block[BitmapStart + k] \cup {b},
           \A l \in BitmapArea \ {BitmapStart + k} : block'[l] = block[l],
           free_blocks' = (free_blocks - 1) % CounterModulus, last_alloc_bitmap_blk_idx' = k,
           owned' = owned \cup {k * BitsPerBlock + b}, ret' = k * BitsPerBlock + b
    PROVE  Alloc!Next
<1>1. FromCursor \in SUBSET BitmapIndex /\ BeforeCursor \in SUBSET BitmapIndex
  BY SearchRanges DEF TypeOKAll
<1>2. b \notin Bitmap(k)
  BY DEF Found, FirstClear
<1>3. Masked' = [Masked EXCEPT ![BitmapStart + k] = Masked[BitmapStart + k] \cup {b}]
  <2> DEFINE place == BitmapStart + k
  <2>1. place \in BitmapArea
    BY AreaFacts DEF BitmapArea, BitmapIndex
  <2>2. block'[place] = block[place] \cup {b} /\ \A l \in BitmapArea \ {place} : block'[l] = block[l]
    OBVIOUS
  <2> HIDE DEF place
  <2>3. /\ Masked'[place] = Masked[place] \cup {b}
        /\ \A l \in Metadata \ {place} : Masked'[l] = Masked[l]
    BY <2>1, <2>2, Areas DEF Masked, BitmapArea
  <2>4. Masked' = [l \in Metadata |-> Masked'[l]] /\ DOMAIN Masked = Metadata
    BY DEF Masked
  <2>5. Masked' = [Masked EXCEPT ![place] = Masked[place] \cup {b}]
    BY <2>1, <2>3, <2>4, Areas
  <2> QED
    BY <2>5 DEF place
<1>4. ASSUME NEW range \in SUBSET BitmapIndex, k \in range, FirstClear(range, k, b)
      PROVE  Alloc!Take(range)
  <2>1. Alloc!FirstClear(range, k, b)
    BY <1>4, SameBitmap, SameLayout DEF Alloc!FirstClear, FirstClear
  <2> QED
    BY <1>3, <1>4, <2>1, SameLayout DEF Alloc!Take
<1>5. \A range \in SUBSET BitmapIndex : Alloc!HasClear(range) <=> HasClear(range)
  BY SameBitmap, SameLayout DEF Alloc!HasClear, HasClear
<1>6. CASE HasClear(FromCursor)
  <2>1. k \in FromCursor /\ FirstClear(FromCursor, k, b)
    BY <1>6 DEF Found
  <2>2. Alloc!AllocateFromCursor
    BY <1>1, <1>4, <1>5, <1>6, <2>1, SameLayout DEF Alloc!AllocateFromCursor
  <2> QED
    BY <2>2 DEF Alloc!Next
<1>7. CASE ~HasClear(FromCursor)
  <2>1. k \in BeforeCursor /\ FirstClear(BeforeCursor, k, b)
    BY <1>7 DEF Found
  <2>2. HasClear(BeforeCursor)
    BY <1>2, <2>1 DEF HasClear
  <2>3. Alloc!AllocateWrapped
    BY <1>1, <1>4, <1>5, <1>7, <2>1, <2>2, SameLayout DEF Alloc!AllocateWrapped
  <2> QED
    BY <2>3 DEF Alloc!Next
<1> QED
  BY <1>6, <1>7

\* A write into a block that is not reserved stays out of both bitmaps and out of the
\* slots of other blocks.
LEMMA WroteKept ==
    ASSUME NEW old \in Disk, NEW lba \in Lba \ Reserved, NEW i \in Inode, WroteAt(old, lba, i),
           \A j \in Inode : SlotOf(old, j) = SlotOf(block, j)
    PROVE  /\ \A l \in 0 .. InodeStart - 1 : block'[l] = old[l]
           /\ OthersKept(i) /\ strays \subseteq strays'
<1>1. \A l \in 0 .. InodeStart - 1 : block'[l] = old[l]
  BY AreaFacts DEF TableBlocks, WroteAt
<1>2. ASSUME NEW j \in Inode \ {i}, SlotLba(j) \notin strays'
      PROVE  Slot(j)' = Slot(j) /\ at'[j] = at[j]
  <2>1. SlotLba(j) # lba
    BY <1>2, SlotFacts DEF WroteAt
  <2>2. SlotOf(block', j) = SlotOf(block, j) /\ at'[j] = at[j]
    BY <2>1 DEF WroteAt
  <2> QED
    BY <2>2 DEF Slot, SlotOf
<1> QED
  BY <1>1, <1>2 DEF OthersKept, WroteAt

\* write_data out of the inode: an allocate_block of the allocator.
LEMMA WriteMovedStep ==
    ASSUME TypeOKAll, NEW i \in Inode, WriteMoved(i)
    PROVE  TypeOKAll' /\ (Clean => Stepped)
<1>1. PICK k \in BitmapIndex, b \in Bit :
         /\ i \in in_use /\ at[i] = NoLba
         /\ Found(k, b)
         /\ WriteAt([block EXCEPT ![BitmapStart + k] = @ \cup {b}], k * BitsPerBlock + b, i)
         /\ free_blocks' = (free_blocks - 1) % CounterModulus
         /\ last_alloc_bitmap_blk_idx' = k
         /\ owned' = owned \cup {k * BitsPerBlock + b}
         /\ ret' = k * BitsPerBlock + b
         /\ UNCHANGED <<free_inodes, in_use>>
         /\ Noted
  BY DEF WriteMoved
<1>2. PICK lba \in Lba : lba = k * BitsPerBlock + b
  BY <1>1, FoundFree
<1>3. PICK place \in BitmapArea : place = BitmapStart + k
  BY AreaFacts DEF BitmapArea, BitmapIndex
<1>4. PICK bits \in SUBSET Bit : bits = block[place] \cup {b}
  BY Areas, PointerFacts DEF Disk
<1>5. PICK old : old = With(block, place, bits)
  OBVIOUS
<1>6. /\ old \in Disk /\ old[place] = bits
      /\ \A l \in Metadata \ {place} : old[l] = block[l]
      /\ \A j \in Inode : SlotOf(old, j) = SlotOf(block, j)
  BY <1>5, BlockWritten, Areas, PointerFacts
<1>7. old = [block EXCEPT ![BitmapStart + k] = @ \cup {b}]
  BY <1>3, <1>4, <1>5 DEF With
<1>8. WroteAt(old, lba, i)
  BY <1>1, <1>2, <1>6, <1>7, WriteAtFacts, PointerFacts
<1>9. TypeOKAll'
  <2>1. mixed' \in 0 .. MaxMixed
    BY <1>1, NotedFacts
  <2>2. free_blocks' \in 0 .. CounterModulus - 1
    BY <1>1, CounterRange
  <2>3. strays' \subseteq TableBlocks
    BY <1>8 DEF WroteAt, TypeOKAll
  <2>4. block' \in Disk /\ at' \in [Inode -> Pointer]
    BY <1>8 DEF WroteAt
  <2>5. owned' \subseteq Lba /\ ret' \in Lba \cup {NoLba, Done}
    BY <1>1, <1>2, PointerFacts
  <2> QED
    BY <1>1, <2>1, <2>2, <2>3, <2>4, <2>5, TypesNext DEF TypeOKAll, TypeOK
<1>10. ASSUME Clean
       PROVE  Stepped
  <2>1. lba \in Lba \ Reserved /\ lba \notin owned
    BY <1>1, <1>2, <1>10, FoundFree
  <2>2. /\ \A l \in 0 .. InodeStart - 1 : block'[l] = old[l]
        /\ OthersKept(i) /\ strays \subseteq strays'
    BY <1>6, <1>8, <2>1, WroteKept
  <2>3. \A l \in BitmapArea \cup ValidStart .. InodeStart - 1 : l \in 0 .. InodeStart - 1 /\ l \in Metadata
    BY AreaFacts DEF BitmapArea
  <2>4. /\ block'[BitmapStart + k] = block[BitmapStart + k] \cup {b}
        /\ \A l \in BitmapArea \ {BitmapStart + k} : block'[l] = block[l]
    BY <1>3, <1>4, <1>6, <2>2, <2>3
  <2>5. InodeBitmapKept
    BY <1>6, <2>2, <2>3, Areas DEF InodeBitmapKept
  <2>6. Alloc!Next
    BY <1>1, <2>4, MovedAlloc
  <2>7. InodesFit'
    BY <1>1, <1>10, <2>5, InodesStay DEF Clean
  <2>8. DataKept(i)
    <3>1. at'[i] = lba /\ owned' = owned \cup {lba}
      BY <1>1, <1>2, <1>8 DEF WroteAt
    <3>2. \A j \in in_use : at[j] # lba
      BY <1>10, <2>1 DEF Clean, DataFit
    <3> QED
      BY <3>1, <3>2 DEF DataKept
  <2> QED
    BY <1>1, <2>2, <2>6, <2>7, <2>8 DEF Step, Stepped, OwnWrite, WriteData
<1> QED
  BY <1>9, <1>10

\* write_data into a block the file has: nothing the allocator notices.
LEMMA WriteBlockStep ==
    ASSUME TypeOKAll, NEW i \in Inode, WriteBlock(i)
    PROVE  TypeOKAll' /\ (Clean => Stepped)
<1>1. /\ i \in in_use /\ at[i] \in Lba
      /\ WriteAt(block, at[i], i)
      /\ UNCHANGED <<ret, last_alloc_bitmap_blk_idx, free_blocks, owned, free_inodes, in_use>>
      /\ Noted
  BY DEF WriteBlock
<1>2. PICK lba \in Lba : lba = at[i]
  BY <1>1
<1>3. WroteAt(block, lba, i)
  BY <1>1, <1>2, WriteAtFacts, PointerFacts
<1>4. TypeOKAll'
  <2>1. mixed' \in 0 .. MaxMixed
    BY <1>1, NotedFacts
  <2>2. strays' \subseteq TableBlocks
    BY <1>3 DEF WroteAt, TypeOKAll
  <2>3. block' \in Disk /\ at' \in [Inode -> Pointer]
    BY <1>3 DEF WroteAt
  <2> QED
    BY <1>1, <2>1, <2>2, <2>3, TypesNext DEF TypeOKAll, TypeOK
<1>5. ASSUME Clean
      PROVE  Stepped
  <2>1. lba \in owned /\ lba \in Lba \ Reserved
    BY <1>1, <1>2, <1>5, AllocFacts, PointerFacts DEF Clean, DataFit
  <2>2. /\ \A l \in 0 .. InodeStart - 1 : block'[l] = block[l]
        /\ OthersKept(i) /\ strays \subseteq strays'
    BY <1>3, <2>1, WroteKept, PointerFacts
  <2>3. BitmapKept /\ InodeBitmapKept
    BY <2>2, AreaFacts DEF BitmapKept, InodeBitmapKept, BitmapArea
  <2>4. InodesFit' /\ UNCHANGED Alloc!vars
    BY <1>1, <1>5, <2>3, AllocStutters, InodesStay DEF Clean
  <2>5. DataKept(i)
    <3>1. at'[i] = at[i] /\ owned' = owned
      BY <1>1, <1>2, <1>3 DEF WroteAt
    <3> QED
      BY <1>1, <1>2, <1>5, <2>1, <3>1 DEF DataKept, Clean, DataFit
  <2> QED
    BY <1>1, <2>2, <2>4, <2>5 DEF Step, Stepped, OwnWrite, WriteData
<1> QED
  BY <1>4, <1>5

\* A cached copy of an inode that file data lie over is dropped.
LEMMA CopyDroppedStep ==
    ASSUME TypeOKAll, NEW i \in Inode, CopyDropped(i)
    PROVE  TypeOKAll' /\ (Clean => Stepped)
<1>1. PICK data \in Contents :
         /\ SlotLba(i) \in strays
         /\ block' = WithSlot(block, i, data.bits \cap SlotBits(i))
         /\ at' = [at EXCEPT ![i] = data.says]
         /\ UNCHANGED <<ret, last_alloc_bitmap_blk_idx, free_blocks, owned, free_inodes, in_use, strays>>
         /\ Noted
  BY DEF CopyDropped
<1>2. PICK slot : slot = data.bits \cap SlotBits(i) /\ slot \subseteq SlotBits(i)
  OBVIOUS
<1>3. /\ block' \in Disk
      /\ \A lba \in Metadata \ TableBlocks : block'[lba] = block[lba]
      /\ \A j \in Inode \ {i} : SlotOf(block', j) = SlotOf(block, j)
  BY <1>1, <1>2, SlotWritten, PointerFacts
<1>4. at' \in [Inode -> Pointer] /\ \A j \in Inode \ {i} : at'[j] = at[j]
  BY <1>1, InodeAssumption, PointerFacts
<1>5. TypeOKAll'
  <2>1. mixed' \in 0 .. MaxMixed
    BY <1>1, NotedFacts
  <2> QED
    BY <1>1, <1>3, <1>4, <2>1, TypesNext DEF TypeOKAll, TypeOK
<1>6. ASSUME Clean
      PROVE  Stepped
  <2>1. BitmapKept /\ InodeBitmapKept
    BY <1>3, Areas DEF BitmapKept, InodeBitmapKept
  <2>2. InodesFit' /\ UNCHANGED Alloc!vars
    BY <1>1, <1>6, <2>1, AllocStutters, InodesStay DEF Clean
  <2>3. OthersKept(i) /\ DataKept(i)
    BY <1>1, <1>3, <1>4 DEF OthersKept, DataKept, Slot, SlotOf
  <2> QED
    BY <1>1, <2>2, <2>3 DEF Step, Stepped, OwnWrite
<1> QED
  BY <1>5, <1>6

\* For the allocator alone a formatted disk is one with a fresh bitmap.
LEMMA FormattedAlone == InitAll => Alloc!Init
<1> SUFFICES ASSUME InitAll PROVE Alloc!Init
  OBVIOUS
<1>1. \A lba \in Metadata : Masked[lba] = ResetBitmap(ClearedDisk)[lba]
  BY FormattedFacts DEF InitAll, Masked, BitmapArea, FormattedMetadata
<1>2. Masked = [lba \in Metadata |-> Masked[lba]]
  BY DEF Masked
<1>3. ResetBitmap(ClearedDisk) = [lba \in Metadata |-> ResetBitmap(ClearedDisk)[lba]]
  BY DEF ResetBitmap
<1>4. Masked = ResetBitmap(ClearedDisk)
  BY <1>1, <1>2, <1>3
<1> QED
  BY <1>4, SameReset, SameLayout DEF InitAll, Alloc!Init

\* A freshly formatted disk, at the start and after format.
LEMMA FormattedInv == InitAll => InodeInv
<1> SUFFICES ASSUME InitAll PROVE InodeInv
  OBVIOUS
<1>1. block = FormattedDisk /\ block \in Disk
  BY FormattedFacts DEF InitAll
<1>2. Alloc!IInv
  BY FormattedAlone, AllocInit
<1>3. TypeOK
  BY <1>1, <1>2, AllocFacts
<1>4. /\ InodesCnt \in Nat /\ InodesCnt >= 1 /\ InodesCnt <= CounterModulus
      /\ CounterModulus \in Nat /\ MaxMixed \in Nat
  <2>1. InodesPerBlock \in Nat \ {0} /\ InodeBlocks \in Nat \ {0}
    BY AreaFacts, InodeAssumption
  <2>2. InodesPerBlock * InodeBlocks >= 1 * InodeBlocks
    BY <2>1
  <2> QED
    BY <2>1, <2>2, InodeAssumption, LayoutAssumption DEF InodesCnt
<1>5. /\ free_inodes = InodesCnt - 1 /\ in_use = {Root} /\ strays = {} /\ mixed = 0
      /\ at \in [Inode -> {NoLba, Neither}]
      /\ \A i \in Inode : at[i] = Neither => Misplaced(i) # {}
  BY DEF InitAll, FormattedAt
<1>6. TypeOKAll
  <2>1. free_inodes \in 0 .. CounterModulus - 1 /\ mixed \in 0 .. MaxMixed
    BY <1>4, <1>5
  <2>2. at \in [Inode -> Pointer]
    BY <1>5 DEF Pointer
  <2> QED
    BY <1>3, <1>5, <2>1, <2>2, ValidFacts DEF TypeOKAll
<1>7. InodesFit
  <2>1. Cardinality(in_use) = 1
    BY <1>5, FS_Singleton
  <2>2. free_inodes + Cardinality(in_use) = InodesCnt
    BY <1>4, <1>5, <2>1
  <2>3. \A i \in Inode : InodeMarked(i) <=> i \in in_use
    BY <1>1, <1>5, FormattedFacts DEF InodeMarked
  <2> QED
    BY <2>2, <2>3 DEF InodesFit
<1>8. DataFit
  BY <1>5, ValidFacts, PointerFacts DEF DataFit
<1>9. Apart
  BY <1>5 DEF Apart
<1>10. FreeBlank
  BY <1>1, <1>5, FormattedFacts DEF FreeBlank, BlankSlot, Slot, SlotOf
<1> QED
  BY <1>2, <1>6, <1>7, <1>8, <1>9, <1>10 DEF InodeInv, Clean

\* format is the allocator's.
LEMMA FormatAllStep == FormatAll => InodeInv' /\ Unmixed' /\ Alloc!Next
<1> SUFFICES ASSUME FormatAll PROVE InodeInv' /\ Unmixed' /\ Alloc!Next
  OBVIOUS
<1>1. InitAll'
  BY DEF FormatAll, InitAll
<1>2. InitAll' => InodeInv'
  BY FormattedInv, PTL
<1>3. Masked' = FormattedMetadata
  <2>1. \A lba \in BitmapArea : block'[lba] = FormattedMetadata[lba]
    BY FormattedFacts DEF FormatAll, FormattedMetadata
  <2>2. Masked' = [lba \in Metadata |-> FormattedMetadata[lba]]
    BY <2>1 DEF Masked, BitmapArea
  <2>3. FormattedMetadata = [lba \in Metadata |-> FormattedMetadata[lba]]
    BY DEF FormattedMetadata, ResetBitmap
  <2> QED
    BY <2>2, <2>3
<1>4. Alloc!Format
  BY <1>3, SameReset, SameLayout DEF FormatAll, Alloc!Format, FormattedMetadata
<1> QED
  BY <1>1, <1>2, <1>4 DEF Alloc!Next, FormatAll, Unmixed

\* Every step but format is that of one inode, keeps the types, and does not end what
\* has been noted.
LEMMA OperationStep ==
    ASSUME TypeOKAll, [NextAll]_allVars, ~FormatAll
    PROVE  TypeOKAll' /\ (Clean => Stepped) /\ (Unmixed' => Unmixed /\ (Clean => Apart'))
<1>1. CASE UNCHANGED allVars
  <2>1. UNCHANGED <<block, at, in_use, strays, owned, free_inodes>> /\ UNCHANGED Alloc!vars
    BY <1>1, AllocStutters DEF allVars, BitmapKept
  <2>2. TypeOKAll'
    BY <1>1, TypesNext DEF allVars, TypeOKAll, TypeOK, Disk
  <2> QED
    BY <1>1, <2>1, <2>2, NothingStep DEF allVars, Unmixed, Clean, Apart
<1>2. ASSUME AllocateInodeRefused \/ \E i \in Inode : WriteRefused(i) \/ WriteNothing(i)
      PROVE  /\ TypeOKAll' /\ (Clean => Stepped) /\ UNCHANGED <<in_use, strays, mixed>>
  BY <1>2, RefusedStep, ValidFacts
<1>3. ASSUME \/ \E type \in FileType : AllocateInode(type)
             \/ \E i \in Inode : \/ FreeInode(i) \/ CopyDropped(i)
                                 \/ WriteInline(i) \/ WriteMoved(i) \/ WriteBlock(i)
      PROVE  TypeOKAll' /\ (Clean => Stepped) /\ Noted
  <2>1. CASE \E type \in FileType : AllocateInode(type)
    BY <2>1, AllocateInodeStep DEF AllocateInode
  <2>2. CASE \E i \in Inode : FreeInode(i)
    BY <2>2, FreeInodeStep DEF FreeInode
  <2>3. CASE \E i \in Inode : CopyDropped(i)
    BY <2>3, CopyDroppedStep DEF CopyDropped
  <2>4. CASE \E i \in Inode : WriteInline(i)
    BY <2>4, WriteInlineStep DEF WriteInline
  <2>5. CASE \E i \in Inode : WriteMoved(i)
    BY <2>5, WriteMovedStep DEF WriteMoved
  <2>6. CASE \E i \in Inode : WriteBlock(i)
    BY <2>6, WriteBlockStep DEF WriteBlock
  <2> QED
    BY <1>3, <2>1, <2>2, <2>3, <2>4, <2>5, <2>6
<1>4. UNCHANGED <<in_use, strays, mixed>> => (Unmixed' => Unmixed /\ (Clean => Apart'))
  BY DEF Unmixed, Clean, Apart
<1> QED
  BY <1>1, <1>2, <1>3, <1>4, NotedFacts DEF NextAll, WriteData

\* What a step on one inode leaves of the invariant while file data stays apart.
LEMMA StepKeeps ==
    ASSUME TypeOKAll, Clean, Apart', NEW i \in Inode, Step(i)
    PROVE  Clean'
<1>1. Alloc!IInv'
  BY AllocNext DEF Clean, Step
<1>2. in_use \subseteq Inode /\ in_use' \ {i} = in_use \ {i} /\ strays \subseteq strays'
  BY DEF TypeOKAll, Step
<1>3. \A j \in in_use' : SlotLba(j) \notin strays'
  BY DEF Apart
<1>4. \A j \in in_use' \ {i} : j \in in_use /\ at'[j] = at[j]
  BY <1>2, <1>3 DEF Step, OthersKept
<1>5. i \in in_use' /\ at'[i] \in Lba => at'[i] \in owned' /\ \A j \in in_use \ {i} : at[j] # at'[i]
  BY <1>3 DEF Step, DataKept
<1>6. \A j \in in_use' : at'[j] \in Lba => at'[j] \in owned'
  BY <1>2, <1>4, <1>5 DEF Step, DataKept, Clean, DataFit
<1>7. \A j, k \in in_use' : at'[j] = at'[k] /\ at'[j] \in Lba => j = k
  BY <1>2, <1>4, <1>5 DEF Clean, DataFit
<1>8. ASSUME NEW j \in Inode \ in_use', SlotLba(j) \notin strays'
      PROVE  BlankSlot(j)'
  <2>1. CASE j = i
    BY <1>8, <2>1 DEF Step, BlankSlot
  <2>2. CASE j # i
    <3>1. j \in Inode \ in_use /\ SlotLba(j) \notin strays
      BY <1>2, <1>8, <2>2
    <3>2. BlankSlot(j) /\ Slot(j)' = Slot(j) /\ at'[j] = at[j]
      BY <1>8, <2>2, <3>1 DEF Clean, FreeBlank, Step, OthersKept
    <3> QED
      BY <3>2 DEF BlankSlot
  <2> QED
    BY <2>1, <2>2
<1> QED
  BY <1>1, <1>6, <1>7, <1>8 DEF Clean, DataFit, FreeBlank, Step

\* No step leaves the invariant.
LEMMA NextAllKeeps == InodeInv /\ [NextAll]_allVars => InodeInv'
<1> SUFFICES ASSUME InodeInv, [NextAll]_allVars PROVE InodeInv'
  OBVIOUS
<1>1. CASE FormatAll
  BY <1>1, FormatAllStep
<1>2. CASE ~FormatAll
  <2>1. TypeOKAll' /\ (Clean => Stepped) /\ (Unmixed' => Unmixed /\ (Clean => Apart'))
    BY <1>2, OperationStep DEF InodeInv
  <2>2. Unmixed' => Clean'
    BY <2>1, StepKeeps DEF InodeInv, Stepped
  <2> QED
    BY <2>1, <2>2 DEF InodeInv
<1> QED
  BY <1>1, <1>2

\* Every state of the two bitmaps and the table satisfies the inductive invariant.
THEOREM InodeInvariance == SpecAll => []InodeInv
<1>1. InitAll => InodeInv
  BY FormattedInv
<1>2. InodeInv /\ [NextAll]_allVars => InodeInv'
  BY NextAllKeeps
<1> QED
  BY <1>1, <1>2, PTL DEF SpecAll

\* Whatever the program reads from a slot, the types are kept; and until file data has
\* lain in a block of an inode in use, the inode bitmap and df's counter record exactly
\* the inodes in use.
THEOREM InodeBitmapCorrect == SpecAll => []InodeBitmapTracksUse
<1>1. InodeInv => InodeBitmapTracksUse
  BY DEF InodeInv, Clean, InodesFit, InodeBitmapTracksUse
<1> QED
  BY <1>1, InodeInvariance, PTL

\* The allocator of the proofs is the one of the refinement.
LEMMA SameAllocator ==
    /\ Alloc!Init => Alone!Init
    /\ [Alloc!Next]_Alloc!vars => [Alone!Next]_Alone!vars
<1>1. Alloc!Init => Alone!Init
  BY DEF Alloc!Init, Alone!Init, Masked, Alloc!ResetBitmap, Alone!ResetBitmap,
         Alloc!ClearedDisk, Alone!ClearedDisk, Alloc!Metadata, Alone!Metadata,
         Alloc!Bit, Alone!Bit, Alloc!BasicBlocks, Alone!BasicBlocks,
         Alloc!BitmapBlocks, Alone!BitmapBlocks, Alloc!BitmapStart, Alone!BitmapStart,
         Alloc!FullBitmapBlocks, Alone!FullBitmapBlocks, Alloc!InodeStart, Alone!InodeStart,
         Alloc!RemainingBlocks, Alone!RemainingBlocks
<1>2. [Alloc!Next]_Alloc!vars => [Alone!Next]_Alone!vars
  BY DEF Alloc!Next, Alone!Next, Alloc!vars, Alone!vars, Masked,
         Alloc!ResetBitmap, Alone!ResetBitmap,
         Alloc!ClearedDisk, Alone!ClearedDisk, Alloc!Metadata, Alone!Metadata,
         Alloc!Bit, Alone!Bit, Alloc!BasicBlocks, Alone!BasicBlocks,
         Alloc!BitmapBlocks, Alone!BitmapBlocks, Alloc!BitmapStart, Alone!BitmapStart,
         Alloc!FullBitmapBlocks, Alone!FullBitmapBlocks, Alloc!InodeStart, Alone!InodeStart,
         Alloc!RemainingBlocks, Alone!RemainingBlocks,
         Alloc!AllocateFromCursor, Alone!AllocateFromCursor,
         Alloc!AllocateWrapped, Alone!AllocateWrapped,
         Alloc!AllocateRefused, Alone!AllocateRefused,
         Alloc!FreeBlock, Alone!FreeBlock, Alloc!Format, Alone!Format,
         Alloc!Take, Alone!Take, Alloc!HasClear, Alone!HasClear,
         Alloc!FirstClear, Alone!FirstClear, Alloc!Bitmap, Alone!Bitmap,
         Alloc!FromCursor, Alone!FromCursor, Alloc!BeforeCursor, Alone!BeforeCursor,
         Alloc!Lba, Alone!Lba
<1> QED
  BY <1>1, <1>2

\* The steps before file data gets into a block of an inode in use, the one that puts it
\* there, and the format that takes it away are steps of the allocator alone.
AloneStep == (~Unmixed /\ ~Unmixed') \/ [Alone!Next]_Alone!vars

\* Till then, and by the step that ends it, the allocator does what BlockAllocator does,
\* and gives back nothing that it has not handed out.
THEOREM AllocatorImplemented == SpecAll => ImplementsAllocator
<1>1. InitAll => Alone!Init
  BY FormattedAlone, SameAllocator
<1>2. InodeInv /\ [NextAll]_allVars => AloneStep
  <2> SUFFICES ASSUME InodeInv, [NextAll]_allVars PROVE AloneStep
    OBVIOUS
  <2>1. CASE FormatAll
    BY <2>1, FormatAllStep, SameAllocator DEF AloneStep
  <2>2. CASE ~FormatAll
    <3>1. (Clean => Stepped) /\ (Unmixed' => Unmixed)
      BY <2>2, OperationStep DEF InodeInv
    <3>2. Unmixed => [Alloc!Next]_Alloc!vars
      BY <3>1 DEF InodeInv, Stepped, Step
    <3> QED
      BY <3>1, <3>2, SameAllocator DEF AloneStep
  <2> QED
    BY <2>1, <2>2
<1> QED
  BY <1>1, <1>2, InodeInvariance, PTL DEF SpecAll, ImplementsAllocator, AloneStep
-----------------------------------------------------------------------------
\* What HandedOutBlank and InodesKept say of a step.
NewBlank == Unmixed' => \A i \in in_use' \ in_use :
    /\ Slot(i) \subseteq Misplaced(i)
    /\ at[i] = NoLba \/ (at[i] = Neither /\ Misplaced(i) # {})

UsedKept == Unmixed' => \A i \in in_use \cap in_use' : Slot(i)' # Slot(i) \/ at'[i] # at[i] => WriteData(i) \/ FormatAll

\* Every step does as they say.
LEMMA SlotsStep == InodeInv /\ [NextAll]_allVars => NewBlank /\ UsedKept
<1> SUFFICES ASSUME InodeInv, [NextAll]_allVars, Unmixed'
             PROVE  NewBlank /\ UsedKept
  BY DEF NewBlank, UsedKept
<1>1. CASE FormatAll
  <2>1. in_use' = {Root} /\ Root \in in_use
    BY <1>1 DEF FormatAll, InodeInv, TypeOKAll
  <2> QED
    BY <1>1, <2>1 DEF NewBlank, UsedKept
<1>2. CASE ~FormatAll
  <2>1. Clean /\ Stepped /\ Apart'
    BY <1>2, OperationStep DEF InodeInv
  <2>2. PICK i \in Inode : Step(i) /\ OwnWrite(i)
    BY <2>1 DEF Stepped
  <2>3. /\ in_use' \subseteq Inode /\ in_use' \ {i} = in_use \ {i} /\ strays \subseteq strays'
        /\ \A j \in in_use' : SlotLba(j) \notin strays'
    <3>1. TypeOKAll'
      BY <1>2, OperationStep DEF InodeInv
    <3> QED
      BY <2>1, <2>2, <3>1 DEF Step, Apart, TypeOKAll
  <2>4. \A j \in in_use' \ in_use : BlankSlot(j)
    BY <2>1, <2>3 DEF Clean, FreeBlank
  <2>5. \A j \in in_use \cap in_use' : Slot(j)' # Slot(j) \/ at'[j] # at[j] => WriteData(j)
    <3>1. ASSUME NEW j \in in_use \cap in_use', j # i
          PROVE  Slot(j)' = Slot(j) /\ at'[j] = at[j]
      BY <2>2, <2>3, <3>1 DEF Step, OthersKept
    <3>2. i \in in_use \cap in_use' => (Slot(i)' = Slot(i) /\ at'[i] = at[i]) \/ WriteData(i)
      BY <2>2, <2>3 DEF OwnWrite, Slot
    <3> QED
      BY <3>1, <3>2
  <2> QED
    BY <2>4, <2>5 DEF NewBlank, UsedKept, BlankSlot
<1> QED
  BY <1>1, <1>2

\* On every layout, until file data has lain in a block of an inode in use,
\* allocate_inode hands out inodes that are blank but for reset_bitmap's misplaced bits ...
THEOREM HandedOutCorrect == SpecAll => HandedOutBlank
<1>1. InodeInv /\ [NextAll]_allVars => [NewBlank]_allVars
  BY SlotsStep
<1> QED
  BY <1>1, InodeInvariance, PTL DEF SpecAll, HandedOutBlank, NewBlank

\* ... and only a write of the inode itself changes the slot of one that stays in use.
THEOREM InodesKeptCorrect == SpecAll => InodesKept
<1>1. InodeInv /\ [NextAll]_allVars => [UsedKept]_allVars
  BY SlotsStep
<1> QED
  BY <1>1, InodeInvariance, PTL DEF SpecAll, InodesKept, UsedKept
=============================================================================

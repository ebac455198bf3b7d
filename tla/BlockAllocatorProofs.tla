------------------------ MODULE BlockAllocatorProofs ------------------------
(***************************************************************************)
(* Proofs about BlockAllocator, for every disk layout that satisfies its   *)
(* assumptions.                                                            *)
(***************************************************************************)
EXTENDS BlockAllocator, FiniteSetTheorems, TLAPS

\* Division by a positive number leaves a remainder below it.
LEMMA DivisionRemainder ==
    ASSUME NEW a \in Int, NEW n \in Nat \ {0}
    PROVE  /\ a \div n \in Int
           /\ a % n \in 0 .. n - 1
           /\ a = (a \div n) * n + (a % n)
  OBVIOUS

\* Quotient and remainder are the only numbers with that property.
LEMMA DivisionUnique ==
    ASSUME NEW q \in Int, NEW n \in Nat \ {0}, NEW r \in 0 .. n - 1
    PROVE  (q * n + r) \div n = q /\ (q * n + r) % n = r
<1> DEFINE a == q * n + r
           p == a \div n
<1>1. a \in Int /\ p \in Int
  OBVIOUS
<1>2. a = p * n + (a % n) /\ a % n \in 0 .. n - 1
  BY <1>1, DivisionRemainder
<1>3. CASE p = q
  BY <1>1, <1>2, <1>3
<1>4. CASE p >= q + 1
  <2>1. p * n >= (q + 1) * n
    BY <1>1, <1>4
  <2> QED
    BY <1>1, <1>2, <2>1
<1>5. CASE p + 1 <= q
  <2>1. q * n >= (p + 1) * n
    BY <1>1, <1>5
  <2> QED
    BY <1>1, <1>2, <2>1
<1> QED
  BY <1>1, <1>3, <1>4, <1>5

\* Adding a multiple of the modulus does not change a remainder.
LEMMA ModAbsorbs ==
    ASSUME NEW x \in Int, NEW y \in Int, NEW m \in Nat \ {0}
    PROVE  ((x % m) + y) % m = (x + y) % m
<1>1. PICK k \in Int, r \in 0 .. m - 1 : r = x % m /\ x = k * m + r
  BY DivisionRemainder
<1>2. x + y \in Int
  OBVIOUS
<1>3. PICK z \in Int, s \in 0 .. m - 1 : s = (x + y) % m /\ x + y = z * m + s
  BY <1>2, DivisionRemainder
<1>4. r + y = (z - k) * m + s
  <2>1. (z - k) * m = z * m - k * m
    OBVIOUS
  <2>2. \A p, q \in Int : x = q + r /\ x + y = p + s => r + y = (p - q) + s
    OBVIOUS
  <2>3. k * m \in Int /\ z * m \in Int
    OBVIOUS
  <2>4. r + y = (z * m - k * m) + s
    BY <1>1, <1>3, <2>2, <2>3
  <2> QED
    BY <2>1, <2>4
<1>5. ((z - k) * m + s) % m = s
  <2>1. z - k \in Int
    OBVIOUS
  <2> QED
    BY <2>1, DivisionUnique
<1> QED
  BY <1>1, <1>3, <1>4, <1>5
-----------------------------------------------------------------------------
\* Arithmetic of the layout: the bitmap has a bit for every block of the disk,
\* and the metadata area contains the bitmap and the block reset_bitmap hits.
LEMMA LayoutFacts ==
    /\ BitmapBlocks \in Nat \ {0} /\ BitmapStart = 1
    /\ BasicBlocks \in Nat /\ BasicBlocks <= TotalBlocks
    /\ FullBitmapBlocks \in Nat /\ FullBitmapBlocks <= BitmapBlocks
    /\ RemainingBlocks \in Bit
    /\ BasicBlocks = FullBitmapBlocks * BitsPerBlock + RemainingBlocks
    /\ RemainingBlocks > 0 => FullBitmapBlocks + 1 <= BitmapBlocks
    /\ InodeStart + FullBitmapBlocks \in Metadata
    /\ \A i \in BitmapIndex : /\ BitmapStart + i \in Metadata
                              /\ BitmapStart + i # InodeStart + FullBitmapBlocks
<1> DEFINE B == BitsPerBlock
           T == TotalBlocks
<1>1. B \in Nat \ {0} /\ T \in Nat \ {0}
  BY LayoutAssumption
<1>2. /\ BitmapBlocks \in Int
      /\ (B + T - 1) % B \in 0 .. B - 1
      /\ B + T - 1 = BitmapBlocks * B + ((B + T - 1) % B)
  <2>1. B + T - 1 \in Int
    BY <1>1
  <2> QED
    BY <1>1, <2>1, DivisionRemainder DEF BitmapBlocks
<1>3. BitmapBlocks * B >= T
  <2>1. \A p, r \in Int : B + T - 1 = p + r /\ r <= B - 1 => p >= T
    BY <1>1
  <2>2. BitmapBlocks * B \in Int
    BY <1>1, <1>2
  <2> QED
    BY <1>1, <1>2, <2>1, <2>2
<1>4. BitmapBlocks \in Nat \ {0}
  <2>1. CASE BitmapBlocks <= 0
    <3>1. BitmapBlocks * B <= 0
      BY <1>1, <1>2, <2>1
    <3>2. BitmapBlocks * B \in Int
      BY <1>1, <1>2
    <3> QED
      BY <1>1, <1>3, <3>1, <3>2
  <2> QED
    BY <1>2, <2>1
<1>5. BasicBlocks \in Nat /\ BasicBlocks <= T
  BY <1>4, LayoutAssumption DEF BasicBlocks
<1>6. /\ FullBitmapBlocks \in Int
      /\ RemainingBlocks \in 0 .. B - 1
      /\ BasicBlocks = FullBitmapBlocks * B + RemainingBlocks
  BY <1>1, <1>5, DivisionRemainder DEF FullBitmapBlocks, RemainingBlocks
<1>7. FullBitmapBlocks \in Nat
  <2>1. CASE FullBitmapBlocks <= -1
    <3>1. FullBitmapBlocks * B <= (-1) * B
      BY <1>1, <1>6, <2>1
    <3>2. \A p \in Int : p <= (-1) * B => p + RemainingBlocks < 0
      BY <1>1, <1>6
    <3>3. FullBitmapBlocks * B \in Int
      BY <1>1, <1>6
    <3> QED
      BY <1>5, <1>6, <3>1, <3>2, <3>3
  <2> QED
    BY <1>6, <2>1
<1>8. FullBitmapBlocks * B + RemainingBlocks <= BitmapBlocks * B
  <2>1. BitmapBlocks * B \in Int
    BY <1>1, <1>4
  <2> QED
    BY <1>1, <1>3, <1>5, <1>6, <2>1
<1>9. FullBitmapBlocks <= BitmapBlocks /\ (RemainingBlocks > 0 => FullBitmapBlocks + 1 <= BitmapBlocks)
  <2>1. CASE FullBitmapBlocks >= BitmapBlocks + 1
    <3>1. FullBitmapBlocks * B >= (BitmapBlocks + 1) * B
      BY <1>1, <1>4, <1>7, <2>1
    <3>2. (BitmapBlocks + 1) * B = BitmapBlocks * B + B
      BY <1>1, <1>4
    <3>3. BitmapBlocks * B \in Int /\ FullBitmapBlocks * B \in Int
      BY <1>1, <1>4, <1>7
    <3> QED
      BY <1>1, <1>6, <1>8, <3>1, <3>2, <3>3
  <2>2. CASE FullBitmapBlocks = BitmapBlocks
    <3>1. BitmapBlocks * B \in Int
      BY <1>1, <1>4
    <3> QED
      BY <1>6, <1>8, <2>2, <3>1
  <2> QED
    BY <1>4, <1>7, <2>1, <2>2
<1>10. InodeStart + FullBitmapBlocks \in Metadata
  BY <1>4, <1>7, LayoutAssumption, SizeAssumption
     DEF InodeStart, BitmapStart, Metadata, BasicBlocks
<1>11. \A i \in BitmapIndex : /\ BitmapStart + i \in Metadata
                              /\ BitmapStart + i # InodeStart + FullBitmapBlocks
  BY <1>4, <1>7, LayoutAssumption
     DEF InodeStart, BitmapStart, Metadata, BasicBlocks, BitmapIndex
<1> QED
  BY <1>4, <1>5, <1>6, <1>7, <1>9, <1>10, <1>11 DEF Bit, BitmapStart

\* Every LBA with a bit names one bitmap block and one bit of it ...
LEMMA LbaParts ==
    ASSUME NEW lba \in Lba
    PROVE  /\ lba \div BitsPerBlock \in BitmapIndex
           /\ lba % BitsPerBlock \in Bit
           /\ lba = (lba \div BitsPerBlock) * BitsPerBlock + (lba % BitsPerBlock)
<1> DEFINE B == BitsPerBlock
           q == lba \div B
           r == lba % B
<1>1. B \in Nat \ {0} /\ BitmapBlocks \in Nat \ {0} /\ lba \in Nat
  BY LayoutAssumption, LayoutFacts DEF Lba
<1>2. q \in Int /\ r \in 0 .. B - 1 /\ lba = q * B + r
  BY <1>1, DivisionRemainder
<1>3. lba < BitmapBlocks * B
  BY <1>1 DEF Lba
<1> HIDE DEF q, r
<1>4. q * B \in Int /\ BitmapBlocks * B \in Int
  BY <1>1, <1>2
<1>5. CASE q >= BitmapBlocks
  <2>1. q * B >= BitmapBlocks * B
    BY <1>1, <1>2, <1>5
  <2> QED
    BY <1>2, <1>3, <1>4, <2>1, <1>1
<1>6. CASE q <= -1
  <2>1. q * B <= (-1) * B
    BY <1>1, <1>2, <1>6
  <2> QED
    BY <1>1, <1>2, <1>4, <2>1
<1> QED
  BY <1>1, <1>2, <1>5, <1>6 DEF BitmapIndex, Bit, q, r

\* ... and the other way round.
LEMMA PartsLba ==
    ASSUME NEW i \in BitmapIndex, NEW b \in Bit
    PROVE  /\ i * BitsPerBlock + b \in Lba
           /\ (i * BitsPerBlock + b) \div BitsPerBlock = i
           /\ (i * BitsPerBlock + b) % BitsPerBlock = b
<1> DEFINE B == BitsPerBlock
<1>1. B \in Nat \ {0} /\ BitmapBlocks \in Nat \ {0} /\ i \in Nat /\ i + 1 <= BitmapBlocks
  BY LayoutAssumption, LayoutFacts DEF BitmapIndex
<1>2. b \in 0 .. B - 1
  BY DEF Bit
<1>3. (i + 1) * B <= BitmapBlocks * B
  BY <1>1
<1>4. (i + 1) * B = i * B + B /\ i * B \in Nat /\ BitmapBlocks * B \in Nat
  BY <1>1
<1>5. i * B + b \in Lba
  BY <1>1, <1>2, <1>3, <1>4 DEF Lba
<1>6. i \in Int
  BY <1>1
<1> QED
  BY <1>1, <1>2, <1>5, <1>6, DivisionUnique
-----------------------------------------------------------------------------
\* The counter after one more block is taken, and after one is given back.
LEMMA CounterTake ==
    ASSUME NEW f \in Int, NEW c \in Int, NEW m \in Nat \ {0}
    PROVE  (((f - 1) % m) + (c + 1)) % m = (f + c) % m
<1>1. f - 1 \in Int /\ c + 1 \in Int /\ (f - 1) + (c + 1) = f + c
  OBVIOUS
<1>2. \A x, y \in Int : ((x % m) + y) % m = (x + y) % m
  BY ModAbsorbs
<1>3. (((f - 1) % m) + (c + 1)) % m = ((f - 1) + (c + 1)) % m
  BY <1>1, <1>2
<1> QED
  BY <1>1, <1>3

LEMMA CounterGiveBack ==
    ASSUME NEW f \in Int, NEW c \in Int, NEW m \in Nat \ {0}
    PROVE  (((f + 1) % m) + (c - 1)) % m = (f + c) % m
<1>1. f + 1 \in Int /\ c - 1 \in Int /\ (f + 1) + (c - 1) = f + c
  OBVIOUS
<1>2. \A x, y \in Int : ((x % m) + y) % m = (x + y) % m
  BY ModAbsorbs
<1>3. (((f + 1) % m) + (c - 1)) % m = ((f + 1) + (c - 1)) % m
  BY <1>1, <1>2
<1> QED
  BY <1>1, <1>3

\* The inductive invariant.
IInv == TypeOK /\ BitmapTracksOwners /\ CounterConserved

\* Setting one bit marks one LBA and no other.
LEMMA SetBit ==
    ASSUME TypeOK, NEW i \in BitmapIndex, NEW b \in Bit,
           block' = [block EXCEPT ![BitmapStart + i] = @ \cup {b}]
    PROVE  /\ block' \in [Metadata -> SUBSET Bit]
           /\ \A lba \in Lba :
                Marked(lba)' <=> Marked(lba) \/ lba = i * BitsPerBlock + b
<1>1. BitmapStart + i \in Metadata /\ block \in [Metadata -> SUBSET Bit]
  BY LayoutFacts DEF TypeOK
<1>2. block' \in [Metadata -> SUBSET Bit]
  BY <1>1
<1>3. ASSUME NEW lba \in Lba
      PROVE  Marked(lba)' <=> Marked(lba) \/ lba = i * BitsPerBlock + b
  <2> DEFINE q == lba \div BitsPerBlock
             r == lba % BitsPerBlock
  <2>1. q \in BitmapIndex /\ r \in Bit /\ lba = q * BitsPerBlock + r
    BY LbaParts
  <2>2. lba = i * BitsPerBlock + b <=> q = i /\ r = b
    BY <2>1, PartsLba
  <2> HIDE DEF q, r
  <2>3. BitmapStart + q \in Metadata /\ (BitmapStart + q = BitmapStart + i <=> q = i)
    BY <2>1, LayoutFacts DEF BitmapIndex
  <2>4. r \in block'[BitmapStart + q] <=> r \in block[BitmapStart + q] \/ (q = i /\ r = b)
    BY <1>1, <2>3
  <2> QED
    BY <2>2, <2>4 DEF Marked, Bitmap, q, r
<1> QED
  BY <1>2, <1>3

\* Clearing one bit frees one LBA and no other.
LEMMA ClearBit ==
    ASSUME TypeOK, NEW i \in BitmapIndex, NEW b \in Bit,
           block' = [block EXCEPT ![BitmapStart + i] = @ \ {b}]
    PROVE  /\ block' \in [Metadata -> SUBSET Bit]
           /\ \A lba \in Lba :
                Marked(lba)' <=> Marked(lba) /\ lba # i * BitsPerBlock + b
<1>1. BitmapStart + i \in Metadata /\ block \in [Metadata -> SUBSET Bit]
  BY LayoutFacts DEF TypeOK
<1>2. block' \in [Metadata -> SUBSET Bit]
  BY <1>1
<1>3. ASSUME NEW lba \in Lba
      PROVE  Marked(lba)' <=> Marked(lba) /\ lba # i * BitsPerBlock + b
  <2> DEFINE q == lba \div BitsPerBlock
             r == lba % BitsPerBlock
  <2>1. q \in BitmapIndex /\ r \in Bit /\ lba = q * BitsPerBlock + r
    BY LbaParts
  <2>2. lba = i * BitsPerBlock + b <=> q = i /\ r = b
    BY <2>1, PartsLba
  <2> HIDE DEF q, r
  <2>3. BitmapStart + q \in Metadata /\ (BitmapStart + q = BitmapStart + i <=> q = i)
    BY <2>1, LayoutFacts DEF BitmapIndex
  <2>4. r \in block'[BitmapStart + q] <=> r \in block[BitmapStart + q] /\ ~(q = i /\ r = b)
    BY <1>1, <2>3
  <2> QED
    BY <2>2, <2>4 DEF Marked, Bitmap, q, r
<1> QED
  BY <1>2, <1>3

\* A freshly reset bitmap marks the reserved LBAs.
LEMMA ResetMarksReserved ==
    ASSUME NEW fresh, fresh = ResetBitmap(ClearedDisk)
    PROVE  /\ fresh \in [Metadata -> SUBSET Bit]
           /\ \A lba \in Lba :
                (lba % BitsPerBlock \in fresh[BitmapStart + (lba \div BitsPerBlock)])
                    <=> lba \in Reserved
<1> DEFINE B == BitsPerBlock
           F == FullBitmapBlocks
<1>1. fresh \in [Metadata -> SUBSET Bit]
  <2>1. 0 .. RemainingBlocks - 1 \subseteq Bit
    BY LayoutFacts, LayoutAssumption DEF Bit
  <2>2. \A lba \in Metadata : ClearedDisk[lba] = {}
    BY DEF ClearedDisk
  <2> QED
    BY <2>1, <2>2 DEF ResetBitmap
<1>2. ASSUME NEW lba \in Lba
      PROVE  (lba % B \in fresh[BitmapStart + (lba \div B)]) <=> lba \in Reserved
  <2> DEFINE q == lba \div B
             r == lba % B
  <2>1. q \in BitmapIndex /\ r \in Bit /\ lba = q * B + r
    BY LbaParts
  <2>2. F \in Nat /\ B \in Nat \ {0} /\ q \in Nat /\ r \in 0 .. B - 1
    BY <2>1, LayoutFacts, LayoutAssumption DEF BitmapIndex, Bit
  <2> HIDE DEF q, r
  <2>3. lba < F * B <=> q < F
    <3>1. q * B \in Nat /\ F * B \in Nat /\ (q + 1) * B = q * B + B
      BY <2>2
    <3>2. CASE q < F
      <4>1. (q + 1) * B <= F * B
        BY <2>2, <3>2
      <4> QED
        BY <2>1, <2>2, <3>1, <3>2, <4>1
    <3>3. CASE q >= F
      <4>1. q * B >= F * B
        BY <2>2, <3>3
      <4> QED
        BY <2>1, <2>2, <3>1, <3>3, <4>1
    <3> QED
      BY <2>2, <3>2, <3>3
  <2>4. lba \in Reserved <=> q < F
    <3>1. lba \in Nat /\ F * B \in Nat
      BY <2>2, LayoutFacts DEF Lba
    <3> QED
      BY <2>3, <3>1 DEF Reserved
  <2>5. fresh[BitmapStart + q] = IF q < F THEN Bit ELSE {}
    <3>1. BitmapStart + q \in Metadata /\ BitmapStart + q # InodeStart + F /\ BitmapStart = 1
      BY <2>1, LayoutFacts
    <3>2. BitmapStart + q \in BitmapStart .. BitmapStart + F - 1 <=> q < F
      BY <2>2, <3>1
    <3> QED
      BY <3>1, <3>2 DEF ResetBitmap, ClearedDisk
  <2> QED
    BY <2>1, <2>4, <2>5 DEF q, r
<1> QED
  BY <1>1, <1>2

\* What the first clear bit of a range of bitmap blocks is.
LEMMA TakeFacts ==
    ASSUME IInv, NEW range \in SUBSET BitmapIndex,
           NEW i \in range, NEW b \in Bit, FirstClear(range, i, b)
    PROVE  /\ i * BitsPerBlock + b \in Lba
           /\ i * BitsPerBlock + b \notin Reserved \cup owned
<1>1. i \in BitmapIndex
  OBVIOUS
<1>2. /\ i * BitsPerBlock + b \in Lba
      /\ (i * BitsPerBlock + b) \div BitsPerBlock = i
      /\ (i * BitsPerBlock + b) % BitsPerBlock = b
  BY <1>1, PartsLba
<1>3. ~Marked(i * BitsPerBlock + b)
  BY <1>2 DEF FirstClear, Marked
<1> QED
  BY <1>2, <1>3 DEF IInv, BitmapTracksOwners

\* A block taken from any part of the bitmap keeps the invariant, and is new.
LEMMA TakeKeeps ==
    ASSUME IInv, NEW range \in SUBSET BitmapIndex, Take(range)
    PROVE  /\ IInv'
           /\ ret' \in Int /\ ret' \notin owned /\ ret' \in owned'
<1>1. PICK i \in range, b \in Bit :
          /\ FirstClear(range, i, b)
          /\ block' = [block EXCEPT ![BitmapStart + i] = @ \cup {b}]
          /\ free_blocks' = (free_blocks - 1) % CounterModulus
          /\ last_alloc_bitmap_blk_idx' = i
          /\ owned' = owned \cup {i * BitsPerBlock + b}
          /\ ret' = i * BitsPerBlock + b
  BY DEF Take
<1> DEFINE new == i * BitsPerBlock + b
<1>2. new \in Lba /\ new \notin Reserved \cup owned
  BY <1>1, TakeFacts
<1>3. i \in BitmapIndex /\ TypeOK
  BY DEF IInv
<1>4. /\ block' \in [Metadata -> SUBSET Bit]
      /\ \A lba \in Lba : Marked(lba)' <=> Marked(lba) \/ lba = new
  BY <1>1, <1>3, SetBit
<1> HIDE DEF new
<1>5. owned' = owned \cup {new} /\ ret' = new
  BY <1>1 DEF new
<1>6. CounterModulus \in Nat \ {0}
  BY LayoutAssumption
<1>7. TypeOK'
  <2>1. free_blocks' \in 0 .. CounterModulus - 1
    <3>1. free_blocks - 1 \in Int
      BY <1>3, LayoutAssumption DEF TypeOK
    <3> QED
      BY <1>1, <1>6, <3>1, DivisionRemainder
  <2> QED
    BY <1>1, <1>2, <1>3, <1>4, <1>5, <2>1 DEF TypeOK
<1>8. BitmapTracksOwners'
  BY <1>2, <1>4, <1>5 DEF IInv, BitmapTracksOwners, Reserved
<1>9. CounterConserved'
  <2>1. IsFiniteSet(owned)
    <3>1. IsFiniteSet(Lba)
      BY LayoutFacts, LayoutAssumption, FS_Interval DEF Lba
    <3> QED
      BY <1>3, <3>1, FS_Subset DEF TypeOK
  <2>2. Cardinality(owned') = Cardinality(owned) + 1 /\ Cardinality(owned) \in Nat
    BY <1>2, <1>5, <2>1, FS_AddElement, FS_CardinalityType
  <2>3. free_blocks \in Int
    BY <1>3, LayoutAssumption DEF TypeOK
  <2>4. PICK c \in Int : c = Cardinality(owned) /\ c + 1 = Cardinality(owned')
    BY <2>2
  <2>5. (((free_blocks - 1) % CounterModulus) + (c + 1)) % CounterModulus
            = (free_blocks + c) % CounterModulus
    BY <1>6, <2>3, CounterTake
  <2> QED
    BY <1>1, <2>4, <2>5 DEF IInv, CounterConserved
<1>10. new \in Int
  BY <1>2, LayoutFacts, LayoutAssumption DEF Lba
<1> QED
  BY <1>2, <1>5, <1>7, <1>8, <1>9, <1>10 DEF IInv

\* The two searches of allocate_block stay inside the bitmap.
LEMMA SearchRanges ==
    ASSUME TypeOK
    PROVE  /\ FromCursor \in SUBSET BitmapIndex
           /\ BeforeCursor \in SUBSET BitmapIndex
           /\ BitmapIndex = FromCursor \cup BeforeCursor
  BY LayoutFacts DEF TypeOK, FromCursor, BeforeCursor, BitmapIndex

\* A block that is given back keeps the invariant.
LEMMA FreeBlockKeeps ==
    ASSUME IInv, NEW lba \in Lba, FreeBlock(lba)
    PROVE  IInv'
<1> DEFINE i == lba \div BitsPerBlock
           b == lba % BitsPerBlock
<1>1. /\ lba \in owned
      /\ block' = [block EXCEPT ![BitmapStart + i] = @ \ {b}]
      /\ free_blocks' = (free_blocks + 1) % CounterModulus
      /\ owned' = owned \ {lba}
      /\ ret' = Done
      /\ UNCHANGED last_alloc_bitmap_blk_idx
  BY DEF FreeBlock
<1>2. i \in BitmapIndex /\ b \in Bit /\ lba = i * BitsPerBlock + b
  BY LbaParts
<1>3. TypeOK
  BY DEF IInv
<1> HIDE DEF i, b
<1>4. /\ block' \in [Metadata -> SUBSET Bit]
      /\ \A l \in Lba : Marked(l)' <=> Marked(l) /\ l # lba
  BY <1>1, <1>2, <1>3, ClearBit
<1>5. CounterModulus \in Nat \ {0} /\ free_blocks \in Int
  BY <1>3, LayoutAssumption DEF TypeOK
<1>6. TypeOK'
  <2>1. free_blocks' \in 0 .. CounterModulus - 1
    <3>1. free_blocks + 1 \in Int
      BY <1>5
    <3> QED
      BY <1>1, <1>5, <3>1, DivisionRemainder
  <2> QED
    BY <1>1, <1>3, <1>4, <2>1 DEF TypeOK
<1>7. BitmapTracksOwners'
  BY <1>1, <1>4 DEF IInv, BitmapTracksOwners, Reserved
<1>8. CounterConserved'
  <2>1. IsFiniteSet(owned)
    <3>1. IsFiniteSet(Lba)
      BY LayoutFacts, LayoutAssumption, FS_Interval DEF Lba
    <3> QED
      BY <1>3, <3>1, FS_Subset DEF TypeOK
  <2>2. Cardinality(owned') = Cardinality(owned) - 1 /\ Cardinality(owned) \in Nat
    BY <1>1, <2>1, FS_RemoveElement, FS_CardinalityType
  <2>3. PICK c \in Int : c = Cardinality(owned) /\ c - 1 = Cardinality(owned')
    BY <2>2
  <2>4. (((free_blocks + 1) % CounterModulus) + (c - 1)) % CounterModulus
            = (free_blocks + c) % CounterModulus
    BY <1>5, CounterGiveBack
  <2> QED
    BY <1>1, <2>3, <2>4 DEF IInv, CounterConserved
<1> QED
  BY <1>6, <1>7, <1>8 DEF IInv

\* A freshly formatted disk, at the start and after Format.
LEMMA InitEstablishes == Init => IInv
<1> SUFFICES ASSUME Init PROVE IInv
  OBVIOUS
<1>1. /\ block \in [Metadata -> SUBSET Bit]
      /\ \A lba \in Lba : Marked(lba) <=> lba \in Reserved
  BY ResetMarksReserved DEF Init, Marked, Bitmap
<1>2. TotalBlocks - BasicBlocks \in 0 .. CounterModulus - 1
  BY LayoutFacts, LayoutAssumption
<1>3. 0 \in BitmapIndex
  BY LayoutFacts DEF BitmapIndex
<1>4. (TotalBlocks - BasicBlocks) % CounterModulus = TotalBlocks - BasicBlocks
  <2> DEFINE n == TotalBlocks - BasicBlocks
  <2>1. n \in 0 .. CounterModulus - 1
    BY <1>2
  <2> HIDE DEF n
  <2>2. (0 * CounterModulus + n) % CounterModulus = n
    BY <2>1, DivisionUnique, LayoutAssumption
  <2>3. 0 * CounterModulus + n = n
    BY <2>1, LayoutAssumption
  <2>4. n % CounterModulus = n
    BY <2>2, <2>3
  <2> QED
    BY <2>4 DEF n
<1>5. Cardinality(owned) = 0
  BY FS_EmptySet DEF Init
<1>6. CounterConserved
  <2>1. free_blocks + Cardinality(owned) = TotalBlocks - BasicBlocks
    BY <1>2, <1>5, LayoutAssumption DEF Init
  <2> QED
    BY <1>4, <2>1 DEF CounterConserved
<1> QED
  BY <1>1, <1>2, <1>3, <1>6 DEF Init, IInv, TypeOK, BitmapTracksOwners

\* So does format.
LEMMA FormatKeeps == IInv /\ Format => IInv'
<1> SUFFICES ASSUME Format PROVE IInv'
  OBVIOUS
<1>1. Init'
  BY DEF Format, Init
<1>2. Init' => IInv'
  BY InitEstablishes, PTL
<1> QED
  BY <1>1, <1>2

\* No step leaves the invariant.
LEMMA NextKeeps == IInv /\ [Next]_vars => IInv'
<1> SUFFICES ASSUME IInv, [Next]_vars PROVE IInv'
  OBVIOUS
<1>1. CASE AllocateFromCursor
  BY <1>1, SearchRanges, TakeKeeps DEF AllocateFromCursor, IInv
<1>2. CASE AllocateWrapped
  BY <1>2, SearchRanges, TakeKeeps DEF AllocateWrapped, IInv
<1>3. CASE AllocateRefused
  BY <1>3 DEF AllocateRefused, IInv, TypeOK, BitmapTracksOwners,
              CounterConserved, Marked, Bitmap, Reserved
<1>4. CASE \E lba \in Lba : FreeBlock(lba)
  BY <1>4, FreeBlockKeeps
<1>5. CASE Format
  BY <1>5, FormatKeeps
<1>6. CASE UNCHANGED vars
  BY <1>6 DEF vars, IInv, TypeOK, BitmapTracksOwners,
              CounterConserved, Marked, Bitmap, Reserved
<1> QED
  BY <1>1, <1>2, <1>3, <1>4, <1>5, <1>6 DEF Next
-----------------------------------------------------------------------------
\* Every state the allocator reaches satisfies the inductive invariant.
THEOREM Invariance == Spec => []IInv
<1>1. Init => IInv
  BY InitEstablishes
<1>2. IInv /\ [Next]_vars => IInv'
  BY NextKeeps
<1> QED
  BY <1>1, <1>2, PTL DEF Spec

\* The variables of the allocator keep their types.
THEOREM TypeCorrect == Spec => []TypeOK
<1>1. IInv => TypeOK
  BY DEF IInv
<1> QED
  BY <1>1, Invariance, PTL

\* Over any sequence of allocations, frees and formats the bitmap says exactly
\* which blocks are reserved or owned.
THEOREM BitmapCorrect == Spec => []BitmapTracksOwners
<1>1. IInv => BitmapTracksOwners
  BY DEF IInv
<1> QED
  BY <1>1, Invariance, PTL

\* free_blocks counts what is handed out, modulo its width.
THEOREM CounterCorrect == Spec => []CounterConserved
<1>1. IInv => CounterConserved
  BY DEF IInv
<1> QED
  BY <1>1, Invariance, PTL

\* A block that is still owned is never handed out again.
THEOREM NoDoubleAllocation == Spec => NeverHandedOutTwice
<1>1. IInv /\ [Next]_vars => [ret' \in Int => ret' \notin owned /\ ret' \in owned']_vars
  <2> SUFFICES ASSUME IInv, Next
               PROVE  ret' \in Int => ret' \notin owned /\ ret' \in owned'
    BY DEF vars
  <2>1. CASE AllocateFromCursor
    BY <2>1, SearchRanges, TakeKeeps DEF AllocateFromCursor, IInv
  <2>2. CASE AllocateWrapped
    BY <2>2, SearchRanges, TakeKeeps DEF AllocateWrapped, IInv
  <2>3. CASE AllocateRefused
    BY <2>3, ResultAssumption DEF AllocateRefused
  <2>4. CASE \E lba \in Lba : FreeBlock(lba)
    BY <2>4, ResultAssumption DEF FreeBlock
  <2>5. CASE Format
    BY <2>5, ResultAssumption DEF Format
  <2> QED
    BY <2>1, <2>2, <2>3, <2>4, <2>5 DEF Next
<1> QED
  BY <1>1, Invariance, PTL DEF Spec, NeverHandedOutTwice

\* allocate_block says that the disk is full only when every bit of the bitmap
\* is set: searching from the cursor and then up to it leaves nothing out.
THEOREM RefusalHonest == Spec => []RefusedOnlyWhenFull
<1>1. Init => RefusedOnlyWhenFull
  BY ResultAssumption DEF Init, RefusedOnlyWhenFull
<1>2. IInv /\ RefusedOnlyWhenFull /\ [Next]_vars => RefusedOnlyWhenFull'
  <2> SUFFICES ASSUME IInv, RefusedOnlyWhenFull, [Next]_vars, ret' = NoLba,
                      NEW lba \in Lba
               PROVE  Marked(lba)'
    BY DEF RefusedOnlyWhenFull, Lba
  <2>1. CASE AllocateFromCursor
    BY <2>1, SearchRanges, TakeKeeps, ResultAssumption DEF AllocateFromCursor, IInv
  <2>2. CASE AllocateWrapped
    BY <2>2, SearchRanges, TakeKeeps, ResultAssumption DEF AllocateWrapped, IInv
  <2>3. CASE AllocateRefused
    <3>1. Bitmap(lba \div BitsPerBlock) = Bit
      BY <2>3, LbaParts, SearchRanges DEF AllocateRefused, HasClear, IInv
    <3>2. Marked(lba)
      BY <3>1, LbaParts DEF Marked
    <3> QED
      BY <2>3, <3>2 DEF AllocateRefused, Marked, Bitmap
  <2>4. CASE \E l \in Lba : FreeBlock(l)
    BY <2>4, ResultAssumption DEF FreeBlock
  <2>5. CASE Format
    BY <2>5, ResultAssumption DEF Format
  <2>6. CASE UNCHANGED vars
    BY <2>6 DEF vars, RefusedOnlyWhenFull, Marked, Bitmap
  <2> QED
    BY <2>1, <2>2, <2>3, <2>4, <2>5, <2>6 DEF Next
<1> QED
  BY <1>1, <1>2, Invariance, PTL DEF Spec
-----------------------------------------------------------------------------
\* Where the metadata does not fill whole bitmap blocks, only its last
\* RemainingBlocks blocks can be handed out: the misplaced write exposes the tail
\* of the inode table.
THEOREM ExposureBounded ==
    Spec => [](owned \cap Metadata \subseteq BasicBlocks - RemainingBlocks .. BasicBlocks - 1)
<1>1. IInv => owned \cap Metadata \subseteq BasicBlocks - RemainingBlocks .. BasicBlocks - 1
  <2> SUFFICES ASSUME IInv, NEW lba \in owned \cap Metadata
               PROVE  lba \in BasicBlocks - RemainingBlocks .. BasicBlocks - 1
    OBVIOUS
  <2>1. PICK p \in Int : p = FullBitmapBlocks * BitsPerBlock
    BY LayoutFacts, LayoutAssumption
  <2>2. BasicBlocks - RemainingBlocks = p /\ BasicBlocks \in Nat
    BY <2>1, LayoutFacts, LayoutAssumption DEF Bit
  <2>3. lba \notin 0 .. p - 1
    BY <2>1 DEF IInv, BitmapTracksOwners, Reserved
  <2> QED
    BY <2>1, <2>2, <2>3 DEF Metadata
<1> QED
  BY <1>1, Invariance, PTL

\* Where the bitmap has no bit beyond the last block, as on a disk of an even
\* number of GB, every block handed out is on the disk.
THEOREM ExactBitmapOnDisk ==
    ASSUME BitmapBlocks * BitsPerBlock = TotalBlocks
    PROVE  Spec => []LbaOnDisk
<1>1. TypeOK => LbaOnDisk
  BY DEF TypeOK, LbaOnDisk, Lba, OnDisk
<1> QED
  BY <1>1, TypeCorrect, PTL
=============================================================================

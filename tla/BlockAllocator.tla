--------------------------- MODULE BlockAllocator ---------------------------
(***************************************************************************)
(* The data block allocator: a next-fit search of the block bitmap that    *)
(* the super block's layout places after block 0.  Block i of the bitmap   *)
(* holds the bits of the LBAs i * BitsPerBlock onwards, the most           *)
(* significant bit first; a set bit is a block in use.  The metadata area  *)
(* itself has bits too, and reset_bitmap is what reserves them.            *)
(***************************************************************************)
EXTENDS Integers, FiniteSets

CONSTANTS
    BitsPerBlock,       \* bits_per_block
    TotalBlocks,        \* total_blocks
    InodeValidBlocks,   \* inode_valid_blocks_cnt
    InodeBlocks,        \* inode_blocks_cnt
    CounterModulus,     \* 2^64 in the code: free_blocks is an unsigned counter
    NoLba,              \* std::nullopt
    Done                \* the operation returned nothing

VARIABLES
    block,                      \* metadata blocks on disk, as sets of bits
    last_alloc_bitmap_blk_idx,  \* where the next search starts
    free_blocks,                \* the super block's counter
    owned,                      \* history: LBAs handed out and not given back
    ret                         \* what the last operation returned

vars == <<block, last_alloc_bitmap_blk_idx, free_blocks, owned, ret>>
-----------------------------------------------------------------------------
\* The layout create_superblock computes.
BitmapBlocks == (BitsPerBlock + TotalBlocks - 1) \div BitsPerBlock
BitmapStart == 1
InodeStart == BitmapStart + BitmapBlocks + InodeValidBlocks
BasicBlocks == 1 + BitmapBlocks + InodeValidBlocks + InodeBlocks

FullBitmapBlocks == BasicBlocks \div BitsPerBlock
RemainingBlocks == BasicBlocks % BitsPerBlock

Metadata == 0 .. BasicBlocks - 1
Bit == 0 .. BitsPerBlock - 1
BitmapIndex == 0 .. BitmapBlocks - 1
Lba == 0 .. BitmapBlocks * BitsPerBlock - 1     \* every LBA that has a bit
OnDisk == 0 .. TotalBlocks - 1

ASSUME LayoutAssumption ==
    /\ BitsPerBlock \in Nat \ {0} /\ TotalBlocks \in Nat \ {0}
    /\ InodeValidBlocks \in Nat \ {0} /\ InodeBlocks \in Nat \ {0}
    /\ CounterModulus \in Nat /\ TotalBlocks < CounterModulus
    /\ BasicBlocks <= TotalBlocks

\* The stray write of reset_bitmap stays inside the inode table, and the bits
\* it does set cover the bitmap itself.  Both hold for the 4096 GB disk the
\* programs of the repository open; a disk under 256 GB breaks the second.
ASSUME SizeAssumption ==
    /\ FullBitmapBlocks < InodeBlocks
    /\ BitmapStart + BitmapBlocks <= FullBitmapBlocks * BitsPerBlock

ASSUME ResultAssumption == NoLba \notin Int /\ Done \notin Int /\ NoLba # Done

Bitmap(i) == block[BitmapStart + i]
Marked(lba) == lba % BitsPerBlock \in Bitmap(lba \div BitsPerBlock)

\* What reset_bitmap really reserves: whole bitmap blocks of ones only.
Reserved == 0 .. FullBitmapBlocks * BitsPerBlock - 1
-----------------------------------------------------------------------------
(***************************************************************************)
(* reset_bitmap: ones in the whole bitmap blocks the metadata fills, ones  *)
(* for the remainder in the block FullBitmapBlocks after the start of the  *)
(* INODE TABLE, zeros in the bitmap blocks after those.                    *)
(***************************************************************************)
ResetBitmap(old) ==
    LET firstZero == FullBitmapBlocks + (IF RemainingBlocks > 0 THEN 1 ELSE 0)
    IN  [lba \in Metadata |->
            IF lba \in BitmapStart .. BitmapStart + FullBitmapBlocks - 1 THEN Bit
            ELSE IF lba = InodeStart + FullBitmapBlocks
                 THEN old[lba] \cup 0 .. RemainingBlocks - 1
            ELSE IF lba \in BitmapStart + firstZero .. BitmapStart + BitmapBlocks - 1
                 THEN {}
            ELSE old[lba]]

ClearedDisk == [lba \in Metadata |-> {}]

\* A disk is formatted before its first use.
Init ==
    /\ block = ResetBitmap(ClearedDisk)
    /\ last_alloc_bitmap_blk_idx = 0
    /\ free_blocks = TotalBlocks - BasicBlocks
    /\ owned = {}
    /\ ret = Done

\* Mutant of format: the super block is not made anew.
FormatKeepsCounter ==
    /\ block' = ResetBitmap(ClearedDisk)
    /\ last_alloc_bitmap_blk_idx' = 0
    /\ owned' = {}
    /\ ret' = Done
    /\ UNCHANGED free_blocks

\* FileSys::format as far as this component sees it: the disk is cleared, the
\* super block is made anew, the bitmap is reset.
Format ==
    /\ block' = ResetBitmap(ClearedDisk)
    /\ last_alloc_bitmap_blk_idx' = 0
    /\ free_blocks' = TotalBlocks - BasicBlocks
    /\ owned' = {}
    /\ ret' = Done
-----------------------------------------------------------------------------
FromCursor == last_alloc_bitmap_blk_idx .. BitmapBlocks - 1
BeforeCursor == 0 .. last_alloc_bitmap_blk_idx - 1

HasClear(range) == \E i \in range : Bitmap(i) # Bit

\* Bit b of bitmap block i is the first clear bit the search over range meets.
FirstClear(range, i, b) ==
    /\ b \notin Bitmap(i)
    /\ \A j \in range : j < i => Bitmap(j) = Bit
    /\ \A c \in 0 .. b - 1 : c \in Bitmap(i)

\* Mutant of Take: the bit is not set.
TakeUnmarked(range) ==
    \E i \in range, b \in Bit :
        /\ FirstClear(range, i, b)
        /\ free_blocks' = (free_blocks - 1) % CounterModulus
        /\ last_alloc_bitmap_blk_idx' = i
        /\ owned' = owned \cup {i * BitsPerBlock + b}
        /\ ret' = i * BitsPerBlock + b
        /\ UNCHANGED block

\* search_range, when it finds a block: mark the bit, count it, move the cursor.
Take(range) ==
    \E i \in range, b \in Bit :
        /\ FirstClear(range, i, b)
        /\ block' = [block EXCEPT ![BitmapStart + i] = @ \cup {b}]
        /\ free_blocks' = (free_blocks - 1) % CounterModulus
        /\ last_alloc_bitmap_blk_idx' = i
        /\ owned' = owned \cup {i * BitsPerBlock + b}
        /\ ret' = i * BitsPerBlock + b

\* allocate_block searches from the cursor to the end first ...
AllocateFromCursor ==
    /\ HasClear(FromCursor)
    /\ Take(FromCursor)

\* Mutant: the second search is forgotten.
AllocateWrappedNever ==
    /\ ~HasClear(FromCursor)
    /\ HasClear(BeforeCursor)
    /\ ret' = NoLba
    /\ UNCHANGED <<block, last_alloc_bitmap_blk_idx, free_blocks, owned>>

\* ... then from the first bitmap block to the cursor ...
AllocateWrapped ==
    /\ ~HasClear(FromCursor)
    /\ HasClear(BeforeCursor)
    /\ Take(BeforeCursor)

\* ... and returns std::nullopt when neither search found a clear bit.
AllocateRefused ==
    /\ ~HasClear(FromCursor)
    /\ ~HasClear(BeforeCursor)
    /\ ret' = NoLba
    /\ UNCHANGED <<block, last_alloc_bitmap_blk_idx, free_blocks, owned>>

\* Mutant of free_block: the neighbouring bit is cleared.
FreeBlockWrongBit(lba) ==
    /\ lba \in owned
    /\ block' = [block EXCEPT ![BitmapStart + lba \div BitsPerBlock] =
                    @ \ {(lba + 1) % BitsPerBlock}]
    /\ free_blocks' = (free_blocks + 1) % CounterModulus
    /\ owned' = owned \ {lba}
    /\ ret' = Done
    /\ UNCHANGED last_alloc_bitmap_blk_idx

\* free_block.  Its callers give back a block they were handed, once.
FreeBlock(lba) ==
    /\ lba \in owned
    /\ block' = [block EXCEPT ![BitmapStart + lba \div BitsPerBlock] =
                    @ \ {lba % BitsPerBlock}]
    /\ free_blocks' = (free_blocks + 1) % CounterModulus
    /\ owned' = owned \ {lba}
    /\ ret' = Done
    /\ UNCHANGED last_alloc_bitmap_blk_idx

Next ==
    \/ AllocateFromCursor
    \/ AllocateWrapped
    \/ AllocateRefused
    \/ \E lba \in Lba : FreeBlock(lba)
    \/ Format

Spec == Init /\ [][Next]_vars
-----------------------------------------------------------------------------
\* The variables keep their types; the cursor stays on a bitmap block and the
\* counter within its width (BlockAllocator's use of the super block fields).
TypeOK ==
    /\ block \in [Metadata -> SUBSET Bit]
    /\ last_alloc_bitmap_blk_idx \in BitmapIndex
    /\ free_blocks \in 0 .. CounterModulus - 1
    /\ owned \subseteq Lba
    /\ ret \in Lba \cup {NoLba, Done}

\* The bitmap is exactly the record of who owns what: a bit is set if and only
\* if its block was reserved by reset_bitmap or is handed out, and no block is
\* both (allocate_block and free_block agree on where a block's bit is).
BitmapTracksOwners ==
    /\ \A lba \in Lba : Marked(lba) <=> lba \in Reserved \cup owned
    /\ Reserved \cap owned = {}

\* free_blocks never drifts from what is handed out, over any sequence of
\* allocations, refusals, frees and formats, even after it wraps around zero.
CounterConserved ==
    (free_blocks + Cardinality(owned)) % CounterModulus = TotalBlocks - BasicBlocks

\* allocate_block reports a full disk only when no bit of the whole bitmap is
\* clear: the two searches together miss no block.
RefusedOnlyWhenFull == ret = NoLba => \A lba \in Lba : Marked(lba)

\* A step never hands out a block that somebody still owns.
NeverHandedOutTwice ==
    [][ret' \in Int => ret' \notin owned /\ ret' \in owned']_vars

\* No block of the metadata area (super block, bitmaps, inode table) is ever
\* handed out as a data block: that is what reset_bitmap's partially filled
\* bitmap block is for.
MetadataReserved == owned \cap Metadata = {}

\* Every block handed out exists on the disk: FileDisk throws for one that
\* does not.
LbaOnDisk == owned \subseteq OnDisk
=============================================================================

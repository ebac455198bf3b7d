---------------------------- MODULE INodeBitmap ----------------------------
(***************************************************************************)
(* The inode bitmap and the inode table on the disk, beside the block      *)
(* allocator whose metadata area they share: reset_inode_bitmap,           *)
(* allocate_inode, free_inode, and write_data as far as it allocates.      *)
(*                                                                         *)
(* An inode is a slot of a block of the table: SlotSize bits, the last of  *)
(* them its type, and where it says its data are.  A blank slot has no bit *)
(* set.  A file has at most one data block here.                           *)
(*                                                                         *)
(* The last blocks of the table are handed out as data blocks (see         *)
(* MetadataReserved).  File data written there goes over the inodes in     *)
(* them, and the program follows what it then reads from their slots: it   *)
(* frees and overwrites blocks that it never allocated, bitmaps among      *)
(* them.                                                                   *)
(***************************************************************************)
EXTENDS BlockAllocator

CONSTANTS
    InodesPerBlock,     \* inodes_per_block: 32
    Contents,           \* bound: blocks of file data, by their bits and what a slot of them says
    Neither,            \* a storage_type that is none of the three
    MaxInUse,           \* bound: inodes a client has in use at once
    MaxOwned,           \* bound: data blocks it has at once
    MaxMixed            \* bound: operations once an inode in use shares a block with file data

VARIABLES
    free_inodes,    \* the super block's counter
    at,             \* storage_type and block_lba in each slot: see Pointer
    in_use,         \* history: inodes handed out and not freed
    strays,         \* history: blocks of the table that file data was written to
    mixed           \* history: operations since one of them is the block of an inode in use

allVars == <<block, last_alloc_bitmap_blk_idx, free_blocks, owned, ret,
           free_inodes, at, in_use, strays, mixed>>
-----------------------------------------------------------------------------
InodesCnt == InodesPerBlock * InodeBlocks
SlotSize == BitsPerBlock \div InodesPerBlock
ValidStart == BitmapStart + BitmapBlocks
TableBlocks == InodeStart .. BasicBlocks - 1

Inode == 0 .. InodesCnt - 1
Root == 0
FileType == {"File", "Directory"}

\* Inline is NoLba, Direct the block_lba.  Index is left to FileData and BPTree, and
\* so are trees and block numbers without a bit that only file data could name.
Pointer == Lba \cup {NoLba, Neither}

\* The bits of the inode bitmap are the inodes of the table: so it is on a disk of
\* a multiple of 8 GB.  On others there are inodes whose slot is a data block.
ASSUME InodeAssumption ==
    /\ InodesPerBlock \in 1 .. BitsPerBlock /\ SlotSize >= 2
    /\ InodesCnt = InodeValidBlocks * BitsPerBlock
    /\ InodesCnt <= CounterModulus
    /\ RemainingBlocks <= InodeBlocks       \* reset_bitmap's ones cover the inode bitmap
    /\ MaxInUse \in Nat /\ MaxOwned \in Nat /\ MaxMixed \in Nat
    /\ Neither \notin Int /\ Neither # NoLba
    /\ Contents \subseteq [bits : SUBSET Bit, says : Pointer]

\* The bit of inode i.
ValidLba(i) == ValidStart + i \div BitsPerBlock
InodeMarked(i) == i % BitsPerBlock \in block[ValidLba(i)]

\* Where inode i is.
SlotLba(i) == InodeStart + i \div InodesPerBlock
SlotFirst(i) == (i % InodesPerBlock) * SlotSize

TypeBit(i) == SlotFirst(i) + SlotSize - 1
SlotBits(i) == SlotFirst(i) .. TypeBit(i)

Slot(i) == block[SlotLba(i)] \cap SlotBits(i)

\* Mutant of WithSlot: the block is written without the inodes beside it.
WithSlotAlone(blocks, i, bits) == [blocks EXCEPT ![SlotLba(i)] = bits]

\* write_inode_to_disk.
WithSlot(blocks, i, bits) == [blocks EXCEPT ![SlotLba(i)] = (@ \ SlotBits(i)) \cup bits]

\* allocate_inode sets the type of the inode as it finds it, and nothing else.
Typed(i, bits, type) ==
    IF type = "Directory" THEN bits \cup {TypeBit(i)} ELSE bits \ {TypeBit(i)}

\* What a client makes of an inode.
Filled(i) == SlotBits(i) \ {TypeBit(i)}

SlotsOf(lba) == {i \in Inode : SlotLba(i) = lba}
-----------------------------------------------------------------------------
\* What reset_bitmap's misplaced write leaves in a slot.
Misplaced(i) ==
    IF SlotLba(i) = InodeStart + FullBitmapBlocks
    THEN SlotBits(i) \cap 0 .. RemainingBlocks - 1
    ELSE {}

\* format: the cleared disk, both bitmaps, and the root directory in the first
\* inode.  The misplaced bits come first in a byte: a storage_type they fall in
\* is at least 0x80, none of the three.
FormattedMetadata == ResetBitmap(ClearedDisk)

FormattedDisk ==
    WithSlot([FormattedMetadata EXCEPT ![ValidStart] = {0}], Root, SlotBits(Root))

FormattedAt ==
    {a \in [Inode -> {NoLba, Neither}] : \A i \in Inode : a[i] = Neither => Misplaced(i) # {}}

InitAll ==
    /\ block = FormattedDisk
    /\ last_alloc_bitmap_blk_idx = 0
    /\ free_blocks = TotalBlocks - BasicBlocks
    /\ owned = {}
    /\ ret = Done
    /\ free_inodes = InodesCnt - 1
    /\ at \in FormattedAt
    /\ in_use = {Root}
    /\ strays = {}
    /\ mixed = 0

FormatAll ==
    /\ block' = FormattedDisk
    /\ last_alloc_bitmap_blk_idx' = 0
    /\ free_blocks' = TotalBlocks - BasicBlocks
    /\ owned' = {}
    /\ ret' = Done
    /\ free_inodes' = InodesCnt - 1
    /\ at' \in FormattedAt
    /\ in_use' = {Root}
    /\ strays' = {}
    /\ mixed' = 0

\* No inode in use has shared a block with file data.
Unmixed == mixed = 0

\* The history of every other step that changes something.
Noted ==
    /\ mixed < MaxMixed
    /\ mixed' = IF Unmixed /\ \A i \in in_use' : SlotLba(i) \notin strays' THEN 0 ELSE mixed + 1
-----------------------------------------------------------------------------
\* The first clear bit of the inode bitmap, over all its blocks.
FirstFree(i) == ~InodeMarked(i) /\ \A j \in 0 .. i - 1 : InodeMarked(j)

AllocateInode(type) ==
    \E i \in Inode :
        /\ FirstFree(i)
        /\ Cardinality(in_use) < MaxInUse
        /\ block' = WithSlot([block EXCEPT ![ValidLba(i)] = @ \cup {i % BitsPerBlock}],
                             i, Typed(i, Slot(i), type))
        /\ free_inodes' = (free_inodes - 1) % CounterModulus
        /\ in_use' = in_use \cup {i}
        /\ UNCHANGED <<ret, last_alloc_bitmap_blk_idx, free_blocks, owned, at, strays>>
        /\ Noted

AllocateInodeRefused ==
    /\ \A i \in Inode : InodeMarked(i)
    /\ UNCHANGED <<ret, block, last_alloc_bitmap_blk_idx, free_blocks, owned, free_inodes,
                   at, in_use, strays, mixed>>

\* Mutants of Wiped: the slot is left as it was; the inode's bit is taken for
\* that of its block.
WipedNot(i) == [block EXCEPT ![ValidLba(i)] = @ \ {i % BitsPerBlock}]
WipedWrongBit(i) == WithSlot([block EXCEPT ![ValidLba(i)] = @ \ {i \div InodesPerBlock}], i, {})

\* The metadata once the inode's slot is wiped and its bit cleared.
Wiped(i) == WithSlot([block EXCEPT ![ValidLba(i)] = @ \ {i % BitsPerBlock}], i, {})

\* Mutant of Returned: the bit of the data block stays.
ReturnedNot(blocks, lba) == blocks

\* free_block on the metadata blocks, if the slot names a block.
Returned(blocks, lba) ==
    IF lba \in Lba
    THEN [blocks EXCEPT ![BitmapStart + lba \div BitsPerBlock] = @ \ {lba % BitsPerBlock}]
    ELSE blocks

\* free_inode, when the last name of the inode goes: it frees the block that the
\* slot names, whoever that belongs to.
FreeInode(i) ==
    /\ i \in in_use \ {Root}
    /\ block' = Returned(Wiped(i), at[i])
    /\ free_blocks' = IF at[i] \in Lba THEN (free_blocks + 1) % CounterModulus ELSE free_blocks
    /\ owned' = owned \ {at[i]}
    /\ ret' = IF at[i] \in Lba THEN Done ELSE ret
    /\ free_inodes' = (free_inodes + 1) % CounterModulus
    /\ at' = [at EXCEPT ![i] = NoLba]
    /\ in_use' = in_use \ {i}
    /\ UNCHANGED <<last_alloc_bitmap_blk_idx, strays>>
    /\ Noted
-----------------------------------------------------------------------------
\* write_data that stays in the inode.
WriteInline(i) ==
    /\ i \in in_use /\ at[i] = NoLba
    /\ block' = WithSlot(block, i, Slot(i) \cup Filled(i))
    /\ UNCHANGED <<ret, last_alloc_bitmap_blk_idx, free_blocks, owned, free_inodes,
                   at, in_use, strays>>
    /\ Noted

\* File data in block lba, but for the slots that are kept.
Overwritten(blocks, lba, data, kept) ==
    LET keep == UNION {SlotBits(i) : i \in kept}
    IN  IF lba \in Metadata
        THEN [blocks EXCEPT ![lba] = (data.bits \ keep) \cup (@ \cap keep)]
        ELSE blocks

\* write_data puts the file's data into block lba, and then the inode into its
\* slot.  The slots in that block are overwritten, but for those the data do not
\* reach and those whose inode is cached, as long as its copy stays.
WriteAt(blocks, lba, i) ==
    \E data \in Contents, kept \in SUBSET SlotsOf(lba) :
        /\ block' = WithSlot(Overwritten(blocks, lba, data, kept), i, Slot(i) \cup Filled(i))
        /\ at' = [j \in Inode |-> IF j = i THEN lba
                                  ELSE IF j \in SlotsOf(lba) \ kept THEN data.says ELSE at[j]]
        /\ strays' = strays \cup (TableBlocks \cap {lba})

\* The place allocate_block finds.
Found(j, b) ==
    IF HasClear(FromCursor)
    THEN j \in FromCursor /\ FirstClear(FromCursor, j, b)
    ELSE j \in BeforeCursor /\ FirstClear(BeforeCursor, j, b)

\* write_data that takes the file out of its inode, into a new block ...
WriteMoved(i) ==
    \E j \in BitmapIndex, b \in Bit :
        LET lba == j * BitsPerBlock + b IN
        /\ i \in in_use /\ at[i] = NoLba
        /\ Cardinality(owned) < MaxOwned
        /\ Found(j, b)
        /\ WriteAt([block EXCEPT ![BitmapStart + j] = @ \cup {b}], lba, i)
        /\ free_blocks' = (free_blocks - 1) % CounterModulus
        /\ last_alloc_bitmap_blk_idx' = j
        /\ owned' = owned \cup {lba}
        /\ ret' = lba
        /\ UNCHANGED <<free_inodes, in_use>>
        /\ Noted

\* ... or finds none.
WriteRefused(i) ==
    /\ i \in in_use /\ at[i] = NoLba
    /\ ~HasClear(FromCursor) /\ ~HasClear(BeforeCursor)
    /\ ret' = NoLba
    /\ UNCHANGED <<block, last_alloc_bitmap_blk_idx, free_blocks, owned, free_inodes,
                   at, in_use, strays, mixed>>

\* write_data into the block that the slot names.
WriteBlock(i) ==
    /\ i \in in_use /\ at[i] \in Lba
    /\ WriteAt(block, at[i], i)
    /\ UNCHANGED <<ret, last_alloc_bitmap_blk_idx, free_blocks, owned, free_inodes, in_use>>
    /\ Noted

\* write_data of an inode of no storage type: it reports success and writes nothing.
WriteNothing(i) ==
    /\ i \in in_use /\ at[i] = Neither
    /\ UNCHANGED <<ret, block, last_alloc_bitmap_blk_idx, free_blocks, owned, free_inodes,
                   at, in_use, strays, mixed>>

WriteData(i) == WriteInline(i) \/ WriteMoved(i) \/ WriteRefused(i) \/ WriteBlock(i) \/ WriteNothing(i)

\* get drops the cached copy of an inode that is not dirty: from then on file data
\* in its place are what the program takes for it.
CopyDropped(i) ==
    /\ SlotLba(i) \in strays
    /\ \E data \in Contents :
        /\ block' = WithSlot(block, i, data.bits \cap SlotBits(i))
        /\ at' = [at EXCEPT ![i] = data.says]
    /\ UNCHANGED <<ret, last_alloc_bitmap_blk_idx, free_blocks, owned, free_inodes, in_use, strays>>
    /\ Noted

NextAll ==
    \/ \E type \in FileType : AllocateInode(type)
    \/ AllocateInodeRefused
    \/ \E i \in Inode : FreeInode(i) \/ WriteData(i) \/ CopyDropped(i)
    \/ FormatAll

SpecAll == InitAll /\ [][NextAll]_allVars
-----------------------------------------------------------------------------
\* The variables keep their types, those of the allocator included, whatever the
\* program reads from a slot.
TypeOKAll ==
    /\ TypeOK
    /\ free_inodes \in 0 .. CounterModulus - 1
    /\ at \in [Inode -> Pointer]
    /\ Root \in in_use /\ in_use \subseteq Inode
    /\ strays \subseteq TableBlocks
    /\ mixed \in 0 .. MaxMixed

\* Until file data has lain in a block of an inode in use, the inode bitmap is
\* exactly the record of the inodes in use: allocate_inode, free_inode, the
\* allocator and the clients write to the same area, also to the free end of the
\* table, and none touches a bit that is not its own.  The free_inodes that df
\* shows follows them, also past zero.
InodeBitmapTracksUse ==
    /\ TypeOKAll
    /\ Unmixed =>
        /\ \A i \in Inode : InodeMarked(i) <=> i \in in_use
        /\ (free_inodes + Cardinality(in_use)) % CounterModulus = InodesCnt % CounterModulus

\* Till then allocate_inode hands out only blank inodes, but for the bits that
\* reset_bitmap misplaced: it sets the type and relies on free_inode and format for
\* the rest (storage_type and link_cnt among it).
HandedOutBlank ==
    [][Unmixed' => \A i \in in_use' \ in_use :
        /\ Slot(i) \subseteq Misplaced(i)
        /\ at[i] = NoLba \/ (at[i] = Neither /\ Misplaced(i) # {})]_allVars

\* Till then nothing changes the slot of an inode in use but an operation on that
\* inode: not the inodes in the same block, not the bits of either bitmap, not a
\* file's data.
InodesKept ==
    [][Unmixed' => \A i \in in_use \cap in_use' :
        Slot(i)' # Slot(i) \/ at'[i] # at[i] => WriteData(i) \/ FormatAll]_allVars

\* Till then, and by the step that ends it, the allocator is not disturbed: without
\* the inode bitmap and the inode table, what happens is what BlockAllocator does.
\* Only blocks it has handed out are given back, and each once.
Alone == INSTANCE BlockAllocator WITH
    block <- [lba \in Metadata |->
        IF lba \in BitmapStart .. BitmapStart + BitmapBlocks - 1 THEN block[lba]
        ELSE FormattedMetadata[lba]]

ImplementsAllocator ==
    /\ Alone!Init
    /\ [][(~Unmixed /\ ~Unmixed') \/ [Alone!Next]_(Alone!vars)]_allVars
=============================================================================

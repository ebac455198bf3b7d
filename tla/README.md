# A verification project for osep3

osep3 is a teaching file system in C++: a command line over a directory tree in
a virtual disk, one file of the host. This directory holds TLA+ modules that
model its components, the TLC configurations that check them on small
instances, and proofs that TLAPS checks for every instance. File names of the
repository are given below `src/` (`include/`, `src/`).

## 1. The system

    CLI (include/CLI.hpp, src/cli.cpp)          stress test (src/test.cpp)
      |  paths, descriptors                        |
    FileSys (include/FileSys.hpp): paths, handles, format, mount
      |                     \
    INodeTable              IOContext::read_super_block, clear, flush
    (include/INodeTable.hpp): inodes, inode bitmap,
    directory entries, file bytes, an LRU cache of inodes
      |            \
      |          BlockIndexer -> BPTree (include/BlockIndexer.hpp, BPTree.hpp)
      |             file block number -> LBA, B+ tree nodes in blocks
      |            /
    BlockAllocator (include/BlockAllocator.hpp): block bitmap, next-fit search
      |
    IOContext (include/IOContext.hpp): super block in memory, and
    LRUCache (include/LRUCache.hpp): write-back cache of blocks
      |
    IDisk / FileDisk (include/FileDisk.hpp): blocks of 16 KB in a host file

Everything is called synchronously from one thread. What is hard is not
parallelism but ownership over long histories (bits, links, cached copies),
unsigned arithmetic at the edges of the layout, callers that keep a pointer or
an inode number over other calls, operations that fail half way, and a process
that may be killed between any two disk writes.

| component | state | operations | what makes it correct |
|---|---|---|---|
| Super block (`SuperBlock.hpp`) | one packed record, block 0 | `create_superblock`, field updates by the others, `read`/`flush_super_block` | regions follow each other and fit; counters match the bitmaps |
| Block allocator | bitmap blocks; `last_alloc_bitmap_blk_idx`, `free_blocks` in the super block | `reset_bitmap`, `allocate_block`, `free_block` | a bit is set iff its block is reserved or owned; no block twice; metadata never; "full" only when full |
| Block cache | recency list, key map, dirty flags, buffers shared with callers | `get`, `get_mut`, `flush_all`, `clear`, eviction, destructor | reads see the last write; nothing dirty is dropped; a held buffer is not replaced; a clean stop is complete |
| Virtual disk | a file of the expected size | open (cleared when the size differs), `clear`, `read_block`, `write_block` | a block is what was last written, zeros after a clear; a block number out of range throws |
| Inode table | inode bitmap, inodes, entries, a cache of 16384 inodes with dirty flags | `allocate_inode`, `free_inode`, `add_diritem`, `remove_diritem`, `find_inode_by_name`, `read_data`, `write_data`, `flush` | entries name live inodes; link counts cover the names; file bytes are what was written; what is changed reaches the block cache |
| B+ tree, indexer | nodes in blocks of the same allocator | `insert`, `find`, `clear` | a map from file block to LBA; splits lose nothing; clear frees each block once |
| FileSys | the root's number; `cur_fd`, `fd_table` | `format`, mount, `create_*`, `remove_*`, `open`, `close`, `read`, `write`, `seek`, `list_directory` | the tree stays a tree; what fails changes nothing; a handle means the file it was opened on |
| CLI | `cur_path` | one command per line; `cat`, `mkdirn`, `touchn` call FileSys many times | the working directory stays where the user put it; a file is shown whole |

How they interact. The super block in memory is one object shared by all
components. A data block is owned by the inode or tree node that holds its LBA;
the allocator only has bits. `acquire_block` returns a shared pointer: as long
as the caller keeps it, the cache must not evict the buffer, and writes through
it happen after the call returned. An unmount is a chain of destructors:
INodeTable writes its dirty inodes into the block cache, then IOContext writes
the super block and the cache's dirty blocks.

## 2. Modules

| module | models | role |
|---|---|---|
| `BlockAllocator` | `BlockAllocator.hpp`, the layout of `SuperBlock.hpp` | component |
| `MCBlockAllocator` + 2 cfg | | small disks |
| `BlockAllocatorProofs` | | theorems |
| `INodeBitmap` | inode bitmap and inode table of `INodeTable.hpp` | component, composed with `BlockAllocator`, which it leaves undisturbed until file data lie beside inodes in use |
| `MCINodeBitmap` + cfg | | a layout with a remainder |
| `INodeBitmapProofs` | | theorems, and the refinement of `BlockAllocator` |
| `WriteBackStore` | what a write-back block store promises | abstract specification |
| `BlockCache` | `IOContext.hpp`, `LRUCache.hpp` | component; implements `WriteBackStore` |
| `MCBlockCache` + cfg | | small cache, symmetry |
| `BlockCacheProofs` | | theorems, and the refinement |
| `INodeCache` | the cache of inodes in `INodeTable.hpp` | component |
| `MCINodeCache` + cfg | | a cache of two |
| `INodeCacheProofs` | | theorems |
| `Mount` | `FileDisk.hpp`, mount, format and unmount in `FileSys.hpp` | composition of disk, block cache and inode cache |
| `MCMount` + cfg | | two formats |
| `MountProofs` | | theorems |
| `Namespace` | the directory half of `FileSys.hpp` and `INodeTable.hpp` | component |
| `MCNamespace` + 2 cfg | | names, and one that is cut to another |
| `NamespaceProofs` | | theorems |
| `FileBytes` | what files promise | abstract specification |
| `FileData` | `write_data`, `read_data`, `free_inode` of `INodeTable.hpp` | component; implements `FileBytes` |
| `MCFileData` + cfg | | small blocks, symmetry |
| `FileDataProofs` | | theorems about `FileData` and, below them, about `BPTree`, with both refinements |
| `BlockMap` | what a file's block index promises | abstract specification |
| `BPTree` | `BPTree.hpp`, `BlockIndexer.hpp` and their use in `write_data` | component; implements `BlockMap` |
| `MCBPTree` + cfg | | nodes of three keys |
| `FileHandles` | `open`, `close`, `read`, `write`, `seek` of `FileSys.hpp` | operations over `Namespace` |
| `Shell` | `CLI.hpp` | the client: next-state relation over `FileHandles` and `Namespace` |
| `MCShell` + cfg | | two names, symmetric |
| `ShellProofs` | | theorems about both, over those of `NamespaceProofs` |

### BlockAllocator

`block` is the metadata area of the disk, each block as the set of its set
bits; the bitmap is blocks 1 onwards of it, so that `reset_bitmap`'s write to
another block is a write to another element of the same function. `owned` is a
history variable: the LBAs handed out and not given back. `Take(range)` is the
lambda `search_range` once it has found a block; the three `Allocate...`
actions are the three ways `allocate_block` returns. The search over bytes and
then bits is `FirstClear`: the first clear bit of the first bitmap block that is
not all ones. `free_blocks` is counted modulo `CounterModulus` (2^64 in the
code). `Format` is what `FileSys::format` does to this component.

`FreeBlock` is taken only for a block in `owned`: the callers (INodeTable,
BlockBTreeAdapter) give back what they hold. That they do so once is the
business of their modules; for Namespace it is `CountersConserved`.

Two assumptions on the layout. `LayoutAssumption` is what `create_superblock`
gives (`BasicBlocks <= TotalBlocks`). `SizeAssumption` says that the write
that `reset_bitmap` misplaces stays inside the inode table and that whole
bitmap blocks of ones cover the bitmap itself. Both hold for the disk of 4096 GB
that both programs of the repository open. The second is false for disks below
256 GB, which have less metadata than one bitmap block has bits: there no
metadata is reserved at all, and the first allocation hands out block 0.

### INodeBitmap

The two bitmaps and the inode table are neighbours in one metadata area, and
`reset_bitmap`'s misplaced write goes from one to the other. `INodeBitmap`
extends `BlockAllocator`: `block` is the same function, with the inode bitmap
(`ValidStart` onwards) and the table (`InodeStart` onwards) in it. An inode is a
slot of `SlotSize` bits, the last its type; `Filled` is what a client makes of
the rest. Beside the bits, `at[i]` is what the slot says of the inode's data:
inline, a block, or a storage type that is none of the three.

`AllocateInode` takes the first clear bit of all bitmap blocks and sets the type;
whatever else the slot holds stays. `FreeInode` frees the block that the slot
names, wipes the slot and clears the bit. `write_data` follows the slot too:
`WriteInline`, `WriteMoved` (which takes a block as `allocate_block` does) or
`WriteRefused` if it says inline, `WriteBlock` if it names a block, `WriteNothing` if it
is of no type the code knows. The super block's `free_inodes` starts at
`inodes_cnt` and counts the root.

A data block may lie in the table's tail (the first finding). File data written
there go over the slots in it (`Overwritten`, `WriteAt`): the slots then hold, and
say, what the data do, out of `Contents`. An inode whose copy is in the inode
cache keeps it until that is dropped (`kept`, `CopyDropped`). Once the slot of an
inode in use says something else, the program frees and writes blocks that others
own, bitmaps included, and the model does so with it. The two members of `Contents`
in the run look like a file in the second block of the bitmap and like one in the
inode bitmap. No property of either bitmap survives that, and none is claimed:
`mixed` is a history variable that stays zero (`Unmixed`) as long as no inode in
use shares a block with file data, and each property says what holds until then.
Data in the free end of the table do not count as that: they are written, freed and
formatted over, and disturb nothing. `MaxMixed` bounds how many
operations that change something the run follows afterwards.

`Alone` replaces everything outside the block bitmap by what a format would leave
there, and says that what is left is a run of `BlockAllocator`.

`InodeAssumption` adds to the layout's assumptions that an inode has a bit for its
type beside others, that the inode bitmap has just the bits of the table's inodes
(disks of a multiple of 8 GB), that the super block's counter is wide enough for
`inodes_cnt`, and that `RemainingBlocks <= InodeBlocks`: the blocks that
`reset_bitmap` leaves unmarked lie within the inode table, so that the inode bitmap
itself is reserved. The last holds on every disk for which `SizeAssumption` does (from
256 GB the table alone has more blocks than a bitmap block has bits).

Abstractions: a file has at most one block here (Index storage is `FileData` and
`BPTree`), so that a slot which file data make look like a tree is left out, and so are
block numbers that have no bit. A write to a data block may leave out any slot in it,
as if it did not reach it or its inode were cached.

### BlockCache

`cache_list` and `item` are LRUCache's list and map. `held` stands for the
shared pointers its callers keep: `held[h]` is the buffer in local variable `h`,
and whether it came from `acquire_block`. A variable that gets a new buffer
keeps the old one until `access` has returned, as in the loops of
`reset_bitmap`: that is why `Access(h, k, mut)` decides what to evict with the
old holders. `use_count() != 1` is `Pinned`. Writes through a held buffer
(`WriteBuffer`) happen at any later time, which is what the code relies on.
`Hit`, `MissKeepingAll` and `MissEvicting` are the three courses of `access`.
`Clear` is one action: `LRUCache::clear`'s flush is at once wiped by
`FileDisk::clear`, and a kill inside it leaves what a kill before or after
`Clear` would leave of the client's view (a disk half emptied is not modelled).

The unmount is split into its writes: `BeginUnmount` (super block), `FlushItem`
from the front of the list, `EndUnmount`. `Crash` can come between any two.
`Mount` is the constructor: an empty cache and the super block of the disk.
Blocks are loaded and saved as single values; the fstream below is taken to
write what it is given.

`WriteBackStore` has only a memory, a disk, what the client has acquired and a
flag: acquire, write to what was acquired, release, write back one block, stop
when disk and memory agree, crash back to the disk, erase. Since a block changes
only by a write through an acquired buffer, a cache that loses or invents a
write does not implement it. Capacity, recency, eviction and pinning are what
`BlockCache` adds. The refinement mapping
`Memory` is what a reader would get: the super block in memory for block 0, the
cached buffer if there is one, else the disk.

### INodeCache

`cache_list`, `copy` and `dirty` are INodeTable's list of cached inodes with
their contents and flags; `mem` is the inode table as the block cache would give
it. Operations compute a state through operators that follow the code: `Get`
(hit, load, or eviction of the last and load), `Marked`, `Saved` (which leaves
the flag), `Data` for `write_data`, which writes through or not according to the
storage, and `Linked`, which changes a count and marks nothing. `truth` is what
the inodes would be without a cache, links apart. `out` collects what an
operation evicts: an operation that keeps a raw pointer (`remove_diritem`,
`write_data`) must not evict that inode (`PointersStay`). A cache of two is the
smallest with which `remove_diritem` can work; larger ones evict less. What
operations do on a disk that a kill has robbed of something is not modelled
(`intact`).

### Mount

The path from one run of the program to the next. `step` is where the program is,
from `FileDisk`'s constructor (`OpenImage`, and `Shrink` and `Grow` for an image of
another size), FileSys's constructor (`Mount`), `format` in its parts (`ClearCache`,
`Shrink` and `Grow` of the disk, `WriteSuper`, `WriteBitmaps`, `MakeRoot`), through use, to
the chain of destructors (`Unmount`, `FlushSuper`, write-backs, `Stop`). `Kill` may come
anywhere. The contents are stamps: format and number of the operation that last
changed a part. The block cache is taken for `WriteBackStore`: it may write any
part at any time and loses what it has not written when the program is killed.
The inode cache holds the root's inode apart (`ino`). `whole` says whether a
kill has lost something since the last format.

### Namespace

`nodes[i]` is inode i: its type, whether its data is inline or in a block, its
link count, its entries in order. `used` is the inode bitmap, `free_inodes` the
counter, `space` the number of free blocks, `ret` the last operation that
succeeded or `"failed"`. A path is the inode its parent resolves to
(`Resolvable`, what `lookup_path` can end in) and a last name.

The handlers that call several others (`create_dir`: `allocate_inode`,
`add_diritem` three times, perhaps `free_inode`) compute a state `st` through
operators of the same names, and the action takes it whole: nothing runs
between those calls. `AddDirItem` is faithful in what it ignores: the result of
`write_data`. `RemoveDirItem` keeps the order of the code and does not take back
the link of the removed directory's `".."`.

`Stored[n]` is what `add_diritem` makes of a name: its first 53 bytes. It is a
constant with the properties of cutting (cutting twice is cutting once, the
dots are unchanged); the run has a name that is cut to another.

Abstractions: a file's bytes are never read as entries (a path through a file
finds no name; in the code it searches the file's bytes); a directory fits in
one block (256 entries, `BlockItems`); data blocks are counted here and placed
by BlockAllocator; the inode cache is not there (each `get` sees the inode).
`GrowFile` is the only write: it is what takes blocks away from directories.
Files are grown through a name that resolves, not through old handles.

### FileData

`inode[f]` is an inode of a file: its storage, size and inline bytes, the root
of its tree, and `blocks`, which blocks it has. `block` holds the bytes of the
data blocks, `free` what BlockAllocator can still give. `write_data` falls
through three stages (Inline, Direct, Index), each with a way out in success or
failure; `InInode`, `InBlock` and `InIndex` are those stages, as operators from
a state to the states after it (several, as any free block may be given), and
`WriteData` runs one after the other. `Moved` copies only the bytes within the
size: the rest of a new block keeps what it held. `defined` is a history
variable, the positions whose last write succeeded. `FreeInode` is what removing
the last name of a file does.

The tree is a map kept in one block, as it is for files of up to a thousand
blocks (16 MB): an insert after the first takes no block of its own. That larger trees
implement this map, and what a full disk does to them, is `BPTree`. Reads are of
positions within the size (`ReadByte`).

`FileBytes` has arrays of bytes and no storage. It says that a written byte is
read back until the position is written again; that a write that fails may spoil
its own place only; that nothing done to one file is seen in another. It does
not promise zeros in holes: `read_data` reads zeros where a file has no block, but a
write near by allocates one that is not cleared, and the neighbours then read as
what the block held.

### BPTree

`node` maps blocks to tree nodes: keys, children or values, and the next leaf.
One file's index, from the first data block (`FirstBlock`) through
`insert_block(0, 0, lba)` (`Build`) to insertions of any block not there yet. A value is
modelled by its key: that makes the data block of each insertion a different one, and
a binding to another's block shows. `BlockMap` has the last call beside the map (here
`ret`): an insertion adds the binding it was called with or, if the disk is full, none, a
refused one adds none, and no binding is ever changed or removed but by clearing. `Insert` is
`write_data`'s turn: a data block, then `BPTree::insert`: `GrowRoot` if the root
is full, then `node_insert` call after call (`Down`) as a recursive function. `Split`, `Left`
and `Right` are `split_node` with its two cases. Each allocation may be
refused: the status `"refused"` is a `std::nullopt`, `"lost"` a `node_insert` that returned
false, which `insert` ignores. Where the root's father has been allocated and the
split of the root finds no block, the father's block is lost: the old root stays, and
nobody gives the block back. `space` counts the disk's free blocks; `taken` is what
other files have of them. `Clear` frees the nodes the code's loop reaches, and the data
blocks in the leaves. `InitIndex`, `NextIndex` and `SpecIndex` are named so that one module
can extend both `FileData` and `BPTree`.

### FileHandles and Shell

`FileHandles` adds `fd_table` and `cur_fd` to `Namespace`, with the five operations
on descriptors, and `wrote`, the units written under each name (as it is stored, and
only if `create_file` left an entry: see the second finding). Data is counted in
units of a directory entry and kept in the same `items`, since an inode may be a
file now and a directory later: the storage, the one data block of `Namespace` and
the refusal for want of space are shared. `ReadCount` is the unsigned minimum of
`read_data`.

`Shell` has the next-state relation: the commands of `CLI.hpp` that change anything,
on arguments relative to `cur_path` (one name, `"."` or `".."`). `Joined` is
`path_join`: `".."` removes the last name of the text. `Walk` is the loop of
`lookup_path`: where it is after each name. `cat`, `mkdirn` and `touchn` are
loops of calls, one action per turn (`task`). Paths with a trailing slash and doubled
slashes name the same entries in every operation but `remove_file`, which refuses
the first; a refusal is always among what the model allows.
The user is a careful one: files are closed before they are removed, and all before
a format, as `src/test.cpp` does. For other users nothing is promised (see below).

## 3. Runs

| run | bounds | shows |
|---|---|---|
| `allocator` | 6 bits per bitmap block, 18 blocks: 3 bitmap blocks, metadata of 7 | a whole reserved bitmap block and a remainder of one bit, as on the 4096 GB disk; the cursor moves over all bitmap blocks and wraps; the disk fills up; the counter passes below zero (there are more clear bits than it says) |
| `allocator_tail` | as `allocator` | **violated**: a block of the inode table is handed out |
| `inodes` | 6 bits per block, 12 blocks: 2 bitmap blocks, 1 inode bitmap block, a table of 3 with 2 inodes in each; 5 inodes in use, 2 data blocks, 2 contents, 2 operations once mixed | a remainder of one: the last block of the table is handed out, and inode 2 has a misplaced bit; file data go over slots in use, and the program follows what they say; implements `BlockAllocator` |
| `inode_cache` | 3 inodes, a cache of 2, 2 values | evictions within operations, unmounts, kills |
| `cache` | 4 blocks and block 0, 2 values, capacity 2, 2 holders; symmetric in blocks and holders | evictions that skip a pinned buffer, all pinned, a list longer than the capacity, kills and remounts; implements `WriteBackStore` |
| `mount` | 2 formats, 2 operations after each; every kind of image at first | kills between any two steps; with fairness, a start and a stop end |
| `namespace` | 4 inodes, 3 names of which one is cut to another, 3 entries inline, 5 in a block, one data block | see below |
| `namespace_create` | 3 inodes, 2 names, no cutting | **violated**: a create reports success without an entry |
| `file_data` | 2 files, 3 blocks of 2 bytes, 1 byte inline, 2 values, writes of 1 or 3 bytes below position 5; symmetric | every move between the kinds of storage, also several in one write, a tree with holes, and every way to run out of blocks; implements `FileBytes` |
| `bptree` | 3 keys per node (`M` = 4), 7 keys, 15 blocks, 2 taken by others | leaves, inner nodes and roots are split, up to three levels, in every order; every allocation refused; implements `BlockMap` |
| `shell` | 3 inodes, 2 names, 1 value, reads of up to 2 units, 2 descriptors, a path of 2 names; symmetric | inodes reused between files and directories beside open handles, the working directory removed and made anew |

Why the bounds are enough. Six bits make a bitmap block that is neither one
byte's worth nor a single bit, and three bitmap blocks are the fewest for which
"the cursor", "before it" and "after it" are all non-empty. Two inodes of three bits in a block are enough for a neighbour. Two holders are what
one operation of the code holds at once (a buffer and the one being fetched into
it, or an inode write inside a data write); a cache of two with four blocks has
every mix of pinned, dirty and absent, and could grow by one more than pinning
allows. In `inodes` the misplaced bit falls into a slot that is handed out, and the
exposed block into the last two inodes: five in use are enough for one of them to be
used beside file data. Two operations after that are a copy dropped and a write or a
free that follows it. Two blocks owned at once can be one in the table and one behind it.
An inode cache of two is where every third access evicts. Four inodes are
a root, a directory in
it, something in that, and one more to be created while the others are freed;
three inline entries are the dots and one name, so that the second name already
needs the block. `MaxLinks` bounds `link_cnt`, which leaks; `BlockItems`
bounds a directory; both appear in the guards of the creating actions and
nowhere else. `MaxFd` and `MaxDepth` bound descriptors and the working
directory, `MaxOps` and `MaxFormats` the stamps: two formats are one over a used
disk. Nodes of three keys split into two and one, so that a leaf and a
root are split within seven keys; fifteen blocks are just too few for all of it once
others have taken two. Inner nodes are split only at the root by then; more keys are out of
TLC's reach, and the theorems cover them.

Blocks of two bytes with one inline make every move happen at a boundary and past
it; three blocks are a tree with two of its own, so that one file can starve the
other at each allocation. Writes of three bytes start in the inode, in the first
block or past it and end in the next one or the one after. `MaxSize` bounds where a
write ends.

The properties, where their names do not say it all.

- `InodeBitmapTracksUse`: bits, uses and `free_inodes` agree. `ImplementsAllocator`: only
  blocks handed out are given back, each once, and nothing else writes to the bitmap.
  `HandedOutBlank` and `FreeInodesBlank`: `allocate_inode` relies on a free inode being
  all zero, in the slot but for misplaced bits, in either cache, and in the tree.
  `InodesKept`: nothing but a write to an inode changes its slot. The four of `inodes`
  hold until file data lie in the block of an inode in use.
- `CounterConserved` is modular: it does not exclude that the counter wraps.
- `CacheTransparent`: what `get` returns does not depend on what was evicted. Link
  counts are left out of it, because they can be lost; `LinksNeverShort` says that
  they are lost only upwards, so that no inode is freed that still has a name.
- `CleanIsWhole`, `FormatLeavesNothing`: about parts seen through the caches and on the
  disk. Blocks that a format does not write must be zero.
- `NoDanglingEntry`: entries name allocated inodes, and link counts are never below
  the number of names. `TreeShape`: one parent for each inode, `".."` names it.
  `CountersConserved`: whatever failed. `OneEntryPerStep`: removing an entry by moving the
  last one over it costs no other, and a failed operation changes neither the tree
  nor what is free. `NonEmptyDirKept`: what `src/test.cpp:318` and `:342` test
  for one case.
- `BlocksPartitioned`: what a failed write has allocated is not lost, and no block
  has two places.
- `WellFormed`: order, balance and leaf chain. `HarmOnlyWhenFull`: the code ignores
  what a split below the root returns, so a key or a block can be lost; only by an
  operation that has used up the last block.
- `HandlesAreNames`, `WrittenIsThere`: across the reuse of inodes and the refusals
  for want of space. `ReadsInOrder` is about reads that start within the file.
  `WorkingDirKept`: an `rmdir` whose target is the working directory, when that is empty,
  is the one way to lose it: its own entry is gone from the parent, and the way to the
  parent still leads to a directory. `CatShowsFile`: `cat` shows every unit once and leaves other
  descriptors alone.

Deadlock is checked in every run. `BlockCache`, `INodeCache` and `Mount` are never
stuck: a stopped program can be started; the allocators and the tree always
have a format, a file can always be removed, a tree cleared or a block given back,
a user can change the directory.

Each property has a mutant: an operator next to the definition it would replace,
with the slip of a plausible bug (a bit not set, a flag kept, a check dropped),
under which the property's run fails. PROJECT.json lists the pairs. The type
invariants `TypeOK...` that no run lists are conjuncts of one of their module's
properties.

### Fairness

`Mount` has weak fairness of `Proceed`: what the constructors, `format` and the
destructors do by themselves, since a program that has begun them runs on in its one
thread. Use, the commands `format` and exit, and kills are left to the user and the
host. `StartAndStopEnd` says that under it every start ends in a
running file system, whatever image it found, and every stop ends; `Stop` waits for
all write-backs, each of which leaves one dirty block less.

## 4. What the runs found

1. `BlockAllocator.hpp:27` computes the place of the partly filled bitmap block
   from `inode_block_start_lba` instead of `bitmap_block_start_lba`. On 4096 GB:
   2099713 metadata blocks, 16 whole bitmap blocks, 2561 bits left over that are
   written into an inode's slot instead; LBAs 2097152 to 2099712, the tail of the
   inode table, are handed out as data blocks. No size up to 65535 GB but
   44234 GB is spared. (`allocator_tail`; `ExposureBounded` proves that no more than
   this is exposed, on any disk that satisfies the assumptions.)
2. `INodeTable.hpp:258` ignores that the directory entry could not be written;
   `mkdir` and `touch` report success and leave an inode without a name.
   (`namespace_create`)

Seen while modelling, and kept out of the runs:

- On a disk whose size is an odd number of GB the last bitmap block has bits
  past the end of the disk, all clear; a full disk hands them out and the
  first access throws (`BlockAllocator.hpp:84`).
- The bits that `reset_bitmap` misplaces land, on 4096 GB, in the slot of inode 512: it is
  handed out with a storage type of 0xff, and what is written to it is dropped with
  success reported. (`WriteNothing`)
- Once the inodes in the exposed tail of the table are in use, file data there are read
  as inodes: `free_inode` and `write_data` then free and overwrite whatever blocks those
  seem to name (`INodeTable.hpp:91`, `:184`).
- On a disk whose GB are no multiple of 8, `allocate_inode` hands out inodes past
  the end of the table (`INodeTable.hpp:48`).
- `rmdir` removes files too (`FileSys.hpp:157`); `help` says "Remove directory".
- Links given by `".."` are not taken back: a removed directory which once had a
  subdirectory keeps its inode forever.
- On a full disk an insertion into the block index may be lost with success
  reported (`BPTree.hpp:84`), and blocks may belong to nothing; `bptree` shows that
  this takes a full disk.
- A handle that outlives its file, or a format, reads and writes what gets the
  inode next (`FileSys.hpp:285`).
- A read that starts past the end returns as many bytes as asked for
  (`INodeTable.hpp:110`); a read of no bytes of an empty file in Index storage loops
  over 2^50 block numbers (`:127`).
- `close` writes nothing to the disk, where `src/test.cpp:413` says it does; only an
  unmount does.
- A kill after `format` has written the super block leaves a disk that is mounted
  without a root directory (`FileSys.hpp:76`).
- `write` prints "Written n bytes." also when nothing was (`CLI.hpp:182`).

## 5. Proofs

Every theorem is for all values of the constants that satisfy the named
assumptions of its module.

**Allocator** (`BlockAllocatorProofs`). The inductive invariant is
`TypeOK /\ BitmapTracksOwners /\ CounterConserved` with finiteness of `owned`.
None of the parts stands alone: that a block handed out is not owned
(`NoDoubleAllocation`) is because its bit was clear; that the counter moves with
the cardinality of `owned` is because the block was new. The work is arithmetic:
`DivisionRemainder`, `DivisionUnique`, `LbaParts` and `PartsLba` show that a block
number and its (bitmap block, bit) determine each other; `ModAbsorbs` carries
the counter through its wrap-around; `LayoutFacts` and `ResetMarksReserved` show
which bits are set after a format, the misplaced write included, and use
`SizeAssumption`. `ExposureBounded` bounds the metadata that is handed out to the last
`RemainingBlocks` blocks; `ExactBitmapOnDisk` states when every block handed out exists. `RefusalHonest` is proved as an invariant of its own
step, from the invariant.

**Cache** (`BlockCacheProofs`). The inductive invariant is the type invariant,
`ListMatchesMap`, `CleanIsOnDisk`, `HeldIsTracked` and what holds in the modes
other than running. List and map are related through
`Matches(list, K)`, whose lemmas (front, remove, move to front) are stated for
sequences alone. `Implementation` maps every step to one of the store: a hit or
a miss to `Acquire`, with the victim written back if one is saved. This is where
`CleanIsOnDisk` is needed (a clean victim may be dropped) and `HeldIsTracked`
(a held buffer is not dropped, and is dirty when it changes).
`SizeCorrect` needs the cardinality of the set of pinned keys to be at most that
of the holders.

**Inodes** (`INodeBitmapProofs`). The invariant `InodeInv` is the types, which hold
whatever the program reads from a slot, and, as long as the state is `Unmixed`, `Clean`: the
allocator's own `IInv`, said of the metadata with everything but the block bitmap
replaced (`Alone`), and four facts about the rest. The inode bitmap is exactly `in_use`
and the counter fits (`InodesFit`); what the slots of inodes in use name are the
blocks owned, each by one inode (`DataFit`); no inode in use lies in a block with file
data (`Apart`); free inodes outside such blocks are blank but for misplaced bits
(`FreeBlank`). The last two need each other: allocating an inode beside file data ends
`Unmixed`, so a blank one is all that can be handed out before. `DataFit` is why freeing what
a slot names is a step of the allocator, and `Apart` why it stays true: data only go
over slots of free inodes.
Since the replaced state is a state of `BlockAllocator`, the theorems of
`BlockAllocatorProofs` are not proved again but instantiated: each step from an unmixed
state is shown to be one of the allocator or a stutter, which is also the refinement
`AllocatorImplemented`. What is new is that a write to one area misses the others.
All four properties of the run are proved for every layout with a remainder or without.

**Inode cache** (`INodeCacheProofs`). A clean copy may be dropped at any time and the
table's inode comes back, and links differ between the two because `Linked` marks nothing.
So what `get` returns now is not enough: the invariant is said of `Views`, for each
inode every value that `get` may return now or after any evictions. `Good` asks of each
view that it is what `truth` says (links apart), has at least as many links as names, is
blank if the inode is free, and names inodes in use only. `Inv` is `TypeOK`,
`PointersStay`, an empty cache while the program is down, and `Good` of the
state unless a kill has intervened (`intact`). Each operator on states (`Get`, `Marked`,
`Saved`, `Data`, `Linked` and the rest) has a lemma that says what it does to views; an
operation is then a chain of them. That no operation evicts an inode it points to
(`PointersCorrect`) needs a capacity of at least two, and two suffices.

**Mount** (`MountProofs`). The invariant says for each step of the program which parts in
memory and on the disk are current: `SuperValid` (where the super block is relied on),
`DiskFresh` and `MemoryFresh` (nothing older than the last format lies under a valid super
block), `FormatProgress` (what a format under way has done so far) and `WholeKept` (where
the current version of each part is). Neither property is inductive: what a format leaves
depends on what it found, hence on how the run before ended.

**Namespace** (`NamespaceProofs`). `Inv` has the types, the counters as cardinalities, free
inodes blank, the shape of a directory (`DirShape`: its dots first, all other entries
names), names unique, one parent, and links at least the number of entries
(`NoDanglingEntry`). The links are counts of sets of places: `GrownRefs` and `CutRefs`
say how those change when an entry is added and when the last is moved over one
that goes. The handlers are first reduced to what they do to the inodes
(`CreateFileEffect`, `CreateDirEffect`, `RemovalEffect`), failures after the new inode was
allocated included; `StepEffect` says that every step is one of fresh, unchanged but for
links and storage (`Kept`), one entry more (`Grown`), one entry less (`Cut`). The
invariant is then proved for those four, and so are the step properties
`OneEntryPerStep` and `NonEmptyDirKept`. `TreeShape` is why the root cannot be
removed and a removed directory's `".."` harms nobody.

**File data** (`FileDataProofs`). `Inv` is the types, `BlocksPartitioned`, for each
storage where its bytes are (`ShapesFit`), and that a defined position lies in a
block that the file has (`DefinedBacked`). The last is what makes the refinement go
through although new blocks are not cleared: no defined position can come to lie in one.
The three stages of `write_data` are each shown to keep the invariant and every defined
byte outside the bytes written, and to leave other files alone; `Implementation` then maps a
write that succeeds, or fails half way, to one of `FileBytes`.

**B+ tree** (second part of `FileDataProofs`). `IndexInv` describes the tree without
recursion: `TreeOf` gives every node a height and a share of the keys, from `lo` up to
`hi`. A node's own keys lie in its share and ascend (`Shaped`), an inner node hands each child
the part between two neighbouring keys (`InnerFits`), a leaf's `nxt` is the leaf whose
share begins where its own ends (`LeafFits`), all nodes but the root have a father, and the
root is lower than there are nodes. `NoneEmpty` and the count of all blocks (`Accounted`) complete
it. Heights and shares are not variables; the invariant says that some exist.

The recursive functions are then not computed but recognised. Each is the one function that
satisfies its equations, because in a tree with heights the equations have one
solution: by least counterexample in the height (`Upward`, `Downward`), so no induction
theorem is needed. `HasIs` says that `find` ends in the leaf whose share has the key, `TreeIs`
that `clear` reaches every node, and `ReachedIs` and `DepthsIs` what is below a node and how
deep. From those and `TreeOf` follow order, balance, one father and the chain
(`WellFormedHolds`).

A step is one split, one key into a leaf, or one new root: `SplitKeeps`, `LeafKeeps` and
`TopKeeps` say that each leaves a `TreeOf`, with which heights and shares (`Parts`), and the
lemmas `SplitBound`, `SplitNoneEmpty` and `OneMore` what it does to the keys and the counts. `Going` is
what holds between two calls of `node_insert`: the node at hand has room, its share has
the key, and its height plus the calls made is below the number of blocks. The
last is why the calls end (`NodeInsertIs`): a `"go"` after as many calls as blocks is
impossible. `Effects` sums up what a step does to keys and blocks; `HarmOnlyWhenFull` and the
refinement of `BlockMap` are read off it.

**Command line** (`ShellProofs`). A step of the command line is a step of `Namespace` or
none, apart from what files hold. So the tree is not proved again: `NamespaceProofs` is
instantiated with every file's contents left out (`Bare`), each call is shown to be one
of the effects known there, and `TreeInv` adds that files hold units and that the root's
`".."` is the root. On top of it, `ShellInv` has `HandlesInv` (a handle is on the file
under the name it was opened by), `WroteInv` (the names written to are those of the files
in the tree, and each file has what was written), `CatInv` (what was printed is what lies
before the handle) and `TaskInv`. They need each other: that a handle keeps its file is
because no entry of an open file is removed and entries for one file are never two
(`NamedFileFacts`); that a new inode is on nobody's handle is because it was free and
entries name inodes in use; that a read returns what was written needs both. `WalkTurns`
shows that the recursive function in `Walk` has the values its definition says, by least
counterexample, without induction. `WorkingDirCorrect` follows a path turn by turn while
a step adds or removes one entry (`SameDir` and the lemmas after it): the entry
removed is on the way only if it is the last, because a directory on the way before it
is not empty. `DotDotCorrect` compares the walk with the `".."` that `TreeShape` gives.
The client is the careful one of `Shell`.

The assumptions used are the named ones of the modules: on the layout
(`LayoutAssumption`, `SizeAssumption`, `InodeAssumption`), on the values that are no
results (`ResultAssumption`), on the caches (`StoreAssumption`, `CacheAssumption`), on how
names are cut and sizes ordered (`NamespaceAssumption`, `FileAssumption`), on the room in a
node of the tree, at least four keys (`TreeAssumption`), on what
clients name and read (`HandleAssumption`, `ShellAssumption`), on the
bounds (`MountAssumption`). TLC evaluates them in every run.

Only checked by TLC: `StartAndStopEnd`, because liveness is out of the prover's reach. Every
other property of a passing run is stated by a theorem.

## 6. What is not modelled

- The behaviour of a disk that a kill has left torn (there is no journal and no
  check at mount; any operation may then meet any contents). `WriteBackStore` says what a
  kill loses, `Mount` which file systems are whole.
- Disks below 256 GB, where `SizeAssumption` fails and the first allocation hands out
  block 0, sizes with inodes past the table, and `disk_size_gb` beyond its 16 bits.
- Directories in Index storage (more than 256 entries), and a file's bytes read as
  entries by a path that goes through a file.
- Handles used after their file was removed or the disk formatted, as a client's
  behaviour (the operations themselves are modelled).
- Arguments of several names in the command line, its printing and its parsing of
  numbers; logging; the stress test's own code; `Fnv1aHash.hpp` (unused);
  `LRUCache::remove` and `get_min_key` (no callers); stream errors, errors of the host's file
  system and its buffering below `FileDisk`; failures of memory allocation.

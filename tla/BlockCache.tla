----------------------------- MODULE BlockCache -----------------------------
(***************************************************************************)
(* IOContext over LRUCache over the disk.  Blocks other than block 0 go    *)
(* through a write-back LRU cache; a caller that keeps the shared pointer  *)
(* to a buffer pins it.  The super block is one object in memory, written  *)
(* to block 0 on its own.  The program may be killed at any step.          *)
(***************************************************************************)
EXTENDS Integers, Sequences, FiniteSets, SequencesExt

CONSTANTS
    Lba,            \* blocks that go through the cache
    Super,          \* block 0
    Value, Blank,   \* block contents, and those of a cleared block
    Capacity,       \* capacity, _cache_size
    Holder,         \* local variables of the callers that may keep a buffer
    None            \* a holder that keeps nothing

VARIABLES
    disk,           \* contents of the virtual disk
    sb,             \* the super block in memory
    cache_list,     \* keys of the cache, most recently used first
    item,           \* cache_map: the buffer and dirty flag of each cached key
    held,           \* the shared pointers the callers keep
    mode            \* "running", "flushing" (in ~IOContext) or "stopped"

vars == <<disk, sb, cache_list, item, held, mode>>

Block == Lba \cup {Super}
Item == [val : Value, dirty : BOOLEAN]
Hold == [key : Lba, mut : BOOLEAN]

ASSUME StoreAssumption == Super \notin Lba /\ Blank \in Value
ASSUME CacheAssumption == Capacity \in Nat \ {0} /\ None \notin Hold /\ IsFiniteSet(Holder)

EmptyCache == [k \in {} |-> Blank]

\* splice: the item at position i of the list becomes its first.
ToFront(list, i) == <<list[i]>> \o RemoveAt(list, i)

Pinned(k) == \E h \in Holder : held[h] # None /\ held[h].key = k
NoHolders == \A h \in Holder : held[h] = None
-----------------------------------------------------------------------------
Init ==
    /\ disk = [k \in Block |-> Blank]
    /\ sb = Blank
    /\ cache_list = <<>>
    /\ item = EmptyCache
    /\ held = [h \in Holder |-> None]
    /\ mode = "running"

\* Mutant of Hit: taking a buffer to change it does not mark it dirty.
HitClean(k, mut) ==
    /\ k \in DOMAIN item
    /\ \E i \in DOMAIN cache_list :
        cache_list[i] = k /\ cache_list' = ToFront(cache_list, i)
    /\ UNCHANGED <<item, disk>>

\* LRUCache::access finds the key: it moves to the front.
Hit(k, mut) ==
    /\ k \in DOMAIN item
    /\ \E i \in DOMAIN cache_list :
        cache_list[i] = k /\ cache_list' = ToFront(cache_list, i)
    /\ item' = [item EXCEPT ![k].dirty = @ \/ mut]
    /\ UNCHANGED disk

\* The kept items and the one for k, read from the disk.
Loaded(k, mut, kept) ==
    [x \in kept \cup {k} |->
        IF x = k THEN [val |-> disk[k], dirty |-> mut] ELSE item[x]]

\* Mutant of MissKeepingAll: a miss never waits for room.
MissAlwaysGrows(k, mut) ==
    /\ k \notin DOMAIN item
    /\ cache_list' = <<k>> \o cache_list
    /\ item' = Loaded(k, mut, DOMAIN item)
    /\ UNCHANGED disk

\* A miss with room left, or with every cached buffer in somebody's hands:
\* evict finds nothing to remove and the list grows past its capacity.
MissKeepingAll(k, mut) ==
    /\ k \notin DOMAIN item
    /\ Len(cache_list) < Capacity \/ \A x \in DOMAIN item : Pinned(x)
    /\ cache_list' = <<k>> \o cache_list
    /\ item' = Loaded(k, mut, DOMAIN item)
    /\ UNCHANGED disk

\* Mutant of IsVictim: the least recently used item goes, pinned or not.
IsVictimPinned(i) == i = Len(cache_list)

\* The position of the item evict removes: the least recently used one that
\* nobody holds.
IsVictim(i) ==
    /\ ~Pinned(cache_list[i])
    /\ \A j \in i + 1 .. Len(cache_list) : Pinned(cache_list[j])

\* Mutant of Saved: the victim's contents are dropped.
SavedNever(old) == disk

\* The disk after evict has saved the victim, if it was dirty.
Saved(old) ==
    IF item[old].dirty THEN [disk EXCEPT ![old] = item[old].val] ELSE disk

\* Mutant of MissEvicting: the victim stays in the recency list.
MissEvictingKeepsEntry(k, mut) ==
    /\ k \notin DOMAIN item
    /\ Len(cache_list) >= Capacity
    /\ \E i \in DOMAIN cache_list :
        /\ IsVictim(i)
        /\ disk' = Saved(cache_list[i])
        /\ cache_list' = <<k>> \o cache_list
        /\ item' = Loaded(k, mut, DOMAIN item \ {cache_list[i]})

\* A miss in a full cache: the victim makes room.
MissEvicting(k, mut) ==
    /\ k \notin DOMAIN item
    /\ Len(cache_list) >= Capacity
    /\ \E i \in DOMAIN cache_list :
        /\ IsVictim(i)
        /\ disk' = Saved(cache_list[i])
        /\ cache_list' = <<k>> \o RemoveAt(cache_list, i)
        /\ item' = Loaded(k, mut, DOMAIN item \ {cache_list[i]})

\* read_block (mut = FALSE) and acquire_block (mut = TRUE) into variable h,
\* which keeps its old buffer until the new one is there.  Block 0 gives a
\* null pointer.
Access(h, k, mut) ==
    /\ mode = "running"
    /\ k # Super
    /\ \/ Hit(k, mut)
       \/ MissKeepingAll(k, mut)
       \/ MissEvicting(k, mut)
    /\ held' = [held EXCEPT ![h] = [key |-> k, mut |-> mut]]
    /\ UNCHANGED <<sb, mode>>

\* The caller changes the buffer it acquired, any time until it lets it go.
WriteBuffer(h, v) ==
    /\ mode = "running"
    /\ held[h] # None
    /\ held[h].mut
    /\ item' = [item EXCEPT ![held[h].key].val = v]
    /\ UNCHANGED <<disk, sb, cache_list, held, mode>>

\* The caller's shared pointer goes out of scope.
Release(h) ==
    /\ held[h] # None
    /\ held' = [held EXCEPT ![h] = None]
    /\ UNCHANGED <<disk, sb, cache_list, item, mode>>

\* A component changes a field of the super block.
UpdateSuper(v) ==
    /\ mode = "running"
    /\ sb' = v
    /\ UNCHANGED <<disk, cache_list, item, held, mode>>

\* flush_super_block, which format calls.
FlushSuperBlock ==
    /\ mode = "running"
    /\ disk' = [disk EXCEPT ![Super] = sb]
    /\ UNCHANGED <<sb, cache_list, item, held, mode>>

\* IOContext::clear, which format calls when no call holds a buffer: the cache
\* is flushed and emptied, then the disk cleared.
Clear ==
    /\ mode = "running"
    /\ NoHolders
    /\ disk' = [k \in Block |-> Blank]
    /\ cache_list' = <<>>
    /\ item' = EmptyCache
    /\ UNCHANGED <<sb, held, mode>>
-----------------------------------------------------------------------------
\* ~IOContext: flush_all writes the super block, ...
BeginUnmount ==
    /\ mode = "running"
    /\ NoHolders
    /\ disk' = [disk EXCEPT ![Super] = sb]
    /\ mode' = "flushing"
    /\ UNCHANGED <<sb, cache_list, item, held>>

Dirty == {k \in DOMAIN item : item[k].dirty}

\* ... then each dirty buffer of the cache, from the front of the list, ...
FlushItem(k) ==
    /\ mode = "flushing"
    /\ k \in Dirty
    /\ \E i \in DOMAIN cache_list :
        /\ cache_list[i] = k
        /\ \A j \in 1 .. i - 1 : cache_list[j] \notin Dirty
    /\ disk' = Saved(k)
    /\ item' = [item EXCEPT ![k].dirty = FALSE]
    /\ UNCHANGED <<sb, cache_list, held, mode>>

\* What is left of the program's memory when it is gone.
Gone ==
    /\ mode' = "stopped"
    /\ sb' = Blank
    /\ cache_list' = <<>>
    /\ item' = EmptyCache
    /\ held' = [h \in Holder |-> None]

\* ... and the program ends.
EndUnmount ==
    /\ mode = "flushing"
    /\ Dirty = {}
    /\ Gone
    /\ UNCHANGED disk

\* The program is killed, between any two steps.
Crash ==
    /\ mode # "stopped"
    /\ Gone
    /\ UNCHANGED disk

\* FileSys's constructor: an empty cache, the super block from block 0.
Mount ==
    /\ mode = "stopped"
    /\ mode' = "running"
    /\ sb' = disk[Super]
    /\ UNCHANGED <<disk, cache_list, item, held>>

Next ==
    \/ \E h \in Holder, k \in Block, mut \in BOOLEAN : Access(h, k, mut)
    \/ \E h \in Holder, v \in Value : WriteBuffer(h, v)
    \/ \E h \in Holder : Release(h)
    \/ \E v \in Value : UpdateSuper(v)
    \/ FlushSuperBlock
    \/ Clear
    \/ BeginUnmount
    \/ \E k \in Lba : FlushItem(k)
    \/ EndUnmount
    \/ Crash
    \/ Mount

Spec == Init /\ [][Next]_vars
-----------------------------------------------------------------------------
\* The variables keep their types.
TypeOK ==
    /\ disk \in [Block -> Value]
    /\ sb \in Value
    /\ cache_list \in Seq(Lba)
    /\ DOMAIN item \subseteq Lba /\ item \in [DOMAIN item -> Item]
    /\ held \in [Holder -> Hold \cup {None}]
    /\ mode \in {"running", "flushing", "stopped"}

\* The recency list and the map stay two views of one cache: splice, erase and
\* push_front keep every cached key in the list exactly once.
ListMatchesMap ==
    /\ \A k \in DOMAIN item : \E i \in DOMAIN cache_list : cache_list[i] = k
    /\ \A i \in DOMAIN cache_list : cache_list[i] \in DOMAIN item
    /\ \A i, j \in DOMAIN cache_list : cache_list[i] = cache_list[j] => i = j

\* A buffer not marked dirty is what the disk has: dropping it loses nothing.
CleanIsOnDisk == \A k \in DOMAIN item : ~item[k].dirty => item[k].val = disk[k]

\* A buffer somebody holds is still the cache's buffer for that block (evict
\* skips it), and while its holder may write to it, it stays marked dirty, so
\* that a write made long after acquire_block returned still reaches the disk.
HeldIsTracked ==
    \A h \in Holder : held[h] # None =>
        /\ held[h].key \in DOMAIN item
        /\ held[h].mut => item[held[h].key].dirty

\* Pinning can push the cache past its capacity, but only by the buffers held:
\* it is bounded by what one operation pins, whatever the history.
SizeBounded ==
    Len(cache_list) <= Capacity \/ Len(cache_list) <= Cardinality(Holder) + 1

\* Seen through the cache, the program runs on a store in which a block changes
\* only by a write through an acquired buffer, that never loses one to an
\* eviction, and that is complete on the disk after a clean unmount.
Memory ==
    [k \in Block |->
        IF mode = "stopped" THEN disk[k]
        ELSE IF k = Super THEN sb
        ELSE IF k \in DOMAIN item THEN item[k].val
        ELSE disk[k]]

Running == mode # "stopped"

Store == INSTANCE WriteBackStore WITH mem <- Memory, dsk <- disk, up <- Running

ImplementsStore == Store!Spec
=============================================================================

----------------------------- MODULE INodeCache -----------------------------
(***************************************************************************)
(* INodeTable's cache of inodes over the inode table in the block cache:   *)
(* what is loaded, evicted, marked dirty and written through by the        *)
(* operations on directories and files, over unmounts and kills.           *)
(*                                                                         *)
(* A directory's data are the inodes it names (the dots left out), a       *)
(* file's data a value.  The block cache is taken for what WriteBackStore  *)
(* promises: a clean stop keeps what it was given.                         *)
(***************************************************************************)
EXTENDS Integers, SequencesExt

CONSTANTS
    InodeCount,     \* inodes_cnt
    Capacity,       \* max_cache_size: 16384
    Value, Zero,    \* what files hold, and what they hold at first
    MaxLinks        \* bound: link_cnt is a 32-bit counter

VARIABLES
    cache_list,     \* the cached inodes, the last used first
    copy,           \* their contents
    dirty,          \* their dirty flags
    mem,            \* the inode table, as read through the block cache
    used,           \* the inode bitmap
    up,             \* the program runs
    intact,         \* history: no kill has lost anything since the last format
    truth,          \* history: the inodes without a cache, but for their links
    dangling        \* history: the last operation evicted an inode to which it
                    \* had a raw pointer

vars == <<cache_list, copy, dirty, mem, used, up, intact, truth, dangling>>

Inode == 0 .. InodeCount - 1
Root == 0

\* remove_diritem has two inodes at a time: a cache of one would not do.
ASSUME CacheAssumption ==
    /\ InodeCount \in Nat \ {0}
    /\ Capacity \in Nat /\ Capacity >= 2
    /\ Zero \in Value
    /\ MaxLinks \in Nat

INode ==
    [type : {"File", "Directory"}, links : 0 .. MaxLinks + 1, names : SUBSET Inode, data : Value]

Blank == [type |-> "File", links |-> 0, names |-> {}, data |-> Zero]
EmptyRoot == [i \in Inode |-> IF i = Root THEN [Blank EXCEPT !.type = "Directory"] ELSE Blank]
-----------------------------------------------------------------------------
\* An operation works on st = [list, copy, dirty, mem, out, used, ideal].

State == [list |-> cache_list, copy |-> copy, dirty |-> dirty, mem |-> mem,
          out |-> {}, used |-> used, ideal |-> truth]

\* Where the inode i is in the list, or would be.
PlaceIn(list, i) ==
    IF Contains(list, i) THEN CHOOSE n \in DOMAIN list : list[n] = i ELSE Len(list) + 1

\* Mutant of ToFront: a hit does not count as a use.
ToFrontNever(list, i) == IF Contains(list, i) THEN list ELSE <<i>> \o list

\* The inode i comes first; those that were before it move back by one.
ToFront(list, i) ==
    LET at == PlaceIn(list, i)
    IN  [n \in DOMAIN list \cup {at} |->
            IF n = 1 THEN i ELSE IF n <= at THEN list[n - 1] ELSE list[n]]

\* Mutant of Evict: the flag is not looked at; nothing is written.
EvictDropping(st) == [st EXCEPT !.list = Front(@), !.dirty = @ \ {Last(st.list)},
                                !.out = @ \cup {Last(st.list)}]

\* The last inode makes room, written to its block if it is dirty.
Evict(st) ==
    LET i == Last(st.list)
    IN  [st EXCEPT !.list = Front(@),
                   !.dirty = @ \ {i},
                   !.mem = IF i \in st.dirty THEN [st.mem EXCEPT ![i] = st.copy[i]] ELSE @,
                   !.out = @ \cup {i}]

\* get: an inode that is not cached is loaded, clean.
Get(st, i) ==
    LET room == IF Len(st.list) < Capacity THEN st ELSE Evict(st)
    IN  IF Contains(st.list, i)
        THEN [st EXCEPT !.list = ToFront(@, i)]
        ELSE [room EXCEPT !.list = ToFront(@, i), !.copy = [room.copy EXCEPT ![i] = room.mem[i]]]

\* get of an inode to which the caller will keep a pointer.
Taken(st, i) == LET got == Get(st, i) IN [got EXCEPT !.out = @ \ {i}]

Marked(st, i) == [st EXCEPT !.dirty = @ \cup {i}]

\* write_inode_to_disk of the cached copy, which stays dirty.
Saved(st, i) == [st EXCEPT !.mem = [st.mem EXCEPT ![i] = st.copy[i]]]

\* write_data.  It writes the inode through while the data are in the inode or
\* in one block, leaves that to the cache in Index storage, and may fail.
How == {"saved", "kept", "failed"}
Data(st, i, names, data, how) ==
    LET put(nodes) == [nodes EXCEPT ![i] = [nodes[i] EXCEPT !.names = names, !.data = data]]
        got == Marked(Get(st, i), i)
        done == [got EXCEPT !.copy = put(got.copy), !.ideal = put(got.ideal)]
    IN  CASE how = "saved" -> Saved(done, i)
          [] how = "kept" -> done
          [] how = "failed" -> got

\* A change of the link count marks nothing.
Linked(st, i, change) ==
    LET got == Get(st, i)
        node == got.copy[i]
    IN  [got EXCEPT !.copy = [got.copy EXCEPT ![i] = [node EXCEPT !.links = node.links + change]]]

\* Mutant of Allocate: the new inode is not marked.
AllocateUnmarked(st, i, type) ==
    LET got == Get(st, i)
        set(nodes) == [nodes EXCEPT ![i] = [nodes[i] EXCEPT !.type = type]]
    IN  [got EXCEPT !.copy = set(got.copy), !.ideal = set(got.ideal), !.used = @ \cup {i}]

\* allocate_inode, but for the choice.
Allocate(st, i, type) ==
    LET got == Marked(Get(st, i), i)
        set(nodes) == [nodes EXCEPT ![i] = [nodes[i] EXCEPT !.type = type]]
    IN  [got EXCEPT !.copy = set(got.copy), !.ideal = set(got.ideal), !.used = @ \cup {i}]

\* Mutant of Wipe: the wiped inode is not marked.
WipeUnmarked(st, i) ==
    LET got == Get(st, i)
        set(nodes) == [nodes EXCEPT ![i] = Blank]
    IN  [got EXCEPT !.copy = set(got.copy), !.ideal = set(got.ideal), !.used = @ \ {i}]

\* free_inode.
Wipe(st, i) ==
    LET got == Marked(Get(st, i), i)
        set(nodes) == [nodes EXCEPT ![i] = Blank]
    IN  [got EXCEPT !.copy = set(got.copy), !.ideal = set(got.ideal), !.used = @ \ {i}]

\* add_diritem of "." and "..", which fit in the new inode.
Dots(st, i, p) ==
    Linked(Marked(Data(st, i, {}, Zero, "saved"), i), p, 1)

\* add_diritem of a name in the directory d; the result of write_data is ignored.
AddDirItem(st, d, to, how) ==
    LET got == Get(st, d)
    IN  Linked(Marked(Get(Data(got, d, got.copy[d].names \cup {to}, Zero, how), d), d), to, 1)

NextInode == CHOOSE i \in Inode \ used : \A j \in Inode \ used : i <= j
-----------------------------------------------------------------------------
Init ==
    /\ cache_list = <<>>
    /\ copy = EmptyRoot
    /\ dirty = {}
    /\ mem = EmptyRoot
    /\ used = {Root}
    /\ up = TRUE
    /\ intact = TRUE
    /\ truth = EmptyRoot
    /\ dangling = FALSE

\* The operation leaves st, and kept pointers to the inodes in pointers.
Becomes(st, pointers) ==
    /\ cache_list' = st.list
    /\ copy' = [i \in Inode |-> IF Contains(st.list, i) THEN st.copy[i] ELSE Blank]
    /\ dirty' = st.dirty
    /\ mem' = st.mem
    /\ used' = st.used
    /\ truth' = [i \in Inode |-> [st.ideal[i] EXCEPT !.links = 0]]
    /\ dangling' = (st.out \cap pointers # {})
    /\ UNCHANGED <<up, intact>>

Running == up /\ intact

\* get_inode_info, and each step of lookup_path.
Lookup(i) ==
    /\ Running /\ i \in used
    /\ Becomes(Get(State, i), {})

\* create_dir and create_file under p, which may be a file: then the new inode
\* is freed again.
Create(p, type, how) ==
    LET i == NextInode
        new == Allocate(Get(State, p), i, type)
        st == IF type = "Directory" THEN Dots(new, i, p) ELSE new
    IN  /\ Running /\ p \in used /\ used # Inode
        /\ Get(State, p).copy[p].links < MaxLinks
        /\ IF Get(State, p).copy[p].type = "Directory"
           THEN Becomes(AddDirItem(st, p, i, how), {})
           ELSE Becomes(Wipe(Get(st, p), i), {})

\* remove_diritem of the entry of i in p, with pointers to both.  The last entry
\* is written over it with the old size, which then shrinks.
RemoveEntry(p, i, how) ==
    LET found == Linked(Taken(Taken(State, p), i), i, -1)
        rest == Get(IF found.copy[i].links = 0 THEN Wipe(found, i) ELSE found, p)
        moved == Data(rest, p, rest.copy[p].names, Zero, how)
        shrunk(nodes) == [nodes EXCEPT ![p] = [nodes[p] EXCEPT !.names = nodes[p].names \ {i}]]
    IN  /\ Running /\ p \in used
        /\ i \in Get(State, p).copy[p].names
        /\ Get(Get(State, p), i).copy[i].names = {}
        /\ Becomes(Marked([moved EXCEPT !.copy = shrunk(moved.copy), !.ideal = shrunk(moved.ideal)], p), {p, i})

\* write_data of a file.
WriteFile(i, v, how) ==
    /\ Running /\ i \in used
    /\ Get(State, i).copy[i].type = "File"
    /\ Becomes(Data(Taken(State, i), i, {}, v, how), {i})

\* flush: every dirty inode goes to its block.
Flushed == [i \in Inode |-> IF i \in dirty THEN copy[i] ELSE mem[i]]

CacheEmpty ==
    /\ cache_list' = <<>>
    /\ copy' = [i \in Inode |-> Blank]
    /\ dirty' = {}
    /\ dangling' = FALSE

\* The destructors: INodeTable's flush, then that of the block cache.
Unmount ==
    /\ up
    /\ up' = FALSE
    /\ mem' = Flushed
    /\ CacheEmpty
    /\ UNCHANGED <<used, intact, truth>>

\* A kill: what was not in the inode table is lost, and so may be what was not
\* yet on the disk.  What is left of a disk that has lost something is not modelled.
Kill ==
    /\ up
    /\ up' = FALSE
    /\ intact' \in {FALSE, intact /\ Flushed = mem}
    /\ CacheEmpty
    /\ UNCHANGED <<mem, used, truth>>

Mount ==
    /\ ~up
    /\ up' = TRUE
    /\ CacheEmpty
    /\ UNCHANGED <<mem, used, intact, truth>>

\* format: caches and disk are cleared; the new root is flushed.
Format ==
    /\ up
    /\ mem' = EmptyRoot
    /\ used' = {Root}
    /\ truth' = EmptyRoot
    /\ intact' = TRUE
    /\ CacheEmpty
    /\ UNCHANGED up

Next ==
    \/ \E i \in Inode : Lookup(i)
    \/ \E p \in Inode, type \in {"File", "Directory"}, how \in How : Create(p, type, how)
    \/ \E p, i \in Inode, how \in {"saved", "kept"} : RemoveEntry(p, i, how)
    \/ \E i \in Inode, v \in Value, how \in How : WriteFile(i, v, how)
    \/ Unmount \/ Kill \/ Mount \/ Format

Spec == Init /\ [][Next]_vars
-----------------------------------------------------------------------------
\* An inode as get returns it, or would after a mount.
View(i) == IF Contains(cache_list, i) THEN copy[i] ELSE mem[i]

\* How many entries name an inode, the ".." of its subdirectories included.
Refs(i) ==
    Cardinality({d \in used : i \in truth[d].names})
        + Cardinality({j \in truth[i].names : truth[j].type = "Directory"})

\* The list has an inode once, only cached inodes are dirty, and the cache keeps
\* to its size.
TypeOK ==
    /\ cache_list \in Seq(Inode) /\ IsInjective(cache_list) /\ Len(cache_list) <= Capacity
    /\ dirty \subseteq Range(cache_list)
    /\ used \subseteq Inode
    /\ {copy, mem, truth} \subseteq [Inode -> INode]
    /\ {up, intact, dangling} \subseteq BOOLEAN

\* Whatever was evicted, written through or flushed, what get returns is what the
\* last operation left, also after an unmount and a mount: type, entries, data.
CacheTransparent ==
    /\ TypeOK
    /\ intact => \A i \in Inode : [View(i) EXCEPT !.links = 0] = truth[i]

\* A link count that was changed without a mark may be lost with an eviction, but
\* never so that an inode has fewer links than entries, and is freed too early.
LinksNeverShort == intact => \A i \in used : View(i).links >= Refs(i)

\* An inode that is free is blank wherever allocate_inode may load it from.
FreeInodesBlank == intact => \A i \in Inode \ used : View(i) = Blank

\* A raw pointer to a cached inode never dangles: no operation makes the cache
\* drop an inode it has a pointer to, even when the cache holds only two.
PointersStay == ~dangling
=============================================================================

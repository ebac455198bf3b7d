----------------------------- MODULE Namespace -----------------------------
(***************************************************************************)
(* The directory tree: FileSys's operations on paths over INodeTable's     *)
(* inodes, directory entries, link counts and inode bitmap.                *)
(*                                                                         *)
(* A path is given as the inode its parent resolves to and a last name.    *)
(* The bytes of a file never read as a directory entry here, so a file     *)
(* used as a directory has no entries.  Data blocks are counted, not       *)
(* placed (BlockAllocator places them); a directory's entries fit in its   *)
(* inode or in one block (the Index storage is not modelled here).         *)
(***************************************************************************)
EXTENDS Integers, Sequences, SequencesExt

CONSTANTS
    InodeCount,     \* inodes_cnt
    Name,           \* names a client uses
    Dot, DotDot,    \* "." and ".."
    Stored,         \* what add_diritem makes of a name: 53 characters of it
    InlineItems,    \* inode_inline_data_size / diritem_size: 7 in the code
    BlockItems,     \* block_size / diritem_size: 256 in the code
    TotalSpace,     \* free data blocks of a new file system
    MaxLinks        \* bound: link_cnt is a 32-bit counter

VARIABLES
    used,           \* the inode bitmap
    nodes,          \* the inodes
    free_inodes,    \* the super block's counter
    space,          \* free data blocks
    ret             \* the last operation, or "failed"

vars == <<used, nodes, free_inodes, space, ret>>

Inode == 0 .. InodeCount - 1
Root == 0
AnyName == Name \cup {Dot, DotDot}

ASSUME NamespaceAssumption ==
    /\ InodeCount \in Nat \ {0}
    /\ {Dot, DotDot} \cap Name = {} /\ Dot # DotDot
    /\ Stored \in [AnyName -> AnyName]
    /\ \A n \in Name : Stored[n] \in Name
    /\ \A n \in AnyName : Stored[Stored[n]] = Stored[n]
    /\ Stored[Dot] = Dot /\ Stored[DotDot] = DotDot
    /\ InlineItems \in Nat /\ InlineItems >= 2
    /\ BlockItems \in Nat /\ BlockItems > InlineItems
    /\ TotalSpace \in Nat /\ MaxLinks \in Nat

DirItem == [name : AnyName, id : Inode]

INode ==
    [type : {"File", "Directory"},
     storage : {"Inline", "Direct"},
     links : 0 .. MaxLinks + 1,
     items : Seq(DirItem)]

Blank == [type |-> "File", storage |-> "Inline", links |-> 0, items |-> <<>>]
-----------------------------------------------------------------------------
\* find_inode_by_name, as positions in a directory's list of entries.
Entries(node, n) == {i \in DOMAIN node.items : node.items[i].name = n}
Has(node, n) == Entries(node, n) # {}
FirstEntry(node, n) == CHOOSE i \in Entries(node, n) : \A j \in Entries(node, n) : i <= j
Target(d, n) == nodes[d].items[FirstEntry(nodes[d], n)].id

\* The inodes lookup_path can end in: the smallest set that has the root and
\* the target of every entry of its members.
Resolvable ==
    {i \in Inode :
        \A S \in SUBSET Inode :
            /\ Root \in S
            /\ \A d \in S : \A k \in DOMAIN nodes[d].items : nodes[d].items[k].id \in S
            => i \in S}

\* Mutant of Accepts: the stored name is not looked for.
AcceptsAnyName(node, n) == node.type = "Directory"

\* add_diritem's checks.
Accepts(node, n) == node.type = "Directory" /\ ~Has(node, Stored[n])

\* Mutant of Counted: the new link is not counted.
CountedNever(ns, d, to) == ns

\* The inodes ns once d's new entry for to is counted; "." is not.
Counted(ns, d, to) == IF d = to THEN ns ELSE [ns EXCEPT ![to].links = @ + 1]

\* add_diritem on the state st = [ok, nodes, space] a handler has reached: the
\* entry is appended through write_data, which may need the directory's first
\* data block and fail for want of one.  The result of write_data is ignored:
\* the target's link is counted whether the entry was written or not.
AddDirItem(st, d, n, to) ==
    LET node == st.nodes[d]
        grows == node.storage = "Inline" /\ Len(node.items) >= InlineItems
        written == grows => st.space > 0
        item == [name |-> Stored[n], id |-> to]
        filled == [node EXCEPT !.items = Append(@, item),
                               !.storage = IF grows THEN "Direct" ELSE @]
    IN  IF ~Accepts(node, n)
        THEN [ok |-> FALSE, space |-> st.space, nodes |-> st.nodes]
        ELSE [ok |-> TRUE,
              space |-> IF grows /\ written THEN st.space - 1 ELSE st.space,
              nodes |-> Counted(IF written THEN [st.nodes EXCEPT ![d] = filled]
                                ELSE st.nodes, d, to)]

\* Mutant of Freed: the inode is not wiped.
FreedUnwiped(st, i) ==
    [st EXCEPT !.space = IF st.nodes[i].storage = "Direct" THEN @ + 1 ELSE @]

\* free_inode, but for the bitmap and its counter: give back the data block
\* and wipe the inode.
Freed(st, i) ==
    [st EXCEPT
        !.space = IF st.nodes[i].storage = "Direct" THEN @ + 1 ELSE @,
        !.nodes = [@ EXCEPT ![i] = Blank]]

\* allocate_inode: the first clear bit.
NextInode == CHOOSE i \in Inode \ used : \A j \in Inode \ used : i <= j

\* The handler's state after allocate_inode set the type of the new inode.
Allocated(type) ==
    [ok |-> TRUE, space |-> space, nodes |-> [nodes EXCEPT ![NextInode].type = type]]
-----------------------------------------------------------------------------
\* create_root_dir on a blank inode table.
RootDir ==
    LET blank == [ok |-> TRUE, space |-> TotalSpace,
                  nodes |-> [i \in Inode |->
                                IF i = Root THEN [Blank EXCEPT !.type = "Directory"] ELSE Blank]]
    IN  AddDirItem(AddDirItem(blank, Root, Dot, Root), Root, DotDot, Root).nodes

Init ==
    /\ used = {Root}
    /\ nodes = RootDir
    /\ free_inodes = InodeCount - 1
    /\ space = TotalSpace
    /\ ret = "none"

\* Mutant of Format: the old tree survives.
FormatKeepsTree ==
    /\ used' = {Root}
    /\ free_inodes' = InodeCount - 1
    /\ space' = TotalSpace
    /\ ret' = "format"
    /\ UNCHANGED nodes

\* FileSys::format.
Format ==
    /\ used' = {Root}
    /\ nodes' = RootDir
    /\ free_inodes' = InodeCount - 1
    /\ space' = TotalSpace
    /\ ret' = "format"

\* The early returns of create_dir and create_file: the name is there already,
\* or there is no inode.
CreateRefused(p, n) ==
    /\ Has(nodes[p], n) \/ used = Inode
    /\ ret' = "failed"
    /\ UNCHANGED <<used, nodes, free_inodes, space>>

\* The rest of both, given what the attempt to enter the new inode in its
\* parent left: it stays, or is freed again.
Commit(st, op) ==
    /\ st.ok
    /\ used' = used \cup {NextInode}
    /\ free_inodes' = free_inodes - 1
    /\ nodes' = st.nodes
    /\ space' = st.space
    /\ ret' = op

\* Mutant of Undo: the new inode is not freed.
UndoLeaking(st) ==
    /\ ~st.ok
    /\ used' = used \cup {NextInode}
    /\ free_inodes' = free_inodes - 1
    /\ nodes' = st.nodes
    /\ space' = st.space
    /\ ret' = "failed"

Undo(st) ==
    /\ ~st.ok
    /\ nodes' = Freed(st, NextInode).nodes
    /\ space' = Freed(st, NextInode).space
    /\ ret' = "failed"
    /\ UNCHANGED <<used, free_inodes>>

\* create_dir: ".", ".." (a link to the parent), then the parent's entry.
NewDir(p, n) ==
    LET i == NextInode
        dots == AddDirItem(AddDirItem(Allocated("Directory"), i, Dot, i), i, DotDot, p)
    IN  AddDirItem(dots, p, n, i)

CreateDir(p, n) ==
    /\ ~Has(nodes[p], n) /\ used # Inode
    /\ Len(nodes[p].items) < BlockItems /\ nodes[p].links < MaxLinks
    /\ Commit(NewDir(p, n), "mkdir") \/ Undo(NewDir(p, n))

\* create_file.
CreateFile(p, n) ==
    LET st == AddDirItem(Allocated("File"), p, n, NextInode)
    IN  /\ ~Has(nodes[p], n) /\ used # Inode
        /\ Len(nodes[p].items) < BlockItems
        /\ Commit(st, "touch") \/ Undo(st)

\* is_dir_empty compares the size with that of two entries.
IsDirEmpty(i) == Len(nodes[i].items) = 2

\* Mutant of WithoutEntry: the last entry is cut off without being moved.
WithoutEntryCut(items, k) == SubSeq(items, 1, Len(items) - 1)

\* The entries with position k gone: the last one takes its place.
WithoutEntry(items, k) ==
    SubSeq([items EXCEPT ![k] = items[Len(items)]], 1, Len(items) - 1)

\* Mutant of Removable: a directory with entries is removed.
RemovableAnyDir(p, n) == n \notin {Dot, DotDot} /\ Has(nodes[p], n)

\* remove_diritem's checks.
Removable(p, n) ==
    /\ n \notin {Dot, DotDot}
    /\ Has(nodes[p], n)
    /\ nodes[Target(p, n)].type = "Directory" => IsDirEmpty(Target(p, n))

\* The rest of remove_diritem: the target loses a link and is freed with its
\* last one, and the entry goes.  The link its ".." gave to the parent is not
\* taken back.
RemoveDirItem(p, n, op) ==
    LET k == FirstEntry(nodes[p], n)
        i == Target(p, n)
        unlinked == [ok |-> TRUE, space |-> space, nodes |-> [nodes EXCEPT ![i].links = @ - 1]]
        last == unlinked.nodes[i].links = 0
        st == IF last THEN Freed(unlinked, i) ELSE unlinked
    IN  /\ Removable(p, n)
        /\ used' = IF last THEN used \ {i} ELSE used
        /\ free_inodes' = IF last THEN free_inodes + 1 ELSE free_inodes
        /\ nodes' = [st.nodes EXCEPT ![p].items = WithoutEntry(@, k)]
        /\ space' = st.space
        /\ ret' = op

\* The refusals of remove_file and remove_dir: a dot name, no such entry, a
\* directory (remove_file) or a directory in use (remove_dir).
RemoveRefused(p, n) ==
    /\ \/ n \in {Dot, DotDot}
       \/ ~Has(nodes[p], n)
       \/ Has(nodes[p], n) /\ nodes[Target(p, n)].type = "Directory"
    /\ ret' = "failed"
    /\ UNCHANGED <<used, nodes, free_inodes, space>>

\* remove_file asks has_file first, ...
RemoveFile(p, n) ==
    /\ Has(nodes[p], n)
    /\ nodes[Target(p, n)].type = "File"
    /\ RemoveDirItem(p, n, "rm")

\* ... remove_dir asks nothing.
RemoveDir(p, n) == RemoveDirItem(p, n, "rmdir")

\* write_data takes a file out of its inode into its first data block.
GrowFile(f) ==
    /\ nodes[f].type = "File"
    /\ nodes[f].storage = "Inline"
    /\ IF space > 0
       THEN /\ nodes' = [nodes EXCEPT ![f].storage = "Direct"]
            /\ space' = space - 1
            /\ ret' = "write"
       ELSE /\ ret' = "failed"
            /\ UNCHANGED <<nodes, space>>
    /\ UNCHANGED <<used, free_inodes>>

Next ==
    \/ \E p \in Resolvable, n \in AnyName :
        \/ CreateRefused(p, n)
        \/ CreateDir(p, n)
        \/ CreateFile(p, n)
        \/ RemoveRefused(p, n)
        \/ RemoveFile(p, n)
        \/ RemoveDir(p, n)
    \/ \E f \in Resolvable : GrowFile(f)
    \/ Format

Spec == Init /\ [][Next]_vars
-----------------------------------------------------------------------------
\* Where the entries of the allocated inodes are, and what they are.
Places == {x \in used \X (1 .. BlockItems) : x[2] \in DOMAIN nodes[x[1]].items}
EntryAt(x) == nodes[x[1]].items[x[2]]

\* Named entries of the allocated directories, the dots left out: the tree.
Links ==
    {<<x[1], EntryAt(x).name, EntryAt(x).id>> :
        x \in {y \in Places : EntryAt(y).name \in Name}}

\* How many entries name inode i, a directory's own "." left out.
Refs(i) == Cardinality({x \in Places : EntryAt(x).id = i /\ x[1] # i})

\* The variables keep their types.
TypeOK ==
    /\ used \subseteq Inode
    /\ nodes \in [Inode -> INode]
    /\ \A i \in Inode : Len(nodes[i].items) <= BlockItems
    /\ free_inodes \in 0 .. InodeCount
    /\ space \in 0 .. TotalSpace

\* Every entry of an allocated directory names an allocated inode, and no inode
\* an entry still names is ever freed: its link count covers the entries, the
\* ".." of its subdirectories included, whatever was created and removed.
NoDanglingEntry ==
    \A d \in used : \A k \in DOMAIN nodes[d].items :
        LET i == nodes[d].items[k].id IN i \in used /\ nodes[i].links >= Refs(i)

\* No directory ever has a name twice, also when long names are cut to the
\* same 53 characters: find_inode_by_name and remove_diritem mean one entry.
NamesUnique ==
    \A d \in used : \A j, k \in DOMAIN nodes[d].items :
        nodes[d].items[j].name = nodes[d].items[k].name => j = k

\* Directories form a tree: "." is the directory itself, ".." the one directory
\* that names it, and no inode but the root has two parents.
TreeShape ==
    /\ \A d \in used : nodes[d].type = "Directory" =>
        /\ Len(nodes[d].items) >= 2
        /\ nodes[d].items[1] = [name |-> Dot, id |-> d]
        /\ nodes[d].items[2].name = DotDot
    /\ \A l \in Links :
        /\ l[3] # Root
        /\ nodes[l[3]].type = "Directory" => nodes[l[3]].items[2].id = l[1]
        /\ \A m \in Links : l[3] = m[3] => l = m

\* An inode that is not allocated is blank: allocate_inode sets nothing but the
\* type of the inode it hands out, so whatever is left in it would come back.
FreeInodesBlank == \A i \in Inode \ used : nodes[i] = Blank

\* The super block's counters match the bitmap and the inodes' data blocks, so
\* that a refusal for want of space or inodes is never a false one.
CountersConserved ==
    /\ TypeOK
    /\ free_inodes + Cardinality(used) = InodeCount
    /\ space + Cardinality({i \in Inode : nodes[i].storage = "Direct"}) = TotalSpace

\* One operation changes at most one entry of the tree (removing an entry by
\* moving the last one over it loses no other), and one that fails changes
\* neither the tree nor what is free.
OneEntryPerStep ==
    [][/\ ret' # "format" => Cardinality((Links \ Links') \cup (Links' \ Links)) <= 1
       /\ ret' = "failed" => Links' = Links /\ UNCHANGED <<used, free_inodes, space>>]_vars

\* A directory that has entries is never removed from the tree.
NonEmptyDirKept ==
    [][ret' # "format" =>
        \A l \in Links \ Links' : \A m \in Links : m[1] # l[3]]_vars

\* A create that reports success has put an entry in the tree.
CreatedIsLinked == [][ret' \in {"mkdir", "touch"} => Links' \ Links # {}]_vars
=============================================================================

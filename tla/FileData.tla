------------------------------ MODULE FileData ------------------------------
(***************************************************************************)
(* INodeTable's write_data and read_data: a file's bytes are in its inode  *)
(* (Inline), in one block (Direct) or in the blocks a tree finds (Index).  *)
(*                                                                         *)
(* The tree is taken as the map it implements, in one node: its root, the  *)
(* only block of it while a file has at most a thousand blocks.  A block   *)
(* comes from BlockAllocator: any free one.                                *)
(***************************************************************************)
EXTENDS Integers, Sequences, FiniteSets, Functions

CONSTANTS
    File,           \* the inodes of files
    Lba,            \* data blocks
    NoLba,          \* 0: no block
    Value,          \* bytes a client writes
    Zero,           \* the byte 0
    NodeByte,       \* a byte of a tree node
    Data,           \* what a client writes at once: non-empty sequences of bytes
    BlockSize,      \* block_size: 16384 in the code
    InlineSize,     \* inode_inline_data_size: 474
    MaxSize         \* bound on the end of a write

VARIABLES
    inode,          \* the inodes
    block,          \* contents of the data blocks
    free,           \* the blocks the allocator can hand out
    ok,             \* what the last operation returned
    defined         \* history: positions written since, and by no failed write

vars == <<inode, block, free, ok, defined>>

Byte == Value \cup {Zero, NodeByte}
Cell == 0 .. BlockSize - 1
BlockIndex == 0 .. (MaxSize - 1) \div BlockSize

ASSUME FileAssumption ==
    /\ NoLba \notin Lba
    /\ Data \subseteq Seq(Value) /\ <<>> \notin Data
    /\ InlineSize \in Nat \ {0}
    /\ BlockSize \in Nat /\ BlockSize > InlineSize
    /\ MaxSize \in Nat /\ MaxSize > BlockSize

INode ==
    [storage : {"Inline", "Direct", "Index"},
     size : 0 .. MaxSize,
     inline : [0 .. InlineSize - 1 -> Byte],
     node : Lba \cup {NoLba},       \* the tree's root, of an Index file
     blocks : UNION {[I -> Lba] : I \in SUBSET BlockIndex}]

Blank ==
    [storage |-> "Inline", size |-> 0, inline |-> [c \in 0 .. InlineSize - 1 |-> Zero],
     node |-> NoLba, blocks |-> [i \in {} |-> NoLba]]

Larger(m, n) == IF m >= n THEN m ELSE n
-----------------------------------------------------------------------------
\* The positions data goes to.
Place(off, data) == off .. off + Len(data) - 1

\* Mutant of Fits: the data must begin inside, and may end outside.
BeginsIn(off, data, room) == off < room

\* The data goes to the first room bytes.
Fits(off, data, room) == off + Len(data) <= room

\* The bytes old, which are those of the file from position base on, once data
\* is copied over them where the two overlap.
Overlaid(old, base, off, data) ==
    [c \in DOMAIN old |->
        IF base + c \in Place(off, data) THEN data[base + c - off + 1] ELSE old[c]]

\* write_data goes through three stages.  A stage maps the state st = [at, ino,
\* block, free] it finds to the set of those it may leave; at is "go", or what
\* the call returned.

\* Mutant of Moved: the block gets the whole of what it held.
MovedBare(st, lba) ==
    [at |-> st.at,
     free |-> st.free \ {lba},
     block |-> st.block,
     ino |-> [st.ino EXCEPT !.storage = "Direct", !.blocks = [i \in {0} |-> lba],
                            !.inline = Blank.inline]]

\* The inline bytes are copied to a block.  The rest of it keeps what it held.
Moved(st, lba) ==
    [at |-> st.at,
     free |-> st.free \ {lba},
     block |-> [st.block EXCEPT ![lba] =
                    [c \in Cell |-> IF c < st.ino.size THEN st.ino.inline[c] ELSE @[c]]],
     ino |-> [st.ino EXCEPT !.storage = "Direct", !.blocks = [i \in {0} |-> lba],
                            !.inline = [c \in 0 .. InlineSize - 1 |->
                                            IF c < st.ino.size THEN Zero ELSE @[c]]]]

\* Inline: the data fits, or the file moves to a block, or there is none.
InInode(st, off, data) ==
    IF st.ino.storage # "Inline" THEN {st}
    ELSE IF Fits(off, data, InlineSize)
         THEN {[at |-> "done", free |-> st.free, block |-> st.block,
                ino |-> [st.ino EXCEPT !.inline = Overlaid(@, 0, off, data),
                                       !.size = Larger(@, off + Len(data))]]}
    ELSE IF st.free = {} THEN {[st EXCEPT !.at = "failed"]}
    ELSE {Moved(st, lba) : lba \in st.free}

\* The new tree, with the file's block as its first, in block node.
Indexed(st, node) ==
    [at |-> st.at,
     free |-> st.free \ {node},
     block |-> [st.block EXCEPT ![node] = [c \in Cell |-> NodeByte]],
     ino |-> [st.ino EXCEPT !.storage = "Index", !.node = node]]

\* Direct: the data fits, or what does is written and the file gets a tree, or
\* there is no block for one.
InBlock(st, off, data) ==
    LET lba == st.ino.blocks[0]
        end == IF Fits(off, data, BlockSize) THEN off + Len(data)
               ELSE IF off <= BlockSize THEN BlockSize ELSE 0
        filled == [at |-> st.at, free |-> st.free,
                   block |-> [st.block EXCEPT ![lba] = Overlaid(@, 0, off, data)],
                   ino |-> [st.ino EXCEPT !.size = Larger(@, end)]]
    IN  IF st.at # "go" \/ st.ino.storage # "Direct" THEN {st}
        ELSE IF Fits(off, data, BlockSize) THEN {[filled EXCEPT !.at = "done"]}
        ELSE IF st.free = {} THEN {[filled EXCEPT !.at = "failed"]}
        ELSE {Indexed(filled, node) : node \in st.free}

\* The blocks of the file that the data touches.
Touched(off, data) == off \div BlockSize .. (off + Len(data) - 1) \div BlockSize

\* Index: block after block of the data, with a new block where the tree has
\* none, until all are written or no block is free.  Only then does the size
\* change.
InIndex(st, off, data) ==
    LET missing == Touched(off, data) \ DOMAIN st.ino.blocks
        got == {i \in missing : Cardinality({j \in missing : j < i}) < Cardinality(st.free)}
        reached == {i \in Touched(off, data) : \A j \in missing \ got : i < j}
        After(new) ==
            LET blocks == [i \in DOMAIN st.ino.blocks \cup got |->
                            IF i \in got THEN new[i] ELSE st.ino.blocks[i]]
            IN  [at |-> IF got = missing THEN "done" ELSE "failed",
                 free |-> st.free \ {new[i] : i \in got},
                 block |-> [lba \in Lba |->
                    IF \E i \in reached : blocks[i] = lba
                    THEN Overlaid(st.block[lba],
                            BlockSize * (CHOOSE i \in reached : blocks[i] = lba), off, data)
                    ELSE st.block[lba]],
                 ino |-> [st.ino EXCEPT
                    !.blocks = blocks,
                    !.size = IF got = missing THEN Larger(@, off + Len(data)) ELSE @]]
    IN  IF st.at # "go" THEN {st} ELSE {After(new) : new \in Injection(got, st.free)}
-----------------------------------------------------------------------------
Init ==
    /\ inode = [f \in File |-> Blank]
    /\ block = [lba \in Lba |-> [c \in Cell |-> Zero]]
    /\ free = Lba
    /\ ok = TRUE
    /\ defined = [f \in File |-> {}]

WriteData(f, off, data) ==
    LET start == [at |-> "go", ino |-> inode[f], block |-> block, free |-> free]
    IN  \E s1 \in InInode(start, off, data) :
        \E s2 \in InBlock(s1, off, data) :
        \E s3 \in InIndex(s2, off, data) :
            /\ inode' = [inode EXCEPT ![f] = s3.ino]
            /\ block' = s3.block
            /\ free' = s3.free
            /\ ok' = (s3.at = "done")
            /\ defined' = [defined EXCEPT ![f] =
                IF ok' THEN @ \cup Place(off, data) ELSE @ \ Place(off, data)]

\* The blocks a file has, the tree's node included.
Owned(f) == Range(inode[f].blocks) \cup ({inode[f].node} \ {NoLba})

\* Mutant of FreeInode: the tree's node is not given back.
FreeInodeNotNode(f) ==
    /\ free' = free \cup Range(inode[f].blocks)
    /\ inode' = [inode EXCEPT ![f] = Blank]
    /\ ok' = TRUE
    /\ defined' = [defined EXCEPT ![f] = {}]
    /\ UNCHANGED block

\* free_inode: the blocks are given back, the inode wiped.
FreeInode(f) ==
    /\ free' = free \cup Owned(f)
    /\ inode' = [inode EXCEPT ![f] = Blank]
    /\ ok' = TRUE
    /\ defined' = [defined EXCEPT ![f] = {}]
    /\ UNCHANGED block

Next ==
    \/ \E f \in File, off \in 0 .. MaxSize - 1, data \in Data :
        off + Len(data) <= MaxSize /\ WriteData(f, off, data)
    \/ \E f \in File : FreeInode(f)

Spec == Init /\ [][Next]_vars
-----------------------------------------------------------------------------
\* read_data of the byte at position o of a file.
ReadByte(f, o) ==
    LET ino == inode[f]
    IN  CASE ino.storage = "Inline" -> ino.inline[o]
          [] ino.storage = "Direct" -> block[ino.blocks[0]][o]
          [] ino.storage = "Index" ->
                IF o \div BlockSize \in DOMAIN ino.blocks
                THEN block[ino.blocks[o \div BlockSize]][o % BlockSize]
                ELSE Zero

\* The variables keep their types.
TypeOK ==
    /\ inode \in [File -> INode]
    /\ block \in [Lba -> [Cell -> Byte]]
    /\ free \subseteq Lba
    /\ ok \in BOOLEAN
    /\ defined \in [File -> SUBSET Nat]
    /\ \A f \in File : defined[f] \subseteq 0 .. inode[f].size - 1

\* Every block is free or belongs to one place of one file: what a write that
\* fails half way has allocated is in the file, nothing is lost or shared.
BlocksPartitioned ==
    /\ UNION {Owned(f) : f \in File} = Lba \ free
    /\ \A f, g \in File : f # g => Owned(f) \cap Owned(g) = {}
    /\ \A f \in File :
        /\ IsInjective(inode[f].blocks)
        /\ inode[f].node \notin Range(inode[f].blocks)

\* A file's size never exceeds what its storage holds: a read within the size
\* stays inside the inode, or inside the one block.
SizeFitsStorage ==
    TypeOK /\ \A f \in File :
        CASE inode[f].storage = "Inline" -> inode[f].size <= InlineSize /\ Owned(f) = {}
          [] inode[f].storage = "Direct" -> inode[f].size <= BlockSize /\ DOMAIN inode[f].blocks = {0}
          [] inode[f].storage = "Index" -> 0 \in DOMAIN inode[f].blocks /\ inode[f].node # NoLba

\* Through all three kinds of storage and the moves between them, files are
\* arrays of bytes that no write to another file and no reuse of a block
\* touches, and no write that fails half way harms what is outside its place.
Bytes == INSTANCE FileBytes WITH
    bytes <- [f \in File |-> [o \in defined[f] |-> ReadByte(f, o)]],
    size <- [f \in File |-> inode[f].size]

ImplementsBytes == Bytes!Spec
=============================================================================

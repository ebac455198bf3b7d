------------------------------- MODULE BPTree -------------------------------
(***************************************************************************)
(* The B+ tree of one file: BPTree over BlockIndexer's storage, driven by  *)
(* write_data, which builds it when the file leaves its first block,       *)
(* inserts one data block after another and clears it with the file.       *)
(*                                                                         *)
(* The blocks of the tree are numbered in the order of their allocation;   *)
(* a data block is named by the file block it was allocated for.  Free     *)
(* blocks are counted: the other files of the disk take and give back      *)
(* some, so that the allocator may refuse at any allocation.               *)
(***************************************************************************)
EXTENDS Integers, Sequences, FiniteSets, SequencesExt, Functions

CONSTANTS
    M,          \* keys and values a node has room for: 1022
    LastKey,    \* bound: the largest file block number
    Blocks,     \* data blocks of the disk
    MaxTaken    \* bound: how many of them other files may have at a time

VARIABLES
    node,       \* contents of the blocks allocated as nodes
    root,       \* block_lba of a file in Index storage
    direct,     \* the file is in Direct storage: it has block 0 and no tree
    space,      \* free blocks
    taken,      \* blocks of other files
    ret         \* what the last operation returned

indexVars == <<node, root, direct, space, taken, ret>>

Key == 0 .. LastKey
NodeLba == 1 .. Blocks
NoNode == 0

ASSUME TreeAssumption ==
    /\ M \in Nat /\ M >= 4
    /\ LastKey \in Nat
    /\ Blocks \in Nat \ {0}
    /\ MaxTaken \in Nat

Node == [leaf : BOOLEAN, keys : Seq(Key), vals : Seq(Nat), nxt : Nat]
NoTree == [i \in {} |-> 0]
-----------------------------------------------------------------------------
\* A node with M - 1 keys is split before anything is put into it.
Full(n) == Len(n.keys) = M - 1

\* upper_bound: how many keys of the node are not above k.
Index(n, k) == Cardinality({i \in DOMAIN n.keys : n.keys[i] <= k})

\* The leaf find's loop ends in.
LeafFor(r, k) ==
    LET below[i \in DOMAIN node] ==
            IF node[i].leaf THEN i ELSE below[node[i].vals[Index(node[i], k) + 1]]
    IN  node[below[r]]

\* The keys find finds, and what it returns for them.
Has(k) == root # NoNode /\ Contains(LeafFor(root, k).keys, k)
Find(k) ==
    LET leaf == LeafFor(root, k)
    IN  leaf.vals[CHOOSE i \in DOMAIN leaf.keys : leaf.keys[i] = k]
-----------------------------------------------------------------------------
\* insert_block on the state st = [node, space, root, at, status].  Its status
\* is "go", then "done", "refused" (std::nullopt) or "lost": node_insert has
\* returned false and insert has not looked.

\* allocate_node: a block that holds no node.
Fresh(st) == CHOOSE i \in NodeLba \ DOMAIN st.node : \A j \in NodeLba \ DOMAIN st.node : i <= j

\* allocate_node and the first write_node to it.
WithNode(st, n) ==
    [st EXCEPT !.space = @ - 1,
               !.node = [i \in DOMAIN st.node \cup {Fresh(st)} |->
                            IF i = Fresh(st) THEN n ELSE st.node[i]]]

Middle == (M - 1) \div 2

\* The halves of a full node.  A leaf's are chained; an inner node's middle key
\* goes up.
Left(n, new) ==
    [n EXCEPT !.keys = SubSeq(@, 1, Middle),
              !.vals = SubSeq(@, 1, IF n.leaf THEN Middle ELSE Middle + 1),
              !.nxt = IF n.leaf THEN new ELSE @]

Right(n) ==
    LET first == IF n.leaf THEN Middle + 1 ELSE Middle + 2
    IN  [leaf |-> n.leaf, keys |-> SubSeq(n.keys, first, M - 1),
         vals |-> SubSeq(n.vals, first, Len(n.vals)),
         nxt |-> IF n.leaf THEN n.nxt ELSE NoNode]

\* The father of a child split at position i.
WithChild(n, i, k, new) ==
    [n EXCEPT !.keys = InsertAt(@, i, k), !.vals = InsertAt(@, i + 1, new)]

\* split_node of the child at position i of father f, once it has its block.
Split(st, f, i) ==
    LET c == st.node[f].vals[i]
        child == st.node[c]
        new == Fresh(st)
        st1 == WithNode(st, Right(child))
        father == WithChild(st.node[f], i, child.keys[Middle + 1], new)
    IN  [st1 EXCEPT !.node = [st1.node EXCEPT ![c] = Left(child, new), ![f] = father]]

\* insert's own part: a full root gets a father, and is split.  The block of a
\* father whose split is refused is lost: the root stays, and nobody gives back
\* the block.
GrowRoot(st) ==
    LET father == [leaf |-> FALSE, keys |-> <<>>, vals |-> <<st.root>>, nxt |-> NoNode]
        top == Fresh(st)
        st1 == WithNode(st, father)
    IN  IF ~Full(st.node[st.root]) THEN st
        ELSE IF st.space = 0 THEN [st EXCEPT !.status = "refused"]
        ELSE IF st.space = 1 THEN [st EXCEPT !.status = "refused", !.space = 0]
        ELSE [Split(st1, top, 1) EXCEPT !.root = top, !.at = top]

\* Mutant of ChildFor: the father is not looked at again after a split.
ChildAsBefore(f, i, k) == f.vals[i]

\* Where node_insert goes on from father f, whose child at i may have been split.
ChildFor(f, i, k) == IF i \in DOMAIN f.keys /\ k >= f.keys[i] THEN f.vals[i + 1] ELSE f.vals[i]

\* Mutant of WithKey: the values are not shifted, the new one is put last.
WithKeyAppended(n, i, k) == [n EXCEPT !.keys = InsertAt(@, i, k), !.vals = Append(@, k)]

\* A leaf with the key at position i, before those it had from there.
WithKey(n, i, k) == [n EXCEPT !.keys = InsertAt(@, i, k), !.vals = InsertAt(@, i, k)]

\* One call of node_insert at st.at: the leaf takes the key, or a full child is
\* split and the call goes on below.
Down(st, k) ==
    LET n == st.node[st.at]
        i == Index(n, k) + 1
        st1 == IF Full(st.node[n.vals[i]]) THEN Split(st, st.at, i) ELSE st
    IN  IF st.status # "go" THEN st
        ELSE IF n.leaf
             THEN [st EXCEPT !.status = "done", !.node[st.at] = WithKey(n, i, k)]
        ELSE IF Full(st.node[n.vals[i]]) /\ st.space = 0 THEN [st EXCEPT !.status = "lost"]
        ELSE [st1 EXCEPT !.at = ChildFor(st1.node[st.at], i, k)]

\* node_insert, call after call: no tree is higher than it has nodes.
NodeInsert(st, k) ==
    LET calls[h \in 0 .. Blocks] == IF h = 0 THEN st ELSE Down(calls[h - 1], k)
    IN  calls[Blocks]
-----------------------------------------------------------------------------
InitIndex ==
    /\ node = NoTree
    /\ root = NoNode
    /\ direct = FALSE
    /\ space = Blocks
    /\ taken = 0
    /\ ret = [op |-> "none", key |-> 0, ok |-> TRUE]

Returns(op, k, ok) == ret' = [op |-> op, key |-> k, ok |-> ok]

\* write_data takes the file out of its inode.
FirstBlock ==
    /\ ~direct /\ root = NoNode
    /\ space > 0
    /\ direct' = TRUE
    /\ space' = space - 1
    /\ Returns("first", 0, TRUE)
    /\ UNCHANGED <<node, root, taken>>

\* write_data takes it out of its first block: insert_block(0, 0, block_lba).
Build ==
    /\ direct
    /\ IF space = 0
       THEN /\ Returns("build", 0, FALSE)
            /\ UNCHANGED <<node, root, direct, space>>
       ELSE /\ root' = Fresh([node |-> node])
            /\ node' = [i \in DOMAIN node \cup {root'} |->
                            IF i = root'
                            THEN [leaf |-> TRUE, keys |-> <<0>>, vals |-> <<0>>, nxt |-> NoNode]
                            ELSE node[i]]
            /\ direct' = FALSE
            /\ space' = space - 1
            /\ Returns("build", 0, TRUE)
    /\ UNCHANGED taken

\* write_data meets a file block that has no data block: it allocates one and
\* inserts it, or returns false.
Insert(k) ==
    LET st0 == [node |-> node, space |-> space - 1, root |-> root, at |-> root, status |-> "go"]
        st == NodeInsert(GrowRoot(st0), k)
    IN  /\ root # NoNode
        /\ ~Has(k)
        /\ IF space = 0
           THEN /\ Returns("insert", k, FALSE)
                /\ UNCHANGED <<node, root, space>>
           ELSE /\ node' = st.node
                /\ root' = st.root
                /\ space' = st.space
                /\ Returns("insert", k, st.status # "refused")
        /\ UNCHANGED <<direct, taken>>

\* Mutant of Reached: the loop over the children ends at key_cnt.
ReachedButLast(r) ==
    LET below[i \in DOMAIN node] ==
            {i} \cup IF node[i].leaf THEN {} ELSE UNION {below[c] : c \in Range(Front(node[i].vals))}
    IN  IF r = NoNode THEN {} ELSE below[r]

\* The nodes clear frees.
Reached(r) ==
    LET below[i \in DOMAIN node] ==
            {i} \cup IF node[i].leaf THEN {} ELSE UNION {below[c] : c \in Range(node[i].vals)}
    IN  IF r = NoNode THEN {} ELSE below[r]

\* The data blocks it frees.
Values(r) == UNION {Range(node[i].vals) : i \in {j \in Reached(r) : node[j].leaf}}

\* free_inode: the first block is given back, or the tree is cleared.
Clear ==
    /\ direct \/ root # NoNode
    /\ node' = Restrict(node, DOMAIN node \ Reached(root))
    /\ space' = space + Cardinality(Reached(root)) + Cardinality(Values(root))
                      + IF direct THEN 1 ELSE 0
    /\ root' = NoNode
    /\ direct' = FALSE
    /\ Returns("clear", 0, TRUE)
    /\ UNCHANGED taken

\* Other files take a block, or give one back.
OthersTake ==
    /\ space > 0 /\ taken < MaxTaken
    /\ space' = space - 1
    /\ taken' = taken + 1
    /\ Returns("other", 0, TRUE)
    /\ UNCHANGED <<node, root, direct>>

OthersGive ==
    /\ taken > 0
    /\ space' = space + 1
    /\ taken' = taken - 1
    /\ Returns("other", 0, TRUE)
    /\ UNCHANGED <<node, root, direct>>

NextIndex ==
    \/ FirstBlock
    \/ Build
    \/ \E k \in Key : Insert(k)
    \/ Clear
    \/ OthersTake
    \/ OthersGive

SpecIndex == InitIndex /\ [][NextIndex]_indexVars
-----------------------------------------------------------------------------
Tree == Reached(root)
Inner(i) == ~node[i].leaf

\* The keys below node i.
KeysBelow(i) == UNION {Range(node[j].keys) : j \in {l \in Reached(i) : node[l].leaf}}

\* The leaves below node i by their distance from it.
Depths(i) ==
    LET depths[j \in DOMAIN node] ==
            IF node[j].leaf THEN {0} ELSE UNION {{d + 1 : d \in depths[c]} : c \in Range(node[j].vals)}
    IN  depths[i]

\* Blocks that are allocated and belong to nothing.
Lost == Blocks - space - taken - Cardinality(Tree) - Cardinality(Values(root))
               - (IF direct THEN 1 ELSE 0)

\* The variables keep their types, and a node never has more keys than it has
\* room for.
TypeOKIndex ==
    /\ DOMAIN node \subseteq NodeLba
    /\ \A i \in DOMAIN node :
        /\ node[i] \in Node
        /\ Len(node[i].keys) < M
        /\ Len(node[i].vals) = Len(node[i].keys) + (IF node[i].leaf THEN 0 ELSE 1)
    /\ root \in NodeLba \cup {NoNode}
    /\ direct \in BOOLEAN
    /\ space \in 0 .. Blocks /\ taken \in 0 .. Blocks
    /\ ret.ok \in BOOLEAN /\ ret.key \in Key

\* Every key is where find looks for it: in each node of the tree keys ascend,
\* and what is below a child lies between the keys on its two sides, whichever
\* splits of leaves, of inner nodes and of the root have made it.
SearchTree ==
    \A i \in Tree :
        LET n == node[i] IN
        /\ \A a, b \in DOMAIN n.keys : a < b => n.keys[a] < n.keys[b]
        /\ Inner(i) => \A c \in DOMAIN n.vals : \A k \in KeysBelow(n.vals[c]) :
            /\ c > 1 => n.keys[c - 1] <= k
            /\ c <= Len(n.keys) => k < n.keys[c]

\* All leaves are equally deep, no node is without keys, and no node has two
\* fathers: the height stays the logarithm of the size and clear frees no block
\* twice.
Balanced ==
    root # NoNode =>
        /\ Cardinality(Depths(root)) = 1
        /\ \A i \in Tree : node[i].keys # <<>>
        /\ \A i, j \in Tree : Inner(i) /\ Inner(j) =>
            \A a \in DOMAIN node[i].vals, b \in DOMAIN node[j].vals :
                node[i].vals[a] = node[j].vals[b] => <<i, a>> = <<j, b>>

\* nxt chains the leaves in the order of their keys, through splits of any of
\* them.
LeafChain ==
    \A i \in Tree : node[i].leaf =>
        LET above == {j \in Tree : node[j].leaf /\ node[j].keys[1] > node[i].keys[1]}
        IN  IF above = {} THEN node[i].nxt = NoNode
            ELSE node[i].nxt \in above /\ \A j \in above : node[node[i].nxt].keys[1] <= node[j].keys[1]

\* What a lookup, an insertion and a clear rely on, together.
WellFormed == TypeOKIndex /\ SearchTree /\ Balanced /\ LeafChain

\* Nothing goes wrong but by an operation that finds the disk full: a block is
\* lost only when what was to use it finds no other, a clear gives back all else
\* and nothing twice, and an insertion that reports success can be found unless
\* it has taken the last block.
HarmOnlyWhenFull ==
    [][/\ Lost' # Lost => Lost' > Lost /\ space' = 0
       /\ ret'.op = "insert" /\ ret'.ok /\ ~Has(ret.key)' => space' = 0]_indexVars

\* Whatever is split, refused or lost, the tree is a map: an insertion for a file
\* block adds that block bound to the data block it was given, or nothing, and
\* nothing when it is refused; the other calls bind what they say, and no step
\* moves a block to another key.
Map == INSTANCE BlockMap WITH
    Block <- Key,
    map <- [k \in {x \in Key : Has(x)} |-> Find(k)],
    call <- [op |-> ret.op, key |-> ret.key, block |-> ret.key, ok |-> ret.ok]

ImplementsMap == Map!Spec
=============================================================================

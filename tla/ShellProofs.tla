---------------------------- MODULE ShellProofs ----------------------------
(***************************************************************************)
(* Proofs about Shell and the handles it uses, for every set of names and  *)
(* values, and any sizes of inodes, blocks and disks.  What                *)
(* NamespaceProofs shows of the tree is used for the tree without the      *)
(* contents of its files.                                                  *)
(***************************************************************************)
EXTENDS Shell, NamespaceProofs

\* An inode without a file's contents, and the inodes all so.
Bared(node) ==
    Made(node.type, node.storage, node.links, IF node.type = "File" THEN <<>> ELSE node.items)

BareOf(ns) == [i \in Inode |-> Bared(ns[i])]
Bare == BareOf(nodes)

Tree == INSTANCE NamespaceProofs WITH nodes <- Bare

\* An inode keeps all else, and a directory everything.
LEMMA BaredIs ==
    ASSUME NEW node \in INode
    PROVE  /\ Bared(node) \in INode
           /\ Bared(node).type = node.type /\ Bared(node).storage = node.storage
           /\ Bared(node).links = node.links
           /\ node.type = "File" => Bared(node).items = <<>>
           /\ node.type = "Directory" => Bared(node) = node
<1>1. /\ node.type \in {"File", "Directory"} /\ node.storage \in {"Inline", "Direct"}
      /\ node.links \in 0 .. MaxLinks + 1 /\ node.items \in Seq(DirItem)
      /\ <<>> \in Seq(DirItem)
  BY DEF INode
<1>2. node = Made(node.type, node.storage, node.links, node.items)
  BY MadeOf
<1> QED
  BY <1>1, <1>2 DEF Bared, Made, INode

\* The inodes, each with its file's contents left out.
LEMMA BareIs ==
    ASSUME NEW ns \in [Inode -> INode]
    PROVE  /\ BareOf(ns) \in [Inode -> INode]
           /\ \A i \in Inode : BareOf(ns)[i] = Bared(ns[i])
  BY BaredIs DEF BareOf

\* The two copies of the namespace are over the same inodes and names.
LEMMA SameNames ==
    /\ Tree!AnyName = AnyName /\ Tree!Inode = Inode /\ Tree!Root = Root
    /\ Tree!DirItem = DirItem /\ Tree!INode = INode /\ Tree!Blank = Blank
  BY DEF Tree!AnyName, AnyName, Tree!Inode, Inode, Tree!Root, Root, Tree!DirItem, DirItem,
         Tree!INode, INode, Tree!Blank, Blank

-----------------------------------------------------------------------------
\* The entries of the tree, as Namespace has them: directory, name and inode.
L == Tree!Links

\* What files hold: units that a client wrote, and holes.
Units == {Unit(v) : v \in Value \cup {Zero}}

FilesFit ==
    /\ nodes \in [Inode -> INode]
    /\ \A i \in Inode : nodes[i].type = "File" =>
        /\ Len(nodes[i].items) <= BlockItems
        /\ \A k \in 1 .. Len(nodes[i].items) : nodes[i].items[k] \in Units
    /\ \A i \in Inode \ used : nodes[i] = Blank

\* The tree is one with the files' contents left out, and has these contents.
TreeInv == Tree!Inv /\ FilesFit /\ nodes[Root].items[2].id = Root

\* The unit of a value is an entry by that name.
LEMMA UnitIs ==
    ASSUME NEW v \in Value \cup {Zero}
    PROVE  Unit(v) \in DirItem /\ Unit(v).name = v /\ v \in Name
<1>1. v \in Name /\ Root \in Inode
  BY HandleAssumption, NamespaceAssumption DEF Inode, Root
<1> QED
  BY <1>1 DEF Unit, DirItem, AnyName

\* Inodes one by one, with and without contents.
LEMMA NodeFacts ==
    ASSUME TreeInv
    PROVE  /\ used \subseteq Inode /\ Root \in used /\ nodes[Root].type = "Directory"
           /\ nodes \in [Inode -> INode] /\ Bare \in [Inode -> INode] /\ TypeOK
           /\ \A i \in Inode :
                /\ Bare[i] = Bared(nodes[i])
                /\ nodes[i] \in INode /\ nodes[i].items \in Seq(DirItem)
                /\ Len(nodes[i].items) \in 0 .. BlockItems
                /\ DOMAIN nodes[i].items = 1 .. Len(nodes[i].items)
                /\ nodes[i].type = "Directory" => Bare[i] = nodes[i]
                /\ nodes[i].type \in {"File", "Directory"}
<1>1. Tree!TypeOK /\ Root \in used
  BY Tree!EntryFacts, NamespaceAssumption, SameNames DEF TreeInv, Tree!Inv, Tree!Rooted
<1>2. nodes \in [Inode -> INode]
  BY DEF TreeInv, FilesFit
<1>3. Bare \in [Inode -> INode] /\ \A i \in Inode : Bare[i] = Bared(nodes[i])
  BY <1>2, BareIs DEF Bare
<1>4. used \subseteq Inode
  BY <1>1, SameNames DEF Tree!TypeOK
<1>5. nodes[Root].type = "Directory"
  <2>1. Bare[Root].type = "Directory"
    BY SameNames DEF TreeInv, Tree!Inv, Tree!Rooted
  <2> QED
    BY <1>1, <1>2, <1>3, <1>4, <2>1, BaredIs
<1>6. ASSUME NEW i \in Inode
      PROVE  /\ nodes[i] \in INode /\ nodes[i].items \in Seq(DirItem)
             /\ Len(nodes[i].items) \in 0 .. BlockItems
             /\ DOMAIN nodes[i].items = 1 .. Len(nodes[i].items)
             /\ nodes[i].type = "Directory" => Bare[i] = nodes[i]
             /\ nodes[i].type \in {"File", "Directory"}
  <2>1. nodes[i] \in INode /\ nodes[i].items \in Seq(DirItem)
        /\ nodes[i].type \in {"File", "Directory"}
    BY <1>2 DEF INode
  <2>2. nodes[i].type = "Directory" => Bare[i] = nodes[i]
    BY <1>3, <2>1, BaredIs
  <2>3. Len(nodes[i].items) \in Nat /\ DOMAIN nodes[i].items = 1 .. Len(nodes[i].items)
    BY <2>1
  <2>4. Len(Bare[i].items) <= BlockItems
    BY <1>1, SameNames DEF Tree!TypeOK
  <2>5. BlockItems \in Nat
    BY NamespaceAssumption
  <2> QED
    BY <2>1, <2>2, <2>3, <2>4, <2>5 DEF TreeInv, FilesFit
<1>7. TypeOK
  BY <1>1, <1>2, <1>4, <1>6, SameNames DEF TypeOK, Tree!TypeOK
<1> QED
  BY <1>1, <1>2, <1>3, <1>4, <1>5, <1>6, <1>7

\* The links are the entries of the bare tree.
LEMMA TreeLinks == Tree!Inv => Tree!LinksByPlace
  BY Tree!LinksAre, NamespaceAssumption, SameNames

\* A link is an entry of a directory, after the dots.
LEMMA LinkPlace ==
    ASSUME TreeInv, NEW p, NEW n, NEW i
    PROVE  <<p, n, i>> \in L <=>
            /\ p \in used /\ nodes[p].type = "Directory"
            /\ \E k \in 3 .. Len(nodes[p].items) :
                nodes[p].items[k].name = n /\ nodes[p].items[k].id = i
<1>1. Tree!LinksByPlace
  BY TreeLinks DEF TreeInv
<1>2. ASSUME <<p, n, i>> \in L
      PROVE  /\ p \in used /\ nodes[p].type = "Directory"
             /\ \E k \in 3 .. Len(nodes[p].items) :
                 nodes[p].items[k].name = n /\ nodes[p].items[k].id = i
  <2>1. PICK d \in used : \E k \in Tree!Below(d) :
            <<p, n, i>> = <<d, Bare[d].items[k].name, Bare[d].items[k].id>>
    BY <1>1, <1>2 DEF L, Tree!LinksByPlace
  <2>2. PICK k \in Tree!Below(d) :
            <<p, n, i>> = <<d, Bare[d].items[k].name, Bare[d].items[k].id>>
    BY <2>1
  <2>3. p = d /\ n = Bare[p].items[k].name /\ i = Bare[p].items[k].id
    BY <2>2
  <2>4. k \in 3 .. Len(Bare[p].items)
    BY <2>2, <2>3 DEF Tree!Below
  <2>5. nodes[p].type = "Directory"
    <3>1. p \in Inode
      BY <2>3, NodeFacts
    <3>2. nodes[p].type = "File" => Bare[p].items = <<>>
      BY <3>1, NodeFacts, BaredIs
    <3>3. nodes[p].type # "File"
      BY <2>4, <3>2
    <3> QED
      BY <3>1, <3>3, NodeFacts
  <2>6. Bare[p] = nodes[p]
    BY <2>3, <2>5, NodeFacts
  <2> QED
    BY <2>3, <2>4, <2>5, <2>6
<1>3. ASSUME p \in used, nodes[p].type = "Directory", NEW k \in 3 .. Len(nodes[p].items),
             nodes[p].items[k].name = n, nodes[p].items[k].id = i
      PROVE  <<p, n, i>> \in L
  <2>1. Bare[p] = nodes[p]
    BY <1>3, NodeFacts
  <2>2. k \in Tree!Below(p)
    BY <1>3, <2>1 DEF Tree!Below
  <2> QED
    BY <1>1, <1>3, <2>1, <2>2 DEF L, Tree!LinksByPlace
<1> QED
  BY <1>2, <1>3

\* A name has one entry in a directory, an inode one entry in the tree, and every
\* entry but the root's ".." leads where the tree says.
LEMMA LinkFacts ==
    ASSUME TreeInv
    PROVE  /\ \A l \in L : l = <<l[1], l[2], l[3]>>
           /\ \A p, n, i : <<p, n, i>> \in L =>
                /\ p \in used /\ nodes[p].type = "Directory" /\ n \in Name
                /\ i \in used /\ i # Root
                /\ nodes[i].type = "Directory" => nodes[i].items[2].id = p
           /\ \A p, n, q, m, i : <<p, n, i>> \in L /\ <<q, m, i>> \in L => p = q /\ n = m
           /\ \A p, n, i, j : <<p, n, i>> \in L /\ <<p, n, j>> \in L => i = j
<1>1. Tree!TreeShape /\ Tree!LinksByPlace
  BY Tree!LinksAre, Tree!TreeShapeOf, NamespaceAssumption, SameNames DEF TreeInv
<1>2. \A l \in L : l = <<l[1], l[2], l[3]>>
  BY DEF L, Tree!Links
<1>3. ASSUME NEW p, NEW n, NEW i, <<p, n, i>> \in L
      PROVE  /\ p \in used /\ nodes[p].type = "Directory" /\ n \in Name
             /\ i \in used /\ i # Root
             /\ nodes[i].type = "Directory" => nodes[i].items[2].id = p
  <2>1. PICK k \in 3 .. Len(nodes[p].items) :
            /\ p \in used /\ nodes[p].type = "Directory"
            /\ nodes[p].items[k].name = n /\ nodes[p].items[k].id = i
    BY <1>3, LinkPlace
  <2>2. Bare[p] = nodes[p] /\ Len(nodes[p].items) \in Nat
    BY <2>1, NodeFacts
  <2>3. k \in 1 .. Len(Bare[p].items) /\ k >= 3
    BY <2>1, <2>2
  <2>4. i \in used /\ n \in Name
    BY <2>1, <2>2, <2>3, Tree!EntryFacts, NamespaceAssumption, SameNames DEF TreeInv
  <2>5. /\ <<p, n, i>>[3] = i /\ <<p, n, i>>[1] = p
    OBVIOUS
  <2>6. i # Root /\ (Bare[i].type = "Directory" => Bare[i].items[2].id = p)
    BY <1>1, <1>3, <2>5, SameNames DEF Tree!TreeShape, L
  <2>7. nodes[i].type = "Directory" => Bare[i] = nodes[i]
    BY <2>4, NodeFacts
  <2> QED
    BY <2>1, <2>4, <2>6, <2>7
<1>4. ASSUME NEW p, NEW n, NEW q, NEW m, NEW i, <<p, n, i>> \in L, <<q, m, i>> \in L
      PROVE  p = q /\ n = m
  <2>1. <<p, n, i>>[3] = <<q, m, i>>[3]
    OBVIOUS
  <2>2. <<p, n, i>> = <<q, m, i>>
    BY <1>1, <1>4, <2>1 DEF Tree!TreeShape, L
  <2> QED
    BY <2>2
<1>5. ASSUME NEW p, NEW n, NEW i, NEW j, <<p, n, i>> \in L, <<p, n, j>> \in L
      PROVE  i = j
  <2>1. PICK k \in 3 .. Len(nodes[p].items) :
            /\ p \in used /\ nodes[p].type = "Directory"
            /\ nodes[p].items[k].name = n /\ nodes[p].items[k].id = i
    BY <1>5, LinkPlace
  <2>2. PICK h \in 3 .. Len(nodes[p].items) :
            nodes[p].items[h].name = n /\ nodes[p].items[h].id = j
    BY <1>5, LinkPlace
  <2>3. Bare[p] = nodes[p] /\ DOMAIN nodes[p].items = 1 .. Len(nodes[p].items)
        /\ Len(nodes[p].items) \in Nat
    BY <2>1, NodeFacts
  <2>4. k = h
    BY <2>1, <2>2, <2>3 DEF TreeInv, Tree!Inv, Tree!NamesUnique
  <2> QED
    BY <2>1, <2>2, <2>4
<1> QED
  BY <1>2, <1>3, <1>4, <1>5

\* What find_inode_by_name finds: the links, and nothing in a file.
LEMMA FoundIs ==
    ASSUME TreeInv, NEW p \in used
    PROVE  /\ nodes[p].type = "Directory" => \A n \in Name :
                /\ Has(nodes[p], n) => <<p, n, Target(p, n)>> \in L
                /\ \A i : <<p, n, i>> \in L => Has(nodes[p], n) /\ Target(p, n) = i
           /\ nodes[p].type = "File" => \A n \in ClientName : ~Has(nodes[p], n)
<1>1. p \in Inode /\ nodes[p] \in INode
      /\ DOMAIN nodes[p].items = 1 .. Len(nodes[p].items) /\ Len(nodes[p].items) \in Nat
  BY NodeFacts
<1>2. ASSUME nodes[p].type = "Directory", NEW n \in Name, Has(nodes[p], n)
      PROVE  <<p, n, Target(p, n)>> \in L
  <2> DEFINE k == FirstEntry(nodes[p], n)
  <2>1. k \in 1 .. Len(nodes[p].items) /\ nodes[p].items[k].name = n
    BY <1>1, <1>2, FirstEntryIs
  <2>2. nodes[p].items[k].id = Target(p, n)
    BY DEF Target
  <2>3. Bare[p] = nodes[p]
    BY <1>1, <1>2, NodeFacts
  <2> HIDE DEF k
  <2>4. k >= 3
    BY <2>1, <2>3, Tree!EntryFacts, NamespaceAssumption, SameNames DEF TreeInv
  <2>5. k \in 3 .. Len(nodes[p].items)
    BY <2>1, <2>4
  <2> QED
    BY <1>2, <2>1, <2>2, <2>5, LinkPlace
<1>3. ASSUME nodes[p].type = "Directory", NEW n \in Name, NEW i, <<p, n, i>> \in L
      PROVE  Has(nodes[p], n) /\ Target(p, n) = i
  <2>1. Has(nodes[p], n)
    BY <1>1, <1>3, LinkPlace DEF Has, Entries
  <2> QED
    BY <1>2, <1>3, <2>1, LinkFacts
<1>4. ASSUME nodes[p].type = "File", NEW n \in ClientName
      PROVE  ~Has(nodes[p], n)
  <2>1. ASSUME NEW k \in 1 .. Len(nodes[p].items), nodes[p].items[k].name = n
        PROVE  FALSE
    <3>1. PICK v \in Value \cup {Zero} : nodes[p].items[k] = Unit(v)
      BY <1>1, <1>4, <2>1 DEF TreeInv, FilesFit, Units
    <3> QED
      BY <2>1, <3>1, UnitIs, HandleAssumption
  <2> QED
    BY <1>1, <2>1 DEF Has, Entries
<1> QED
  BY <1>2, <1>3, <1>4

\* An empty directory is where no link starts.
LEMMA EmptyIs ==
    ASSUME TreeInv, NEW d, IsDirEmpty(d)
    PROVE  \A l \in L : l[1] # d
<1> SUFFICES ASSUME NEW l \in L, l[1] = d PROVE FALSE
  OBVIOUS
<1>1. <<d, l[2], l[3]>> \in L
  BY LinkFacts
<1> QED
  BY <1>1, LinkPlace DEF IsDirEmpty
-----------------------------------------------------------------------------
\* Refusals, undone creations and files that move to a data block leave the tree as
\* it is.  Contents may change as a write changes them.
Rewritten ==
    /\ UNCHANGED <<used, free_inodes>> /\ nodes' \in [Inode -> INode]
    /\ \A i \in Inode :
        /\ nodes'[i].type = nodes[i].type
        /\ nodes[i].type = "Directory" => nodes'[i].items = nodes[i].items
        /\ nodes'[i].links >= nodes[i].links
        /\ i \notin used => nodes'[i] = nodes[i]
    /\ \/ space' = space /\ \A i \in Inode : nodes'[i].storage = nodes[i].storage
       \/ /\ space > 0 /\ space' = space - 1 /\ ret' = "write"
          /\ \E f \in Inode :
                /\ nodes[f].storage = "Inline" /\ nodes'[f].storage = "Direct"
                /\ \A i \in Inode \ {f} : nodes'[i].storage = nodes[i].storage

FilesHold ==
    \A i \in Inode : nodes'[i].type = "File" =>
        /\ Len(nodes'[i].items) <= BlockItems
        /\ \A k \in 1 .. Len(nodes'[i].items) : nodes'[i].items[k] \in Units

\* Changing what files hold changes nothing of the tree.
LEMMA RewrittenTree ==
    ASSUME TreeInv, Rewritten, FilesHold
    PROVE  TreeInv' /\ L' = L
<1>1. /\ nodes \in [Inode -> INode] /\ nodes' \in [Inode -> INode]
      /\ Bare' = BareOf(nodes') /\ Root \in Inode
  BY NodeFacts DEF Rewritten, Bare
<1>2. \A i \in Inode : Bare[i] = Bared(nodes[i]) /\ Bare'[i] = Bared(nodes'[i])
  BY <1>1, BareIs, NodeFacts
<1>3. Bare' \in [Inode -> INode]
  BY <1>1, BareIs
<1>4. \A i \in Inode :
        /\ nodes[i].type \in {"File", "Directory"} /\ nodes'[i].type \in {"File", "Directory"}
        /\ nodes[i] \in INode /\ nodes'[i] \in INode
  BY <1>1 DEF INode
<1>5. Tree!Kept
  <2>1. \A i \in Inode :
        /\ Bare'[i].type = Bare[i].type /\ Bare'[i].items = Bare[i].items
        /\ Bare'[i].links >= Bare[i].links
        /\ i \notin used => Bare'[i] = Bare[i]
        /\ Bare'[i].storage = nodes'[i].storage /\ Bare[i].storage = nodes[i].storage
    BY <1>2, <1>4, BaredIs DEF Rewritten
  <2> HIDE DEF Bare
  <2> QED
    BY <1>3, <2>1, SameNames DEF Rewritten, Tree!Kept
<1>6. Tree!Inv'
  BY <1>5, Tree!KeptInv, NamespaceAssumption, SameNames DEF TreeInv
<1>7. FilesFit'
  BY <1>1 DEF FilesFit, FilesHold, Rewritten, TreeInv, Units
<1>8. nodes'[Root].items[2].id = Root
  BY <1>1, NodeFacts DEF Rewritten, TreeInv
<1>9. Tree!LinksByPlace
  BY TreeLinks DEF TreeInv
<1>10. Tree!Inv' => Tree!LinksByPlace'
  BY TreeLinks, PTL
<1>11. L' = L
  BY <1>5, <1>6, <1>9, <1>10, Tree!KeptLinks, NamespaceAssumption, SameNames DEF L, TreeInv
<1> QED
  BY <1>6, <1>7, <1>8, <1>11 DEF TreeInv

\* A function on 1 .. n is a sequence of length n.
LEMMA SequenceIs ==
    ASSUME NEW S, NEW n \in Nat, NEW f \in [1 .. n -> S]
    PROVE  f \in Seq(S) /\ Len(f) = n
<1>1. f \in Seq(S)
  BY SeqDef
<1>2. Len(f) \in Nat /\ DOMAIN f = 1 .. Len(f) /\ DOMAIN f = 1 .. n
  BY <1>1, LenProperties
<1>3. Len(f) = n
  BY <1>2
<1> QED
  BY <1>1, <1>3

\* A write leaves units: what was there, what it wrote, and holes before it.
LEMMA OverlaidIs ==
    ASSUME NEW items \in Seq(DirItem), NEW off \in Nat, NEW v \in Value \cup {Zero}
    PROVE  /\ Overlaid(items, off, v) \in Seq(DirItem)
           /\ Len(Overlaid(items, off, v)) = IF off < Len(items) THEN Len(items) ELSE off + 1
           /\ Overlaid(items, off, v)[off + 1] = Unit(v)
           /\ \A k \in 1 .. Len(items) \ {off + 1} : Overlaid(items, off, v)[k] = items[k]
           /\ \A k \in 1 .. Len(Overlaid(items, off, v)) :
                \/ Overlaid(items, off, v)[k] \in Units
                \/ k \in 1 .. Len(items) /\ Overlaid(items, off, v)[k] = items[k]
<1> DEFINE n == IF off < Len(items) THEN Len(items) ELSE off + 1
           new == Overlaid(items, off, v)
<1>1. /\ Len(items) \in Nat /\ n \in Nat /\ off + 1 \in 1 .. n /\ Len(items) <= n
      /\ \A k \in 1 .. Len(items) : items[k] \in DirItem
  OBVIOUS
<1>2. /\ Unit(v) \in DirItem /\ Unit(Zero) \in DirItem
      /\ Unit(v) \in Units /\ Unit(Zero) \in Units
  BY UnitIs DEF Units
<1>3. new = [k \in 1 .. n |->
                IF k = off + 1 THEN Unit(v) ELSE IF k <= Len(items) THEN items[k] ELSE Unit(Zero)]
  BY DEF Overlaid
<1> HIDE DEF n, new
<1>4. \A k \in 1 .. n : new[k] \in DirItem
  BY <1>1, <1>2, <1>3
<1>5. new \in Seq(DirItem) /\ Len(new) = n
  <2>1. new \in [1 .. n -> DirItem]
    BY <1>3, <1>4
  <2>2. n \in Nat
    BY <1>1
  <2> QED
    BY <2>1, <2>2, SequenceIs
<1>6. new[off + 1] = Unit(v)
  BY <1>1, <1>3
<1>7. \A k \in 1 .. Len(items) \ {off + 1} : new[k] = items[k]
  BY <1>1, <1>3
<1>8. \A k \in 1 .. n : new[k] \in Units \/ (k \in 1 .. Len(items) /\ new[k] = items[k])
  BY <1>1, <1>2, <1>3
<1> QED
  BY <1>5, <1>6, <1>7, <1>8 DEF n, new

\* The node a write leaves.
Overwritten(node, off, v, storage) ==
    Made(node.type, storage, node.links, Overlaid(node.items, off, v))

PutIn(ns, f, off, v, storage) ==
    [ns EXCEPT ![f].items = Overlaid(@, off, v), ![f].storage = storage]

\* Write's change of two fields of an inode is a change of the inode.
LEMMA OverwrittenIs ==
    ASSUME NEW ns \in [Inode -> INode], NEW f \in Inode, NEW off, NEW v, NEW storage
    PROVE  PutIn(ns, f, off, v, storage) = [ns EXCEPT ![f] = Overwritten(ns[f], off, v, storage)]
<1> DEFINE items == Overlaid(ns[f].items, off, v)
<1>1. PutIn(ns, f, off, v, storage)
        = [ns EXCEPT ![f] = [ns[f] EXCEPT !.items = items, !.storage = storage]]
  BY DEF PutIn
<1>2. [ns[f] EXCEPT !.items = items, !.storage = storage]
        = Made(ns[f].type, storage, ns[f].links, items)
  <2>1. ns[f] \in INode
    OBVIOUS
  <2> HIDE DEF items
  <2> QED
    BY <2>1, MadeFilled
<1> QED
  BY <1>1, <1>2 DEF Overwritten

\* What a write does to the inodes: it overwrites one file, which may need a block.
WrittenTo(f, off, v, storage) ==
    /\ \/ storage = nodes[f].storage /\ space' = space
       \/ /\ nodes[f].storage = "Inline" /\ storage = "Direct"
          /\ space # 0 /\ space' = space - 1
    /\ nodes' = PutIn(nodes, f, off, v, storage)
    /\ ret' = "write"
    /\ UNCHANGED <<used, free_inodes>>

\* A write puts its unit in place and leaves the tree and all other files alone.
LEMMA WriteTree ==
    ASSUME TreeInv, NEW f \in used, nodes[f].type = "File", NEW off \in 0 .. BlockItems - 1,
           NEW v \in Value, NEW storage, WrittenTo(f, off, v, storage)
    PROVE  /\ TreeInv' /\ L' = L
           /\ nodes'[f].items = Overlaid(nodes[f].items, off, v)
           /\ \A i \in Inode : nodes'[i].type = nodes[i].type
           /\ \A i \in Inode \ {f} : nodes'[i] = nodes[i]
<1> DEFINE new == Overwritten(nodes[f], off, v, storage)
           items == Overlaid(nodes[f].items, off, v)
<1>1. /\ f \in Inode /\ nodes \in [Inode -> INode] /\ nodes[f] \in INode
      /\ off \in Nat /\ off + 1 <= BlockItems /\ BlockItems \in Nat
      /\ nodes[f].items \in Seq(DirItem) /\ Len(nodes[f].items) \in 0 .. BlockItems
      /\ space \in Nat /\ v \in Value \cup {Zero}
  <2>1. TypeOK /\ BlockItems \in Nat
    BY NodeFacts, NamespaceAssumption
  <2>2. space \in Nat
    BY <2>1, NamespaceAssumption DEF TypeOK
  <2> QED
    BY <2>1, <2>2, NodeFacts
<1>2. nodes' = [nodes EXCEPT ![f] = new]
  <2>1. PutIn(nodes, f, off, v, storage) = [nodes EXCEPT ![f] = new]
    BY <1>1, OverwrittenIs
  <2> QED
    BY <2>1 DEF WrittenTo
<1>3. /\ items \in Seq(DirItem) /\ Len(items) <= BlockItems
      /\ \A k \in 1 .. Len(items) : items[k] \in Units
  <2>1. /\ items \in Seq(DirItem)
        /\ Len(items) = IF off < Len(nodes[f].items) THEN Len(nodes[f].items) ELSE off + 1
        /\ \A k \in 1 .. Len(items) :
            items[k] \in Units \/ (k \in 1 .. Len(nodes[f].items) /\ items[k] = nodes[f].items[k])
    BY <1>1, OverlaidIs
  <2>2. \A k \in 1 .. Len(nodes[f].items) : nodes[f].items[k] \in Units
    BY <1>1 DEF TreeInv, FilesFit
  <2> QED
    BY <1>1, <2>1, <2>2
<1>4. /\ new.type = "File" /\ new.links = nodes[f].links /\ new.items = items
      /\ new.storage = storage /\ new \in INode
  BY <1>1, <1>3 DEF Overwritten, Made, INode, WrittenTo
<1> HIDE DEF new, items
<1>5. /\ nodes' \in [Inode -> INode] /\ nodes'[f] = new
      /\ \A i \in Inode \ {f} : nodes'[i] = nodes[i]
  BY <1>1, <1>2, <1>4
<1>6. Rewritten
  <2>1. \A i \in Inode : nodes[i].links \in Nat
    BY <1>1, INodeFields
  <2>2. \A i \in Inode :
            /\ nodes'[i].type = nodes[i].type
            /\ nodes[i].type = "Directory" => nodes'[i].items = nodes[i].items
            /\ nodes'[i].links >= nodes[i].links
            /\ i \notin used => nodes'[i] = nodes[i]
    BY <1>1, <1>4, <1>5, <2>1
  <2>3. \/ space' = space /\ \A i \in Inode : nodes'[i].storage = nodes[i].storage
        \/ /\ space > 0 /\ space' = space - 1
           /\ nodes[f].storage = "Inline" /\ nodes'[f].storage = "Direct"
           /\ \A i \in Inode \ {f} : nodes'[i].storage = nodes[i].storage
    BY <1>1, <1>4, <1>5 DEF WrittenTo
  <2> QED
    BY <1>1, <1>5, <2>2, <2>3 DEF Rewritten, WrittenTo
<1>7. FilesHold
  BY <1>1, <1>3, <1>4, <1>5 DEF FilesHold, TreeInv, FilesFit
<1>8. TreeInv' /\ L' = L
  BY <1>6, <1>7, RewrittenTree
<1>9. \A i \in Inode : nodes'[i].type = nodes[i].type
  BY <1>6 DEF Rewritten
<1> QED
  BY <1>4, <1>5, <1>8, <1>9 DEF items

\* A step that keeps every entry keeps the contents as well.
LEMMA KeptTree ==
    ASSUME TreeInv, Kept
    PROVE  TreeInv' /\ L' = L
<1>1. FilesHold
  BY NodeFacts DEF FilesHold, Kept, TreeInv, FilesFit
<1>2. Rewritten
  BY DEF Rewritten, Kept
<1> QED
  BY <1>1, <1>2, RewrittenTree
-----------------------------------------------------------------------------
\* The inode that a creation makes is no file's but its own.
LEMMA MadeTree ==
    ASSUME TreeInv, NEW p \in used, NEW n \in Name, NEW i \in Inode, MadeIn(p, n, i)
    PROVE  /\ TreeInv' /\ i \notin used /\ used' = used \cup {i}
           /\ ~Has(nodes[p], Stored[n]) /\ nodes[p].type = "Directory"
           /\ L \subseteq L' /\ L' \subseteq L \cup {<<p, Stored[n], i>>}
           /\ \A d \in used : nodes'[d].type = nodes[d].type
           /\ \A d \in used : nodes[d].type = "File" => nodes'[d].items = nodes[d].items
           /\ nodes'[i] = NewFile \/ nodes'[i].type = "Directory"
<1> DEFINE dir == Made("Directory", "Inline", 1, Dots(i, p))
<1>1. PICK new \in {NewFile, dir}, more \in {0, 1} :
        /\ (new = NewFile /\ more = 0) \/ (new = dir /\ more = 1)
        /\ Created(p, n, i, new, more)
  BY DEF MadeIn
<1>2. /\ i \in Inode \ used /\ nodes[p].type = "Directory"
      /\ ~Has(nodes[p], n) /\ ~Has(nodes[p], Stored[n])
      /\ used' = used \cup {i} /\ free_inodes' = free_inodes - 1
  BY <1>1 DEF Created
<1>3. PICK parent \in INode :
        /\ nodes' = [nodes EXCEPT ![i] = new, ![p] = parent]
        /\ Linked(Raised(nodes[p], more), parent, n, i, space, space')
  BY <1>1 DEF Created
<1>4. /\ p \in Inode /\ i # p /\ nodes \in [Inode -> INode] /\ Bare \in [Inode -> INode]
      /\ Bare[p] = nodes[p] /\ nodes[p] \in INode /\ Root \in used
      /\ \A d \in Inode : Bare[d] = Bared(nodes[d])
  BY <1>2, NodeFacts
<1>5. /\ new \in INode
      /\ new = NewFile \/ new.type = "Directory"
      /\ new.type = "File" => new.items = <<>>
      /\ parent \in INode /\ parent.type = "Directory"
  <2>1. Dots(i, p) \in Seq(DirItem) /\ <<>> \in Seq(DirItem) /\ 1 \in 0 .. MaxLinks + 1
    BY <1>4, DotsAre, NamespaceAssumption
  <2>2. NewFile \in INode /\ NewFile.type = "File" /\ NewFile.items = <<>>
    BY <2>1 DEF NewFile, Made, INode
  <2>3. dir \in INode /\ dir.type = "Directory"
    BY <2>1 DEF Made, INode
  <2> HIDE DEF dir
  <2>4. parent.type = "Directory"
    BY <1>3 DEF Linked
  <2> QED
    BY <1>1, <2>2, <2>3, <2>4
<1>6. Bared(new) = new /\ Bared(parent) = parent
  <2>1. new.type = "File" => Bared(new) = new
    <3>1. new = Made(new.type, new.storage, new.links, new.items)
      BY <1>5, MadeOf
    <3> QED
      BY <1>5, <3>1 DEF Bared
  <2>2. new.type = "Directory" => Bared(new) = new
    BY <1>5, BaredIs
  <2>3. new.type \in {"File", "Directory"}
    BY <1>5 DEF INode
  <2> QED
    BY <1>5, <2>1, <2>2, <2>3, BaredIs
<1> HIDE DEF dir
<1>7. /\ nodes' \in [Inode -> INode] /\ nodes'[i] = new /\ nodes'[p] = parent
      /\ \A d \in Inode \ {i, p} : nodes'[d] = nodes[d]
  BY <1>2, <1>3, <1>4, <1>5
<1>8. Bare' = [Bare EXCEPT ![i] = new, ![p] = parent]
  <2>1. Bare' = BareOf(nodes')
    BY DEF Bare
  <2>2. BareOf(nodes') \in [Inode -> INode]
        /\ \A d \in Inode : BareOf(nodes')[d] = Bared(nodes'[d])
    BY <1>7, BareIs
  <2> HIDE DEF Bare
  <2>3. \A d \in Inode : BareOf(nodes')[d] = [Bare EXCEPT ![i] = new, ![p] = parent][d]
    BY <1>2, <1>4, <1>6, <1>7, <2>2
  <2>4. [Bare EXCEPT ![i] = new, ![p] = parent] \in [Inode -> INode]
    BY <1>4, <1>5
  <2> QED
    BY <2>1, <2>2, <2>3, <2>4
<1>9. Tree!MadeIn(p, n, i)
  <2>1. Tree!Has(Bare[p], n) = Has(nodes[p], n) /\ Tree!Has(Bare[p], Stored[n]) = Has(nodes[p], Stored[n])
    BY <1>4 DEF Tree!Has, Has, Tree!Entries, Entries
  <2>2. Tree!Raised(Bare[p], more) = Raised(nodes[p], more)
    BY <1>4 DEF Tree!Raised, Raised, Tree!Made, Made
  <2>3. Tree!NewFile = NewFile /\ Tree!Made("Directory", "Inline", 1, Tree!Dots(i, p)) = dir
    BY DEF Tree!NewFile, NewFile, Tree!Made, Made, Tree!Dots, Dots, Tree!Item, Item, dir
  <2>4. Tree!Linked(Raised(nodes[p], more), parent, n, i, space, space')
    BY <1>3 DEF Tree!Linked, Linked, Tree!Item, Item
  <2>5. Tree!Created(p, n, i, new, more)
    BY <1>1, <1>2, <1>4, <1>5, <1>8, <2>1, <2>2, <2>4, SameNames DEF Tree!Created, Created
  <2> QED
    BY <1>1, <2>3, <2>5 DEF Tree!MadeIn
<1>10. Tree!Grown(p, i, Stored[n])
  BY <1>9, Tree!CreatedGrown, NamespaceAssumption, SameNames DEF TreeInv, AnyName
<1>11. Tree!Inv'
  BY <1>10, Tree!GrownInv, NamespaceAssumption, SameNames DEF TreeInv
<1>12. L \subseteq L' /\ L' \subseteq L \cup {<<p, Stored[n], i>>}
  <2>1. Tree!LinksByPlace
    BY TreeLinks DEF TreeInv
  <2>2. Tree!Inv' => Tree!LinksByPlace'
    BY TreeLinks, PTL
  <2> QED
    BY <1>10, <1>11, <2>1, <2>2, Tree!GrownLinks, NamespaceAssumption, SameNames DEF TreeInv, L
<1>13. FilesFit'
  <2>1. ASSUME NEW d \in Inode, nodes'[d].type = "File"
        PROVE  /\ Len(nodes'[d].items) <= BlockItems
               /\ \A k \in 1 .. Len(nodes'[d].items) : nodes'[d].items[k] \in Units
    <3>1. CASE d = i
      <4>1. nodes'[d].items = <<>>
        BY <1>5, <1>7, <2>1, <3>1
      <4> QED
        BY <4>1, NamespaceAssumption
    <3>2. CASE d = p
      BY <1>5, <1>7, <2>1, <3>2
    <3>3. CASE d # i /\ d # p
      <4>1. nodes'[d] = nodes[d]
        BY <1>7, <3>3
      <4> QED
        BY <2>1, <4>1 DEF TreeInv, FilesFit
    <3> QED
      BY <3>1, <3>2, <3>3
  <2>2. \A d \in Inode \ used' : nodes'[d] = Blank
    BY <1>2, <1>7 DEF TreeInv, FilesFit
  <2> QED
    BY <1>7, <2>1, <2>2 DEF FilesFit, Units
<1>14. nodes'[Root].items[2].id = Root
  <2>1. CASE Root # p
    BY <1>2, <1>4, <1>7, <2>1, NodeFacts DEF TreeInv
  <2>2. CASE Root = p
    <3>1. Len(Bare[p].items) >= 2 /\ Len(Bare[p].items) \in Nat
      BY <1>2, <1>4, SameNames DEF TreeInv, Tree!Inv, Tree!DirShape, INode
    <3>2. Bare'[p].items[2] = Bare[p].items[2]
      BY <1>10, <3>1 DEF Tree!Grown
    <3>3. Bare'[p] = nodes'[p]
      BY <1>4, <1>7, <1>8
    <3> QED
      BY <1>4, <2>2, <3>2, <3>3 DEF TreeInv
  <2> QED
    BY <2>1, <2>2
<1>15. \A d \in used : nodes'[d].type = nodes[d].type
  BY <1>2, <1>4, <1>5, <1>7, NodeFacts
<1>16. \A d \in used : nodes[d].type = "File" => nodes'[d].items = nodes[d].items
  BY <1>2, <1>4, <1>7, NodeFacts
<1> QED
  BY <1>2, <1>5, <1>7, <1>11, <1>12, <1>13, <1>14, <1>15, <1>16 DEF TreeInv
-----------------------------------------------------------------------------
\* A removal takes one entry out of the tree, and of a directory an empty one.
LEMMA UnlinkedTree ==
    ASSUME TreeInv, NEW p \in used, NEW n \in ClientName, NEW op, RemoveDirItem(p, n, op),
           NEW i, i = Target(p, n)
    PROVE  /\ TreeInv' /\ ret' = op
           /\ <<p, n, i>> \in L /\ L' = L \ {<<p, n, i>>}
           /\ nodes[i].type = "Directory" => IsDirEmpty(i)
           /\ \A l \in L : l[1] # i
           /\ used' \subseteq used
           /\ \A d \in used \ {i} : d \in used' /\ nodes'[d].type = nodes[d].type
           /\ \A d \in used \ {i} : nodes[d].type = "File" => nodes'[d].items = nodes[d].items
<1> DEFINE k == FirstEntry(nodes[p], n)
<1>1. /\ Has(nodes[p], n) /\ n \in Name
      /\ nodes[i].type = "Directory" => IsDirEmpty(i)
  BY HandleAssumption DEF RemoveDirItem, Removable
<1>2. /\ nodes[p].type = "Directory" /\ <<p, n, i>> \in L /\ Bare[p] = nodes[p]
      /\ p \in Inode /\ nodes[p] \in INode /\ nodes \in [Inode -> INode]
      /\ Bare \in [Inode -> INode] /\ Root \in used /\ used \subseteq Inode
  BY <1>1, FoundIs, NodeFacts
<1>3. /\ k \in 1 .. Len(nodes[p].items) /\ nodes[p].items[k].name = n
      /\ i = nodes[p].items[k].id /\ k >= 3 /\ i \in used /\ i # Root
  <2>1. k \in 1 .. Len(nodes[p].items) /\ nodes[p].items[k].name = n
    BY <1>1, <1>2, FirstEntryIs, NodeFacts
  <2>2. i = nodes[p].items[k].id
    BY DEF Target
  <2> HIDE DEF k
  <2>3. k >= 3
    BY <1>1, <1>2, <2>1, Tree!EntryFacts, NamespaceAssumption, SameNames DEF TreeInv
  <2> QED
    BY <1>2, <2>1, <2>2, <2>3, LinkFacts
<1>4. i # p
  BY <1>1, <1>2, <1>3 DEF IsDirEmpty
<1> HIDE DEF k
<1>5. i \in Inode /\ nodes[i] \in INode /\ Bare[i] = Bared(nodes[i]) /\ nodes[i].links # 0
      /\ nodes[i].links \in 0 .. MaxLinks + 1 /\ Bare[i].links = nodes[i].links
  <2>1. i \in Inode /\ nodes[i] \in INode /\ Bare[i] = Bared(nodes[i])
    BY <1>2, <1>3, NodeFacts
  <2>2. Bare[i].links # 0
    BY <1>2, <1>3, <1>4, Tree!NamedHasLink, NamespaceAssumption, SameNames DEF TreeInv
  <2> QED
    BY <2>1, <2>2, BaredIs, INodeFields
<1>6. ret' = op /\ Unlinked(p, k)
  <2>1. Typed
    BY NodeFacts, Bounds
  <2>2. k = FirstEntry(nodes[p], n)
    BY DEF k
  <2> QED
    BY <1>2, <1>3, <1>4, <1>5, <2>1, <2>2, RemovalIs
<1>7. /\ Shorter(p, k) \in INode /\ Shorter(p, k).type = "Directory"
      /\ Tree!Shorter(p, k) = Shorter(p, k)
  <2>1. nodes[p].items \in Seq(DirItem)
    BY <1>2, NodeFacts
  <2>2. WithoutEntry(nodes[p].items, k) \in Seq(DirItem)
    BY <1>3, <2>1, WithoutEntryIs
  <2>3. Tree!WithoutEntry(nodes[p].items, k) = WithoutEntry(nodes[p].items, k)
    BY DEF Tree!WithoutEntry, WithoutEntry
  <2> QED
    BY <1>2, <2>2, <2>3, INodeFields DEF Shorter, Tree!Shorter, Tree!Made, Made, INode
<1>8. PICK left \in INode :
        /\ nodes' = [nodes EXCEPT ![i] = left, ![p] = Shorter(p, k)]
        /\ Bare' = [Bare EXCEPT ![i] = Bared(left), ![p] = Shorter(p, k)]
        /\ \/ /\ left = Blank /\ nodes[i].links = 1
              /\ used' = used \ {i} /\ free_inodes' = free_inodes + 1
              /\ space' = IF nodes[i].storage = "Direct" THEN space + 1 ELSE space
           \/ /\ left = Raised(nodes[i], -1) /\ nodes[i].links > 1
              /\ UNCHANGED <<used, free_inodes, space>>
  <2>1. Blank \in INode
    <3>1. <<>> \in Seq(DirItem) /\ 0 \in 0 .. MaxLinks + 1
      BY NamespaceAssumption
    <3> QED
      BY <3>1 DEF Blank, INode
  <2>2. nodes[i].links > 1 => Raised(nodes[i], -1) \in INode
    <3>1. MaxLinks \in Nat
      BY NamespaceAssumption
    <3>2. nodes[i].links > 1 => nodes[i].links + (-1) \in 0 .. MaxLinks + 1
      BY <1>5, <3>1
    <3> QED
      BY <1>5, <3>2, INodeFields DEF Raised, Made, INode
  <2>3. PICK left \in INode :
        /\ nodes' = [nodes EXCEPT ![i] = left, ![p] = Shorter(p, k)]
        /\ \/ /\ left = Blank /\ nodes[i].links = 1
              /\ used' = used \ {i} /\ free_inodes' = free_inodes + 1
              /\ space' = IF nodes[i].storage = "Direct" THEN space + 1 ELSE space
           \/ /\ left = Raised(nodes[i], -1) /\ nodes[i].links > 1
              /\ UNCHANGED <<used, free_inodes, space>>
    BY <1>3, <1>6, <2>1, <2>2 DEF Unlinked
  <2>4. nodes' \in [Inode -> INode] /\ Bare' = BareOf(nodes')
    BY <1>2, <1>7, <2>3 DEF Bare
  <2>5. BareOf(nodes') \in [Inode -> INode]
        /\ \A d \in Inode : BareOf(nodes')[d] = Bared(nodes'[d])
    BY <2>4, BareIs
  <2>6. Bared(Shorter(p, k)) = Shorter(p, k) /\ Bared(left) \in INode
    BY <1>7, BaredIs
  <2>7. \A d \in Inode : Bare[d] = Bared(nodes[d])
    BY NodeFacts
  <2> HIDE DEF Bare
  <2>8. \A d \in Inode :
            BareOf(nodes')[d] = [Bare EXCEPT ![i] = Bared(left), ![p] = Shorter(p, k)][d]
    BY <1>2, <1>4, <1>5, <1>7, <2>3, <2>5, <2>6, <2>7
  <2>9. [Bare EXCEPT ![i] = Bared(left), ![p] = Shorter(p, k)] \in [Inode -> INode]
    BY <1>2, <1>7, <2>6
  <2>10. Bare' = [Bare EXCEPT ![i] = Bared(left), ![p] = Shorter(p, k)]
    BY <2>4, <2>5, <2>8, <2>9
  <2> QED
    BY <2>3, <2>10
<1> DEFINE bared == Bared(left)
<1>9. /\ Bare' = [Bare EXCEPT ![i] = bared, ![p] = Shorter(p, k)]
      /\ left = Blank => bared = Tree!Blank
      /\ nodes[i].links > 1 /\ left = Raised(nodes[i], -1) => bared = Tree!Raised(Bare[i], -1)
      /\ Bare[i].storage = nodes[i].storage
      /\ bared.type = left.type
  <2>1. left = Blank => bared = Tree!Blank
    BY DEF Bared, Made, Blank, Tree!Blank
  <2>2. left = Raised(nodes[i], -1) => bared = Tree!Raised(Bare[i], -1)
    BY <1>5 DEF Bared, Raised, Tree!Raised, Tree!Made, Made
  <2> QED
    BY <1>5, <1>8, <2>1, <2>2, BaredIs
<1> HIDE DEF bared
<1>10. /\ Tree!Unlinked(p, k) /\ k \in Tree!Below(p)
       /\ i = Bare[p].items[k].id
       /\ Bare[i].type = "Directory" => Len(Bare[i].items) = 2
  <2>1. Tree!Unlinked(p, k)
    BY <1>2, <1>3, <1>5, <1>7, <1>8, <1>9 DEF Tree!Unlinked
  <2>2. Len(nodes[p].items) \in Nat
    BY <1>2, INodeFields
  <2>3. k \in Tree!Below(p)
    BY <1>2, <1>3, <2>2 DEF Tree!Below
  <2>4. Bare[i].type = "Directory" => Len(Bare[i].items) = 2
    BY <1>1, <1>5, BaredIs DEF IsDirEmpty
  <2> QED
    BY <1>2, <1>3, <2>1, <2>3, <2>4
<1>11. Tree!Removed(p, k)
  BY <1>3, <1>4, <1>10, SameNames DEF Tree!Removed
<1>12. Tree!Cut(p, k, i)
  BY <1>10, <1>11, Tree!RemovedCut, NamespaceAssumption, SameNames DEF TreeInv
<1>13. Tree!Inv'
  BY <1>12, Tree!CutInv, NamespaceAssumption, SameNames DEF TreeInv
<1>14. \A d \in Inode \ {i, p} : nodes'[d] = nodes[d]
  BY <1>2, <1>8
<1>15. /\ nodes' \in [Inode -> INode] /\ nodes'[i] = left /\ nodes'[p] = Shorter(p, k)
  BY <1>2, <1>4, <1>5, <1>7, <1>8
<1>16. /\ left.type = "File" => left = Blank \/ left.items = nodes[i].items
       /\ left = Blank => used' = used \ {i}
       /\ left # Blank => used' = used /\ left.type = nodes[i].type
  BY <1>5, <1>8 DEF Raised, Made, Blank
<1>17. FilesFit'
  <2>1. ASSUME NEW d \in Inode, nodes'[d].type = "File"
        PROVE  /\ Len(nodes'[d].items) <= BlockItems
               /\ \A h \in 1 .. Len(nodes'[d].items) : nodes'[d].items[h] \in Units
    <3>1. CASE nodes'[d].type = nodes[d].type /\ nodes'[d].items = nodes[d].items
      BY <2>1, <3>1 DEF TreeInv, FilesFit
    <3>2. CASE nodes'[d] = Blank
      <4>1. nodes'[d].items = <<>>
        BY <3>2 DEF Blank
      <4> QED
        BY <4>1, NamespaceAssumption
    <3>3. d # p
      BY <1>7, <1>15, <2>1
    <3>4. d = i => \/ nodes'[d] = Blank
                   \/ nodes'[d].type = nodes[d].type /\ nodes'[d].items = nodes[d].items
      BY <1>15, <1>16, <2>1
    <3> QED
      BY <1>14, <3>1, <3>2, <3>3, <3>4
  <2>2. ASSUME NEW d \in Inode \ used'
        PROVE  nodes'[d] = Blank
    <3>1. CASE d = i
      BY <1>3, <1>15, <1>16, <3>1
    <3>2. CASE d # i
      <4>1. d \in Inode \ used /\ d # p
        BY <1>4, <1>16, <2>2, <3>2
      <4>2. nodes'[d] = nodes[d]
        BY <1>14, <3>2, <4>1
      <4> QED
        BY <4>1, <4>2 DEF TreeInv, FilesFit
    <3> QED
      BY <3>1, <3>2
  <2> QED
    BY <1>15, <2>1, <2>2 DEF FilesFit, Units
<1>18. nodes'[Root].items[2].id = Root
  <2>1. CASE Root # p
    BY <1>2, <1>3, <1>14, <2>1 DEF TreeInv
  <2>2. CASE Root = p
    <3>1. Len(Bare[p].items) \in Nat /\ 2 \in 1 .. Len(Bare[p].items) - 1 /\ k # 2
      <4>1. k >= 3 /\ k \in 1 .. Len(nodes[p].items) /\ Len(nodes[p].items) \in Nat
        BY <1>2, <1>3, INodeFields
      <4> QED
        BY <1>2, <4>1
    <3>2. Bare'[p].items[2] = Bare[p].items[2]
      BY <1>12, <3>1 DEF Tree!Cut
    <3>3. Bare'[p] = nodes'[p]
      BY <1>2, <1>7, <1>9, <1>15
    <3> QED
      BY <1>2, <2>2, <3>2, <3>3 DEF TreeInv
  <2> QED
    BY <2>1, <2>2
<1>19. TreeInv'
  BY <1>13, <1>17, <1>18 DEF TreeInv
<1>20. /\ L' \subseteq L /\ L \subseteq L' \cup {<<p, n, i>>}
       /\ \A l \in L : l[1] # i
  <2>1. Tree!LinksByPlace
    BY TreeLinks DEF TreeInv
  <2>2. Tree!Inv' => Tree!LinksByPlace'
    BY TreeLinks, PTL
  <2> QED
    BY <1>2, <1>3, <1>12, <1>13, <2>1, <2>2, Tree!CutLinks, NamespaceAssumption, SameNames
       DEF TreeInv, L
<1>21. <<p, n, i>> \notin L'
  <2> SUFFICES ASSUME <<p, n, i>> \in L' PROVE FALSE
    OBVIOUS
  <2>1. Tree!Inv' => Tree!LinksByPlace'
    BY TreeLinks, PTL
  <2>2. PICK d \in used' : \E j \in Tree!Below(d)' :
            <<p, n, i>> = <<d, Bare'[d].items[j].name, Bare'[d].items[j].id>>
    BY <1>13, <2>1 DEF L, Tree!LinksByPlace
  <2>3. PICK j \in Tree!Below(d)' :
            <<p, n, i>> = <<d, Bare'[d].items[j].name, Bare'[d].items[j].id>>
    BY <2>2
  <2>4. d = p /\ i = Bare'[p].items[j].id
    BY <2>3
  <2>5. /\ d \in used /\ Tree!From(p, k, d, j) \in Tree!Below(d)
        /\ j \in 1 .. Len(Bare'[d].items)
        /\ Bare'[d].items[j] = Bare[d].items[Tree!From(p, k, d, j)]
    BY <1>12, <2>3, Tree!CutBelow, NamespaceAssumption, SameNames DEF TreeInv
  <2>6. ~(d = p /\ Tree!From(p, k, d, j) = k)
    BY <1>12, <2>5, Tree!CutEntries, NamespaceAssumption, SameNames DEF TreeInv
  <2> DEFINE h == Tree!From(p, k, d, j)
  <2>7. h \in Tree!Below(p) /\ Bare[p].items[h].id = i /\ h # k
    BY <2>4, <2>5, <2>6
  <2>8. k \in Tree!Below(p) /\ Bare[p].items[k].id = i
    BY <1>10
  <2> HIDE DEF h
  <2> QED
    BY <2>7, <2>8 DEF TreeInv, Tree!Inv, Tree!OneParent
<1>22. \A d \in used \ {i} : d \in used' /\ nodes'[d].type = nodes[d].type
  BY <1>2, <1>7, <1>14, <1>15, <1>16
<1>23. \A d \in used \ {i} : nodes[d].type = "File" => nodes'[d].items = nodes[d].items
  BY <1>2, <1>14
<1>24. L' = L \ {<<p, n, i>>}
  BY <1>20, <1>21
<1> QED
  BY <1>1, <1>2, <1>6, <1>16, <1>19, <1>20, <1>22, <1>23, <1>24
-----------------------------------------------------------------------------
\* A file by directory, name and inode.
NamedFile(p, n, i) == <<p, n, i>> \in L /\ nodes[i].type = "File"

\* Every handle is on the file of the name it was opened by, ...
HandlesInv ==
    /\ cur_fd \in 0 .. MaxFd /\ DOMAIN fd_table \subseteq 0 .. cur_fd - 1
    /\ DOMAIN opened = DOMAIN fd_table
    /\ closed \subseteq (0 .. cur_fd - 1) \ DOMAIN fd_table
    /\ \A fd \in DOMAIN fd_table :
        /\ fd_table[fd] \in [inode_id : Inode, offset : 0 .. BlockItems]
        /\ opened[fd] = <<opened[fd][1], opened[fd][2]>>
        /\ NamedFile(opened[fd][1], opened[fd][2], fd_table[fd].inode_id)

\* ... and every file has what was written to it by its name.
Holds(i, units) ==
    \A o \in DOMAIN units :
        o \in Nat /\ o < Len(nodes[i].items) /\ nodes[i].items[o + 1] = Unit(units[o])

WroteInv ==
    /\ \A name \in DOMAIN wrote : \E i \in used : name = <<name[1], name[2]>> /\ NamedFile(name[1], name[2], i)
    /\ \A p \in used, n \in Name, i \in used : NamedFile(p, n, i) =>
        <<p, n>> \in DOMAIN wrote /\ Holds(i, wrote[<<p, n>>])

\* What cat has printed is what lies before its handle.
CatInv ==
    task.cmd = "cat" =>
        /\ task.fd \in DOMAIN fd_table
        /\ fd_table[task.fd].offset <= Len(File(task.fd))
        /\ shown = [k \in 1 .. fd_table[task.fd].offset |-> File(task.fd)[k].name]

TaskInv ==
    /\ \/ task = Idle
       \/ /\ task.cmd \in {"mkdirn", "touchn"}
          /\ task.left \in Seq(ClientName) /\ task.left # <<>>
       \/ task.cmd = "cat"
    /\ task.cmd # "cat" => shown = <<>>

ShellInv ==
    /\ TreeInv /\ HandlesInv /\ WroteInv /\ CatInv /\ TaskInv
    /\ cur_path \in Seq(ClientName) /\ got \in Seq(Value \cup {Zero})

\* The tree, the handles, and what the files hold.
FilesInv == TreeInv /\ HandlesInv /\ WroteInv /\ got \in Seq(Value \cup {Zero})

\* Where a file is, and that it is the only one there.
LEMMA NamedFileFacts ==
    ASSUME TreeInv
    PROVE  /\ \A p, n, i : NamedFile(p, n, i) => p \in used /\ n \in Name /\ i \in used
           /\ \A p, n, q, m, i : NamedFile(p, n, i) /\ NamedFile(q, m, i) => p = q /\ n = m
           /\ \A p, n, i, j : NamedFile(p, n, i) /\ NamedFile(p, n, j) => i = j
  BY LinkFacts DEF NamedFile

\* The same of every state.
InUse == \A p, n, i : NamedFile(p, n, i) => p \in used /\ n \in Name /\ i \in used

LEMMA NamedUsed == TreeInv => InUse
  BY NamedFileFacts DEF InUse

\* What open's checks find is a file by that name.
LEMMA IsFileNamed ==
    ASSUME TreeInv, NEW p \in used
    PROVE  /\ \A n \in ClientName : IsFile(p, n) => NamedFile(p, n, Target(p, n))
           /\ \A n, i : NamedFile(p, n, i) => IsFile(p, n) /\ Target(p, n) = i
<1>1. ASSUME NEW n \in ClientName, IsFile(p, n)
      PROVE  NamedFile(p, n, Target(p, n))
  <2>1. n \in Name /\ Has(nodes[p], n) /\ nodes[Target(p, n)].type = "File"
    BY <1>1, HandleAssumption DEF IsFile
  <2>2. nodes[p].type = "Directory"
    BY <2>1, FoundIs, NodeFacts
  <2> QED
    BY <2>1, <2>2, FoundIs DEF NamedFile
<1>2. ASSUME NEW n, NEW i, NamedFile(p, n, i)
      PROVE  IsFile(p, n) /\ Target(p, n) = i
  <2>1. nodes[p].type = "Directory" /\ n \in Name
    BY <1>2, LinkFacts DEF NamedFile
  <2> QED
    BY <1>2, <2>1, FoundIs DEF NamedFile, IsFile
<1> QED
  BY <1>1, <1>2

\* The two parts of the invariant that a step leaves alone.
LEMMA HandlesKept ==
    ASSUME HandlesInv, UNCHANGED <<fd_table, cur_fd, closed, opened>>,
           \A fd \in DOMAIN fd_table :
            NamedFile(opened[fd][1], opened[fd][2], fd_table[fd].inode_id)'
    PROVE  HandlesInv'
  BY DEF HandlesInv

\* What was written stays where no name and no file's contents change.
LEMMA WroteKept ==
    ASSUME TreeInv', WroteInv, UNCHANGED wrote,
           \A p, n, i : NamedFile(p, n, i)' <=> NamedFile(p, n, i),
           \A p, n, i : NamedFile(p, n, i) =>
            p \in used /\ n \in Name /\ i \in used /\ nodes'[i].items = nodes[i].items
    PROVE  WroteInv'
<1>1. ASSUME NEW p, NEW n, NEW i, NamedFile(p, n, i)'
      PROVE  <<p, n>> \in DOMAIN wrote' /\ Holds(i, wrote[<<p, n>>])'
  BY <1>1 DEF WroteInv, Holds
<1>2. ASSUME NEW name \in DOMAIN wrote'
      PROVE  \E i \in used' : name = <<name[1], name[2]>> /\ NamedFile(name[1], name[2], i)'
  <2>1. PICK i \in used : name = <<name[1], name[2]>> /\ NamedFile(name[1], name[2], i)
    BY <1>2 DEF WroteInv
  <2>2. TreeInv' => InUse'
    BY NamedUsed, PTL
  <2> QED
    BY <2>1, <2>2 DEF InUse
<1> QED
  BY <1>1, <1>2 DEF WroteInv

\* What is left by a step that leaves the inodes alone.
LEMMA TreeStays ==
    ASSUME TreeInv, UNCHANGED <<used, nodes, free_inodes, space>>
    PROVE  /\ TreeInv' /\ L' = L
           /\ \A p, n, i : NamedFile(p, n, i)' <=> NamedFile(p, n, i)
<1>1. Kept
  BY NodeFacts, Bounds, UnchangedKept
<1>2. TreeInv' /\ L' = L
  BY <1>1, KeptTree
<1> QED
  BY <1>2 DEF NamedFile

\* ... the handles alone.
LEMMA StaysInv ==
    ASSUME FilesInv, UNCHANGED <<used, nodes, free_inodes, space, wrote>>,
           got' \in Seq(Value \cup {Zero}), HandlesInv'
    PROVE  FilesInv'
<1>1. /\ TreeInv' /\ \A p, n, i : NamedFile(p, n, i)' <=> NamedFile(p, n, i)
  BY TreeStays DEF FilesInv
<1>2. \A p, n, i : NamedFile(p, n, i) =>
        p \in used /\ n \in Name /\ i \in used /\ nodes'[i].items = nodes[i].items
  BY NamedFileFacts DEF FilesInv
<1>3. WroteInv'
  BY <1>1, <1>2, WroteKept DEF FilesInv
<1> QED
  BY <1>1, <1>3 DEF FilesInv

\* A call on a descriptor that is not open changes nothing.
LEMMA BadDescriptorInv ==
    ASSUME FilesInv, NEW fd \in Fd, BadDescriptor(fd)
    PROVE  FilesInv' /\ ret' = "failed"
<1>1. HandlesInv'
  <2>1. \A p, n, i : NamedFile(p, n, i)' <=> NamedFile(p, n, i)
    BY TreeStays DEF FilesInv, BadDescriptor
  <2> QED
    BY <2>1, HandlesKept DEF FilesInv, HandlesInv, BadDescriptor
<1>2. got' \in Seq(Value \cup {Zero}) /\ ret' = "failed"
  BY DEF BadDescriptor
<1> QED
  BY <1>1, <1>2, StaysInv DEF BadDescriptor

\* close takes one handle away.
LEMMA CloseInv ==
    ASSUME FilesInv, NEW fd \in Fd, Close(fd)
    PROVE  FilesInv' /\ ret' = "done"
<1>1. \A p, n, i : NamedFile(p, n, i)' <=> NamedFile(p, n, i)
  BY TreeStays DEF FilesInv, Close
<1>2. /\ DOMAIN fd_table' = DOMAIN fd_table \ {fd} /\ DOMAIN opened' = DOMAIN fd_table \ {fd}
      /\ \A x \in DOMAIN fd_table' : fd_table'[x] = fd_table[x] /\ opened'[x] = opened[x]
  BY DEF FilesInv, HandlesInv, Close, Without, Restrict
<1>3. closed' \subseteq (0 .. cur_fd - 1) \ DOMAIN fd_table' /\ cur_fd' = cur_fd
  BY <1>2 DEF FilesInv, HandlesInv, Close
<1>4. HandlesInv'
  BY <1>1, <1>2, <1>3 DEF FilesInv, HandlesInv
<1>5. got' \in Seq(Value \cup {Zero}) /\ ret' = "done"
  BY DEF Close
<1> QED
  BY <1>4, <1>5, StaysInv DEF Close

\* open adds a handle on the file that the name leads to.
LEMMA OpenInv ==
    ASSUME FilesInv, NEW p \in used, NEW n \in ClientName, NEW off \in 0 .. BlockItems, Open(p, n, off)
    PROVE  /\ FilesInv' /\ ret' \in {"open", "failed"}
           /\ ret' = "open" =>
                /\ cur_fd \in DOMAIN fd_table' /\ fd_table'[cur_fd].offset = off
<1>1. \A q, m, i : NamedFile(q, m, i)' <=> NamedFile(q, m, i)
  BY TreeStays DEF FilesInv, Open
<1>2. got' \in Seq(Value \cup {Zero}) /\ ret' \in {"open", "failed"}
  BY DEF Open
<1>3. CASE ~IsFile(p, n)
  <2>1. UNCHANGED <<fd_table, opened, cur_fd, closed>> /\ ret' = "failed"
    BY <1>3 DEF Open
  <2>2. HandlesInv'
    BY <1>1, <2>1, HandlesKept DEF FilesInv, HandlesInv
  <2> QED
    BY <1>2, <2>1, <2>2, StaysInv DEF Open
<1>4. CASE IsFile(p, n)
  <2> DEFINE h == [inode_id |-> Target(p, n), offset |-> off]
             name == <<p, n>>
  <2>1. NamedFile(p, n, Target(p, n)) /\ Target(p, n) \in Inode
    BY <1>4, IsFileNamed, NamedFileFacts, NodeFacts DEF FilesInv
  <2>2. /\ h \in [inode_id : Inode, offset : 0 .. BlockItems]
        /\ h.inode_id = Target(p, n) /\ h.offset = off
        /\ name = <<name[1], name[2]>> /\ name[1] = p /\ name[2] = n
    BY <2>1, HandleAssumption
  <2>3. /\ cur_fd \in 0 .. MaxFd /\ cur_fd < MaxFd /\ MaxFd \in Nat
        /\ cur_fd \notin DOMAIN fd_table /\ DOMAIN opened = DOMAIN fd_table
        /\ DOMAIN fd_table \subseteq 0 .. cur_fd - 1
        /\ closed \subseteq (0 .. cur_fd - 1) \ DOMAIN fd_table
    BY HandleAssumption DEF FilesInv, HandlesInv, Open
  <2>4. /\ fd_table' = Extended(fd_table, cur_fd, h) /\ opened' = Extended(opened, cur_fd, name)
        /\ cur_fd' = cur_fd + 1 /\ closed' = closed /\ ret' = "open"
    BY <1>4 DEF Open, NextFd
  <2> HIDE DEF h, name
  <2>5. /\ DOMAIN fd_table' = DOMAIN fd_table \cup {cur_fd} /\ DOMAIN opened' = DOMAIN fd_table'
        /\ fd_table'[cur_fd] = h /\ opened'[cur_fd] = name
        /\ \A x \in DOMAIN fd_table : fd_table'[x] = fd_table[x] /\ opened'[x] = opened[x]
    BY <2>3, <2>4 DEF Extended
  <2>6. /\ cur_fd' \in 0 .. MaxFd /\ DOMAIN fd_table' \subseteq 0 .. cur_fd' - 1
        /\ closed' \subseteq (0 .. cur_fd' - 1) \ DOMAIN fd_table'
    BY <2>3, <2>4, <2>5
  <2>7. HandlesInv'
    BY <1>1, <2>1, <2>2, <2>5, <2>6 DEF FilesInv, HandlesInv
  <2>8. FilesInv'
    BY <1>2, <2>7, StaysInv DEF Open
  <2> QED
    BY <2>2, <2>4, <2>5, <2>8
<1> QED
  BY <1>3, <1>4

\* One handle is moved.
LEMMA MovedInv ==
    ASSUME FilesInv, NEW fd \in DOMAIN fd_table, NEW off \in 0 .. BlockItems,
           fd_table' = [fd_table EXCEPT ![fd].offset = off],
           UNCHANGED <<cur_fd, closed, opened>>,
           \A p, n, i : NamedFile(p, n, i)' <=> NamedFile(p, n, i)
    PROVE  /\ HandlesInv' /\ DOMAIN fd_table' = DOMAIN fd_table
           /\ fd_table'[fd].offset = off
           /\ \A x \in DOMAIN fd_table : fd_table'[x].inode_id = fd_table[x].inode_id
           /\ \A x \in DOMAIN fd_table \ {fd} : fd_table'[x] = fd_table[x]
<1>1. fd_table[fd] \in [inode_id : Inode, offset : 0 .. BlockItems]
  BY DEF FilesInv, HandlesInv
<1> DEFINE h == [fd_table[fd] EXCEPT !.offset = off]
<1>2. /\ h \in [inode_id : Inode, offset : 0 .. BlockItems]
      /\ h.offset = off /\ h.inode_id = fd_table[fd].inode_id
  BY <1>1
<1>3. fd_table' = [fd_table EXCEPT ![fd] = h]
  OBVIOUS
<1> HIDE DEF h
<1>4. /\ DOMAIN fd_table' = DOMAIN fd_table /\ fd_table'[fd] = h
      /\ \A x \in DOMAIN fd_table \ {fd} : fd_table'[x] = fd_table[x]
  BY <1>3
<1>5. HandlesInv'
  BY <1>2, <1>4 DEF FilesInv, HandlesInv
<1> QED
  BY <1>2, <1>4, <1>5

\* seek only moves the handle.
LEMMA SeekInv ==
    ASSUME FilesInv, NEW fd \in Fd, NEW off \in Offsets, Seek(fd, off)
    PROVE  FilesInv' /\ ret' = "done"
<1>1. fd \in DOMAIN fd_table /\ off \in 0 .. BlockItems /\ ret' = "done"
      /\ got' \in Seq(Value \cup {Zero})
  BY HandleAssumption DEF Seek
<1>2. \A p, n, i : NamedFile(p, n, i)' <=> NamedFile(p, n, i)
  BY TreeStays DEF FilesInv, Seek
<1>3. HandlesInv'
  BY <1>1, <1>2, MovedInv DEF Seek
<1> QED
  BY <1>1, <1>3, StaysInv DEF Seek

\* A handle is on a file, with what is known of it.
LEMMA HandleFacts ==
    ASSUME FilesInv, NEW fd \in DOMAIN fd_table
    PROVE  /\ fd_table[fd].inode_id \in used /\ fd_table[fd].offset \in 0 .. BlockItems
           /\ nodes[fd_table[fd].inode_id].type = "File"
           /\ nodes[fd_table[fd].inode_id].items \in Seq(DirItem)
           /\ Len(nodes[fd_table[fd].inode_id].items) \in 0 .. BlockItems
           /\ \A k \in 1 .. Len(nodes[fd_table[fd].inode_id].items) :
                nodes[fd_table[fd].inode_id].items[k] \in Units
           /\ opened[fd] \in DOMAIN wrote
           /\ Holds(fd_table[fd].inode_id, wrote[opened[fd]])
<1> DEFINE i == fd_table[fd].inode_id
           name == opened[fd]
<1>1. /\ fd_table[fd] \in [inode_id : Inode, offset : 0 .. BlockItems]
      /\ name = <<name[1], name[2]>> /\ NamedFile(name[1], name[2], i)
  BY DEF FilesInv, HandlesInv
<1> HIDE DEF i, name
<1>2. i \in used /\ name[1] \in used /\ name[2] \in Name
  BY <1>1, NamedFileFacts DEF FilesInv
<1>3. name \in DOMAIN wrote /\ Holds(i, wrote[name])
  BY <1>1, <1>2 DEF FilesInv, WroteInv
<1>4. nodes[i].type = "File" /\ i \in Inode
  BY <1>1, <1>2, NodeFacts DEF NamedFile, FilesInv
<1>5. /\ nodes[i].items \in Seq(DirItem) /\ Len(nodes[i].items) \in 0 .. BlockItems
  BY <1>4, NodeFacts DEF FilesInv
<1>6. \A k \in 1 .. Len(nodes[i].items) : nodes[i].items[k] \in Units
  BY <1>4 DEF FilesInv, TreeInv, FilesFit
<1>7. fd_table[fd].offset \in 0 .. BlockItems
  BY <1>1
<1> QED
  BY <1>2, <1>3, <1>4, <1>5, <1>6, <1>7 DEF i, name

\* What ReadsInOrder says of a step that reads.
ReadStep(fd) ==
    LET off == fd_table[fd].offset
        size == Len(nodes[fd_table[fd].inode_id].items)
        known == wrote[opened[fd]]
    IN  /\ fd_table'[fd].offset = off + Len(got')
        /\ off <= size => off + Len(got') <= size
        /\ \A k \in DOMAIN got' : off + k - 1 \in DOMAIN known => got'[k] = known[off + k - 1]

\* What read returns, and how many units.
OfUnits(items) == items \in Seq(DirItem) /\ \A k \in 1 .. Len(items) : items[k] \in Units

ReadResult(items, off, count, f) ==
    /\ count \in Nat
    /\ off <= Len(items) => off + count <= Len(items)
    /\ off <= Len(items) /\ count = 0 => off = Len(items)
    /\ off > Len(items) => count # 0
    /\ f \in Seq(Value \cup {Zero}) /\ Len(f) = count
    /\ \A k \in 1 .. count : off + k <= Len(items) => f[k] = items[off + k].name

\* read_data returns as many units as it should, those of the file first.
LEMMA ReadIs ==
    ASSUME NEW items, OfUnits(items), NEW off \in Nat, NEW n \in Nat \ {0},
           NEW count, count = ReadCount(Len(items), off, n)
    PROVE  ReadResult(items, off, count, ReadUnits(items, off, count))
<1>0. items \in Seq(DirItem) /\ \A k \in 1 .. Len(items) : items[k] \in Units
  BY DEF OfUnits
<1>1. Len(items) \in Nat
  BY <1>0
<1>2. /\ count \in Nat
      /\ off <= Len(items) => off + count <= Len(items)
      /\ off <= Len(items) /\ count = 0 => off = Len(items)
      /\ off > Len(items) => count # 0
  BY <1>1 DEF ReadCount
<1> DEFINE f == ReadUnits(items, off, count)
<1>3. f = [k \in 1 .. count |-> IF off + k <= Len(items) THEN items[off + k].name ELSE Zero]
  BY DEF ReadUnits
<1>4. ASSUME NEW k \in 1 .. count, off + k <= Len(items)
      PROVE  items[off + k].name \in Value \cup {Zero}
  <2>1. off + k \in 1 .. Len(items)
    BY <1>1, <1>2, <1>4
  <2>2. PICK v \in Value \cup {Zero} : items[off + k] = Unit(v)
    BY <1>0, <2>1 DEF Units
  <2> QED
    BY <2>2 DEF Unit
<1>5. f \in [1 .. count -> Value \cup {Zero}]
  BY <1>3, <1>4
<1>6. /\ f \in Seq(Value \cup {Zero}) /\ Len(f) = count
  <2> HIDE DEF f
  <2> QED
    BY <1>2, <1>5, SequenceIs
<1>7. \A k \in 1 .. count : off + k <= Len(items) => f[k] = items[off + k].name
  BY <1>3
<1> HIDE DEF f
<1>8. ReadResult(items, off, count, f)
  BY <1>2, <1>6, <1>7 DEF ReadResult
<1> QED
  BY <1>8 DEF f

\* read moves the handle by what it returned, and changes no file.
LEMMA ReadInv ==
    ASSUME FilesInv, NEW fd \in Fd, NEW n \in Nat \ {0}, Read(fd, n)
    PROVE  /\ FilesInv' /\ fd \in DOMAIN fd_table /\ ReadStep(fd) /\ ret' = "read"
           /\ DOMAIN fd_table' = DOMAIN fd_table
           /\ fd_table'[fd].inode_id = fd_table[fd].inode_id
           /\ fd_table[fd].offset <= Len(File(fd)) =>
                \A k \in 1 .. Len(got') : got'[k] = File(fd)[fd_table[fd].offset + k].name
<1> DEFINE i == fd_table[fd].inode_id
           items == nodes[i].items
           off == fd_table[fd].offset
           count == ReadCount(Len(items), off, n)
           known == wrote[opened[fd]]
<1>1. /\ fd \in DOMAIN fd_table /\ ret' = "read"
      /\ off + count <= BlockItems /\ got' = ReadUnits(items, off, count)
      /\ fd_table' = Advanced(fd, count)
      /\ UNCHANGED <<used, nodes, free_inodes, space, cur_fd, closed, opened, wrote>>
  BY DEF Read
<1>2. /\ off \in Nat /\ BlockItems \in Nat /\ items \in Seq(DirItem)
      /\ \A k \in 1 .. Len(items) : items[k] \in Units
      /\ Holds(i, known)
  BY <1>1, HandleFacts, NamespaceAssumption
<1>3. items = File(fd) /\ Advanced(fd, count) = [fd_table EXCEPT ![fd].offset = off + count]
  BY DEF File, Advanced
<1>4. ReadStep(fd) <=>
        /\ fd_table'[fd].offset = off + Len(got')
        /\ off <= Len(items) => off + Len(got') <= Len(items)
        /\ \A k \in DOMAIN got' : off + k - 1 \in DOMAIN known => got'[k] = known[off + k - 1]
  BY DEF ReadStep
<1>5. Holds(i, known) =>
        \A o \in DOMAIN known : o \in Nat /\ o < Len(items) /\ items[o + 1] = Unit(known[o])
  BY DEF Holds
<1> HIDE DEF items, known, i, off, count
<1>6. /\ count \in Nat
      /\ off <= Len(items) => off + count <= Len(items)
      /\ got' \in Seq(Value \cup {Zero}) /\ Len(got') = count
      /\ \A k \in 1 .. count : off + k <= Len(items) => got'[k] = items[off + k].name
  <2>1. count = ReadCount(Len(items), off, n)
    BY DEF count
  <2>2. OfUnits(items)
    BY <1>2 DEF OfUnits
  <2>3. ReadResult(items, off, count, ReadUnits(items, off, count))
    BY <1>2, <2>1, <2>2, ReadIs
  <2>4. ReadResult(items, off, count, got')
    BY <1>1, <2>3
  <2> QED
    BY <2>4 DEF ReadResult
<1>7. off + count \in 0 .. BlockItems
  BY <1>1, <1>2, <1>6
<1>8. \A p, m, j : NamedFile(p, m, j)' <=> NamedFile(p, m, j)
  BY <1>1, TreeStays DEF FilesInv
<1>9. /\ HandlesInv' /\ DOMAIN fd_table' = DOMAIN fd_table
      /\ fd_table'[fd].offset = off + count
      /\ fd_table'[fd].inode_id = fd_table[fd].inode_id
  BY <1>1, <1>3, <1>7, <1>8, MovedInv
<1>10. FilesInv'
  BY <1>1, <1>6, <1>9, StaysInv
<1>11. DOMAIN got' = 1 .. count /\ Len(items) \in Nat
  BY <1>2, <1>6
<1>12. ASSUME NEW k \in 1 .. count, off + k - 1 \in DOMAIN known
       PROVE  got'[k] = known[off + k - 1]
  <2>1. /\ off + k - 1 < Len(items) /\ items[off + k - 1 + 1] = Unit(known[off + k - 1])
    BY <1>2, <1>5, <1>12
  <2>2. off + k <= Len(items) /\ off + k - 1 + 1 = off + k
    BY <1>2, <1>6, <1>11, <1>12, <2>1
  <2>3. got'[k] = Unit(known[off + k - 1]).name
    BY <1>6, <1>12, <2>1, <2>2
  <2> QED
    BY <2>3 DEF Unit
<1>13. ReadStep(fd)
  BY <1>4, <1>6, <1>9, <1>11, <1>12
<1>14. off <= Len(items) => \A k \in 1 .. Len(got') : got'[k] = items[off + k].name
  <2>1. ASSUME off <= Len(items), NEW k \in 1 .. count
        PROVE  off + k <= Len(items)
    BY <1>2, <1>6, <1>11, <2>1
  <2> QED
    BY <1>6, <2>1
<1> QED
  BY <1>1, <1>3, <1>9, <1>10, <1>13, <1>14 DEF off

\* A write is of one file, and records what it wrote there.
LEMMA WriteIs ==
    ASSUME FilesInv, NEW fd \in DOMAIN fd_table, NEW v \in Value, Write(fd, v), ret' # "failed"
    PROVE  /\ \E storage :
                WrittenTo(fd_table[fd].inode_id, fd_table[fd].offset, v, storage)
           /\ fd_table' = [fd_table EXCEPT ![fd].offset = fd_table[fd].offset + 1]
           /\ fd_table[fd].offset < BlockItems
           /\ wrote' = Recorded(fd, fd_table[fd].offset, v)
           /\ got' = <<>> /\ UNCHANGED <<cur_fd, closed, opened>>
<1> DEFINE h == fd_table[fd]
           f == fd_table[fd].inode_id
           off == fd_table[fd].offset
           grows == nodes[f].storage = "Inline" /\ off >= InlineItems
           storage == IF grows THEN "Direct" ELSE nodes[f].storage
<1>1. f \in Inode /\ nodes \in [Inode -> INode]
  BY HandleFacts, NodeFacts DEF FilesInv
<1>2. /\ ~(grows /\ space = 0)
      /\ nodes' = [nodes EXCEPT ![f].items = Overlaid(@, off, v),
                                ![f].storage = IF grows THEN "Direct" ELSE @]
      /\ space' = IF grows THEN space - 1 ELSE space
      /\ ret' = "write" /\ UNCHANGED <<used, free_inodes>>
  BY DEF Write
<1>3. nodes' = PutIn(nodes, f, off, v, storage)
  BY <1>1, <1>2 DEF PutIn
<1>4. \/ storage = nodes[f].storage /\ space' = space
      \/ /\ nodes[f].storage = "Inline" /\ storage = "Direct"
         /\ space # 0 /\ space' = space - 1
  BY <1>2
<1>5. WrittenTo(f, off, v, storage)
  BY <1>2, <1>3, <1>4 DEF WrittenTo
<1>6. /\ fd_table' = Advanced(fd, 1) /\ wrote' = Recorded(fd, off, v) /\ off < BlockItems
      /\ got' = <<>> /\ UNCHANGED <<cur_fd, closed, opened>>
  BY DEF Write
<1>7. Advanced(fd, 1) = [fd_table EXCEPT ![fd].offset = off + 1]
  BY DEF Advanced
<1> HIDE DEF storage
<1> QED
  BY <1>5, <1>6, <1>7

\* write records its unit under the name of the handle's file, or fails.
LEMMA WriteInv ==
    ASSUME FilesInv, NEW fd \in Fd, NEW v \in Value, Write(fd, v)
    PROVE  /\ FilesInv' /\ ret' \in {"write", "failed"} /\ L' = L
           /\ \A i \in Inode : nodes'[i].type = nodes[i].type
<1>1. fd \in DOMAIN fd_table /\ ret' \in {"write", "failed"}
  BY DEF Write
<1>2. CASE ret' = "failed"
  <2>1. UNCHANGED <<used, nodes, free_inodes, space, fd_table, cur_fd, closed, opened, wrote>>
        /\ got' = <<>>
    BY <1>2 DEF Write
  <2>2. L' = L /\ \A p, n, i : NamedFile(p, n, i)' <=> NamedFile(p, n, i)
    BY <2>1, TreeStays DEF FilesInv
  <2>3. HandlesInv'
    BY <2>1, <2>2, HandlesKept DEF FilesInv, HandlesInv
  <2>4. got' \in Seq(Value \cup {Zero})
    BY <2>1
  <2> QED
    BY <1>1, <2>1, <2>2, <2>3, <2>4, StaysInv
<1>3. CASE ret' # "failed"
  <2>0. PICK f, off, name, items :
            /\ f = fd_table[fd].inode_id /\ off = fd_table[fd].offset /\ name = opened[fd]
            /\ items = Overlaid(nodes[f].items, off, v)
    OBVIOUS
  <2>1. PICK storage : WrittenTo(f, off, v, storage)
    BY <1>1, <1>3, <2>0, WriteIs
  <2>2. /\ fd_table' = [fd_table EXCEPT ![fd].offset = off + 1]
        /\ off < BlockItems /\ wrote' = Recorded(fd, off, v)
        /\ got' = <<>> /\ UNCHANGED <<cur_fd, closed, opened>>
    BY <1>1, <1>3, <2>0, WriteIs
  <2>3. /\ f \in used /\ off \in 0 .. BlockItems /\ nodes[f].type = "File"
        /\ nodes[f].items \in Seq(DirItem) /\ Len(nodes[f].items) \in 0 .. BlockItems
        /\ name \in DOMAIN wrote /\ Holds(f, wrote[name])
        /\ NamedFile(name[1], name[2], f) /\ name = <<name[1], name[2]>>
        /\ BlockItems \in Nat /\ used \subseteq Inode
    BY <1>1, <2>0, HandleFacts, NamespaceAssumption, NodeFacts DEF FilesInv, HandlesInv
  <2>4. wrote' = [wrote EXCEPT ![name] = Extended(wrote[name], off, v)]
    BY <2>0, <2>2, <2>3 DEF Recorded
  <2>5. off \in 0 .. BlockItems - 1 /\ off \in Nat /\ off + 1 \in 0 .. BlockItems
    BY <2>2, <2>3
  <2>6. /\ TreeInv' /\ L' = L /\ nodes'[f].items = items
        /\ \A i \in Inode : nodes'[i].type = nodes[i].type
        /\ \A i \in Inode \ {f} : nodes'[i] = nodes[i]
    BY <2>0, <2>1, <2>3, <2>5, WriteTree DEF FilesInv
  <2>7. \A p, n, i : NamedFile(p, n, i)' <=> NamedFile(p, n, i)
    <3>1. ASSUME NEW p, NEW n, NEW i, <<p, n, i>> \in L
          PROVE  nodes'[i].type = nodes[i].type
      BY <2>3, <2>6, <3>1, LinkFacts DEF FilesInv
    <3> QED
      BY <2>6, <3>1 DEF NamedFile
  <2>8. HandlesInv'
    BY <1>1, <2>2, <2>5, <2>7, MovedInv
  <2>9. wrote'[name] = Extended(wrote[name], off, v)
        /\ DOMAIN wrote' = DOMAIN wrote
        /\ \A x \in DOMAIN wrote \ {name} : wrote'[x] = wrote[x]
    BY <2>3, <2>4
  <2>10. \A o \in DOMAIN wrote'[name] :
            o \in Nat /\ o < Len(nodes'[f].items) /\ nodes'[f].items[o + 1] = Unit(wrote'[name][o])
    <3>1. /\ Len(items) = IF off < Len(nodes[f].items) THEN Len(nodes[f].items) ELSE off + 1
          /\ items[off + 1] = Unit(v)
          /\ \A k \in 1 .. Len(nodes[f].items) \ {off + 1} : items[k] = nodes[f].items[k]
      <4> DEFINE new == Overlaid(nodes[f].items, off, v)
      <4>1. v \in Value \cup {Zero} /\ nodes[f].items \in Seq(DirItem) /\ off \in Nat
        BY <2>3, <2>5
      <4>2. /\ Len(new) = IF off < Len(nodes[f].items) THEN Len(nodes[f].items) ELSE off + 1
            /\ new[off + 1] = Unit(v)
            /\ \A k \in 1 .. Len(nodes[f].items) \ {off + 1} : new[k] = nodes[f].items[k]
        BY <4>1, OverlaidIs
      <4> QED
        BY <2>0, <4>2
    <3>2. /\ DOMAIN wrote'[name] = DOMAIN wrote[name] \cup {off} /\ wrote'[name][off] = v
          /\ \A o \in DOMAIN wrote[name] \ {off} : wrote'[name][o] = wrote[name][o]
      BY <2>9 DEF Extended
    <3>3. ASSUME NEW o \in DOMAIN wrote'[name]
          PROVE  o \in Nat /\ o < Len(items) /\ items[o + 1] = Unit(wrote'[name][o])
      <4>1. CASE o = off
        BY <2>3, <2>5, <3>1, <3>2, <4>1
      <4>2. CASE o # off
        <5>1. o \in Nat /\ o < Len(nodes[f].items) /\ nodes[f].items[o + 1] = Unit(wrote[name][o])
          BY <2>3, <3>2, <3>3, <4>2 DEF Holds
        <5>2. o + 1 \in 1 .. Len(nodes[f].items) \ {off + 1} /\ o < Len(items)
          BY <2>3, <2>5, <3>1, <4>2, <5>1
        <5> QED
          BY <3>1, <3>2, <3>3, <4>2, <5>1, <5>2
      <4> QED
        BY <4>1, <4>2
    <3> QED
      BY <2>6, <3>3
  <2>11. ASSUME NEW p \in used, NEW n \in Name, NEW i \in used, NamedFile(p, n, i)
         PROVE  <<p, n>> \in DOMAIN wrote' /\ Holds(i, wrote[<<p, n>>])'
    <3>1. <<p, n>> \in DOMAIN wrote /\ Holds(i, wrote[<<p, n>>])
      BY <2>11 DEF FilesInv, WroteInv
    <3>2. CASE i = f
      <4>1. <<p, n>> = name
        BY <2>3, <2>11, <3>2, NamedFileFacts DEF FilesInv
      <4> QED
        BY <2>9, <2>10, <3>1, <3>2, <4>1 DEF Holds
    <3>3. CASE i # f
      <4>1. <<p, n>> # name
        <5> SUFFICES ASSUME <<p, n>> = name PROVE FALSE
          OBVIOUS
        <5>1. p = name[1] /\ n = name[2]
          OBVIOUS
        <5> QED
          BY <2>3, <2>11, <3>3, <5>1, NamedFileFacts DEF FilesInv
      <4>2. wrote'[<<p, n>>] = wrote[<<p, n>>] /\ nodes'[i] = nodes[i] /\ <<p, n>> \in DOMAIN wrote'
        BY <2>3, <2>6, <2>9, <3>1, <3>3, <4>1
      <4> QED
        BY <3>1, <4>2 DEF Holds
    <3> QED
      BY <3>2, <3>3
  <2>12. used' = used
    BY <2>1 DEF WrittenTo
  <2>13. WroteInv'
    BY <2>7, <2>9, <2>11, <2>12 DEF FilesInv, WroteInv
  <2> QED
    BY <1>1, <2>2, <2>6, <2>8, <2>13 DEF FilesInv
<1> QED
  BY <1>2, <1>3

\* A step on names that keeps every entry keeps what is known of the files.
LEMMA KeptFiles ==
    ASSUME FilesInv, Kept, HandlesStay, UNCHANGED wrote
    PROVE  /\ FilesInv' /\ L' = L /\ used' = used
           /\ \A i \in Inode : nodes'[i].type = nodes[i].type
<1>1. /\ TreeInv' /\ L' = L /\ used' = used /\ used \subseteq Inode
      /\ \A i \in Inode : nodes'[i].type = nodes[i].type /\ nodes'[i].items = nodes[i].items
  BY KeptTree, NodeFacts DEF FilesInv, Kept
<1>2. \A p, n, i : <<p, n, i>> \in L => p \in used /\ n \in Name /\ i \in used
  BY LinkFacts DEF FilesInv
<1>3. \A p, n, i : NamedFile(p, n, i)' <=> NamedFile(p, n, i)
  BY <1>1, <1>2 DEF NamedFile
<1>4. \A p, n, i : NamedFile(p, n, i) =>
        p \in used /\ n \in Name /\ i \in used /\ nodes'[i].items = nodes[i].items
  BY <1>1, <1>2 DEF NamedFile
<1>5. HandlesInv'
  BY <1>3, HandlesKept DEF FilesInv, HandlesInv, HandlesStay
<1>6. WroteInv'
  BY <1>1, <1>3, <1>4, WroteKept DEF FilesInv
<1>7. got' \in Seq(Value \cup {Zero})
  BY DEF HandlesStay
<1> QED
  BY <1>1, <1>5, <1>6, <1>7 DEF FilesInv

\* A call that is refused before it changes anything.
LEMMA RefusedInv ==
    ASSUME FilesInv, UNCHANGED <<used, nodes, free_inodes, space>>, HandlesStay, UNCHANGED wrote
    PROVE  FilesInv' /\ L' = L /\ UNCHANGED nodes
<1>1. Kept
  BY NodeFacts, Bounds, UnchangedKept DEF FilesInv
<1> QED
  BY <1>1, KeptFiles

\* What a name leads to, in every state.
Found ==
    \A p \in used : nodes[p].type = "Directory" => \A n \in Name :
        /\ Has(nodes[p], n) => <<p, n, Target(p, n)>> \in L
        /\ \A i : <<p, n, i>> \in L => Has(nodes[p], n) /\ Target(p, n) = i

LEMMA FoundAlways == TreeInv => Found
  BY FoundIs DEF Found

\* What create_file and create_dir need of the tree.
LEMMA TreeForCreate ==
    ASSUME TreeInv
    PROVE  Typed /\ FreeInodesBlank
  BY NodeFacts, Bounds DEF TreeInv, FilesFit, FreeInodesBlank

\* The new inode is the one that was made.
LEMMA CreatedNode ==
    ASSUME TreeInv, NEW p \in used, NEW n, NEW i, NEW new \in INode, NEW more, Created(p, n, i, new, more)
    PROVE  nodes'[i] = new /\ i \in Inode /\ nodes'[p].type = "Directory"
<1>1. PICK parent \in INode :
        /\ nodes' = [nodes EXCEPT ![i] = new, ![p] = parent]
        /\ Linked(Raised(nodes[p], more), parent, n, i, space, space')
  BY DEF Created
<1>2. i \in Inode \ used /\ nodes \in [Inode -> INode] /\ p \in Inode /\ i # p
  BY NodeFacts DEF Created
<1>3. nodes'[i] = new /\ nodes'[p] = parent
  BY <1>1, <1>2
<1> QED
  BY <1>1, <1>2, <1>3 DEF Linked

\* What a new file and a new directory are made of.
LEMMA NewNodes ==
    ASSUME NEW i \in Inode, NEW p \in Inode
    PROVE  /\ NewFile \in INode /\ NewFile.type = "File" /\ NewFile.items = <<>>
           /\ Made("Directory", "Inline", 1, Dots(i, p)) \in INode
           /\ Made("Directory", "Inline", 1, Dots(i, p)).type = "Directory"
<1>1. Dots(i, p) \in Seq(DirItem) /\ <<>> \in Seq(DirItem) /\ 1 \in 0 .. MaxLinks + 1
  BY DotsAre, NamespaceAssumption
<1> QED
  BY <1>1 DEF NewFile, Made, INode

\* mkdir, on a name whose directory is there.
LEMMA MkDirInv ==
    ASSUME FilesInv, NEW p \in used, NEW n \in ClientName, MkDir(p, n)
    PROVE  /\ FilesInv' /\ ret' \in {"mkdir", "failed"} /\ L \subseteq L'
           /\ \A i \in used : i \in used' /\ nodes'[i].type = nodes[i].type
<1>1. Typed /\ FreeInodesBlank /\ n \in Name /\ n \in AnyName /\ used \subseteq Inode
  BY TreeForCreate, NodeFacts, HandleAssumption DEF FilesInv, AnyName
<1>2. CreateDir(p, n) /\ HandlesStay /\ UNCHANGED wrote
  BY DEF MkDir
<1>3. CASE NotCreated(p, 1)
  <2>1. Kept /\ ret' = "failed"
    BY <1>1, <1>3, NotCreatedKept DEF NotCreated
  <2> QED
    BY <1>1, <1>2, <2>1, KeptFiles
<1>4. CASE /\ Created(p, n, NextInode, Made("Directory", "Inline", 1, Dots(NextInode, p)), 1)
           /\ ret' = "mkdir"
  <2>1. PICK i : i = NextInode
    OBVIOUS
  <2>2. Created(p, n, i, Made("Directory", "Inline", 1, Dots(i, p)), 1) /\ i \in Inode /\ p \in Inode
    BY <1>1, <1>4, <2>1 DEF Created
  <2>3. nodes'[i].type = "Directory"
    BY <2>2, CreatedNode, NewNodes DEF FilesInv
  <2>4. MadeIn(p, n, i)
    BY <2>2 DEF MadeIn
  <2>5. /\ TreeInv' /\ i \notin used /\ used' = used \cup {i}
        /\ L \subseteq L' /\ L' \subseteq L \cup {<<p, Stored[n], i>>}
        /\ \A d \in used : nodes'[d].type = nodes[d].type
        /\ \A d \in used : nodes[d].type = "File" => nodes'[d].items = nodes[d].items
    BY <1>1, <2>2, <2>4, MadeTree DEF FilesInv
  <2>6. \A q, m, j : <<q, m, j>> \in L => q \in used /\ m \in Name /\ j \in used
    BY LinkFacts DEF FilesInv
  <2>7. \A q, m, j : NamedFile(q, m, j)' <=> NamedFile(q, m, j)
    BY <2>3, <2>5, <2>6 DEF NamedFile
  <2>8. \A q, m, j : NamedFile(q, m, j) =>
            q \in used /\ m \in Name /\ j \in used /\ nodes'[j].items = nodes[j].items
    BY <2>5, <2>6 DEF NamedFile
  <2>9. HandlesInv'
    BY <1>2, <2>7, HandlesKept DEF FilesInv, HandlesInv, HandlesStay
  <2>10. WroteInv'
    BY <1>2, <2>5, <2>7, <2>8, WroteKept DEF FilesInv
  <2>11. got' \in Seq(Value \cup {Zero})
    BY <1>2 DEF HandlesStay
  <2> QED
    BY <1>4, <2>5, <2>9, <2>10, <2>11 DEF FilesInv
<1> QED
  BY <1>1, <1>2, <1>3, <1>4, CreateDirEffect

\* touch: the new file has the name's units, which are none.
LEMMA TouchInv ==
    ASSUME FilesInv, NEW p \in used, NEW n \in ClientName, Touch(p, n)
    PROVE  /\ FilesInv' /\ ret' \in {"touch", "failed"} /\ L \subseteq L'
           /\ \A i \in used : i \in used' /\ nodes'[i].type = nodes[i].type
<1>1. Typed /\ FreeInodesBlank /\ n \in Name /\ n \in AnyName /\ used \subseteq Inode
      /\ Stored[n] \in Name
  BY TreeForCreate, NodeFacts, HandleAssumption, NamespaceAssumption DEF FilesInv, AnyName
<1>2. CreateFile(p, n) /\ HandlesStay
  BY DEF Touch
<1>3. CASE NotCreated(p, 0)
  <2>1. Kept /\ ret' = "failed"
    BY <1>1, <1>3, NotCreatedKept DEF NotCreated
  <2>2. UNCHANGED wrote
    BY <2>1 DEF Touch
  <2> QED
    BY <1>1, <1>2, <2>1, <2>2, KeptFiles
<1>4. CASE Created(p, n, NextInode, NewFile, 0) /\ ret' = "touch"
  <2>1. PICK i, m : i = NextInode /\ m = Stored[n]
    OBVIOUS
  <2>2. /\ Created(p, n, i, NewFile, 0) /\ i \in Inode /\ p \in Inode /\ i \notin used
        /\ nodes[p].type = "Directory" /\ ~Has(nodes[p], m)
    BY <1>1, <1>4, <2>1 DEF Created
  <2>3. nodes'[i].type = "File" /\ nodes'[p].type = "Directory"
    BY <2>2, CreatedNode, NewNodes DEF FilesInv
  <2>4. MadeIn(p, n, i)
    BY <2>2 DEF MadeIn
  <2>5. /\ TreeInv' /\ used' = used \cup {i}
        /\ L \subseteq L' /\ L' \subseteq L \cup {<<p, m, i>>}
        /\ \A d \in used : nodes'[d].type = nodes[d].type
        /\ \A d \in used : nodes[d].type = "File" => nodes'[d].items = nodes[d].items
    BY <1>1, <2>1, <2>2, <2>4, MadeTree DEF FilesInv
  <2>6. \A q, l, j : <<q, l, j>> \in L => q \in used /\ l \in Name /\ j \in used
    BY LinkFacts DEF FilesInv
  <2>7. /\ \A q, l, j : NamedFile(q, l, j) => NamedFile(q, l, j)'
        /\ \A q, l, j : NamedFile(q, l, j)' =>
            NamedFile(q, l, j) \/ (q = p /\ l = m /\ j = i /\ <<p, m, i>> \in L')
    BY <2>5, <2>6 DEF NamedFile
  <2>8. \A j : <<p, m, j>> \notin L
    BY <1>1, <2>1, <2>2, FoundIs DEF FilesInv
  <2>9. Has(nodes'[p], m) <=> <<p, m, i>> \in L'
    <3>1. TreeInv' => Found'
      BY FoundAlways, PTL
    <3>2. m \in Name /\ p \in used'
      BY <1>1, <2>1, <2>5
    <3>3. /\ Has(nodes'[p], m) => \E j : <<p, m, j>> \in L'
          /\ <<p, m, i>> \in L' => Has(nodes'[p], m)
      BY <2>3, <2>5, <3>1, <3>2 DEF Found
    <3>4. \A j : <<p, m, j>> \in L' => <<p, m, j>> = <<p, m, i>>
      BY <2>5, <2>8
    <3> QED
      BY <3>3, <3>4
  <2>10. HandlesInv'
    BY <1>2, <2>7, HandlesKept DEF FilesInv, HandlesInv, HandlesStay
  <2>11. wrote' = IF <<p, m, i>> \in L' THEN Extended(wrote, <<p, m>>, Nowhere) ELSE wrote
    BY <1>4, <2>1, <2>9 DEF Touch
  <2>12. ASSUME NEW q, NEW l, NEW j, NamedFile(q, l, j)
         PROVE  /\ <<q, l>> \in DOMAIN wrote' /\ wrote'[<<q, l>>] = wrote[<<q, l>>]
                /\ Holds(j, wrote[<<q, l>>])
                /\ nodes'[j].items = nodes[j].items
    <3>1. q \in used /\ l \in Name /\ j \in used /\ nodes[j].type = "File" /\ <<q, l, j>> \in L
      BY <2>6, <2>12 DEF NamedFile
    <3>2. <<q, l>> # <<p, m>>
      BY <2>8, <3>1
    <3>3. <<q, l>> \in DOMAIN wrote /\ Holds(j, wrote[<<q, l>>])
      BY <2>12, <3>1 DEF FilesInv, WroteInv
    <3>4. <<q, l>> \in DOMAIN wrote' /\ wrote'[<<q, l>>] = wrote[<<q, l>>]
      BY <2>11, <3>2, <3>3 DEF Extended
    <3> QED
      BY <2>5, <3>1, <3>3, <3>4
  <2>13. ASSUME NEW q, NEW l, NEW j, NamedFile(q, l, j)'
         PROVE  <<q, l>> \in DOMAIN wrote' /\ Holds(j, wrote[<<q, l>>])'
    <3>1. CASE NamedFile(q, l, j)
      BY <2>12, <3>1 DEF Holds
    <3>2. CASE q = p /\ l = m /\ j = i /\ <<p, m, i>> \in L'
      <4>1. wrote'[<<q, l>>] = Nowhere /\ <<q, l>> \in DOMAIN wrote'
        BY <2>11, <3>2 DEF Extended
      <4>2. DOMAIN wrote'[<<q, l>>] = {}
        BY <4>1 DEF Nowhere
      <4> QED
        BY <4>1, <4>2 DEF Holds
    <3> QED
      BY <2>7, <2>13, <3>1, <3>2
  <2>14. ASSUME NEW name \in DOMAIN wrote'
         PROVE  \E j \in used' : name = <<name[1], name[2]>> /\ NamedFile(name[1], name[2], j)'
    <3>1. CASE name \in DOMAIN wrote
      <4>1. PICK j \in used : name = <<name[1], name[2]>> /\ NamedFile(name[1], name[2], j)
        BY <3>1 DEF FilesInv, WroteInv
      <4> QED
        BY <2>5, <2>7, <4>1
    <3>2. CASE name \notin DOMAIN wrote
      <4>1. name = <<p, m>> /\ <<p, m, i>> \in L'
        BY <2>11, <2>14, <3>2 DEF Extended
      <4>2. NamedFile(p, m, i)'
        BY <2>3, <4>1 DEF NamedFile
      <4> QED
        BY <2>5, <4>1, <4>2
    <3> QED
      BY <3>1, <3>2
  <2>15. WroteInv'
    BY <2>13, <2>14 DEF WroteInv
  <2>16. got' \in Seq(Value \cup {Zero})
    BY <1>2 DEF HandlesStay
  <2> QED
    BY <1>4, <2>5, <2>10, <2>15, <2>16 DEF FilesInv
<1> QED
  BY <1>1, <1>2, <1>3, <1>4, CreateFileEffect

\* The client's removals, of what no handle is on.
LEMMA RemoveInv ==
    ASSUME FilesInv, NEW p \in used, NEW n \in ClientName, NEW op, RemoveDirItem(p, n, op),
           ~IsOpen(p, n), wrote' = Without(wrote, <<p, n>>), HandlesStay
    PROVE  FilesInv' /\ ret' = op
<1>1. PICK i : i = Target(p, n)
  OBVIOUS
<1>2. /\ TreeInv' /\ ret' = op
      /\ <<p, n, i>> \in L /\ L' = L \ {<<p, n, i>>}
      /\ used' \subseteq used
      /\ \A d \in used \ {i} : d \in used' /\ nodes'[d].type = nodes[d].type
      /\ \A d \in used \ {i} : nodes[d].type = "File" => nodes'[d].items = nodes[d].items
  BY <1>1, UnlinkedTree DEF FilesInv
<1>3. /\ \A q, l, j : <<q, l, j>> \in L => q \in used /\ l \in Name /\ j \in used
      /\ \A q, l, j : <<q, l, j>> \in L /\ j = i => q = p /\ l = n
      /\ \A j : <<p, n, j>> \in L => j = i
  BY <1>2, LinkFacts DEF FilesInv
<1>4. \A q, l, j : NamedFile(q, l, j)' <=> NamedFile(q, l, j) /\ j # i
  BY <1>2, <1>3 DEF NamedFile
<1>5. HandlesInv'
  <2>1. ASSUME NEW fd \in DOMAIN fd_table
        PROVE  NamedFile(opened[fd][1], opened[fd][2], fd_table[fd].inode_id)'
    <3>1. fd_table[fd].inode_id # i
      BY <1>1 DEF IsOpen
    <3>2. NamedFile(opened[fd][1], opened[fd][2], fd_table[fd].inode_id)
      BY DEF FilesInv, HandlesInv
    <3>3. PICK q, l, j : q = opened[fd][1] /\ l = opened[fd][2] /\ j = fd_table[fd].inode_id
      OBVIOUS
    <3>4. NamedFile(q, l, j)'
      BY <1>4, <3>1, <3>2, <3>3
    <3>5. UNCHANGED <<fd_table, opened>>
      BY DEF HandlesStay
    <3> QED
      BY <3>3, <3>4, <3>5
  <2> QED
    BY <2>1, HandlesKept DEF FilesInv, HandlesStay
<1>6. /\ DOMAIN wrote' = DOMAIN wrote \ {<<p, n>>}
      /\ \A name \in DOMAIN wrote' : wrote'[name] = wrote[name]
  BY DEF Without, Restrict
<1>7. ASSUME NEW q, NEW l, NEW j, NamedFile(q, l, j)'
      PROVE  <<q, l>> \in DOMAIN wrote' /\ Holds(j, wrote[<<q, l>>])'
  <2>1. NamedFile(q, l, j) /\ j # i
    BY <1>4, <1>7
  <2>2. /\ q \in used /\ l \in Name /\ j \in used \ {i} /\ nodes[j].type = "File"
        /\ <<q, l, j>> \in L
    BY <1>3, <2>1 DEF NamedFile
  <2>3. <<q, l>> # <<p, n>>
    BY <1>3, <2>1, <2>2
  <2>4. <<q, l>> \in DOMAIN wrote /\ Holds(j, wrote[<<q, l>>])
    BY <2>1, <2>2 DEF FilesInv, WroteInv
  <2>5. nodes'[j].items = nodes[j].items
    BY <1>2, <2>2
  <2> QED
    BY <1>6, <2>3, <2>4, <2>5 DEF Holds
<1>8. ASSUME NEW name \in DOMAIN wrote'
      PROVE  \E j \in used' : name = <<name[1], name[2]>> /\ NamedFile(name[1], name[2], j)'
  <2>1. name \in DOMAIN wrote /\ name # <<p, n>>
    BY <1>6
  <2>2. PICK j \in used : name = <<name[1], name[2]>> /\ NamedFile(name[1], name[2], j)
    BY <2>1 DEF FilesInv, WroteInv
  <2>3. j # i
    BY <1>3, <2>1, <2>2 DEF NamedFile
  <2> QED
    BY <1>2, <1>4, <2>2, <2>3
<1>9. WroteInv'
  BY <1>7, <1>8 DEF WroteInv
<1>10. got' \in Seq(Value \cup {Zero})
  BY DEF HandlesStay
<1> QED
  BY <1>2, <1>5, <1>9, <1>10 DEF FilesInv

-----------------------------------------------------------------------------
\* A new file system: the root alone, and no link.
FreshTree ==
    used = {Root} /\ nodes = RootDir /\ free_inodes = InodeCount - 1 /\ space = TotalSpace

Planted == TreeInv /\ L = {}

\* A formatted tree is one, with no entry but the root's dots.
LEMMA TreeFresh == Tree!Fresh => Tree!Inv
  BY Tree!FreshInv, NamespaceAssumption, SameNames

LEMMA FreshPlanted == FreshTree => Planted
<1> SUFFICES ASSUME FreshTree PROVE Planted
  OBVIOUS
<1> DEFINE root == Made("Directory", "Inline", 0, Dots(Root, Root))
<1>1. /\ root \in INode /\ root.type = "Directory" /\ root.items = Dots(Root, Root)
      /\ Blank \in INode /\ Blank.type = "File" /\ Bared(Blank) = Blank
      /\ Blank.items = <<>> /\ Root \in Inode
  <2>1. Root \in Inode
    BY NamespaceAssumption DEF Inode, Root
  <2>2. Dots(Root, Root) \in Seq(DirItem) /\ <<>> \in Seq(DirItem) /\ 0 \in 0 .. MaxLinks + 1
    BY <2>1, DotsAre, NamespaceAssumption
  <2>3. root \in INode /\ Blank \in INode
    BY <2>2 DEF Made, Blank, INode
  <2> QED
    BY <2>1, <2>3 DEF Made, Blank, Bared
<1>2. nodes = [i \in Inode |-> IF i = Root THEN root ELSE Blank]
  BY RootDirIs DEF FreshTree, NewRoot
<1>3. Bared(root) = root
  BY <1>1, BaredIs
<1> HIDE DEF root
<1>4. nodes \in [Inode -> INode] /\ nodes[Root] = root
      /\ \A i \in Inode \ {Root} : nodes[i] = Blank
  BY <1>1, <1>2
<1>5. Bare = [i \in Inode |-> IF i = Root THEN root ELSE Blank]
  BY <1>1, <1>2, <1>3 DEF Bare, BareOf
<1>6. Tree!NewRoot = [i \in Inode |-> IF i = Root THEN root ELSE Blank]
  BY SameNames DEF Tree!NewRoot, Tree!Made, Made, Tree!Dots, Dots, Tree!Item, Item, root
<1>7. Tree!Fresh
  BY <1>5, <1>6, SameNames DEF Tree!Fresh, FreshTree
<1>8. Tree!Inv
  BY <1>7, TreeFresh
<1>9. FilesFit
  <2>1. 0 <= BlockItems
    BY NamespaceAssumption
  <2>2. \A i \in Inode : nodes[i].type = "File" => nodes[i].items = <<>>
    BY <1>1, <1>4
  <2>3. \A i \in Inode \ used : nodes[i] = Blank
    BY <1>4 DEF FreshTree
  <2> QED
    BY <1>4, <2>1, <2>2, <2>3 DEF FilesFit
<1>10. nodes[Root].items[2].id = Root /\ Len(nodes[Root].items) = 2
  BY <1>1, <1>4, DotsAre, ItemFields
<1>11. TreeInv
  BY <1>8, <1>9, <1>10 DEF TreeInv
<1>12. ASSUME NEW l \in L
       PROVE  FALSE
  <2>1. <<l[1], l[2], l[3]>> \in L
    BY <1>11, <1>12, LinkFacts
  <2>2. l[1] = Root /\ 3 .. Len(nodes[l[1]].items) # {}
    BY <1>11, <2>1, LinkPlace DEF FreshTree
  <2> QED
    BY <1>10, <2>2
<1> QED
  BY <1>11, <1>12 DEF Planted

\* Where no file is named and no handle open.
LEMMA BareFiles ==
    ASSUME L = {}, wrote = NoHandles
    PROVE  WroteInv
  BY DEF WroteInv, NamedFile, NoHandles

\* After a format there is no handle, nothing written, and the empty tree.
LEMMA FormatAllInv ==
    ASSUME FilesInv, fd_table = NoHandles, FormatAll
    PROVE  /\ FilesInv' /\ ret' = "format" /\ L' = {} /\ Root \in used'
           /\ nodes'[Root].type = "Directory"
<1>1. FreshTree' /\ ret' = "format" /\ wrote' = NoHandles /\ HandlesStay
  BY DEF FormatAll, Format, FreshTree
<1>2. Planted'
  BY <1>1, FreshPlanted, PTL
<1>3. TreeInv' /\ L' = {}
  BY <1>2 DEF Planted
<1>4. WroteInv'
  BY <1>1, <1>3 DEF WroteInv, NamedFile, NoHandles
<1>5. HandlesInv'
  BY <1>1 DEF FilesInv, HandlesInv, HandlesStay, NoHandles
<1>6. got' \in Seq(Value \cup {Zero})
  BY <1>1 DEF HandlesStay
<1>7. Root \in used' /\ nodes'[Root].type = "Directory"
  <2>1. nodes' = NewRoot /\ used' = {Root} /\ Root \in Inode
    BY <1>1, RootDirIs, NamespaceAssumption DEF FreshTree, Inode, Root
  <2> QED
    BY <2>1 DEF NewRoot, Made
<1> QED
  BY <1>1, <1>3, <1>4, <1>5, <1>6, <1>7 DEF FilesInv
-----------------------------------------------------------------------------
\* The first so many turns of a walk, for any function of the turns.
IsWalk(f, n, path) ==
    f = [k \in 0 .. n |-> IF k = 0 THEN Root ELSE Entered(f[k - 1], path[k])]

\* There is such a function: the walk can always take one turn more.
LEMMA WalkExists ==
    ASSUME NEW path, NEW n \in Nat
    PROVE  \E f : IsWalk(f, n, path)
<1> DEFINE T == {m \in Nat : ~ \E f : IsWalk(f, m, path)}
<1>1. IsWalk([k \in 0 .. 0 |-> Root], 0, path)
  BY DEF IsWalk
<1>2. ASSUME NEW m \in Nat, NEW f, IsWalk(f, m, path)
      PROVE  \E g : IsWalk(g, m + 1, path)
  <2> DEFINE g == [k \in 0 .. m + 1 |-> IF k = m + 1 THEN Entered(f[m], path[m + 1]) ELSE f[k]]
  <2>1. \A k \in 0 .. m : g[k] = f[k]
    OBVIOUS
  <2>2. g[m + 1] = Entered(f[m], path[m + 1])
    OBVIOUS
  <2>3. \A k \in 0 .. m : f[k] = IF k = 0 THEN Root ELSE Entered(f[k - 1], path[k])
    BY <1>2 DEF IsWalk
  <2>4. DOMAIN g = 0 .. m + 1 /\ g = [k \in DOMAIN g |-> g[k]]
    OBVIOUS
  <2> HIDE DEF g
  <2>5. \A k \in 0 .. m + 1 : g[k] = IF k = 0 THEN Root ELSE Entered(g[k - 1], path[k])
    <3> SUFFICES ASSUME NEW k \in 0 .. m + 1
                 PROVE  g[k] = IF k = 0 THEN Root ELSE Entered(g[k - 1], path[k])
      OBVIOUS
    <3>1. CASE k = 0
      BY <2>1, <2>3, <3>1
    <3>2. CASE k = m + 1
      <4>1. k - 1 = m /\ m \in 0 .. m /\ k # 0
        BY <3>2
      <4> QED
        BY <2>1, <2>2, <3>2, <4>1
    <3>3. CASE k \in 1 .. m
      <4>1. k \in 0 .. m /\ k - 1 \in 0 .. m /\ k # 0
        BY <3>3
      <4> QED
        BY <2>1, <2>3, <4>1
    <3> QED
      BY <3>1, <3>2, <3>3
  <2>6. IsWalk(g, m + 1, path)
    BY <2>4, <2>5 DEF IsWalk
  <2> QED
    BY <2>6
<1>3. ASSUME T # {}
      PROVE  FALSE
  <2>1. PICK m \in T : \A j \in T : m <= j
    <3>1. T \in SUBSET Nat
      OBVIOUS
    <3> HIDE DEF T
    <3> QED
      BY <1>3, <3>1, LeastElement
  <2>2. m # 0
    BY <1>1
  <2>3. m - 1 \in Nat /\ m - 1 \notin T
    BY <2>1, <2>2
  <2>4. PICK f : IsWalk(f, m - 1, path)
    BY <2>3
  <2>5. \E g : IsWalk(g, (m - 1) + 1, path)
    BY <1>2, <2>3, <2>4
  <2> QED
    BY <2>1, <2>5
<1> QED
  BY <1>3

\* lookup_path's turns are such a function.
LEMMA WalkIs ==
    ASSUME NEW path \in Seq(ClientName)
    PROVE  IsWalk(Walk(path), Len(path), path)
<1>1. Walk(path) = CHOOSE f : IsWalk(f, Len(path), path)
  BY DEF Walk, IsWalk
<1>2. \E f : IsWalk(f, Len(path), path)
  BY WalkExists
<1> QED
  BY <1>1, <1>2

\* A set that has 0 and, with each number, the next, has all up to n.
LEMMA Upward ==
    ASSUME NEW n \in Nat, NEW S, 0 \in S, \A k \in 1 .. n : k - 1 \in S => k \in S
    PROVE  \A k \in 0 .. n : k \in S
<1> DEFINE T == {k \in 0 .. n : k \notin S}
<1>1. ASSUME T # {}
      PROVE  FALSE
  <2>1. PICK k \in T : \A j \in T : k <= j
    <3>1. T \in SUBSET Nat
      OBVIOUS
    <3> HIDE DEF T
    <3> QED
      BY <1>1, <3>1, LeastElement
  <2>2. k \in 1 .. n /\ k - 1 \notin T
    BY <2>1
  <2>3. k - 1 \in S
    BY <2>2
  <2> QED
    BY <2>1, <2>2, <2>3
<1> QED
  BY <1>1

\* A walk goes along links, and takes the link that is there.
PathTurns(path) ==
    /\ Walk(path)[0] = Root
    /\ \A k \in 0 .. Len(path) : Walk(path)[k] \in used \cup {NoPath}
    /\ \A k \in 1 .. Len(path) : Walk(path)[k] # NoPath =>
        <<Walk(path)[k - 1], path[k], Walk(path)[k]>> \in L
    /\ \A k \in 1 .. Len(path) : \A j :
        <<Walk(path)[k - 1], path[k], j>> \in L => Walk(path)[k] = j

\* One turn.
LEMMA EnteredIs ==
    ASSUME TreeInv, NEW i \in used \cup {NoPath}, NEW n \in ClientName
    PROVE  /\ Entered(i, n) \in used \cup {NoPath}
           /\ Entered(i, n) # NoPath => <<i, n, Entered(i, n)>> \in L
           /\ \A j : <<i, n, j>> \in L => Entered(i, n) = j
<1>1. n \in Name /\ used \subseteq Inode /\ NoPath \notin Inode
  BY HandleAssumption, NodeFacts, NamespaceAssumption DEF NoPath, Inode
<1>2. CASE i = NoPath
  <2>1. Entered(i, n) = NoPath
    BY <1>2 DEF Entered
  <2> QED
    BY <1>1, <1>2, <2>1, LinkFacts
<1>3. CASE i \in used /\ nodes[i].type = "File"
  <2>1. ~Has(nodes[i], n)
    BY <1>3, FoundIs
  <2>2. Entered(i, n) = NoPath
    BY <2>1 DEF Entered
  <2> QED
    BY <1>3, <2>2, LinkFacts
<1>4. CASE i \in used /\ nodes[i].type = "Directory"
  <2>1. i # NoPath
    BY <1>1, <1>4
  <2>2. Entered(i, n) = IF Has(nodes[i], n) THEN Target(i, n) ELSE NoPath
    BY <2>1 DEF Entered
  <2>3. /\ Has(nodes[i], n) => <<i, n, Target(i, n)>> \in L
        /\ \A j : <<i, n, j>> \in L => Has(nodes[i], n) /\ Target(i, n) = j
    BY <1>1, <1>4, FoundIs
  <2>4. Has(nodes[i], n) => Target(i, n) \in used
    BY <2>3, LinkFacts
  <2> QED
    BY <2>2, <2>3, <2>4
<1>5. i \in used => nodes[i].type \in {"File", "Directory"}
  BY NodeFacts
<1> QED
  BY <1>2, <1>3, <1>4, <1>5

\* The recursive definition in Walk has the values that lookup_path's loop takes.
LEMMA WalkTurns ==
    ASSUME TreeInv, NEW path \in Seq(ClientName)
    PROVE  PathTurns(path)
<1> DEFINE f == Walk(path)
           n == Len(path)
<1>1. n \in Nat /\ \A k \in 1 .. n : path[k] \in ClientName
  OBVIOUS
<1>2. IsWalk(f, n, path)
  BY WalkIs
<1> HIDE DEF f, n
<1>3. /\ f[0] = Root
      /\ \A k \in 1 .. n : f[k] = Entered(f[k - 1], path[k])
  <2>1. \A k \in 0 .. n : f[k] = IF k = 0 THEN Root ELSE Entered(f[k - 1], path[k])
    BY <1>2 DEF IsWalk
  <2>2. 0 \in 0 .. n /\ \A k \in 1 .. n : k \in 0 .. n /\ k # 0
    BY <1>1
  <2> QED
    BY <2>1, <2>2
<1>4. \A k \in 0 .. n : f[k] \in used \cup {NoPath}
  <2> DEFINE S == {k \in 0 .. n : f[k] \in used \cup {NoPath}}
  <2>1. 0 \in S
    BY <1>1, <1>3, NodeFacts
  <2>2. ASSUME NEW k \in 1 .. n, k - 1 \in S
        PROVE  k \in S
    <3>1. f[k - 1] \in used \cup {NoPath} /\ path[k] \in ClientName /\ k \in 0 .. n
      BY <1>1, <2>2
    <3>2. Entered(f[k - 1], path[k]) \in used \cup {NoPath}
      BY <3>1, EnteredIs
    <3>3. f[k] = Entered(f[k - 1], path[k])
      BY <1>3, <2>2
    <3> QED
      BY <3>1, <3>2, <3>3
  <2> HIDE DEF S
  <2>3. \A k \in 0 .. n : k \in S
    BY <1>1, <2>1, <2>2, Upward
  <2> QED
    BY <2>3 DEF S
<1>5. ASSUME NEW k \in 1 .. n
      PROVE  /\ f[k] # NoPath => <<f[k - 1], path[k], f[k]>> \in L
             /\ \A j : <<f[k - 1], path[k], j>> \in L => f[k] = j
  <2>1. f[k - 1] \in used \cup {NoPath} /\ path[k] \in ClientName
    BY <1>1, <1>4
  <2> QED
    BY <1>3, <2>1, EnteredIs
<1> QED
  BY <1>3, <1>4, <1>5 DEF PathTurns, f, n

\* The same of every state.
AllTurns == \A path \in Seq(ClientName) : PathTurns(path)

LEMMA TurnsAlways == TreeInv => AllTurns
  BY WalkTurns DEF AllTurns

\* A walk that arrives is somewhere all the way, ...
LEMMA WalkArrives ==
    ASSUME TreeInv, NEW path \in Seq(ClientName), Lookup(path) # NoPath
    PROVE  /\ Lookup(path) \in used
           /\ \A k \in 0 .. Len(path) : Walk(path)[k] # NoPath
           /\ \A k \in 1 .. Len(path) : <<Walk(path)[k - 1], path[k], Walk(path)[k]>> \in L
<1> DEFINE f == Walk(path)
           n == Len(path)
<1>1. n \in Nat /\ f[n] # NoPath /\ Lookup(path) = f[n]
  BY DEF Lookup
<1>2. PathTurns(path)
  BY WalkTurns
<1>3. /\ \A k \in 0 .. n : f[k] \in used \cup {NoPath}
      /\ \A k \in 1 .. n : f[k] # NoPath => <<f[k - 1], path[k], f[k]>> \in L
  BY <1>2 DEF PathTurns
<1> HIDE DEF f, n
<1>4. \A k \in 1 .. n : f[k] # NoPath => f[k - 1] # NoPath
  <2>1. NoPath \notin used
    BY NodeFacts, NamespaceAssumption DEF NoPath, Inode
  <2>2. \A k \in 1 .. n : f[k] # NoPath => f[k - 1] \in used
    BY <1>3, LinkFacts
  <2> QED
    BY <2>1, <2>2
<1>5. \A k \in 0 .. n : f[k] # NoPath
  <2> DEFINE S == {k \in 0 .. n : f[n - k] # NoPath}
  <2>1. 0 \in S
    BY <1>1
  <2>2. ASSUME NEW k \in 1 .. n, k - 1 \in S
        PROVE  k \in S
    <3>1. f[n - (k - 1)] # NoPath /\ n - (k - 1) \in 1 .. n /\ n - (k - 1) - 1 = n - k
      BY <1>1, <2>2
    <3>2. f[n - (k - 1) - 1] # NoPath
      BY <1>4, <3>1
    <3>3. f[n - k] # NoPath /\ k \in 0 .. n
      BY <1>1, <3>1, <3>2
    <3> QED
      BY <3>3
  <2> HIDE DEF S
  <2>3. \A k \in 0 .. n : k \in S
    BY <1>1, <2>1, <2>2, Upward
  <2>4. ASSUME NEW k \in 0 .. n
        PROVE  f[k] # NoPath
    <3>1. n - k \in S /\ n - (n - k) = k
      BY <1>1, <2>3
    <3> QED
      BY <3>1 DEF S
  <2> QED
    BY <2>4
<1>6. f[n] \in used
  BY <1>1, <1>3
<1> QED
  BY <1>1, <1>3, <1>5, <1>6 DEF f, n

\* ... and its last turn starts at the directory above.
LEMMA LookupFront ==
    ASSUME TreeInv, NEW path \in Seq(ClientName), path # <<>>
    PROVE  /\ Front(path) \in Seq(ClientName) /\ Last(path) \in ClientName
           /\ Last(path) = path[Len(path)] /\ Len(path) \in Nat \ {0}
           /\ Lookup(Front(path)) = Walk(path)[Len(path) - 1]
           /\ Lookup(Front(path)) \in used \cup {NoPath}
<1> DEFINE n == Len(path) - 1
           g == Walk(Front(path))
           f == Walk(path)
<1>1. /\ n \in Nat /\ Len(path) = n + 1 /\ \A k \in 1 .. n + 1 : path[k] \in ClientName
      /\ Last(path) = path[n + 1]
  BY DEF Last
<1>2. /\ Front(path) \in Seq(ClientName) /\ Len(Front(path)) = n
      /\ \A k \in 1 .. n : Front(path)[k] = path[k]
  BY <1>1 DEF Front
<1>3. PathTurns(path) /\ PathTurns(Front(path))
  BY <1>2, WalkTurns
<1>4. /\ f[0] = Root /\ g[0] = Root
      /\ \A k \in 0 .. n : g[k] \in used \cup {NoPath}
  BY <1>2, <1>3 DEF PathTurns
<1>5. IsWalk(f, n + 1, path) /\ IsWalk(g, n, Front(path))
  BY <1>1, <1>2, WalkIs
<1>6. Lookup(Front(path)) = g[n]
  BY <1>2 DEF Lookup
<1> HIDE DEF f, g, n
<1>7. \A k \in 1 .. n : f[k] = Entered(f[k - 1], path[k]) /\ g[k] = Entered(g[k - 1], path[k])
  <2> SUFFICES ASSUME NEW k \in 1 .. n
               PROVE  f[k] = Entered(f[k - 1], path[k]) /\ g[k] = Entered(g[k - 1], path[k])
    OBVIOUS
  <2>1. k \in 0 .. n + 1 /\ k \in 0 .. n /\ k # 0 /\ Front(path)[k] = path[k]
    BY <1>1, <1>2
  <2> QED
    BY <1>5, <2>1 DEF IsWalk
<1>8. \A k \in 0 .. n : f[k] = g[k]
  <2> DEFINE S == {k \in 0 .. n : f[k] = g[k]}
  <2>1. 0 \in S /\ \A k \in 1 .. n : k - 1 \in S => k \in S
    BY <1>1, <1>4, <1>7
  <2> HIDE DEF S
  <2>2. \A k \in 0 .. n : k \in S
    BY <1>1, <2>1, Upward
  <2> QED
    BY <2>2 DEF S
<1>9. f[n] = g[n] /\ g[n] \in used \cup {NoPath}
  BY <1>1, <1>4, <1>8
<1> QED
  BY <1>1, <1>2, <1>6, <1>9 DEF f, n

-----------------------------------------------------------------------------
\* A directory that lookup_path finds is found again after a step that keeps the
\* links on its path and its type.
LEMMA DirStays ==
    ASSUME TreeInv, TreeInv', NEW path \in Seq(ClientName), IsDir(path),
           \A k \in 1 .. Len(path) : <<Walk(path)[k - 1], path[k], Walk(path)[k]>> \in L',
           nodes'[Lookup(path)].type = "Directory"
    PROVE  IsDir(path)' /\ Lookup(path)' = Lookup(path)
<1>1. PICK f : f = Walk(path)
  OBVIOUS
<1>2. PICK g : g = Walk(path)'
  OBVIOUS
<1>3. PICK n : n = Len(path) /\ n \in Nat
  OBVIOUS
<1>4. Lookup(path) = f[n] /\ Lookup(path)' = g[n] /\ f[n] # NoPath
  BY <1>1, <1>2, <1>3 DEF IsDir, Lookup
<1>5. PathTurns(path) /\ PathTurns(path)'
  <2>1. TreeInv' => AllTurns'
    BY TurnsAlways, PTL
  <2> QED
    BY <2>1, TurnsAlways DEF AllTurns
<1>6. /\ f[0] = Root /\ g[0] = Root
      /\ \A k \in 1 .. n : \A j : <<g[k - 1], path[k], j>> \in L' => g[k] = j
  BY <1>1, <1>2, <1>3, <1>5 DEF PathTurns
<1>7. \A k \in 1 .. n : <<f[k - 1], path[k], f[k]>> \in L'
  BY <1>1, <1>3
<1>8. \A k \in 0 .. n : f[k] = g[k]
  <2> DEFINE S == {k \in 0 .. n : f[k] = g[k]}
  <2>1. 0 \in S
    BY <1>3, <1>6
  <2>2. ASSUME NEW k \in 1 .. n, k - 1 \in S
        PROVE  k \in S
    <3>1. f[k - 1] = g[k - 1] /\ k \in 0 .. n
      BY <1>3, <2>2
    <3>2. <<g[k - 1], path[k], f[k]>> \in L'
      BY <1>7, <3>1
    <3>3. g[k] = f[k]
      BY <1>6, <3>2
    <3> QED
      BY <3>1, <3>3
  <2> HIDE DEF S
  <2>3. \A k \in 0 .. n : k \in S
    BY <1>3, <2>1, <2>2, Upward
  <2> QED
    BY <2>3 DEF S
<1>9. g[n] = f[n]
  BY <1>3, <1>8
<1>10. IsDir(path)' <=> g[n] # NoPath /\ nodes'[g[n]].type = "Directory"
  BY <1>2, <1>3 DEF IsDir, Lookup, NoPath
<1> QED
  BY <1>4, <1>9, <1>10
-----------------------------------------------------------------------------
\* What a command does to the working directory, and what a read returns.
OnlyItGoes ==
    /\ ret' = "rmdir" /\ IsDirEmpty(Lookup(cur_path))
    /\ IsDir(Front(cur_path))' /\ ~Has(nodes[Parent(cur_path)], Last(cur_path))'

DirStep == IsDir(cur_path) /\ ~IsDir(cur_path)' => OnlyItGoes

ReadsStep == ret' = "read" => \E fd \in DOMAIN fd_table : ReadStep(fd)

\* The directory stays while the links and the types do, ...
LEMMA SameDir ==
    ASSUME TreeInv, TreeInv', cur_path \in Seq(ClientName), UNCHANGED cur_path, L \subseteq L',
           \A i \in used : nodes'[i].type = nodes[i].type
    PROVE  DirStep
<1>1. PICK path \in Seq(ClientName) : path = cur_path
  OBVIOUS
<1>2. ASSUME IsDir(path)
      PROVE  IsDir(path)'
  <2>1. Lookup(path) # NoPath /\ nodes[Lookup(path)].type = "Directory"
    BY <1>2 DEF IsDir
  <2>2. /\ Lookup(path) \in used
        /\ \A k \in 1 .. Len(path) : <<Walk(path)[k - 1], path[k], Walk(path)[k]>> \in L
    BY <2>1, WalkArrives
  <2>3. nodes'[Lookup(path)].type = "Directory"
    BY <2>1, <2>2
  <2> QED
    BY <1>2, <2>2, <2>3, DirStays
<1>3. IsDir(cur_path) = IsDir(path) /\ IsDir(cur_path)' = IsDir(path)'
  BY <1>1 DEF IsDir, Lookup, NoPath
<1> QED
  BY <1>2, <1>3 DEF DirStep

\* The entry of an inode that no link starts from lies on a path at its end only.
LEMMA PathStays ==
    ASSUME NEW path \in Seq(ClientName), NEW p, NEW n, NEW i, Lookup(path) # i,
           \A k \in 1 .. Len(path) : <<Walk(path)[k - 1], path[k], Walk(path)[k]>> \in L,
           L' = L \ {<<p, n, i>>}, \A l \in L : l[1] # i
    PROVE  \A k \in 1 .. Len(path) : <<Walk(path)[k - 1], path[k], Walk(path)[k]>> \in L'
<1> SUFFICES ASSUME NEW k \in 1 .. Len(path)
             PROVE  <<Walk(path)[k - 1], path[k], Walk(path)[k]>> \in L'
  OBVIOUS
<1>1. Walk(path)[k] # i
  <2>1. CASE k = Len(path)
    BY <2>1 DEF Lookup
  <2>2. CASE k # Len(path)
    <3>1. k + 1 \in 1 .. Len(path) /\ (k + 1) - 1 = k
      BY <2>2
    <3>2. <<Walk(path)[k], path[k + 1], Walk(path)[k + 1]>> \in L
      BY <3>1
    <3>3. <<Walk(path)[k], path[k + 1], Walk(path)[k + 1]>>[1] = Walk(path)[k]
      OBVIOUS
    <3> QED
      BY <3>2, <3>3
  <2> QED
    BY <2>1, <2>2
<1>2. <<Walk(path)[k - 1], path[k], Walk(path)[k]>> # <<p, n, i>>
  BY <1>1
<1> QED
  BY <1>2

\* A name whose entry has gone from a directory is not found there.
LEMMA EntryGone ==
    ASSUME TreeInv, TreeInv', NEW p \in used', NEW n \in ClientName, NEW i, <<p, n, i>> \in L,
           <<p, n, i>> \notin L', L' \subseteq L, nodes'[p].type = "Directory"
    PROVE  ~Has(nodes'[p], n)
<1>1. n \in Name
  BY LinkFacts
<1>2. Found'
  <2>1. TreeInv' => Found'
    BY FoundAlways, PTL
  <2> QED
    BY <2>1
<1>3. ASSUME Has(nodes'[p], n)
      PROVE  \E j : <<p, n, j>> \in L'
  <2>1. Has(nodes[p], n)' <=> Has(nodes'[p], n)
    BY DEF Has, Entries
  <2> QED
    BY <1>1, <1>2, <1>3, <2>1 DEF Found
<1> QED
  BY <1>3, LinkFacts

\* ... and a removal takes it away only where it is what was removed.
LEMMA RemovedDir ==
    ASSUME TreeInv, TreeInv', cur_path \in Seq(ClientName), UNCHANGED cur_path,
           NEW p, NEW n, NEW i, <<p, n, i>> \in L, L' = L \ {<<p, n, i>>},
           \A d \in used \ {i} : d \in used' /\ nodes'[d].type = nodes[d].type,
           \A l \in L : l[1] # i,
           nodes[i].type = "Directory" => IsDirEmpty(i) /\ ret' = "rmdir"
    PROVE  DirStep
<1>1. PICK path \in Seq(ClientName) : path = cur_path
  OBVIOUS
<1>2. ASSUME IsDir(path), Lookup(path) # i
      PROVE  IsDir(path)'
  <2>1. Lookup(path) # NoPath /\ nodes[Lookup(path)].type = "Directory"
    BY <1>2 DEF IsDir
  <2>2. /\ Lookup(path) \in used /\ Lookup(path) = Walk(path)[Len(path)]
        /\ \A k \in 1 .. Len(path) : <<Walk(path)[k - 1], path[k], Walk(path)[k]>> \in L
    BY <2>1, WalkArrives DEF Lookup
  <2>3. nodes'[Lookup(path)].type = "Directory"
    BY <1>2, <2>1, <2>2
  <2>4. \A k \in 1 .. Len(path) : <<Walk(path)[k - 1], path[k], Walk(path)[k]>> \in L'
    BY <1>2, <2>2, PathStays
  <2> QED
    BY <1>2, <2>3, <2>4, DirStays
<1>3. ASSUME IsDir(path), Lookup(path) = i
      PROVE  /\ ret' = "rmdir" /\ IsDirEmpty(Lookup(path))
             /\ IsDir(Front(path))' /\ ~Has(nodes[Parent(path)], Last(path))'
  <2>1. ret' = "rmdir" /\ IsDirEmpty(Lookup(path))
    BY <1>3 DEF IsDir
  <2>2. Lookup(path) # NoPath
    BY <1>3 DEF IsDir
  <2>3. \A k \in 1 .. Len(path) : <<Walk(path)[k - 1], path[k], Walk(path)[k]>> \in L
    BY <2>2, WalkArrives
  <2>4. path # <<>>
    <3>1. i # Root
      BY LinkFacts
    <3>2. Walk(<<>>)[0] = Root
      <4>1. <<>> \in Seq(ClientName)
        OBVIOUS
      <4> QED
        BY <4>1, WalkTurns DEF PathTurns
    <3> QED
      BY <1>3, <3>1, <3>2 DEF Lookup
  <2>5. PICK front : front = Front(path)
    OBVIOUS
  <2>6. /\ front \in Seq(ClientName) /\ Last(path) \in ClientName
        /\ Last(path) = path[Len(path)] /\ Len(path) \in Nat \ {0}
        /\ Lookup(front) = Walk(path)[Len(path) - 1]
    BY <2>4, <2>5, LookupFront
  <2>7. <<Lookup(front), Last(path), i>> \in L
    <3>1. Len(path) \in 1 .. Len(path)
      BY <2>6
    <3> QED
      BY <1>3, <2>3, <2>6, <3>1 DEF Lookup
  <2>8. Lookup(front) = p /\ Last(path) = n
    BY <2>7, LinkFacts
  <2>9. /\ p \in used /\ nodes[p].type = "Directory" /\ p # NoPath /\ p # i
        /\ n \in Name
    <3>1. p \in used /\ nodes[p].type = "Directory" /\ n \in Name
      BY LinkFacts
    <3>2. NoPath \notin used
      BY NodeFacts, NamespaceAssumption DEF NoPath, Inode
    <3>3. <<p, n, i>>[1] = p
      OBVIOUS
    <3> QED
      BY <3>1, <3>2, <3>3
  <2>10. /\ IsDir(front) /\ Lookup(front) # i
         /\ \A k \in 1 .. Len(front) : <<Walk(front)[k - 1], front[k], Walk(front)[k]>> \in L
    <3>1. IsDir(front)
      BY <2>8, <2>9 DEF IsDir
    <3> QED
      BY <2>6, <2>8, <2>9, <3>1, WalkArrives
  <2>11. \A k \in 1 .. Len(front) : <<Walk(front)[k - 1], front[k], Walk(front)[k]>> \in L'
    BY <2>6, <2>10, PathStays
  <2>12. nodes'[Lookup(front)].type = "Directory"
    BY <2>8, <2>9
  <2>13. IsDir(front)' /\ Lookup(front)' = p
    BY <2>6, <2>8, <2>10, <2>11, <2>12, DirStays
  <2>14. <<p, n, i>> \notin L' /\ L' \subseteq L
    OBVIOUS
  <2>15. ~Has(nodes'[p], n)
    <3>1. p \in used' /\ nodes'[p].type = "Directory" /\ n \in ClientName
      BY <2>6, <2>8, <2>9, <2>12
    <3> QED
      BY <2>14, <3>1, EntryGone
  <2>16. IsDir(Front(path))' /\ Parent(path)' = p
    BY <2>5, <2>13 DEF Parent, IsDir, Lookup, NoPath
  <2>17. Has(nodes[Parent(path)], Last(path))' <=> Has(nodes'[p], n)
    BY <2>8, <2>16 DEF Has, Entries
  <2> QED
    BY <2>1, <2>15, <2>16, <2>17
<1>4. IsDir(cur_path) = IsDir(path) /\ IsDir(cur_path)' = IsDir(path)'
  BY <1>1 DEF IsDir, Lookup, NoPath
<1>5. ASSUME IsDir(path), Lookup(path) = i
      PROVE  OnlyItGoes
  BY <1>1, <1>3, <1>5 DEF OnlyItGoes, IsDir, Lookup, Parent, NoPath
<1> QED
  BY <1>1, <1>2, <1>4, <1>5 DEF DirStep

\* What a call of FileSys keeps while the working directory is left alone.
CallKeeps == FilesInv' /\ DirStep /\ ReadsStep

\* A call that leaves the tree alone leaves the working directory there.
LEMMA CallStays ==
    ASSUME FilesInv, cur_path \in Seq(ClientName), UNCHANGED cur_path,
           FilesInv', UNCHANGED <<used, nodes, free_inodes, space>>
    PROVE  DirStep
<1>1. L' = L
  BY TreeStays DEF FilesInv
<1> QED
  BY <1>1, SameDir DEF FilesInv

\* The operations on names.
LEMMA CallCreates ==
    ASSUME FilesInv, cur_path \in Seq(ClientName), UNCHANGED cur_path,
           NEW p \in used, NEW n \in ClientName, Touch(p, n) \/ MkDir(p, n)
    PROVE  CallKeeps
<1>1. /\ FilesInv' /\ ret' \in {"touch", "mkdir", "failed"} /\ L \subseteq L'
      /\ \A i \in used : nodes'[i].type = nodes[i].type
  BY TouchInv, MkDirInv
<1> QED
  BY <1>1, SameDir DEF CallKeeps, ReadsStep, FilesInv

\* A call that is refused leaves all as it was.
LEMMA CallRefused ==
    ASSUME FilesInv, cur_path \in Seq(ClientName), UNCHANGED cur_path,
           UNCHANGED <<used, nodes, free_inodes, space>>, ret' = "failed",
           HandlesStay, UNCHANGED wrote
    PROVE  CallKeeps
<1>1. FilesInv'
  BY RefusedInv
<1> QED
  BY <1>1, CallStays DEF CallKeeps, ReadsStep

\* rm and rmdir: what they take away is not the working directory, or that is empty.
LEMMA CallRemoves ==
    ASSUME FilesInv, cur_path \in Seq(ClientName), UNCHANGED cur_path,
           NEW p \in used, NEW n \in ClientName, ~IsOpen(p, n), Rm(p, n) \/ RmDir(p, n)
    PROVE  CallKeeps
<1>1. PICK op \in {"rm", "rmdir"} :
        /\ RemoveDirItem(p, n, op) /\ wrote' = Without(wrote, <<p, n>>) /\ HandlesStay
        /\ op = "rm" => nodes[Target(p, n)].type = "File"
  BY DEF Rm, RmDir, RemoveFile, RemoveDir
<1>2. FilesInv' /\ ret' = op
  BY <1>1, RemoveInv
<1>3. PICK i : i = Target(p, n)
  OBVIOUS
<1>4. /\ <<p, n, i>> \in L /\ L' = L \ {<<p, n, i>>}
      /\ nodes[i].type = "Directory" => IsDirEmpty(i)
      /\ \A l \in L : l[1] # i
      /\ \A d \in used \ {i} : d \in used' /\ nodes'[d].type = nodes[d].type
  BY <1>1, <1>3, UnlinkedTree DEF FilesInv
<1>5. nodes[i].type = "Directory" => IsDirEmpty(i) /\ ret' = "rmdir"
  BY <1>1, <1>2, <1>3, <1>4
<1>6. TreeInv /\ TreeInv'
  BY <1>2 DEF FilesInv
<1>7. DirStep
  BY <1>4, <1>5, <1>6, RemovedDir
<1> QED
  BY <1>1, <1>2, <1>7 DEF CallKeeps, ReadsStep

\* The operations on descriptors.
LEMMA CallHandles ==
    ASSUME FilesInv, cur_path \in Seq(ClientName), UNCHANGED cur_path, NEW fd \in Fd,
           \/ Close(fd)
           \/ \E v \in Value : Write(fd, v)
           \/ \E n \in 1 .. Chunk : Read(fd, n)
           \/ \E off \in Offsets : Seek(fd, off)
           \/ BadDescriptor(fd)
    PROVE  CallKeeps
<1>1. CASE Close(fd)
  <2>1. FilesInv' /\ ret' = "done" /\ UNCHANGED <<used, nodes, free_inodes, space>>
    BY <1>1, CloseInv DEF Close
  <2> QED
    BY <2>1, CallStays DEF CallKeeps, ReadsStep
<1>2. ASSUME NEW v \in Value, Write(fd, v)
      PROVE  CallKeeps
  <2>1. /\ FilesInv' /\ ret' \in {"write", "failed"} /\ L' = L
        /\ \A i \in Inode : nodes'[i].type = nodes[i].type
    BY <1>2, WriteInv
  <2>2. \A i \in used : nodes'[i].type = nodes[i].type
    BY <2>1, NodeFacts DEF FilesInv
  <2> QED
    BY <2>1, <2>2, SameDir DEF CallKeeps, ReadsStep, FilesInv
<1>3. ASSUME NEW n \in 1 .. Chunk, Read(fd, n)
      PROVE  CallKeeps
  <2>1. n \in Nat \ {0}
    BY ShellAssumption
  <2>2. FilesInv' /\ fd \in DOMAIN fd_table /\ ReadStep(fd)
    BY <1>3, <2>1, ReadInv
  <2>3. UNCHANGED <<used, nodes, free_inodes, space>>
    BY <1>3 DEF Read
  <2> QED
    BY <2>2, <2>3, CallStays DEF CallKeeps, ReadsStep
<1>4. ASSUME NEW off \in Offsets, Seek(fd, off)
      PROVE  CallKeeps
  <2>1. FilesInv' /\ ret' = "done" /\ UNCHANGED <<used, nodes, free_inodes, space>>
    BY <1>4, SeekInv DEF Seek
  <2> QED
    BY <2>1, CallStays DEF CallKeeps, ReadsStep
<1>5. CASE BadDescriptor(fd)
  <2>1. FilesInv' /\ ret' = "failed" /\ UNCHANGED <<used, nodes, free_inodes, space>>
    BY <1>5, BadDescriptorInv DEF BadDescriptor
  <2> QED
    BY <2>1, CallStays DEF CallKeeps, ReadsStep
<1> QED
  BY <1>1, <1>2, <1>3, <1>4, <1>5

\* open, from the command line.
LEMMA CallOpens ==
    ASSUME FilesInv, cur_path \in Seq(ClientName), UNCHANGED cur_path,
           NEW p \in used, NEW n \in ClientName, NEW off \in 0 .. BlockItems, Open(p, n, off)
    PROVE  CallKeeps
<1>1. FilesInv' /\ ret' \in {"open", "failed"} /\ UNCHANGED <<used, nodes, free_inodes, space>>
  BY OpenInv DEF Open
<1> QED
  BY <1>1, CallStays DEF CallKeeps, ReadsStep

-----------------------------------------------------------------------------
\* Arguments are paths, and a path whose parent is there is a name in an inode.
LEMMA ArgumentIs ==
    ASSUME cur_path \in Seq(ClientName), NEW path \in Arguments
    PROVE  path \in Seq(ClientName)
<1>1. PICK n \in ClientName \cup {Dot, DotDot} : path = Joined(cur_path, n)
  BY DEF Arguments
<1>2. n \notin {Dot, DotDot} => Append(cur_path, n) \in Seq(ClientName)
  BY <1>1
<1>3. cur_path # <<>> => Front(cur_path) \in Seq(ClientName)
  <2> SUFFICES ASSUME cur_path # <<>> PROVE Front(cur_path) \in Seq(ClientName)
    OBVIOUS
  <2>1. Len(cur_path) \in Nat \ {0}
    OBVIOUS
  <2>2. SubSeq(cur_path, 1, Len(cur_path) - 1) \in Seq(ClientName)
    BY <2>1
  <2> QED
    BY <2>2 DEF Front
<1> QED
  BY <1>1, <1>2, <1>3 DEF Joined

\* What a path's parent leads to, where create and open go on.
LEMMA ParentIs ==
    ASSUME TreeInv, NEW path \in Seq(ClientName), ~NoParent(path)
    PROVE  Parent(path) \in used /\ Last(path) \in ClientName
<1>1. path # <<>> /\ Lookup(Front(path)) # NoPath
  BY DEF NoParent
<1> QED
  BY <1>1, LookupFront DEF Parent

\* What a step of cat must show.
CatStep ==
    task.cmd = "cat" /\ task' = Idle =>
        /\ shown = [k \in DOMAIN File(task.fd) |-> File(task.fd)[k].name]
        /\ fd_table' = Without(fd_table, task.fd)

\* All that is to be shown of a step.
StepKeeps == ShellInv' /\ DirStep /\ CatStep /\ (ReadsStep \/ UNCHANGED allVars)

\* No command, or one of several calls that is not cat.
LEMMA IdleIs == Idle.cmd = "none"
  BY DEF Idle

\* A call keeps the invariant, if what is left to do is well formed.
LEMMA CallStep ==
    ASSUME ShellInv, CallKeeps, UNCHANGED <<cur_path, shown>>,
           task.cmd # "cat", task'.cmd # "cat", TaskInv'
    PROVE  StepKeeps
<1>1. CatInv' /\ CatStep
  BY DEF CatInv, CatStep
<1>2. ShellInv'
  BY <1>1 DEF ShellInv, CallKeeps, FilesInv
<1> QED
  BY <1>1, <1>2 DEF StepKeeps, CallKeeps

\* A command that is one call.
LEMMA SimpleStep ==
    ASSUME ShellInv, Simple
    PROVE  StepKeeps
<1>1. /\ FilesInv /\ cur_path \in Seq(ClientName) /\ UNCHANGED cur_path /\ TreeInv
      /\ task = Idle /\ UNCHANGED <<task, shown>> /\ task.cmd # "cat"
  BY IdleIs DEF ShellInv, FilesInv, Simple
<1>2. CallKeeps => StepKeeps
  <2>1. TaskInv'
    BY <1>1 DEF ShellInv, TaskInv
  <2> QED
    BY <1>1, <2>1, CallStep
<1>3. ASSUME NEW path \in Placed
      PROVE  Parent(path) \in used /\ Last(path) \in ClientName
  <2>1. path \in Arguments /\ ~NoParent(path)
    BY DEF Placed
  <2> QED
    BY <1>1, <2>1, ArgumentIs, ParentIs
<1>4. CASE Refused /\ HandlesStay /\ UNCHANGED wrote
  <2>1. UNCHANGED <<used, nodes, free_inodes, space>> /\ ret' = "failed"
    BY <1>4 DEF Refused, CannotCreate, CreateRefused, RemoveRefused
  <2> QED
    BY <1>1, <1>2, <1>4, <2>1, CallRefused
<1>5. CASE Creation
  <2>1. PICK path \in Placed :
            Touch(Parent(path), Last(path)) \/ MkDir(Parent(path), Last(path))
    BY <1>5 DEF Creation
  <2> QED
    BY <1>1, <1>2, <1>3, <2>1, CallCreates
<1>6. CASE Removal
  <2>1. PICK path \in Placed :
            /\ ~IsOpen(Parent(path), Last(path))
            /\ Rm(Parent(path), Last(path)) \/ RmDir(Parent(path), Last(path))
    BY <1>6 DEF Removal
  <2> QED
    BY <1>1, <1>2, <1>3, <2>1, CallRemoves
<1>7. ASSUME NEW off \in Offsets, OpenAt(off)
      PROVE  StepKeeps
  <2>1. PICK path \in Placed : Open(Parent(path), Last(path), off)
    BY <1>7 DEF OpenAt
  <2>2. off \in 0 .. BlockItems
    BY HandleAssumption
  <2> QED
    BY <1>1, <1>2, <1>3, <2>1, <2>2, CallOpens
<1>8. ASSUME NEW fd \in Fd,
             \/ Close(fd)
             \/ \E v \in Value : Write(fd, v)
             \/ \E n \in 1 .. Chunk : Read(fd, n)
             \/ \E off \in Offsets : Seek(fd, off)
             \/ BadDescriptor(fd)
      PROVE  StepKeeps
  BY <1>1, <1>2, <1>8, CallHandles
<1> QED
  BY <1>4, <1>5, <1>6, <1>7, <1>8 DEF Simple

\* cd goes to a directory that is there, or stays.
LEMMA CdStep ==
    ASSUME ShellInv, Cd
    PROVE  StepKeeps
<1>1. UNCHANGED <<allVars, task, shown>> /\ task = Idle
  BY DEF Cd
<1>2. PICK path \in Arguments \cup {<<>>} : cur_path' = IF IsDir(path) THEN path ELSE cur_path
  BY DEF Cd
<1>3. cur_path \in Seq(ClientName) /\ path \in Seq(ClientName) /\ TreeInv
  <2>1. cur_path \in Seq(ClientName) /\ TreeInv
    BY DEF ShellInv
  <2>2. path \in Arguments => path \in Seq(ClientName)
    BY <2>1, ArgumentIs
  <2>3. path = <<>> => path \in Seq(ClientName)
    OBVIOUS
  <2> QED
    BY <1>2, <2>1, <2>2, <2>3
<1>4. cur_path' \in Seq(ClientName)
  BY <1>2, <1>3
<1>5. UNCHANGED <<used, nodes, free_inodes, space>>
      /\ UNCHANGED <<fd_table, cur_fd, closed, opened, wrote, got>>
  BY <1>1 DEF allVars, handleVars
<1>6. TreeInv' /\ \A p, n, i : NamedFile(p, n, i)' <=> NamedFile(p, n, i)
  BY <1>3, <1>5, TreeStays
<1>7. HandlesInv'
  BY <1>5, <1>6 DEF ShellInv, HandlesInv
<1>8. FilesInv'
  BY <1>5, <1>7, StaysInv DEF ShellInv, FilesInv
<1>9. CatInv' /\ TaskInv' /\ CatStep
  BY <1>1, IdleIs DEF ShellInv, TaskInv, CatInv, CatStep
<1>10. ShellInv'
  BY <1>4, <1>8, <1>9 DEF ShellInv, FilesInv
<1>11. IsDir(cur_path) => IsDir(cur_path)'
  <2>1. \/ cur_path' = cur_path
        \/ cur_path' = path /\ IsDir(path)
    BY <1>2
  <2>2. PICK target : target = cur_path'
    OBVIOUS
  <2>3. IsDir(cur_path)' <=> IsDir(target)
    BY <1>5, <2>2 DEF IsDir, Lookup, Walk, Entered, Has, Entries, Target, FirstEntry, NoPath
  <2> QED
    BY <2>1, <2>2, <2>3
<1> QED
  BY <1>1, <1>9, <1>10, <1>11 DEF StepKeeps, DirStep

\* format and the return to the root.
LEMMA FormatStep ==
    ASSUME ShellInv, FormatDisk
    PROVE  StepKeeps
<1>1. /\ fd_table = NoHandles /\ cur_path' = <<>> /\ FormatAll
      /\ UNCHANGED <<task, shown>> /\ task = Idle
  BY DEF FormatDisk
<1>2. /\ FilesInv' /\ ret' = "format" /\ Root \in used' /\ nodes'[Root].type = "Directory"
  BY <1>1, FormatAllInv DEF ShellInv, FilesInv
<1>3. CatInv' /\ TaskInv' /\ CatStep
  BY <1>1, IdleIs DEF ShellInv, TaskInv, CatInv, CatStep
<1>4. cur_path' \in Seq(ClientName)
  BY <1>1
<1>5. IsDir(cur_path)'
  <2>1. TreeInv' => AllTurns'
    BY TurnsAlways, PTL
  <2>2. PICK path \in Seq(ClientName) : path = <<>>
    <3>1. <<>> \in Seq(ClientName)
      OBVIOUS
    <3> QED
      BY <3>1
  <2>3. PathTurns(path)'
    BY <1>2, <2>1 DEF AllTurns, FilesInv
  <2>4. Walk(path)'[0] = Root /\ Len(path) = 0
    BY <2>2, <2>3 DEF PathTurns
  <2>5. Root # NoPath
    BY NamespaceAssumption DEF Root, NoPath
  <2>6. IsDir(cur_path)' <=> Walk(path)'[0] # NoPath /\ nodes'[Walk(path)'[0]].type = "Directory"
    BY <1>1, <2>2, <2>4 DEF IsDir, Lookup, NoPath
  <2> QED
    BY <1>2, <2>4, <2>5, <2>6
<1>6. ShellInv'
  BY <1>2, <1>3, <1>4 DEF ShellInv, FilesInv
<1> QED
  BY <1>2, <1>3, <1>5, <1>6 DEF StepKeeps, DirStep, ReadsStep

\* One turn of mkdirn or touchn, whether it is the first or a later one.
LEMMA TurnStep ==
    ASSUME ShellInv, NEW cmd \in {"mkdirn", "touchn"}, NEW names \in Seq(ClientName),
           names # <<>>, Turn(cmd, names), task.cmd # "cat"
    PROVE  StepKeeps
<1>1. PICK path : path = Append(cur_path, Head(names))
  OBVIOUS
<1>2. /\ Head(names) \in ClientName /\ cur_path \in Seq(ClientName) /\ TreeInv /\ FilesInv
      /\ Len(names) \in Nat \ {0}
  BY DEF ShellInv, FilesInv
<1>3. path \in Seq(ClientName)
  BY <1>1, <1>2
<1>4. ~NoParent(path) => Parent(path) \in used /\ Last(path) \in ClientName
  BY <1>2, <1>3, ParentIs
<1>5. UNCHANGED <<cur_path, shown>>
      /\ task' = IF Len(names) = 1 THEN Idle ELSE [cmd |-> cmd, left |-> Tail(names)]
  BY DEF Turn
<1>6. \/ ~NoParent(path) /\ (MkDir(Parent(path), Last(path)) \/ Touch(Parent(path), Last(path)))
      \/ CannotCreate(path) /\ HandlesStay /\ UNCHANGED wrote
  BY <1>1 DEF Turn
<1>7. CallKeeps
  <2>1. CASE ~NoParent(path) /\ (MkDir(Parent(path), Last(path)) \/ Touch(Parent(path), Last(path)))
    BY <1>2, <1>4, <1>5, <2>1, CallCreates
  <2>2. CASE CannotCreate(path) /\ HandlesStay /\ UNCHANGED wrote
    <3>1. UNCHANGED <<used, nodes, free_inodes, space>> /\ ret' = "failed"
      BY <2>2 DEF CannotCreate, CreateRefused
    <3> QED
      BY <1>2, <1>5, <2>2, <3>1, CallRefused
  <2> QED
    BY <1>6, <2>1, <2>2
<1>8. task'.cmd # "cat" /\ TaskInv'
  <2>1. shown' = <<>>
    BY <1>5 DEF ShellInv, TaskInv
  <2>2. CASE Len(names) = 1
    BY <1>5, <2>1, <2>2, IdleIs DEF TaskInv
  <2>3. CASE Len(names) # 1
    <3>1. Tail(names) \in Seq(ClientName) /\ Len(Tail(names)) = Len(names) - 1
      BY <1>2
    <3>2. Tail(names) # <<>>
      <4>1. Len(Tail(names)) # 0
        BY <1>2, <2>3, <3>1
      <4>2. Len(<<>>) = 0
        OBVIOUS
      <4> QED
        BY <4>1, <4>2
    <3>3. /\ task'.cmd = cmd /\ task'.left = Tail(names)
      BY <1>5, <2>3
    <3> QED
      BY <2>1, <3>1, <3>2, <3>3 DEF TaskInv
  <2> QED
    BY <2>2, <2>3
<1> QED
  BY <1>5, <1>7, <1>8, CallStep

\* mkdirn and touchn begin, ...
LEMMA BatchStep ==
    ASSUME ShellInv, Batch
    PROVE  StepKeeps
<1>1. PICK cmd \in {"mkdirn", "touchn"}, names \in Numbered : Turn(cmd, names)
  BY DEF Batch
<1>2. PICK n \in 1 .. Cardinality(ClientName) : names \in [1 .. n -> ClientName]
  BY DEF Numbered
<1>3. n \in Nat \ {0}
  BY <1>2
<1>4. names \in Seq(ClientName) /\ Len(names) = n
  BY <1>2, <1>3, SequenceIs
<1>5. names # <<>> /\ task.cmd # "cat"
  BY <1>3, <1>4, IdleIs DEF Batch
<1> QED
  BY <1>1, <1>4, <1>5, TurnStep

\* ... and make one of their names at each turn.
LEMMA BatchTurnStep ==
    ASSUME ShellInv, BatchTurn
    PROVE  StepKeeps
<1>1. task.cmd \in {"mkdirn", "touchn"} /\ Turn(task.cmd, task.left)
  BY DEF BatchTurn
<1>2. task.left \in Seq(ClientName) /\ task.left # <<>>
  BY <1>1, IdleIs DEF ShellInv, TaskInv
<1> QED
  BY <1>1, <1>2, TurnStep

-----------------------------------------------------------------------------
\* What cat reads is a file.
OpenFiles == \A fd \in DOMAIN fd_table : File(fd) \in Seq(DirItem) /\ Len(File(fd)) \in Nat

LEMMA OpenFilesAlways == FilesInv => OpenFiles
<1> SUFFICES ASSUME FilesInv PROVE OpenFiles
  OBVIOUS
<1> QED
  BY HandleFacts, NamespaceAssumption DEF OpenFiles, File

\* Names of the first entries, with the next ones behind them, are the names of more.
LEMMA MoreShown ==
    ASSUME NEW items \in Seq(DirItem), NEW off \in Nat, NEW more \in Seq(Value \cup {Zero}),
           off + Len(more) <= Len(items),
           \A k \in 1 .. Len(more) : more[k] = items[off + k].name
    PROVE  [k \in 1 .. off |-> items[k].name] \o more
             = [k \in 1 .. off + Len(more) |-> items[k].name]
<1> DEFINE first == [k \in 1 .. off |-> items[k].name]
           m == Len(more)
           both == first \o more
<1>1. m \in Nat /\ Len(items) \in Nat /\ \A k \in 1 .. Len(items) : items[k].name \in AnyName
  <2>1. m \in Nat /\ Len(items) \in Nat /\ \A k \in 1 .. Len(items) : items[k] \in DirItem
    OBVIOUS
  <2>2. \A item \in DirItem : item.name \in AnyName
    BY DEF DirItem
  <2> QED
    BY <2>1, <2>2
<1>2. first \in Seq(AnyName) /\ Len(first) = off
  <2>1. first \in [1 .. off -> AnyName]
    BY <1>1
  <2> HIDE DEF first
  <2> QED
    BY <2>1, SequenceIs
<1>3. more \in Seq(AnyName)
  <2>1. \A k \in 1 .. m : more[k] \in AnyName
    BY <1>1
  <2>2. more = [k \in 1 .. m |-> more[k]]
    OBVIOUS
  <2>3. more \in [1 .. m -> AnyName]
    BY <2>1, <2>2
  <2> QED
    BY <1>1, <2>3, SequenceIs
<1>4. /\ both \in Seq(AnyName) /\ Len(both) = off + m
      /\ \A k \in 1 .. off + m : both[k] = IF k <= off THEN first[k] ELSE more[k - off]
  <2> HIDE DEF first
  <2> QED
    BY <1>2, <1>3, ConcatProperties
<1>5. \A k \in 1 .. off : first[k] = items[k].name
  OBVIOUS
<1> HIDE DEF first, both, m
<1>6. \A k \in 1 .. off + m : both[k] = items[k].name
  <2> SUFFICES ASSUME NEW k \in 1 .. off + m PROVE both[k] = items[k].name
    OBVIOUS
  <2>1. CASE k <= off
    BY <1>1, <1>4, <1>5, <2>1
  <2>2. CASE ~(k <= off)
    <3>1. k - off \in 1 .. m /\ off + (k - off) = k
      BY <1>1, <2>2
    <3>2. more[k - off] = items[k].name
      BY <3>1 DEF m
    <3> QED
      BY <1>4, <2>2, <3>2
  <2> QED
    BY <2>1, <2>2
<1>7. both = [k \in 1 .. off + m |-> both[k]]
  BY <1>1, <1>4
<1>8. both = [k \in 1 .. off + m |-> items[k].name]
  BY <1>6, <1>7
<1> QED
  BY <1>8 DEF both, first, m

\* cat begins with a handle at the start of the file, and nothing shown.
LEMMA CatStart ==
    ASSUME ShellInv, Cat
    PROVE  StepKeeps
<1>1. PICK path \in Placed : Open(Parent(path), Last(path), 0)
  BY DEF Cat, OpenAt
<1>2. /\ ret' = "open" /\ task = Idle /\ task' = [cmd |-> "cat", fd |-> cur_fd]
      /\ UNCHANGED <<cur_path, shown>>
  BY DEF Cat
<1>3. FilesInv /\ cur_path \in Seq(ClientName) /\ TreeInv /\ 0 \in 0 .. BlockItems
  BY NamespaceAssumption DEF ShellInv, FilesInv
<1>4. Parent(path) \in used /\ Last(path) \in ClientName
  <2>1. path \in Arguments /\ ~NoParent(path)
    BY DEF Placed
  <2> QED
    BY <1>3, <2>1, ArgumentIs, ParentIs
<1>5. CallKeeps
  BY <1>1, <1>2, <1>3, <1>4, CallOpens
<1>6. cur_fd \in DOMAIN fd_table' /\ fd_table'[cur_fd].offset = 0
  BY <1>1, <1>2, <1>3, <1>4, OpenInv
<1>7. shown' = <<>> /\ task'.cmd = "cat" /\ task'.fd = cur_fd
  BY <1>2, IdleIs DEF ShellInv, TaskInv
<1>8. FilesInv' => OpenFiles'
  BY OpenFilesAlways, PTL
<1>9. PICK fd : fd = cur_fd
  OBVIOUS
<1>10. fd \in DOMAIN fd_table' /\ Len(File(fd)') \in Nat
  BY <1>5, <1>6, <1>8, <1>9 DEF CallKeeps, OpenFiles
<1>11. CatInv'
  <2>1. fd_table'[fd].offset = 0 /\ task'.fd = fd
    BY <1>6, <1>7, <1>9
  <2>2. 0 <= Len(File(fd)')
    BY <1>10
  <2>3. shown' = [k \in 1 .. 0 |-> File(fd)'[k].name]
    BY <1>7
  <2>4. File(task.fd)' = File(fd)'
    BY <2>1 DEF File
  <2> QED
    BY <1>10, <2>1, <2>2, <2>3, <2>4 DEF CatInv
<1>12. TaskInv' /\ CatStep
  BY <1>2, <1>7, IdleIs DEF TaskInv, CatStep
<1>13. ShellInv'
  BY <1>2, <1>3, <1>5, <1>11, <1>12 DEF ShellInv, CallKeeps, FilesInv
<1> QED
  BY <1>5, <1>12, <1>13 DEF StepKeeps, CallKeeps

\* Descriptors in use are within the bound.
LEMMA OpenIsFd ==
    ASSUME FilesInv, NEW fd \in DOMAIN fd_table
    PROVE  fd \in Fd
<1>1. cur_fd \in 0 .. MaxFd /\ fd \in 0 .. cur_fd - 1 /\ MaxFd \in Nat
  BY HandleAssumption DEF FilesInv, HandlesInv
<1> QED
  BY <1>1 DEF Fd

\* cat reads a chunk and prints it, ...
LEMMA CatTurnStep ==
    ASSUME ShellInv, CatTurn
    PROVE  StepKeeps
<1>1. PICK fd : fd = task.fd
  OBVIOUS
<1>2. PICK items, off : items = File(fd) /\ off = fd_table[fd].offset
  OBVIOUS
<1>3. /\ task.cmd = "cat" /\ Read(fd, Chunk) /\ shown' = shown \o got'
      /\ UNCHANGED <<cur_path, task>>
  BY <1>1 DEF CatTurn
<1>4. /\ FilesInv /\ cur_path \in Seq(ClientName) /\ fd \in DOMAIN fd_table
      /\ off <= Len(items) /\ shown = [k \in 1 .. off |-> items[k].name]
      /\ items \in Seq(DirItem) /\ Len(items) \in Nat /\ off \in Nat
  <2>1. FilesInv /\ cur_path \in Seq(ClientName)
    BY DEF ShellInv, FilesInv
  <2>2. /\ fd \in DOMAIN fd_table /\ off <= Len(items)
        /\ shown = [k \in 1 .. off |-> items[k].name]
    BY <1>1, <1>2, <1>3 DEF ShellInv, CatInv
  <2>3. off \in 0 .. BlockItems /\ BlockItems \in Nat
    BY <1>2, <2>1, <2>2, HandleFacts, NamespaceAssumption
  <2>4. items \in Seq(DirItem) /\ Len(items) \in Nat
    BY <1>2, <2>1, <2>2, OpenFilesAlways DEF OpenFiles
  <2> QED
    BY <2>1, <2>2, <2>3, <2>4
<1>5. /\ FilesInv' /\ ReadStep(fd) /\ DOMAIN fd_table' = DOMAIN fd_table
      /\ fd_table'[fd].inode_id = fd_table[fd].inode_id
      /\ \A k \in 1 .. Len(got') : got'[k] = items[off + k].name
      /\ ret' = "read"
  <2>1. fd \in Fd /\ Chunk \in Nat \ {0}
    BY <1>4, OpenIsFd, ShellAssumption
  <2> QED
    BY <1>2, <1>3, <1>4, <2>1, ReadInv
<1>6. /\ fd_table'[fd].offset = off + Len(got') /\ off + Len(got') <= Len(items)
      /\ got' \in Seq(Value \cup {Zero}) /\ Len(got') \in Nat
  BY <1>2, <1>4, <1>5 DEF ReadStep, File, FilesInv
<1>7. UNCHANGED <<used, nodes, free_inodes, space>>
  BY <1>3 DEF Read
<1>8. File(fd)' = items
  BY <1>2, <1>5, <1>7 DEF File
<1>9. shown' = [k \in 1 .. off + Len(got') |-> items[k].name]
  BY <1>3, <1>4, <1>5, <1>6, MoreShown
<1>10. CatInv'
  <2>1. task'.fd = fd /\ File(task.fd)' = items
    BY <1>1, <1>3, <1>8 DEF File
  <2> QED
    BY <1>4, <1>5, <1>6, <1>9, <2>1 DEF CatInv
<1>11. TaskInv' /\ CatStep
  BY <1>3, IdleIs DEF TaskInv, CatStep
<1>12. ShellInv'
  BY <1>3, <1>4, <1>5, <1>10, <1>11 DEF ShellInv, FilesInv
<1>13. DirStep
  BY <1>3, <1>4, <1>5, <1>7, CallStays
<1>14. ReadsStep
  BY <1>4, <1>5 DEF ReadsStep
<1> QED
  BY <1>11, <1>12, <1>13, <1>14 DEF StepKeeps

\* ... until a read returns nothing: then all was shown.
LEMMA CatEndStep ==
    ASSUME ShellInv, CatEnd
    PROVE  StepKeeps
<1>1. PICK fd : fd = task.fd
  OBVIOUS
<1>2. PICK items, off : items = File(fd) /\ off = fd_table[fd].offset
  OBVIOUS
<1>3. /\ task.cmd = "cat" /\ Close(fd) /\ task' = Idle /\ shown' = <<>> /\ UNCHANGED cur_path
      /\ ReadCount(Len(items), off, Chunk) = 0
  BY <1>1, <1>2 DEF CatEnd, AtEnd
<1>4. /\ FilesInv /\ cur_path \in Seq(ClientName) /\ fd \in DOMAIN fd_table
      /\ off <= Len(items) /\ shown = [k \in 1 .. off |-> items[k].name]
      /\ items \in Seq(DirItem) /\ Len(items) \in Nat /\ off \in Nat
  <2>1. FilesInv /\ cur_path \in Seq(ClientName)
    BY DEF ShellInv, FilesInv
  <2>2. /\ fd \in DOMAIN fd_table /\ off <= Len(items)
        /\ shown = [k \in 1 .. off |-> items[k].name]
    BY <1>1, <1>2, <1>3 DEF ShellInv, CatInv
  <2>3. off \in 0 .. BlockItems /\ BlockItems \in Nat
    BY <1>2, <2>1, <2>2, HandleFacts, NamespaceAssumption
  <2>4. items \in Seq(DirItem) /\ Len(items) \in Nat
    BY <1>2, <2>1, <2>2, OpenFilesAlways DEF OpenFiles
  <2> QED
    BY <2>1, <2>2, <2>3, <2>4
<1>5. off = Len(items)
  BY <1>3, <1>4, ShellAssumption DEF ReadCount
<1>6. CatStep
  <2>1. DOMAIN items = 1 .. off
    BY <1>4, <1>5
  <2>2. shown = [k \in DOMAIN items |-> items[k].name]
    BY <1>4, <2>1
  <2>3. fd_table' = Without(fd_table, fd)
    BY <1>3 DEF Close
  <2> QED
    BY <1>1, <1>2, <2>2, <2>3 DEF CatStep
<1>7. FilesInv' /\ ret' = "done"
  <2>1. fd \in Fd
    BY <1>4, OpenIsFd
  <2> QED
    BY <1>3, <1>4, <2>1, CloseInv
<1>8. CatInv' /\ TaskInv'
  BY <1>3, IdleIs DEF CatInv, TaskInv
<1>9. ShellInv'
  BY <1>3, <1>4, <1>7, <1>8 DEF ShellInv, FilesInv
<1>10. DirStep
  <2>1. UNCHANGED <<used, nodes, free_inodes, space>>
    BY <1>3 DEF Close
  <2> QED
    BY <1>3, <1>4, <1>7, <2>1, CallStays
<1> QED
  BY <1>6, <1>7, <1>9, <1>10 DEF StepKeeps, ReadsStep

-----------------------------------------------------------------------------
\* A new file system and no file open.
LEMMA ShellInit == InitShell => ShellInv
<1> SUFFICES ASSUME InitShell PROVE ShellInv
  OBVIOUS
<1>1. /\ FreshTree /\ fd_table = NoHandles /\ cur_fd = 0 /\ closed = {} /\ opened = NoHandles
      /\ wrote = NoHandles /\ got = <<>> /\ cur_path = <<>> /\ task = Idle /\ shown = <<>>
  BY DEF InitShell, InitAll, Init, FreshTree
<1>2. TreeInv /\ L = {}
  BY <1>1, FreshPlanted DEF Planted
<1>3. WroteInv
  BY <1>1, <1>2, BareFiles
<1>4. HandlesInv
  BY <1>1, HandleAssumption DEF HandlesInv, NoHandles
<1>5. CatInv /\ TaskInv
  BY <1>1, IdleIs DEF CatInv, TaskInv
<1>6. cur_path \in Seq(ClientName) /\ got \in Seq(Value \cup {Zero})
  BY <1>1
<1> QED
  BY <1>2, <1>3, <1>4, <1>5, <1>6 DEF ShellInv

\* No step of the command line.
LEMMA StutterStep ==
    ASSUME ShellInv, UNCHANGED shellVars
    PROVE  StepKeeps
<1>1. /\ UNCHANGED <<used, nodes, free_inodes, space, ret>>
      /\ UNCHANGED <<fd_table, cur_fd, closed, opened, wrote, got>>
      /\ UNCHANGED <<cur_path, task, shown>> /\ UNCHANGED allVars
  BY DEF shellVars, allVars, handleVars
<1>2. FilesInv /\ cur_path \in Seq(ClientName)
  BY DEF ShellInv, FilesInv
<1>3. \A p, n, i : NamedFile(p, n, i)' <=> NamedFile(p, n, i)
  BY <1>1, <1>2, TreeStays DEF FilesInv
<1>4. HandlesInv'
  BY <1>1, <1>3 DEF ShellInv, HandlesInv
<1>5. FilesInv'
  BY <1>1, <1>2, <1>4, StaysInv DEF FilesInv
<1>6. TaskInv' /\ CatStep
  BY <1>1, IdleIs DEF ShellInv, TaskInv, CatStep
<1>7. CatInv'
  BY <1>1 DEF ShellInv, CatInv, File
<1>8. ShellInv'
  BY <1>1, <1>2, <1>5, <1>6, <1>7 DEF ShellInv, FilesInv
<1>9. DirStep
  BY <1>1, <1>2, <1>5, CallStays
<1> QED
  BY <1>1, <1>6, <1>8, <1>9 DEF StepKeeps

\* Every step keeps the invariant and does what is to be shown of steps.
LEMMA ShellStep == ShellInv /\ [NextShell]_shellVars => StepKeeps
  BY SimpleStep, CdStep, FormatStep, BatchStep, BatchTurnStep, CatStart, CatTurnStep, CatEndStep,
     StutterStep DEF NextShell

\* The invariant.
LEMMA ShellAlways == SpecShell => []ShellInv
<1>1. ShellInv /\ [NextShell]_shellVars => ShellInv'
  BY ShellStep DEF StepKeeps
<1> QED
  BY <1>1, ShellInit, PTL DEF SpecShell
-----------------------------------------------------------------------------
\* Handles stay on the files of the names they were opened by, for a client that
\* closes a file before it removes it.
THEOREM HandlesCorrect == SpecShell => []HandlesAreNames
<1>1. ShellInv => HandlesAreNames
  <2> SUFFICES ASSUME ShellInv PROVE HandlesAreNames
    OBVIOUS
  <2>1. TypeOKAll
    BY NodeFacts DEF ShellInv, HandlesInv, TypeOKAll
  <2>2. ASSUME NEW fd \in DOMAIN fd_table
        PROVE  /\ opened[fd][1] \in used /\ IsFile(opened[fd][1], opened[fd][2])
               /\ Target(opened[fd][1], opened[fd][2]) = fd_table[fd].inode_id
    <3>1. NamedFile(opened[fd][1], opened[fd][2], fd_table[fd].inode_id) /\ TreeInv
      BY DEF ShellInv, HandlesInv
    <3>2. opened[fd][1] \in used
      BY <3>1, NamedFileFacts
    <3> QED
      BY <3>1, <3>2, IsFileNamed
  <2>3. closed \cap DOMAIN fd_table = {}
    BY DEF ShellInv, HandlesInv
  <2> QED
    BY <2>1, <2>2, <2>3 DEF HandlesAreNames
<1> QED
  BY <1>1, ShellAlways, PTL

\* What was written under a name is in the file of that name.
THEOREM WrittenCorrect == SpecShell => []WrittenIsThere
<1>1. ShellInv => WrittenIsThere
  <2> SUFFICES ASSUME ShellInv, NEW name \in DOMAIN wrote
               PROVE  /\ IsFile(name[1], name[2])
                      /\ LET items == nodes[Target(name[1], name[2])].items
                         IN  \A o \in DOMAIN wrote[name] :
                                o < Len(items) /\ items[o + 1] = Unit(wrote[name][o])
    BY DEF WrittenIsThere
  <2>1. PICK i \in used : name = <<name[1], name[2]>> /\ NamedFile(name[1], name[2], i)
    BY DEF ShellInv, WroteInv
  <2>2. name[1] \in used /\ name[2] \in Name /\ TreeInv
    BY <2>1, NamedFileFacts DEF ShellInv
  <2>3. Holds(i, wrote[name])
    BY <2>1, <2>2 DEF ShellInv, WroteInv
  <2>4. IsFile(name[1], name[2]) /\ Target(name[1], name[2]) = i
    BY <2>1, <2>2, IsFileNamed
  <2> QED
    BY <2>3, <2>4 DEF Holds
<1> QED
  BY <1>1, ShellAlways, PTL

\* The path without its last name leads where ".." does.
THEOREM DotDotCorrect == SpecShell => []DotDotIsParent
<1>1. ShellInv => DotDotIsParent
  <2> SUFFICES ASSUME ShellInv, IsDir(cur_path)
               PROVE  nodes[Lookup(cur_path)].items[2].id = Lookup(Joined(cur_path, DotDot))
    BY DEF DotDotIsParent
  <2>1. cur_path \in Seq(ClientName) /\ TreeInv
    BY DEF ShellInv
  <2>2. /\ Lookup(cur_path) # NoPath /\ nodes[Lookup(cur_path)].type = "Directory"
        /\ Lookup(cur_path) = Walk(cur_path)[Len(cur_path)]
    BY DEF IsDir, Lookup
  <2>3. Joined(cur_path, DotDot) = IF cur_path = <<>> THEN cur_path ELSE Front(cur_path)
    BY NamespaceAssumption DEF Joined
  <2>4. CASE cur_path = <<>>
    <3>1. PathTurns(cur_path) /\ Len(cur_path) = 0
      BY <2>1, <2>4, WalkTurns
    <3>2. Lookup(cur_path) = Root
      BY <2>2, <3>1 DEF PathTurns
    <3> QED
      BY <2>1, <2>3, <2>4, <3>2 DEF TreeInv
  <2>5. CASE cur_path # <<>>
    <3> DEFINE n == Len(cur_path)
               f == Walk(cur_path)
    <3>1. Lookup(Front(cur_path)) = f[n - 1] /\ n \in Nat \ {0}
      BY <2>1, <2>5, LookupFront
    <3>2. <<f[n - 1], cur_path[n], f[n]>> \in L
      BY <2>1, <2>2, <3>1, WalkArrives
    <3> HIDE DEF f, n
    <3>3. nodes[f[n]].type = "Directory" => nodes[f[n]].items[2].id = f[n - 1]
      BY <2>1, <3>2, LinkFacts
    <3> QED
      BY <2>2, <2>3, <2>5, <3>1, <3>3 DEF f, n
  <2> QED
    BY <2>4, <2>5
<1> QED
  BY <1>1, ShellAlways, PTL

\* Reads go on where the last one stopped, and return what was written.
THEOREM ReadsCorrect == SpecShell => ReadsInOrder
<1>1. StepKeeps => [ret' = "read" => \E fd \in DOMAIN fd_table :
        LET off == fd_table[fd].offset
            size == Len(nodes[fd_table[fd].inode_id].items)
            known == wrote[opened[fd]]
        IN  /\ fd_table'[fd].offset = off + Len(got')
            /\ off <= size => off + Len(got') <= size
            /\ \A k \in DOMAIN got' :
                off + k - 1 \in DOMAIN known => got'[k] = known[off + k - 1]]_allVars
  BY DEF StepKeeps, ReadsStep, ReadStep
<1> QED
  BY <1>1, ShellStep, ShellAlways, PTL DEF SpecShell, ReadsInOrder

\* cat prints a file, all of it and once.
THEOREM CatCorrect == SpecShell => CatShowsFile
<1>1. StepKeeps => (task.cmd = "cat" /\ task' = Idle =>
        /\ shown = [k \in DOMAIN File(task.fd) |-> File(task.fd)[k].name]
        /\ fd_table' = Without(fd_table, task.fd))
  BY DEF StepKeeps, CatStep
<1> QED
  BY <1>1, ShellStep, ShellAlways, PTL DEF SpecShell, CatShowsFile

\* Only an rmdir of the working directory itself takes it away: it was empty, its
\* name is gone from the directory above, and that one is still there.
THEOREM WorkingDirCorrect == SpecShell => WorkingDirKept
<1>1. StepKeeps => (IsDir(cur_path) /\ ~IsDir(cur_path)' =>
        /\ ret' = "rmdir" /\ IsDirEmpty(Lookup(cur_path))
        /\ IsDir(Front(cur_path))' /\ ~Has(nodes[Parent(cur_path)], Last(cur_path))')
  BY DEF StepKeeps, DirStep, OnlyItGoes
<1> QED
  BY <1>1, ShellStep, ShellAlways, PTL DEF SpecShell, WorkingDirKept
=============================================================================
